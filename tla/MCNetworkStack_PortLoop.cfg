CONSTANTS
    e1 = e1
    e2 = e2
    a1 = a1
    a2 = a2
    b1 = b1
    b2 = b2
    NoIp = NoIp
    Ifaces <- MCOneIface
    LocalIps <- MCOneLocalIp
    Addrs <- MCAddrs
    Nets <- MCOneNet
    UserRoutes <- MCNoRoutes
    Ports <- MCPorts
    LocalPortStart = 3
    LocalPortEnd = 5
    MaxIcmp = 1
SPECIFICATION Spec
PROPERTY
    UdpListenReturns
