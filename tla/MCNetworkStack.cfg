CONSTANTS
    e1 = e1
    e2 = e2
    a1 = a1
    a2 = a2
    b1 = b1
    b2 = b2
    NoIp = NoIp
    Ifaces <- MCIfaces
    LocalIps <- MCLocalIps
    Addrs <- MCAddrs
    Nets <- MCNets
    UserRoutes <- MCUserRoutes
    Ports <- MCPorts
    LocalPortStart = 3
    LocalPortEnd = 4
    MaxIcmp = 1
SPECIFICATION Spec
INVARIANTS
    TypeOK
    AddedRoutesUsable
