CONSTANTS
    l1 = l1
    l2 = l2
    r1 = r1
    r2 = r2
    m1 = m1
    m2 = m2
    NoMac = NoMac
    NoIp = NoIp
    BroadcastMac = BroadcastMac
    LocalIps <- MCLocalIps
    RemoteIps <- MCRemoteIps
    Macs <- MCMacs
    Mtus <- MCMtus
    DefaultMtu = 1500
    Nets <- MCNets
    MaxHandles = 2
    MaxFrames = 2
    MaxVersion = 1
SPECIFICATION Spec
INVARIANTS
    TypeOK
    HandleCurrentMtu
    NoLostWakeup
    WorkerOutlivesInterface
PROPERTIES
    ArpWaitEnds
    DropCompletes
CHECK_DEADLOCK FALSE
