\* Two clients for one descriptor, two threads.
SPECIFICATION LivenessSpec
CONSTANTS
    PoolSize = 2
    Conn = {c1, c2, c3}
    NoConn = NoConn
    Client = {k1, k2}
    NoPeer = NoPeer
    MaxInbox = 1
    ReadBuf = 1
    MaxOpen = 1
PROPERTIES
    EveryRequestEnds
    EveryClientAccepted
    StopEndsServer
