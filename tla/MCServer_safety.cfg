\* Three clients for two descriptors, two threads.
SPECIFICATION Spec
CONSTANTS
    PoolSize = 2
    Conn = {c1, c2, c3, c4}
    NoConn = NoConn
    Client = {k1, k2, k3}
    NoPeer = NoPeer
    MaxInbox = 1
    ReadBuf = 1
    MaxOpen = 2
SYMMETRY ConnsAndClients
INVARIANTS
    TypeOK
    AcceptChain
    OneOperationPerSocket
PROPERTIES
    QuietOnceReturned
    NeighbouringServices
