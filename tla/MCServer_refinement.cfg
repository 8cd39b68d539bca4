\* Two clients and requests larger than the read buffer.
SPECIFICATION Spec
CONSTANTS
    PoolSize = 2
    Conn = {c1, c2, c3, c4}
    NoConn = NoConn
    Client = {k1, k2}
    NoPeer = NoPeer
    MaxInbox = 2
    ReadBuf = 1
    MaxOpen = 2
SYMMETRY ConnsAndClients
INVARIANT
    AtMostOneResponse
PROPERTY
    ImplementsOneShotService
