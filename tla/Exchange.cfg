\* Two clients, bodies longer than the buffer.
SPECIFICATION Spec
CONSTANTS
    Client = {k1, k2}
    MaxInbox = 2
    ReadBuf = 2
    MaxBody = 3
INVARIANTS
    TypeOK
    OneOperation
PROPERTIES
    KeptAliveIsClosed
    FinishedIsClosed
    ImplementsOneShotService
CHECK_DEADLOCK FALSE
