SPECIFICATION FairSpec
CONSTANTS
    PoolSize = 3
    MaxHanded = 7
INVARIANTS
    TypeOK
    Balanced
    WorkKeepsRunning
PROPERTY
    StopEndsStart
