CONSTANTS
    Requests <- AllRequests
    MaxTransfer = 64
    ChunkSize = 2
    IntLimit = 4
    MaxRequests = 2
    Connections = 1
SPECIFICATION FairSpec
INVARIANTS
    OnePending
    CleanWhenPooled
    ResponseExact
PROPERTY
    GoneIsFinalized
CHECK_DEADLOCK FALSE
