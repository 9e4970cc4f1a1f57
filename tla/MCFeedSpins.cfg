CONSTANTS
    Requests <- OneScript
    MaxTransfer = 64
    ChunkSize = 2
    IntLimit = 4
    MaxRequests = 1
    Connections = 0
SPECIFICATION Spec
INVARIANT
    PointsReached
CHECK_DEADLOCK FALSE
