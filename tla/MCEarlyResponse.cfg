CONSTANTS
    Requests <- OneUpload
    MaxTransfer = 64
    ChunkSize = 2
    IntLimit = 4
    MaxRequests = 1
    Connections = 0
SPECIFICATION Spec
INVARIANT
    AllDataFed
CHECK_DEADLOCK FALSE
