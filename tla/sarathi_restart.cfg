SPECIFICATION Spec
CONSTANTS
    NumRequests = 4
    ArrivedAt <- MCArrivedAt
    PrefillLens = {1, 5}
    DecodeLens = {1, 4}
    NumStages = 2
    BlockSize = 2
    NumBlocks = 8
    BatchSizeCap = 4
    WatermarkBlocks = 1
    ChunkSize = 3
    Tables <- MCTables
CHECK_DEADLOCK FALSE
PROPERTY
    RestartPrefillsAll
