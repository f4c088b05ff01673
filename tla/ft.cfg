SPECIFICATION FairSpec
CONSTANTS
    NumRequests = 4
    ArrivedAt <- MCArrivedAt
    PrefillLens = {1, 3}
    DecodeLens = {1, 2, 4}
    NumStages = 2
    BlockSize = 2
    NumBlocks = 7
    BatchSizeCap = 2
    MaxBlocksPerSequence = 3
CHECK_DEADLOCK FALSE
INVARIANTS
    FTInv
PROPERTIES
    StaticBatches
    AllComplete
