SPECIFICATION FairSpec
CONSTANTS
    NumRequests = 2
    ArrivedAt <- MCArrivedAt
    PrefillLens = {1, 3}
    DecodeLens = {1, 4}
    NumStages = 1
    BlockSize = 2
    NumBlocks = 3
    BatchSizeCap = 3
    WatermarkBlocks = 0
    MaxTokensInBatch = 6
INVARIANT EmptyAtEnd
CHECK_DEADLOCK FALSE
