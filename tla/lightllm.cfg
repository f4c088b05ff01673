SPECIFICATION FairSpec
CONSTANTS
    NumRequests = 4
    ArrivedAt <- MCArrivedAt
    PrefillLens = {1, 3}
    DecodeLens = {1, 2, 4}
    NumStages = 1
    BlockSize = 1
    NumBlocks = 9
    BatchSizeCap = 2
    MaxTokensInBatch = 5
    MaxWaitingIters = 2
CHECK_DEADLOCK FALSE
INVARIANTS
    LightInv
    NeverOutOfMemory
    PeakHolds
PROPERTIES
    ImplementsService
