SPECIFICATION FairSpec
CONSTANTS
    NumRequests = 4
    ArrivedAt <- MCTiedArrivals
    PrefillLens = {1, 3}
    DecodeLens = {1, 4}
    NumStages = 2
    BlockSize = 2
    NumBlocks = 5
    BatchSizeCap = 3
    WatermarkBlocks = 1
    MaxTokensInBatch = 6
INVARIANTS
    IInv
    AssertionsHold
    ExactBlocks
PROPERTIES
    OutputGrows
    EvictYoungest
    ImplementsService
CHECK_DEADLOCK FALSE
