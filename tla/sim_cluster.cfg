SPECIFICATION Spec
CONSTANTS
    NumRequests = 4
    ArrivedAt <- MCArrivedAt
    PrefillLens = {2}
    DecodeLens = {1, 2}
    NumReplicas = 2
    NumStages = 2
    MaxBatchSize = 2
    Slots = 2
    ExecutionTimes = {1, 2}
    TimeLimits = {0, 2}
    Policies = {"round_robin", "lor", "random"}
INVARIANTS
    SimInv
    NoLostWakeup
    PipelineIsFIFO
    EmptyAtEnd
CHECK_DEADLOCK FALSE
