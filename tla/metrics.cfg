SPECIFICATION MCSpec
CONSTANTS
    NumRequests = 3
    ArrivedAt <- MCArrivedAt
    PrefillLens = {2}
    DecodeLens = {1, 3}
    NumReplicas = 1
    NumStages = 2
    MaxBatchSize = 2
    Slots = 3
    ExecutionTimes = {2, 12}
    TimeLimits = {0}
    Policies = {"round_robin"}
    Predictions <- MCPredictions
    AllOptions <- MCOptions
    NumParams = 5
    AttentionFlops = 3
    TimeUnits = 12
    Offsets = {0, 1}
INVARIANTS
    MetricsAddUp
    UtilizationExact
    SeriesAddUp
    FilesComplete
PROPERTIES
    AllComplete
CHECK_DEADLOCK FALSE
