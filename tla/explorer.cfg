SPECIFICATION Spec
CONSTANTS
    Config <- MCConfig
    Nodes <- MCNodes
    Cores = 1
    DiskOf <- SharedDisk
    LoadProfiles <- MCProfiles
    Outcomes <- SomeOutcome
    Precision = 5
    MaxIterations = 4
    Leftovers <- MCLeftovers
    MaxPartial = 1
CHECK_DEADLOCK FALSE
INVARIANTS
    CoresExclusive
    ResultsAreOwn
    SearchExact
PROPERTIES
    ExplorationEnds
