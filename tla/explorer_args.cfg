SPECIFICATION Spec
CONSTANTS
    Config <- MCConfig
    Nodes <- MCNodes
    Cores = 1
    DiskOf <- OwnDisks
    LoadProfiles <- OneProfile
    Outcomes <- OutcomeOfMain
    Precision = 5
    MaxIterations = 8
    Leftovers = {}
    MaxPartial = 1
CHECK_DEADLOCK FALSE
INVARIANTS
    ResultFileFound
