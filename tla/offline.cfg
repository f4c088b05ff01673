SPECIFICATION OfflineSpec
CONSTANTS
    NumNodes = 2
    GpusPerNode = 2
    Combinations <- MCCombinations
    Collectives <- MCCollectives
    CollectiveSizes <- MCSizes
    OtherProfiles <- MCProfiles
    Simulations = {1, 2}
    Setups <- MCSetups
    Lead = 2
    Kills = 1
CHECK_DEADLOCK FALSE
INVARIANTS
    GroupIsTheInput
    CollectivesSuffice
    NoTornRead
    FreshPredictions
PROPERTIES
    AllEnd
