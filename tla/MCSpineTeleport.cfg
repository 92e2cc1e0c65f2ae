\* Two links that join: a vehicle spends the token another one earned.
SPECIFICATION Spec
CONSTANTS
    Capacity = 2
    Links <- MergeLinks
    Turns <- MergeTurns
    Trips <- MergeTrips
    Depart <- MergeDepart
    Candidates <- MergeCandidates
    CutOff <- MergeCutOff
    Tails <- MergeTails
    Terminals <- MergeTerminals
    Storage <- MergeStorage
    Residence <- MergeResidence
    Spatial = TRUE
    CooldownTicks = 1
    MinBudget = 1
    MaxBudget = 1
    MaxTick = 2
PROPERTY OnlyExitReadyLeave
