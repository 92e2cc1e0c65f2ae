\* Storage and liveness on the acyclic network, with one token per link and tick.
SPECIFICATION FairSpec
CONSTANTS
    Capacity = 3
    Links <- DiamondLinks
    Turns <- DiamondTurns
    Trips <- DiamondTrips
    Depart <- DiamondDepart
    Candidates <- DiamondCandidates
    CutOff <- DiamondCutOff
    Tails <- DiamondTails
    Terminals <- DiamondTerminals
    Storage <- DiamondStorage
    Residence <- DiamondResidence
    Spatial = TRUE
    CooldownTicks = 1
    MinBudget = 1
    MaxBudget = 1
    MaxTick = 2
INVARIANT StorageRespected
PROPERTY EveryTripEnds
