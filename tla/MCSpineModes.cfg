\* Both queue models on the cyclic network: full links and pool, reroutes, reused slots.
SPECIFICATION ModesSpec
CONSTANTS
    Capacity = 3
    Links <- LoopLinks
    Turns <- LoopTurns
    Trips <- LoopTrips
    Depart <- LoopDepart
    Candidates <- LoopCandidates
    CutOff <- LoopCutOff
    Tails <- LoopTails
    Terminals <- LoopTerminals
    Storage <- LoopStorage
    Residence <- LoopResidence
    Spatial = TRUE
    CooldownTicks = 1
    MinBudget = 0
    MaxBudget = 1
    MaxTick = 3
INVARIANTS
    PoolConsistent
    LifecyclePartition
    RouteAuthority
    QueueIsAgents
    NeverRaises
PROPERTIES
    LiveSlotKept
    FollowsLifecycle
    NewcomersStay
