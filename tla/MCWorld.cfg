\* Every schedule and one edit; recordings of up to two calls are replayed against
\* every later world.
SPECIFICATION ReplaySpec
CONSTANTS
    Edges <- OneEdge
    HasZones = TRUE
    Schedules <- MCSchedules
    Starts = {0, 1, 2}
    Inputs <- MCInputs
    MaxEdits = 1
    MaxRecorded = 2
    MaxStep = 6
CHECK_DEADLOCK FALSE
INVARIANTS
    ContractSurvivesCalls
    AcceptedReplayReproduces
PROPERTIES
    RegistryNoticesChange
    FeedbackIsLaggedAndCurrent
    EndsOnlyWedged
