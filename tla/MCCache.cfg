\* Two closures over two pairs and three trips.
SPECIFICATION CacheSpec
CONSTANTS
    Links <- MCLinks
    Events <- MCEvents
    Event <- MCEvent
    Blockable <- MCBlockable
    Routes <- MCRoutes
    DestOf <- MCDestOf
    Trips <- MCTrips
    OD <- MCOD
    Congestible = {10}
    Unit = 1
    RefreshInterval = 3
    MaxTick = 4
CHECK_DEADLOCK FALSE
PROPERTIES
    FreshWhenMade
    AdmittedRoutesOpen
    GivenUpOnlyWhenCutOff
