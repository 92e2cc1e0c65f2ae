\* Through traffic against trips that end on the same links.
SPECIFICATION Spec
CONSTANTS
    Links <- RoadLinks
    Turns <- RoadTurns
    Storage <- RoadStorage
    Spatial = FALSE
    Scale = 6
    Capacities <- RoadCapacities
    MaxQueue <- RoadMaxQueue
    MaxAsk <- RoadMaxAsk
    Class <- MCClass
    WaitBound = 6
    CreditBound = 2
INVARIANTS
    NoStarvation
    CreditBounded
