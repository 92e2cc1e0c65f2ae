\* Two links that merge into one that fills up, closes and reopens.
SPECIFICATION Spec
CONSTANTS
    Links <- MergeLinks
    Turns <- MergeTurns
    Storage <- MergeStorage
    Spatial = TRUE
    Scale = 2
    Capacities <- MergeCapacities
    MaxQueue <- MergeMaxQueue
    MaxAsk <- MergeMaxAsk
    Class <- MCClass
    WaitBound = 7
    CreditBound = 1
PROPERTY ContractSpec
CHECK_DEADLOCK FALSE
