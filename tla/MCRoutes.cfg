\* One greedy route or three ranked ones, every cost, closure and restriction.
SPECIFICATION SearchSpec
CONSTANTS
    Links <- MCLinks
    Nodes <- MCNodes
    Src <- MCSrc
    Dst <- MCDst
    Listed <- MCListed
    Restrictable <- MCRestrictable
    Blockable <- MCBlockable
    Costs = {1, 3}
    Far = 99
    Requests <- MCRequests
    MaxHops = 3
    ExpansionsPerCandidate = 28
CHECK_DEADLOCK FALSE
INVARIANTS
    PotentialExact
    CandidatesLegal
    CheapestInOrder
    GreedyOptimalUnlessTurnedAway
