\* Each of the small components on its own, from every state it may start in.
SPECIFICATION PartsSpec
CONSTANTS
    Requests = 4
    Latest = 4
    Arms = {0, 1, 2}
    Whole = 4
    LambdaMin = 0
    LambdaMax = 3
    Targets <- MCTargets
    BaselineCosts <- MCCosts
    AdaptiveScores <- MCScores
    Ranks = {0, 1}
    Trips = {t1, t2, t3, t4}
    Times <- MCTimes
    RewardUnit = 4
    Candidates = {1, 2, 3}
    Bases <- MCBases
    Slopes = {0, 1, 3}
    Demand = 5
    Places <- MCPlaces
    Position <- MCPosition
    Streets <- MCStreets
    Extracts <- MCExtracts
    Boxes <- MCBoxes
    Policies = {"strict", "osm_wiki"}
    Physical <- MCPhysical
    Plans <- MCPlans
    Samples <- MCSamples
    Landscapes <- MCLandscapes
    Populations = {14, 30, 41}
    Hectare = 900
    ExposureOf <- MCExposureOf
    FewestZones = 2
    MostZones = 6
    ZonePeople = 6
CHECK_DEADLOCK FALSE
INVARIANTS
    NeverBeatenBothWays
    NobodyWouldMove
    EstimateIsMean
    RoadsKept
    EveryPlaceRoutable
    DrivesAsTagged
    FacesAreRegions
    AllocationSound
PROPERTIES
    EveryRequestActivates
