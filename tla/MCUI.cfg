\* Overlapping events injected and cleared at any step, paused or not, and the
\* snapshots, forced or not, polls and resets that tell of them.
SPECIFICATION StreamSpec
CONSTANTS
    Links <- MCLinks
    Events <- MCEvents
    Event <- MCEvent
    Blockable <- MCBlockable
    Unit = 3
    RefreshInterval = 4
    MaxTick = 4
    EmitInterval = 2
    MetricsInterval = 2
    MaxOffers = 4
INVARIANTS
    ActiveWithinWindow
    LossesAccounted
PROPERTIES
    CapacityFollowsEvents
    ChangeReroutes
    EveryEventClears
    NeverStale
