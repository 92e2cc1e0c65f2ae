\* Lane tags that contradict each other, under both policies.
SPECIFICATION OsmSpec
CONSTANTS
    Extracts <- MCTags
    Boxes <- MCWhole
    Policies = {"strict", "osm_wiki"}
CHECK_DEADLOCK FALSE
INVARIANTS
    ContradictionsRefused
