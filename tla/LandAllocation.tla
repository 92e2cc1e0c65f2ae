---------------------------- MODULE LandAllocation ----------------------------
(***************************************************************************)
(* _derive_scalable_static_authority (src/src/metroflow/city/              *)
(* scalable_authority.py): the blocks of an accepted network are given a   *)
(* land use, the population and its jobs and leisure are shared out among  *)
(* them, and blocks and nodes are put into traffic zones.                  *)
(*                                                                         *)
(* Centrality and terrain intensity are inputs in quarters, the exposure   *)
(* of a road is in hundredths.  Residents and homes have the same weights  *)
(* and target, and are one channel.  Blocks are numbered in the order of   *)
(* their semantic ids, which are digests: either of two orders.  So is the *)
(* order along the Morton curve.  Fingerprints, certificates and the copy  *)
(* of the network are left out.                                            *)
(***************************************************************************)
EXTENDS BlockFaces

CONSTANTS
    Landscapes,     \* the centrality and intensity of the blocks, by number
    Populations,    \* target_population
    Hectare,        \* twice the area of a hectare
    ExposureOf,     \* the exposure of each road, by its hierarchy
    FewestZones,    \* 64
    MostZones,      \* 512
    ZonePeople      \* 2500

ASSUME AllocationAssumption ==
    /\ \A l \in Landscapes : \A b \in DOMAIN l : l[b].central \in 0 .. 4 /\ l[b].intense \in 0 .. 4
    /\ Populations \subseteq Nat \ {0} /\ Hectare \in Nat \ {0}
    /\ DOMAIN ExposureOf = DOMAIN Physical /\ Range(ExposureOf) \subseteq {0, 35, 80, 100}
    /\ FewestZones \in Nat \ {0} /\ MostZones \in Nat \ {0} /\ ZonePeople \in Nat \ {0}

VARIABLES
    parcels,    \* the blocks in the order of their ids
    land,       \* their centrality and intensity
    people,     \* the population
    uses,       \* the land use of each block
    shares,     \* what each block holds of each channel
    zones,      \* the blocks of each traffic zone
    owner,      \* the zone of each node
    pois,       \* the points of interest: [kind, block, zone, capacity]
    allocation  \* what the derivation does next, or its result

allocationVars == <<parcels, land, people, uses, shares, zones, owner, pois, allocation>>
cityVars == <<facesVars, allocationVars>>

Blocks == DOMAIN parcels
Count == Len(parcels)

(* round(): to the nearest integer, halves to the even one. *)
Rounded(n, d) ==
    LET q == n \div d IN IF 2 * (n % d) > d \/ (2 * (n % d) = d /\ q % 2 = 1) THEN q + 1 ELSE q

-----------------------------------------------------------------------------
(* Land use.                                                               *)
CommercialCount == Max({1, Rounded(12 * Count, 100)})
IndustrialCount == Max({1, Rounded(12 * Count, 100)})
MixedCount == Max({1, Rounded(23 * Count, 100)})

Exposure(b) == Max({ExposureOf[r] : r \in parcels[b].frontage})
CommercialScore(b) == 55 * 25 * land[b].central + 30 * 25 * land[b].intense + 15 * Exposure(b)
IndustrialScore(b) ==
    50 * Exposure(b) + 35 * 25 * (4 - land[b].central) + 15 * 25 * (4 - land[b].intense)
MixedScore(b) == 45 * 25 * land[b].central + 35 * 25 * land[b].intense + 20 * Exposure(b)

(* The n best of S; the smaller semantic id wins. *)
Best(S, n, Score(_)) ==
    LET ahead(b) == {c \in S : Score(c) > Score(b) \/ (Score(c) = Score(b) /\ c < b)}
    IN  {b \in S : Cardinality(ahead(b)) < n}

Adjacent(b, c) == b # c /\ parcels[b].frontage \cap parcels[c].frontage # {}

(* Housing next to industry becomes mixed. *)
Converted(homes, industry) == {b \in homes : \E c \in industry : Adjacent(b, c)}

UsesOfLand ==
    LET commerce == Best(Blocks, CommercialCount, CommercialScore)
        industry == Best(Blocks \ commerce, IndustrialCount, IndustrialScore)
        rest == Blocks \ (commerce \cup industry)
        mixed == Best(rest, MixedCount, MixedScore)
        converted == Converted(rest \ mixed, industry)
    IN  [b \in Blocks |->
            IF b \in commerce THEN "commercial" ELSE IF b \in industry THEN "industrial"
            ELSE IF b \in mixed \cup converted THEN "mixed" ELSE "residential"]
AllUses == {"commercial", "industrial", "mixed", "residential"}

-----------------------------------------------------------------------------
(* Capacity.                                                               *)
Channels == {"home", "job", "leisure"}
Rate ==
    [residential |-> [home |-> 95, job |-> 0, leisure |-> 25],
     commercial |-> [home |-> 0, job |-> 170, leisure |-> 70],
     industrial |-> [home |-> 0, job |-> 90, leisure |-> 0],
     mixed |-> [home |-> 75, job |-> 95, leisure |-> 55]]

(* The raw capacity of b, as so many of PerUnit. *)
RawCapacity(b, channel) == parcels[b].area * Rate[uses[b]][channel] * (9 * 4 + 11 * land[b].intense)
PerUnit == Hectare * 20 * 4
Weights(channel) == [b \in Blocks |-> RawCapacity(b, channel)]
Total(channel) == SumFunction(Weights(channel))

Target ==
    [home |-> people, job |-> (31 * people + 49) \div 50, leisure |-> Rounded(Total("leisure"), PerUnit)]

(* _require_implied_multiplier: leisure follows from the land. *)
WithinBounds(channel) ==
    LET target == Target[channel] * PerUnit
    IN  IF channel = "leisure" THEN Total(channel) = 0 => target = 0
        ELSE /\ Total(channel) > 0 /\ target > 0
             /\ Total(channel) <= 4 * target /\ target <= 3 * Total(channel)

RoundedDown(b, channel) == (Target[channel] * RawCapacity(b, channel)) \div Total(channel)
Remaining(b, channel) == (Target[channel] * RawCapacity(b, channel)) % Total(channel)

(* Mutant: the units that are left go to the first blocks. *)
FirstServed(b, c, channel) == b < c

(* The largest remainder is served first, then the smaller semantic id. *)
ServedBefore(b, c, channel) ==
    \/ Remaining(b, channel) > Remaining(c, channel)
    \/ Remaining(b, channel) = Remaining(c, channel) /\ b < c

Apportioned(channel) ==
    LET left == Target[channel] - SumFunction([b \in Blocks |-> RoundedDown(b, channel)])
        before(b) == {c \in Blocks \ {b} : ServedBefore(c, b, channel)}
    IN  [b \in Blocks |->
            IF Total(channel) = 0 THEN 0
            ELSE RoundedDown(b, channel) + IF Cardinality(before(b)) < left THEN 1 ELSE 0]

-----------------------------------------------------------------------------
(* Traffic zones.                                                          *)
ZoneCount == Min({MostZones, Max({FewestZones, (people + ZonePeople - 1) \div ZonePeople})})

(* The blocks along the curve, cut into runs whose lengths differ by one. *)
Partition(curve) ==
    LET size == [z \in 1 .. ZoneCount |->
                    (Count \div ZoneCount) + IF z <= Count % ZoneCount THEN 1 ELSE 0]
        before(z) == SumFunctionOnSet(size, 1 .. z - 1)
    IN  [z \in 1 .. ZoneCount |-> {curve[k] : k \in before(z) + 1 .. before(z) + size[z]}]

ZoneOf(b) == CHOOSE z \in DOMAIN zones : b \in zones[z]

NetworkNodes == UNION {Range(Physical[r].ends) : r \in built}
Where(n) ==
    LET r == CHOOSE r \in built : n \in Range(Physical[r].ends)
    IN  IF Physical[r].ends[1] = n THEN Head(Physical[r].points) ELSE Last(Physical[r].points)
Entered == UNION {parcels[b].access : b \in Blocks}
Apart(n, m) == Dot(From(Where(n), Where(m)), From(Where(n), Where(m)))

(* The node of a block is its zone's, the smaller semantic id winning; any *)
(* other node goes with the nearest of those.                              *)
OwnerOfEntered(n) == ZoneOf(Min({b \in Blocks : n \in parcels[b].access}))
NearestEntered(n) ==
    CHOOSE m \in Entered : \A o \in Entered \ {m} :
        Apart(n, m) < Apart(n, o) \/ (Apart(n, m) = Apart(n, o) /\ m < o)
OwnerOf(n) == OwnerOfEntered(IF n \in Entered THEN n ELSE NearestEntered(n))

-----------------------------------------------------------------------------
AllocationInit ==
    /\ parcels = <<>> /\ land = <<>> /\ people = 0 /\ uses = <<>> /\ shares = <<>> /\ zones = <<>>
    /\ owner = <<>> /\ pois = {} /\ allocation = "number"

RefuseAllocation ==
    /\ allocation' = "refused"
    /\ UNCHANGED <<facesVars, parcels, land, people, uses, shares, zones, owner, pois>>

(* Every block must have land, a road it fronts on and a node.             *)
Addressable(b) == b.area \in Nat \ {0} /\ b.frontage # {} /\ b.access # {}

Number ==
    /\ survey = "accepted" /\ allocation = "number"
    /\ parcels' \in {SetToSeq(blocks), Reverse(SetToSeq(blocks))}
    /\ land' \in {l \in Landscapes : 1 .. Cardinality(blocks) \subseteq DOMAIN l}
    /\ people' \in Populations
    /\ allocation' = IF \A b \in blocks : Addressable(b) THEN "classify" ELSE "refused"
    /\ UNCHANGED <<facesVars, uses, shares, zones, owner, pois>>

TooFewBlocks == CommercialCount + IndustrialCount + MixedCount >= Count
Classify ==
    /\ allocation = "classify" /\ ~ TooFewBlocks /\ Range(UsesOfLand) = AllUses
    /\ uses' = UsesOfLand
    /\ allocation' = "apportion"
    /\ UNCHANGED <<facesVars, parcels, land, people, shares, zones, owner, pois>>
RefuseUses ==
    allocation = "classify" /\ (TooFewBlocks \/ Range(UsesOfLand) # AllUses) /\ RefuseAllocation

Apportion ==
    /\ allocation = "apportion" /\ \A c \in Channels : WithinBounds(c)
    /\ shares' = [c \in Channels |-> Apportioned(c)]
    /\ allocation' = "partition"
    /\ UNCHANGED <<facesVars, parcels, land, people, uses, zones, owner, pois>>
RefuseTarget ==
    allocation = "apportion" /\ (\E c \in Channels : ~ WithinBounds(c)) /\ RefuseAllocation

MakeZones ==
    /\ allocation = "partition" /\ ZoneCount <= Count
    /\ \E curve \in {[k \in Blocks |-> k], [k \in Blocks |-> Count + 1 - k]} : zones' = Partition(curve)
    /\ allocation' = "own"
    /\ UNCHANGED <<facesVars, parcels, land, people, uses, shares, owner, pois>>
RefuseZones == allocation = "partition" /\ ZoneCount > Count /\ RefuseAllocation

(* Every channel a block holds any of is a point of interest of it. *)
Aggregated ==
    UNION {{[kind |-> c, block |-> b, zone |-> ZoneOf(b), capacity |-> shares[c][b]] :
                b \in {x \in Blocks : shares[c][x] > 0}} :
           c \in Channels}

(* The owner of a node that the network does not have is refused.          *)
Populate ==
    /\ allocation = "own"
    /\ owner' = [n \in NetworkNodes |-> OwnerOf(n)]
    /\ pois' = Aggregated
    /\ allocation' = IF Entered \subseteq NetworkNodes THEN "derived" ELSE "refused"
    /\ UNCHANGED <<facesVars, parcels, land, people, uses, shares, zones>>

AllocationNext ==
    \/ Number \/ Classify \/ RefuseUses \/ Apportion \/ RefuseTarget \/ MakeZones \/ RefuseZones \/ Populate

CityBuildNext == (FacesNext /\ UNCHANGED allocationVars) \/ AllocationNext

CityBuildSpec == FacesInit /\ AllocationInit /\ [][CityBuildNext]_cityVars

-----------------------------------------------------------------------------
Holds(S, channel) == SumFunction([p \in {q \in S : q.kind = channel} |-> p.capacity])

(* The shares of a channel add up to its target; each is the exact quota   *)
(* rounded down or up; a block of more weight never holds less.            *)
SharesFair ==
    \A c \in Channels :
        /\ SumFunction(shares[c]) = Target[c]
        /\ \A b \in Blocks :
            /\ Total(c) > 0 =>
                LET over == shares[c][b] * Total(c) - Target[c] * RawCapacity(b, c)
                IN  - Total(c) < over /\ over < Total(c)
            /\ \A d \in Blocks : RawCapacity(b, c) > RawCapacity(d, c) => shares[c][b] >= shares[c][d]

(* No housing fronts on a road that industry fronts on. *)
HousingApart ==
    \A b, c \in Blocks : uses[b] = "residential" /\ uses[c] = "industrial" => ~ Adjacent(b, c)

(* Every block is in one zone, the zones hold as many blocks as each other *)
(* to one, and a node belongs to the zone of a block around it.            *)
ZonesBalanced ==
    /\ \A b \in Blocks : Cardinality({z \in DOMAIN zones : b \in zones[z]}) = 1
    /\ \A y, z \in DOMAIN zones : Cardinality(zones[y]) <= Cardinality(zones[z]) + 1
    /\ \A n \in Entered :
        LET around == {ZoneOf(b) : b \in {x \in Blocks : n \in parcels[x].access}}
        IN  owner[n] \in around

(* What the city is populated with: the population, its jobs and leisure   *)
(* are shared out to the last unit and fairly (_apportion_exact_channel),  *)
(* and the points of interest hold exactly that; housing is kept apart     *)
(* from industry (_classify_land_use_rows); the zones are balanced.        *)
AllocationSound ==
    allocation = "derived" =>
        /\ SharesFair /\ HousingApart /\ ZonesBalanced
        /\ \A c \in Channels : Holds(pois, c) = Target[c]
=============================================================================
