# Metroflow: TLA+ verification

Specifications of Metroflow (`src/src/metroflow`), a deterministic mesoscopic traffic
simulator: TLC checks them on small instances, and TLAPS proves the safety properties
that matter most for every instance. File and line numbers below are relative to
`src/src/metroflow/` unless they say otherwise; `PROJECT.json` maps each definition to
the lines it stands for.

## 1. Inventory

Two simulators share the package. `simulation_step(state, control, rng_key)` is one
tick of the runtime: a sequential pipeline in which every phase reads what the phases
before it wrote. `step_world` is one step of the older world model with its three
cadences. Both work on immutable-looking states, in one thread. Several facts are kept
twice (a trip is in the id sets *and* in a pool slot; a vehicle is in the pool *and* in
a link queue) and many results are cached. The hard behaviour is therefore not threads
but **order and agreement**: loops that hand out shared resources in a fixed order,
state carried over ticks (tokens, credits, cooldowns, buckets, pending frames), caches
that may outlive what they were computed from, and recorded inputs that must lead to
the same world again.

| Component | State | Operations | Interacts with | What makes it correct | Status |
|---|---|---|---|---|---|
| Tick pipeline `sim/step.py` | clock, dynamic refs | `simulation_step`, `run_rollout` | everything, in a fixed order | phases agree on the same vehicles; nothing raises | partly |
| Agent pool `sim/active_agents.py` | free stack, alive mask, counts, columns | create, allocate, release, validate | admission, commit | free and alive slots partition the pool; a live slot is never taken | modelled |
| Trip life cycle `sim/routing_runtime.py`, `sim/invariants.py` | trip id sets | admit, complete, fail | pool | stages go forward, none is lost | modelled |
| Admission, reroute, demand, commit `sim/routing_runtime.py` | route memory, admitted slots, queue increments | `prepare_runtime_active_agents`, `_apply_runtime_reroute_policy`, `rebuild_runtime_turn_demand`, `commit_runtime_active_agent_flows` | pool, flow, trips | routes stay legal; a newcomer waits a tick; tokens and vehicles reconcile; storage is respected | partly |
| Trip activation `demand/trips.py` | status of each request | `activate_trip_requests` | admission | due trips start | partly |
| Flow authority `flow/engine.py` | queues, residuals, carried tokens, credits | `update_link_node_flow` | demand in, tokens out | whole vehicles, within capacity and storage, no starvation | partly |
| Events `flow/events.py`, `flow/event_effects.py` | three buckets, multipliers, incident transition | scheduler advance, effects | clock, capacity, reroute trigger, route cache | capacity follows the active events; history only grows | partly |
| UI buffer and server `ui/stream_buffer.py`, `ui/stream_server.py` | pending frame, counters, overlay signature | offer, poll, flush, clear, ingest | steps that made a snapshot | losses are accounted for; the UI is not stale | partly |
| Route search and cache `routing/candidates.py`, `routing/dynamic_potential.py`, `sim/routing_runtime.py` | candidate sets, potential cache | refresh, rank, walk, prune | events, admission | searches are exact; nothing is decided on outdated routes | partly |
| Reroute decision `routing/reroute_policy.py` | cooldown | decide | reroute phase | its outcomes are a choice in the spine | partly |
| World orchestrator `sim/orchestrator.py`, `sim/scheduler.py`, `core/`, `traffic/meso.py` | versions, lagged costs, edges | `step_world`, version bumps | replay | the contract survives; feedback is lagged and current; caches notice changes | partly |
| Replay `sim/replay.py` | recorded inputs, boundary | record, `replay_step_world_sequence` | world | what passes for the initial world leads to the recorded end | partly |
| Learning `learning/`, `routing/policy_mixer.py` | blend state, bandit counts, reservations | mix, fall back, select, update, allocate | route choice (off by default) | never worse on every count; exact means; minimal disutility | partly |
| City finalization, OSM import `city/`, `map/` | nodes, links, geometry, turns | repair, planarize, compile turns, validate; split, clip, compile | the road network of all others | every road kept; every place reachable; drives as tagged | partly |
| Blocks, land use, zones `city/scalable_blocks.py`, `city/scalable_authority.py` | half-edges, faces, blocks, capacities, zones | embed, trace, group; classify, apportion, partition, aggregate | an accepted road network in, demand out | every piece of land is in one face; nobody is lost in rounding; housing apart from industry | partly |
| Structural checks `sim/invariants.py` | none | `check_*` | end of each step | restated as invariants of the models | partly |
| Initialization `sim/init.py`, `sim/config.py` | initial state | create | runtime | the `Init` of the spine | partly |
| Control adapter, snapshots, accelerators, reports `ui/`, `backends/`, `metrics/`, `benchmarks/`, `viz/` | none at run time | | | | not modelled (section 6) |

## 2. Modules

| Module | Models |
|---|---|
| `RoadNetwork` | link ids, shared by the runtime's modules |
| `ActiveAgentPool` | the pool: `Allocate`, `Release` on the free stack and the columns |
| `TripActivation` | one activation pass as an operator; `ActivationClock` drives it with the clock |
| `FlowGrant` | what one flow update may grant: the declarative contract |
| `TripLifecycle` | abstract: stages of a trip, at most `Capacity` travelling |
| `RuntimeSpine` | the tick: extends the pool, `FlowGrant` and `TripActivation`; implements `TripLifecycle` |
| `FlowContract` | abstract flow update: ask, then any grant the capacities allow |
| `FlowAuthority` | the accrual, the heap and the carry of `flow/engine.py`; implements `FlowContract` |
| `EventScheduler` | buckets, pause, capacity effects, reroute trigger |
| `UIStream` | buffer and packet server, extends `EventScheduler` |
| `RouteSearch` | reverse Dijkstra, greedy walk and ranked search, one step per settled node or expansion |
| `RouteCache` | candidate sets and potential cache over the ticks of an incident, extends `EventScheduler` |
| `WorldStep` | `step_world` with its checks and edits; `WorldReplay` records and replays it |
| `PolicyBlend`, `BanditLearning`, `Reservation` | the three learning mechanisms |
| `CityFinalizer` | `finalize_preview_topology`: repair, planarization, turns, validation |
| `OsmImport` | `import_osm_xml_text`: lanes, parts, clipping, links |
| `BlockFaces` | the faces between the roads, and the blocks among them: half-edges, boundaries, holes, voids |
| `LandAllocation` | land use, capacities, traffic zones and points of interest of the blocks; extends `BlockFaces` |
| `Plane`, `Reachability` | straight lines and searches, shared by the modules about maps |
| `MCSpine`, `MCSpineModes`, `MCFlow`, `MCUI`, `MCRoutes`, `MCCache`, `MCWorld`, `MCParts`, `MCImport` | the small instances |
| `SpineProofs`, `FlowProofs`, `EventProofs` (events, UI and route cache), `SearchProofs`, `WorldProofs` (world and learning), `CityProofs` (finalizer and land use), `OsmProofs`, `Counting` (naturals, sums and ranks) | theorems |

**Runtime.** `RuntimeSpine` keeps the loops of the code as loops: the admission loop
(`sim/routing_runtime.py:260-328`) takes one step per trip, the commit loop (`1041-1089`)
one step per slot, with `phase` and `cursor` as the program counter. So the invariants
are checked *inside* a tick, where the code itself never looks. Any `raise` of the flow
update or of the reconciliation check leads to `phase = "raised"`. The flow update is
abstracted inside the spine by `IsGrant` (the largest grants within demand, tokens,
vehicles present and free storage). That the heap of the code yields only such grants
is `ContractSpec` (run `flow_spatial`, and proved): `FlowContract` and `RuntimeSpine` share `IsGrant`,
and this is how the two halves meet. Candidates and reroute tails are constants of
the spine, and which of them is selected, or offered at all, is a choice; `CutOff`
names the trips whose routes a closure may all block. How routes follow closures is
`RouteCache`, and that a search finds what it should is `RouteSearch`: `BestRoute` in the
cache stands for what `CheapestInOrder` says of the search.

**World.** A matrix of zonal costs is named by the step and the versions it was measured
at, so that "outdated" is a comparison of names; travel times and land-use amounts are
data. Calls that raise leave the world alone (`outcome = "raised"`).

**Learning.** Mix coefficients, rewards and disutilities are integers, estimates are
fractions, compared by cross-multiplication. The exploration bonus of the bandit is
abstracted to what it is sure to decide.

**Maps.** Coordinates are integers chosen so that crossing points are exact
(`ExactCrossings`), so the tolerances of `city/planarization.py` decide nothing; a
clipped point is named by the line it lies on. A street is on a bridge or not, which is
the layer of its geometry. The sample of origin-destination pairs that validation
draws may be any sample. `BlockFaces` follows
`_build_block_authority_from_records` from the half-edges to the Euler check, and
`LandAllocation` goes on with `_derive_scalable_static_authority`: one action per stage,
and one for the refusal of each; a block without land, road or node, and an owner of a
node the network does not have, are refused where the code raises. Areas are doubled, so that they are integers.
The unbounded face is what no bounded one covers. Terrain intensity and centrality are
inputs; semantic ids are digests, so the blocks come in one order or its reverse, and so
do the blocks along the Morton curve.

Other abstractions. A route is a sequence of link ids, a trip a list index,
`progress_01` a number of ticks. Real numbers of the flow authority (capacities,
residuals, credits) are integers in `1/Scale` vehicles, with quotients rounded down where
the code rounds to `float32`; `turn_base_priority` is 1. Travel times of searches are
integers. `GrantTokens` lets each link have any number of tokens between `MinBudget` and
`MaxBudget`.

## 3. What the runs check

| Run | Instance and bounds | Shows |
|---|---|---|
| `spine` | 4 links in a loop, 5 trips, 3 slots, storage and residence 1-2, 0-1 token per link, both queue models | pool, life cycle, routes, queues; nothing raises; live slots are kept; newcomers stay; `FollowsLifecycle` |
| `spine_live` | acyclic diamond, 4 trips, storage 1, residence 1 or 3, 1 token per link | storage; `EveryTripEnds`: those with a route complete |
| `spine_teleport` | 2 links merging, 3 trips | **violated**: `OnlyExitReadyLeave` |
| `flow_point` | 2 links, half a vehicle per tick, queues up to 3 and 1 | `NoStarvation` (6 rounds), `CreditBounded` (2 vehicles) |
| `flow_spatial` | a merge whose exit closes and reopens, storage 1-2 | `ContractSpec` |
| `stream` | 2 overlapping events on 2 links, ticks 0-4, up to 4 snapshots and buffer calls, forced or not | buckets, capacities, trigger; every event clears; losses; staleness |
| `routes` | 4 nodes, 7 links of cost 1 or 3, 2 that close, 2 turns that may be forbidden, 1 or 3 routes wanted | potentials exact; candidates legal, and the cheapest in order; greedy route cheapest unless it is turned away from every cheapest way |
| `cache` | 2 closures, 2 pairs with one destination, 3 trips, refresh every 3 ticks | sets are of their own tick; nobody starts on a closed road; who is given up is cut off |
| `world` | 4 schedules, 3 starts, 4 kinds of call, 1 edit, 2 recorded calls, 6 steps | the contract; the registry; feedback; accepted replays; where a run ends |
| `parts` | see `MCParts`: activation, blend, bandit, reservation, finalizer, import, city (88 road plans, up to 6 blocks, 3 populations), each alone | one or two properties of each |
| `activation_due` | 2 requests | **violated**: `DueAreActivated` |
| `osm_contradictions` | one street, every small lane tag, both policies | **violated**: `ContradictionsRefused` |

Why the bounds are enough. *Spine*: five trips over three slots force a full pool, slot
reuse out of order and a slot released and taken in consecutive ticks; two trips that
start on a link of storage 1 force spillback against the increments of the same tick;
the fork forces reroutes at the first link and in mid-route; the loop lets a route visit
links again. *Flow*: half a vehicle per tick is the case in which residuals, carries and
credits all matter, and a queue of three lets a turn and a sink of one link compete
round after round; six rounds and two vehicles are the tightest bounds that hold.
*Events*: two windows that overlap in one tick, one of them a closure, on a link that
can be blocked and one that cannot, give every order of the two starts and ends with
injections before, in and after the windows. *Routes*: two ways that cross and a pair
of parallel links are the least network in which the cheapest route, the shortest and
the greedy one differ. *Cache*: the second closure begins in the last tick of the
first, and the pairs share a destination, hence potentials. *World*: cadences that meet,
that never meet, and slow or medium ticks without a fast one. *Parts*: the finalizer
has streets and bridges that cross in one common point, a road that ends on another, a
one-way road, and up to five components to stitch; an import has crossing, closed,
lasso-shaped and parallel ways; the plans have rings within rings, tied to each other or
not, a bridge, ramps, a part of town that meets the rest in one node, and roads that
cross, meet or end on one another where they must not. `FacesAreRegions` walks over a
lattice of points that no road passes, two in every cell, without looking at half-edges.
Four to six blocks are the least that keep all four land uses, and few enough people
that remainders decide.

Exploration bounds, all named in the modules: `MaxTick`, `Latest`, `MaxQueue`, `MaxAsk`,
`MaxOffers`, `MaxEdits`, `MaxRecorded`, `MaxStep`, `Congestible`. `MaxHops` and
`ExpansionsPerCandidate` are limits of the code itself. `CreditBound` also stops
exploration in `FlowAuthority` (`WithinCreditBound` guards `Request`): `CreditBounded` says in
`flow_point` that it is never left, and that run checks deadlock, so nothing is cut off
there. In `flow_spatial` it *is* left, and what lies beyond is not explored: that run
claims nothing about credits. `StillAsking` in `FlowContract` says that a vehicle that was
not served goes on asking, as `rebuild_runtime_turn_demand` makes it.

### Fairness

* `FairSpec` of the spine is `WF_vars(Next)`: `run_rollout` keeps stepping and each loop
  terminates. No fairness between actions is assumed. `EveryTripEnds` needs at least one
  token per link and tick (`MinBudget = 1`) and an acyclic network: on a ring of full
  links the code itself waits for ever.
* `StreamSpec` assumes that unpaused steps are taken again and again: a caller may pause as
  long as it likes, but not for ever. The same for `PartsSpec` and its clock.
* `ReplaySpec` assumes that the caller keeps calling with travel times. Even so a world may
  stop for good; `EndsOnlyWedged` lists the only places where it does.

### Disagreements with the documentation

1. **`OnlyExitReadyLeave`**. `src/specs/061-spatial-queue-runtime/spec.md:7-8`: agents "spend
   physical time on links, queue at exits". `rebuild_runtime_turn_demand` counts only
   exit-ready agents, but the commit loop gives the tokens to the first slots with the
   same movement and never reads `progress_01`. In the run a vehicle in slot 0 arrives at
   the merge later than the one in slot 1, takes the token slot 1 earned, and ends its
   trip on a link it has spent no residence on.
2. **`DueAreActivated`**. The docstring at `demand/trips.py:271` promises that due requests
   are activated; the early return at 290-299 stops at the first undue request of a list
   that looked sorted so far. `EveryRequestActivates` bounds the
   damage: late, never lost.
3. **`ContradictionsRefused`**. The docstring at `map/osm_import.py:93-94` promises that
   "genuinely contradictory" lane tags fail under both policies, and
   `src/tests/test_osm_lane_tagging_policy.py:87` tests one contradiction. Under `osm_wiki`
   a two-way street of one lane in all becomes one lane each way whatever its directional
   tags say (716-721), and on a one-way street a tag for the other direction lifts the
   comparison of the rest (693-707). Under `strict` every lane tag is honoured
   (`DrivesAsTagged`).

## 4. What is proved

The theorems hold for every value of the constants that satisfies the named assumptions
of the modules; TLC evaluates those assumptions in the runs. Each safety theorem rests
on an inductive invariant, preserved action by action.

**Runtime** (`SpineProofs`). `SpineInv` is the types of the pool,
`PoolConsistent`, `TripSetsOK` and `LifecyclePartition`. The partition is not inductive
alone: that an admission adds exactly one travelling trip needs the slot on top of the
stack not to be alive, which is `PoolConsistent`, which needs the types to read the
stack; `TripSetsOK` adds that admitted slots are alive, for the causality barrier. From
it: `PoolAlwaysConsistent`, `LifecycleAlwaysPartition`, the action properties
`LiveSlotsAlwaysKept` and `NewcomersAlwaysStay`, and `RuntimeFollowsLifecycle`: the stage of
a trip is shown to be a function of the id sets alone, each action is a stage move of
one trip, an activation or a stutter, and the capacity guard comes from counting.
`RouteInv` adds that the position of a vehicle is on its route: what a splice keeps is a
legal route up to the link it stands on, and the tail it appends is legal from there on
(`RouteAssumption`: of what the searches return, `CandidatesAlwaysLegal` proves this).
Hence `RoutesAlwaysLegal`.
`QueueIsAgents` holds only between ticks; `FlowInv` says what a queue is inside one. Until
the increments are published, the newcomers are missing from it; during the commit, it is
ahead of the agents by the tokens still to be spent (`QueueAccount`); no admission or grant
goes beyond the storage (`StorageKept`); and the tokens of a movement are never more than
the agents that asked for it, that the commit loop has not passed, and that are not
newcomers (`TokensEarned`). So no token is left when the loop ends (`RuntimeNeverRaises`), and
the account closes (`QueuesAlwaysAgents`). `StorageAlwaysRespected` follows from the middle
part. The sums over movements are the fold of the library, shown in `Counting` to be
independent of the order in which it runs through a set: it unfolds by one element, can
lose one and can be updated at one.

**Flow** (`FlowProofs`). `AuthorityImplementsContract`: the heap loop implements
`FlowContract` for all constants; nothing in it depends on the credits, which order the
vehicles and never decide how many tokens are used. The budget of a link is not a
variable once the residuals are rewritten, so the invariant keeps it as a sum: tokens
unspent plus vehicles granted is what the update began with (`WithinBudget`, one more
than whole capacity from the residual and one carried). A movement off the heap lacks
demand, service, a vehicle or space, and each of these only shrinks (`Exhausted`); a turn
that was never on it lacks them from the start (`IdleLinks`). When the heap is empty this
makes what was granted a grant (`EmptyHeapIsGrant`), with the tokens of `ServiceOf` and
`ReceivingOf`. `UpdatesFitStorage` is the `RuntimeError` of the update that never comes. A turn is
eligible when its exact fractional flow is positive (`Eligible`), as in the code: with
flows rounded down to `1/Scale` the theorem would be false.

**Events and UI** (`EventProofs`). `EventInv` is the types and
`ActiveWithinWindow`. That the multiplier is the least share the active events leave
(`MultiplierIsLeast`) needs a minimum of a set of naturals to exist; `Counting` gets
this from the well-founded order of the library without an operator parameter. From it
`WindowsAlwaysKept`, `HistoryOnlyGrows`, `CapacityAlwaysFollows`, `ChangesAlwaysReroute`.
`StreamInv` adds the order of the ticks offered, pending and drawn, that the overlay
shown is the one the server believes in, and the count of losses: `LossesAlwaysAccounted`,
`StreamNeverStale`.

**Route cache** (`EventProofs`). `CacheInv` adds to `EventInv` that potentials of the cache are of one state
and that every one is older than the next flow update (`MemoIsOld`): a signature that is
found again is therefore of this tick. Hence `SetsAlwaysFresh`, `AdmissionsAlwaysOpen`.
A set without a route is of a pair that is cut off or is older than the latest change of
the links (`EmptySetsExplained`), and that change is dated (`ChangeIsDated`): hence
`TripsGivenUpOnlyWhenCutOff`. Its exception is real, and what the code does: a set made
during a closure that ends while no trip of the pair waits is believed until the refresh
interval is over (without that disjunct the `cache` run fails). In `BestRouteIsOpen` the cheapest open route exists by
`LeastExists`, with no bound on the network.

**Route search** (`SearchProofs`). Every network, cost, closure, turn table and request
within `SearchAssumption`; the one bound there is that no way along all links costs
`Far`. *Potential*: each cost to go is 0 at the destination, is `Far` or attained by a
next link elsewhere, and no more than any open next link makes it unless that link's end
is still queued (`PotentialInv`). When the queue is empty this fixes the function: by induction on how
many nodes are nearer, on both sides, `SettledIsShortest` shows it equal to the
enumeration `Shortest`, which gives `PotentialAlwaysExact`. *Legality*: ways under
construction start at the origin, link up, turn legally and come to no node twice
(`WaysLegal`), and no way open or returned begins another (`WaysApart`): without it two
expansions could return the same route. Hence `CandidatesAlwaysLegal`. *Order*: the
estimate of an open way is what it costs plus the cost to go of its end (`Priced`). The
cost to go is exact for ways of any turns, legal or not, so the estimate is no more than any
legal route the way can become, and never falls from a way to its extensions; routes
therefore come off in the order of their costs (`RankedInOrder`), and a legal route that
did not come off still has an open beginning (`NothingLost`). `FarIsOutOfReach` is needed
here: a legal way, as it comes to no node twice, costs less than `Far`, so an end marked
unreachable cannot hide one. Hence `RankedAlwaysCheapest`. *Greedy*: as long as
at every node of the walk some cheapest way goes on by a turn that is allowed
(`NeverTurnedAway`), what was walked plus the cost to go is the cost to go of the origin
and every node passed lies higher than the end (`Downhill`), so the walk never stops at
a node passed before and is within the hop limit: `GreedyAlwaysOptimal`. Without that
premise the `routes` run shows the walk come back to a node and fail although a legal
route exists, as the code does.

**World** (`WorldProofs`). `WorldInv` is the types, the tags kept with the costs, and that
the accessibility version covers edits and feedbacks (`AccessibilityCoversEdits`): without
it the maximum of three versions could hide a change. Hence `ContractAlwaysSurvives`,
`RegistryAlwaysNotices`, `FeedbackAlwaysLagged`. A recorded run is a
run of the world, so they hold for it too. `RecordingInv`: there is a world from which
the recorded inputs lead to the recording's end, it has the recorded boundary, and the
world there is now is it or a later one. A step or a bump raises one of the five numbers
of a boundary and lowers none (`AdvancedLater`, `EditLater`), so a world with the
recorded boundary is the one the recording began in: `ReplaysAlwaysReproduce`. The replay
is the library's fold over a sequence, shown to take its inputs one by one
(`ReplayAppend`) as the sums of `Counting` are.

**Learning** (`WorldProofs`). `ReservationInv`: the heap holds the next place of every
route and nobody has a better one (`NobodyEverWouldMove`). `BanditInv`: pending decisions,
counts of pulls and sums of rewards agree; hence `EstimatesAlwaysMeans`. `BlendInv`: the
coefficient is in range whatever target was asked for; the rest is that normalised
scores are ordered as the scores are (`ShareFacts`: a set of integers has its bounds by
`GreatestExists`) and that the weighted sum is strictly larger where both scores are
(`MixGrows`), hence `NeverEverBeaten`.

**Land** (`CityProofs`). `LandInv` follows `_derive_scalable_static_authority` stage by
stage. Apportionment is the theorem of the largest remainder (`LargestRemainder`): with
`target * weight = whole * quota + rest` for every block, what is left of the target
times the whole is the sum of the remainders, so it is less than the number of blocks
with one; the ranks by remainder are a numbering (`RankBijection` in `Counting`), so as
many blocks are served as there are units left, each share is within one of the exact
quota, and a block of more weight never gets less. Zones are runs along the curve whose
prefix sums have a closed form (`CoveredIsSum`), so they meet every block once
(`RunsBalanced`). The points of interest of a channel are in one-to-one correspondence
with the blocks that hold any of it, so they hold the same (`PlacesHold`). Hence
`AllocationAlwaysSound`, for every network, landscape and population that is not refused.

**City** (`CityProofs`). `EveryPlaceAlwaysRoutable`, for any number of places and streets
wherever they lie. Nodes are `Strong` when no proper part of them is left by no link; what
`CityInv` adds is what brings this about. The components still apart say what a part that
is not left is made of, whole components and at least one (`Joins`), and each stitch joins
two of them for good (`StitchKeeps`); its road number is new, so a road keeps its two ends,
on which planarization relies (`Roadwise`). Planarization puts nodes on roads; the way back
of every link makes a part that is not left hold all stops of a road or none
(`SplitIsStrong`), and the prefix sums that number the new roads keep them apart
(`NewRoadsApart`). Crossings sort along a road without ties: rounding down
never takes a farther one before a nearer one (`FloorsFarther`), so different points lie
at different distances (`DistancesApart`), exact or not. In a strong network the searches find every node, the one that may not turn back
at once included (`TurnsLoseNothing`): where a link leads back to where the last one
began, the node is one that was already come to. That a search by rounds reaches the
closure (`ReachedClosed`) and that a sort by counting predecessors lists every element
once (`RankedLists`) are shown for the operators as they are.

**Import** (`OsmProofs`). `ImportAlwaysDrivesAsTagged`, for every extract, clip box and lane
policy. `OsmInv` says that the segments are exactly those of the ways read so far, the
compiled nodes their ends and the links all of theirs; the rest follows from it. A part is
the run of a way between two cuts, and a node within it has no other place in any way
(`InnerOnce`), so a step of a way at such a node is a step along this part. Clipping folds
over the lines of a part; what its fragments are is an invariant of that fold over how much
was drawn (`StrokeInv`): a part inside the box is one fragment, and a fragment that
has both ends of its part is all of it, except that a part that comes straight back could
cheat, which only one with equal ends does (`NeverBack`). With these, two closed sets
give the two directions: `Surroundings` (links do not leave the allowed source nodes and
the clipped ends beside them) and `Carried` (allowed steps do not leave the source nodes
driven to and the nodes within a part reached from such an end of it inside the box). What
is assumed of an extract is what `_validate_way_node_references` and the parser enforce.

**Only model-checked.** All liveness (the prover has no fairness or ENABLED), and with it
the activation pass. `NoStarvation` and `CreditBounded` of the flow authority: their
bounds are those of the checked networks, and no bound holds for every value of
`WaitBound` and `CreditBound`. `RoadsKept`: its proof needs which link became which pieces
and the order of crossing points along a line, products of coordinates that the solver
was not led through. `FacesAreRegions`: a sum of areas around each cycle of half-edges,
which is an induction over data.

## 5. Hazards

`PROJECT.json` lists what is hard to test in this code, each at its line, with the
properties about it. Three have none: the service residual a blocked turn drops under
closures, a snapshot held back that nobody polls for, and the ring of full links (on
which the code promises nothing). Three known
limits are visible in the models but contradict no claim: bridges that cross exactly above
a street crossing share its node (`city/planarization.py:144`), a road that ends *on*
another is not joined to it, and one OSM way that comes back to one of its own nodes
refuses the whole extract (`map/osm_import.py:645`).

## 6. Not modelled

* **City and demand generation** (`city/generator_v2.py`, `city/scalable_topology.py`,
  `city/growth_fabric.py`, `city/zones.py`, `demand/population.py` ...): a third of the
  package. It computes street layouts, terrain, parcels and populations from seeds and
  floating-point geometry before the first tick, without a protocol; what it must pass
  through is `CityFinalizer`, and `BlockFaces` and `LandAllocation` for scalable cities.
  Morphology metrics and the quality gate are a free choice (`JudgeQuality`). Of the
  blocks, interior witnesses, tile clips, fingerprints and the second validation of the
  finished record are left out; of the allocation, the terrain samples, the Morton codes
  and the certificates.
* **Reports, audits and benchmarks** (`metrics/`, `benchmarks/`, `src/tools/`, `ui/static_map.py`,
  `sim/run_summary.py`, `sim/runtime_diagnostics.py`): read-only over finished states.
* **Accelerators** (`backends/`, the Rust crate) and the JAX variants of searches and
  scores: numerical kernels, which the discrete authority refuses.
* **Numerical learning** (surrogates, cost-to-go features and audits): off by default.
* `float32` rounding, telemetry, time-band settings, journal contents, seeds and
  fingerprints of runtime replays, the generalized-cost choice of `traffic/routing.py`,
  projection, simplification, speeds and sections of maps, payload layouts, control
  parsing. The map therefore covers a small share of the package's lines, and most of
  those that decide how a run goes.

## 7. What is left

In order of importance: a run for fractional links under closures (the dropped
residual and the credit it goes on gaining); the spine with candidates that follow
`RouteCache` in place of `CutOff`, and with `FlowAuthority` in place of `IsGrant`, on the
smallest network; the scores of the reroute decision.
