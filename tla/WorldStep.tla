------------------------------ MODULE WorldStep ------------------------------
(***************************************************************************)
(* One call of step_world on the immutable world: three cadences decided   *)
(* from the step number, accessibility measured by the medium one, land    *)
(* use fed back by the slow one from an earlier measurement, and edges     *)
(* advanced by the fast one (sim/orchestrator.py, sim/scheduler.py,        *)
(* core/state.py, core/contracts.py, core/cache.py, traffic/meso.py).      *)
(*                                                                         *)
(* A matrix of zonal costs is named by the step and the versions it was    *)
(* measured at; travel times and capacities of zones are left out, growth  *)
(* counts the land-use deltas applied.  Vehicles are whole numbers.        *)
(***************************************************************************)
EXTENDS Integers, Sequences, FiniteSets

CONSTANTS
    Edges,
    HasZones,      \* the world has land-use zones
    Schedules,     \* records [fast, medium, slow] of cadences
    Starts,        \* worlds a run may begin with
    Inputs,        \* what a call may be given: edge flows, and whether travel times are
    MaxEdits,      \* bound: version bumps by a caller
    MaxStep        \* bound: no call once the world has come so far

NoCosts == [measured |-> FALSE]
Costs == [step : Nat, graph : Nat, landuse : Nat]

Worlds == [step : Nat, graph : Nat, landuse : Nat, accessibility : Nat, policy : Nat,
           lagged : Nat \cup {-1}, graphTag : Nat, landuseTag : Nat,
           costs : Costs \cup {NoCosts}, growth : Nat,
           stock : [Edges -> Nat], queue : [Edges -> Nat]]

EmptyWorld(step) ==
    [step |-> step, graph |-> 0, landuse |-> 0, accessibility |-> 0, policy |-> 0,
     lagged |-> -1, graphTag |-> 0, landuseTag |-> 0, costs |-> NoCosts, growth |-> 0,
     stock |-> [e \in Edges |-> 0], queue |-> [e \in Edges |-> 0]]

ASSUME WorldAssumption ==
    /\ HasZones \in BOOLEAN /\ MaxEdits \in Nat /\ MaxStep \in Nat
    /\ Schedules \subseteq [fast : Nat \ {0}, medium : Nat \ {0}, slow : Nat \ {0}]
    /\ Starts \subseteq Nat
    /\ Inputs \subseteq [inflow : [Edges -> Nat], outflow : [Edges -> Nat],
                          capacity : [Edges -> Nat], supplied : BOOLEAN]

VARIABLES
    world,
    schedule,
    outcome,    \* of the last call: "none", "returned" or "raised"
    edits       \* bumps made so far

worldVars == <<world, schedule, outcome, edits>>

\* validate_state_contract, over the parts of the world that are modelled.
Valid(w) ==
    /\ \A e \in Edges : w.queue[e] >= 0 /\ w.stock[e] >= 0 /\ w.queue[e] <= w.stock[e]
    /\ w.costs = NoCosts => w.lagged = -1
    /\ w.costs # NoCosts => w.lagged < w.step

WorldInit ==
    /\ \E start \in Starts : world = EmptyWorld(start)
    /\ schedule \in Schedules
    /\ outcome = "none"
    /\ edits = 0

Due(step, every) == step % every = 0
Decision(w, s) ==
    [fast |-> Due(w.step, s.fast), medium |-> Due(w.step, s.medium), slow |-> Due(w.step, s.slow)]

SmallerOf(a, b) == IF a <= b THEN a ELSE b
LargerOf(a, b) == IF a <= b THEN b ELSE a

EdgeAfterUncut(stock, queue, inflow, outflow, capacity) ==
    LET discharged == SmallerOf(outflow, SmallerOf(stock + inflow, capacity))
    IN  [stock |-> stock + inflow - discharged,
         queue |-> queue + LargerOf(inflow - discharged, 0)]

\* update_edge_state: what is discharged is bounded by the capacity and by what is there.
EdgeAfter(stock, queue, inflow, outflow, capacity) ==
    LET available == stock + inflow
        discharged == SmallerOf(outflow, SmallerOf(available, capacity))
        left == available - discharged
    IN  [stock |-> left,
         queue |-> SmallerOf(queue + LargerOf(inflow - discharged, 0), left)]

MediumTick(w) ==
    LET measured == [step |-> w.step, graph |-> w.graph, landuse |-> w.landuse]
    IN  [w EXCEPT !.accessibility = @ + 1, !.graphTag = w.graph, !.landuseTag = w.landuse,
                  !.costs = IF HasZones THEN measured ELSE NoCosts,
                  !.lagged = IF HasZones THEN w.step ELSE -1]

FastTick(w, in) ==
    LET after == [e \in Edges |-> EdgeAfter(w.stock[e], w.queue[e],
                                            in.inflow[e], in.outflow[e], in.capacity[e])]
    IN  [w EXCEPT !.step = @ + 1,
                  !.stock = [e \in Edges |-> after[e].stock],
                  !.queue = [e \in Edges |-> after[e].queue]]

SlowTickUnversioned(w, before) ==
    [w EXCEPT !.landuse = @ + 1, !.growth = @ + 1, !.lagged = -1, !.costs = NoCosts]

\* Land use answers the costs the call began with, and the measurement is used up.
SlowTick(w, before) ==
    [w EXCEPT !.landuse = @ + 1, !.growth = @ + 1, !.accessibility = @ + 1,
              !.lagged = -1, !.costs = NoCosts,
              !.graphTag = before.graphTag, !.landuseTag = before.landuseTag]

AnySnapshotOK(w) == w.costs # NoCosts /\ w.lagged < w.step

SlowSnapshotOK(w) ==
    /\ w.costs # NoCosts
    /\ w.lagged < w.step
    /\ w.graphTag = w.graph
    /\ w.landuseTag = w.landuse

\* Everything step_world checks before it computes.
Admissible(w, s, in) ==
    LET due == Decision(w, s)
    IN  /\ Valid(w)
        /\ s.fast <= s.medium /\ s.medium <= s.slow
        /\ due.medium => due.fast
        /\ ~(due.medium /\ due.slow)
        /\ due.medium => in.supplied
        /\ due.slow => SlowSnapshotOK(w)

AdvancedOneCadence(w, s, in) ==
    LET due == Decision(w, s)
    IN  IF due.slow THEN SlowTick(w, w)
        ELSE IF due.medium THEN MediumTick(w) ELSE IF due.fast THEN FastTick(w, in) ELSE w

Advanced(w, s, in) ==
    LET due == Decision(w, s)
        measured == IF due.medium THEN MediumTick(w) ELSE w
        moved == IF due.fast THEN FastTick(measured, in) ELSE measured
    IN  IF due.slow THEN SlowTick(moved, w) ELSE moved

Raised == [raised |-> TRUE]
StepWorld(w, s, in) ==
    IF Admissible(w, s, in) /\ Valid(Advanced(w, s, in)) THEN Advanced(w, s, in) ELSE Raised

Call(in) ==
    LET after == StepWorld(world, schedule, in)
    IN  /\ world.step < MaxStep
        /\ world' = IF after = Raised THEN world ELSE after
        /\ outcome' = IF after = Raised THEN "raised" ELSE "returned"
        /\ UNCHANGED <<schedule, edits>>

\* build_cache_registry: a cache of accessibility is good for one value of this version.
RegistryVersion(w) == LargerOf(w.accessibility, LargerOf(w.graph, w.landuse))

GraphBump(w) == [w EXCEPT !.graph = @ + 1, !.accessibility = @ + 1]

LanduseBump(w) == [w EXCEPT !.landuse = @ + 1, !.accessibility = @ + 1]
PolicyBump(w) == [w EXCEPT !.policy = @ + 1]

Edit ==
    /\ edits < MaxEdits
    /\ edits' = edits + 1
    /\ world' \in {GraphBump(world), LanduseBump(world), PolicyBump(world)}
    /\ outcome' = "none"
    /\ UNCHANGED schedule

StepCall == \E in \in Inputs : Call(in)
WorldNext == StepCall \/ Edit

WorldSpec == WorldInit /\ [][WorldNext]_worldVars

----------------------------------------------------------------------------
\* The types, and that the tags kept with the costs are those they were measured at.
WorldTypeOK ==
    /\ world \in Worlds
    /\ world.costs # NoCosts =>
         <<world.lagged, world.graphTag, world.landuseTag>>
           = <<world.costs.step, world.costs.graph, world.costs.landuse>>
    /\ schedule \in Schedules
    /\ outcome \in {"none", "returned", "raised"}
    /\ edits \in 0..MaxEdits

\* A call that passes the checks made before it computes never fails the contract
\* checked after: no queue outgrows its edge, and no measurement is as new as the step.
ContractSurvivesCalls ==
    \A in \in Inputs : Admissible(world, schedule, in) => Valid(Advanced(world, schedule, in))

\* The versions of accessibility run ahead of the edits and feedbacks that outdate it:
\* the registry's maximum is always the accessibility version itself.
AccessibilityCoversEdits ==
    /\ world.accessibility >= world.graph + world.landuse
    /\ RegistryVersion(world) = world.accessibility

\* What accessibility is computed from never changes under one registry version: not by
\* an edit, a measurement, nor a feedback that uses the measurement up.
RegistryNoticesChange ==
    [][<<world'.graph, world'.landuse, world'.costs>> # <<world.graph, world.landuse, world.costs>>
         => RegistryVersion(world') > RegistryVersion(world)]_worldVars

\* Land use grows only from costs measured at an earlier step, under the graph and the
\* land use there is now, and never twice from the same measurement.
FeedbackIsLaggedAndCurrent ==
    [][world'.growth # world.growth =>
         /\ world'.growth = world.growth + 1
         /\ world.costs \in Costs
         /\ world.costs.step < world.step
         /\ world.costs.graph = world.graph /\ world.costs.landuse = world.landuse
         /\ world'.costs = NoCosts]_worldVars

\* Where a supplied run ends: at a step medium and slow are both due, at a slow step
\* whose measurement is missing or outdated, at a medium one without fast, at one the
\* schedule leaves idle, or at the bound.
Overlap == Due(world.step, schedule.medium) /\ Due(world.step, schedule.slow)
FeedbackStuck == Due(world.step, schedule.slow) /\ ~SlowSnapshotOK(world)
Stalled == ~Due(world.step, schedule.fast)
EndsOnlyWedged ==
    <>[](Overlap \/ FeedbackStuck \/ Stalled \/ world.step >= MaxStep)

=============================================================================
