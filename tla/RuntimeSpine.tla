----------------------------- MODULE RuntimeSpine -----------------------------
(***************************************************************************)
(* The per-tick runtime: simulation_step (src/src/metroflow/sim/step.py)   *)
(* and the functions of sim/routing_runtime.py it calls, in their order:   *)
(*                                                                         *)
(*   tick      advance the clock, activate the due trip requests           *)
(*   admit     one iteration per activated trip, in trip id order          *)
(*   reroute   switch route tails, then publish the admitted vehicles      *)
(*   progress  advance the residence of every agent on its link            *)
(*   flow      rebuild the demand and grant movement tokens (FlowGrant)    *)
(*   commit    one iteration per slot, in slot order, spending the tokens  *)
(*                                                                         *)
(* The two loops take a step per iteration; `phase` and `cursor` are the   *)
(* program counter.  A paused tick changes none of this state and is a     *)
(* stuttering step.  Route search is external to this module: which        *)
(* candidate is selected, which detour is offered and whether an agent     *)
(* takes it are choices; that a route is legal is an assumption here and   *)
(* that the runtime keeps it legal is a property.  Selections are made per *)
(* agent, while the code shares one per OD pair and tick.                  *)
(***************************************************************************)
EXTENDS ActiveAgentPool, FlowGrant, TripActivation

CONSTANTS
    Depart,         \* Depart[t]: planned_depart_tick, in trip_requests order
    Candidates,     \* Candidates[t]: candidate paths of the OD pair of trip t
    CutOff,         \* trips whose candidates a closure may all block at times
    Tails,          \* Tails[l][t]: reroute tails after link l to t's destination
    Terminals,      \* Terminals[t]: the links whose dst_node_id is t's destination
    Residence,      \* ticks a vehicle spends on a link before it is exit-ready
    CooldownTicks,  \* cooldown_after_reroute_ticks
    MinBudget,      \* fewest service (receiving) tokens a link in demand accrues
    MaxBudget,      \* most of them
    MaxTick         \* the clock saturates here: past every departure

VARIABLES
    tick, phase, cursor,
    activated,      \* trips whose status is ACTIVATED (the others are QUEUED)
    allocated,      \* allocated_trip_request_ids
    completed,      \* completed_trip_request_ids
    failed,         \* failed_trip_request_ids
    memory,         \* plugin_memory: trip_request_id and route_path of a slot
    newly,          \* newly_allocated_slot_ids
    increments,     \* source_queue_increments_by_link_id
    queue,          \* queue_vehicles of each link
    tokens          \* realized turn and sink tokens not yet spent

tripVars == <<activated, allocated, completed, failed>>
flowVars == <<queue, tokens>>
vars == <<poolVars, tick, phase, cursor, tripVars, memory, newly, increments, flowVars>>

NoMemory == [trip |-> None, path |-> <<>>]

(* A route: not empty, along legal turns, ending at the destination of t.  *)
LegalPath(path, t) ==
    /\ path \in Seq(Links) /\ path # <<>>
    /\ \A i \in 1 .. Len(path) - 1 : <<path[i], path[i + 1]>> \in Turns
    /\ path[Len(path)] \in Terminals[t]

ASSUME SpineAssumption ==
    /\ Trips = 1 .. Len(Depart) /\ Depart \in Seq(Nat)
    /\ Residence \in [Links -> Nat \ {0}] /\ CooldownTicks \in Nat
    /\ CutOff \subseteq Trips
    /\ MinBudget \in Nat /\ MaxBudget \in Nat /\ MaxTick \in Nat
ASSUME RouteAssumption ==
    /\ \A t \in Trips : \A p \in Candidates[t] : LegalPath(p, t)
    /\ \A t \in Trips, l \in Links : \A r \in Tails[l][t] :
          r \in Seq(Links) \ {<<>>} /\ LegalPath(<<l>> \o r, t)

Init ==
    /\ PoolInit
    /\ tick = 0 /\ phase = "tick" /\ cursor = 0
    /\ activated = {} /\ allocated = {} /\ completed = {} /\ failed = {}
    /\ memory = [s \in Slots |-> NoMemory]
    /\ newly = {}
    /\ increments = [l \in Links |-> 0]
    /\ queue = [l \in Links |-> 0]
    /\ tokens = NoTokens

-----------------------------------------------------------------------------
(* The clock advances and the due requests are activated. *)
BeginTick ==
    LET now == IF tick < MaxTick THEN tick + 1 ELSE tick
    IN  /\ phase = "tick"
        /\ tick' = now
        /\ activated' = activated \cup NewlyActivated(Depart, Trips \ activated, now)
        /\ phase' = "admit" /\ cursor' = 1
        /\ newly' = {} /\ increments' = [l \in Links |-> 0]
        /\ UNCHANGED <<poolVars, allocated, completed, failed, memory, flowVars>>

-----------------------------------------------------------------------------
(* prepare_runtime_active_agents: the admission loop. *)

(* Mutants: a trip that already travelled is admitted again; the vehicles  *)
(* admitted earlier in the same tick are not counted.                      *)
PendingForgetsAllocated(t) == t \in activated \ (completed \cup failed)
SourceAdmissionIgnoresPending(l) == Spatial => queue[l] + 1 <= Storage[l]

(* An activated trip that no life-cycle set holds yet. *)
Pending(t) == t \in activated \ (allocated \cup completed \cup failed)

(* _source_link_admission_available *)
SourceAdmissionAvailable(l) == Spatial => queue[l] + increments[l] + 1 <= Storage[l]

Admitting(t) == phase = "admit" /\ cursor = t /\ Pending(t) /\ freeCount > 0

NextTrip == cursor' = cursor + 1 /\ UNCHANGED <<tick, phase, activated, completed, flowVars>>

SkipTrip(t) ==
    /\ phase = "admit" /\ cursor = t /\ ~ Pending(t)
    /\ NextTrip
    /\ UNCHANGED <<poolVars, allocated, failed, memory, newly, increments>>

(* Mutant: a trip whose first link is full fails as well. *)
NoRouteOrNoRoom(t) ==
    Candidates[t] = {} \/ \E p \in Candidates[t] : ~ SourceAdmissionAvailable(Head(p))

MayFindNoRoute(t) == Candidates[t] = {} \/ t \in CutOff

(* No candidate path, if only because of an incident that will be over: the*)
(* trip fails for good with reason no_route_candidate.                     *)
FailTrip(t) ==
    /\ Admitting(t) /\ MayFindNoRoute(t)
    /\ failed' = failed \cup {t}
    /\ NextTrip
    /\ UNCHANGED <<poolVars, allocated, memory, newly, increments>>

(* The first link is full: the trip waits, and the loop goes on. *)
SpillbackTrip(t) ==
    /\ Admitting(t)
    /\ \E path \in Candidates[t] : ~ SourceAdmissionAvailable(Head(path))
    /\ NextTrip
    /\ UNCHANGED <<poolVars, allocated, failed, memory, newly, increments>>

AdmitTrip(t, path) ==
    /\ Admitting(t) /\ SourceAdmissionAvailable(Head(path))
    /\ Allocate(t, Head(path))
    /\ memory' = [memory EXCEPT ![TopSlot] = [trip |-> t, path |-> path]]
    /\ newly' = newly \cup {TopSlot}
    /\ increments' = [increments EXCEPT ![Head(path)] = @ + 1]
    /\ allocated' = allocated \cup {t}
    /\ NextTrip
    /\ UNCHANGED failed

(* The loop ends after the last trip, or at a pending trip that finds the  *)
(* pool full.                                                              *)
EndAdmit ==
    /\ phase = "admit"
    /\ \/ cursor > Len(Depart)
       \/ cursor <= Len(Depart) /\ Pending(cursor) /\ freeCount = 0
    /\ phase' = "reroute"
    /\ UNCHANGED <<poolVars, tick, cursor, tripVars, memory, newly, increments, flowVars>>

-----------------------------------------------------------------------------
(* _apply_runtime_reroute_policy, then _apply_source_queue_increments. *)

Path(s) == memory[s].path
RestOfRoute(s) == SubSeq(Path(s), ptr[s] + 2, Len(Path(s)))

(* Mutant: the travelled part of the route is dropped, the position kept. *)
RerouteWithoutPrefix(s, rest) == <<link[s]>> \o rest

RoutePrefixThenTail(s, rest) == SubSeq(Path(s), 1, ptr[s] + 1) \o rest

(* The agents whose tail is compared with a candidate tail. *)
Reconsidered ==
    {s \in alive \ newly : cooldown[s] = 0 /\ RestOfRoute(s) # <<>>}

(* Each reconsidered agent keeps its tail (no candidate, the same tail, or *)
(* it persists) or takes another one, which starts its cooldown.  A slot   *)
(* that is cooling down only counts down.                                  *)
RerouteAgents ==
    \E rest \in {f \in [Reconsidered ->
                           UNION {Tails[link[s]][trip[s]] \cup {RestOfRoute(s)} : s \in Reconsidered}] :
                    \A s \in Reconsidered :
                       f[s] \in Tails[link[s]][trip[s]] \cup {RestOfRoute(s)}} :
        LET switching == {s \in Reconsidered : rest[s] # RestOfRoute(s)}
        IN  /\ cooldown' = [s \in Slots |->
                  IF s \in switching THEN CooldownTicks
                  ELSE IF s \in alive \ newly /\ cooldown[s] > 0 THEN cooldown[s] - 1
                  ELSE cooldown[s]]
            /\ memory' = [s \in Slots |->
                  IF s \in switching
                  THEN [memory[s] EXCEPT !.path = RoutePrefixThenTail(s, rest[s])]
                  ELSE memory[s]]

(* The policy runs when an incident is active or has just changed, or at   *)
(* the refresh interval: here, whenever the environment says so.           *)
Reroute ==
    /\ phase = "reroute"
    /\ RerouteAgents \/ UNCHANGED <<cooldown, memory>>
    /\ queue' = [l \in Links |-> queue[l] + increments[l]]
    /\ phase' = "progress"
    /\ UNCHANGED <<freeList, trip, link, progress, ptr,
                   tick, cursor, tripVars, newly, increments, tokens>>

-----------------------------------------------------------------------------
(* advance_runtime_agent_progress *)
Progress ==
    /\ phase = "progress"
    /\ progress' = [s \in Slots |->
          IF Spatial /\ s \in alive \ newly /\ progress[s] < Residence[link[s]]
          THEN progress[s] + 1 ELSE progress[s]]
    /\ phase' = "flow"
    /\ UNCHANGED <<freeList, trip, link, ptr, cooldown,
                   tick, cursor, tripVars, memory, newly, increments, flowVars>>

-----------------------------------------------------------------------------
(* rebuild_runtime_turn_demand *)

(* Mutant: a vehicle must stay longer than its residence. *)
ExitReadyTooLate(s) == Spatial => progress[s] > Residence[link[s]]

ExitReady(s) == Spatial => progress[s] >= Residence[link[s]]

(* The movement the route of s asks for next. *)
Intent(s) ==
    IF ptr[s] + 1 = Len(Path(s)) THEN <<link[s], None>>
    ELSE <<link[s], Path(s)[ptr[s] + 2]>>

(* The checks a slot's intent must pass, or the step raises. *)
IntentValid(s) ==
    /\ memory[s].trip = trip[s]
    /\ ptr[s] + 1 \in 1 .. Len(Path(s)) /\ Path(s)[ptr[s] + 1] = link[s]
    /\ LegalPath(Path(s), trip[s])

(* Mutant: the vehicles admitted in this tick ask to move at once. *)
DemandWithNewcomers ==
    [m \in Movements |-> Cardinality({s \in alive : ExitReady(s) /\ Intent(s) = m})]

Demand ==
    [m \in Movements |->
        Cardinality({s \in alive \ newly : ExitReady(s) /\ Intent(s) = m})]

(* What the flow update checks before it grants anything: the identity and *)
(* the route of every agent that may ask, and the storage of every link.   *)
FlowInputsValid ==
    /\ \A s \in alive \ newly : IntentValid(s)
    /\ \A l \in Links : Spatial => queue[l] <= Storage[l]

(* update_link_node_flow under its contract, with any service and          *)
(* receiving tokens the capacities may yield; invalid inputs raise.        *)
GrantTokens ==
    LET demand == Demand
        Budgets == MinBudget .. MaxBudget
    IN  \E service \in [SendingLinks(demand) -> Budgets],
           receiving \in [ReceivingLinks(demand) -> Budgets],
           g \in GrantsUpTo(demand, Capacity) :
           /\ IsGrant(g, queue, demand, service, receiving)
           /\ tokens' = g
           /\ queue' = NextQueue(queue, g)

FlowUpdate ==
    /\ phase = "flow"
    /\ IF FlowInputsValid
       THEN GrantTokens /\ phase' = "commit"
       ELSE phase' = "raised" /\ UNCHANGED flowVars
    /\ cursor' = 0
    /\ UNCHANGED <<poolVars, tick, tripVars, memory, newly, increments>>

-----------------------------------------------------------------------------
(* _advance_pool_along_realized_turns: the commit loop. *)

(* Mutants: a vehicle admitted in this tick may spend a token; the trip is *)
(* read from a slot that is already released.                              *)
HasTokenNewcomers(s) == s \in alive /\ tokens[Intent(s)] > 0
FinishedAfterRelease(s) == trip'[s]

HasToken(s) == s \in alive \ newly /\ tokens[Intent(s)] > 0

NextSlot == cursor' = cursor + 1 /\ UNCHANGED <<tick, phase, activated, allocated,
                                                failed, newly, increments, queue>>

(* The trip of slot s, recorded as completed. *)
Finished(s) == trip[s]

Spend(s) == tokens' = [tokens EXCEPT ![Intent(s)] = @ - 1]

(* Not alive, just admitted, or no token left for its movement: it waits. *)
CommitWait(s) ==
    /\ phase = "commit" /\ cursor = s /\ ~ HasToken(s)
    /\ NextSlot
    /\ UNCHANGED <<poolVars, completed, memory, tokens>>

CommitMove(s) ==
    /\ phase = "commit" /\ cursor = s /\ HasToken(s) /\ Intent(s) \in Turns
    /\ Spend(s)
    /\ ptr' = [ptr EXCEPT ![s] = @ + 1]
    /\ link' = [link EXCEPT ![s] = Intent(s)[2]]
    /\ progress' = [progress EXCEPT ![s] = 0]
    /\ cooldown' = [cooldown EXCEPT ![s] = IF @ > 0 THEN @ - 1 ELSE 0]
    /\ NextSlot
    /\ UNCHANGED <<freeList, trip, completed, memory>>

(* The trip is over: its slot and its route memory are released. *)
CommitComplete(s) ==
    /\ phase = "commit" /\ cursor = s /\ HasToken(s) /\ Intent(s) \in Sinks
    /\ Spend(s)
    /\ Release(s)
    /\ completed' = completed \cup {Finished(s)}
    /\ memory' = [memory EXCEPT ![s] = NoMemory]
    /\ NextSlot

(* After the last slot every token must have been spent, or it raises. *)
EndCommit ==
    /\ phase = "commit" /\ cursor = Capacity
    /\ phase' = IF tokens = NoTokens THEN "tick" ELSE "raised"
    /\ UNCHANGED <<poolVars, tick, cursor, tripVars, memory, newly, increments, flowVars>>

-----------------------------------------------------------------------------
Admission ==
    \/ \E t \in Trips : SkipTrip(t) \/ FailTrip(t) \/ SpillbackTrip(t)
    \/ \E t \in Trips : \E path \in Candidates[t] : AdmitTrip(t, path)
    \/ EndAdmit

Commit ==
    \/ \E s \in Slots : CommitWait(s) \/ CommitMove(s) \/ CommitComplete(s)
    \/ EndCommit

Next ==
    \/ BeginTick
    \/ Admission
    \/ Reroute
    \/ Progress
    \/ FlowUpdate
    \/ Commit

Spec == Init /\ [][Next]_vars
(* run_rollout keeps stepping: every loop iteration is eventually taken. *)
FairSpec == Spec /\ WF_vars(Next)

-----------------------------------------------------------------------------
(* check_trip_lifecycle_disjoint, at every step and not only at the end of *)
(* a tick: a travelling trip sits in exactly one slot, is allocated and    *)
(* neither completed nor failed; no trip is lost between two stages; only  *)
(* activated trips travel.                                                 *)
LifecyclePartition ==
    /\ {trip[s] : s \in alive} = allocated \ completed
    /\ \A r, s \in alive : trip[r] = trip[s] => r = s
    /\ completed \subseteq allocated
    /\ failed \cap allocated = {}
    /\ allocated \cup failed \subseteq activated

(* The stage a trip request is in, and TripLifecycle under that mapping:   *)
(* every tick moves trips forward through their stages one at a time, none *)
(* is lost when its slot is released, and the pool bounds the travellers.  *)
StageOf(t) ==
    IF t \in completed THEN "completed"
    ELSE IF t \in failed THEN "failed"
    ELSE IF \E s \in alive : trip[s] = t THEN "travelling"
    ELSE IF t \in activated THEN "activated"
    ELSE "queued"

Lifecycle == INSTANCE TripLifecycle WITH stage <- [t \in Trips |-> StageOf(t)]

FollowsLifecycle == Lifecycle!Spec

(* Every slot's route memory belongs to its trip, is a legal route to its  *)
(* destination, and the slot's position on it is the link it is on,        *)
(* through reuse of slots, reroutes and moves                              *)
(* (_validate_slot_trip_identity, _validate_route_path_authority).         *)
RouteAuthority == \A s \in alive : IntentValid(s)

OnLink(l) == {s \in alive : link[s] = l}

(* check_runtime_vehicle_queue_authority: between ticks, the queue of a    *)
(* link is the number of agents on it.                                     *)
QueueIsAgents ==
    phase = "tick" => \A l \in Links : queue[l] = Cardinality(OnLink(l))

(* check_finite_link_storage: admissions and grants of the same tick never *)
(* put more vehicles on a link than it stores.                             *)
StorageRespected == Spatial => \A l \in Links : queue[l] <= Storage[l]

(* The RuntimeErrors of the commit ("realized flow tokens did not          *)
(* reconcile ...") and of the flow update are never raised.                *)
NeverRaises == phase # "raised"

(* A vehicle admitted in a tick is a causality barrier: it does not move   *)
(* before the next tick, whatever token another vehicle earned.            *)
NewcomersStay ==
    [][\A s \in newly : phase = "commit" =>
          s \in alive' /\ link'[s] = link[s] /\ ptr'[s] = ptr[s]]_vars

(* "Only exit-ready agents" discharge (specs/061-spatial-queue-runtime):   *)
(* an agent that leaves its link has spent its residence on it.            *)
OnlyExitReadyLeave ==
    [][\A s \in alive :
          (s \notin alive' \/ ptr'[s] # ptr[s]) => ExitReady(s)]_vars

(* Every trip request ends, and only those that may find no route fail: a  *)
(* trip that waits for room or for a slot still completes.                 *)
EveryTripEnds ==
    <>(/\ completed \cup failed = Trips
       /\ \A t \in failed : Candidates[t] = {} \/ t \in CutOff)
=============================================================================
