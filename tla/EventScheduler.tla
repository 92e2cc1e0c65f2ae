---------------------------- MODULE EventScheduler ----------------------------
(***************************************************************************)
(* Traffic events (incidents) in simulation_step: the clock and the event  *)
(* buckets (_apply_control_to_state, _advance_event_state and              *)
(* flow/events.py), their effect on link capacity (flow/event_effects.py), *)
(* and the trigger of the reroute policy that follows from it.             *)
(*                                                                         *)
(* The buckets advance on every step.  Their effect on the links, and the  *)
(* reroute policy, run only on steps that are not paused.  A control that  *)
(* injects an id the scheduler already knows raises and changes nothing.   *)
(***************************************************************************)
EXTENDS RoadNetwork, Sequences, FiniteSetsExt

CONSTANTS
    Events,         \* event ids that may be injected
    Event,          \* Event[e]: start, end, model (effect_model), severity, scope
    Blockable,      \* links whose is_blockable is True
    Unit,           \* a multiplier of 1.0; severities are integers 0 .. Unit
    RefreshInterval,\* route_refresh_interval_ticks
    MaxTick         \* bound: the clock stops here, past every event

ASSUME EventAssumption ==
    /\ \A e \in Events :
          /\ Event[e].start \in Nat /\ Event[e].end \in Nat
          /\ Event[e].start < Event[e].end /\ Event[e].end < MaxTick
          /\ Event[e].severity \in 0 .. Unit /\ Event[e].scope \subseteq Links
    /\ Blockable \subseteq Links
    /\ Unit \in Nat \ {0} /\ MaxTick \in Nat /\ RefreshInterval \in Nat \ {0}

VARIABLES
    tick,       \* clock.tick_index
    scheduled, active, cleared,     \* ids in the buckets of the scheduler state
    multiplier, \* incident_capacity_multiplier of each link
    generation, \* runtime_incident_generation
    transition, \* runtime_incident_transition and _transition_tick
    trigger     \* why the reroute policy ran in the last step, or "none"

buckets == <<scheduled, active, cleared>>
effects == <<multiplier, generation, transition>>
eventVars == <<tick, buckets, effects, trigger>>

Known == scheduled \cup active \cup cleared

EventInit ==
    /\ tick = 0
    /\ scheduled = {} /\ active = {} /\ cleared = {}
    /\ multiplier = [l \in Links |-> Unit]
    /\ generation = 0
    /\ transition = [kind |-> "none", tick |-> None]
    /\ trigger = "none"

-----------------------------------------------------------------------------
(* advance_traffic_event_scheduler *)

(* Mutants: an event ends at the tick after its last one only; an injected *)
(* id is not compared with the history of cleared events.                  *)
EndedOnce(e, now) == now = Event[e].end + 1
InjectableAgain(new) == new \cap (scheduled \cup active) = {}

Ended(e, now) == now > Event[e].end
Injectable(new) == new \cap Known = {}

AdvanceBuckets(new, clear, now) ==
    LET waiting == scheduled \cup new
        over == {e \in waiting \cup active : e \in clear \/ Ended(e, now)}
        started == {e \in waiting : now >= Event[e].start}
    IN  /\ scheduled' = waiting \ (over \cup started)
        /\ active' = (active \cup started) \ over
        /\ cleared' = cleared \cup over

-----------------------------------------------------------------------------
(* apply_active_event_effects_to_link_state *)

(* The share of capacity an event leaves; other effect models are ignored. *)
CapacityLeft(e) == IF Event[e].model = "closure" THEN 0 ELSE Unit - Event[e].severity

Affects(e, l) ==
    /\ l \in Event[e].scope
    /\ Event[e].model \in {"closure", "capacity_reduction"}
    /\ Event[e].model = "closure" => l \in Blockable

MultiplierOf(events) ==
    [l \in Links |-> Min({Unit} \cup {CapacityLeft(e) : e \in {x \in events : Affects(x, l)}})]

Restricted(m) == \E l \in Links : m[l] < Unit

(* Mutant: links are not looked at again once no event is active. *)
EffectsDueWhileActive(events) == events # {}

EffectsDue(events) == events # {} \/ Restricted(multiplier)

(* Mutant: the tick of a transition is kept only while links stay restricted. *)
TransitionWhileRestricted(before, after, now) ==
    IF Restricted(after) THEN [kind |-> "changed", tick |-> now] ELSE transition

TransitionOf(before, after, now) ==
    [kind |-> IF ~ Restricted(before) THEN "activated"
              ELSE IF ~ Restricted(after) THEN "cleared" ELSE "changed",
     tick |-> now]

(* _apply_event_effects_to_flow_state *)
ApplyEffects(events, now) ==
    LET next == IF EffectsDue(events) THEN MultiplierOf(events) ELSE multiplier
    IN  /\ multiplier' = next
        /\ IF next # multiplier
           THEN /\ generation' = generation + 1
                /\ transition' = TransitionOf(multiplier, next, now)
           ELSE UNCHANGED <<generation, transition>>

(* _runtime_reroute_trigger *)
TriggerOf(change, events, now) ==
    IF change.tick = now THEN change.kind
    ELSE IF events # {} THEN "incident"
    ELSE IF now % RefreshInterval = 0 THEN "refresh_interval" ELSE "none"

-----------------------------------------------------------------------------
(* One simulation_step under a control that injects the events of new and  *)
(* clears those of clear (ids that are not known are ignored).             *)
Run(new, clear) ==
    /\ tick < MaxTick
    /\ Injectable(new)
    /\ tick' = tick + 1
    /\ AdvanceBuckets(new, clear, tick')
    /\ ApplyEffects(active', tick')
    /\ trigger' = TriggerOf(transition', active', tick')

Pause(new, clear) ==
    /\ Injectable(new)
    /\ AdvanceBuckets(new, clear, tick)
    /\ trigger' = "none"
    /\ UNCHANGED <<tick, effects>>

RunSome == \E new, clear \in SUBSET Events : Run(new, clear)
PauseSome == \E new, clear \in SUBSET Events : Pause(new, clear)

(* The caller may pause for as long as it likes, but not for ever.         *)
EventSpec == EventInit /\ [][RunSome \/ PauseSome]_eventVars /\ WF_eventVars(RunSome)

-----------------------------------------------------------------------------
(* Type invariant of the scheduler and of the incident state. *)
EventTypeOK ==
    /\ tick \in 0 .. MaxTick
    /\ scheduled \subseteq Events /\ active \subseteq Events /\ cleared \subseteq Events
    /\ multiplier \in [Links -> 0 .. Unit]
    /\ generation \in Nat

(* TrafficEventSchedulerState: no id is in two buckets, and after a step,  *)
(* paused or not, an event is active exactly within its window of ticks.   *)
ActiveWithinWindow ==
    /\ scheduled \cap active = {} /\ scheduled \cap cleared = {} /\ active \cap cleared = {}
    /\ \A e \in active : tick \in Event[e].start .. Event[e].end
    /\ \A e \in scheduled : tick < Event[e].start

(* Events only go forward, scheduled to active to cleared, through pauses, *)
(* late injections and repeated controls: history is never reopened.       *)
ForwardOnly ==
    [][/\ cleared \subseteq cleared' \ (scheduled' \cup active')
       /\ active \subseteq active' \cup cleared'
       /\ scheduled \subseteq Known']_eventVars

(* A step that runs leaves a link restricted only where an event active in *)
(* this very tick says so, and closes every blockable link of a closure,   *)
(* whatever was injected, cleared or expired while the clock was paused.   *)
CapacityFollowsEvents ==
    [][tick' # tick =>
          /\ \A l \in Links : multiplier'[l] < Unit =>
                \E e \in active' : Affects(e, l) /\ CapacityLeft(e) = multiplier'[l]
          /\ \A e \in active', l \in Links :
                Affects(e, l) => multiplier'[l] <= CapacityLeft(e)]_eventVars

(* Agents reconsider their routes in the very step that changes a capacity:*)
(* the end of an incident is noticed like its beginning.                   *)
ChangeReroutes == [][multiplier' # multiplier => trigger' # "none"]_eventVars

(* An event that was injected is over in the end. *)
EveryEventClears == \A e \in Events : e \in scheduled \cup active ~> e \in cleared
===============================================================================
