--------------------------- MODULE ActivationClock ---------------------------
(***************************************************************************)
(* TripActivation driven by the clock: _activate_due_trip_requests         *)
(* (src/src/metroflow/sim/step.py) runs one activation pass on every tick  *)
(* that is not paused.  The departures are whatever the demand generator   *)
(* planned, in any order: the generator lists requests by trip id, and     *)
(* draws their departures independently.                                   *)
(***************************************************************************)
EXTENDS TripActivation

CONSTANTS
    Requests,   \* number of trip requests
    Latest      \* bound: latest departure; the clock saturates there

ASSUME ClockAssumption == Requests \in Nat /\ Latest \in Nat

VARIABLES
    tick,       \* clock.tick_index
    depart,     \* planned_depart_tick of each request, in list order
    queued      \* positions of the requests whose status is QUEUED

vars == <<tick, depart, queued>>

Init ==
    /\ tick = 0
    /\ depart \in [1 .. Requests -> 0 .. Latest]
    /\ queued = 1 .. Requests

Tick ==
    /\ tick' = IF tick < Latest THEN tick + 1 ELSE tick
    /\ queued' = queued \ NewlyActivated(depart, queued, tick')
    /\ UNCHANGED depart

Spec == Init /\ [][Tick]_vars /\ WF_vars(Tick)

-----------------------------------------------------------------------------
Overdue == {i \in queued : depart[i] <= tick}

(* "Return trip requests with due queued requests transitioned to          *)
(* activated" (the docstring of activate_trip_requests): after a pass, no  *)
(* request that is due is still queued.                                    *)
DueAreActivated == tick > 0 => Overdue = {}

(* A request is activated in the end, however late the pass reaches it.    *)
EveryRequestActivates == <>(queued = {})
===============================================================================
