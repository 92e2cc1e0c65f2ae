---------------------------- MODULE TripLifecycle ----------------------------
(***************************************************************************)
(* What the runtime promises about trip requests, without saying how they  *)
(* travel: a trip request goes forward through its stages, one at a time,  *)
(* is never lost between two of them, and at most Capacity trips travel at *)
(* once.  It is the contract of the life-cycle counters                    *)
(* (_demand_lifecycle_counts) and of check_trip_lifecycle_disjoint.        *)
(***************************************************************************)
EXTENDS Naturals, FiniteSets

CONSTANTS
    Trips,      \* trip request ids
    Capacity    \* trips that may travel at once

VARIABLE stage  \* "queued", "activated", "travelling", "completed" or "failed"

At(name) == {t \in Trips : stage[t] = name}

Move(t, from, to) == stage[t] = from /\ stage' = [stage EXCEPT ![t] = to]

Init == stage = [t \in Trips |-> "queued"]

(* Some of the queued requests become due together. *)
Activate(due) ==
    /\ due # {} /\ due \subseteq At("queued")
    /\ stage' = [t \in Trips |-> IF t \in due THEN "activated" ELSE stage[t]]

Admit(t) == Cardinality(At("travelling")) < Capacity /\ Move(t, "activated", "travelling")

Fail(t) == Move(t, "activated", "failed")

Complete(t) == Move(t, "travelling", "completed")

Next ==
    \/ \E due \in SUBSET Trips : Activate(due)
    \/ \E t \in Trips : Admit(t) \/ Fail(t) \/ Complete(t)

Spec == Init /\ [][Next]_stage
==============================================================================
