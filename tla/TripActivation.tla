---------------------------- MODULE TripActivation ----------------------------
(***************************************************************************)
(* activate_trip_requests (src/src/metroflow/demand/trips.py): one pass    *)
(* over the list of trip requests that turns the queued ones whose         *)
(* departure is due into activated ones.  The pass stops at the first      *)
(* queued request that is not due, as long as the departures read so far   *)
(* never decreased: it takes the rest of the list to be later still.       *)
(*                                                                         *)
(* depart[i] is the planned departure of the i-th request of the list;     *)
(* queued is the set of positions whose status is QUEUED.                  *)
(***************************************************************************)
EXTENDS Integers, Sequences

(* maybe_sorted_by_depart when the pass is at position i. *)
SortedThrough(depart, i) == \A k \in 1 .. i - 1 : depart[k] <= depart[k + 1]

(* Mutant: a trip is due at its tick only. *)
DueAtItsTickOnly(depart, tick, i) == depart[i] = tick

Due(depart, tick, i) == depart[i] <= tick

(* The pass ends at position i. *)
StopsAt(depart, queued, tick, i) ==
    i \in queued /\ ~ Due(depart, tick, i) /\ SortedThrough(depart, i)

(* The positions that the pass activates at this tick. *)
NewlyActivated(depart, queued, tick) ==
    {i \in queued :
        /\ Due(depart, tick, i)
        /\ \A j \in 1 .. i - 1 : ~ StopsAt(depart, queued, tick, j)}
===============================================================================
