------------------------------ MODULE Reservation ------------------------------
(***************************************************************************)
(* Sharing a demand out over fixed routes by their marginal disutility     *)
(* (learning/active_potential.py, allocate_route_local_reservations): the  *)
(* next vehicle goes to the route whose next place is cheapest, ties to    *)
(* the lower id.  Disutilities are whole numbers; Slope[c] stands for      *)
(* reservation_strength / effective_capacity.                              *)
(***************************************************************************)
EXTENDS Integers, FiniteSets, FiniteSetsExt

CONSTANTS
    Candidates,    \* ids of the routes
    Bases,         \* base disutilities to choose from
    Slopes,        \* marginal increases to choose from
    Demand

ASSUME ReservationAssumption ==
    /\ Candidates \subseteq Nat /\ Candidates # {} /\ IsFiniteSet(Candidates)
    /\ Bases \subseteq Int /\ Slopes \subseteq Nat
    /\ Demand \in Nat

VARIABLES
    base, slope,   \* of each route, given
    heap,          \* the entries [marginal, id], one per route
    counts         \* vehicles assigned so far

reservationVars == <<base, slope, heap, counts>>

ReservationInit ==
    /\ base \in [Candidates -> Bases]
    /\ slope \in [Candidates -> Slopes]
    /\ heap = {[marginal |-> base[c], id |-> c] : c \in Candidates}
    /\ counts = [c \in Candidates |-> 0]

BeforeByBase(x, y) == base[x.id] < base[y.id] \/ (base[x.id] = base[y.id] /\ x.id <= y.id)

Before(x, y) == x.marginal < y.marginal \/ (x.marginal = y.marginal /\ x.id <= y.id)

\* The disutility of the place after n vehicles.
Marginal(c, n) == base[c] + slope[c] * n

Assigned == MapThenSumSet(LAMBDA c : counts[c], Candidates)

Assign(x) ==
    /\ Assigned < Demand
    /\ x \in heap /\ \A y \in heap : Before(x, y)
    /\ counts' = [counts EXCEPT ![x.id] = @ + 1]
    /\ heap' = (heap \ {x}) \cup {[marginal |-> Marginal(x.id, counts'[x.id]), id |-> x.id]}
    /\ UNCHANGED <<base, slope>>

ReservationNext == \E x \in heap : Assign(x)
ReservationSpec == ReservationInit /\ [][ReservationNext]_reservationVars

----------------------------------------------------------------------------
ReservationTypeOK ==
    /\ base \in [Candidates -> Bases] /\ slope \in [Candidates -> Slopes]
    /\ counts \in [Candidates -> Nat]
    /\ heap = {[marginal |-> Marginal(c, counts[c]), id |-> c] : c \in Candidates}

\* Wherever a vehicle is, it would be no better off in the next place of any other
\* route: at every moment the places taken are the cheapest ones.
NobodyWouldMove ==
    \A c, d \in Candidates : counts[c] > 0 => Marginal(c, counts[c] - 1) <= Marginal(d, counts[d])

=============================================================================
