--------------------------- MODULE ActiveAgentPool ---------------------------
(***************************************************************************)
(* The packed pool of active agents (src/src/metroflow/sim/active_agents.py).*)
(* A fixed number of slots; a travelling trip occupies one slot.  The free *)
(* slots are the first freeCount entries of an array used as a stack (the  *)
(* entries above freeCount are leftovers that no operation reads).         *)
(*                                                                         *)
(* The columns kept are those that decide what an agent does: trip_id,     *)
(* current_link_id, progress_01, remaining_route_ptr and                   *)
(* reroute_cooldown_ticks.  citizen_id, dest_node_id and                   *)
(* behavior_profile_id are functions of the trip and are left out.         *)
(* progress_01 is counted in ticks of residence on the link.               *)
(***************************************************************************)
EXTENDS RoadNetwork, FiniteSets

CONSTANTS
    Capacity,   \* number of slots of the pool
    Trips       \* trip request ids

Slots == 0 .. Capacity - 1

ASSUME CapacityAssumption == Capacity \in Nat \ {0}
ASSUME TripsAssumption == Trips \subseteq Nat

VARIABLES
    freeStack,  \* free_slot_stack: [Slots -> Slots]
    freeCount,  \* free_slot_count
    alive,      \* the slots whose alive_mask entry is True
    aliveCount, \* alive_count
    trip,       \* trip_id of each slot
    link,       \* current_link_id of each slot
    progress,   \* progress_01 of each slot, in ticks
    ptr,        \* remaining_route_ptr of each slot
    cooldown    \* reroute_cooldown_ticks of each slot

freeList == <<freeStack, freeCount, alive, aliveCount>>
columns == <<trip, link, progress, ptr, cooldown>>
poolVars == <<freeList, columns>>

-----------------------------------------------------------------------------
PoolInit ==
    /\ freeStack = [i \in Slots |-> Capacity - 1 - i]
    /\ freeCount = Capacity
    /\ alive = {}
    /\ aliveCount = 0
    /\ trip = [s \in Slots |-> None]
    /\ link = [s \in Slots |-> None]
    /\ progress = [s \in Slots |-> 0]
    /\ ptr = [s \in Slots |-> 0]
    /\ cooldown = [s \in Slots |-> 0]

(* Mutants of TopSlot and FreeTop: an entry too low on the stack. *)
TopSlotTooLow == freeStack[IF freeCount > 1 THEN freeCount - 2 ELSE 0]
FreeTopTooLow == IF freeCount > 0 THEN freeCount - 1 ELSE 0

(* The slot the next allocation takes, and the entry a release writes. *)
TopSlot == freeStack[freeCount - 1]
FreeTop == freeCount

(* A trip t spawned at the head of its route, on link l.  A full pool      *)
(* raises instead of allocating.                                           *)
Allocate(t, l) ==
    /\ freeCount > 0
    /\ freeCount' = freeCount - 1
    /\ aliveCount' = aliveCount + 1
    /\ alive' = alive \cup {TopSlot}
    /\ trip' = [trip EXCEPT ![TopSlot] = t]
    /\ link' = [link EXCEPT ![TopSlot] = l]
    /\ progress' = [progress EXCEPT ![TopSlot] = 0]
    /\ ptr' = [ptr EXCEPT ![TopSlot] = 0]
    /\ cooldown' = [cooldown EXCEPT ![TopSlot] = 0]
    /\ UNCHANGED freeStack

(* Slot s goes back on top of the stack and its columns are reset.  A slot *)
(* that is not alive, or a full stack, raises instead.                     *)
Release(s) ==
    /\ s \in alive
    /\ freeCount < Capacity
    /\ freeStack' = [freeStack EXCEPT ![FreeTop] = s]
    /\ freeCount' = freeCount + 1
    /\ aliveCount' = aliveCount - 1
    /\ alive' = alive \ {s}
    /\ trip' = [trip EXCEPT ![s] = None]
    /\ link' = [link EXCEPT ![s] = None]
    /\ progress' = [progress EXCEPT ![s] = 0]
    /\ ptr' = [ptr EXCEPT ![s] = 0]
    /\ cooldown' = [cooldown EXCEPT ![s] = 0]

-----------------------------------------------------------------------------
(* Type invariant of the pool: every column has a value of its domain and  *)
(* the two counts are within the capacity.                                 *)
PoolTypeOK ==
    /\ freeStack \in [Slots -> Slots]
    /\ freeCount \in 0 .. Capacity
    /\ alive \in SUBSET Slots
    /\ aliveCount \in Int
    /\ trip \in [Slots -> Trips \cup {None}]
    /\ link \in [Slots -> Links \cup {None}]
    /\ progress \in [Slots -> Nat]
    /\ ptr \in [Slots -> Nat]
    /\ cooldown \in [Slots -> Nat]

(* The free slots, as validate_active_agent_pool reads them. *)
FreeSlots == {freeStack[i] : i \in 0 .. freeCount - 1}

(* What validate_active_agent_pool checks after any mix of allocations and *)
(* releases, whatever order slots are reused in: no slot is twice on the   *)
(* free stack, none is both free and alive, together they are the whole    *)
(* pool, and both cached counts are right.                                 *)
PoolConsistent ==
    /\ \A i, j \in 0 .. freeCount - 1 : freeStack[i] = freeStack[j] => i = j
    /\ FreeSlots \cap alive = {}
    /\ FreeSlots \cup alive = Slots
    /\ aliveCount = Cardinality(alive)
    /\ freeCount + aliveCount = Capacity

(* allocate_active_agent_slot and release_active_agent_slot never touch a  *)
(* slot another trip is travelling in: the trip of a slot that stays alive *)
(* never changes, nor does its position when slots are taken or released.  *)
LiveSlotKept ==
    [][\A s \in alive \cap alive' :
          /\ trip'[s] = trip[s]
          /\ alive' # alive => link'[s] = link[s] /\ ptr'[s] = ptr[s]]_poolVars

=============================================================================
