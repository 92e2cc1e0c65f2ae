------------------------------ MODULE SpineProofs ------------------------------
(***************************************************************************)
(* Theorems about RuntimeSpine that hold for every network, set of trips,  *)
(* capacity, storage and tick budget.                                      *)
(*                                                                         *)
(* SpineInv is the inductive invariant of the pool and the life cycle.     *)
(* LifecyclePartition alone is not inductive: that a released slot takes   *)
(* exactly one trip out of the pool and an allocated one adds exactly one  *)
(* needs the free slot to be really free (PoolConsistent), and the         *)
(* causality barrier needs the admitted slots to be still alive            *)
(* (newly \subseteq alive).                                                *)
(*                                                                         *)
(* RouteInv adds to SpineInv what reroutes and moves need.  FlowInv adds   *)
(* the accounts that make the queues right at every step and not only      *)
(* between ticks.  QueueIsAgents and NeverRaises alone are not inductive:  *)
(* within a tick a vehicle is counted on its link, or announced by a       *)
(* source increment, or owed by a token that is not spent yet              *)
(* (QueueAccount), and the tokens are all spent in the end because every   *)
(* one left has an agent at or after the cursor to spend it (TokensEarned).*)
(***************************************************************************)
EXTENDS RuntimeSpine, FiniteSetTheorems, Counting, TLAPS

-----------------------------------------------------------------------------
(* The pool: allocating and releasing slots keeps it well typed and         *)
(* consistent, whatever else the step does.                                *)

(* The slots are a finite set and the slot columns keep None apart from ids. *)
LEMMA SlotsFinite ==
    ASSUME NEW S, S \subseteq Slots
    PROVE  IsFiniteSet(S) /\ Cardinality(S) \in Nat
<1>1. IsFiniteSet(Slots)
    BY FS_Interval, CapacityAssumption DEF Slots
<1>2. IsFiniteSet(S)
    BY <1>1, FS_Subset
<1> QED
    BY <1>2, FS_CardinalityType

(* The empty pool of create_active_agent_pool is well typed and consistent. *)
LEMMA PoolInitCorrect == PoolInit => PoolTypeOK /\ PoolConsistent
<1> SUFFICES ASSUME PoolInit PROVE PoolTypeOK /\ PoolConsistent
    OBVIOUS
<1> USE CapacityAssumption DEF PoolInit, Slots
<1>1. PoolTypeOK
    BY DEF PoolTypeOK, None
<1>2. \A i, j \in 0 .. freeCount - 1 : freeStack[i] = freeStack[j] => i = j
    OBVIOUS
<1>3. FreeSlots \cap alive = {}
    OBVIOUS
<1>4. FreeSlots \cup alive = Slots
  <2>1. FreeSlots \subseteq Slots
    BY DEF FreeSlots
  <2>2. ASSUME NEW s \in Slots PROVE s \in FreeSlots
    <3>1. Capacity - 1 - s \in 0 .. freeCount - 1 /\ freeStack[Capacity - 1 - s] = s
        OBVIOUS
    <3> QED BY <3>1 DEF FreeSlots
  <2> QED BY <2>1, <2>2
<1>5. aliveCount = Cardinality(alive) /\ freeCount + aliveCount = Capacity
    BY FS_EmptySet
<1> QED BY <1>1, <1>2, <1>3, <1>4, <1>5 DEF PoolConsistent

(* The slot at the top of the stack of a consistent pool is free. *)
LEMMA TopSlotFree ==
    ASSUME PoolTypeOK, PoolConsistent, freeCount > 0
    PROVE  /\ TopSlot \in Slots /\ TopSlot \notin alive
           /\ \A i \in 0 .. freeCount - 2 : freeStack[i] # TopSlot
<1>1. freeCount - 1 \in 0 .. freeCount - 1 /\ freeCount - 1 \in Slots
    BY CapacityAssumption DEF PoolTypeOK, Slots
<1>2. TopSlot \in FreeSlots /\ TopSlot \in Slots
    BY <1>1 DEF FreeSlots, TopSlot, PoolTypeOK
<1>3. ASSUME NEW i \in 0 .. freeCount - 2 PROVE freeStack[i] # TopSlot
  <2>1. i \in 0 .. freeCount - 1 /\ i # freeCount - 1
    BY <1>1 DEF PoolTypeOK
  <2> QED BY <1>1, <2>1 DEF PoolConsistent, TopSlot
<1> QED BY <1>2, <1>3 DEF PoolConsistent

(* allocate_active_agent_slot keeps the pool well typed. *)
LEMMA AllocateKeepsType ==
    ASSUME NEW t \in Trips, NEW l \in Links, PoolTypeOK, PoolConsistent, Allocate(t, l)
    PROVE  PoolTypeOK'
<1>1. TopSlot \in Slots
    BY TopSlotFree DEF Allocate
<1>2. freeCount' \in 0 .. Capacity
    BY CapacityAssumption DEF Allocate, PoolTypeOK
<1> QED BY <1>1, <1>2 DEF Allocate, PoolTypeOK

(* allocate_active_agent_slot keeps the pool consistent. *)
LEMMA AllocateKeepsConsistent ==
    ASSUME NEW t, NEW l, PoolTypeOK, PoolConsistent, Allocate(t, l)
    PROVE  PoolConsistent'
<1> USE DEF Allocate
<1> DEFINE top == TopSlot
<1>1. top \in Slots /\ top \notin alive /\ \A i \in 0 .. freeCount - 2 : freeStack[i] # top
    BY TopSlotFree
<1>2. freeCount \in Nat /\ freeCount > 0 /\ freeCount' = freeCount - 1
    BY DEF PoolTypeOK
<1>3. \A i, j \in 0 .. freeCount' - 1 : freeStack'[i] = freeStack'[j] => i = j
    BY <1>2 DEF PoolConsistent
<1>4. FreeSlots = FreeSlots' \cup {top}
  <2>1. 0 .. freeCount - 1 = (0 .. freeCount' - 1) \cup {freeCount - 1}
    BY <1>2
  <2> QED BY <2>1 DEF FreeSlots, TopSlot
<1>5. top \notin FreeSlots'
    BY <1>1, <1>2 DEF FreeSlots
<1>6. FreeSlots' \cap alive' = {} /\ FreeSlots' \cup alive' = Slots
    BY <1>1, <1>4, <1>5 DEF PoolConsistent
<1>7. aliveCount' = Cardinality(alive')
  <2>1. IsFiniteSet(alive)
    BY SlotsFinite DEF PoolTypeOK
  <2>2. Cardinality(alive \cup {top}) = Cardinality(alive) + 1
    BY <1>1, <2>1, FS_AddElement
  <2> QED BY <2>2 DEF PoolConsistent
<1>8. freeCount' + aliveCount' = Capacity
    BY <1>2, CapacityAssumption DEF PoolConsistent, PoolTypeOK
<1> QED BY <1>3, <1>6, <1>7, <1>8 DEF PoolConsistent

(* release_active_agent_slot keeps the pool well typed. *)
LEMMA ReleaseKeepsType ==
    ASSUME NEW s \in Slots, PoolTypeOK, Release(s)
    PROVE  PoolTypeOK'
<1>1. freeCount' \in 0 .. Capacity /\ FreeTop \in Slots
    BY CapacityAssumption DEF Release, PoolTypeOK, FreeTop, Slots
<1> QED BY <1>1 DEF Release, PoolTypeOK

(* release_active_agent_slot keeps the pool consistent: the slot it pushes *)
(* was alive, so it is not on the stack yet.                               *)
LEMMA ReleaseKeepsConsistent ==
    ASSUME NEW s \in Slots, PoolTypeOK, PoolConsistent, Release(s)
    PROVE  PoolConsistent'
<1> USE DEF Release, FreeTop
<1>1. freeCount \in Nat /\ freeCount' = freeCount + 1 /\ freeCount \in Slots
    BY CapacityAssumption DEF PoolTypeOK, Slots
<1>2. /\ freeStack'[freeCount] = s
      /\ \A i \in 0 .. freeCount - 1 : freeStack'[i] = freeStack[i]
    BY <1>1 DEF PoolTypeOK, Slots
<1>3. \A i \in 0 .. freeCount - 1 : freeStack[i] # s
    BY DEF PoolConsistent, FreeSlots
<1>4. 0 .. freeCount' - 1 = (0 .. freeCount - 1) \cup {freeCount}
    BY <1>1
<1>5. \A i, j \in 0 .. freeCount' - 1 : freeStack'[i] = freeStack'[j] => i = j
    BY <1>2, <1>3, <1>4 DEF PoolConsistent
<1>6. FreeSlots' = FreeSlots \cup {s}
  <2>1. FreeSlots' = {freeStack'[i] : i \in 0 .. freeCount' - 1}
    BY DEF FreeSlots
  <2> QED BY <1>2, <1>4, <2>1 DEF FreeSlots
<1>7. FreeSlots' \cap alive' = {} /\ FreeSlots' \cup alive' = Slots
    BY <1>6 DEF PoolConsistent
<1>8. aliveCount' = Cardinality(alive')
  <2>1. IsFiniteSet(alive)
    BY SlotsFinite DEF PoolTypeOK
  <2>2. Cardinality(alive \ {s}) = Cardinality(alive) - 1
    BY <2>1, FS_RemoveElement
  <2> QED BY <2>2 DEF PoolConsistent
<1>9. freeCount' + aliveCount' = Capacity
    BY <1>1, CapacityAssumption DEF PoolConsistent, PoolTypeOK
<1> QED BY <1>5, <1>7, <1>8, <1>9 DEF PoolConsistent

(* A step that leaves the free list alone keeps the pool consistent. *)
LEMMA FreeListKeepsConsistent ==
    ASSUME PoolConsistent, UNCHANGED freeList PROVE PoolConsistent'
BY DEF PoolConsistent, FreeSlots, freeList

-----------------------------------------------------------------------------
(* The life cycle. *)

(* Trip sets and the slots admitted in this tick. *)
TripSetsOK ==
    /\ activated \subseteq Trips /\ allocated \subseteq Trips
    /\ completed \subseteq Trips /\ failed \subseteq Trips
    /\ newly \subseteq alive

SpineInv == PoolTypeOK /\ PoolConsistent /\ TripSetsOK /\ LifecyclePartition

-----------------------------------------------------------------------------
(* The steps that touch neither the free list, nor the trip of a slot, nor *)
(* a life-cycle set keep everything but the types of the columns.          *)
LEMMA QuietStep ==
    ASSUME SpineInv, UNCHANGED <<freeList, trip, allocated, completed, failed>>,
           activated \subseteq activated', activated' \subseteq Trips, newly' \subseteq newly
    PROVE  PoolConsistent' /\ TripSetsOK' /\ LifecyclePartition'
<1>1. PoolConsistent'
    BY FreeListKeepsConsistent DEF SpineInv
<1>2. TripSetsOK' /\ LifecyclePartition'
    BY DEF SpineInv, TripSetsOK, LifecyclePartition, freeList
<1> QED BY <1>1, <1>2

(* The initial state satisfies the invariant. *)
LEMMA SpineInvInit == Init => SpineInv
<1> SUFFICES ASSUME Init PROVE SpineInv
    OBVIOUS
<1>1. PoolTypeOK /\ PoolConsistent
    BY PoolInitCorrect DEF Init
<1>2. TripSetsOK /\ LifecyclePartition
    BY DEF Init, PoolInit, TripSetsOK, LifecyclePartition
<1> QED BY <1>1, <1>2 DEF SpineInv

(* Activating the due trips disturbs no trip that travels. *)
LEMMA SpineInvBeginTick == ASSUME SpineInv, BeginTick PROVE SpineInv'
<1>1. UNCHANGED <<poolVars, allocated, completed, failed>> /\ newly' = {}
    BY DEF BeginTick
<1>2. activated \subseteq activated' /\ activated' \subseteq Trips
  <2>1. PICK now : activated' = activated \cup NewlyActivated(Depart, Trips \ activated, now)
    BY DEF BeginTick
  <2>2. NewlyActivated(Depart, Trips \ activated, now) \subseteq Trips
    BY DEF NewlyActivated
  <2> QED BY <2>1, <2>2 DEF SpineInv, TripSetsOK
<1>3. PoolTypeOK'
    BY <1>1 DEF SpineInv, PoolTypeOK, poolVars, freeList, columns
<1>4. UNCHANGED <<freeList, trip>>
    BY <1>1 DEF poolVars, columns, freeList
<1> QED BY <1>1, <1>2, <1>3, <1>4, QuietStep DEF SpineInv

(* The steps that change no column of the pool and no life-cycle set. *)
LEMMA SpineInvUnchanged ==
    ASSUME SpineInv, UNCHANGED <<poolVars, tripVars, newly>>
    PROVE  SpineInv'
<1>1. PoolTypeOK'
    BY DEF SpineInv, PoolTypeOK, poolVars, freeList, columns
<1>2. UNCHANGED <<freeList, trip, allocated, completed, failed, activated>>
    BY DEF poolVars, freeList, columns, tripVars
<1> QED BY <1>1, <1>2, QuietStep DEF SpineInv, TripSetsOK

(* A trip that fails was neither allocated nor completed. *)
LEMMA SpineInvFailTrip ==
    ASSUME NEW t \in Trips, SpineInv, FailTrip(t) PROVE SpineInv'
<1>1. UNCHANGED <<poolVars, activated, allocated, completed, newly>>
    BY DEF FailTrip, NextTrip
<1>2. failed' = failed \cup {t} /\ t \in activated \ (allocated \cup completed \cup failed)
    BY DEF FailTrip, Admitting, Pending
<1>3. PoolTypeOK' /\ PoolConsistent'
    BY <1>1, FreeListKeepsConsistent DEF SpineInv, PoolTypeOK, poolVars, columns, freeList
<1>4. TripSetsOK' /\ LifecyclePartition'
    BY <1>1, <1>2 DEF SpineInv, TripSetsOK, LifecyclePartition, poolVars, freeList, columns
<1> QED BY <1>3, <1>4 DEF SpineInv

(* An admitted trip takes a slot that no other trip holds. *)
LEMMA SpineInvAdmitTrip ==
    ASSUME NEW t \in Trips, NEW path \in Candidates[t], SpineInv, AdmitTrip(t, path)
    PROVE  SpineInv'
<1> DEFINE top == TopSlot
<1>1. Head(path) \in Links
  <2>1. path \in Seq(Links) /\ path # <<>>
    BY RouteAssumption DEF LegalPath
  <2> QED BY <2>1
<1>2. Allocate(t, Head(path))
    BY DEF AdmitTrip
<1>3. PoolTypeOK' /\ PoolConsistent'
    BY <1>1, <1>2, AllocateKeepsType, AllocateKeepsConsistent DEF SpineInv
<1>4. top \in Slots /\ top \notin alive
    BY <1>2, TopSlotFree DEF SpineInv, Allocate
<1>5. /\ alive' = alive \cup {top}
      /\ trip'[top] = t
      /\ \A s \in alive : trip'[s] = trip[s]
    BY <1>2, <1>4 DEF Allocate, SpineInv, PoolTypeOK
<1>6. /\ allocated' = allocated \cup {t} /\ newly' = newly \cup {top}
      /\ UNCHANGED <<activated, completed, failed>>
      /\ t \in activated \ (allocated \cup completed \cup failed)
    BY DEF AdmitTrip, Admitting, Pending, NextTrip
<1>7. TripSetsOK'
    BY <1>5, <1>6 DEF SpineInv, TripSetsOK
<1>8. {trip'[s] : s \in alive'} = {trip[s] : s \in alive} \cup {t}
    BY <1>5
<1>9. \A r, s \in alive' : trip'[r] = trip'[s] => r = s
    BY <1>5, <1>6 DEF SpineInv, LifecyclePartition
<1> QED BY <1>3, <1>6, <1>7, <1>8, <1>9 DEF SpineInv, LifecyclePartition

(* A completed trip leaves the pool with its slot, and no other trip does. *)
LEMMA SpineInvCommitComplete ==
    ASSUME NEW c \in Slots, SpineInv, CommitComplete(c) PROVE SpineInv'
<1>1. Release(c) /\ c \in alive /\ c \notin newly
    BY DEF CommitComplete, HasToken
<1>2. PoolTypeOK' /\ PoolConsistent'
    BY <1>1, ReleaseKeepsType, ReleaseKeepsConsistent DEF SpineInv
<1>3. alive' = alive \ {c} /\ \A s \in alive' : trip'[s] = trip[s]
    BY <1>1 DEF Release, SpineInv, PoolTypeOK
<1>4. /\ completed' = completed \cup {trip[c]}
      /\ UNCHANGED <<activated, allocated, failed, newly>>
    BY DEF CommitComplete, Finished, NextSlot
<1>5. trip[c] \in allocated \ completed
    BY <1>1 DEF SpineInv, LifecyclePartition
<1>6. TripSetsOK'
    BY <1>1, <1>3, <1>4, <1>5 DEF SpineInv, TripSetsOK
<1>7. {trip'[s] : s \in alive'} = {trip[s] : s \in alive} \ {trip[c]}
    BY <1>1, <1>3 DEF SpineInv, LifecyclePartition
<1>8. \A r, s \in alive' : trip'[r] = trip'[s] => r = s
    BY <1>3 DEF SpineInv, LifecyclePartition
<1> QED BY <1>2, <1>4, <1>5, <1>6, <1>7, <1>8 DEF SpineInv, LifecyclePartition

(* The steps that move agents, or change their routes, but not their slots. *)
LEMMA SpineInvReroute == ASSUME SpineInv, Reroute PROVE SpineInv'
<1>1. UNCHANGED <<freeList, trip, link, progress, ptr, tripVars, newly>>
    BY DEF Reroute
<1>2. cooldown' \in [Slots -> Nat]
  <2>1. CASE RerouteAgents
    <3>1. PICK switching : cooldown' = [s \in Slots |->
                  IF s \in switching THEN CooldownTicks
                  ELSE IF s \in alive \ newly /\ cooldown[s] > 0 THEN cooldown[s] - 1
                  ELSE cooldown[s]]
        BY <2>1 DEF RerouteAgents
    <3> QED BY <3>1, SpineAssumption DEF SpineInv, PoolTypeOK
  <2>2. CASE UNCHANGED <<cooldown, memory>>
    BY <2>2 DEF SpineInv, PoolTypeOK
  <2> QED BY <2>1, <2>2 DEF Reroute
<1>3. PoolTypeOK'
    BY <1>1, <1>2 DEF SpineInv, PoolTypeOK, freeList
<1> QED BY <1>1, <1>3, QuietStep DEF SpineInv, TripSetsOK, tripVars

LEMMA SpineInvProgress == ASSUME SpineInv, Progress PROVE SpineInv'
<1>1. UNCHANGED <<freeList, trip, link, ptr, cooldown, tripVars, newly>>
    BY DEF Progress
<1>2. progress' \in [Slots -> Nat]
    BY DEF Progress, SpineInv, PoolTypeOK
<1>3. PoolTypeOK'
    BY <1>1, <1>2 DEF SpineInv, PoolTypeOK, freeList
<1> QED BY <1>1, <1>3, QuietStep DEF SpineInv, TripSetsOK, tripVars

LEMMA SpineInvCommitMove ==
    ASSUME NEW c \in Slots, SpineInv, CommitMove(c) PROVE SpineInv'
<1>1. UNCHANGED <<freeList, trip, tripVars, newly>>
    BY DEF CommitMove, NextSlot, tripVars
<1>2. Intent(c)[2] \in Links
    BY TurnsAssumption DEF CommitMove
<1>3. /\ ptr' \in [Slots -> Nat] /\ link' \in [Slots -> Links \cup {None}]
      /\ progress' \in [Slots -> Nat]
    BY <1>2 DEF CommitMove, SpineInv, PoolTypeOK
<1>4. cooldown' \in [Slots -> Nat]
    BY DEF CommitMove, SpineInv, PoolTypeOK
<1>5. PoolTypeOK'
    BY <1>1, <1>3, <1>4 DEF SpineInv, PoolTypeOK, freeList
<1> QED BY <1>1, <1>5, QuietStep DEF SpineInv, TripSetsOK, tripVars

-----------------------------------------------------------------------------
(* Every step of the runtime keeps the invariant. *)
LEMMA SpineInvStep == SpineInv /\ [Next]_vars => SpineInv'
<1> SUFFICES ASSUME SpineInv, [Next]_vars PROVE SpineInv'
    OBVIOUS
<1>1. CASE BeginTick
    BY <1>1, SpineInvBeginTick
<1>2. CASE Admission
  <2>1. ASSUME NEW t \in Trips, SkipTrip(t) \/ SpillbackTrip(t) PROVE SpineInv'
    <3>1. UNCHANGED <<poolVars, tripVars, newly>>
        BY <2>1 DEF SkipTrip, SpillbackTrip, NextTrip, tripVars
    <3> QED BY <3>1, SpineInvUnchanged
  <2>2. ASSUME NEW t \in Trips, FailTrip(t) PROVE SpineInv'
    BY <2>2, SpineInvFailTrip
  <2>3. ASSUME NEW t \in Trips, NEW path \in Candidates[t], AdmitTrip(t, path) PROVE SpineInv'
    BY <2>3, SpineInvAdmitTrip
  <2>4. CASE EndAdmit
    BY <2>4, SpineInvUnchanged DEF EndAdmit
  <2> QED BY <1>2, <2>1, <2>2, <2>3, <2>4 DEF Admission
<1>3. CASE Reroute
    BY <1>3, SpineInvReroute
<1>4. CASE Progress
    BY <1>4, SpineInvProgress
<1>5. CASE FlowUpdate
    BY <1>5, SpineInvUnchanged DEF FlowUpdate
<1>6. CASE Commit
  <2>1. ASSUME NEW s \in Slots, CommitWait(s) PROVE SpineInv'
    <3>1. UNCHANGED <<poolVars, tripVars, newly>>
        BY <2>1 DEF CommitWait, NextSlot, tripVars
    <3> QED BY <3>1, SpineInvUnchanged
  <2>2. ASSUME NEW s \in Slots, CommitMove(s) PROVE SpineInv'
    BY <2>2, SpineInvCommitMove
  <2>3. ASSUME NEW s \in Slots, CommitComplete(s) PROVE SpineInv'
    BY <2>3, SpineInvCommitComplete
  <2>4. CASE EndCommit
    BY <2>4, SpineInvUnchanged DEF EndCommit
  <2> QED BY <1>6, <2>1, <2>2, <2>3, <2>4 DEF Commit
<1>7. CASE UNCHANGED vars
  <2>1. UNCHANGED <<poolVars, tripVars, newly>>
    BY <1>7 DEF vars
  <2> QED BY <2>1, SpineInvUnchanged
<1> QED BY <1>1, <1>2, <1>3, <1>4, <1>5, <1>6, <1>7 DEF Next

(* The invariant of every reachable state. *)
THEOREM SpineInvariant == Spec => []SpineInv
<1> QED BY SpineInvInit, SpineInvStep, PTL DEF Spec

(* validate_active_agent_pool never finds anything: the free stack, the    *)
(* alive mask and the counts agree in every state of the runtime.          *)
THEOREM PoolAlwaysConsistent == Spec => []PoolConsistent
<1>1. SpineInv => PoolConsistent
    BY DEF SpineInv
<1> QED BY <1>1, SpineInvariant, PTL

(* check_trip_lifecycle_disjoint holds in every state of the runtime, and  *)
(* a travelling trip has exactly one slot.                                 *)
THEOREM LifecycleAlwaysPartition == Spec => []LifecyclePartition
<1>1. SpineInv => LifecyclePartition
    BY DEF SpineInv
<1> QED BY <1>1, SpineInvariant, PTL

-----------------------------------------------------------------------------
(* The steps of the runtime that change which slots are alive. *)
LEMMA AliveChanges ==
    ASSUME SpineInv, [Next]_vars
    PROVE  \/ UNCHANGED <<alive, trip>>
           \/ \E t \in Trips : \E path \in Candidates[t] : AdmitTrip(t, path)
           \/ \E c \in Slots : CommitComplete(c)
<1>1. CASE BeginTick \/ Reroute \/ Progress \/ FlowUpdate
    BY <1>1 DEF BeginTick, Reroute, Progress, FlowUpdate, poolVars, columns, freeList
<1>2. CASE Admission
    BY <1>2 DEF Admission, SkipTrip, FailTrip, SpillbackTrip, EndAdmit, poolVars, freeList, columns
<1>3. CASE Commit
  <2>1. ASSUME NEW s \in Slots, CommitWait(s) \/ CommitMove(s)
        PROVE  UNCHANGED <<alive, trip>>
    BY <2>1 DEF CommitWait, CommitMove, poolVars, columns, freeList
  <2>2. EndCommit => UNCHANGED <<alive, trip>>
    BY DEF EndCommit, poolVars, freeList, columns
  <2> QED BY <1>3, <2>1, <2>2 DEF Commit
<1>4. CASE UNCHANGED vars
    BY <1>4 DEF vars, poolVars, freeList, columns
<1> QED BY <1>1, <1>2, <1>3, <1>4 DEF Next

(* Reusing slots never disturbs the trips that travel in the others. *)
LEMMA LiveSlotStep ==
    ASSUME SpineInv, [Next]_vars, NEW s \in alive \cap alive'
    PROVE  /\ trip'[s] = trip[s]
           /\ alive' # alive => link'[s] = link[s] /\ ptr'[s] = ptr[s]
<1>1. CASE UNCHANGED <<alive, trip>>
    BY <1>1
<1>2. ASSUME NEW t \in Trips, NEW path \in Candidates[t], AdmitTrip(t, path)
      PROVE  UNCHANGED <<trip[s], link[s], ptr[s]>>
  <2>1. Allocate(t, Head(path))
    BY <1>2 DEF AdmitTrip
  <2>2. s # TopSlot
    BY <2>1, TopSlotFree DEF SpineInv, Allocate
  <2> QED BY <2>1, <2>2 DEF Allocate, SpineInv, PoolTypeOK
<1>3. ASSUME NEW c \in Slots, CommitComplete(c)
      PROVE  UNCHANGED <<trip[s], link[s], ptr[s]>>
  <2>1. Release(c)
    BY <1>3 DEF CommitComplete
  <2> QED BY <2>1 DEF Release, SpineInv, PoolTypeOK
<1> QED BY <1>1, <1>2, <1>3, AliveChanges

(* A slot that another trip travels in is never reassigned or moved by an  *)
(* allocation or a release.                                                *)
THEOREM LiveSlotsAlwaysKept == Spec => LiveSlotKept
<1>1. SpineInv /\ [Next]_vars =>
        [\A s \in alive \cap alive' :
            /\ trip'[s] = trip[s]
            /\ alive' # alive => link'[s] = link[s] /\ ptr'[s] = ptr[s]]_poolVars
    BY LiveSlotStep
<1> QED BY <1>1, SpineInvariant, PTL DEF Spec, LiveSlotKept

-----------------------------------------------------------------------------
(* The commit loop leaves the vehicles admitted in its tick where they are.*)
LEMMA NewcomerStep ==
    ASSUME SpineInv, [Next]_vars, phase = "commit", NEW s \in newly
    PROVE  s \in alive' /\ link'[s] = link[s] /\ ptr'[s] = ptr[s]
<1>1. s \in alive /\ s \in Slots
    BY DEF SpineInv, TripSetsOK, PoolTypeOK
<1>2. CASE UNCHANGED <<alive, link, ptr>>
    BY <1>1, <1>2
<1>3. ASSUME NEW c \in Slots, CommitMove(c) \/ CommitComplete(c)
      PROVE  s \in alive' /\ link'[s] = link[s] /\ ptr'[s] = ptr[s]
  <2>1. c # s
    BY <1>3 DEF CommitMove, CommitComplete, HasToken
  <2>2. CASE CommitMove(c)
    BY <1>1, <2>1, <2>2 DEF CommitMove, freeList, SpineInv, PoolTypeOK
  <2>3. CASE CommitComplete(c)
    BY <1>1, <2>1, <2>3 DEF CommitComplete, Release, SpineInv, PoolTypeOK
  <2> QED BY <1>3, <2>2, <2>3
<1>4. \/ UNCHANGED <<alive, link, ptr>>
      \/ \E c \in Slots : CommitMove(c) \/ CommitComplete(c)
  <2>1. CASE Commit
    BY <2>1 DEF Commit, CommitWait, EndCommit, poolVars, freeList, columns
  <2>2. ~ (BeginTick \/ Admission \/ Reroute \/ Progress \/ FlowUpdate)
    BY DEF BeginTick, Admission, SkipTrip, FailTrip, SpillbackTrip, AdmitTrip, Admitting,
           EndAdmit, Reroute, Progress, FlowUpdate
  <2>3. CASE UNCHANGED vars
    BY <2>3 DEF vars, poolVars, freeList, columns
  <2> QED BY <2>1, <2>2, <2>3 DEF Next
<1> QED BY <1>2, <1>3, <1>4

(* The admitted slots are a causality barrier: they do not move before     *)
(* the next tick, whatever tokens the flow update granted.                 *)
THEOREM NewcomersAlwaysStay == Spec => NewcomersStay
<1>1. SpineInv /\ [Next]_vars =>
        [\A s \in newly : phase = "commit" =>
            s \in alive' /\ link'[s] = link[s] /\ ptr'[s] = ptr[s]]_vars
    BY NewcomerStep
<1> QED BY <1>1, SpineInvariant, PTL DEF Spec, NewcomersStay

-----------------------------------------------------------------------------
(* The runtime implements TripLifecycle. *)

(* The stage of a trip, read from the life-cycle sets alone. *)
SetStage(act, alloc, comp, fail, t) ==
    IF t \in comp THEN "completed"
    ELSE IF t \in fail THEN "failed"
    ELSE IF t \in alloc THEN "travelling"
    ELSE IF t \in act THEN "activated"
    ELSE "queued"

Stage == [t \in Trips |-> StageOf(t)]

(* A trip has a slot exactly while it is allocated and not completed. *)
LEMMA StageFromSets ==
    ASSUME SpineInv
    PROVE  Stage = [t \in Trips |-> SetStage(activated, allocated, completed, failed, t)]
<1>1. ASSUME NEW t \in Trips
      PROVE  StageOf(t) = SetStage(activated, allocated, completed, failed, t)
  <2>1. t \notin completed => ((\E s \in alive : trip[s] = t) <=> t \in allocated)
    BY DEF SpineInv, LifecyclePartition
  <2> QED BY <2>1 DEF StageOf, SetStage
<1> QED BY <1>1 DEF Stage

(* The same in the state after a step. *)
LEMMA NextStageFromSets ==
    ASSUME SpineInv'
    PROVE  Stage' = [t \in Trips |-> SetStage(activated', allocated', completed', failed', t)]
<1>1. ASSUME NEW t \in Trips
      PROVE  StageOf(t)' = SetStage(activated', allocated', completed', failed', t)
  <2>1. t \notin completed' => ((\E s \in alive' : trip'[s] = t) <=> t \in allocated')
    BY DEF SpineInv, LifecyclePartition
  <2> QED BY <2>1 DEF StageOf, SetStage
<1> QED BY <1>1 DEF Stage

(* While a slot is free, fewer than Capacity trips travel. *)
LEMMA TravellersFit ==
    ASSUME SpineInv, freeCount > 0
    PROVE  Cardinality({t \in Trips : Stage[t] = "travelling"}) < Capacity
<1> DEFINE travelling == {t \in Trips : Stage[t] = "travelling"}
           seated == {trip[s] : s \in alive}
<1>1. travelling \subseteq seated
  <2> SUFFICES ASSUME NEW t \in travelling PROVE t \in seated
    OBVIOUS
  <2>1. t \in Trips /\ StageOf(t) = "travelling"
    BY DEF Stage
  <2>2. \E s \in alive : trip[s] = t
    BY <2>1 DEF StageOf
  <2> QED BY <2>2
<1>2. IsFiniteSet(alive)
    BY SlotsFinite DEF SpineInv, PoolTypeOK
<1>3. IsFiniteSet(seated) /\ Cardinality(seated) <= Cardinality(alive)
  <2> DEFINE f == [s \in alive |-> trip[s]]
  <2>1. f \in Surjection(alive, seated)
    BY DEF Surjection
  <2> HIDE DEF f, seated
  <2> QED BY <1>2, <2>1, FS_Surjection
<1>4. Cardinality(travelling) <= Cardinality(seated)
    BY <1>1, <1>3, FS_Subset
<1>5. Cardinality(alive) = Capacity - freeCount /\ freeCount \in Nat
    BY CapacityAssumption DEF SpineInv, PoolConsistent, PoolTypeOK
<1>6. Cardinality(travelling) \in Nat /\ Cardinality(seated) \in Nat
    BY <1>1, <1>3, FS_Subset, FS_CardinalityType
<1> QED BY <1>3, <1>4, <1>5, <1>6, CapacityAssumption

(* Steps that change no life-cycle set change no stage. *)
LEMMA StageUnchanged ==
    ASSUME SpineInv, SpineInv', UNCHANGED tripVars PROVE Stage' = Stage
BY StageFromSets, NextStageFromSets DEF tripVars

(* Activation moves queued trips only. *)
LEMMA BeginTickRefines ==
    ASSUME SpineInv, SpineInv', BeginTick
    PROVE  Lifecycle!Next \/ Stage' = Stage
<1> DEFINE due == activated' \ activated
<1>1. UNCHANGED <<allocated, completed, failed>> /\ activated \subseteq activated'
    BY DEF BeginTick
<1>2. due \subseteq Trips /\ \A t \in due : t \notin allocated \cup completed \cup failed
    BY <1>1 DEF SpineInv, TripSetsOK, LifecyclePartition
<1>3. CASE due = {}
  <2>1. UNCHANGED tripVars
    BY <1>1, <1>3 DEF tripVars
  <2> QED BY <2>1, StageUnchanged
<1>4. CASE due # {}
  <2>1. \A t \in due : Stage[t] = "queued"
    BY <1>2, StageFromSets DEF SetStage
  <2>2. Stage' = [t \in Trips |-> IF t \in due THEN "activated" ELSE Stage[t]]
    BY <1>1, <1>2, StageFromSets, NextStageFromSets DEF SetStage
  <2>3. Lifecycle!Activate(due)
    BY <1>2, <1>4, <2>1, <2>2 DEF Lifecycle!Activate, Lifecycle!At, Stage
  <2> QED BY <1>2, <2>3 DEF Lifecycle!Next
<1> QED BY <1>3, <1>4

(* An admission moves one activated trip into a pool with a free slot. *)
LEMMA AdmitTripRefines ==
    ASSUME SpineInv, SpineInv', NEW t \in Trips, NEW path \in Candidates[t], AdmitTrip(t, path)
    PROVE  Lifecycle!Next
<1>1. /\ allocated' = allocated \cup {t} /\ UNCHANGED <<activated, completed, failed>>
      /\ t \in activated \ (allocated \cup completed \cup failed) /\ freeCount > 0
    BY DEF AdmitTrip, Admitting, Pending, NextTrip
<1>2. Stage[t] = "activated" /\ Stage' = [Stage EXCEPT ![t] = "travelling"]
    BY <1>1, StageFromSets, NextStageFromSets DEF SetStage
<1>3. Lifecycle!Admit(t)
    BY <1>1, <1>2, TravellersFit DEF Lifecycle!Admit, Lifecycle!Move, Lifecycle!At, Stage,
       Cardinality, Lifecycle!Cardinality
<1> QED BY <1>3 DEF Lifecycle!Next

(* A failure moves one activated trip. *)
LEMMA FailTripRefines ==
    ASSUME SpineInv, SpineInv', NEW t \in Trips, FailTrip(t)
    PROVE  Lifecycle!Next
<1>1. /\ failed' = failed \cup {t} /\ UNCHANGED <<activated, allocated, completed>>
      /\ t \in activated \ (allocated \cup completed \cup failed)
    BY DEF FailTrip, Admitting, Pending, NextTrip
<1>2. Stage[t] = "activated" /\ Stage' = [Stage EXCEPT ![t] = "failed"]
    BY <1>1, StageFromSets, NextStageFromSets DEF SetStage
<1>3. Lifecycle!Fail(t)
    BY <1>2 DEF Lifecycle!Fail, Lifecycle!Move, Stage
<1> QED BY <1>3 DEF Lifecycle!Next

(* A completion moves the one travelling trip of the slot it releases. *)
LEMMA CommitCompleteRefines ==
    ASSUME SpineInv, SpineInv', NEW c \in Slots, CommitComplete(c)
    PROVE  Lifecycle!Next
<1> DEFINE t == trip[c]
<1>1. c \in alive /\ completed' = completed \cup {t} /\ UNCHANGED <<activated, allocated, failed>>
    BY DEF CommitComplete, HasToken, Finished, NextSlot
<1>2. t \in Trips /\ t \in allocated /\ t \notin completed /\ t \notin failed
    BY <1>1 DEF SpineInv, LifecyclePartition, TripSetsOK
<1>3. Stage[t] = "travelling" /\ Stage' = [Stage EXCEPT ![t] = "completed"]
    BY <1>1, <1>2, StageFromSets, NextStageFromSets DEF SetStage
<1>4. Lifecycle!Complete(t)
    BY <1>3 DEF Lifecycle!Complete, Lifecycle!Move, Stage
<1> QED BY <1>2, <1>4 DEF Lifecycle!Next

(* Every step of the runtime is a step of TripLifecycle or a stutter. *)
LEMMA StepRefines ==
    ASSUME SpineInv, SpineInv', [Next]_vars
    PROVE  Lifecycle!Next \/ Stage' = Stage
<1>1. CASE BeginTick
    BY <1>1, BeginTickRefines
<1>2. CASE Admission
  <2>1. ASSUME NEW t \in Trips, SkipTrip(t) \/ SpillbackTrip(t) PROVE UNCHANGED tripVars
    BY <2>1 DEF SkipTrip, SpillbackTrip, NextTrip, tripVars
  <2>2. EndAdmit => UNCHANGED tripVars
    BY DEF EndAdmit
  <2> QED BY <1>2, <2>1, <2>2, AdmitTripRefines, FailTripRefines, StageUnchanged DEF Admission
<1>3. CASE Reroute \/ Progress \/ FlowUpdate
    BY <1>3, StageUnchanged DEF Reroute, Progress, FlowUpdate
<1>4. CASE Commit
  <2>1. ASSUME NEW s \in Slots, CommitWait(s) \/ CommitMove(s) PROVE UNCHANGED tripVars
    BY <2>1 DEF CommitWait, CommitMove, NextSlot, tripVars
  <2>2. EndCommit => UNCHANGED tripVars
    BY DEF EndCommit
  <2> QED BY <1>4, <2>1, <2>2, CommitCompleteRefines, StageUnchanged DEF Commit
<1>5. CASE UNCHANGED vars
    BY <1>5, StageUnchanged DEF vars
<1> QED BY <1>1, <1>2, <1>3, <1>4, <1>5 DEF Next

(* In the initial state every trip is queued. *)
LEMMA InitRefines == ASSUME Init PROVE Lifecycle!Init
BY DEF Init, PoolInit, Lifecycle!Init, StageOf

(* The runtime implements TripLifecycle: trips go forward through their    *)
(* stages one at a time, none is lost between admission and completion,    *)
(* and the pool bounds how many travel, for every network and budget.      *)
THEOREM RuntimeFollowsLifecycle == Spec => FollowsLifecycle
<1>1. SpineInv /\ SpineInv' /\ [Next]_vars => [Lifecycle!Next]_Stage
    BY StepRefines
<1> QED BY <1>1, InitRefines, SpineInvariant, PTL DEF Spec, FollowsLifecycle, Lifecycle!Spec, Stage

-----------------------------------------------------------------------------
(* Routes, queues and tokens. *)

(* The route memory of a slot is a trip and a path. *)
Memories == [trip : Trips \cup {None}, path : Seq(Links)]
RouteInv == SpineInv /\ memory \in [Slots -> Memories] /\ RouteAuthority

FlowTypeOK ==
    /\ phase \in {"tick", "admit", "reroute", "progress", "flow", "commit"}
    /\ cursor \in Nat
    /\ queue \in [Links -> Int] /\ increments \in [Links -> Nat]
    /\ tokens \in [Movements -> Nat]

(* The vehicles that are in the pool and not yet on the queue of link l. *)
Announced(l) == IF phase \in {"admit", "reroute"} THEN increments[l] ELSE 0

(* The queue of a link, with the vehicles announced to it and the moves    *)
(* the flow update granted and no agent has made, is the agents on it.     *)
QueueAccount ==
    \A l \in Links :
        queue[l] + Announced(l) + Leaving(tokens, l) - Entering(tokens, l) = Cardinality(OnLink(l))

(* The storage also has room for the vehicles announced. *)
StorageKept == Spatial => \A l \in Links : queue[l] + Announced(l) <= Storage[l]

(* The agents that may still spend a token for movement m. *)
Asking(m) == {s \in alive \ newly : cursor <= s /\ Intent(s) = m}

(* Tokens exist in the commit loop only, none without an agent to spend it.*)
TokensEarned ==
    IF phase = "commit" THEN \A m \in Movements : tokens[m] <= Cardinality(Asking(m))
    ELSE tokens = NoTokens

FlowInv == RouteInv /\ FlowTypeOK /\ QueueAccount /\ StorageKept /\ TokensEarned

-----------------------------------------------------------------------------
(* What a travelling agent's route says of its next movement. *)
LEMMA RouteOfAgent ==
    ASSUME RouteInv, NEW s \in alive
    PROVE  /\ s \in Slots /\ trip[s] \in Trips /\ link[s] \in Links
           /\ ptr[s] \in Nat /\ Path(s) \in Seq(Links)
           /\ ptr[s] + 1 \in 1 .. Len(Path(s)) /\ Path(s)[ptr[s] + 1] = link[s]
           /\ memory[s].trip = trip[s] /\ LegalPath(Path(s), trip[s])
<1>1. s \in Slots /\ IntentValid(s) /\ ptr[s] \in Nat
    BY DEF RouteInv, RouteAuthority, SpineInv, PoolTypeOK
<1>2. trip[s] \in Trips
    BY DEF RouteInv, SpineInv, LifecyclePartition, TripSetsOK
<1>3. Path(s) \in Seq(Links)
    BY <1>1 DEF IntentValid, LegalPath
<1>4. link[s] \in Links
    BY <1>1, <1>3 DEF IntentValid
<1> QED BY <1>1, <1>2, <1>3, <1>4 DEF IntentValid

(* Its intent is a movement out of its link: the next turn of its route, or*)
(* the sink at the end of it.                                              *)
LEMMA IntentOfAgent ==
    ASSUME RouteInv, NEW s \in alive
    PROVE  /\ Intent(s) \in Movements /\ Intent(s)[1] = link[s]
           /\ Intent(s) \in Turns =>
                 /\ Intent(s)[2] \in Links
                 /\ ptr[s] + 2 \in 1 .. Len(Path(s)) /\ Path(s)[ptr[s] + 2] = Intent(s)[2]
<1>1. /\ link[s] \in Links /\ ptr[s] \in Nat /\ Path(s) \in Seq(Links)
      /\ ptr[s] + 1 \in 1 .. Len(Path(s)) /\ Path(s)[ptr[s] + 1] = link[s]
      /\ LegalPath(Path(s), trip[s]) /\ Len(Path(s)) \in Nat
    BY RouteOfAgent
<1>2. CASE ptr[s] + 1 = Len(Path(s))
  <2>1. Intent(s) = <<link[s], None>>
    BY <1>2 DEF Intent
  <2>2. Intent(s) \in Sinks /\ Intent(s) \notin Turns
    BY <1>1, <2>1, TurnsAssumption, LinksAssumption DEF Sinks, None
  <2> QED BY <2>1, <2>2 DEF Movements
<1>3. CASE ptr[s] + 1 # Len(Path(s))
  <2>1. Intent(s) = <<link[s], Path(s)[ptr[s] + 2]>>
    BY <1>3 DEF Intent
  <2>2. ptr[s] + 1 \in 1 .. Len(Path(s)) - 1 /\ ptr[s] + 2 = (ptr[s] + 1) + 1
    BY <1>1, <1>3
  <2>3. Intent(s) \in Turns
    BY <1>1, <2>1, <2>2 DEF LegalPath
  <2> QED BY <1>1, <2>1, <2>2, <2>3, TurnsAssumption DEF Movements
<1> QED BY <1>2, <1>3

(* Keeping the travelled part of a legal route and joining a legal tail    *)
(* to it makes a legal route on which the position is the same link.       *)
LEMMA SplicedRouteLegal ==
    ASSUME NEW t \in Trips, NEW path, LegalPath(path, t), NEW i \in 1 .. Len(path),
           NEW rest \in Tails[path[i]][t]
    PROVE  LET new == SubSeq(path, 1, i) \o rest
           IN  LegalPath(new, t) /\ i \in 1 .. Len(new) /\ new[i] = path[i]
<1> DEFINE new == SubSeq(path, 1, i) \o rest
           tail == <<path[i]>> \o rest
<1>1. path \in Seq(Links) /\ Len(path) \in Nat /\ path[i] \in Links
    BY DEF LegalPath
<1>2. rest \in Seq(Links) /\ rest # <<>> /\ LegalPath(tail, t) /\ Len(rest) \in Nat \ {0}
    BY <1>1, RouteAssumption
<1>3. /\ new \in Seq(Links) /\ Len(new) = i + Len(rest)
      /\ \A k \in 1 .. i : new[k] = path[k]
      /\ \A k \in i + 1 .. i + Len(rest) : new[k] = rest[k - i]
    BY <1>1, <1>2
<1>4. /\ Len(tail) = 1 + Len(rest) /\ tail[1] = path[i]
      /\ \A k \in 1 .. Len(rest) : tail[k + 1] = rest[k]
    BY <1>1, <1>2
<1>5. ASSUME NEW k \in 1 .. Len(new) - 1 PROVE <<new[k], new[k + 1]>> \in Turns
  <2>1. CASE k < i
    BY <1>1, <1>3, <2>1 DEF LegalPath
  <2>2. CASE k = i
    <3>1. new[k] = tail[1] /\ new[k + 1] = tail[2]
        BY <1>2, <1>3, <1>4, <2>2
    <3> QED BY <1>2, <1>4, <3>1 DEF LegalPath
  <2>3. CASE k > i
    <3>1. k - i + 1 \in 1 .. Len(tail) - 1
        BY <1>2, <1>3, <1>4, <2>3
    <3>2. new[k] = tail[k - i + 1] /\ new[k + 1] = tail[(k - i + 1) + 1]
        BY <1>2, <1>3, <1>4, <2>3
    <3> QED BY <1>2, <3>1, <3>2 DEF LegalPath
  <2> QED
    <3>1. k \in Int /\ i \in Int
        BY <1>1, <1>2, <1>3
    <3> QED BY <2>1, <2>2, <2>3, <3>1
<1>6. new[Len(new)] = tail[Len(tail)]
    BY <1>2, <1>3, <1>4
<1> QED BY <1>1, <1>2, <1>3, <1>5, <1>6 DEF LegalPath

-----------------------------------------------------------------------------
(* The steps that change an agent, its position or its route. *)
LEMMA AgentChanges ==
    ASSUME SpineInv, [Next]_vars
    PROVE  \/ UNCHANGED <<alive, trip, link, ptr, memory>>
           \/ \E t \in Trips : \E path \in Candidates[t] : AdmitTrip(t, path)
           \/ Reroute
           \/ \E c \in Slots : CommitMove(c) \/ CommitComplete(c)
<1>1. CASE BeginTick \/ Progress \/ FlowUpdate
    BY <1>1 DEF BeginTick, Progress, FlowUpdate, poolVars, columns, freeList
<1>2. CASE Admission
    BY <1>2 DEF Admission, SkipTrip, FailTrip, SpillbackTrip, EndAdmit, poolVars, freeList, columns
<1>3. CASE Commit
    BY <1>3 DEF Commit, CommitWait, EndCommit, poolVars, freeList, columns
<1>4. CASE UNCHANGED vars
    BY <1>4 DEF vars, poolVars, freeList, columns
<1> QED BY <1>1, <1>2, <1>3, <1>4 DEF Next

(* An agent whose columns and route memory are left alone keeps its route. *)
LEMMA RouteKept ==
    ASSUME RouteInv, NEW s \in alive,
           UNCHANGED <<trip[s], link[s], ptr[s], memory[s]>>
    PROVE  IntentValid(s)'
<1>1. IntentValid(s)
    BY DEF RouteInv, RouteAuthority
<1> QED BY <1>1 DEF IntentValid, Path

(* The admitted agent starts at the head of the legal path it was given. *)
LEMMA RouteAdmitTrip ==
    ASSUME NEW t \in Trips, NEW path \in Candidates[t], RouteInv, AdmitTrip(t, path)
    PROVE  memory' \in [Slots -> Memories] /\ RouteAuthority'
<1>1. LegalPath(path, t) /\ path \in Seq(Links) /\ path # <<>>
    BY RouteAssumption DEF LegalPath
<1>2. Allocate(t, Head(path))
    BY DEF AdmitTrip
<1>3. PICK top \in Slots : top = TopSlot /\ top \notin alive
    BY <1>2, TopSlotFree DEF RouteInv, SpineInv, Allocate
<1>4. memory' = [memory EXCEPT ![top] = [trip |-> t, path |-> path]] /\ memory \in [Slots -> Memories]
    BY <1>3 DEF AdmitTrip, RouteInv
<1>5. memory' \in [Slots -> Memories]
    BY <1>1, <1>3, <1>4 DEF Memories
<1>6. /\ alive' = alive \cup {top}
      /\ trip'[top] = t /\ link'[top] = Head(path) /\ ptr'[top] = 0
      /\ \A s \in alive : UNCHANGED <<trip[s], link[s], ptr[s], memory[s]>>
    BY <1>2, <1>3, <1>4 DEF Allocate, RouteInv, SpineInv, PoolTypeOK
<1>7. IntentValid(top)'
  <2>1. memory'[top].trip = t /\ memory'[top].path = path
    BY <1>3, <1>4
  <2>2. 0 + 1 \in 1 .. Len(path) /\ path[0 + 1] = Head(path)
    BY <1>1
  <2> QED BY <1>1, <1>6, <2>1, <2>2 DEF IntentValid, Path
<1>8. \A s \in alive : IntentValid(s)'
    BY <1>6, RouteKept
<1> QED BY <1>5, <1>6, <1>7, <1>8 DEF RouteAuthority

(* A switching agent keeps the travelled part of its route. *)
LEMMA RouteReroute ==
    ASSUME RouteInv, Reroute PROVE memory' \in [Slots -> Memories] /\ RouteAuthority'
<1>1. UNCHANGED <<freeList, trip, link, ptr>> /\ UNCHANGED alive
    BY DEF Reroute, freeList
<1>2. CASE RerouteAgents
  <2>1. PICK rest :
            /\ \A s \in Reconsidered : rest[s] \in Tails[link[s]][trip[s]] \cup {RestOfRoute(s)}
            /\ memory' = [s \in Slots |->
                  IF s \in {r \in Reconsidered : rest[r] # RestOfRoute(r)}
                  THEN [memory[s] EXCEPT !.path = RoutePrefixThenTail(s, rest[s])]
                  ELSE memory[s]]
    BY <1>2 DEF RerouteAgents
  <2> DEFINE switching == {s \in Reconsidered : rest[s] # RestOfRoute(s)}
  <2>2. ASSUME NEW s \in switching
        PROVE  /\ s \in alive /\ s \in Slots
               /\ LegalPath(RoutePrefixThenTail(s, rest[s]), trip[s])
               /\ ptr[s] + 1 \in 1 .. Len(RoutePrefixThenTail(s, rest[s]))
               /\ RoutePrefixThenTail(s, rest[s])[ptr[s] + 1] = link[s]
    <3>1. s \in alive /\ s \in Slots
        BY DEF Reconsidered, RouteInv, SpineInv, PoolTypeOK
    <3>2. rest[s] \in Tails[Path(s)[ptr[s] + 1]][trip[s]]
        BY <2>1, <3>1, RouteOfAgent
    <3> QED BY <3>1, <3>2, RouteOfAgent, SplicedRouteLegal DEF RoutePrefixThenTail
  <2>3. ASSUME NEW s \in Slots
        PROVE  memory'[s] = IF s \in switching
                            THEN [memory[s] EXCEPT !.path = RoutePrefixThenTail(s, rest[s])]
                            ELSE memory[s]
    BY <2>1
  <2>4. ASSUME NEW s \in switching
        PROVE  /\ memory'[s].trip = memory[s].trip
               /\ memory'[s].path = RoutePrefixThenTail(s, rest[s])
               /\ memory'[s] \in Memories
    <3>1. memory[s] \in Memories /\ RoutePrefixThenTail(s, rest[s]) \in Seq(Links)
        BY <2>2 DEF RouteInv, LegalPath
    <3> QED BY <2>2, <2>3, <3>1 DEF Memories
  <2>5. memory' \in [Slots -> Memories]
    BY <2>1, <2>3, <2>4 DEF RouteInv
  <2>6. ASSUME NEW s \in switching PROVE IntentValid(s)'
    BY <1>1, <2>2, <2>4, RouteOfAgent DEF IntentValid, Path
  <2>7. ASSUME NEW s \in alive, s \notin switching PROVE IntentValid(s)'
    <3>1. memory'[s] = memory[s]
        BY <2>3, <2>7, RouteOfAgent
    <3> QED BY <1>1, <3>1, RouteKept
  <2> QED BY <1>1, <2>5, <2>6, <2>7 DEF RouteAuthority
<1>3. CASE UNCHANGED <<cooldown, memory>>
    BY <1>1, <1>3, RouteKept DEF RouteInv, RouteAuthority
<1> QED BY <1>2, <1>3 DEF Reroute

(* A move advances the position to the next link of the route. *)
LEMMA RouteCommitMove ==
    ASSUME NEW c \in Slots, RouteInv, CommitMove(c)
    PROVE  memory' \in [Slots -> Memories] /\ RouteAuthority'
<1>1. UNCHANGED <<freeList, trip, memory>> /\ UNCHANGED alive
    BY DEF CommitMove, freeList
<1>2. c \in alive /\ Intent(c) \in Turns
    BY DEF CommitMove, HasToken
<1>3. ASSUME NEW s \in alive PROVE IntentValid(s)'
  <2>1. CASE s = c
    <3>1. ptr'[c] = ptr[c] + 1 /\ link'[c] = Intent(c)[2]
        BY DEF CommitMove, RouteInv, SpineInv, PoolTypeOK
    <3>2. ptr'[c] + 1 = ptr[c] + 2
        BY <1>2, <3>1, RouteOfAgent
    <3> QED BY <1>1, <1>2, <2>1, <3>1, <3>2, RouteOfAgent, IntentOfAgent DEF IntentValid, Path
  <2>2. CASE s # c
    <3>1. UNCHANGED <<trip[s], link[s], ptr[s], memory[s]>>
        BY <1>1, <2>2 DEF CommitMove, RouteInv, SpineInv, PoolTypeOK
    <3> QED BY <3>1, RouteKept
  <2> QED BY <2>1, <2>2
<1> QED BY <1>1, <1>3 DEF RouteAuthority, RouteInv

(* A completion clears the route memory of the released slot only. *)
LEMMA RouteCommitComplete ==
    ASSUME NEW c \in Slots, RouteInv, CommitComplete(c)
    PROVE  memory' \in [Slots -> Memories] /\ RouteAuthority'
<1>1. Release(c) /\ memory' = [memory EXCEPT ![c] = NoMemory]
    BY DEF CommitComplete
<1>2. memory' \in [Slots -> Memories]
    BY <1>1 DEF RouteInv, Memories, NoMemory
<1>3. /\ alive' = alive \ {c}
      /\ \A s \in alive' : UNCHANGED <<trip[s], link[s], ptr[s], memory[s]>>
    BY <1>1 DEF Release, RouteInv, SpineInv, PoolTypeOK
<1> QED BY <1>2, <1>3, RouteKept DEF RouteAuthority

(* The initial pool is empty. *)
LEMMA RouteInvInit == Init => RouteInv
BY SpineInvInit DEF Init, PoolInit, RouteInv, RouteAuthority, Memories, NoMemory

(* Every step keeps the routes. *)
LEMMA RouteInvStep == RouteInv /\ [Next]_vars => RouteInv'
<1> SUFFICES ASSUME RouteInv, [Next]_vars PROVE RouteInv'
    OBVIOUS
<1>1. SpineInv'
    BY SpineInvStep DEF RouteInv
<1>2. memory' \in [Slots -> Memories] /\ RouteAuthority'
  <2>1. CASE UNCHANGED <<alive, trip, link, ptr, memory>>
    BY <2>1, RouteKept DEF RouteInv, RouteAuthority
  <2> QED BY <2>1, AgentChanges, RouteAdmitTrip, RouteReroute, RouteCommitMove,
             RouteCommitComplete DEF RouteInv
<1> QED BY <1>1, <1>2 DEF RouteInv

(* Through slot reuse, reroutes and moves, the route memory of every agent *)
(* is a legal route of its own trip to its destination, and the agent is   *)
(* on the link its position says (_validate_route_path_authority never     *)
(* raises).                                                                *)
THEOREM RoutesAlwaysLegal == Spec => []RouteAuthority
<1>1. RouteInv => RouteAuthority
    BY DEF RouteInv
<1> QED BY <1>1, RouteInvInit, RouteInvStep, PTL DEF Spec

-----------------------------------------------------------------------------
(* What grants add up to. *)

(* A finite network has finitely many movements. *)
LEMMA MovementsFinite ==
    ASSUME NEW S, S \subseteq Movements PROVE IsFiniteSet(S)
<1>1. IsFiniteSet(Links \X Links) /\ IsFiniteSet(Links \X {None})
    BY LinksAssumption, FS_Product, FS_Singleton
<1>2. IsFiniteSet(Turns) /\ IsFiniteSet(Sinks)
    BY <1>1, TurnsAssumption, FS_Subset DEF Sinks
<1>3. IsFiniteSet(Movements)
    BY <1>2, FS_Union DEF Movements
<1> QED BY <1>3, FS_Subset

Out(l) == {m \in Movements : m[1] = l}
In(l) == {m \in Turns : m[2] = l}

(* The vehicles leaving, and entering, a link are sums over movements. *)
LEMMA LeavingEnteringSums ==
    ASSUME NEW g, NEW l
    PROVE  /\ Leaving(g, l) = SumOn(g, Out(l)) /\ Entering(g, l) = SumOn(g, In(l))
           /\ Out(l) \in SUBSET Movements /\ IsFiniteSet(Out(l))
           /\ In(l) \in SUBSET Movements /\ IsFiniteSet(In(l))
<1>1. Out(l) \subseteq Movements /\ In(l) \subseteq Movements
    BY DEF Out, In, Movements
<1>2. Leaving(g, l) = SumOn(g, Out(l)) /\ Entering(g, l) = SumOn(g, In(l))
    BY DEF Leaving, Entering, SumOn, Out, In
<1> QED BY <1>1, <1>2, MovementsFinite

(* They are counts. *)
LEMMA LeavingEnteringType ==
    ASSUME NEW g \in [Movements -> Nat], NEW l
    PROVE  /\ Leaving(g, l) \in Nat /\ Entering(g, l) \in Nat
           /\ (\A m \in In(l) : g[m] = 0) => Entering(g, l) = 0
BY LeavingEnteringSums, SumType

(* Nothing moves without tokens. *)
LEMMA NothingLeavesOrEnters ==
    ASSUME NEW l PROVE Leaving(NoTokens, l) = 0 /\ Entering(NoTokens, l) = 0
<1>1. \A m \in Movements : NoTokens[m] = 0
    BY DEF NoTokens
<1> QED BY <1>1, LeavingEnteringSums, SumType

(* One vehicle less for movement m. *)
LEMMA OneLess ==
    ASSUME NEW g \in [Movements -> Nat], NEW m \in Movements, NEW l
    PROVE  LET h == [g EXCEPT ![m] = @ - 1]
           IN  /\ Leaving(h, l) = Leaving(g, l) - (IF m[1] = l THEN 1 ELSE 0)
               /\ Entering(h, l) = Entering(g, l) - (IF m \in Turns /\ m[2] = l THEN 1 ELSE 0)
<1> DEFINE h == [g EXCEPT ![m] = @ - 1]
<1>1. /\ h \in [Movements -> Int] /\ g \in [Movements -> Int] /\ g[m] \in Nat
      /\ h[m] = g[m] - 1 /\ \A n \in Movements \ {m} : h[n] = g[n]
    OBVIOUS
<1> HIDE DEF h
<1>3. SumOn(g, Out(l)) \in Int /\ SumOn(g, In(l)) \in Int
    BY LeavingEnteringSums, SumType
<1>4. ASSUME NEW S \in SUBSET Movements, IsFiniteSet(S)
      PROVE  /\ m \in S => SumOn(h, S) = SumOn(g, S) - g[m] + h[m]
             /\ m \notin S => SumOn(h, S) = SumOn(g, S)
    BY <1>1, <1>4, SumUpdate
<1>5. (m \in Out(l) <=> m[1] = l) /\ (m \in In(l) <=> m \in Turns /\ m[2] = l)
    BY DEF Out, In
<1>6. /\ SumOn(h, Out(l)) = SumOn(g, Out(l)) - (IF m[1] = l THEN 1 ELSE 0)
      /\ SumOn(h, In(l)) = SumOn(g, In(l)) - (IF m \in Turns /\ m[2] = l THEN 1 ELSE 0)
    BY <1>1, <1>3, <1>4, <1>5, LeavingEnteringSums
<1>7. /\ Leaving(h, l) = Leaving(g, l) - (IF m[1] = l THEN 1 ELSE 0)
      /\ Entering(h, l) = Entering(g, l) - (IF m \in Turns /\ m[2] = l THEN 1 ELSE 0)
    BY <1>6, LeavingEnteringSums
<1> QED BY <1>7 DEF h

(* A grant gives a number of vehicles to every movement. *)
LEMMA GrantsAreCounts ==
    ASSUME NEW demand, NEW n \in Nat, NEW g \in GrantsUpTo(demand, n)
    PROVE  g \in [Movements -> Nat]
<1> DEFINE wanted == {m \in Movements : demand[m] > 0}
<1>1. PICK h \in [wanted -> 0 .. n] :
        g = [m \in Movements |-> IF m \in wanted THEN h[m] ELSE 0]
    BY DEF GrantsUpTo
<1>2. \A m \in wanted : h[m] \in Nat
    OBVIOUS
<1> HIDE DEF wanted
<1> QED BY <1>1, <1>2

(* The least of two integers. *)
LEMMA MinOfTwo ==
    ASSUME NEW a \in Int, NEW b \in Int
    PROVE  Min({a, b}) \in Int /\ Min({a, b}) <= a /\ Min({a, b}) <= b
<1>1. \E x \in {a, b} : \A y \in {a, b} : x <= y
    OBVIOUS
<1> QED BY <1>1 DEF Min

(* A grant never fills a link beyond its storage. *)
LEMMA GrantKeepsStorage ==
    ASSUME NEW q \in [Links -> Int], NEW demand \in [Movements -> Nat], NEW service,
           NEW receiving \in [ReceivingLinks(demand) -> Int], NEW g \in [Movements -> Nat],
           IsGrant(g, q, demand, service, receiving), Spatial,
           NEW l \in Links, q[l] <= Storage[l]
    PROVE  NextQueue(q, g)[l] <= Storage[l]
<1>1. Leaving(g, l) \in Nat /\ Entering(g, l) \in Nat /\ q[l] \in Int /\ Storage[l] \in Nat
    BY LeavingEnteringType, StorageAssumption
<1>2. Entering(g, l) <= Storage[l] - q[l]
  <2>1. CASE l \in ReceivingLinks(demand)
    <3>1. Entering(g, l) <= Room(q, receiving, l)
        BY <2>1 DEF IsGrant
    <3>2. Room(q, receiving, l) = Min({receiving[l], Storage[l] - q[l]}) /\ receiving[l] \in Int
        BY <2>1 DEF Room
    <3>3. PICK free \in Int : free = Storage[l] - q[l]
        BY <1>1
    <3>4. Room(q, receiving, l) <= free /\ Room(q, receiving, l) \in Int
        BY <3>2, <3>3, MinOfTwo
    <3> QED BY <1>1, <3>1, <3>3, <3>4
  <2>2. CASE l \notin ReceivingLinks(demand)
    <3>1. ASSUME NEW m \in In(l) PROVE g[m] = 0
      <4>1. m \in Movements /\ m \in Turns /\ m[2] = l
        BY DEF In, Movements
      <4>2. ~ (demand[m] > 0)
        BY <2>2, <4>1 DEF ReceivingLinks
      <4>3. g[m] <= demand[m] /\ g[m] \in Nat /\ demand[m] \in Nat
        BY <4>1 DEF IsGrant
      <4> QED BY <4>2, <4>3
    <3>2. Entering(g, l) = 0
        BY <3>1, LeavingEnteringType
    <3> QED BY <1>1, <3>2
  <2> QED BY <2>1, <2>2
<1>3. NextQueue(q, g)[l] = q[l] - Leaving(g, l) + Entering(g, l)
    BY DEF NextQueue
<1> QED BY <1>1, <1>2, <1>3

-----------------------------------------------------------------------------
(* A step that grants, spends, admits and moves nothing keeps the accounts.*)
LEMMA AccountsQuiet ==
    ASSUME FlowInv, tokens = NoTokens, UNCHANGED <<queue, tokens, alive, link>>,
           \A l \in Links : Announced(l)' = Announced(l), phase' # "commit"
    PROVE  QueueAccount' /\ StorageKept' /\ TokensEarned'
<1>1. QueueAccount'
  <2>1. \A l \in Links : OnLink(l)' = OnLink(l)
    BY DEF OnLink
  <2> QED BY <2>1 DEF FlowInv, QueueAccount
<1>2. StorageKept' /\ TokensEarned'
    BY DEF FlowInv, StorageKept, TokensEarned
<1> QED BY <1>1, <1>2

(* The initial queues and the initial pool are empty. *)
LEMMA FlowInvInit == Init => FlowInv
<1> SUFFICES ASSUME Init PROVE FlowInv
    OBVIOUS
<1>1. FlowTypeOK /\ TokensEarned /\ tokens = NoTokens /\ phase = "tick"
    BY DEF Init, FlowTypeOK, TokensEarned, NoTokens
<1>2. \A l \in Links : queue[l] = 0 /\ Announced(l) = 0
    BY <1>1 DEF Init, Announced
<1>3. \A l \in Links : Cardinality(OnLink(l)) = 0
  <2>1. \A l \in Links : OnLink(l) = {}
    BY DEF Init, PoolInit, OnLink
  <2> QED BY <2>1, FS_EmptySet
<1>4. QueueAccount
    BY <1>1, <1>2, <1>3, NothingLeavesOrEnters DEF QueueAccount
<1>5. StorageKept
    BY <1>2, StorageAssumption DEF StorageKept
<1> QED BY <1>1, <1>4, <1>5, RouteInvInit DEF FlowInv

(* The increments of the last tick are dropped when nobody reads them. *)
LEMMA FlowBeginTick ==
    ASSUME FlowInv, BeginTick PROVE FlowTypeOK' /\ QueueAccount' /\ StorageKept' /\ TokensEarned'
<1>1. FlowTypeOK'
    BY DEF BeginTick, FlowInv, FlowTypeOK, flowVars
<1>2. tokens = NoTokens /\ UNCHANGED <<queue, tokens, alive, link>> /\ phase' # "commit"
    BY DEF BeginTick, FlowInv, TokensEarned, flowVars, poolVars, freeList, columns
<1>3. \A l \in Links : Announced(l)' = Announced(l)
    BY DEF BeginTick, Announced
<1> QED BY <1>1, <1>2, <1>3, AccountsQuiet

(* The iterations of the admission loop that admit nobody. *)
LEMMA FlowAdmissionQuiet ==
    ASSUME FlowInv, phase = "admit", UNCHANGED <<poolVars, increments, flowVars>>,
           phase' \in {"admit", "reroute"}, cursor' \in Nat
    PROVE  FlowTypeOK' /\ QueueAccount' /\ StorageKept' /\ TokensEarned'
<1>1. FlowTypeOK'
    BY DEF FlowInv, FlowTypeOK, flowVars
<1>2. tokens = NoTokens /\ UNCHANGED <<queue, tokens, alive, link>> /\ phase' # "commit"
    BY DEF FlowInv, TokensEarned, flowVars, poolVars, freeList, columns
<1>3. \A l \in Links : Announced(l)' = Announced(l)
    BY DEF Announced
<1> QED BY <1>1, <1>2, <1>3, AccountsQuiet

(* The increment announces the admitted vehicle, on a link that has room.  *)
LEMMA FlowAdmitTrip ==
    ASSUME NEW t \in Trips, NEW path \in Candidates[t], FlowInv, AdmitTrip(t, path)
    PROVE  FlowTypeOK' /\ QueueAccount' /\ StorageKept' /\ TokensEarned'
<1>1. PICK first \in Links : first = Head(path)
  <2>1. path \in Seq(Links) /\ path # <<>>
    BY RouteAssumption DEF LegalPath
  <2> QED BY <2>1
<1>2. /\ phase = "admit" /\ phase' = "admit" /\ cursor' = cursor + 1
      /\ UNCHANGED <<queue, tokens>> /\ tokens = NoTokens
      /\ increments' = [increments EXCEPT ![first] = @ + 1]
      /\ Spatial => queue[first] + increments[first] + 1 <= Storage[first]
      /\ Allocate(t, first)
    BY <1>1 DEF AdmitTrip, Admitting, NextTrip, flowVars, SourceAdmissionAvailable,
       FlowInv, TokensEarned
<1>3. PICK top \in Slots : top = TopSlot /\ top \notin alive
    BY <1>2, TopSlotFree DEF FlowInv, RouteInv, SpineInv, Allocate
<1>4. alive' = alive \cup {top} /\ link'[top] = first /\ \A s \in alive : link'[s] = link[s]
    BY <1>2, <1>3 DEF Allocate, FlowInv, RouteInv, SpineInv, PoolTypeOK
<1>5. FlowTypeOK' /\ TokensEarned'
    BY <1>2 DEF FlowInv, FlowTypeOK, TokensEarned
<1>6. ASSUME NEW l \in Links
      PROVE  /\ Announced(l) = increments[l] /\ Announced(l) \in Nat
             /\ Announced(l)' = increments[l] + (IF l = first THEN 1 ELSE 0)
    BY <1>2 DEF Announced, FlowInv, FlowTypeOK
<1>7. QueueAccount'
  <2> SUFFICES ASSUME NEW l \in Links
               PROVE  queue[l] + Announced(l)' + Leaving(tokens, l) - Entering(tokens, l)
                        = Cardinality(OnLink(l)')
    BY <1>2 DEF QueueAccount
  <2>1. OnLink(l)' = IF l = first THEN OnLink(l) \cup {top} ELSE OnLink(l)
    BY <1>3, <1>4 DEF OnLink
  <2>2. IsFiniteSet(OnLink(l)) /\ top \notin OnLink(l) /\ Cardinality(OnLink(l)) \in Nat
    BY <1>3, SlotsFinite DEF OnLink, FlowInv, RouteInv, SpineInv, PoolTypeOK
  <2>3. Cardinality(OnLink(l)') = Cardinality(OnLink(l)) + (IF l = first THEN 1 ELSE 0)
    <3>1. Cardinality(OnLink(l) \cup {top}) = Cardinality(OnLink(l)) + 1
        BY <2>2, FS_AddElement
    <3> QED BY <2>1, <2>2, <3>1
  <2>4. Leaving(tokens, l) = 0 /\ Entering(tokens, l) = 0 /\ queue[l] \in Int
    BY <1>2, NothingLeavesOrEnters DEF FlowInv, FlowTypeOK
  <2> QED BY <1>6, <2>2, <2>3, <2>4 DEF FlowInv, QueueAccount
<1>8. StorageKept'
  <2> SUFFICES ASSUME Spatial, NEW l \in Links PROVE queue[l] + Announced(l)' <= Storage[l]
    BY <1>2 DEF StorageKept
  <2>1. queue[l] \in Int /\ Storage[l] \in Nat /\ increments[l] \in Nat
    BY StorageAssumption DEF FlowInv, FlowTypeOK
  <2> QED BY <1>2, <1>6, <2>1 DEF FlowInv, StorageKept
<1> QED BY <1>5, <1>7, <1>8

(* The announced vehicles join the queues. *)
LEMMA FlowReroute ==
    ASSUME FlowInv, Reroute PROVE FlowTypeOK' /\ QueueAccount' /\ StorageKept' /\ TokensEarned'
<1>1. /\ phase = "reroute" /\ phase' = "progress"
      /\ UNCHANGED <<alive, link, cursor, increments, tokens>> /\ tokens = NoTokens
      /\ queue' = [l \in Links |-> queue[l] + increments[l]]
    BY DEF Reroute, freeList, FlowInv, TokensEarned
<1>2. FlowTypeOK' /\ TokensEarned'
    BY <1>1 DEF FlowInv, FlowTypeOK, TokensEarned
<1>3. ASSUME NEW l \in Links
      PROVE  queue'[l] + Announced(l)' = queue[l] + Announced(l) /\ OnLink(l)' = OnLink(l)
    BY <1>1 DEF Announced, OnLink, FlowInv, FlowTypeOK
<1>4. QueueAccount' /\ StorageKept'
    BY <1>1, <1>3 DEF FlowInv, QueueAccount, StorageKept
<1> QED BY <1>2, <1>4

(* Progress moves nobody. *)
LEMMA FlowProgress ==
    ASSUME FlowInv, Progress PROVE FlowTypeOK' /\ QueueAccount' /\ StorageKept' /\ TokensEarned'
<1>1. /\ phase = "progress" /\ phase' = "flow" /\ tokens = NoTokens
      /\ UNCHANGED <<alive, link, cursor, increments, queue, tokens>>
    BY DEF Progress, freeList, flowVars, FlowInv, TokensEarned
<1>2. FlowTypeOK'
    BY <1>1 DEF FlowInv, FlowTypeOK
<1>3. \A l \in Links : Announced(l)' = Announced(l)
    BY <1>1 DEF Announced
<1> QED BY <1>1, <1>2, <1>3, AccountsQuiet

(* The flow update finds valid inputs, and its grant keeps the storage and *)
(* gives no movement more tokens than agents that ask for it.              *)
LEMMA FlowFlowUpdate ==
    ASSUME FlowInv, FlowUpdate PROVE FlowTypeOK' /\ QueueAccount' /\ StorageKept' /\ TokensEarned'
<1>1. phase = "flow" /\ cursor' = 0 /\ UNCHANGED <<poolVars, memory, newly, increments>>
    BY DEF FlowUpdate
<1>2. tokens = NoTokens /\ \A l \in Links : Announced(l) = 0 /\ queue[l] \in Int
    BY <1>1 DEF FlowInv, TokensEarned, Announced, FlowTypeOK
<1>3. Spatial => \A l \in Links : queue[l] <= Storage[l]
    BY <1>2 DEF FlowInv, StorageKept
<1>4. FlowInputsValid
    BY <1>3 DEF FlowInputsValid, FlowInv, RouteInv, RouteAuthority
<1>5. GrantTokens /\ phase' = "commit"
    BY <1>4 DEF FlowUpdate
<1>6. Demand \in [Movements -> Nat]
    <2>1. \A m \in Movements : {s \in alive \ newly : ExitReady(s) /\ Intent(s) = m} \subseteq Slots
        BY DEF FlowInv, RouteInv, SpineInv, PoolTypeOK
    <2> QED BY <2>1, SlotsFinite DEF Demand
<1>7. PICK service \in [SendingLinks(Demand) -> MinBudget .. MaxBudget],
           receiving \in [ReceivingLinks(Demand) -> MinBudget .. MaxBudget],
           g \in GrantsUpTo(Demand, Capacity) :
           IsGrant(g, queue, Demand, service, receiving) /\ tokens' = g /\ queue' = NextQueue(queue, g)
    BY <1>5 DEF GrantTokens
<1>8. g \in [Movements -> Nat]
    BY CapacityAssumption, GrantsAreCounts
<1>9. queue \in [Links -> Int] /\ queue' \in [Links -> Int]
    BY <1>7, <1>8, LeavingEnteringType DEF NextQueue, FlowInv, FlowTypeOK
<1>10. FlowTypeOK'
    BY <1>1, <1>5, <1>7, <1>8, <1>9 DEF FlowInv, FlowTypeOK
<1>11. QueueAccount'
  <2> SUFFICES ASSUME NEW l \in Links
               PROVE  queue'[l] + Announced(l)' + Leaving(g, l) - Entering(g, l)
                        = Cardinality(OnLink(l)')
    BY <1>7 DEF QueueAccount
  <2>1. OnLink(l)' = OnLink(l) /\ Announced(l)' = 0
    BY <1>1, <1>5 DEF OnLink, poolVars, freeList, columns, Announced
  <2>2. queue'[l] = queue[l] - Leaving(g, l) + Entering(g, l)
    BY <1>7 DEF NextQueue
  <2>3. queue[l] = Cardinality(OnLink(l))
    BY <1>2, NothingLeavesOrEnters DEF FlowInv, QueueAccount
  <2>4. Leaving(g, l) \in Nat /\ Entering(g, l) \in Nat /\ queue[l] \in Int
    BY <1>8, <1>9, LeavingEnteringType
  <2> QED BY <2>1, <2>2, <2>3, <2>4
<1>12. StorageKept'
  <2> SUFFICES ASSUME Spatial, NEW l \in Links PROVE queue'[l] + Announced(l)' <= Storage[l]
    BY DEF StorageKept
  <2>1. Announced(l)' = 0 /\ queue'[l] \in Int
    BY <1>5, <1>9 DEF Announced
  <2>2. receiving \in [ReceivingLinks(Demand) -> Int]
    BY SpineAssumption
  <2>3. queue'[l] <= Storage[l]
    BY <1>3, <1>6, <1>7, <1>8, <1>9, <2>2, GrantKeepsStorage
  <2> QED BY <2>1, <2>3
<1>13. TokensEarned'
  <2> SUFFICES ASSUME NEW m \in Movements PROVE g[m] <= Cardinality(Asking(m)')
    BY <1>5, <1>7 DEF TokensEarned
  <2> DEFINE askers == {s \in alive \ newly : ExitReady(s) /\ Intent(s) = m}
  <2>1. Asking(m)' = {s \in alive \ newly : Intent(s) = m}
    <3>1. alive \subseteq Slots /\ \A s \in Slots : 0 <= s
        BY CapacityAssumption DEF FlowInv, RouteInv, SpineInv, PoolTypeOK, Slots
    <3> QED BY <1>1, <3>1 DEF Asking, Intent, Path, poolVars, freeList, columns
  <2>2. askers \subseteq Asking(m)' /\ Asking(m)' \subseteq Slots
    BY <2>1 DEF FlowInv, RouteInv, SpineInv, PoolTypeOK
  <2>3. Cardinality(askers) <= Cardinality(Asking(m)')
    BY <2>2, SlotsFinite, FS_Subset
  <2>4. g[m] <= Demand[m] /\ Demand[m] = Cardinality(askers)
    BY <1>7 DEF IsGrant, Demand
  <2>5. g[m] \in Nat /\ Cardinality(askers) \in Nat /\ Cardinality(Asking(m)') \in Nat
    BY <1>8, <2>2, SlotsFinite
  <2> QED BY <2>3, <2>4, <2>5
<1> QED BY <1>10, <1>11, <1>12, <1>13

(* After an iteration of the commit loop at slot c, its agent asks for     *)
(* nothing any more and every other agent asks for what it asked.          *)
LEMMA AskingAfterSlot ==
    ASSUME FlowInv, NEW c \in Slots, cursor = c, cursor' = cursor + 1,
           alive' \ {c} = alive \ {c}, alive' \subseteq Slots, newly' = newly,
           \A s \in alive \ {c} : UNCHANGED <<link[s], ptr[s], memory[s]>>,
           NEW m \in Movements
    PROVE  Asking(m)' = Asking(m) \ {c}
<1>1. \A s \in Slots : c + 1 <= s <=> c <= s /\ s # c
    BY CapacityAssumption DEF Slots
<1>2. \A s \in alive \ {c} : Intent(s)' = Intent(s)
    BY DEF Intent, Path
<1>3. alive \subseteq Slots
    BY DEF FlowInv, RouteInv, SpineInv, PoolTypeOK
<1>4. ASSUME NEW s \in Slots PROVE s \in Asking(m)' <=> s \in Asking(m) /\ s # c
    BY <1>1, <1>2 DEF Asking
<1>5. Asking(m)' \subseteq Slots /\ Asking(m) \subseteq Slots
    BY <1>3 DEF Asking
<1> QED BY <1>4, <1>5

(* The agent at the cursor asks for its intent and for nothing else. *)
LEMMA AskerAtCursor ==
    ASSUME FlowInv, NEW c \in Slots, cursor = c, NEW m \in Movements
    PROVE  /\ IsFiniteSet(Asking(m)) /\ Cardinality(Asking(m)) \in Nat
           /\ c \in Asking(m) <=> c \in alive \ newly /\ Intent(c) = m
           /\ Cardinality(Asking(m) \ {c})
                 = Cardinality(Asking(m)) - (IF c \in Asking(m) THEN 1 ELSE 0)
<1>1. IsFiniteSet(Asking(m)) /\ Cardinality(Asking(m)) \in Nat
    BY SlotsFinite DEF Asking, FlowInv, RouteInv, SpineInv, PoolTypeOK
<1>2. c \in Asking(m) <=> c \in alive \ newly /\ Intent(c) = m
    BY CapacityAssumption DEF Asking, Slots
<1>3. CASE c \in Asking(m)
    BY <1>1, <1>2, <1>3, FS_RemoveElement
<1>4. CASE c \notin Asking(m)
  <2>1. Asking(m) \ {c} = Asking(m)
    BY <1>4
  <2> QED BY <1>1, <1>2, <1>4, <2>1
<1> QED BY <1>3, <1>4

(* An agent that waits has no token to spend. *)
LEMMA FlowCommitWait ==
    ASSUME NEW c \in Slots, FlowInv, CommitWait(c)
    PROVE  FlowTypeOK' /\ QueueAccount' /\ StorageKept' /\ TokensEarned'
<1>1. /\ phase = "commit" /\ phase' = "commit" /\ cursor = c /\ cursor' = cursor + 1
      /\ UNCHANGED <<alive, link, ptr, memory, newly, increments, queue, tokens>>
      /\ ~ HasToken(c)
    BY DEF CommitWait, NextSlot, poolVars, freeList, columns
<1>2. FlowTypeOK'
    BY <1>1 DEF FlowInv, FlowTypeOK
<1>3. \A l \in Links : OnLink(l)' = OnLink(l) /\ Announced(l)' = Announced(l)
    BY <1>1 DEF OnLink, Announced
<1>4. QueueAccount' /\ StorageKept'
    BY <1>1, <1>3 DEF FlowInv, QueueAccount, StorageKept
<1>5. TokensEarned'
  <2> SUFFICES ASSUME NEW m \in Movements PROVE tokens[m] <= Cardinality(Asking(m)')
    BY <1>1 DEF TokensEarned
  <2>1. Asking(m)' = Asking(m) \ {c}
    BY <1>1, AskingAfterSlot DEF FlowInv, RouteInv, SpineInv, PoolTypeOK
  <2>2. tokens[m] \in Nat /\ tokens[m] <= Cardinality(Asking(m))
    BY <1>1 DEF FlowInv, FlowTypeOK, TokensEarned
  <2>3. /\ Cardinality(Asking(m)) \in Nat
        /\ c \in Asking(m) <=> c \in alive \ newly /\ Intent(c) = m
        /\ Cardinality(Asking(m) \ {c})
              = Cardinality(Asking(m)) - (IF c \in Asking(m) THEN 1 ELSE 0)
        /\ c \in Asking(m) => Cardinality(Asking(m)) >= 1
    BY <1>1, AskerAtCursor, FS_EmptySet
  <2>4. c \in Asking(m) => tokens[m] = 0
    BY <1>1, <2>2, <2>3 DEF HasToken
  <2> QED BY <2>1, <2>2, <2>3, <2>4
<1> QED BY <1>2, <1>4, <1>5

(* Spending a token of the agent's own movement leaves no more tokens than *)
(* agents that still ask.                                                  *)
LEMMA SpentTokensEarned ==
    ASSUME NEW c \in Slots, FlowInv, phase = "commit", phase' = "commit", cursor = c,
           cursor' = cursor + 1, HasToken(c), Spend(c),
           alive' \ {c} = alive \ {c}, alive' \subseteq Slots, newly' = newly,
           \A s \in alive \ {c} : UNCHANGED <<link[s], ptr[s], memory[s]>>
    PROVE  TokensEarned' /\ tokens' \in [Movements -> Nat]
<1>1. c \in alive \ newly /\ tokens[Intent(c)] > 0 /\ Intent(c) \in Movements
    BY IntentOfAgent DEF HasToken, FlowInv
<1>2. tokens' = [tokens EXCEPT ![Intent(c)] = @ - 1] /\ tokens \in [Movements -> Nat]
    BY DEF Spend, FlowInv, FlowTypeOK
<1>3. tokens' \in [Movements -> Nat]
    BY <1>1, <1>2
<1>4. ASSUME NEW m \in Movements PROVE tokens'[m] <= Cardinality(Asking(m)')
  <2>1. Asking(m)' = Asking(m) \ {c}
    BY AskingAfterSlot
  <2>2. tokens[m] \in Nat /\ tokens[m] <= Cardinality(Asking(m))
    BY <1>2 DEF FlowInv, TokensEarned
  <2>3. /\ Cardinality(Asking(m)) \in Nat
        /\ c \in Asking(m) <=> c \in alive \ newly /\ Intent(c) = m
        /\ Cardinality(Asking(m) \ {c})
              = Cardinality(Asking(m)) - (IF c \in Asking(m) THEN 1 ELSE 0)
    BY AskerAtCursor
  <2>4. tokens'[m] = tokens[m] - (IF c \in Asking(m) THEN 1 ELSE 0)
    BY <1>1, <1>2, <2>2, <2>3
  <2> QED BY <2>1, <2>2, <2>3, <2>4
<1> QED BY <1>3, <1>4 DEF TokensEarned

(* A set of slots counted with and without slot c. *)
LEMMA WithAndWithout ==
    ASSUME NEW S, S \subseteq Slots, NEW c
    PROVE  /\ Cardinality(S) = Cardinality(S \ {c}) + (IF c \in S THEN 1 ELSE 0)
           /\ Cardinality(S \ {c}) \in Nat
<1>1. IsFiniteSet(S) /\ Cardinality(S) \in Nat /\ Cardinality(S \ {c}) \in Nat
    BY SlotsFinite
<1>2. c \in S => Cardinality(S \ {c}) = Cardinality(S) - 1
    BY <1>1, FS_RemoveElement
<1>3. c \notin S => Cardinality(S \ {c}) = Cardinality(S)
  <2>1. c \notin S => S \ {c} = S
    OBVIOUS
  <2> QED BY <2>1
<1> QED BY <1>1, <1>2, <1>3

(* A move spends the token that owed it: the agent leaves one link, enters *)
(* the other, and both accounts stay right.                                *)
LEMMA FlowCommitMove ==
    ASSUME NEW c \in Slots, FlowInv, CommitMove(c)
    PROVE  FlowTypeOK' /\ QueueAccount' /\ StorageKept' /\ TokensEarned'
<1>1. /\ phase = "commit" /\ phase' = "commit" /\ cursor = c /\ cursor' = cursor + 1
      /\ UNCHANGED <<alive, memory, newly, increments, queue>>
      /\ HasToken(c) /\ Spend(c)
    BY DEF CommitMove, NextSlot, freeList
<1>2. PICK m \in Turns : m = Intent(c) /\ m \in Movements /\ m[1] = link[c] /\ m[2] \in Links
    BY IntentOfAgent DEF CommitMove, HasToken, FlowInv
<1>3. /\ c \in alive /\ link'[c] = m[2]
      /\ \A s \in alive \ {c} : UNCHANGED <<link[s], ptr[s], memory[s]>>
    BY <1>1, <1>2 DEF CommitMove, HasToken, FlowInv, RouteInv, SpineInv, PoolTypeOK
<1>4. TokensEarned' /\ tokens' \in [Movements -> Nat]
    BY <1>1, <1>3, SpentTokensEarned DEF FlowInv, RouteInv, SpineInv, PoolTypeOK
<1>5. FlowTypeOK'
    BY <1>1, <1>4 DEF FlowInv, FlowTypeOK
<1>6. ASSUME NEW l \in Links PROVE Announced(l)' = Announced(l) /\ Announced(l) = 0
    BY <1>1 DEF Announced
<1>7. StorageKept'
    BY <1>1, <1>6 DEF FlowInv, StorageKept
<1>8. QueueAccount'
  <2> SUFFICES ASSUME NEW l \in Links
               PROVE  queue[l] + Leaving(tokens', l) - Entering(tokens', l)
                        = Cardinality(OnLink(l)')
    <3>1. \A k \in Links : queue[k] + Announced(k)' = queue[k]
        BY <1>6 DEF FlowInv, FlowTypeOK
    <3> QED BY <1>1, <3>1 DEF QueueAccount
  <2>1. tokens' = [tokens EXCEPT ![m] = @ - 1] /\ tokens \in [Movements -> Nat]
    BY <1>1, <1>2 DEF Spend, FlowInv, FlowTypeOK
  <2>2. /\ Leaving(tokens', l) = Leaving(tokens, l) - (IF m[1] = l THEN 1 ELSE 0)
        /\ Entering(tokens', l) = Entering(tokens, l) - (IF m[2] = l THEN 1 ELSE 0)
    BY <1>2, <2>1, OneLess
  <2>3. OnLink(l) \ {c} = OnLink(l)' \ {c} /\ (c \in OnLink(l) <=> m[1] = l)
        /\ (c \in OnLink(l)' <=> m[2] = l)
    BY <1>1, <1>2, <1>3 DEF OnLink
  <2>4. OnLink(l) \subseteq Slots /\ OnLink(l)' \subseteq Slots
    BY <1>1 DEF OnLink, FlowInv, RouteInv, SpineInv, PoolTypeOK
  <2>5. /\ Cardinality(OnLink(l)) = Cardinality(OnLink(l) \ {c}) + (IF m[1] = l THEN 1 ELSE 0)
        /\ Cardinality(OnLink(l)') = Cardinality(OnLink(l) \ {c}) + (IF m[2] = l THEN 1 ELSE 0)
        /\ Cardinality(OnLink(l) \ {c}) \in Nat
    BY <2>3, <2>4, WithAndWithout
  <2>6. queue[l] + Leaving(tokens, l) - Entering(tokens, l) = Cardinality(OnLink(l))
    <3>1. queue[l] \in Int
        BY DEF FlowInv, FlowTypeOK
    <3> QED BY <1>6, <3>1 DEF FlowInv, QueueAccount
  <2>7. queue[l] \in Int /\ Leaving(tokens, l) \in Nat /\ Entering(tokens, l) \in Nat
    BY <2>1, LeavingEnteringType DEF FlowInv, FlowTypeOK
  <2> QED BY <2>2, <2>5, <2>6, <2>7
<1> QED BY <1>4, <1>5, <1>7, <1>8

(* A completion spends its sink token and leaves its link. *)
LEMMA FlowCommitComplete ==
    ASSUME NEW c \in Slots, FlowInv, CommitComplete(c)
    PROVE  FlowTypeOK' /\ QueueAccount' /\ StorageKept' /\ TokensEarned'
<1>1. /\ phase = "commit" /\ phase' = "commit" /\ cursor = c /\ cursor' = cursor + 1
      /\ UNCHANGED <<newly, increments, queue>> /\ alive' = alive \ {c}
      /\ HasToken(c) /\ Spend(c) /\ Release(c)
    BY DEF CommitComplete, NextSlot, Release
<1>2. PICK m \in Movements : m = Intent(c) /\ m \notin Turns /\ m[1] = link[c]
  <2>1. Intent(c) \in Sinks /\ c \in alive
    BY DEF CommitComplete, HasToken
  <2>2. Intent(c) \notin Turns
    BY <2>1, TurnsAssumption, LinksAssumption DEF Sinks, None
  <2> QED BY <2>1, <2>2, IntentOfAgent DEF FlowInv
<1>3. /\ c \in alive
      /\ \A s \in alive \ {c} : UNCHANGED <<link[s], ptr[s], memory[s]>>
    BY <1>1 DEF CommitComplete, Release, HasToken, FlowInv, RouteInv, SpineInv, PoolTypeOK
<1>4. TokensEarned' /\ tokens' \in [Movements -> Nat]
    BY <1>1, <1>3, SpentTokensEarned DEF FlowInv, RouteInv, SpineInv, PoolTypeOK
<1>5. FlowTypeOK'
    BY <1>1, <1>4 DEF FlowInv, FlowTypeOK
<1>6. ASSUME NEW l \in Links PROVE Announced(l)' = Announced(l) /\ Announced(l) = 0
    BY <1>1 DEF Announced
<1>7. StorageKept'
    BY <1>1, <1>6 DEF FlowInv, StorageKept
<1>8. QueueAccount'
  <2> SUFFICES ASSUME NEW l \in Links
               PROVE  queue[l] + Leaving(tokens', l) - Entering(tokens', l)
                        = Cardinality(OnLink(l)')
    <3>1. \A k \in Links : queue[k] + Announced(k)' = queue[k]
        BY <1>6 DEF FlowInv, FlowTypeOK
    <3> QED BY <1>1, <3>1 DEF QueueAccount
  <2>1. tokens' = [tokens EXCEPT ![m] = @ - 1] /\ tokens \in [Movements -> Nat]
    BY <1>1, <1>2 DEF Spend, FlowInv, FlowTypeOK
  <2>2. /\ Leaving(tokens', l) = Leaving(tokens, l) - (IF m[1] = l THEN 1 ELSE 0)
        /\ Entering(tokens', l) = Entering(tokens, l)
    <3>1. /\ Leaving(tokens', l) = Leaving(tokens, l) - (IF m[1] = l THEN 1 ELSE 0)
          /\ Entering(tokens', l) = Entering(tokens, l) - (IF m \in Turns /\ m[2] = l THEN 1 ELSE 0)
        BY <2>1, OneLess
    <3>2. Entering(tokens, l) \in Nat
        BY <2>1, LeavingEnteringType
    <3> QED BY <1>2, <3>1, <3>2
  <2>3. OnLink(l)' = OnLink(l) \ {c} /\ (c \in OnLink(l) <=> m[1] = l)
    BY <1>1, <1>2, <1>3 DEF OnLink
  <2>4. OnLink(l) \subseteq Slots
    BY DEF OnLink, FlowInv, RouteInv, SpineInv, PoolTypeOK
  <2>5. /\ Cardinality(OnLink(l)) = Cardinality(OnLink(l)') + (IF m[1] = l THEN 1 ELSE 0)
        /\ Cardinality(OnLink(l)') \in Nat
    BY <2>3, <2>4, WithAndWithout
  <2>6. queue[l] + Leaving(tokens, l) - Entering(tokens, l) = Cardinality(OnLink(l))
    <3>1. queue[l] \in Int
        BY DEF FlowInv, FlowTypeOK
    <3> QED BY <1>6, <3>1 DEF FlowInv, QueueAccount
  <2>7. queue[l] \in Int /\ Leaving(tokens, l) \in Nat /\ Entering(tokens, l) \in Nat
    BY <2>1, LeavingEnteringType DEF FlowInv, FlowTypeOK
  <2> QED BY <2>2, <2>5, <2>6, <2>7
<1> QED BY <1>4, <1>5, <1>7, <1>8

(* After the last slot nobody can ask: every token has been spent. *)
LEMMA FlowEndCommit ==
    ASSUME FlowInv, EndCommit PROVE FlowTypeOK' /\ QueueAccount' /\ StorageKept' /\ TokensEarned'
<1>1. /\ phase = "commit" /\ cursor = Capacity
      /\ UNCHANGED <<alive, link, cursor, increments, queue, tokens>>
    BY DEF EndCommit, poolVars, freeList, columns, flowVars
<1>2. tokens = NoTokens
  <2>1. ASSUME NEW m \in Movements PROVE tokens[m] = 0
    <3>1. Asking(m) = {}
      <4>1. \A s \in Slots : ~ (Capacity <= s)
        BY CapacityAssumption DEF Slots
      <4>2. alive \subseteq Slots
        BY DEF FlowInv, RouteInv, SpineInv, PoolTypeOK
      <4> QED BY <1>1, <4>1, <4>2 DEF Asking
    <3>2. tokens[m] <= 0
        BY <1>1, <3>1, FS_EmptySet DEF FlowInv, TokensEarned
    <3> QED BY <3>2 DEF FlowInv, FlowTypeOK
  <2>2. tokens \in [Movements -> Nat]
    BY DEF FlowInv, FlowTypeOK
  <2> QED BY <2>1, <2>2 DEF NoTokens
<1>3. phase' = "tick"
    BY <1>2 DEF EndCommit
<1>4. FlowTypeOK' /\ \A l \in Links : Announced(l)' = Announced(l)
    BY <1>1, <1>3 DEF FlowInv, FlowTypeOK, Announced
<1> QED BY <1>1, <1>2, <1>3, <1>4, AccountsQuiet

(* Every step keeps the accounts. *)
LEMMA FlowInvStep == FlowInv /\ [Next]_vars => FlowInv'
<1> SUFFICES ASSUME FlowInv, [Next]_vars PROVE FlowInv'
    OBVIOUS
<1> DEFINE Kept == FlowTypeOK /\ QueueAccount /\ StorageKept /\ TokensEarned
<1>1. RouteInv'
    BY RouteInvStep DEF FlowInv
<1>2. CASE Admission
  <2>1. ASSUME NEW t \in Trips, SkipTrip(t) \/ FailTrip(t) \/ SpillbackTrip(t)
        PROVE  Kept'
    <3>1. /\ phase = "admit" /\ phase' = "admit" /\ cursor' = cursor + 1
          /\ UNCHANGED <<poolVars, increments, flowVars>>
        BY <2>1 DEF SkipTrip, FailTrip, SpillbackTrip, Admitting, NextTrip
    <3>2. cursor' \in Nat
        BY <3>1 DEF FlowInv, FlowTypeOK
    <3> QED BY <3>1, <3>2, FlowAdmissionQuiet
  <2>2. ASSUME EndAdmit PROVE Kept'
    <3>1. /\ phase = "admit" /\ phase' = "reroute" /\ cursor' = cursor
          /\ UNCHANGED <<poolVars, increments, flowVars>>
        BY <2>2 DEF EndAdmit
    <3>2. cursor' \in Nat
        BY <3>1 DEF FlowInv, FlowTypeOK
    <3> QED BY <3>1, <3>2, FlowAdmissionQuiet
  <2> QED BY <1>1, <1>2, <2>1, <2>2, FlowAdmitTrip DEF Admission, FlowInv
<1>3. CASE Commit
    BY <1>1, <1>3, FlowCommitWait, FlowCommitMove, FlowCommitComplete, FlowEndCommit
    DEF Commit, FlowInv
<1>4. CASE UNCHANGED vars
  <2>1. /\ UNCHANGED <<alive, link, ptr, memory, newly, phase, cursor, increments, queue, tokens>>
    BY <1>4 DEF vars, poolVars, freeList, columns, flowVars
  <2>2. \A l \in Links : OnLink(l)' = OnLink(l) /\ Announced(l)' = Announced(l)
    BY <2>1 DEF OnLink, Announced
  <2>3. \A m \in Movements : Asking(m)' = Asking(m)
    BY <2>1 DEF Asking, Intent, Path
  <2>4. FlowTypeOK'
    BY <2>1 DEF FlowInv, FlowTypeOK
  <2>5. QueueAccount' /\ StorageKept' /\ TokensEarned'
    BY <2>1, <2>2, <2>3 DEF FlowInv, QueueAccount, StorageKept, TokensEarned
  <2> QED BY <1>1, <2>4, <2>5 DEF FlowInv
<1>5. CASE BeginTick \/ Reroute \/ Progress \/ FlowUpdate
    BY <1>1, <1>5, FlowBeginTick, FlowReroute, FlowProgress, FlowFlowUpdate DEF FlowInv
<1> QED BY <1>2, <1>3, <1>4, <1>5 DEF Next

-----------------------------------------------------------------------------
(* The invariant of every reachable state. *)
THEOREM FlowInvariant == Spec => []FlowInv
<1> QED BY FlowInvInit, FlowInvStep, PTL DEF Spec

(* check_runtime_vehicle_queue_authority: between ticks the queue of every *)
(* link is exactly the number of agents on it.                             *)
THEOREM QueuesAlwaysAgents == Spec => []QueueIsAgents
<1>1. ASSUME FlowInv, phase = "tick", NEW l \in Links
      PROVE  queue[l] = Cardinality(OnLink(l))
  <2>1. tokens = NoTokens /\ Announced(l) = 0 /\ queue[l] \in Int
    BY <1>1 DEF FlowInv, TokensEarned, Announced, FlowTypeOK
  <2> QED BY <1>1, <2>1, NothingLeavesOrEnters DEF FlowInv, QueueAccount
<1>2. FlowInv => QueueIsAgents
    BY <1>1 DEF QueueIsAgents
<1> QED BY <1>2, FlowInvariant, PTL

(* check_finite_link_storage: however admissions and grants of one tick    *)
(* combine, no link holds more vehicles than it stores.                    *)
THEOREM StorageAlwaysRespected == Spec => []StorageRespected
<1>1. ASSUME FlowInv, Spatial, NEW l \in Links PROVE queue[l] <= Storage[l]
  <2>1. Announced(l) \in Nat /\ queue[l] \in Int /\ Storage[l] \in Nat
    BY <1>1, StorageAssumption DEF FlowInv, FlowTypeOK, Announced
  <2>2. queue[l] + Announced(l) <= Storage[l]
    BY <1>1 DEF FlowInv, StorageKept
  <2> QED BY <2>1, <2>2
<1>2. FlowInv => StorageRespected
    BY <1>1 DEF StorageRespected
<1> QED BY <1>2, FlowInvariant, PTL

(* The RuntimeErrors of the flow update and of the commit loop are never   *)
(* raised: the inputs of every flow update are valid and every realized    *)
(* token finds an agent to spend it.                                       *)
THEOREM RuntimeNeverRaises == Spec => []NeverRaises
<1>1. FlowInv => NeverRaises
    BY DEF FlowInv, FlowTypeOK, NeverRaises
<1> QED BY <1>1, FlowInvariant, PTL
==============================================================================
