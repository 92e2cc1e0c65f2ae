----------------------------- MODULE EventProofs -----------------------------
(***************************************************************************)
(* Theorems about the traffic events and the two components that follow    *)
(* them: EventScheduler, for every set of events, windows, scopes and      *)
(* severities and every order of injections, clears and pauses; UIStream,  *)
(* whose losses are accounted for and whose frames and overlays are not    *)
(* stale, for every interval; RouteCache, for every network of routes and  *)
(* every set of trips and refresh interval.                                *)
(***************************************************************************)
EXTENDS UIStream, RouteCache, FiniteSetTheorems, Counting

-----------------------------------------------------------------------------
(***************************************************************************)
(* The scheduler.                                                          *)
(***************************************************************************)
(* What the steps of the scheduler preserve.                               *)
EventInv == EventTypeOK /\ ActiveWithinWindow

EventNext == RunSome \/ PauseSome

-----------------------------------------------------------------------------
(* The least share that the events leave of a link: it is one of them, or  *)
(* the whole, and none is less.                                            *)
LEMMA MultiplierIsLeast ==
    ASSUME NEW events \in SUBSET Events, NEW l \in Links
    PROVE  /\ MultiplierOf(events)[l] \in 0 .. Unit
           /\ MultiplierOf(events)[l] < Unit =>
                \E e \in events : Affects(e, l) /\ CapacityLeft(e) = MultiplierOf(events)[l]
           /\ \A e \in events : Affects(e, l) => MultiplierOf(events)[l] <= CapacityLeft(e)
<1> DEFINE shares == {Unit} \cup {CapacityLeft(e) : e \in {x \in events : Affects(x, l)}}
<1>1. \A e \in events : Affects(e, l) => CapacityLeft(e) \in 0 .. Unit
  BY EventAssumption DEF EventAssumption, CapacityLeft, Affects
<1>2. shares \subseteq 0 .. Unit /\ Unit \in shares
  BY <1>1, EventAssumption DEF EventAssumption
<1>3. MultiplierOf(events)[l] = Min(shares)
  BY DEF MultiplierOf
<1>4. Min(shares) \in shares /\ \A y \in shares : Min(shares) <= y
  <2>1. \E x \in shares : \A y \in shares : x <= y
    <3> HIDE DEF shares
    <3>1. shares \subseteq Nat /\ shares # {}
      BY <1>2
    <3>2. QED
      BY <3>1, LeastExists
  <2> HIDE DEF shares
  <2>2. QED
    BY <2>1 DEF Min
<1>5. \A m \in shares : m = Unit \/ \E e \in events : Affects(e, l) /\ CapacityLeft(e) = m
  OBVIOUS
<1>6. \A e \in events : Affects(e, l) => CapacityLeft(e) \in shares
  OBVIOUS
<1> HIDE DEF shares
<1>7. Min(shares) \in 0 .. Unit /\ Unit \in Nat
  BY <1>2, <1>4, EventAssumption DEF EventAssumption
<1>8. QED
  BY <1>3, <1>4, <1>5, <1>6, <1>7

(* Every step keeps the types. *)
LEMMA EventTypeStep ==
    ASSUME EventTypeOK, EventNext
    PROVE  EventTypeOK'
<1>1. ASSUME NEW new \in SUBSET Events, NEW clear \in SUBSET Events,
             AdvanceBuckets(new, clear, tick')
      PROVE  (scheduled \subseteq Events /\ active \subseteq Events /\ cleared \subseteq Events)'
  BY <1>1 DEF AdvanceBuckets, EventTypeOK
<1>2. ASSUME NEW new \in SUBSET Events, NEW clear \in SUBSET Events, Run(new, clear)
      PROVE  EventTypeOK'
  <2>1. active' \in SUBSET Events
    BY <1>1, <1>2 DEF Run
  <2>2. MultiplierOf(active') \in [Links -> 0 .. Unit]
    <3>1. \A l \in Links : MultiplierOf(active')[l] \in 0 .. Unit
      BY <2>1, MultiplierIsLeast
    <3>2. QED
      BY <3>1 DEF MultiplierOf
  <2>3. multiplier' \in [Links -> 0 .. Unit] /\ generation' \in Nat
    BY <1>2, <2>2 DEF Run, ApplyEffects, EventTypeOK
  <2>4. tick' \in 0 .. MaxTick
    BY <1>2, EventAssumption DEF Run, EventTypeOK, EventAssumption
  <2>5. QED
    BY <1>1, <1>2, <2>3, <2>4 DEF Run, EventTypeOK
<1>3. ASSUME NEW new \in SUBSET Events, NEW clear \in SUBSET Events, Pause(new, clear)
      PROVE  EventTypeOK'
  BY <1>1, <1>3 DEF Pause, effects, EventTypeOK
<1>4. QED
  BY <1>2, <1>3 DEF EventNext, RunSome, PauseSome

(* Advancing the buckets to a later or the same tick keeps every event in  *)
(* one bucket, within its window, and never moves it back.                 *)
LEMMA BucketsAdvance ==
    ASSUME EventInv,
           NEW new \in SUBSET Events, NEW clear \in SUBSET Events,
           Injectable(new), tick' \in Nat, tick <= tick',
           AdvanceBuckets(new, clear, tick')
    PROVE  /\ ActiveWithinWindow'
           /\ cleared \subseteq cleared' \ (scheduled' \cup active')
           /\ active \subseteq active' \cup cleared'
           /\ scheduled \subseteq Known'
<1>1. tick \in Nat /\ \A e \in Events : Event[e].start \in Nat /\ Event[e].end \in Nat
  BY EventAssumption DEF EventInv, EventTypeOK, EventAssumption
<1>2. scheduled \subseteq Events /\ active \subseteq Events /\ cleared \subseteq Events
  BY DEF EventInv, EventTypeOK
<1>3. (scheduled \cap active = {} /\ scheduled \cap cleared = {} /\ active \cap cleared = {})'
  BY DEF AdvanceBuckets, Injectable, Known, EventInv, ActiveWithinWindow
<1>4. \A e \in active' : tick' \in Event[e].start .. Event[e].end
  <2> SUFFICES ASSUME NEW e \in active'
               PROVE  tick' \in Event[e].start .. Event[e].end
    OBVIOUS
  <2>1. e \in Events
    BY <1>2 DEF AdvanceBuckets
  <2>2. ~ Ended(e, tick')
    BY DEF AdvanceBuckets
  <2>3. tick' >= Event[e].start
    BY <1>1, <2>1 DEF AdvanceBuckets, EventInv, ActiveWithinWindow
  <2>4. QED
    BY <1>1, <2>1, <2>2, <2>3 DEF Ended
<1>5. \A e \in scheduled' : tick' < Event[e].start
  BY <1>1, <1>2 DEF AdvanceBuckets
<1>6. (cleared \subseteq cleared' \ (scheduled' \cup active'))
      /\ active \subseteq active' \cup cleared' /\ scheduled \subseteq Known'
  BY DEF AdvanceBuckets, Injectable, Known, EventInv, ActiveWithinWindow
<1>7. QED
  BY <1>3, <1>4, <1>5, <1>6 DEF ActiveWithinWindow

(* A step of the scheduler meets the conditions of BucketsAdvance.         *)
LEMMA StepAdvances ==
    ASSUME EventInv, EventNext
    PROVE  \E new, clear \in SUBSET Events :
               /\ Injectable(new) /\ AdvanceBuckets(new, clear, tick')
               /\ tick' \in Nat /\ tick <= tick'
<1>1. tick \in Nat
  BY EventAssumption DEF EventInv, EventTypeOK, EventAssumption
<1>2. CASE RunSome
  BY <1>1, <1>2 DEF RunSome, Run
<1>3. CASE PauseSome
  BY <1>1, <1>3 DEF PauseSome, Pause
<1>4. QED
  BY <1>2, <1>3 DEF EventNext

LEMMA EventStep ==
    ASSUME EventInv, [EventNext]_eventVars
    PROVE  EventInv'
<1>1. CASE EventNext
  BY <1>1, EventTypeStep, StepAdvances, BucketsAdvance DEF EventInv
<1>2. CASE UNCHANGED eventVars
  BY <1>2 DEF eventVars, buckets, effects, EventInv, EventTypeOK, ActiveWithinWindow
<1>3. QED
  BY <1>1, <1>2

(* ActiveWithinWindow and the types hold in every state a run can reach:   *)
(* no id is ever in two buckets, and an event is active within its window. *)
THEOREM EventInvariant == EventSpec => []EventInv
<1>1. EventInit => EventInv
  BY EventAssumption DEF EventInit, EventInv, EventTypeOK, ActiveWithinWindow, EventAssumption
<1>2. EventInv /\ [EventNext]_eventVars => EventInv'
  BY EventStep
<1>3. QED
  BY <1>1, <1>2, PTL DEF EventSpec, EventNext

(* Windows: what is active was injected, and is inside its window.         *)
THEOREM WindowsAlwaysKept == EventSpec => []ActiveWithinWindow
<1>1. EventInv => ActiveWithinWindow
  BY DEF EventInv
<1>2. QED
  BY <1>1, EventInvariant, PTL

-----------------------------------------------------------------------------
(* History: events only go forward, through pauses and late injections.    *)
THEOREM HistoryOnlyGrows == EventSpec => ForwardOnly
<1> DEFINE Forward ==
        /\ cleared \subseteq cleared' \ (scheduled' \cup active')
        /\ active \subseteq active' \cup cleared'
        /\ scheduled \subseteq Known'
<1>1. EventInv /\ [EventNext]_eventVars => [Forward]_eventVars
  BY StepAdvances, BucketsAdvance
<1>2. QED
  BY <1>1, EventInvariant, PTL DEF EventSpec, EventNext, ForwardOnly

(* What a step that runs makes of the capacities. *)
CapacityMatches ==
    /\ \A l \in Links : multiplier'[l] < Unit =>
          \E e \in active' : Affects(e, l) /\ CapacityLeft(e) = multiplier'[l]
    /\ \A e \in active', l \in Links :
          Affects(e, l) => multiplier'[l] <= CapacityLeft(e)

LEMMA RunMatches ==
    ASSUME EventInv, NEW new \in SUBSET Events, NEW clear \in SUBSET Events, Run(new, clear)
    PROVE  CapacityMatches
<1>1. active' \in SUBSET Events
  BY EventTypeStep DEF EventInv, EventTypeOK, EventNext, RunSome
<1>2. CASE EffectsDue(active')
  <2>1. multiplier' = MultiplierOf(active')
    BY <1>2 DEF Run, ApplyEffects
  <2>2. QED
    BY <1>1, <2>1, MultiplierIsLeast DEF CapacityMatches
<1>3. CASE ~ EffectsDue(active')
  <2>1. active' = {} /\ multiplier' = multiplier /\ ~ Restricted(multiplier)
    BY <1>3 DEF Run, ApplyEffects, EffectsDue
  <2>2. QED
    BY <2>1 DEF Restricted, CapacityMatches
<1>4. QED
  BY <1>2, <1>3

(* Capacity: a step that runs restricts a link exactly as far as an event  *)
(* that is active in it says, and no link stays restricted without one.    *)
THEOREM CapacityAlwaysFollows == EventSpec => CapacityFollowsEvents
<1>1. ASSUME EventInv, EventNext, tick' # tick
      PROVE  CapacityMatches
  BY <1>1, RunMatches DEF EventNext, RunSome, PauseSome, Pause
<1>2. EventInv /\ [EventNext]_eventVars => [tick' # tick => CapacityMatches]_eventVars
  BY <1>1 DEF eventVars
<1>3. QED
  BY <1>2, EventInvariant, PTL DEF EventSpec, EventNext, CapacityFollowsEvents, CapacityMatches

(* Reroutes: a change of capacity is a reason to reroute in its own step,  *)
(* the end of an incident like its beginning.                              *)
THEOREM ChangesAlwaysReroute == EventSpec => ChangeReroutes
<1>1. ASSUME EventNext, multiplier' # multiplier
      PROVE  trigger' # "none"
  <2>1. PICK new \in SUBSET Events, clear \in SUBSET Events : Run(new, clear)
    BY <1>1 DEF EventNext, RunSome, PauseSome, Pause, effects
  <2>2. /\ transition'.tick = tick'
        /\ transition'.kind \in {"activated", "cleared", "changed"}
    BY <1>1, <2>1 DEF Run, ApplyEffects, TransitionOf
  <2>3. QED
    BY <2>1, <2>2 DEF Run, TriggerOf
<1>2. [EventNext]_eventVars => [multiplier' # multiplier => trigger' # "none"]_eventVars
  BY <1>1
<1>3. QED
  BY <1>2, PTL DEF EventSpec, EventNext, ChangeReroutes

-----------------------------------------------------------------------------
(***************************************************************************)
(* The stream to the UI.                                                   *)
(***************************************************************************)
(* The counters are numbers, and no snapshot is from the future.           *)
StreamTypeOK ==
    /\ pending \in {None} \cup 0 .. tick
    /\ dropped \in Nat /\ nextSeq \in Nat /\ reported \in Nat
    /\ stats \in [offered : Nat, emitted : Nat, dropped : Nat, forced : Nat]
    /\ frame.snapshot \in {None} \cup 0 .. tick

(* A snapshot that waits is no older than the frame that went before it,   *)
(* and the overlay the UI shows is the one the server believes it shows.   *)
StreamOrder ==
    /\ pending # None => frame.snapshot <= pending
    /\ shown = signature

StreamInv == EventInv /\ StreamTypeOK /\ StreamOrder /\ LossesAccounted

-----------------------------------------------------------------------------
LEMMA StreamInvInit == Init => StreamInv
<1> SUFFICES ASSUME Init PROVE StreamInv
  OBVIOUS
<1>1. EventInv
  BY EventAssumption DEF Init, EventInit, EventInv, EventTypeOK, ActiveWithinWindow, EventAssumption
<1>2. StreamTypeOK /\ StreamOrder
  BY DEF Init, NoFrame, StreamTypeOK, StreamOrder
<1>3. LossesAccounted
  BY DEF Init, LossesAccounted, Coalesced
<1>4. QED
  BY <1>1, <1>2, <1>3 DEF StreamInv

(* A step of the simulation keeps its own invariant and never turns back   *)
(* the clock.                                                              *)
LEMMA SimulationStep ==
    ASSUME EventInv, Simulate
    PROVE  EventInv' /\ tick \in Nat /\ tick' \in Nat /\ tick <= tick'
<1>1. EventNext
  BY DEF Simulate, EventNext
<1>2. EventInv' /\ tick' \in Nat /\ tick <= tick'
  BY <1>1, EventStep, StepAdvances
<1>3. QED
  BY <1>2, EventAssumption DEF EventInv, EventTypeOK, EventAssumption

LEMMA SilentStepKeeps == ASSUME StreamInv, SilentStep PROVE StreamInv'
<1>1. EventInv' /\ tick \in Nat /\ tick' \in Nat /\ tick <= tick' /\ UNCHANGED uiVars
  BY SimulationStep DEF StreamInv, SilentStep
<1>2. StreamTypeOK' /\ StreamOrder' /\ LossesAccounted'
  BY <1>1 DEF uiVars, buffer, server, history, StreamInv, StreamTypeOK, StreamOrder,
     LossesAccounted, Coalesced, None
<1>3. QED
  BY <1>1, <1>2 DEF StreamInv

(* After the overlay packet, or without one, the UI shows the events.      *)
LEMMA OverlayShowsEvents ==
    ASSUME NEW events, shown = signature, OverlayPacket(events)
    PROVE  shown' = events /\ shown' = signature'
BY DEF OverlayPacket, OverlaySent

(* An offer counts the snapshot it displaces exactly once, whether it then *)
(* emits its own or leaves it pending.                                     *)
LEMMA OfferKeeps ==
    ASSUME NEW now, now \in Nat, now = tick', tick \in Nat, tick <= now,
           NEW force \in BOOLEAN, StreamTypeOK, LossesAccounted, Offer(now, force)
    PROVE  /\ StreamTypeOK' /\ LossesAccounted'
           /\ pending' # None => frame'.snapshot <= pending'
           /\ frame'.snapshot >= frame.snapshot
<1> DEFINE lost == dropped + Coalesced
<1>0. None \notin Nat /\ None < now
  BY DEF None
<1>1. CASE force \/ EmitDue(now)
  <2>1. /\ pending' = None /\ dropped' = 0 /\ reported' = reported + lost
        /\ nextSeq' = nextSeq + 1 /\ frame'.snapshot = now
    BY <1>1 DEF Offer, Emit, LostAfterEmit
  <2>2. stats' = [offered |-> stats.offered + 1, emitted |-> stats.emitted + 1,
                  dropped |-> stats.dropped + Coalesced,
                  forced |-> stats.forced + (IF force THEN 1 ELSE 0)]
    BY <1>1 DEF Offer
  <2>3. Coalesced \in {0, 1} /\ Coalesced' = 0
    BY <2>1 DEF Coalesced
  <2>4. StreamTypeOK'
    BY <1>0, <2>1, <2>2, <2>3 DEF StreamTypeOK
  <2>5. LossesAccounted'
    BY <2>1, <2>2, <2>3 DEF StreamTypeOK, LossesAccounted
  <2>6. frame'.snapshot >= frame.snapshot
    BY <1>0, <2>1 DEF StreamTypeOK, None
  <2>7. QED
    BY <2>1, <2>4, <2>5, <2>6
<1>2. CASE ~ (force \/ EmitDue(now))
  <2>1. /\ pending' = now /\ dropped' = lost
        /\ UNCHANGED <<frame, nextSeq, lastEmitted, reported>>
    BY <1>2 DEF Offer
  <2>2. stats' = [offered |-> stats.offered + 1, emitted |-> stats.emitted,
                  dropped |-> stats.dropped + Coalesced, forced |-> stats.forced]
    BY <1>2 DEF Offer, StreamTypeOK
  <2>3. Coalesced \in {0, 1} /\ Coalesced' = 1
    BY <1>0, <2>1 DEF Coalesced
  <2>4. StreamTypeOK'
    BY <1>0, <2>1, <2>2, <2>3 DEF StreamTypeOK, None
  <2>5. LossesAccounted'
    BY <2>1, <2>2, <2>3 DEF StreamTypeOK, LossesAccounted
  <2>6. frame'.snapshot = frame.snapshot /\ frame.snapshot <= now
    BY <1>0, <2>1 DEF StreamTypeOK, None
  <2>7. QED
    BY <1>0, <2>1, <2>4, <2>5, <2>6 DEF StreamTypeOK, None
<1>3. QED
  BY <1>1, <1>2

LEMMA SnapshotStepKeeps ==
    ASSUME StreamInv, SnapshotStep
    PROVE  StreamInv' /\ shown' = active' /\ frame'.snapshot >= frame.snapshot
<1>1. PICK force \in BOOLEAN : Simulate /\ Ingest(active', tick', force)
  BY DEF SnapshotStep
<1>2. EventInv' /\ tick \in Nat /\ tick' \in Nat /\ tick <= tick'
  BY <1>1, SimulationStep DEF StreamInv
<1>3. shown' = active' /\ shown' = signature'
  BY <1>1, OverlayShowsEvents DEF Ingest, StreamInv, StreamOrder
<1>4. /\ StreamTypeOK' /\ LossesAccounted'
      /\ pending' # None => frame'.snapshot <= pending'
      /\ frame'.snapshot >= frame.snapshot
  BY <1>1, <1>2, OfferKeeps DEF Ingest, StreamInv
<1>5. QED
  BY <1>2, <1>3, <1>4 DEF StreamInv, StreamOrder

LEMMA PollKeeps ==
    ASSUME StreamInv, NEW force \in BOOLEAN, Poll(force)
    PROVE  StreamInv' /\ frame'.snapshot >= frame.snapshot /\ stats'.offered = stats.offered
<1>1. /\ pending # None /\ pending' = None /\ dropped' = 0 /\ reported' = reported + dropped
      /\ nextSeq' = nextSeq + 1 /\ frame'.snapshot = pending
      /\ UNCHANGED <<eventVars, server>>
  BY DEF Poll, Emit, LostAfterEmit
<1>2. /\ stats' \in [offered : Nat, emitted : Nat, dropped : Nat, forced : Nat]
      /\ stats'.offered = stats.offered /\ stats'.dropped = stats.dropped
      /\ stats'.emitted = stats.emitted + 1
  BY DEF Poll, StreamInv, StreamTypeOK
<1>3. Coalesced = 1 /\ Coalesced' = 0
  BY <1>1 DEF Coalesced
<1>4. EventInv'
  BY <1>1 DEF StreamInv, eventVars, buckets, effects, EventInv, EventTypeOK, ActiveWithinWindow
<1>5. StreamTypeOK' /\ StreamOrder' /\ frame'.snapshot >= frame.snapshot
  <2>1. tick \in Nat /\ tick' = tick /\ pending \in 0 .. tick
    BY <1>1, EventAssumption DEF StreamInv, EventInv, EventTypeOK, StreamTypeOK, eventVars, EventAssumption
  <2>2. StreamTypeOK'
    BY <1>1, <1>2, <2>1 DEF StreamInv, StreamTypeOK
  <2>3. frame'.snapshot >= frame.snapshot
    BY <1>1, <2>1 DEF StreamInv, StreamOrder, StreamTypeOK, None
  <2>4. StreamOrder'
    BY <1>1 DEF StreamInv, StreamOrder, server
  <2>5. QED
    BY <2>2, <2>3, <2>4
<1>6. LossesAccounted' /\ stats'.offered = stats.offered
  BY <1>1, <1>2, <1>3 DEF StreamInv, StreamTypeOK, LossesAccounted
<1>7. QED
  BY <1>4, <1>5, <1>6 DEF StreamInv

LEMMA ClearPendingKeeps ==
    ASSUME StreamInv, ClearPending
    PROVE  StreamInv' /\ frame' = frame /\ stats'.offered = stats.offered
<1>1. /\ pending # None /\ pending' = None /\ dropped' = dropped + Coalesced
      /\ UNCHANGED <<eventVars, nextSeq, frame, server, reported>>
      /\ stats' = [stats EXCEPT !.dropped = @ + Coalesced]
  BY DEF ClearPending
<1>2. Coalesced = 1 /\ Coalesced' = 0
  BY <1>1 DEF Coalesced
<1>3. EventInv'
  BY <1>1 DEF StreamInv, eventVars, buckets, effects, EventInv, EventTypeOK, ActiveWithinWindow
<1>4. StreamTypeOK' /\ StreamOrder'
  BY <1>1, <1>2 DEF StreamInv, StreamTypeOK, StreamOrder, server, eventVars
<1>5. LossesAccounted' /\ stats'.offered = stats.offered
  BY <1>1, <1>2 DEF StreamInv, StreamTypeOK, LossesAccounted
<1>6. QED
  BY <1>1, <1>3, <1>4, <1>5 DEF StreamInv

(* A frame that is not stale after a frame that was not, and an overlay of *)
(* the events of the step that offered a snapshot.                         *)
Fresh ==
    /\ frame' # frame => frame'.snapshot >= frame.snapshot
    /\ stats'.offered # stats.offered => shown' = active'

LEMMA StreamStep ==
    ASSUME StreamInv, [Next]_streamVars
    PROVE  StreamInv' /\ [Fresh]_streamVars
<1>1. CASE SilentStep
  BY <1>1, SilentStepKeeps DEF SilentStep, uiVars, buffer, Fresh
<1>2. CASE SnapshotStep
  BY <1>2, SnapshotStepKeeps DEF Fresh
<1>3. CASE \E force \in BOOLEAN : Poll(force)
  BY <1>3, PollKeeps DEF Fresh
<1>4. CASE ClearPending
  BY <1>4, ClearPendingKeeps DEF Fresh
<1>5. CASE UNCHANGED streamVars
  BY <1>5 DEF streamVars, eventVars, buckets, effects, uiVars, buffer, server, history, StreamInv,
     EventInv, EventTypeOK, ActiveWithinWindow, StreamTypeOK, StreamOrder, LossesAccounted, Coalesced
<1>6. QED
  BY <1>1, <1>2, <1>3, <1>4, <1>5 DEF Next

(* The types, the order of ticks and the count of losses hold throughout.  *)
THEOREM StreamInvariant == Spec => []StreamInv
<1>1. StreamInv /\ [Next]_streamVars => StreamInv'
  BY StreamStep
<1>2. QED
  BY <1>1, StreamInvInit, PTL DEF Spec

(* Every snapshot offered is emitted, dropped or pending, and the frames   *)
(* tell of every loss once, whatever is forced, polled or cleared.         *)
THEOREM LossesAlwaysAccounted == Spec => []LossesAccounted
<1>1. StreamInv => LossesAccounted
  BY DEF StreamInv
<1>2. QED
  BY <1>1, StreamInvariant, PTL

(* No frame is older than the one before it, and every snapshot step       *)
(* leaves the UI with the events that are active in it.                    *)
THEOREM StreamNeverStale == Spec => NeverStale
<1>1. StreamInv /\ [Next]_streamVars => [Fresh]_streamVars
  BY StreamStep
<1>2. QED
  BY <1>1, StreamInvariant, PTL DEF Spec, NeverStale, Fresh

-----------------------------------------------------------------------------
(***************************************************************************)
(* The route cache.                                                        *)
(***************************************************************************)
(* Every potential that is kept was computed under an earlier flow         *)
(* generation.                                                             *)
MemoIsOld ==
    /\ flowGeneration \in Nat
    /\ \A e \in memo : e.signature[1] \in Nat /\ e.signature[1] < flowGeneration

(* A set without a date is no set at all. *)
SetsAreDated == \A od \in ODs : candidates[od].made = None => candidates[od] = NoSet

(* The links changed for the last time in a tick that is over. *)
ChangeIsDated == transition.tick \in {None} \cup 0 .. tick

(* A set without a route is of a pair that is cut off, or is older than    *)
(* the latest change of the links.                                         *)
NoRouteFor(set, od) ==
    set.route = <<>> => CutOff(od, Closed(multiplier)) \/ set.made < transition.tick

EmptySetsExplained == \A od \in ODs : candidates[od] # NoSet => NoRouteFor(candidates[od], od)

CacheInv ==
    EventInv /\ MemoIsOld /\ CacheTypeOK /\ SetsAreDated /\ ChangeIsDated /\ EmptySetsExplained

(* What a search finds under the closures and travel times of this tick.   *)
Current == [closed |-> Closed(multiplier'), busy |-> busy]

-----------------------------------------------------------------------------
LEMMA CostIsNatural ==
    ASSUME NEW r \in Seq(Links), NEW slow
    PROVE  CostWith(r, slow) \in Nat
<1> DEFINE crossed == {i \in 1 .. Len(r) : r[i] \in slow}
<1>1. Len(r) \in Nat
  OBVIOUS
<1>2. IsFiniteSet(1 .. Len(r))
  BY <1>1, FS_Interval
<1>3. Cardinality(crossed) \in Nat
  BY <1>2, FS_Subset, FS_CardinalityType
<1> HIDE DEF crossed
<1>4. CostWith(r, slow) = Len(r) + 2 * Cardinality(crossed)
  BY DEF CostWith, crossed
<1>5. QED
  BY <1>1, <1>3, <1>4

(* A search finds an open route of its pair, unless all are closed.        *)
LEMMA BestRouteIsOpen ==
    ASSUME NEW od \in ODs, NEW inputs, ~ CutOff(od, inputs.closed)
    PROVE  /\ BestRoute(od, inputs) \in Routes[od] /\ IsOpen(BestRoute(od, inputs), inputs.closed)
           /\ BestRoute(od, inputs) # <<>>
<1> DEFINE open == {r \in Routes[od] : IsOpen(r, inputs.closed)}
           cost(r) == CostWith(r, inputs.busy)
           costs == {cost(r) : r \in open}
<1>1. open # {}
  BY DEF CutOff
<1>2. \A r \in open : cost(r) \in Nat
  BY CostIsNatural, RoutesAssumption DEF RoutesAssumption
<1>3. \E c \in costs : \A d \in costs : c <= d
  <2>1. costs \subseteq Nat /\ costs # {}
    BY <1>1, <1>2
  <2> HIDE DEF costs
  <2>2. QED
    BY <2>1, LeastExists
<1>4. \E r \in open : \A q \in open : cost(r) <= cost(q)
  BY <1>3
<1>5. BestRoute(od, inputs) = CHOOSE r \in open : \A q \in open : cost(r) <= cost(q)
  BY <1>1 DEF BestRoute
<1> HIDE DEF open, cost
<1>6. BestRoute(od, inputs) \in open
  BY <1>4, <1>5
<1>7. QED
  BY <1>6, RoutesAssumption DEF open, RoutesAssumption

(* Where all are closed it finds none.                                     *)
LEMMA NoBestRoute ==
    ASSUME NEW od, NEW inputs, CutOff(od, inputs.closed)
    PROVE  BestRoute(od, inputs) = <<>>
BY DEF BestRoute, CutOff

(* No potential survives from one tick to the next, so a refresh searches  *)
(* the network as it is now.                                               *)
LEMMA RefreshSearchesNow ==
    ASSUME CacheInv, NEW wanted, NEW now, Refresh(wanted, now)
    PROVE  \A od \in ODs :
             candidates'[od] =
               IF od \in wanted /\ ShouldRefresh(candidates[od], now, Forced(now))
               THEN [route |-> BestRoute(od, Current), made |-> now]
               ELSE candidates[od]
<1>1. Kept(Signature(flowGeneration, generation')) = {}
  BY DEF Kept, Signature, CacheInv, MemoIsOld
<1>2. QED
  BY <1>1 DEF Refresh, Current, Forced

(* What is remembered in a tick is remembered under one signature, and   *)
(* from one search per destination.                                        *)
LEMMA RefreshRemembers ==
    ASSUME CacheInv, NEW wanted, NEW now, Refresh(wanted, now), flowGeneration' = flowGeneration + 1
    PROVE  /\ MemoIsOld'
           /\ \A e, f \in memo' : e.signature = f.signature /\ (e.dest = f.dest => e = f)
<1> DEFINE current == Signature(flowGeneration, generation')
<1>1. Kept(current) = {}
  BY DEF Kept, Signature, CacheInv, MemoIsOld
<1>2. \A e \in memo' : \E d : e = [signature |-> current, dest |-> d, inputs |-> Current]
  BY <1>1 DEF Refresh, Current
<1>3. \A e \in memo' : e.signature = current
  BY <1>2
<1>4. current[1] = flowGeneration
  BY DEF Signature
<1>5. MemoIsOld'
  BY <1>3, <1>4 DEF CacheInv, MemoIsOld
<1> HIDE DEF current
<1>6. \A e, f \in memo' : e.dest = f.dest => e = f
  BY <1>2
<1>7. QED
  BY <1>3, <1>5, <1>6

-----------------------------------------------------------------------------
(* What an unpaused step decides, and on the word of what.                 *)
FreshSets ==
    \A od \in ODs :
        candidates'[od] # candidates[od] =>
            candidates'[od] = [route |-> BestRoute(od, Current), made |-> tick']

OpenRoutes ==
    \A t \in Trips :
        (Settles(t) /\ stage'[t] = "admitted") =>
            IsOpen(candidates'[OD[t]].route, Closed(multiplier'))

OnlyCutOff ==
    \A t \in Trips :
        (Settles(t) /\ stage'[t] = "failed") =>
            \/ CutOff(OD[t], Closed(multiplier'))
            \/ OutlivedItsClosure(candidates'[OD[t]])

(* Without an active event nothing is closed. *)
LEMMA NothingClosed ==
    ASSUME EventTypeOK', CapacityMatches, active' = {}
    PROVE  Closed(multiplier') = {}
<1>1. \A l \in Links : multiplier'[l] \in 0 .. Unit /\ ~ (multiplier'[l] < Unit)
  BY DEF EventTypeOK, CapacityMatches
<1>2. Unit \in Nat \ {0} /\ Blockable \subseteq Links
  BY EventAssumption DEF EventAssumption
<1>3. QED
  BY <1>1, <1>2 DEF Closed

LEMMA StepKeeps ==
    ASSUME CacheInv, NEW new \in SUBSET Events, NEW clear \in SUBSET Events,
           NEW requests, NEW upTo, NEW held, NEW slow,
           Step(new, clear, requests, upTo, held, slow)
    PROVE  CacheInv' /\ FreshSets /\ OpenRoutes /\ OnlyCutOff
<1> DEFINE wanted == {OD[t] : t \in requests}
           due(od) == od \in wanted /\ ShouldRefresh(candidates[od], tick', Forced(tick'))
<1>1. /\ Run(new, clear) /\ Refresh(wanted, tick') /\ Admit(requests, upTo, held)
      /\ flowGeneration' = flowGeneration + 1
  BY DEF Step
<1>2. EventInv' /\ CapacityMatches
  BY <1>1, EventStep, RunMatches DEF CacheInv, EventNext, RunSome
<1>3. tick \in Nat /\ tick' = tick + 1
  BY <1>1, EventAssumption DEF Run, CacheInv, EventInv, EventTypeOK, EventAssumption
<1>4. \A od \in ODs :
        /\ due(od) => /\ candidates'[od] = [route |-> BestRoute(od, Current), made |-> tick']
                      /\ candidates'[od].route = BestRoute(od, Current)
                      /\ candidates'[od].made = tick'
        /\ ~ due(od) => candidates'[od] = candidates[od]
  BY <1>1, RefreshSearchesNow
<1> HIDE DEF wanted, due
<1>5. MemoIsOld' /\ \A e, f \in memo' : e.signature = f.signature /\ (e.dest = f.dest => e = f)
  BY <1>1, RefreshRemembers
<1>6. \A od \in ODs : /\ candidates'[od].route \in Routes[od] \cup {<<>>}
                      /\ candidates'[od].made \in {None} \cup 0 .. tick'
  <2> SUFFICES ASSUME NEW od \in ODs
               PROVE  /\ candidates'[od].route \in Routes[od] \cup {<<>>}
                      /\ candidates'[od].made \in {None} \cup 0 .. tick'
    OBVIOUS
  <2>1. CASE due(od)
    <3>1. candidates'[od].route = BestRoute(od, Current) /\ candidates'[od].made = tick'
      BY <1>4, <2>1
    <3>2. BestRoute(od, Current) \in Routes[od] \cup {<<>>}
      BY BestRouteIsOpen, NoBestRoute
    <3>3. QED
      BY <1>3, <3>1, <3>2
  <2>2. CASE ~ due(od)
    <3>1. candidates'[od] = candidates[od]
      BY <1>4, <2>2
    <3>2. QED
      BY <1>3, <3>1 DEF CacheInv, CacheTypeOK, None
  <2>3. QED
    BY <2>1, <2>2
<1>7. stage' \in [Trips -> {"waiting", "pending", "admitted", "failed"}]
  BY <1>1 DEF Admit, CacheInv, CacheTypeOK
<1>8. SetsAreDated'
  <2> SUFFICES ASSUME NEW od \in ODs, candidates'[od].made = None
               PROVE  candidates'[od] = NoSet
    BY DEF SetsAreDated
  <2>1. ~ due(od)
    <3>1. due(od) => candidates'[od].made = tick'
      BY <1>4
    <3>2. QED
      BY <1>3, <3>1 DEF None
  <2>2. QED
    BY <1>4, <2>1 DEF CacheInv, SetsAreDated
<1>8a. /\ ChangeIsDated'
       /\ transition' # transition => transition'.tick = tick'
       /\ multiplier' # multiplier => transition'.tick = tick'
  <2>1. transition.tick \in {None} \cup 0 .. tick
    BY DEF CacheInv, ChangeIsDated
  <2>2. CASE transition' = transition /\ multiplier' = multiplier
    BY <1>3, <2>1, <2>2 DEF ChangeIsDated, None
  <2>3. CASE transition'.tick = tick'
    BY <1>3, <2>3 DEF ChangeIsDated, None
  <2>4. QED
    BY <1>1, <2>2, <2>3 DEF Run, ApplyEffects, TransitionOf
<1>8b. EmptySetsExplained'
  <2> SUFFICES ASSUME NEW od \in ODs, candidates'[od] # NoSet, candidates'[od].route = <<>>
               PROVE  CutOff(od, Closed(multiplier')) \/ candidates'[od].made < transition'.tick
    BY DEF EmptySetsExplained, NoRouteFor
  <2>1. CASE due(od)
    <3>1. BestRoute(od, Current) = <<>>
      BY <1>4, <2>1
    <3>2. QED
      BY <3>1, BestRouteIsOpen DEF Current
  <2>2. CASE ~ due(od)
    <3>1. candidates'[od] = candidates[od]
      BY <1>4, <2>2
    <3>2. CutOff(od, Closed(multiplier)) \/ candidates[od].made < transition.tick
      BY <3>1 DEF CacheInv, EmptySetsExplained, NoRouteFor
    <3>3. CASE transition' = transition /\ multiplier' = multiplier
      BY <3>1, <3>2, <3>3
    <3>4. CASE transition'.tick = tick'
      <4>1. candidates[od].made \in {None} \cup 0 .. tick
        BY DEF CacheInv, CacheTypeOK
      <4>2. candidates[od].made < tick'
        BY <1>3, <4>1 DEF None
      <4>3. QED
        BY <3>1, <3>4, <4>2
    <3>5. QED
      BY <1>8a, <3>3, <3>4
  <2>3. QED
    BY <2>1, <2>2
<1>9. CacheInv'
  BY <1>2, <1>5, <1>6, <1>7, <1>8, <1>8a, <1>8b DEF CacheInv, CacheTypeOK
<1>10. FreshSets
  BY <1>4 DEF FreshSets
<1>11. \A t \in Trips : Settles(t) =>
         /\ OD[t] \in ODs /\ OD[t] \in wanted
         /\ stage'[t] = "admitted" => candidates'[OD[t]].route # <<>>
         /\ stage'[t] = "failed" => candidates'[OD[t]].route = <<>>
  BY <1>1, RoutesAssumption DEF Admit, Settles, RoutesAssumption, wanted
<1>12. \A od \in ODs : (od \in wanted /\ ~ due(od)) =>
         /\ active' = {} /\ transition'.tick # tick'
         /\ candidates[od].made \in 0 .. tick
         /\ tick' - candidates[od].made < RefreshInterval
  <2> SUFFICES ASSUME NEW od \in ODs, od \in wanted, ~ due(od)
               PROVE  /\ active' = {} /\ transition'.tick # tick'
                      /\ candidates[od].made \in 0 .. tick
                      /\ tick' - candidates[od].made < RefreshInterval
    OBVIOUS
  <2>1. ~ ShouldRefresh(candidates[od], tick', Forced(tick'))
    BY DEF due
  <2>2. candidates[od].made \in {None} \cup 0 .. tick
    BY DEF CacheInv, CacheTypeOK
  <2>3. /\ candidates[od] # NoSet /\ ~ (tick' - candidates[od].made >= RefreshInterval)
        /\ active' = {} /\ transition'.tick # tick'
    BY <2>1 DEF ShouldRefresh, Forced
  <2>4. RefreshInterval \in Nat \ {0}
    BY EventAssumption DEF EventAssumption
  <2>5. candidates[od].made # None
    BY <2>3 DEF CacheInv, SetsAreDated
  <2>6. QED
    BY <1>3, <2>2, <2>3, <2>4, <2>5 DEF None
<1>13. OpenRoutes
  <2> SUFFICES ASSUME NEW t \in Trips, Settles(t), stage'[t] = "admitted"
               PROVE  IsOpen(candidates'[OD[t]].route, Closed(multiplier'))
    BY DEF OpenRoutes
  <2>1. CASE due(OD[t])
    <3>1. candidates'[OD[t]].route = BestRoute(OD[t], Current)
      BY <1>4, <1>11, <2>1
    <3>2. QED
      BY <1>11, <3>1, BestRouteIsOpen, NoBestRoute DEF Current
  <2>2. CASE ~ due(OD[t])
    <3>1. Closed(multiplier') = {}
      <4>1. active' = {}
        BY <1>11, <1>12, <2>2
      <4>2. QED
        BY <1>2, <4>1, NothingClosed DEF EventInv
    <3>2. QED
      BY <3>1 DEF IsOpen
  <2>3. QED
    BY <2>1, <2>2
<1>14. OnlyCutOff
  <2> SUFFICES ASSUME NEW t \in Trips, Settles(t), stage'[t] = "failed",
                      ~ CutOff(OD[t], Closed(multiplier'))
               PROVE  OutlivedItsClosure(candidates'[OD[t]])
    BY DEF OnlyCutOff
  <2>1. OD[t] \in ODs /\ OD[t] \in wanted /\ candidates'[OD[t]].route = <<>>
    BY <1>11
  <2>2. ~ due(OD[t])
    <3>1. BestRoute(OD[t], Current) # <<>>
      BY <2>1, BestRouteIsOpen DEF Current
    <3>2. QED
      BY <1>4, <2>1, <3>1
  <2>3. /\ candidates'[OD[t]] = candidates[OD[t]]
        /\ active' = {} /\ transition'.tick # tick'
        /\ candidates[OD[t]].made \in 0 .. tick
        /\ tick' - candidates[OD[t]].made < RefreshInterval
    BY <1>4, <1>12, <2>1, <2>2
  <2>4. candidates'[OD[t]].made < transition'.tick
    <3>1. candidates'[OD[t]] # NoSet
      BY <2>3 DEF NoSet, None
    <3>2. QED
      BY <1>8b, <2>1, <3>1 DEF EmptySetsExplained, NoRouteFor
  <2>5. transition'.tick < tick'
    BY <1>3, <1>8a, <2>3 DEF ChangeIsDated, None
  <2>6. QED
    BY <2>3, <2>4, <2>5 DEF OutlivedItsClosure
<1>15. QED
  BY <1>9, <1>10, <1>13, <1>14

LEMMA CacheStep ==
    ASSUME CacheInv, [StepSome \/ PausedStep]_vars
    PROVE  CacheInv' /\ [FreshSets /\ OpenRoutes /\ OnlyCutOff]_vars
<1>1. CASE StepSome
  <2>1. PICK new \in SUBSET (Events \ Known), slow \in SUBSET Congestible :
          \E clear \in SUBSET (scheduled \cup active \cup new) :
          \E requests, upTo, held : Step(new, clear, requests, upTo, held, slow)
    BY <1>1 DEF StepSome
  <2>2. PICK clear \in SUBSET (scheduled \cup active \cup new) :
          \E requests, upTo, held : Step(new, clear, requests, upTo, held, slow)
    BY <2>1
  <2>3. new \in SUBSET Events /\ clear \in SUBSET Events
    BY DEF CacheInv, EventInv, EventTypeOK
  <2>4. QED
    BY <2>2, <2>3, StepKeeps
<1>2. CASE PausedStep
  <2>1. UNCHANGED cacheVars /\ tick' = tick /\ UNCHANGED effects
    BY <1>2 DEF PausedStep, PauseSome, Pause
  <2>2. EventInv'
    BY <1>2, EventStep DEF CacheInv, PausedStep, EventNext
  <2>3. MemoIsOld' /\ CacheTypeOK' /\ SetsAreDated' /\ ChangeIsDated' /\ EmptySetsExplained'
    BY <2>1 DEF CacheInv, MemoIsOld, CacheTypeOK, SetsAreDated, ChangeIsDated, EmptySetsExplained,
       NoRouteFor, cacheVars, effects
  <2>4. FreshSets /\ \A t \in Trips : ~ Settles(t)
    BY <2>1 DEF FreshSets, Settles, cacheVars
  <2>5. QED
    BY <2>2, <2>3, <2>4 DEF CacheInv, OpenRoutes, OnlyCutOff
<1>3. CASE UNCHANGED vars
  BY <1>3 DEF vars, cacheVars, eventVars, buckets, effects, CacheInv, EventInv, EventTypeOK,
     ActiveWithinWindow, MemoIsOld, CacheTypeOK, SetsAreDated, ChangeIsDated, EmptySetsExplained,
     NoRouteFor
<1>4. QED
  BY <1>1, <1>2, <1>3

LEMMA CacheInvInit == CacheInit => CacheInv
<1> SUFFICES ASSUME CacheInit PROVE CacheInv
  OBVIOUS
<1>1. EventInv
  BY EventAssumption DEF CacheInit, EventInit, EventInv, EventTypeOK, ActiveWithinWindow, EventAssumption
<1>2. MemoIsOld /\ SetsAreDated /\ ChangeIsDated /\ EmptySetsExplained
  BY DEF CacheInit, EventInit, MemoIsOld, SetsAreDated, ChangeIsDated, EmptySetsExplained
<1>3. CacheTypeOK
  BY DEF CacheInit, CacheTypeOK, NoSet
<1>4. QED
  BY <1>1, <1>2, <1>3 DEF CacheInv

-----------------------------------------------------------------------------
(* The cache: one potential per destination, all of one state, and every   *)
(* one older than the flow update that follows it.                         *)
THEOREM CacheInvariant == CacheSpec => []CacheInv
<1>1. CacheInv /\ [StepSome \/ PausedStep]_vars => CacheInv'
  BY CacheStep
<1>2. QED
  BY <1>1, CacheInvInit, PTL DEF CacheSpec

(* A candidate set is always what a search over its own tick would find.   *)
THEOREM SetsAlwaysFresh == CacheSpec => FreshWhenMade
<1>1. CacheInv /\ [StepSome \/ PausedStep]_vars => [FreshSets]_vars
  BY CacheStep
<1>2. QED
  BY <1>1, CacheInvariant, PTL DEF CacheSpec, FreshWhenMade, FreshSets, Current

(* No trip is ever admitted onto a link that is closed in its first tick.  *)
THEOREM AdmissionsAlwaysOpen == CacheSpec => AdmittedRoutesOpen
<1>1. CacheInv /\ [StepSome \/ PausedStep]_vars => [OpenRoutes]_vars
  BY CacheStep
<1>2. QED
  BY <1>1, CacheInvariant, PTL DEF CacheSpec, AdmittedRoutesOpen, OpenRoutes

(* A trip is given up only while its pair is cut off, or on a set of the   *)
(* last interval that no trip of the pair was there to have remade when    *)
(* its closure ended.                                                      *)
THEOREM TripsGivenUpOnlyWhenCutOff == CacheSpec => GivenUpOnlyWhenCutOff
<1>1. CacheInv /\ [StepSome \/ PausedStep]_vars => [OnlyCutOff]_vars
  BY CacheStep
<1>2. QED
  BY <1>1, CacheInvariant, PTL DEF CacheSpec, GivenUpOnlyWhenCutOff, OnlyCutOff
==============================================================================
