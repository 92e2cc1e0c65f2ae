----------------------------- MODULE WorldProofs -----------------------------
(***************************************************************************)
(* Theorems about what runs outside the runtime spine.  The world: for     *)
(* every set of edges, schedule, input and bound, and for recorded runs.   *)
(* Learning: greedy reservations leave nobody a better place, estimates    *)
(* are means of the rewards in whatever order they come, and no mix of     *)
(* costs and preferences picks an arm that is beaten on both.              *)
(***************************************************************************)
EXTENDS WorldReplay, Reservation, BanditLearning, PolicyBlend, Counting, TLAPS

WorldInv == WorldTypeOK /\ AccessibilityCoversEdits

-----------------------------------------------------------------------------
(* What one edge keeps and passes on. *)
LEMMA EdgeAfterBounds ==
    ASSUME NEW stock \in Nat, NEW queue \in Nat, NEW inflow \in Nat, NEW outflow \in Nat,
           NEW capacity \in Nat
    PROVE  LET after == EdgeAfter(stock, queue, inflow, outflow, capacity)
           IN  /\ after.stock \in Nat /\ after.queue \in Nat
               /\ after.queue <= after.stock
BY DEF EdgeAfter, SmallerOf, LargerOf

LEMMA FastTickKeeps ==
    ASSUME NEW w \in Worlds, NEW in \in Inputs
    PROVE  LET v == FastTick(w, in)
           IN  /\ v \in Worlds /\ v.step = w.step + 1
               /\ \A e \in Edges : v.queue[e] <= v.stock[e]
               /\ v.graph = w.graph /\ v.landuse = w.landuse /\ v.costs = w.costs
               /\ v.accessibility = w.accessibility /\ v.growth = w.growth
               /\ v.lagged = w.lagged /\ v.graphTag = w.graphTag /\ v.landuseTag = w.landuseTag
<1> DEFINE after == [e \in Edges |-> EdgeAfter(w.stock[e], w.queue[e],
                                               in.inflow[e], in.outflow[e], in.capacity[e])]
<1>1. \A e \in Edges : /\ after[e].stock \in Nat /\ after[e].queue \in Nat
                       /\ after[e].queue <= after[e].stock
  <2>1. \A e \in Edges : /\ w.stock[e] \in Nat /\ w.queue[e] \in Nat
                         /\ in.inflow[e] \in Nat /\ in.outflow[e] \in Nat /\ in.capacity[e] \in Nat
    BY WorldAssumption DEF Worlds, WorldAssumption
  <2>2. QED
    BY <2>1, EdgeAfterBounds
<1> DEFINE step == w.step + 1
           stock == [e \in Edges |-> after[e].stock]
           queue == [e \in Edges |-> after[e].queue]
<1>2. FastTick(w, in) = [w EXCEPT !.step = step, !.stock = stock, !.queue = queue]
  BY Zenon DEF FastTick
<1> HIDE DEF after
<1>3. step \in Nat /\ stock \in [Edges -> Nat] /\ queue \in [Edges -> Nat]
  BY <1>1 DEF Worlds
<1>4. \A e \in Edges : queue[e] <= stock[e]
  BY <1>1
<1> HIDE DEF step, stock, queue
<1>5. /\ FastTick(w, in) \in Worlds /\ FastTick(w, in).step = step
      /\ FastTick(w, in).stock = stock /\ FastTick(w, in).queue = queue
      /\ FastTick(w, in).graph = w.graph /\ FastTick(w, in).landuse = w.landuse
      /\ FastTick(w, in).costs = w.costs /\ FastTick(w, in).accessibility = w.accessibility
      /\ FastTick(w, in).growth = w.growth /\ FastTick(w, in).lagged = w.lagged
      /\ FastTick(w, in).graphTag = w.graphTag /\ FastTick(w, in).landuseTag = w.landuseTag
  BY <1>2, <1>3, Zenon DEF Worlds
<1>6. QED
  BY <1>4, <1>5 DEF step

LEMMA NoCostsApart == \A c \in Costs : c # NoCosts
<1> SUFFICES ASSUME NEW c \in Costs PROVE c # NoCosts
  OBVIOUS
<1>1. DOMAIN c = {"step", "graph", "landuse"}
  BY DEF Costs
<1>2. DOMAIN NoCosts = {"measured"}
  BY DEF NoCosts
<1>3. QED
  BY <1>1, <1>2

(* The costs of a world carry the step and the versions it keeps as tags.  *)
Tagged(w) ==
    w.costs # NoCosts =>
        w.lagged = w.costs.step /\ w.graphTag = w.costs.graph /\ w.landuseTag = w.costs.landuse

(* Costs and the step they were measured at: both or none, and how old.    *)
Measured(w) == (w.costs = NoCosts => w.lagged = -1) /\ (w.costs # NoCosts => w.lagged <= w.step)

LEMMA MediumTickKeeps ==
    ASSUME NEW w \in Worlds
    PROVE  LET v == MediumTick(w)
           IN  /\ v \in Worlds /\ Tagged(v) /\ Measured(v)
               /\ v.accessibility = w.accessibility + 1
               /\ v.step = w.step /\ v.graph = w.graph /\ v.landuse = w.landuse
               /\ v.growth = w.growth /\ v.stock = w.stock /\ v.queue = w.queue
<1> DEFINE measured == [step |-> w.step, graph |-> w.graph, landuse |-> w.landuse]
           next == w.accessibility + 1
           costs == IF HasZones THEN measured ELSE NoCosts
           lagged == IF HasZones THEN w.step ELSE -1
           v == MediumTick(w)
<1>1. v = [w EXCEPT !.accessibility = next, !.graphTag = w.graph, !.landuseTag = w.landuse,
                    !.costs = costs, !.lagged = lagged]
  BY Zenon DEF MediumTick
<1>2. measured \in Costs /\ measured # NoCosts
  <2>1. measured \in Costs
    BY DEF Worlds, Costs
  <2>2. QED
    BY <2>1, NoCostsApart
<1>3. /\ next \in Nat /\ costs \in Costs \cup {NoCosts} /\ lagged \in Nat \cup {-1}
      /\ costs = NoCosts => lagged = -1
      /\ costs # NoCosts => costs = measured /\ lagged = w.step
  BY <1>2 DEF Worlds
<1>4. w.step \in Nat /\ w.graph \in Nat /\ w.landuse \in Nat
  BY DEF Worlds
<1> HIDE DEF next, costs, lagged, v
<1>5. /\ v \in Worlds /\ v.accessibility = next /\ v.costs = costs /\ v.lagged = lagged
      /\ v.graphTag = w.graph /\ v.landuseTag = w.landuse
      /\ v.step = w.step /\ v.graph = w.graph /\ v.landuse = w.landuse
      /\ v.growth = w.growth /\ v.stock = w.stock /\ v.queue = w.queue
  BY <1>1, <1>3, <1>4, Zenon DEF Worlds
<1>6. Tagged(v) /\ Measured(v)
  BY <1>3, <1>4, <1>5 DEF Tagged, Measured
<1>7. QED
  BY <1>5, <1>6 DEF v, next

LEMMA SlowTickKeeps ==
    ASSUME NEW w \in Worlds, NEW before \in Worlds
    PROVE  LET v == SlowTick(w, before)
           IN  /\ v \in Worlds /\ v.costs = NoCosts /\ v.lagged = -1
               /\ v.landuse = w.landuse + 1 /\ v.growth = w.growth + 1
               /\ v.accessibility = w.accessibility + 1
               /\ v.step = w.step /\ v.graph = w.graph
               /\ v.stock = w.stock /\ v.queue = w.queue
<1> DEFINE landuse == w.landuse + 1
           growth == w.growth + 1
           accessibility == w.accessibility + 1
           v == SlowTick(w, before)
<1>1. v = [w EXCEPT !.landuse = landuse, !.growth = growth, !.accessibility = accessibility,
                    !.lagged = -1, !.costs = NoCosts,
                    !.graphTag = before.graphTag, !.landuseTag = before.landuseTag]
  BY Zenon DEF SlowTick
<1>2. /\ landuse \in Nat /\ growth \in Nat /\ accessibility \in Nat
      /\ before.graphTag \in Nat /\ before.landuseTag \in Nat
  BY DEF Worlds
<1> HIDE DEF landuse, growth, accessibility, v
<1>3. /\ v \in Worlds /\ v.costs = NoCosts /\ v.lagged = -1
      /\ v.landuse = landuse /\ v.growth = growth /\ v.accessibility = accessibility
      /\ v.step = w.step /\ v.graph = w.graph /\ v.stock = w.stock /\ v.queue = w.queue
  BY <1>1, <1>2, Zenon DEF Worlds
<1>4. QED
  BY <1>3 DEF landuse, growth, accessibility, v

(* What an admissible call makes of a world. *)
LEMMA AdvancedKeeps ==
    ASSUME NEW w \in Worlds, NEW s \in Schedules, NEW in \in Inputs,
           Tagged(w), Admissible(w, s, in)
    PROVE  LET v == Advanced(w, s, in)
           IN  /\ v \in Worlds /\ Tagged(v) /\ Valid(v)
               /\ v.graph = w.graph
               /\ \/ /\ v.accessibility = w.accessibility
                     /\ v.landuse = w.landuse /\ v.costs = w.costs /\ v.growth = w.growth
                  \/ /\ v.accessibility = w.accessibility + 1
                     /\ v.landuse = w.landuse /\ v.growth = w.growth
                  \/ /\ v.accessibility = w.accessibility + 1
                     /\ v.landuse = w.landuse + 1 /\ v.growth = w.growth + 1
                     /\ v.costs = NoCosts /\ SlowSnapshotOK(w)
<1> DEFINE due == Decision(w, s)
           measured == IF due.medium THEN MediumTick(w) ELSE w
           moved == IF due.fast THEN FastTick(measured, in) ELSE measured
<1>1. /\ Valid(w) /\ (due.medium => due.fast) /\ ~ (due.medium /\ due.slow)
      /\ (due.slow => SlowSnapshotOK(w))
  BY DEF Admissible
<1>2. Measured(w)
  BY <1>1 DEF Valid, Measured, Worlds
<1>3. /\ measured \in Worlds /\ Tagged(measured) /\ Measured(measured)
      /\ measured.step = w.step /\ measured.graph = w.graph /\ measured.landuse = w.landuse
      /\ measured.growth = w.growth /\ measured.stock = w.stock /\ measured.queue = w.queue
      /\ IF due.medium THEN measured.accessibility = w.accessibility + 1
         ELSE measured.accessibility = w.accessibility /\ measured.costs = w.costs
      /\ ~ due.medium => measured = w
  <2>1. CASE due.medium
    BY <2>1, MediumTickKeeps
  <2>2. CASE ~ due.medium
    BY <2>2, <1>2
  <2>3. QED
    BY <2>1, <2>2
<1> HIDE DEF measured
<1>4. /\ moved \in Worlds /\ Tagged(moved) /\ Valid(moved)
      /\ moved.graph = w.graph /\ moved.landuse = w.landuse /\ moved.growth = w.growth
      /\ moved.accessibility = measured.accessibility /\ moved.costs = measured.costs
  <2>1. CASE due.fast
    <3>1. /\ moved \in Worlds /\ moved.step = measured.step + 1
          /\ \A e \in Edges : moved.queue[e] <= moved.stock[e]
          /\ moved.graph = measured.graph /\ moved.landuse = measured.landuse
          /\ moved.costs = measured.costs /\ moved.accessibility = measured.accessibility
          /\ moved.growth = measured.growth /\ moved.lagged = measured.lagged
          /\ moved.graphTag = measured.graphTag /\ moved.landuseTag = measured.landuseTag
      BY <1>3, <2>1, FastTickKeeps
    <3> HIDE DEF moved
    <3>2. Tagged(moved)
      BY <1>3, <3>1 DEF Tagged
    <3>3. Valid(moved)
      BY <1>3, <3>1 DEF Valid, Measured, Worlds
    <3>4. QED
      BY <1>3, <3>1, <3>2, <3>3
  <2>2. CASE ~ due.fast
    <3>1. moved = w /\ measured = w
      BY <1>1, <1>3, <2>2
    <3>2. QED
      BY <1>1, <1>3, <3>1
  <2>3. QED
    BY <2>1, <2>2
<1>5. Advanced(w, s, in) = IF due.slow THEN SlowTick(moved, w) ELSE moved
  BY DEF Advanced, measured
<1> HIDE DEF moved
<1>6. CASE due.slow
  <2> DEFINE v == Advanced(w, s, in)
  <2>1. /\ v \in Worlds /\ v.costs = NoCosts /\ v.lagged = -1
        /\ v.landuse = w.landuse + 1 /\ v.growth = w.growth + 1
        /\ v.accessibility = moved.accessibility + 1
        /\ v.step = moved.step /\ v.graph = w.graph
        /\ v.stock = moved.stock /\ v.queue = moved.queue
    BY <1>4, <1>5, <1>6, SlowTickKeeps
  <2>2. ~ due.medium /\ moved.accessibility = w.accessibility
    BY <1>1, <1>3, <1>4, <1>6
  <2> HIDE DEF v
  <2>3. Tagged(v) /\ Valid(v)
    BY <1>4, <2>1 DEF Tagged, Valid
  <2>4. QED
    BY <1>1, <1>6, <2>1, <2>2, <2>3 DEF v
<1>7. CASE ~ due.slow
  BY <1>3, <1>4, <1>5, <1>7
<1>8. QED
  BY <1>6, <1>7

-----------------------------------------------------------------------------
(* The invariant in terms of Tagged. *)
LEMMA InvTagged ==
    WorldInv <=> /\ world \in Worlds /\ Tagged(world) /\ schedule \in Schedules
                 /\ outcome \in {"none", "returned", "raised"} /\ edits \in 0 .. MaxEdits
                 /\ AccessibilityCoversEdits
BY DEF WorldInv, WorldTypeOK, Tagged

(* The registry's maximum is the accessibility version once that covers    *)
(* the two others.                                                         *)
LEMMA RegistryIsAccessibility ==
    ASSUME NEW w \in Worlds, w.accessibility >= w.graph + w.landuse
    PROVE  RegistryVersion(w) = w.accessibility
BY DEF RegistryVersion, LargerOf, Worlds

LEMMA WorldInvInit == WorldInit => WorldInv
<1> SUFFICES ASSUME WorldInit PROVE WorldInv
  OBVIOUS
<1>1. PICK start \in Starts : world = EmptyWorld(start)
  BY DEF WorldInit
<1>2. start \in Nat
  BY WorldAssumption DEF WorldAssumption
<1>3. world \in Worlds /\ world.costs = NoCosts
  BY <1>1, <1>2 DEF EmptyWorld, Worlds
<1>4. world.accessibility = 0 /\ world.graph = 0 /\ world.landuse = 0
  BY <1>1 DEF EmptyWorld
<1>5. AccessibilityCoversEdits
  BY <1>3, <1>4, RegistryIsAccessibility DEF AccessibilityCoversEdits
<1>6. schedule \in Schedules /\ outcome = "none" /\ edits \in 0 .. MaxEdits
  BY WorldAssumption DEF WorldInit, WorldAssumption
<1>7. QED
  BY <1>3, <1>5, <1>6, InvTagged DEF Tagged

(* Of two successive worlds: what a call or an edit may change together.   *)
Counted ==
    \/ /\ world'.accessibility = world.accessibility
       /\ world'.graph = world.graph /\ world'.landuse = world.landuse
       /\ world'.costs = world.costs
    \/ /\ world'.accessibility = world.accessibility + 1
       /\ world'.graph + world'.landuse <= world.graph + world.landuse + 1

FedBack ==
    world'.growth # world.growth =>
        /\ world'.growth = world.growth + 1
        /\ SlowSnapshotOK(world)
        /\ world'.costs = NoCosts

LEMMA CallKeeps ==
    ASSUME WorldInv, NEW in \in Inputs, Call(in)
    PROVE  world' \in Worlds /\ Tagged(world') /\ Counted /\ FedBack
<1>1. world \in Worlds /\ Tagged(world) /\ schedule \in Schedules
  BY InvTagged
<1>2. CASE world' = world
  BY <1>1, <1>2 DEF Counted, FedBack
<1>3. CASE world' # world
  <2>1. Admissible(world, schedule, in) /\ world' = Advanced(world, schedule, in)
    BY <1>3 DEF Call, StepWorld
  <2>2. world.graph \in Nat /\ world.landuse \in Nat
    BY <1>1 DEF Worlds
  <2>3. QED
    BY <1>1, <2>1, <2>2, AdvancedKeeps DEF Counted, FedBack
<1>4. QED
  BY <1>2, <1>3

(* What the three bumps of a caller leave alone. *)
LEMMA EditKeeps ==
    ASSUME WorldInv, Edit
    PROVE  world' \in Worlds /\ Tagged(world') /\ Counted /\ FedBack
<1>1. world \in Worlds /\ Tagged(world)
  BY InvTagged
<1>2. world.graph \in Nat /\ world.landuse \in Nat /\ world.accessibility \in Nat /\ world.policy \in Nat
  BY <1>1 DEF Worlds
<1> DEFINE graph == world.graph + 1
           landuse == world.landuse + 1
           accessibility == world.accessibility + 1
           policy == world.policy + 1
<1>3. graph \in Nat /\ landuse \in Nat /\ accessibility \in Nat /\ policy \in Nat
  BY <1>2
<1>4. \/ world' = [world EXCEPT !.graph = graph, !.accessibility = accessibility]
      \/ world' = [world EXCEPT !.landuse = landuse, !.accessibility = accessibility]
      \/ world' = [world EXCEPT !.policy = policy]
  BY Zenon DEF Edit, GraphBump, LanduseBump, PolicyBump
<1> HIDE DEF graph, landuse, accessibility, policy
<1>5. /\ world' \in Worlds /\ world'.costs = world.costs /\ world'.growth = world.growth
      /\ world'.lagged = world.lagged /\ world'.graphTag = world.graphTag
      /\ world'.landuseTag = world.landuseTag
      /\ \/ /\ world'.accessibility = world.accessibility
            /\ world'.graph = world.graph /\ world'.landuse = world.landuse
         \/ /\ world'.accessibility = accessibility
            /\ world'.graph = graph /\ world'.landuse = world.landuse
         \/ /\ world'.accessibility = accessibility
            /\ world'.graph = world.graph /\ world'.landuse = landuse
  <2>1. CASE world' = [world EXCEPT !.graph = graph, !.accessibility = accessibility]
    BY <1>1, <1>3, <2>1, Zenon DEF Worlds
  <2>2. CASE world' = [world EXCEPT !.landuse = landuse, !.accessibility = accessibility]
    BY <1>1, <1>3, <2>2, Zenon DEF Worlds
  <2>3. CASE world' = [world EXCEPT !.policy = policy]
    BY <1>1, <1>3, <2>3, Zenon DEF Worlds
  <2>4. QED
    BY <1>4, <2>1, <2>2, <2>3
<1>6. Tagged(world') /\ FedBack
  BY <1>1, <1>5 DEF Tagged, FedBack
<1>7. Counted
  BY <1>2, <1>5 DEF Counted, graph, landuse, accessibility
<1>8. QED
  BY <1>5, <1>6, <1>7

LEMMA WorldStepKeeps ==
    ASSUME WorldInv, WorldNext
    PROVE  WorldInv' /\ Counted /\ FedBack
<1>1. world' \in Worlds /\ Tagged(world') /\ Counted /\ FedBack
  BY CallKeeps, EditKeeps DEF WorldNext, StepCall
<1>2. schedule' \in Schedules /\ outcome' \in {"none", "returned", "raised"} /\ edits' \in 0 .. MaxEdits
  <2>1. CASE StepCall
    BY <2>1, InvTagged DEF StepCall, Call
  <2>2. CASE Edit
    BY <2>2, InvTagged, WorldAssumption DEF Edit, WorldAssumption
  <2>3. QED
    BY <2>1, <2>2 DEF WorldNext
<1>3. world'.accessibility >= world'.graph + world'.landuse
  <2>1. /\ world.graph \in Nat /\ world.landuse \in Nat /\ world.accessibility \in Nat
        /\ world'.graph \in Nat /\ world'.landuse \in Nat
        /\ world.accessibility >= world.graph + world.landuse
    BY <1>1, InvTagged DEF Worlds, AccessibilityCoversEdits
  <2>2. QED
    BY <1>1, <2>1 DEF Counted
<1>4. AccessibilityCoversEdits'
  BY <1>1, <1>3, RegistryIsAccessibility DEF AccessibilityCoversEdits
<1>5. WorldInv'
  BY <1>1, <1>2, <1>4 DEF WorldInv, WorldTypeOK, Tagged
<1>6. QED
  BY <1>1, <1>5

-----------------------------------------------------------------------------
(* The versions: what was measured is named by its tags, and no edit or    *)
(* feedback outruns the accessibility version.                             *)
THEOREM WorldInvariant == WorldSpec => []WorldInv
<1>1. WorldInv /\ [WorldNext]_worldVars => WorldInv'
  <2> SUFFICES ASSUME WorldInv, [WorldNext]_worldVars PROVE WorldInv'
    OBVIOUS
  <2>1. CASE WorldNext
    BY <2>1, WorldStepKeeps
  <2>2. CASE UNCHANGED worldVars
    BY <2>2 DEF worldVars, WorldInv, WorldTypeOK, AccessibilityCoversEdits, RegistryVersion
  <2>3. QED
    BY <2>1, <2>2
<1>2. QED
  BY <1>1, WorldInvInit, PTL DEF WorldSpec

(* The contract: no call that passes the checks made before it computes    *)
(* fails the contract checked after.                                       *)
THEOREM ContractAlwaysSurvives == WorldSpec => []ContractSurvivesCalls
<1>1. WorldInv => ContractSurvivesCalls
  BY InvTagged, AdvancedKeeps DEF ContractSurvivesCalls
<1>2. QED
  BY <1>1, WorldInvariant, PTL

(* The registry: what accessibility is computed from never changes under   *)
(* one registry version.                                                   *)
THEOREM RegistryAlwaysNotices == WorldSpec => RegistryNoticesChange
<1>1. ASSUME WorldInv, WorldNext,
             <<world'.graph, world'.landuse, world'.costs>> # <<world.graph, world.landuse, world.costs>>
      PROVE  RegistryVersion(world') > RegistryVersion(world)
  <2>1. WorldInv' /\ Counted
    BY <1>1, WorldStepKeeps
  <2>2. world'.accessibility = world.accessibility + 1 /\ world.accessibility \in Nat
    BY <1>1, <2>1, InvTagged DEF Counted, Worlds
  <2>3. RegistryVersion(world') = world'.accessibility
    BY <2>1 DEF WorldInv, AccessibilityCoversEdits
  <2>4. RegistryVersion(world) = world.accessibility
    BY <1>1 DEF WorldInv, AccessibilityCoversEdits
  <2>5. QED
    BY <2>2, <2>3, <2>4
<1>2. QED
  BY <1>1, WorldInvariant, PTL DEF WorldSpec, RegistryNoticesChange

(* Feedback: land use grows once per measurement, and only from one of an  *)
(* earlier step under the present graph and land use.                      *)
THEOREM FeedbackAlwaysLagged == WorldSpec => FeedbackIsLaggedAndCurrent
<1>1. ASSUME WorldInv, WorldNext, world'.growth # world.growth
      PROVE  /\ world'.growth = world.growth + 1
             /\ world.costs \in Costs
             /\ world.costs.step < world.step
             /\ world.costs.graph = world.graph /\ world.costs.landuse = world.landuse
             /\ world'.costs = NoCosts
  <2>1. FedBack
    BY <1>1, WorldStepKeeps
  <2>2. world \in Worlds /\ Tagged(world)
    BY <1>1, InvTagged
  <2>3. world.costs \in Costs
    BY <1>1, <2>1, <2>2 DEF FedBack, SlowSnapshotOK, Worlds
  <2>4. QED
    BY <1>1, <2>1, <2>2, <2>3 DEF FedBack, SlowSnapshotOK, Tagged
<1>2. QED
  BY <1>1, WorldInvariant, PTL DEF WorldSpec, FeedbackIsLaggedAndCurrent

(* The theorems above hold for a run that is recorded.                     *)
LEMMA RecordedRunIsRun == ReplaySpec => WorldSpec
<1>1. ReplayInit => WorldInit
  BY DEF ReplayInit
<1>2. [ReplayNext]_vars => [WorldNext]_worldVars
  BY DEF ReplayNext, StartRecording, CallOnce, RecordedCall, RecordedEdit, StopRecording,
     WorldNext, StepCall, vars
<1>3. QED
  BY <1>1, <1>2, PTL DEF ReplaySpec, WorldSpec

-----------------------------------------------------------------------------
(* WorldReplay: an accepted replay ends where the recording ended.         *)

\* One more recorded input: a replay that has raised stays so.
ReplayStep(current, s, in) == IF current = Raised THEN Raised ELSE StepWorld(current, s, in)

\* The recursion behind the library's fold over a sequence: the latest input comes last.
LatestStep(w, s, inputs, g, T) ==
    IF T = {} THEN w ELSE ReplayStep(g[T \ {Max(T)}], s, inputs[Max(T)])
Replays(w, s, inputs) ==
    CHOOSE g : g = [T \in SUBSET DOMAIN inputs |-> LatestStep(w, s, inputs, g, T)]

LEMMA ReplayIsFold ==
  ASSUME NEW w, NEW s, NEW inputs
  PROVE  Replayed(w, s, inputs) = Replays(w, s, inputs)[DOMAIN inputs]
BY DEF Replayed, Replays, LatestStep, ReplayStep, FoldLeft, MapThenFoldSet

\* A set of positions has a latest, and is smaller without it.
LEMMA LatestRemoved ==
  ASSUME NEW D, IsFiniteSet(D), D \subseteq Nat, NEW T \in SUBSET D, T # {}
  PROVE  /\ Max(T) \in T /\ \A i \in T : i <= Max(T)
         /\ T \ {Max(T)} \in SUBSET D
         /\ Cardinality(T) \in Nat
         /\ Cardinality(T \ {Max(T)}) = Cardinality(T) - 1
<1>1. IsFiniteSet(T) /\ Cardinality(T) \in Nat
  BY FS_Subset, FS_CardinalityType
<1> DEFINE f == [i \in T |-> i]
<1>2. \A i \in T : i \in Nat /\ f[i] \in Int /\ f[i] = i
  OBVIOUS
<1>3. PICK a \in T : \A i \in T : f[a] >= f[i]
  <2> HIDE DEF f
  <2> QED BY <1>1, <1>2, GreatestExists
<1>4. \A i \in T : a >= i
  BY <1>2, <1>3
<1>5. Max(T) \in T /\ \A i \in T : Max(T) >= i
  BY <1>4 DEF Max
<1>6. \A i \in T : i <= Max(T)
  BY <1>5
<1> QED BY <1>1, <1>5, <1>6, FS_RemoveElement

LEMMA ReplaysExist ==
  ASSUME NEW w, NEW s, NEW inputs, IsFiniteSet(DOMAIN inputs), DOMAIN inputs \subseteq Nat
  PROVE  \A T \in SUBSET DOMAIN inputs :
            Replays(w, s, inputs)[T] = LatestStep(w, s, inputs, Replays(w, s, inputs), T)
<1>0. PICK D : D = DOMAIN inputs /\ IsFiniteSet(D) /\ D \subseteq Nat
  OBVIOUS
<1> DEFINE upTo(k) == {T \in SUBSET D : Cardinality(T) <= k}
           solves(g, k) == g = [T \in upTo(k) |-> LatestStep(w, s, inputs, g, T)]
           unsolved == {k \in Nat : ~ \E g : solves(g, k)}
<1>1. \A T \in SUBSET D : IsFiniteSet(T) /\ Cardinality(T) \in Nat
  BY <1>0, FS_Subset, FS_CardinalityType
<1>2. unsolved = {}
  <2> SUFFICES ASSUME unsolved # {} PROVE FALSE
    OBVIOUS
  <2>1. PICK k \in unsolved : \A m \in unsolved : k <= m
    BY LeastExists
  <2>2. k # 0
    <3>1. solves([T \in upTo(0) |-> w], 0)
      <4>1. \A T \in upTo(0) : T = {}
        BY <1>1, FS_EmptySet
      <4> QED BY <4>1 DEF LatestStep
    <3>2. 0 \notin unsolved
      <4> HIDE DEF solves
      <4> QED BY <3>1
    <3> HIDE DEF unsolved
    <3> QED BY <2>1, <3>2
  <2>3. k - 1 \in Nat /\ k - 1 \notin unsolved
    <3>1. k \in Nat
      OBVIOUS
    <3> HIDE DEF unsolved
    <3> QED BY <2>1, <2>2, <3>1
  <2>4. PICK g : solves(g, k - 1)
    BY <2>3
  <2> DEFINE h == [T \in upTo(k) |-> LatestStep(w, s, inputs, g, T)]
  <2>5. ASSUME NEW T \in upTo(k)
        PROVE  LatestStep(w, s, inputs, g, T) = LatestStep(w, s, inputs, h, T)
    <3>1. CASE T = {}
      BY <3>1 DEF LatestStep
    <3>2. CASE T # {}
      <4> DEFINE rest == T \ {Max(T)}
      <4>1. rest \in upTo(k - 1) /\ rest \in upTo(k)
        <5>1. k \in Nat
          OBVIOUS
        <5>2. T \in SUBSET D /\ Cardinality(T) <= k
          OBVIOUS
        <5>3. rest \in SUBSET D /\ Cardinality(T) \in Nat /\ Cardinality(rest) = Cardinality(T) - 1
          <6> HIDE DEF upTo, unsolved
          <6> QED BY <1>0, <5>2, <3>2, LatestRemoved
        <5>4. Cardinality(rest) <= k - 1 /\ Cardinality(rest) <= k
          BY <5>1, <5>2, <5>3
        <5> QED BY <5>3, <5>4
      <4>2. g[rest] = LatestStep(w, s, inputs, g, rest) /\ h[rest] = LatestStep(w, s, inputs, g, rest)
        BY <2>4, <4>1
      <4> QED BY <3>2, <4>2 DEF LatestStep
    <3> QED BY <3>1, <3>2
  <2>6. solves(h, k)
    BY <2>5
  <2> QED BY <2>1, <2>6
<1>3. upTo(Cardinality(D)) = SUBSET D
  BY <1>0, <1>1, FS_Subset
<1>4. Cardinality(D) \in Nat
  BY <1>0, FS_CardinalityType
<1>5. PICK g : solves(g, Cardinality(D))
  BY <1>2, <1>4
<1>6. g = [T \in SUBSET D |-> LatestStep(w, s, inputs, g, T)]
  <2> HIDE DEF upTo
  <2> QED BY <1>3, <1>5
<1>7. g = [T \in SUBSET DOMAIN inputs |-> LatestStep(w, s, inputs, g, T)]
  BY <1>0, <1>6
<1>8. Replays(w, s, inputs)
        = [T \in SUBSET DOMAIN inputs |-> LatestStep(w, s, inputs, Replays(w, s, inputs), T)]
  BY <1>7 DEF Replays
<1> DEFINE all == Replays(w, s, inputs)
<1> HIDE DEF all
<1>9. all = [T \in SUBSET D |-> LatestStep(w, s, inputs, all, T)]
  BY <1>0, <1>8 DEF all
<1>10. \A T \in SUBSET D : all[T] = LatestStep(w, s, inputs, all, T)
  BY <1>9
<1> QED BY <1>0, <1>10 DEF all

\* Of two sequences, one going on where the other ends, the replays agree.
LEMMA ReplayLonger ==
  ASSUME NEW w, NEW s, NEW inputs, NEW longer, NEW end,
         IsFiniteSet(DOMAIN inputs), DOMAIN inputs \subseteq Nat, end \in Nat,
         DOMAIN longer = DOMAIN inputs \cup {end},
         \A i \in DOMAIN inputs : longer[i] = inputs[i] /\ i < end
  PROVE  Replays(w, s, longer)[DOMAIN longer]
           = ReplayStep(Replays(w, s, inputs)[DOMAIN inputs], s, longer[end])
<1> DEFINE D == DOMAIN inputs
           E == DOMAIN longer
           a == Replays(w, s, inputs)
           b == Replays(w, s, longer)
           bad == {T \in SUBSET D : a[T] # b[T]}
<1>1. /\ IsFiniteSet(D) /\ IsFiniteSet(E) /\ D \subseteq Nat /\ E \subseteq Nat
      /\ D \subseteq E /\ end \in E /\ E \ {end} = D
  <2>1. IsFiniteSet(D) /\ D \subseteq Nat /\ E = D \cup {end} /\ end \in Nat
    OBVIOUS
  <2>2. end \notin D
    OBVIOUS
  <2> HIDE DEF D, E
  <2>3. IsFiniteSet(E)
    BY <2>1, FS_AddElement
  <2> QED BY <2>1, <2>2, <2>3
<1>2. /\ \A T \in SUBSET D : a[T] = LatestStep(w, s, inputs, a, T)
      /\ \A T \in SUBSET E : b[T] = LatestStep(w, s, longer, b, T)
  BY <1>1, ReplaysExist
<1>3. \A i \in D : longer[i] = inputs[i] /\ i < end
  OBVIOUS
<1>4. \A i \in E : i <= end
  BY <1>3
<1> HIDE DEF a, b, D, E
<1>5. bad = {}
  <2> SUFFICES ASSUME bad # {} PROVE FALSE
    OBVIOUS
  <2>1. PICK U \in bad : \A V \in bad : Cardinality(U) <= Cardinality(V)
    <3>1. bad \subseteq SUBSET D
      OBVIOUS
    <3> HIDE DEF bad
    <3>2. IsFiniteSet(D)
      BY <1>1
    <3> QED BY <3>1, <3>2, SmallestExists
  <2>2. a[U] = LatestStep(w, s, inputs, a, U) /\ b[U] = LatestStep(w, s, longer, b, U)
    BY <1>1, <1>2
  <2>3. U # {}
    BY <2>2 DEF LatestStep
  <2> DEFINE rest == U \ {Max(U)}
  <2>4. /\ Max(U) \in U /\ rest \in SUBSET D /\ Cardinality(U) \in Nat
        /\ Cardinality(rest) = Cardinality(U) - 1
    BY <1>1, <2>3, LatestRemoved
  <2>5. rest \notin bad
    <3> HIDE DEF bad, rest
    <3> QED BY <2>1, <2>4
  <2>6. a[rest] = b[rest]
    BY <2>4, <2>5
  <2>7. longer[Max(U)] = inputs[Max(U)]
    BY <1>3, <2>4
  <2> QED BY <2>2, <2>3, <2>6, <2>7 DEF LatestStep
<1>6. a[D] = b[D]
  BY <1>5
<1>7. Max(E) = end
  <2>1. Max(E) \in E /\ end <= Max(E)
    BY <1>1, LatestRemoved
  <2>2. Max(E) <= end /\ Max(E) \in Nat /\ end \in Nat
    BY <1>1, <1>4, <2>1
  <2> QED BY <2>1, <2>2
<1>8. b[E] = ReplayStep(b[D], s, longer[end])
  <2>1. b[E] = LatestStep(w, s, longer, b, E) /\ E # {}
    BY <1>1, <1>2
  <2> QED BY <2>1, <1>1, <1>7 DEF LatestStep
<1> QED BY <1>6, <1>8 DEF a, b, D, E

\* A replay of one input more goes on from the replay without it.
LEMMA ReplayAppend ==
  ASSUME NEW w, NEW s, NEW S, NEW inputs \in Seq(S), NEW in \in S
  PROVE  Replayed(w, s, Append(inputs, in)) = ReplayStep(Replayed(w, s, inputs), s, in)
<1>1. PICK longer : longer = Append(inputs, in)
  OBVIOUS
<1>2. PICK end : end = Len(inputs) + 1
  OBVIOUS
<1>3. /\ DOMAIN inputs = 1 .. Len(inputs) /\ Len(inputs) \in Nat /\ end \in Nat
      /\ DOMAIN longer = 1 .. end /\ longer[end] = in
      /\ \A i \in DOMAIN inputs : longer[i] = inputs[i] /\ i < end
  BY <1>1, <1>2
<1>4. DOMAIN longer = DOMAIN inputs \cup {end} /\ DOMAIN inputs \subseteq Nat
  BY <1>2, <1>3
<1>5. IsFiniteSet(DOMAIN inputs)
  <2>1. PICK n \in Nat : n = Len(inputs)
    BY <1>3
  <2>2. IsFiniteSet(1 .. n)
    BY FS_Interval
  <2> QED BY <1>3, <2>1, <2>2
<1>6. Replays(w, s, longer)[DOMAIN longer]
        = ReplayStep(Replays(w, s, inputs)[DOMAIN inputs], s, longer[end])
  <2>1. end \in Nat
    BY <1>3
  <2>2. \A i \in DOMAIN inputs : longer[i] = inputs[i] /\ i < end
    BY <1>3
  <2> QED BY <1>4, <1>5, <2>1, <2>2, ReplayLonger
<1> QED BY <1>1, <1>3, <1>6, ReplayIsFold

LEMMA ReplayNothing == ASSUME NEW w, NEW s PROVE Replayed(w, s, <<>>) = w
<1>1. PICK none : none = <<>>
  OBVIOUS
<1>2. DOMAIN none = {}
  BY <1>1
<1>3. IsFiniteSet({})
  BY FS_EmptySet
<1>4. \A T \in SUBSET DOMAIN none :
        Replays(w, s, none)[T] = LatestStep(w, s, none, Replays(w, s, none), T)
  BY <1>2, <1>3, ReplaysExist
<1>5. Replays(w, s, none)[{}] = w
  BY <1>2, <1>4 DEF LatestStep
<1> QED BY <1>1, <1>2, <1>5, ReplayIsFold

-----------------------------------------------------------------------------
(* Steps and versions tell the worlds of a run apart.                      *)
Versions(w) == w.step + w.graph + w.landuse + w.accessibility + w.policy
Later(v, w) ==
    /\ v.step >= w.step /\ v.graph >= w.graph /\ v.landuse >= w.landuse
    /\ v.accessibility >= w.accessibility /\ v.policy >= w.policy
    /\ Versions(v) > Versions(w)

LEMMA LaterApart ==
  ASSUME NEW v \in Worlds, NEW w \in Worlds, Later(v, w)
  PROVE  Boundary(v) # Boundary(w)
<1>1. \A x \in Worlds : /\ Boundary(x).step = x.step /\ Boundary(x).graph = x.graph
                        /\ Boundary(x).landuse = x.landuse
                        /\ Boundary(x).accessibility = x.accessibility
                        /\ Boundary(x).policy = x.policy
  BY DEF Boundary
<1>2. Versions(v) \in Nat /\ Versions(w) \in Nat
  BY DEF Versions, Worlds
<1>3. SUFFICES ASSUME Boundary(v) = Boundary(w) PROVE FALSE
  OBVIOUS
<1>4. /\ v.step = w.step /\ v.graph = w.graph /\ v.landuse = w.landuse
      /\ v.accessibility = w.accessibility /\ v.policy = w.policy
  BY <1>1, <1>3
<1>5. Versions(v) = Versions(w)
  BY <1>4 DEF Versions
<1> QED BY <1>2, <1>5 DEF Later

LEMMA LaterChain ==
  ASSUME NEW u \in Worlds, NEW v \in Worlds, NEW w \in Worlds, Later(u, v), Later(v, w)
  PROVE  Later(u, w)
<1>1. Versions(u) \in Nat /\ Versions(v) \in Nat /\ Versions(w) \in Nat
  BY DEF Versions, Worlds
<1>2. \A x \in {u, v, w} : /\ x.step \in Nat /\ x.graph \in Nat /\ x.landuse \in Nat
                           /\ x.accessibility \in Nat /\ x.policy \in Nat
  BY DEF Worlds
<1> QED BY <1>1, <1>2 DEF Later

\* A call that changes the world advances the step or the land use.
LEMMA AdvancedLater ==
  ASSUME NEW w \in Worlds, NEW s \in Schedules, NEW in \in Inputs, Admissible(w, s, in)
  PROVE  Advanced(w, s, in) = w \/ Later(Advanced(w, s, in), w)
<1> DEFINE due == Decision(w, s)
           measured == IF due.medium THEN MediumTick(w) ELSE w
           moved == IF due.fast THEN FastTick(measured, in) ELSE measured
           v == Advanced(w, s, in)
<1>1. due.medium => due.fast
  BY DEF Admissible
<1>2. \A x \in Worlds : MediumTick(x).policy = x.policy
  BY Zenon DEF MediumTick, Worlds
<1>3. \A x \in Worlds : FastTick(x, in).policy = x.policy
  BY Zenon DEF FastTick, Worlds
<1>4. \A x \in Worlds : SlowTick(x, w).policy = x.policy
  BY Zenon DEF SlowTick, Worlds
<1>5. /\ measured \in Worlds
      /\ measured.step = w.step /\ measured.graph = w.graph /\ measured.landuse = w.landuse
      /\ measured.policy = w.policy /\ measured.accessibility \in {w.accessibility, w.accessibility + 1}
  BY <1>2, MediumTickKeeps
<1>6. ~ due.fast => measured = w
  BY <1>1
<1> HIDE DEF measured
<1>7. /\ moved \in Worlds
      /\ moved.step \in {w.step, w.step + 1} /\ moved.graph = w.graph /\ moved.landuse = w.landuse
      /\ moved.policy = w.policy /\ moved.accessibility \in {w.accessibility, w.accessibility + 1}
      /\ moved = w \/ moved.step = w.step + 1
  BY <1>3, <1>5, <1>6, FastTickKeeps
<1>8. v = IF due.slow THEN SlowTick(moved, w) ELSE moved
  BY DEF Advanced, measured
<1> HIDE DEF moved, v, due
<1>9. /\ v.step \in {w.step, w.step + 1} /\ v.graph = w.graph /\ v.policy = w.policy
      /\ v.landuse \in {w.landuse, w.landuse + 1}
      /\ v.accessibility \in {w.accessibility, w.accessibility + 1, w.accessibility + 2}
      /\ v = w \/ v.step = w.step + 1 \/ v.landuse = w.landuse + 1
  <2>1. CASE due.slow
    <3>1. /\ v.step = moved.step /\ v.graph = moved.graph /\ v.landuse = moved.landuse + 1
          /\ v.accessibility = moved.accessibility + 1 /\ v.policy = moved.policy
      BY <1>4, <1>7, <1>8, <2>1, SlowTickKeeps
    <3>2. moved.accessibility \in Nat /\ w.accessibility \in Nat
      BY <1>7 DEF Worlds
    <3> QED BY <3>1, <3>2, <1>7
  <2>2. CASE ~ due.slow
    BY <2>2, <1>7, <1>8
  <2> QED BY <2>1, <2>2
<1>10. /\ w.step \in Nat /\ w.graph \in Nat /\ w.landuse \in Nat
       /\ w.accessibility \in Nat /\ w.policy \in Nat
  BY DEF Worlds
<1>11. v = w \/ Later(v, w)
  BY <1>9, <1>10 DEF Later, Versions
<1> QED BY <1>11 DEF v

LEMMA EditLater ==
  ASSUME NEW w \in Worlds, NEW v \in {GraphBump(w), LanduseBump(w), PolicyBump(w)}
  PROVE  Later(v, w)
<1>1. /\ w.step \in Nat /\ w.graph \in Nat /\ w.landuse \in Nat
      /\ w.accessibility \in Nat /\ w.policy \in Nat
  BY DEF Worlds
<1>2. \/ /\ v.graph = w.graph + 1 /\ v.accessibility = w.accessibility + 1
         /\ v.step = w.step /\ v.landuse = w.landuse /\ v.policy = w.policy
      \/ /\ v.landuse = w.landuse + 1 /\ v.accessibility = w.accessibility + 1
         /\ v.step = w.step /\ v.graph = w.graph /\ v.policy = w.policy
      \/ /\ v.policy = w.policy + 1 /\ v.accessibility = w.accessibility
         /\ v.step = w.step /\ v.graph = w.graph /\ v.landuse = w.landuse
  BY Zenon DEF GraphBump, LanduseBump, PolicyBump, Worlds
<1> QED BY <1>1, <1>2 DEF Later, Versions

LEMMA RaisedApart == \A w \in Worlds : w # Raised
<1> SUFFICES ASSUME NEW w \in Worlds PROVE w # Raised
  OBVIOUS
<1>1. "step" \in DOMAIN w
  BY DEF Worlds
<1>2. DOMAIN Raised = {"raised"}
  BY DEF Raised
<1> QED BY <1>1, <1>2

-----------------------------------------------------------------------------
\* What a recording is, and that it replays the run from the world w it began with.
Recordings == [open : BOOLEAN, boundary : {Boundary(w) : w \in Worlds},
               inputs : Seq(Inputs), final : Worlds]

RecordedFrom(w) ==
    /\ Boundary(w) = recording.boundary
    /\ Replayed(w, schedule, recording.inputs) = recording.final
    /\ recording.open => recording.final = world
    /\ world = w \/ Later(world, w)

RecordingInv ==
    /\ recording \in Recordings \cup {NoRecording}
    /\ recording \in Recordings => \E w \in Worlds : RecordedFrom(w)

\* Calls and edits only go on: a world is the one before or a later one.
LEMMA CallGoesOn ==
  ASSUME WorldInv, NEW in \in Inputs, Call(in)
  PROVE  /\ world' \in Worlds /\ schedule' = schedule
         /\ world' = world \/ Later(world', world)
         /\ outcome' = "returned" => world' = StepWorld(world, schedule, in)
         /\ outcome' # "returned" => world' = world
<1>1. world \in Worlds /\ schedule \in Schedules /\ world' \in Worlds
  BY InvTagged, CallKeeps
<1> DEFINE after == StepWorld(world, schedule, in)
<1>2. /\ world' = IF after = Raised THEN world ELSE after
      /\ outcome' = IF after = Raised THEN "raised" ELSE "returned"
      /\ schedule' = schedule
  BY DEF Call
<1>3. after # Raised => Admissible(world, schedule, in) /\ after = Advanced(world, schedule, in)
  BY DEF StepWorld
<1> HIDE DEF after
<1>4. world' = world \/ Later(world', world)
  <2>1. CASE after = Raised
    BY <2>1, <1>2
  <2>2. CASE after # Raised
    BY <2>2, <1>1, <1>2, <1>3, AdvancedLater
  <2> QED BY <2>1, <2>2
<1>5. /\ outcome' = "returned" => world' = after
      /\ outcome' # "returned" => world' = world
  BY <1>2
<1> QED BY <1>1, <1>2, <1>4, <1>5 DEF after

LEMMA EditGoesOn ==
  ASSUME WorldInv, Edit
  PROVE  world' \in Worlds /\ schedule' = schedule /\ Later(world', world)
<1>1. world \in Worlds /\ world' \in Worlds
  BY InvTagged, EditKeeps
<1>2. world' \in {GraphBump(world), LanduseBump(world), PolicyBump(world)} /\ schedule' = schedule
  BY DEF Edit
<1> QED BY <1>1, <1>2, EditLater

LEMMA NoRecordingApart == NoRecording \notin Recordings /\ NoRecording.open = FALSE
<1>1. DOMAIN NoRecording = {"open"} /\ NoRecording.open = FALSE
  BY DEF NoRecording
<1>2. \A r \in Recordings : "final" \in DOMAIN r
  BY DEF Recordings
<1> QED BY <1>1, <1>2

\* A recording that is closed keeps what it recorded, wherever the world goes on to.
LEMMA ClosedKeeps ==
  ASSUME WorldInv, RecordingInv, schedule' = schedule, world' \in Worlds,
         world' = world \/ Later(world', world),
         recording' = [recording EXCEPT !.open = FALSE]
           \/ (recording' = recording /\ (recording.open => world' = world))
  PROVE  RecordingInv'
<1>1. CASE recording = NoRecording
  <2>1. recording' = NoRecording
    BY <1>1 DEF NoRecording
  <2> QED BY <2>1, NoRecordingApart DEF RecordingInv
<1>2. CASE recording \in Recordings
  <2>1. PICK w \in Worlds : RecordedFrom(w)
    BY <1>2 DEF RecordingInv
  <2>2. world \in Worlds
    BY InvTagged
  <2>3. /\ recording' \in Recordings /\ recording'.boundary = recording.boundary
        /\ recording'.inputs = recording.inputs /\ recording'.final = recording.final
        /\ recording'.open => recording.open /\ world' = world
    <3>1. CASE recording' = [recording EXCEPT !.open = FALSE]
      BY <1>2, <3>1, Zenon DEF Recordings
    <3>2. CASE recording' = recording /\ (recording.open => world' = world)
      BY <1>2, <3>2
    <3> QED BY <3>1, <3>2
  <2>4. world' = w \/ Later(world', w)
    <3>1. CASE world = w
      BY <3>1
    <3>2. CASE Later(world, w)
      BY <2>2, <3>2, LaterChain
    <3> QED BY <2>1, <3>1, <3>2 DEF RecordedFrom
  <2>5. RecordedFrom(w)'
    BY <2>1, <2>3, <2>4 DEF RecordedFrom
  <2> QED BY <2>3, <2>5 DEF RecordingInv
<1> QED BY <1>1, <1>2 DEF RecordingInv

\* A recorded call adds one input, and the replay one step.
LEMMA RecordedKeeps ==
  ASSUME WorldInv, RecordingInv, NEW in \in Inputs, Call(in), recording.open,
         outcome' = "returned",
         recording' = [recording EXCEPT !.inputs = Append(@, in), !.final = world']
  PROVE  RecordingInv'
<1>1. recording \in Recordings
  BY NoRecordingApart DEF RecordingInv
<1>2. PICK w \in Worlds : RecordedFrom(w)
  BY <1>1 DEF RecordingInv
<1>3. /\ world' \in Worlds /\ schedule' = schedule
      /\ world' = world \/ Later(world', world)
      /\ world' = StepWorld(world, schedule, in)
  BY CallGoesOn
<1>4. PICK longer : longer = Append(recording.inputs, in)
  OBVIOUS
<1>5. recording.inputs \in Seq(Inputs)
  BY <1>1 DEF Recordings
<1>6. longer \in Seq(Inputs)
  BY <1>4, <1>5
<1>7. recording' = [recording EXCEPT !.inputs = longer, !.final = world']
  BY <1>4
<1>8. /\ recording' \in Recordings /\ recording'.boundary = recording.boundary
      /\ recording'.inputs = longer /\ recording'.final = world'
  BY <1>1, <1>3, <1>6, <1>7, Zenon DEF Recordings
<1>9. Replayed(w, schedule, longer) = ReplayStep(Replayed(w, schedule, recording.inputs), schedule, in)
  BY <1>4, <1>5, ReplayAppend
<1>10. Replayed(w, schedule, recording.inputs) = world /\ world \in Worlds
  BY <1>2, InvTagged DEF RecordedFrom
<1>11. Replayed(w, schedule, longer) = world'
  BY <1>3, <1>9, <1>10, RaisedApart DEF ReplayStep
<1>12. world' = w \/ Later(world', w)
  <2>1. CASE world = w
    BY <2>1, <1>3
  <2>2. CASE Later(world, w)
    BY <1>3, <1>10, <2>2, LaterChain
  <2> QED BY <1>2, <2>1, <2>2 DEF RecordedFrom
<1>13. RecordedFrom(w)'
  BY <1>2, <1>3, <1>8, <1>11, <1>12 DEF RecordedFrom
<1> QED BY <1>8, <1>13 DEF RecordingInv

LEMMA StartKeepsRecording ==
  ASSUME WorldInv, RecordingInv, StartRecording
  PROVE  RecordingInv'
<1>1. /\ recording' = [open |-> TRUE, boundary |-> Boundary(world), inputs |-> <<>>, final |-> world]
      /\ world' = world /\ schedule' = schedule
  BY DEF StartRecording, worldVars
<1>2. world \in Worlds
  BY InvTagged
<1>3. <<>> \in Seq(Inputs)
  OBVIOUS
<1>4. recording' \in Recordings
  BY <1>1, <1>2, <1>3 DEF Recordings
<1>5. /\ recording'.boundary = Boundary(world) /\ recording'.inputs = <<>>
      /\ recording'.final = world
  BY <1>1
<1>6. Replayed(world, schedule, <<>>) = world
  BY ReplayNothing
<1>7. PICK w \in Worlds : w = world
  BY <1>2
<1>8. RecordedFrom(w)'
  BY <1>1, <1>5, <1>6, <1>7 DEF RecordedFrom
<1> QED BY <1>4, <1>8 DEF RecordingInv

LEMMA ReplayStepKeeps ==
  ASSUME WorldInv, RecordingInv, [ReplayNext]_vars
  PROVE  RecordingInv'
<1>1. CASE StartRecording
  BY <1>1, StartKeepsRecording
<1>2. ASSUME NEW in \in Inputs, RecordedCall(in) PROVE RecordingInv'
  <2>1. Call(in)
    BY <1>2 DEF RecordedCall
  <2>2. /\ world' \in Worlds /\ schedule' = schedule
        /\ world' = world \/ Later(world', world)
        /\ outcome' # "returned" => world' = world
    BY <2>1, CallGoesOn
  <2>3. CASE recording.open /\ Len(recording.inputs) = MaxRecorded
    <3>1. recording' = [recording EXCEPT !.open = FALSE]
      BY <1>2, <2>3 DEF RecordedCall
    <3> QED BY <2>2, <3>1, ClosedKeeps
  <2>4. CASE ~(recording.open /\ Len(recording.inputs) = MaxRecorded)
    <3>1. CASE recording.open /\ outcome' = "returned"
      <4>1. recording' = [recording EXCEPT !.inputs = Append(@, in), !.final = world']
        BY <1>2, <2>4, <3>1 DEF RecordedCall
      <4> QED BY <2>1, <3>1, <4>1, RecordedKeeps
    <3>2. CASE ~(recording.open /\ outcome' = "returned")
      <4>1. recording' = recording
        BY <1>2, <2>4, <3>2 DEF RecordedCall
      <4> QED BY <2>2, <3>2, <4>1, ClosedKeeps
    <3> QED BY <3>1, <3>2
  <2> QED BY <2>3, <2>4
<1>3. CASE RecordedEdit
  <2>1. Edit /\ recording' = [recording EXCEPT !.open = FALSE]
    BY <1>3 DEF RecordedEdit
  <2> QED BY <2>1, EditGoesOn, ClosedKeeps
<1>4. CASE StopRecording
  <2>1. /\ recording' = [recording EXCEPT !.open = FALSE]
        /\ world' = world /\ schedule' = schedule /\ world \in Worlds
    BY <1>4, InvTagged DEF StopRecording, worldVars
  <2> QED BY <2>1, ClosedKeeps
<1>5. CASE UNCHANGED vars
  <2>1. recording' = recording /\ world' = world /\ schedule' = schedule /\ world \in Worlds
    BY <1>5, InvTagged DEF vars, worldVars
  <2> QED BY <2>1, ClosedKeeps
<1> QED BY <1>1, <1>2, <1>3, <1>4, <1>5 DEF ReplayNext, CallOnce

(* A recording replays the run from the world it began in, and no other    *)
(* world of the run has that one's boundary.                               *)
THEOREM RecordingInvariant == ReplaySpec => []RecordingInv
<1>1. ReplayInit => RecordingInv
  BY NoRecordingApart DEF ReplayInit, RecordingInv
<1>2. WorldInv /\ RecordingInv /\ [ReplayNext]_vars => RecordingInv'
  BY ReplayStepKeeps
<1>3. ReplaySpec => []WorldInv
  BY RecordedRunIsRun, WorldInvariant, PTL
<1> QED BY <1>1, <1>2, <1>3, PTL DEF ReplaySpec

(* build_replay_request and replay: a world that passes for the recording's*)
(* initial one is replayed to the world the recording ended with, whatever *)
(* the run has done since.                                                 *)
THEOREM ReplaysAlwaysReproduce == ReplaySpec => []AcceptedReplayReproduces
<1>1. WorldInv /\ RecordingInv => AcceptedReplayReproduces
  <2> SUFFICES ASSUME WorldInv, RecordingInv, recording # NoRecording,
                      Accepts(recording.boundary, world)
               PROVE  Replayed(world, schedule, recording.inputs) = recording.final
    BY DEF AcceptedReplayReproduces
  <2>1. PICK w \in Worlds : RecordedFrom(w)
    BY DEF RecordingInv
  <2>2. world \in Worlds
    BY InvTagged
  <2>3. Boundary(world) = Boundary(w)
    BY <2>1 DEF Accepts, RecordedFrom
  <2>4. world = w
    BY <2>1, <2>2, <2>3, LaterApart DEF RecordedFrom
  <2> QED BY <2>1, <2>4 DEF RecordedFrom
<1>2. ReplaySpec => []WorldInv
  BY RecordedRunIsRun, WorldInvariant, PTL
<1> QED BY <1>1, <1>2, RecordingInvariant, PTL

-----------------------------------------------------------------------------
(* Reservation: greedy reservations leave nobody a better place.           *)
LEMMA MarginalInt ==
  ASSUME ReservationTypeOK, NEW c \in Candidates, NEW n \in Int
  PROVE  /\ base[c] \in Int /\ slope[c] \in Nat
         /\ Marginal(c, n) \in Int
         /\ Marginal(c, n) = base[c] + slope[c] * n
<1>1. base[c] \in Int /\ slope[c] \in Nat
  BY ReservationAssumption DEF ReservationTypeOK
<1>2. slope[c] * n \in Int
  BY <1>1
<1> QED BY <1>1, <1>2 DEF Marginal

\* The places of a route get no cheaper: its slope is not negative.
LEMMA MarginalGrows ==
  ASSUME ReservationTypeOK, NEW c \in Candidates, NEW n \in Int
  PROVE  Marginal(c, n) <= Marginal(c, n + 1)
<1>1. slope[c] * (n + 1) = slope[c] * n + slope[c]
  <2>1. \A s \in Nat, k \in Int : s * (k + 1) = s * k + s
    OBVIOUS
  <2> QED BY <2>1, MarginalInt
<1>2. slope[c] * n \in Int
  BY MarginalInt
<1> QED BY <1>1, <1>2, MarginalInt DEF Marginal

ReservationInv == ReservationTypeOK /\ NobodyWouldMove

LEMMA ReservationInvInit == ReservationInit => ReservationInv
<1> SUFFICES ASSUME ReservationInit PROVE ReservationInv
  OBVIOUS
<1>1. \A c \in Candidates : base[c] \in Int /\ slope[c] \in Nat
  BY ReservationAssumption DEF ReservationInit
<1>2. \A c \in Candidates : Marginal(c, counts[c]) = base[c]
  BY <1>1 DEF ReservationInit, Marginal
<1>3. heap = {[marginal |-> Marginal(c, counts[c]), id |-> c] : c \in Candidates}
  BY <1>2 DEF ReservationInit
<1> QED BY <1>3 DEF ReservationInit, ReservationInv, ReservationTypeOK, NobodyWouldMove

\* The route on top of the heap has a place that is cheapest of all next places.
LEMMA TopIsCheapest ==
  ASSUME ReservationInv, NEW x \in heap, \A y \in heap : Before(x, y)
  PROVE  /\ x.id \in Candidates
         /\ x = [marginal |-> Marginal(x.id, counts[x.id]), id |-> x.id]
         /\ \A d \in Candidates : Marginal(x.id, counts[x.id]) <= Marginal(d, counts[d])
<1>1. PICK c \in Candidates : x = [marginal |-> Marginal(c, counts[c]), id |-> c]
  BY DEF ReservationInv, ReservationTypeOK
<1>2. x.id = c /\ x.marginal = Marginal(c, counts[c])
  BY <1>1
<1>3. ASSUME NEW d \in Candidates
      PROVE  Marginal(c, counts[c]) <= Marginal(d, counts[d])
  <2> DEFINE y == [marginal |-> Marginal(d, counts[d]), id |-> d]
  <2>1. y \in heap
    BY DEF ReservationInv, ReservationTypeOK
  <2>2. y.marginal = Marginal(d, counts[d])
    OBVIOUS
  <2>3. x.marginal < y.marginal \/ x.marginal = y.marginal
    BY <2>1 DEF Before
  <2>4. counts[c] \in Int /\ counts[d] \in Int
    BY DEF ReservationInv, ReservationTypeOK
  <2>5. Marginal(c, counts[c]) \in Int /\ Marginal(d, counts[d]) \in Int
    BY <2>4, MarginalInt DEF ReservationInv
  <2> QED BY <2>2, <2>3, <2>5, <1>2
<1> QED BY <1>1, <1>2, <1>3

LEMMA AssignKeeps ==
  ASSUME ReservationInv, NEW x \in heap, Assign(x)
  PROVE  ReservationInv'
<1> DEFINE top == x.id
           n == counts[top]
<1>1. /\ top \in Candidates
      /\ x = [marginal |-> Marginal(top, n), id |-> top]
      /\ \A d \in Candidates : Marginal(top, n) <= Marginal(d, counts[d])
  BY TopIsCheapest DEF Assign
<1>2. counts' = [counts EXCEPT ![top] = n + 1] /\ counts \in [Candidates -> Nat]
  BY DEF Assign, ReservationInv, ReservationTypeOK
<1>3. counts'[top] = n + 1 /\ n \in Nat
  BY <1>1, <1>2
<1>4. \A d \in Candidates : d # top => counts'[d] = counts[d]
  BY <1>2
<1>5. counts' \in [Candidates -> Nat]
  BY <1>2, <1>3
<1>6. base' = base /\ slope' = slope
  BY DEF Assign
<1>7. \A c \in Candidates, k \in Int : Marginal(c, k)' = Marginal(c, k)
  BY <1>6 DEF Marginal
<1>8. heap' = {[marginal |-> Marginal(c, counts'[c]), id |-> c] : c \in Candidates}
  <2> DEFINE next == [marginal |-> Marginal(top, n + 1), id |-> top]
  <2>1. heap' = (heap \ {x}) \cup {next}
    BY <1>3 DEF Assign
  <2>2. heap = {[marginal |-> Marginal(c, counts[c]), id |-> c] : c \in Candidates}
    BY DEF ReservationInv, ReservationTypeOK
  <2>3. ASSUME NEW y \in heap'
        PROVE  \E c \in Candidates : y = [marginal |-> Marginal(c, counts'[c]), id |-> c]
    <3>1. CASE y = next
      BY <3>1, <1>1, <1>3
    <3>2. CASE y \in heap \ {x}
      <4>1. PICK c \in Candidates : y = [marginal |-> Marginal(c, counts[c]), id |-> c]
        BY <3>2, <2>2
      <4>2. c # top
        BY <4>1, <3>2, <1>1
      <4> QED BY <4>1, <4>2, <1>4
    <3> QED BY <3>1, <3>2, <2>1
  <2>4. ASSUME NEW c \in Candidates
        PROVE  [marginal |-> Marginal(c, counts'[c]), id |-> c] \in heap'
    <3>1. CASE c = top
      BY <3>1, <1>3, <2>1
    <3>2. CASE c # top
      <4> DEFINE y == [marginal |-> Marginal(c, counts[c]), id |-> c]
      <4>1. y \in heap
        BY <2>2
      <4>2. y # x
        <5>1. y.id = c
          OBVIOUS
        <5> QED BY <5>1, <3>2
      <4> QED BY <4>1, <4>2, <3>2, <1>4, <2>1
    <3> QED BY <3>1, <3>2
  <2> QED BY <2>3, <2>4
<1>9. heap' = {[marginal |-> Marginal(c, counts[c])', id |-> c] : c \in Candidates}
  <2>1. \A c \in Candidates : Marginal(c, counts[c])' = Marginal(c, counts'[c])
    BY <1>6 DEF Marginal
  <2> QED BY <2>1, <1>8
<1>10. ReservationTypeOK'
  <2>1. base' \in [Candidates -> Bases] /\ slope' \in [Candidates -> Slopes]
    BY <1>6 DEF ReservationInv, ReservationTypeOK
  <2> QED BY <2>1, <1>5, <1>9 DEF ReservationTypeOK
<1>11. ASSUME NEW c \in Candidates, NEW d \in Candidates, counts'[c] > 0
       PROVE  Marginal(c, counts'[c] - 1) <= Marginal(d, counts'[d])
  <2> USE DEF ReservationInv
  <2>1. counts[c] \in Nat /\ counts[d] \in Nat
    BY <1>2
  <2>2. \A e \in Candidates, k \in Int : Marginal(e, k) \in Int
    BY MarginalInt
  <2>3. Marginal(d, counts[d]) <= Marginal(d, counts'[d])
    <3>1. CASE d = top
      BY <3>1, <1>3, <2>1, MarginalGrows
    <3>2. CASE d # top
      BY <3>2, <1>4, <2>1, <2>2
    <3> QED BY <3>1, <3>2
  <2>4. Marginal(c, counts'[c] - 1) <= Marginal(d, counts[d])
    <3>1. CASE c = top
      <4>1. counts'[c] - 1 = n
        BY <3>1, <1>3
      <4> QED BY <4>1, <3>1, <1>1
    <3>2. CASE c # top
      BY <3>2, <1>4, <1>11, <2>1 DEF NobodyWouldMove
    <3> QED BY <3>1, <3>2
  <2>5. counts'[c] - 1 \in Int /\ counts'[d] \in Int
    BY <1>5
  <2> QED BY <2>1, <2>2, <2>3, <2>4, <2>5
<1>12. NobodyWouldMove'
  <2>1. ASSUME NEW c \in Candidates, NEW d \in Candidates, counts'[c] > 0
        PROVE  Marginal(c, counts[c] - 1)' <= Marginal(d, counts[d])'
    <3>1. Marginal(c, counts[c] - 1)' = Marginal(c, counts'[c] - 1)
      BY <1>6 DEF Marginal
    <3>2. Marginal(d, counts[d])' = Marginal(d, counts'[d])
      BY <1>6 DEF Marginal
    <3> QED BY <1>11, <2>1, <3>1, <3>2
  <2> QED BY <2>1 DEF NobodyWouldMove
<1> QED BY <1>10, <1>12 DEF ReservationInv

\* The heap holds the next place of every route, and nobody has a better place to go.
THEOREM ReservationInvariant == ReservationSpec => []ReservationInv
<1>1. ASSUME ReservationInv, [ReservationNext]_reservationVars PROVE ReservationInv'
  <2>1. CASE ReservationNext
    BY <1>1, <2>1, AssignKeeps DEF ReservationNext
  <2>2. CASE UNCHANGED reservationVars
    <3>1. base' = base /\ slope' = slope /\ heap' = heap /\ counts' = counts
      BY <2>2 DEF reservationVars
    <3> QED BY <1>1, <3>1 DEF ReservationInv, ReservationTypeOK, NobodyWouldMove, Marginal
  <2> QED BY <1>1, <2>1, <2>2
<1> QED BY <1>1, ReservationInvInit, PTL DEF ReservationSpec

\* allocate_route_local_reservations: at every moment of the assignment, and so at its
\* end, no vehicle is on a place that costs more than the next one of another route.
THEOREM NobodyEverWouldMove == ReservationSpec => []NobodyWouldMove
<1>1. ReservationInv => NobodyWouldMove
  BY DEF ReservationInv
<1> QED BY <1>1, ReservationInvariant, PTL

----------------------------------------------------------------------------
\* pulls, estimate and earned have numbers in them, and a trip under way has an arm.
BanditNumbers ==
    /\ pulls \in [Ranks -> Nat]
    /\ DOMAIN estimate = Ranks
    /\ \A a \in Ranks : estimate[a].num \in Int /\ estimate[a].den \in Nat \ {0}
    /\ earned \in [Ranks -> Int]
    /\ \A t \in Trips : stage[t] = "under_way" => chosen[t] \in Ranks
    /\ DOMAIN chosen = Trips /\ DOMAIN stage = Trips

\* Every learned outcome is one pull.
PullsCounted == SumOn(pulls, Ranks) = Cardinality({t \in Trips : stage[t] = "learned"})

BanditInv == BanditNumbers /\ MeansExact /\ PullsCounted

\* A learned outcome is one pull more.
LEMMA LearnCounts ==
  ASSUME BanditInv, NEW t \in Trips, stage[t] = "under_way",
         NEW a \in Ranks, pulls' = [pulls EXCEPT ![a] = @ + 1],
         stage' = [stage EXCEPT ![t] = "learned"]
  PROVE  SumOn(pulls', Ranks) = Cardinality({u \in Trips : stage'[u] = "learned"})
<1> DEFINE Learned == {u \in Trips : stage[u] = "learned"}
           LearnedNow == {u \in Trips : stage'[u] = "learned"}
<1>1. PICK old : old = pulls
  OBVIOUS
<1>2. PICK new : new = pulls'
  OBVIOUS
<1>3. old \in [Ranks -> Nat] /\ new = [old EXCEPT ![a] = @ + 1]
  BY <1>1, <1>2 DEF BanditInv, BanditNumbers
<1>4. old \in [Ranks -> Int] /\ new \in [Ranks -> Int]
  BY <1>3
<1>5. new[a] = old[a] + 1 /\ old[a] \in Int /\ \A c \in Ranks \ {a} : new[c] = old[c]
  BY <1>3
<1>6. IsFiniteSet(Ranks) /\ IsFiniteSet(Trips)
  BY BanditAssumption
<1>7. SumOn(new, Ranks) = SumOn(old, Ranks) - old[a] + new[a]
  BY <1>4, <1>5, <1>6, SumUpdate
<1>8. SumOn(old, Ranks) = Cardinality(Learned)
  BY <1>1 DEF BanditInv, PullsCounted
<1>9. LearnedNow = Learned \cup {t} /\ t \notin Learned
  BY DEF BanditInv, BanditNumbers
<1>10. IsFiniteSet(Learned) /\ Cardinality(Learned) \in Nat
  BY <1>6, FS_Subset, FS_CardinalityType
<1>11. Cardinality(LearnedNow) = Cardinality(Learned) + 1
  <2> HIDE DEF Learned, LearnedNow
  <2> QED BY <1>9, <1>10, FS_AddElement
<1> HIDE DEF Learned, LearnedNow
<1>12. SumOn(new, Ranks) = Cardinality(LearnedNow)
  BY <1>5, <1>7, <1>8, <1>10, <1>11
<1> QED BY <1>2, <1>12 DEF LearnedNow

LEMMA RewardInt ==
  ASSUME NEW result \in Outcomes, NEW time \in Times
  PROVE  Reward(result, time) \in Int
<1> DEFINE quickness == IF time = Absent THEN IF result = "completed" THEN RewardUnit ELSE 0
                        ELSE RewardUnit \div (time + 1)
<1>1. quickness \in Int
  <2>1. RewardUnit \in Nat
    BY BanditAssumption
  <2>2. CASE time = Absent
    BY <2>1, <2>2
  <2>3. CASE time # Absent
    <3>1. time \in Nat
      BY <2>3, BanditAssumption
    <3>2. time + 1 \in Nat \ {0}
      BY <3>1
    <3>3. RewardUnit \div (time + 1) \in Int
      BY <3>2, <2>1
    <3> QED BY <3>3, <2>3
  <2> QED BY <2>2, <2>3
<1>2. Reward(result, time) = IF result = "completed" THEN quickness ELSE quickness - RewardUnit
  BY DEF Reward
<1> QED BY <1>1, <1>2, BanditAssumption

\* One incremental step, in whole numbers.
LEMMA SteppedIsMean ==
  ASSUME NEW num \in Int, NEW den \in Nat \ {0}, NEW n \in Nat,
         NEW sum \in Int, NEW reward \in Int, num * n = sum * den
  PROVE  /\ num * (n + 1) + (reward * den - num) = (sum + reward) * den
         /\ (num * (n + 1) + (reward * den - num)) * (n + 1)
              = (sum + reward) * (den * (n + 1))
<1>1. num * (n + 1) = num * n + num
  OBVIOUS
<1>2. (sum + reward) * den = sum * den + reward * den
  OBVIOUS
<1>3. num * n \in Int /\ sum * den \in Int /\ reward * den \in Int
  OBVIOUS
<1>4. num * (n + 1) + (reward * den - num) = (sum + reward) * den
  BY <1>1, <1>2, <1>3
<1>5. ((sum + reward) * den) * (n + 1) = (sum + reward) * (den * (n + 1))
  OBVIOUS
<1> QED BY <1>4, <1>5

LEMMA LearnKeeps ==
  ASSUME BanditInv, NEW t \in Trips, NEW result \in Outcomes, NEW time \in Times,
         Learn(t, result, time)
  PROVE  BanditInv'
<1> DEFINE a == chosen[t]
           reward == Reward(result, time)
           old == estimate[a]
           new == Stepped(old, reward, pulls[a] + 1)
<1>1. a \in Ranks
  BY DEF Learn, BanditInv, BanditNumbers
<1>2. reward \in Int
  BY RewardInt
<1>3. /\ pulls' = [pulls EXCEPT ![a] = pulls[a] + 1]
      /\ estimate' = [estimate EXCEPT ![a] = new]
      /\ earned' = [earned EXCEPT ![a] = earned[a] + reward]
      /\ stage' = [stage EXCEPT ![t] = "learned"]
      /\ chosen' = [chosen EXCEPT ![t] = Absent]
  BY DEF Learn
<1>4. /\ pulls \in [Ranks -> Nat] /\ earned \in [Ranks -> Int] /\ DOMAIN estimate = Ranks
      /\ old.num \in Int /\ old.den \in Nat \ {0} /\ pulls[a] \in Nat /\ earned[a] \in Int
      /\ old.num * pulls[a] = earned[a] * old.den
  BY <1>1 DEF BanditInv, BanditNumbers, MeansExact
<1>5. /\ new.num = old.num * (pulls[a] + 1) + (reward * old.den - old.num)
      /\ new.den = old.den * (pulls[a] + 1)
  BY DEF Stepped
<1>6. new.num * (pulls[a] + 1) = (earned[a] + reward) * new.den
  <2> HIDE DEF reward, old
  <2>1. PICK num \in Int, den \in Nat \ {0}, n \in Nat, sum \in Int, paid \in Int :
          num = old.num /\ den = old.den /\ n = pulls[a] /\ sum = earned[a] /\ paid = reward
    BY <1>2, <1>4
  <2>2. num * n = sum * den
    BY <1>4, <2>1
  <2>3. (num * (n + 1) + (paid * den - num)) * (n + 1) = (sum + paid) * (den * (n + 1))
    BY <2>2, SteppedIsMean
  <2>4. new.num = num * (n + 1) + (paid * den - num) /\ new.den = den * (n + 1)
    BY <1>5, <2>1
  <2>5. n + 1 = pulls[a] + 1 /\ sum + paid = earned[a] + reward
    BY <2>1
  <2> HIDE DEF new
  <2>6. new.num * (n + 1) = (sum + paid) * new.den
    BY <2>3, <2>4
  <2> QED BY <2>5, <2>6
<1>7. new.num \in Int /\ new.den \in Nat \ {0}
  <2> HIDE DEF reward, old
  <2>1. new.num \in Int
    BY <1>2, <1>4, <1>5
  <2>2. \A d \in Nat \ {0}, k \in Nat : d * (k + 1) \in Nat \ {0}
    <3> TAKE d \in Nat \ {0}, k \in Nat
    <3>1. d * (k + 1) = d * k + d
      OBVIOUS
    <3>2. d * k \in Nat
      OBVIOUS
    <3> QED BY <3>1, <3>2
  <2> QED BY <2>1, <2>2, <1>4, <1>5
<1> HIDE DEF a, new
<1>8. /\ pulls'[a] = pulls[a] + 1 /\ estimate'[a] = new /\ earned'[a] = earned[a] + reward
      /\ DOMAIN estimate' = Ranks
  BY <1>1, <1>3, <1>4
<1>9. \A b \in Ranks : b # a => /\ pulls'[b] = pulls[b] /\ estimate'[b] = estimate[b]
                               /\ earned'[b] = earned[b]
  BY <1>1, <1>3, <1>4
<1>10. MeansExact'
  <2>1. ASSUME NEW b \in Ranks
        PROVE  estimate'[b].num * pulls'[b] = earned'[b] * estimate'[b].den
    <3>1. CASE b = a
      BY <3>1, <1>6, <1>8
    <3>2. CASE b # a
      BY <3>2, <1>9 DEF BanditInv, MeansExact
    <3> QED BY <3>1, <3>2
  <2> QED BY <2>1 DEF MeansExact
<1>11. BanditNumbers'
  <2>1. pulls' \in [Ranks -> Nat] /\ earned' \in [Ranks -> Int]
    <3>1. pulls[a] + 1 \in Nat /\ earned[a] + reward \in Int
      BY <1>2, <1>4
    <3> HIDE DEF reward
    <3> QED BY <3>1, <1>3, <1>4
  <2>2. ASSUME NEW b \in Ranks
        PROVE  estimate'[b].num \in Int /\ estimate'[b].den \in Nat \ {0}
    <3>1. CASE b = a
      BY <3>1, <1>7, <1>8
    <3>2. CASE b # a
      BY <3>2, <1>9 DEF BanditInv, BanditNumbers
    <3> QED BY <3>1, <3>2
  <2>3. DOMAIN chosen' = Trips /\ DOMAIN stage' = Trips
    BY <1>3 DEF BanditInv, BanditNumbers
  <2>4. ASSUME NEW u \in Trips, stage'[u] = "under_way" PROVE chosen'[u] \in Ranks
    <3>1. u # t
      BY <1>3, <2>4 DEF BanditInv, BanditNumbers
    <3>2. stage'[u] = stage[u] /\ chosen'[u] = chosen[u]
      BY <3>1, <1>3 DEF BanditInv, BanditNumbers
    <3> QED BY <3>2, <2>4 DEF BanditInv, BanditNumbers
  <2> QED BY <1>8, <2>1, <2>2, <2>3, <2>4 DEF BanditNumbers
<1>12. PullsCounted'
  <2>1. stage[t] = "under_way"
    BY DEF Learn
  <2>2. SumOn(pulls', Ranks) = Cardinality({u \in Trips : stage'[u] = "learned"})
    BY <1>1, <1>3, <2>1, LearnCounts
  <2> QED BY <2>2 DEF PullsCounted
<1> QED BY <1>10, <1>11, <1>12 DEF BanditInv

\* A trip that starts is not learned from yet.
LEMMA StartKeeps == ASSUME BanditInv, NEW t \in Trips, Start(t) PROVE BanditInv'
<1>1. pulls' = pulls /\ estimate' = estimate /\ earned' = earned
  BY DEF Start
<1>2. PICK a \in Ranks : chosen' = [chosen EXCEPT ![t] = a]
  BY DEF Start, Selectable
<1>3. stage' = [stage EXCEPT ![t] = "under_way"]
  BY DEF Start
<1>4. DOMAIN chosen' = Trips /\ DOMAIN stage' = Trips
  BY <1>2, <1>3 DEF BanditInv, BanditNumbers
<1>5. ASSUME NEW u \in Trips, stage'[u] = "under_way" PROVE chosen'[u] \in Ranks
  <2>1. CASE u = t
    BY <2>1, <1>2 DEF BanditInv, BanditNumbers
  <2>2. CASE u # t
    BY <2>2, <1>2, <1>3, <1>5 DEF BanditInv, BanditNumbers
  <2> QED BY <2>1, <2>2
<1>6. {u \in Trips : stage'[u] = "learned"} = {u \in Trips : stage[u] = "learned"}
  BY <1>3 DEF Start, BanditInv, BanditNumbers
<1>7. MeansExact'
  BY <1>1 DEF BanditInv, MeansExact
<1>8. BanditNumbers'
  BY <1>1, <1>4, <1>5 DEF BanditInv, BanditNumbers
<1>9. PullsCounted'
  BY <1>1, <1>6 DEF BanditInv, PullsCounted
<1> QED BY <1>7, <1>8, <1>9 DEF BanditInv

LEMMA BanditInvInit == BanditInit => BanditInv
<1> SUFFICES ASSUME BanditInit PROVE BanditInv
  OBVIOUS
<1>1. BanditNumbers /\ MeansExact
  BY DEF BanditInit, BanditNumbers, MeansExact
<1>2. PICK p : p = pulls
  OBVIOUS
<1>3. \A a \in Ranks : p[a] \in Int /\ p[a] = 0
  BY <1>2 DEF BanditInit
<1>4. SumOn(p, Ranks) = 0
  BY <1>3, SumType, BanditAssumption
<1>5. {t \in Trips : stage[t] = "learned"} = {}
  BY DEF BanditInit
<1>6. Cardinality({}) = 0
  BY FS_EmptySet
<1> QED BY <1>1, <1>2, <1>4, <1>5, <1>6 DEF BanditInv, PullsCounted

\* Every pending decision counts for its own arm only, until its outcome is learned.
THEOREM BanditInvariant == BanditSpec => []BanditInv
<1>1. ASSUME BanditInv, [BanditNext]_banditVars PROVE BanditInv'
  <2>1. CASE StartAny
    BY <1>1, <2>1, StartKeeps DEF StartAny
  <2>2. CASE LearnAny
    BY <1>1, <2>2, LearnKeeps DEF LearnAny
  <2>3. CASE UNCHANGED banditVars
    BY <1>1, <2>3 DEF banditVars, BanditInv, BanditNumbers, MeansExact, PullsCounted
  <2> QED BY <1>1, <2>1, <2>2, <2>3 DEF BanditNext
<1> QED BY <1>1, BanditInvInit, PTL DEF BanditSpec

\* update_od_ucb_state: whatever trips overlap and in whatever order their outcomes come
\* back, an estimate is the exact mean of the rewards paid to its arm, and every outcome
\* counts once.
THEOREM EstimatesAlwaysMeans == BanditSpec => []EstimateIsMean
<1>1. BanditInv => EstimateIsMean
  BY DEF BanditInv, PullsCounted, EstimateIsMean, SumOn
<1> QED BY <1>1, BanditInvariant, PTL

-----------------------------------------------------------------------------
(* PolicyBlend: what is decided is not beaten on both counts.              *)
\* The coefficient stays within 0..Whole, and the last decision is one nobody regrets.
Reasons == {"none", "no_signal", "incident_mode", "invalid_output"}
BlendTypeOK == blend \in [lambda : 0 .. Whole, baselineOnly : BOOLEAN, reason : Reasons]
BlendInv == BlendTypeOK /\ NeverBeatenBothWays

\* The scores of the candidates have a least and a greatest.
LEMMA ScoreBounds ==
  ASSUME NEW score \in [Arms -> Int]
  PROVE  LET values == {score[a] : a \in Arms}
         IN  /\ IsFiniteSet(values)
             /\ Min(values) \in values /\ \A a \in Arms : Min(values) <= score[a]
             /\ Max(values) \in values /\ \A a \in Arms : score[a] <= Max(values)
<1> DEFINE values == {score[a] : a \in Arms}
           opposite == [a \in Arms |-> -score[a]]
<1>1. \A a \in Arms : score[a] \in Int /\ opposite[a] \in Int
  OBVIOUS
<1>2. PICK high \in Arms : \A a \in Arms : score[high] >= score[a]
  BY <1>1, GreatestExists, BlendAssumption
<1>3. PICK low \in Arms : \A a \in Arms : opposite[low] >= opposite[a]
  <2> HIDE DEF opposite
  <2> QED BY <1>1, GreatestExists, BlendAssumption
<1>4. \A a \in Arms : score[low] <= score[a]
  BY <1>1, <1>3
<1>5. \A v \in values : score[low] <= v /\ score[high] >= v
  BY <1>2, <1>4
<1>6. score[low] \in values /\ score[high] \in values
  OBVIOUS
<1>7. IsFiniteSet(values)
  <2>1. score \in Surjection(Arms, values)
    BY DEF Surjection
  <2> QED BY <2>1, FS_Surjection, BlendAssumption
<1>8. Min(values) \in values /\ \A v \in values : Min(values) <= v
  <2> HIDE DEF values
  <2> QED BY <1>5, <1>6 DEF Min
<1>9. Max(values) \in values /\ \A v \in values : Max(values) >= v
  <2> HIDE DEF values
  <2> QED BY <1>5, <1>6 DEF Max
<1>10. \A a \in Arms : score[a] \in values /\ score[a] \in Int
  OBVIOUS
<1>11. Min(values) \in Int /\ Max(values) \in Int
  BY <1>8, <1>9, <1>1
<1> HIDE DEF values
<1>12. \A a \in Arms : Min(values) <= score[a] /\ score[a] <= Max(values)
  BY <1>8, <1>9, <1>10, <1>11
<1> QED BY <1>7, <1>8, <1>9, <1>12 DEF values

\* Normalised scores are ordered as the scores are, and are spread over something.
LEMMA ShareFacts ==
  ASSUME NEW score \in [Arms -> Int]
  PROVE  /\ Spread(score) \in Nat \ {0}
         /\ \A a \in Arms : Share(score, a) \in Nat
         /\ \A a, x \in Arms : score[x] > score[a] => Share(score, x) > Share(score, a)
         /\ \A a, x \in Arms : Share(score, a) >= Share(score, x) => score[a] >= score[x]
<1> DEFINE values == {score[a] : a \in Arms}
           low == Min(values)
           high == Max(values)
<1>1. \A a \in Arms : score[a] \in Int /\ score[a] \in values
  OBVIOUS
<1>2. /\ IsFiniteSet(values) /\ low \in values /\ high \in values
      /\ \A a \in Arms : low <= score[a] /\ score[a] <= high
  BY ScoreBounds
<1>3. low \in Int /\ high \in Int
  BY <1>1, <1>2
<1>4. Spread(score) = IF Cardinality(values) = 1 THEN 1 ELSE high - low
  BY DEF Spread
<1>5. \A a \in Arms : Share(score, a) = IF Cardinality(values) = 1 THEN 1 ELSE score[a] - low
  BY DEF Share
<1>6. Cardinality(values) = 1 => \A a, x \in Arms : score[a] = score[x]
  <2> HIDE DEF values, low, high
  <2> QED BY <1>1, <1>2, FS_Singleton
<1>7. low = high => Cardinality(values) = 1
  <2>0. SUFFICES ASSUME low = high PROVE Cardinality(values) = 1
    OBVIOUS
  <2>1. \A v \in values : v = low
    <3>1. \A a \in Arms : score[a] = low
      <4> HIDE DEF values, low, high
      <4> QED BY <1>1, <1>2, <1>3, <2>0
    <3> HIDE DEF low, high
    <3> QED BY <3>1
  <2>2. values = {low}
    <3> HIDE DEF values, low, high
    <3> QED BY <1>2, <2>1
  <2> HIDE DEF values, low, high
  <2> QED BY <2>2, FS_Singleton
<1>8. low <= high
  <2>1. PICK a \in Arms : TRUE
    BY BlendAssumption
  <2> HIDE DEF values, low, high
  <2> QED BY <1>1, <1>2, <1>3, <2>1
<1> HIDE DEF values, low, high
<1>9. Spread(score) \in Nat \ {0}
  BY <1>3, <1>4, <1>7, <1>8
<1>10. \A a \in Arms : Share(score, a) \in Nat
  BY <1>1, <1>2, <1>3, <1>5
<1>11. \A a, x \in Arms : score[x] > score[a] => Share(score, x) > Share(score, a)
  BY <1>1, <1>3, <1>5, <1>6
<1>12. \A a, x \in Arms : Share(score, a) >= Share(score, x) => score[a] >= score[x]
  BY <1>1, <1>3, <1>5, <1>6
<1> QED BY <1>9, <1>10, <1>11, <1>12

\* Whatever was asked for, the coefficient stays in its range.
LEMMA ControlledType ==
  ASSUME BlendTypeOK, NEW s \in Situations
  PROVE  Controlled(blend, s) \in [lambda : 0 .. Whole, baselineOnly : BOOLEAN, reason : Reasons]
<1> DEFINE Blends == [lambda : 0 .. Whole, baselineOnly : BOOLEAN, reason : Reasons]
<1>1. s.target # None => Mix(s) \in 0 .. Whole
  <2>1. s.target \in Targets \cup {None}
    BY DEF Situations
  <2>2. s.target \in Int
    <3>1. CASE s.target \in Targets
      <4>1. Targets \subseteq Int
        BY BlendAssumption
      <4> QED BY <3>1, <4>1
    <3>2. CASE s.target = None
      <4>1. None \in Int
        BY DEF None
      <4> QED BY <3>2, <4>1
    <3> QED BY <2>1, <3>1, <3>2
  <2> QED BY <2>2, BlendAssumption DEF Mix, Clip
<1>2. Targeted(blend, s) \in Blends
  <2>1. CASE s.target = None
    BY <2>1 DEF Targeted, BlendTypeOK
  <2>2. CASE s.target # None
    <3>1. (Mix(s) <= 0) \in BOOLEAN
      OBVIOUS
    <3>2. [lambda |-> Mix(s), baselineOnly |-> Mix(s) <= 0, reason |-> "none"] \in Blends
      BY <1>1, <2>2, <3>1 DEF Reasons
    <3> QED BY <2>2, <3>2 DEF Targeted
  <2> QED BY <2>1, <2>2
<1> DEFINE targeted == Targeted(blend, s)
<1>3. 0 \in 0 .. Whole
  BY BlendAssumption
<1>4. \A b \in Blends, r \in Reasons :
        /\ [b EXCEPT !.baselineOnly = TRUE, !.reason = r] \in Blends
        /\ [b EXCEPT !.reason = r] \in Blends
        /\ [b EXCEPT !.lambda = 0] \in Blends
  BY <1>3
<1>5. {"none", "no_signal", "incident_mode", "invalid_output"} \subseteq Reasons
  BY DEF Reasons
<1> HIDE DEF Blends
<1>6. Controlled(blend, s) \in Blends
  BY <1>2, <1>4, <1>5 DEF Controlled, FallBack
<1> QED BY <1>6 DEF Blends

\* Products of naturals, one factor larger.
LEMMA MixGrows ==
  ASSUME NEW k \in Nat, NEW l \in Nat \ {0}, NEW p \in Nat \ {0}, NEW q \in Nat \ {0},
         NEW u \in Nat, NEW v \in Nat, NEW x \in Nat, NEW y \in Nat, u < v, x < y
  PROVE  k * u * p + l * x * q < k * v * p + l * y * q
<1>1. \A m \in Nat, a \in Nat, b \in Nat : a <= b => m * a <= m * b
  <2> TAKE m \in Nat, a \in Nat, b \in Nat
  <2> HAVE a <= b
  <2>1. PICK d \in Nat : b = a + d
    <3>1. b - a \in Nat /\ b = a + (b - a)
      OBVIOUS
    <3> QED BY <3>1
  <2>2. m * (a + d) = m * a + m * d
    OBVIOUS
  <2>3. m * d \in Nat /\ m * a \in Nat
    OBVIOUS
  <2> QED BY <2>1, <2>2, <2>3
<1>2. \A m \in Nat \ {0}, a \in Nat, b \in Nat : a < b => m * a < m * b
  <2> TAKE m \in Nat \ {0}, a \in Nat, b \in Nat
  <2> HAVE a < b
  <2>1. m * (a + 1) <= m * b
    BY <1>1
  <2>2. m * (a + 1) = m * a + m
    OBVIOUS
  <2>3. m * a \in Nat /\ m * b \in Nat
    OBVIOUS
  <2> QED BY <2>1, <2>2, <2>3
<1>3. \A a \in Nat, b \in Nat : a * b \in Nat /\ a * b = b * a
  OBVIOUS
<1>4. k * u <= k * v /\ l * x < l * y
  BY <1>1, <1>2
<1>5. k * u \in Nat /\ k * v \in Nat /\ l * x \in Nat /\ l * y \in Nat
  BY <1>3
<1>6. p * (k * u) <= p * (k * v) /\ q * (l * x) < q * (l * y)
  BY <1>1, <1>2, <1>4, <1>5
<1>7. /\ (k * u) * p = p * (k * u) /\ (k * v) * p = p * (k * v)
      /\ (l * x) * q = q * (l * x) /\ (l * y) * q = q * (l * y)
  BY <1>3, <1>5
<1>8. /\ (k * u) * p \in Nat /\ (k * v) * p \in Nat
      /\ (l * x) * q \in Nat /\ (l * y) * q \in Nat
  BY <1>3, <1>5
<1> QED BY <1>6, <1>7, <1>8

\* The arm taken has the greatest weight.
LEMMA BestIsHeaviest ==
  ASSUME NEW b, NEW s, \A a \in Arms : Weight(b, s, a) \in Int
  PROVE  /\ BestArm(b, s) \in Arms
         /\ \A x \in Arms : Weight(b, s, BestArm(b, s)) >= Weight(b, s, x)
<1> DEFINE f == [a \in Arms |-> Weight(b, s, a)]
           best == {a \in Arms : \A x \in Arms : Weight(b, s, a) >= Weight(b, s, x)}
<1>1. \A a \in Arms : f[a] \in Int /\ f[a] = Weight(b, s, a)
  OBVIOUS
<1>2. PICK a \in Arms : \A x \in Arms : f[a] >= f[x]
  <2> HIDE DEF f
  <2> QED BY <1>1, GreatestExists, BlendAssumption
<1>3. best \subseteq Nat /\ best # {}
  BY <1>1, <1>2, BlendAssumption
<1>4. \E m \in best : \A x \in best : m <= x
  <2> HIDE DEF best
  <2> QED BY <1>3, LeastExists
<1>5. Min(best) \in best
  <2> HIDE DEF best
  <2> QED BY <1>4 DEF Min
<1>6. BestArm(b, s) = Min(best)
  BY DEF BestArm
<1> QED BY <1>5, <1>6

LEMMA DecideKeeps ==
  ASSUME BlendInv, NEW s \in Situations, Decide(s)
  PROVE  BlendInv'
<1>1. PICK b : b = Controlled(blend, s)
  OBVIOUS
<1>2. PICK a : a = BestArm(b, s)
  OBVIOUS
<1>3. blend' = b /\ last'.given = s /\ last'.arm = a
  BY <1>1, <1>2 DEF Decide
<1>4. b \in [lambda : 0 .. Whole, baselineOnly : BOOLEAN, reason : Reasons]
  BY <1>1, ControlledType DEF BlendInv
<1>5. PICK utility : utility = Utility(s.baseline)
  OBVIOUS
<1>6. s.baseline \in [Arms -> Int] /\ s.adaptive \in [Arms -> Int]
  BY BlendAssumption DEF Situations
<1>7. utility \in [Arms -> Int] /\ \A x \in Arms : utility[x] = -s.baseline[x]
  BY <1>5, <1>6 DEF Utility
<1>8. b.lambda \in Nat /\ Whole - b.lambda \in Nat
  BY <1>4, BlendAssumption
<1>9. /\ \A x \in Arms : Share(utility, x) \in Nat /\ Share(s.adaptive, x) \in Nat
      /\ Spread(utility) \in Nat \ {0} /\ Spread(s.adaptive) \in Nat \ {0}
  BY <1>6, <1>7, ShareFacts
<1>10. CASE b.baselineOnly \/ b.lambda <= 0
  <2>1. \A x \in Arms : Weight(b, s, x) = Share(utility, x)
    BY <1>10, <1>5 DEF Weight
  <2>2. a \in Arms /\ \A x \in Arms : Share(utility, a) >= Share(utility, x)
    BY <1>2, <1>9, <2>1, BestIsHeaviest
  <2>3. \A x \in Arms : utility[a] >= utility[x]
    BY <1>7, <2>2, ShareFacts
  <2>4. Cheapest(s, a)
    BY <1>6, <1>7, <2>2, <2>3 DEF Cheapest
  <2> QED BY <1>3, <1>4, <2>4 DEF BlendInv, BlendTypeOK, NeverBeatenBothWays, Cheapest
<1>11. CASE ~(b.baselineOnly \/ b.lambda <= 0)
  <2> DEFINE mixed(x) == (Whole - b.lambda) * Share(utility, x) * Spread(s.adaptive)
                           + b.lambda * Share(s.adaptive, x) * Spread(utility)
  <2>1. \A x \in Arms : Weight(b, s, x) = mixed(x)
    BY <1>11, <1>5 DEF Weight
  <2>2. ASSUME NEW x \in Arms PROVE mixed(x) \in Int
    <3>1. \A i, j, k \in Nat : i * j * k \in Int
      OBVIOUS
    <3>2. (Whole - b.lambda) * Share(utility, x) * Spread(s.adaptive) \in Int
      BY <1>8, <1>9, <3>1
    <3>3. b.lambda * Share(s.adaptive, x) * Spread(utility) \in Int
      BY <1>8, <1>9, <3>1
    <3> QED BY <3>2, <3>3
  <2>3. a \in Arms /\ \A x \in Arms : mixed(a) >= mixed(x)
    <3> HIDE DEF mixed
    <3> QED BY <1>2, <2>1, <2>2, BestIsHeaviest
  <2>4. ASSUME NEW x \in Arms, BetterBothWays(s, x, a) PROVE FALSE
    <3>1. utility[x] > utility[a] /\ s.adaptive[x] > s.adaptive[a]
      BY <1>6, <1>7, <2>3, <2>4 DEF BetterBothWays
    <3>2. Share(utility, a) < Share(utility, x) /\ Share(s.adaptive, a) < Share(s.adaptive, x)
      <4>1. Share(utility, x) > Share(utility, a)
        BY <1>7, <2>3, <3>1, ShareFacts
      <4>2. Share(s.adaptive, x) > Share(s.adaptive, a)
        BY <1>6, <2>3, <3>1, ShareFacts
      <4> QED BY <4>1, <4>2, <1>9, <2>3
    <3>3. b.lambda \in Nat \ {0}
      BY <1>8, <1>11
    <3>4. mixed(a) < mixed(x)
      BY <1>8, <1>9, <2>3, <3>2, <3>3, MixGrows
    <3>5. mixed(a) >= mixed(x) /\ mixed(a) \in Int /\ mixed(x) \in Int
      BY <2>2, <2>3
    <3> HIDE DEF mixed
    <3> QED BY <3>4, <3>5
  <2>5. ~b.baselineOnly
    BY <1>11
  <2> QED BY <1>3, <1>4, <2>4, <2>5 DEF BlendInv, BlendTypeOK, NeverBeatenBothWays, BetterBothWays
<1> QED BY <1>10, <1>11

\* The blend state stays in range, and what was decided last is not beaten.
THEOREM BlendInvariant == BlendSpec => []BlendInv
<1>1. BlendInit => BlendInv
  BY BlendAssumption DEF BlendInit, BlendInv, BlendTypeOK, NeverBeatenBothWays, Reasons
<1>2. ASSUME BlendInv, [BlendNext]_blendVars PROVE BlendInv'
  <2>1. CASE BlendNext
    BY <1>2, <2>1, DecideKeeps DEF BlendNext
  <2>2. CASE UNCHANGED blendVars
    BY <1>2, <2>2 DEF blendVars, BlendInv, BlendTypeOK, NeverBeatenBothWays, Cheapest, BetterBothWays
  <2> QED BY <1>2, <2>1, <2>2
<1> QED BY <1>1, <1>2, PTL DEF BlendSpec

\* choose_route_candidate_index_policy_mixed after apply_policy_blend_control: learning
\* never makes a trip take an arm that another one beats on cost and on preference.
THEOREM NeverEverBeaten == BlendSpec => []NeverBeatenBothWays
<1>1. BlendInv => NeverBeatenBothWays
  BY DEF BlendInv
<1> QED BY <1>1, BlendInvariant, PTL
=============================================================================
