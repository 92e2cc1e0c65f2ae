------------------------------ MODULE FlowGrant ------------------------------
(***************************************************************************)
(* What one flow update may grant, whatever order it serves vehicles in:   *)
(* the promise of _apply_discrete_agent_flow_authority                     *)
(* (src/src/metroflow/flow/engine.py) to the agents that ask to move.      *)
(*                                                                         *)
(* A movement is <<from, to>>: a legal compiled turn, or <<link, None>>    *)
(* for the discharge of a trip at the end of its final link (the sink).    *)
(* demand, and a grant, give a number of whole vehicles to each movement.  *)
(***************************************************************************)
EXTENDS RoadNetwork, FiniteSetsExt

CONSTANTS
    Turns,      \* the legal (not forbidden) compiled turns
    Spatial,    \* traffic_model = "spatial_queue_v1"
    Storage     \* storage_capacity_vehicles of each link, read when Spatial

ASSUME TurnsAssumption == Turns \subseteq Links \X Links
ASSUME StorageAssumption == Spatial \in BOOLEAN /\ Storage \in [Links -> Nat \ {0}]

Sinks == Links \X {None}
Movements == Turns \cup Sinks

NoTokens == [m \in Movements |-> 0]

(* Vehicles a grant takes out of, and brings into, a link. *)
Leaving(g, l) == MapThenSumSet(LAMBDA m : g[m], {m \in Movements : m[1] = l})
Entering(g, l) == MapThenSumSet(LAMBDA m : g[m], {m \in Turns : m[2] = l})

(* Mutant: the vehicles that arrive are not counted. *)
NextQueueWithoutArrivals(q, g) == [l \in Links |-> q[l] - Leaving(g, l)]

NextQueue(q, g) == [l \in Links |-> q[l] - Leaving(g, l) + Entering(g, l)]

(* The links that accrue sending, and receiving, capacity this tick. *)
SendingLinks(demand) == {m[1] : m \in {x \in Movements : demand[x] > 0}}
ReceivingLinks(demand) == {m[2] : m \in {x \in Turns : demand[x] > 0}}

(* Vehicles link l can still take in: its receiving tokens, capped by the  *)
(* storage that was free BEFORE this update when storage is finite.        *)
Room(q, receiving, l) ==
    IF Spatial THEN Min({receiving[l], Storage[l] - q[l]}) ELSE receiving[l]

(* Nothing more can be granted to m. *)
Blocked(g, q, demand, service, receiving, m) ==
    \/ g[m] = demand[m]
    \/ Leaving(g, m[1]) = Min({service[m[1]], q[m[1]]})
    \/ m \in Turns /\ Entering(g, m[2]) = Room(q, receiving, m[2])

(* A grant: within the demand, the service and receiving tokens, the       *)
(* vehicles present and the free storage, and leaving no token unused that *)
(* a waiting vehicle could use.                                            *)
IsGrant(g, q, demand, service, receiving) ==
    /\ \A m \in Movements : g[m] <= demand[m]
    /\ \A l \in SendingLinks(demand) : Leaving(g, l) <= Min({service[l], q[l]})
    /\ \A l \in ReceivingLinks(demand) : Entering(g, l) <= Room(q, receiving, l)
    /\ \A m \in Movements :
          demand[m] > 0 => Blocked(g, q, demand, service, receiving, m)

(* Every function that grants at most n vehicles to each movement with     *)
(* demand (and none to the others).                                        *)
GrantsUpTo(demand, n) ==
    LET asked == {m \in Movements : demand[m] > 0}
    IN  {[m \in Movements |-> IF m \in asked THEN h[m] ELSE 0] : h \in [asked -> 0 .. n]}
=============================================================================
