----------------------------- MODULE FlowContract -----------------------------
(***************************************************************************)
(* The abstract flow update: what the runtime may rely on, without saying  *)
(* how vehicles are chosen.  Each round the runtime asks (a queue and a    *)
(* demand of whole vehicles) and the update realizes a grant of the        *)
(* capacities: every link in demand serves, and receives, at least the     *)
(* whole vehicles of its effective capacity and at most two more (what a   *)
(* fractional residual and one carried token can add).                     *)
(*                                                                         *)
(* Capacities are in 1/Scale vehicles per tick.                            *)
(***************************************************************************)
EXTENDS FlowGrant

CONSTANTS
    Scale,      \* capacity units per vehicle
    Capacities, \* Capacities[l]: the effective capacities link l may have
    MaxQueue,   \* MaxQueue[l], bound: admissions fill l up to it (without storage)
    MaxAsk      \* MaxAsk[m], bound: vehicles that ask for movement m

ASSUME ContractAssumption ==
    /\ Scale \in Nat \ {0} /\ MaxQueue \in [Links -> Nat] /\ MaxAsk \in [Movements -> Nat]
    /\ \A l \in Links : Capacities[l] \subseteq Nat

VARIABLES
    queue,      \* queue_vehicles
    demand,     \* turn_demand and runtime_sink_demand_by_link_index
    effective,  \* effective_capacity_vehicles
    realized,   \* turn_flow and runtime_sink_flow_by_link_index
    asked       \* a demand waits for its flow update

contractVars == <<queue, demand, effective, realized, asked>>

Limit(l) == IF Spatial THEN Storage[l] ELSE MaxQueue[l]

TotalAsked(d, l) == MapThenSumSet(LAMBDA m : d[m], {m \in Movements : m[1] = l})

Fewest(l) == effective[l] \div Scale
Most(l) == IF effective[l] = 0 THEN 0 ELSE effective[l] \div Scale + 2

(* The service (receiving) tokens the links of S may have accrued. *)
Budgets(S) ==
    {b \in [S -> UNION {Fewest(l) .. Most(l) : l \in S}] :
        \A l \in S : b[l] \in Fewest(l) .. Most(l)}

ContractInit ==
    /\ queue = [l \in Links |-> 0]
    /\ demand = NoTokens /\ realized = NoTokens
    /\ effective = [l \in Links |-> 0]
    /\ asked = FALSE

(* Vehicles that asked to turn out of l, or to end there, and still wait:  *)
(* a reroute may change their turn, nothing else makes them stop asking.   *)
TurnsAsked(d, l) == TotalAsked(d, l) - d[<<l, None>>]
StillAsking(d) ==
    \A l \in Links :
        /\ d[<<l, None>>] >= demand[<<l, None>>] - realized[<<l, None>>]
        /\ TurnsAsked(d, l) >= TurnsAsked(demand, l) - TurnsAsked(realized, l)

(* The vehicles that ask to leave were present before the admissions: all  *)
(* of them in point-queue mode, the exit-ready ones in spatial mode.       *)
Present(d) ==
    \A l \in Links : IF Spatial THEN TotalAsked(d, l) <= queue[l]
                      ELSE TotalAsked(d, l) = queue[l]

(* The runtime admits vehicles (up to the bound) and rebuilds the demand,  *)
(* and incidents set the effective capacities.                             *)
Ask(q, d, e) ==
    /\ ~ asked
    /\ StillAsking(d) /\ Present(d)
    /\ \A l \in Links : (q[l] = queue[l] \/ q[l] \in queue[l] .. Limit(l))
                         /\ e[l] \in Capacities[l]
    /\ \A m \in Movements : d[m] \in 0 .. MaxAsk[m]
    /\ queue' = q /\ demand' = d /\ effective' = e
    /\ asked' = TRUE
    /\ UNCHANGED realized

Realize ==
    /\ asked
    /\ \E service \in Budgets(SendingLinks(demand)),
          receiving \in Budgets(ReceivingLinks(demand)) :
          IsGrant(realized', queue, demand, service, receiving)
    /\ queue' = NextQueue(queue, realized')
    /\ asked' = FALSE
    /\ UNCHANGED <<demand, effective>>

ContractNext == Realize \/ (~ asked /\ Ask(queue', demand', effective'))

ContractSpec == ContractInit /\ [][ContractNext]_contractVars
===============================================================================
