---------------------------- MODULE FlowAuthority ----------------------------
(***************************************************************************)
(* _apply_discrete_agent_flow_authority (src/src/metroflow/flow/engine.py) *)
(* with the fractional allocation it starts from: capacities accrue whole  *)
(* service and receiving tokens, with a residual and at most one carried   *)
(* token, and a heap serves vehicles one at a time, the movement with the  *)
(* largest credit first.                                                   *)
(*                                                                         *)
(* Quantities in vehicles per tick (capacities, residuals, credits) are    *)
(* integers in 1/Scale vehicles and quotients are rounded down, where the  *)
(* code rounds to float32.  turn_base_priority is 1.                       *)
(***************************************************************************)
EXTENDS FlowContract

CONSTANTS
    Class,      \* Class[m]: the heap's tie-break of a movement (class, index)
    WaitBound,  \* rounds a movement may wait (NoStarvation)
    CreditBound \* vehicles of credit or deficit (CreditBounded)

ASSUME ClassAssumption ==
    /\ Class \in [Movements -> Nat]
    /\ \A m, n \in Movements : Class[m] = Class[n] => m = n
    /\ \A s \in Sinks, t \in Turns : Class[s] < Class[t]

VARIABLES
    serviceResidual, receivingResidual,     \* runtime_link_*_residual
    serviceCarry, receivingCarry,           \* runtime_link_*_token_carry
    credit,     \* runtime_turn_flow_residual, runtime_sink_flow_residual
    heap,       \* the movements on service_heap (their key is their credit)
    left,       \* remaining_service, _receiving and _vehicles of each link
    granted,    \* realized_turn and sink_flow so far
    updating,   \* the update is between its accrual and its result
    waited      \* history: rounds in a row a movement could pass and was not served

residualVars == <<serviceResidual, receivingResidual, serviceCarry, receivingCarry>>
workVars == <<heap, left, granted, updating>>
vars == <<contractVars, residualVars, credit, workVars, waited>>

FewerOf(a, b) == IF a < b THEN a ELSE b
Div(a, b) == IF b > 0 THEN a \div b ELSE 0
SumOver(f, S) == MapThenSumSet(LAMBDA x : f[x], S)
From(l) == {m \in Turns : m[1] = l}
To(l) == {m \in Turns : m[2] = l}

-----------------------------------------------------------------------------
(* _compute_baseline_flow_arrays_numpy_core: the fractional turn flow. *)
HasSpace(l) == Spatial => Storage[l] - queue[l] >= 1

FractionalFlow ==
    [m \in Turns |->
        LET available == FewerOf(queue[m[1]] * Scale, effective[m[1]])
            supply == FewerOf(Div(available * demand[m], SumOver(demand, From(m[1]))),
                              Div(effective[m[2]] * demand[m], SumOver(demand, To(m[2]))))
        IN  IF HasSpace(m[2]) THEN FewerOf(demand[m] * Scale, supply) ELSE 0]

(* The turns in demand whose fractional flow is positive, as the code      *)
(* computes it: a share of a vehicle counts, however small.                *)
Eligible ==
    {m \in Turns : /\ demand[m] > 0 /\ queue[m[1]] > 0 /\ HasSpace(m[2])
                   /\ effective[m[1]] > 0 /\ effective[m[2]] > 0}

(* has_sending_demand, has_receiving_demand *)
Sending(l) == (\E m \in Eligible : m[1] = l) \/ demand[<<l, None>>] > 0
Receiving(l) == \E m \in Eligible : m[2] = l

(* Tokens a link accrues: whole vehicles of residual plus capacity, and    *)
(* the carried one.  Without demand the residual and the carry are lost.   *)
Accrued(residual, l, inDemand) == IF inDemand THEN residual[l] + effective[l] ELSE 0

(* Mutant: a closed link keeps its carried token. *)
CarryEnabledWhenClosed(l, inDemand) == inDemand

CarryEnabled(l, inDemand) == inDemand /\ effective[l] > 0

(* What is carried of the tokens a link did not spend. *)
Carried(unspent) == FewerOf(unspent, 1)

Tokens(residual, carry, l, inDemand) ==
    Accrued(residual, l, inDemand) \div Scale
        + (IF CarryEnabled(l, inDemand) THEN carry[l] ELSE 0)

(* The share of a link's capacity its turns, and its sink, gain as credit. *)
InternalBudget(flow, l) ==
    LET internal == SumOver(demand, From(l) \cap Eligible)
    IN  FewerOf(Div(effective[l] * internal, internal + demand[<<l, None>>]),
                SumOver(flow, From(l)))

(* Mutant: the sinks gain nothing while turns compete with them. *)
CreditGainTurnsOnly(flow, m) ==
    IF m \in Turns
    THEN Div(flow[m] * InternalBudget(flow, m[1]), SumOver(flow, From(m[1])))
    ELSE 0

CreditGain(flow, m) ==
    IF m \in Turns
    THEN Div(flow[m] * InternalBudget(flow, m[1]), SumOver(flow, From(m[1])))
    ELSE FewerOf(demand[m] * Scale, effective[m[1]] - InternalBudget(flow, m[1]))

-----------------------------------------------------------------------------
NothingLeft == [l \in Links |-> [service |-> 0, receiving |-> 0, vehicles |-> 0]]

Init ==
    /\ ContractInit
    /\ serviceResidual = [l \in Links |-> 0] /\ receivingResidual = [l \in Links |-> 0]
    /\ serviceCarry = [l \in Links |-> 0] /\ receivingCarry = [l \in Links |-> 0]
    /\ credit = [m \in Movements |-> 0]
    /\ heap = {} /\ left = NothingLeft /\ granted = NoTokens /\ updating = FALSE
    /\ waited = [m \in Movements |-> 0]

(* Bound of the exploration: no further round once a credit has left the   *)
(* bound.  CreditBounded tells whether the bound was ever reached.         *)
WithinCreditBound ==
    \A m \in Movements : credit[m] \in -(CreditBound * Scale) .. CreditBound * Scale

Request(q, d, e) ==
    /\ WithinCreditBound
    /\ Ask(q, d, e)
    /\ UNCHANGED <<residualVars, credit, workVars, waited>>

(* The accrual of tokens and credits, up to the heap. *)
Accrue ==
    LET flow == FractionalFlow
        received(l) == Tokens(receivingResidual, receivingCarry, l, Receiving(l))
    IN  /\ asked /\ ~ updating
        /\ left' = [l \in Links |->
              [service |-> Tokens(serviceResidual, serviceCarry, l, Sending(l)),
               receiving |-> IF Spatial THEN FewerOf(received(l), Storage[l] - queue[l])
                             ELSE received(l),
               vehicles |-> queue[l]]]
        /\ serviceResidual' =
              [l \in Links |-> Accrued(serviceResidual, l, Sending(l)) % Scale]
        /\ receivingResidual' =
              [l \in Links |-> Accrued(receivingResidual, l, Receiving(l)) % Scale]
        /\ credit' = [m \in Movements |->
              IF demand[m] > 0 THEN credit[m] + CreditGain(flow, m) ELSE 0]
        /\ heap' = Eligible \cup {m \in Sinks : demand[m] > 0}
        /\ granted' = NoTokens /\ updating' = TRUE
        /\ UNCHANGED <<contractVars, serviceCarry, receivingCarry, waited>>

-----------------------------------------------------------------------------
(* The heap loop. *)

(* Mutant: sinks are always served before turns. *)
IsTopByClass(m) == m \in heap /\ \A n \in heap \ {m} : Class[m] < Class[n]

IsTop(m) ==
    /\ m \in heap
    /\ \A n \in heap \ {m} :
          \/ credit[m] > credit[n]
          \/ credit[m] = credit[n] /\ Class[m] < Class[n]

Servable(m, g, room) ==
    /\ g[m] < demand[m] /\ room[m[1]].service > 0 /\ room[m[1]].vehicles > 0
    /\ m \in Turns => room[m[2]].receiving > 0

(* What is left once one vehicle made movement m. *)
Use(m) ==
    [l \in Links |->
        [service |-> left[l].service - (IF l = m[1] THEN 1 ELSE 0),
         receiving |-> left[l].receiving - (IF l = m[2] THEN 1 ELSE 0),
         vehicles |-> left[l].vehicles - (IF l = m[1] THEN 1 ELSE 0)]]

(* The top movement makes one vehicle move, and stays while it can. *)
Serve(m) ==
    LET next == [granted EXCEPT ![m] = @ + 1]
    IN  /\ updating /\ IsTop(m) /\ Servable(m, granted, left)
        /\ granted' = next
        /\ left' = Use(m)
        /\ credit' = [credit EXCEPT ![m] = @ - Scale]
        /\ heap' = IF Servable(m, next, Use(m)) THEN heap ELSE heap \ {m}
        /\ UNCHANGED <<contractVars, residualVars, updating, waited>>

Drop(m) ==
    /\ updating /\ IsTop(m) /\ ~ Servable(m, granted, left)
    /\ heap' = heap \ {m}
    /\ UNCHANGED <<contractVars, residualVars, credit, left, granted, updating, waited>>

(* A movement in demand that neither a closure nor a full link holds back. *)
Passable(m) ==
    /\ demand[m] > 0 /\ effective[m[1]] > 0
    /\ m \in Turns => effective[m[2]] > 0 /\ HasSpace(m[2])

(* The result: the queues move by the grant, unspent tokens carry over.    *)
Close ==
    /\ updating /\ heap = {}
    /\ realized' = granted
    /\ queue' = NextQueue(queue, granted)
    /\ asked' = FALSE /\ updating' = FALSE
    /\ serviceCarry' = [l \in Links |->
          IF CarryEnabled(l, Sending(l)) THEN Carried(left[l].service) ELSE 0]
    /\ receivingCarry' = [l \in Links |->
          IF CarryEnabled(l, Receiving(l)) THEN Carried(left[l].receiving) ELSE 0]
    /\ waited' = [m \in Movements |->
          IF Passable(m) /\ granted[m] = 0 THEN waited[m] + 1 ELSE 0]
    /\ granted' = NoTokens /\ left' = NothingLeft
    /\ UNCHANGED <<demand, effective, serviceResidual, receivingResidual, credit, heap>>

Asks ==
    {d \in [Movements -> 0 .. Max({MaxAsk[m] : m \in Movements})] :
        (\A m \in Movements : d[m] <= MaxAsk[m]) /\ StillAsking(d) /\ Present(d)}

Requests ==
    /\ ~ asked
    /\ \E d \in Asks, e \in [Links -> UNION {Capacities[l] : l \in Links}],
          q \in [Links -> 0 .. Max({Limit(l) : l \in Links} \cup {queue[l] : l \in Links})] :
             Request(q, d, e)

Next ==
    \/ Requests
    \/ Accrue
    \/ \E m \in Movements : Serve(m) \/ Drop(m)
    \/ Close

Spec == Init /\ [][Next]_vars

-----------------------------------------------------------------------------
(* "neither movement class can starve the other" (the docstring): a        *)
(* movement in demand is served within WaitBound rounds in a row with      *)
(* capacity and room, whatever competes with it.                           *)
NoStarvation == \A m \in Movements : waited[m] <= WaitBound

(* The deficit a movement can run up, or be owed, stays bounded.           *)
CreditBounded == WithinCreditBound
===============================================================================
