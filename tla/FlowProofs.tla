------------------------------- MODULE FlowProofs -------------------------------
(***************************************************************************)
(* The heap loop of the discrete flow authority implements the abstract    *)
(* flow update of FlowContract, for every network, capacity, storage and   *)
(* demand, and whatever the credits are: they order the vehicles and       *)
(* decide who is served, never how many tokens are used.                   *)
(*                                                                         *)
(* AuthorityInv says what the loop keeps.  For every link the tokens not   *)
(* spent and the vehicles granted add up to what the update began with     *)
(* (Balanced), which is within the contract's budget (WithinBudget), and a *)
(* movement that is off the heap cannot be served any more (Exhausted):    *)
(* the queue, the tokens and the space it lacked only shrink.              *)
(***************************************************************************)
EXTENDS FlowAuthority, FiniteSetTheorems, Counting, TLAPS

FlowTypeOK ==
    /\ queue \in [Links -> Nat] /\ demand \in [Movements -> Nat] /\ effective \in [Links -> Nat]
    /\ asked \in BOOLEAN /\ updating \in BOOLEAN
    /\ serviceResidual \in [Links -> 0 .. Scale - 1]
    /\ receivingResidual \in [Links -> 0 .. Scale - 1]
    /\ serviceCarry \in [Links -> 0 .. 1] /\ receivingCarry \in [Links -> 0 .. 1]
    /\ granted \in [Movements -> Nat]
    /\ left \in [Links -> [service : Nat, receiving : Nat, vehicles : Nat]]

(* "spatial queue update exceeded finite link storage" is never raised. *)
FitsStorage == Spatial => \A l \in Links : queue[l] <= Storage[l]

(* The movements that are put on the heap. *)
Contending == Eligible \cup {m \in Sinks : demand[m] > 0}

(* The service, and the receiving, tokens a link began the update with. *)
Service(l) == left[l].service + Leaving(granted, l)
Receipt(l) == left[l].receiving + Entering(granted, l)

SpaceFor(l, tokens) ==
    IF Spatial THEN FewerOf(tokens, Storage[l] - queue[l]) ELSE tokens

Balanced ==
    /\ \A m \in Movements : granted[m] <= demand[m]
    /\ \A l \in Links : left[l].vehicles + Leaving(granted, l) = queue[l]

WithinBudget ==
    \A l \in Links :
        /\ IF Sending(l) THEN Service(l) \in Fewest(l) .. Most(l) ELSE Service(l) = 0
        /\ IF Receiving(l) THEN \E b \in Fewest(l) .. Most(l) : Receipt(l) = SpaceFor(l, b)
           ELSE Receipt(l) = 0

Exhausted == \A m \in Contending \ heap : ~ Servable(m, granted, left)

LoopInv == asked /\ heap \subseteq Contending /\ Balanced /\ WithinBudget /\ Exhausted

AuthorityInv == FlowTypeOK /\ FitsStorage /\ (updating => LoopInv)

-----------------------------------------------------------------------------
(* Sums of grants. *)

(* A network has finitely many movements. *)
LEMMA MovementsFinite == IsFiniteSet(Movements) /\ \A S \in SUBSET Movements : IsFiniteSet(S)
<1>1. IsFiniteSet(Links \X Links) /\ IsFiniteSet(Links \X {None})
    BY LinksAssumption, FS_Product, FS_Singleton
<1>2. IsFiniteSet(Turns) /\ IsFiniteSet(Sinks)
    BY <1>1, TurnsAssumption, FS_Subset DEF Sinks
<1>3. IsFiniteSet(Movements)
    BY <1>2, FS_Union DEF Movements
<1> QED BY <1>3, FS_Subset

(* No turn is a sink, and the ends of a movement are links, or None. *)
LEMMA EndsOfMovements ==
    ASSUME NEW m \in Movements
    PROVE  /\ m[1] \in Links
           /\ m \in Turns => m[2] \in Links /\ m \notin Sinks
           /\ m \in Sinks => m[2] \notin Links /\ m = <<m[1], None>>
BY LinksAssumption, TurnsAssumption DEF Movements, Sinks, None

Out(l) == {m \in Movements : m[1] = l}
In(l) == {m \in Turns : m[2] = l}

(* The vehicles leaving, and entering, a link are sums over movements. *)
LEMMA LeavingEnteringSums ==
    ASSUME NEW g, NEW l
    PROVE  /\ Leaving(g, l) = SumOn(g, Out(l)) /\ Entering(g, l) = SumOn(g, In(l))
           /\ Out(l) \in SUBSET Movements /\ IsFiniteSet(Out(l))
           /\ In(l) \in SUBSET Movements /\ IsFiniteSet(In(l))
<1>1. Out(l) \subseteq Movements /\ In(l) \subseteq Movements
    BY DEF Out, In, Movements
<1>2. Leaving(g, l) = SumOn(g, Out(l)) /\ Entering(g, l) = SumOn(g, In(l))
    BY DEF Leaving, Entering, SumOn, Out, In
<1> QED BY <1>1, <1>2, MovementsFinite

(* They are counts, and nothing moves without tokens. *)
LEMMA LeavingEnteringType ==
    ASSUME NEW l
    PROVE  /\ \A g \in [Movements -> Nat] : Leaving(g, l) \in Nat /\ Entering(g, l) \in Nat
           /\ Leaving(NoTokens, l) = 0 /\ Entering(NoTokens, l) = 0
<1>1. \A m \in Movements : NoTokens[m] = 0
    BY DEF NoTokens
<1>2. Leaving(NoTokens, l) = 0 /\ Entering(NoTokens, l) = 0
    BY <1>1, LeavingEnteringSums, SumType
<1> QED BY <1>2, LeavingEnteringSums, SumType

(* One vehicle more for movement m. *)
LEMMA OneMore ==
    ASSUME NEW g \in [Movements -> Nat], NEW m \in Movements, NEW l,
           NEW h \in [Movements -> Nat], h[m] = g[m] + 1, \A n \in Movements \ {m} : h[n] = g[n]
    PROVE  /\ Leaving(h, l) = Leaving(g, l) + (IF m[1] = l THEN 1 ELSE 0)
           /\ Entering(h, l) = Entering(g, l) + (IF m \in Turns /\ m[2] = l THEN 1 ELSE 0)
<1>1. h \in [Movements -> Int] /\ g \in [Movements -> Int] /\ g[m] \in Nat
    OBVIOUS
<1>2. SumOn(g, Out(l)) \in Int /\ SumOn(g, In(l)) \in Int
    BY LeavingEnteringSums, SumType
<1>3. ASSUME NEW S \in SUBSET Movements, IsFiniteSet(S)
      PROVE  /\ m \in S => SumOn(h, S) = SumOn(g, S) - g[m] + h[m]
             /\ m \notin S => SumOn(h, S) = SumOn(g, S)
    BY <1>1, <1>3, SumUpdate
<1>4. (m \in Out(l) <=> m[1] = l) /\ (m \in In(l) <=> m \in Turns /\ m[2] = l)
    BY DEF Out, In
<1> QED BY <1>1, <1>2, <1>3, <1>4, LeavingEnteringSums

-----------------------------------------------------------------------------
(* Tokens. *)

(* Whole vehicles of a residual below one vehicle and a capacity. *)
LEMMA WholeVehicles ==
    ASSUME NEW r \in 0 .. Scale - 1, NEW e \in Nat
    PROVE  /\ (r + e) \div Scale \in e \div Scale .. e \div Scale + 1
           /\ e \div Scale \in Nat
           /\ (r + e) % Scale \in 0 .. Scale - 1
           /\ r \div Scale = 0
<1>1. Scale \in Nat \ {0}
    BY ContractAssumption
<1> QED BY <1>1

LEMMA MinOfTwo ==
    ASSUME NEW a \in Int, NEW b \in Int
    PROVE  Min({a, b}) = FewerOf(a, b)
<1>1. \E x \in {a, b} : \A y \in {a, b} : x <= y
    OBVIOUS
<1> QED BY <1>1 DEF Min, FewerOf

(* The room of the contract, with the tokens of this module. *)
LEMMA RoomIsSpace ==
    ASSUME FlowTypeOK, NEW receiving, NEW l \in Links, receiving[l] \in Nat
    PROVE  Room(queue, receiving, l) = SpaceFor(l, receiving[l])
<1>1. Storage[l] - queue[l] \in Int
    BY StorageAssumption DEF FlowTypeOK
<1>2. PICK free \in Int : free = Storage[l] - queue[l]
    BY <1>1
<1>3. Min({receiving[l], free}) = FewerOf(receiving[l], free)
    BY MinOfTwo
<1> QED BY <1>2, <1>3 DEF Room, SpaceFor

(* What a link in demand accrues from a residual r, a capacity e and a     *)
(* carried token c is within the budget of the contract.                   *)
LEMMA AccrualWithinBudget ==
    ASSUME NEW r \in 0 .. Scale - 1, NEW c \in 0 .. 1, NEW e \in Nat
    PROVE  (r + e) \div Scale + (IF e > 0 THEN c ELSE 0)
             \in e \div Scale .. (IF e = 0 THEN 0 ELSE e \div Scale + 2)
<1>1. /\ (r + e) \div Scale \in e \div Scale .. e \div Scale + 1
      /\ e \div Scale \in Nat /\ r \div Scale = 0
    BY WholeVehicles
<1>2. CASE e = 0
  <2>1. 0 \div Scale = 0 /\ r + e = r
      BY <1>2, ContractAssumption
  <2> QED BY <1>1, <1>2, <2>1
<1>3. CASE e > 0
  <2>1. PICK p \in Nat : p = e \div Scale
      BY <1>1
  <2>2. PICK t \in p .. p + 1 : t = (r + e) \div Scale
      BY <1>1, <2>1
  <2> QED BY <1>3, <2>1, <2>2
<1> QED BY <1>2, <1>3

(* The budget of a link is a range of counts. *)
LEMMA BudgetType ==
    ASSUME FlowTypeOK, NEW l \in Links
    PROVE  Fewest(l) \in Nat /\ Most(l) \in Nat /\ Fewest(l) <= Most(l)
<1>1. PICK e \in Nat : e = effective[l]
    BY DEF FlowTypeOK
<1>2. PICK p \in Nat : p = e \div Scale
    BY ContractAssumption
<1>3. 0 \div Scale = 0
    BY ContractAssumption
<1>4. e = 0 => p = 0
    BY <1>2, <1>3
<1> QED BY <1>1, <1>2, <1>4 DEF Fewest, Most

(* Tokens of a link in demand, and of one without. *)
LEMMA ServiceTokens ==
    ASSUME FlowTypeOK, NEW l \in Links
    PROVE  LET t == Tokens(serviceResidual, serviceCarry, l, Sending(l))
           IN  IF Sending(l) THEN t \in Fewest(l) .. Most(l) ELSE t = 0
<1>1. PICK r \in 0 .. Scale - 1, e \in Nat, c \in 0 .. 1 :
        r = serviceResidual[l] /\ e = effective[l] /\ c = serviceCarry[l]
    BY DEF FlowTypeOK
<1>2. (r + e) \div Scale + (IF e > 0 THEN c ELSE 0)
         \in e \div Scale .. (IF e = 0 THEN 0 ELSE e \div Scale + 2)
    BY AccrualWithinBudget
<1>3. 0 \div Scale + 0 = 0
    BY ContractAssumption
<1>4. ASSUME Sending(l)
      PROVE  Tokens(serviceResidual, serviceCarry, l, Sending(l)) \in Fewest(l) .. Most(l)
    BY <1>1, <1>2, <1>4 DEF Tokens, Accrued, CarryEnabled, Fewest, Most
<1>5. ASSUME ~ Sending(l)
      PROVE  Tokens(serviceResidual, serviceCarry, l, Sending(l)) = 0
    BY <1>3, <1>5 DEF Tokens, Accrued, CarryEnabled
<1> QED BY <1>4, <1>5

LEMMA ReceivingTokens ==
    ASSUME FlowTypeOK, NEW l \in Links
    PROVE  LET t == Tokens(receivingResidual, receivingCarry, l, Receiving(l))
           IN  IF Receiving(l) THEN t \in Fewest(l) .. Most(l) ELSE t = 0
<1>1. PICK r \in 0 .. Scale - 1, e \in Nat, c \in 0 .. 1 :
        r = receivingResidual[l] /\ e = effective[l] /\ c = receivingCarry[l]
    BY DEF FlowTypeOK
<1>2. (r + e) \div Scale + (IF e > 0 THEN c ELSE 0)
         \in e \div Scale .. (IF e = 0 THEN 0 ELSE e \div Scale + 2)
    BY AccrualWithinBudget
<1>3. 0 \div Scale + 0 = 0
    BY ContractAssumption
<1>4. ASSUME Receiving(l)
      PROVE  Tokens(receivingResidual, receivingCarry, l, Receiving(l)) \in Fewest(l) .. Most(l)
    BY <1>1, <1>2, <1>4 DEF Tokens, Accrued, CarryEnabled, Fewest, Most
<1>5. ASSUME ~ Receiving(l)
      PROVE  Tokens(receivingResidual, receivingCarry, l, Receiving(l)) = 0
    BY <1>3, <1>5 DEF Tokens, Accrued, CarryEnabled
<1> QED BY <1>4, <1>5

-----------------------------------------------------------------------------
(* AuthorityInv holds initially and is preserved. *)

LEMMA InitAuthority == Init => AuthorityInv
<1> SUFFICES ASSUME Init PROVE AuthorityInv
    OBVIOUS
<1>1. 0 \in 0 .. Scale - 1
    BY ContractAssumption
<1>2. FlowTypeOK
  <2>1. /\ queue \in [Links -> Nat] /\ demand \in [Movements -> Nat]
        /\ effective \in [Links -> Nat] /\ granted \in [Movements -> Nat]
        /\ asked \in BOOLEAN /\ updating \in BOOLEAN
      BY DEF Init, ContractInit, NoTokens
  <2>2. /\ serviceResidual \in [Links -> 0 .. Scale - 1]
        /\ receivingResidual \in [Links -> 0 .. Scale - 1]
      BY <1>1 DEF Init
  <2>3. serviceCarry \in [Links -> 0 .. 1] /\ receivingCarry \in [Links -> 0 .. 1]
      BY DEF Init
  <2>4. left \in [Links -> [service : Nat, receiving : Nat, vehicles : Nat]]
      BY DEF Init, NothingLeft
  <2> QED BY <2>1, <2>2, <2>3, <2>4 DEF FlowTypeOK
<1>3. FitsStorage
    BY StorageAssumption DEF FitsStorage, Init, ContractInit
<1>4. ~ updating
    BY DEF Init
<1> QED BY <1>2, <1>3, <1>4 DEF AuthorityInv

LEMMA RequestAuthority ==
    ASSUME AuthorityInv, ~ asked, NEW Counts, NEW Amounts, NEW Wishes,
           NEW q \in [Links -> Counts], NEW e \in [Links -> Amounts],
           NEW d \in [Movements -> Wishes], Request(q, d, e)
    PROVE  AuthorityInv'
<1>1. ~ updating /\ UNCHANGED <<updating, granted, left>> /\ UNCHANGED residualVars
    BY DEF AuthorityInv, LoopInv, Request, workVars
<1>2. Ask(q, d, e)
    BY DEF Request
<1>3. \A l \in Links : Limit(l) \in Nat /\ (Spatial => Limit(l) = Storage[l])
    BY StorageAssumption, ContractAssumption DEF Limit
<1>4. \A l \in Links : q[l] \in Nat /\ (Spatial => q[l] <= Storage[l])
    BY <1>2, <1>3 DEF Ask, AuthorityInv, FlowTypeOK, FitsStorage
<1>5. (\A l \in Links : e[l] \in Nat) /\ (\A m \in Movements : d[m] \in Nat)
    BY <1>2, ContractAssumption DEF Ask
<1>6. /\ queue' \in [Links -> Nat] /\ effective' \in [Links -> Nat] /\ demand' \in [Movements -> Nat]
      /\ asked' = TRUE
    BY <1>2, <1>4, <1>5 DEF Ask
<1>7. FlowTypeOK'
    BY <1>1, <1>6 DEF AuthorityInv, FlowTypeOK, residualVars
<1>8. FitsStorage'
    BY <1>2, <1>4 DEF FitsStorage, Ask
<1> QED BY <1>1, <1>7, <1>8 DEF AuthorityInv

LEMMA RequestsAuthority == AuthorityInv /\ Requests => AuthorityInv'
<1> SUFFICES ASSUME AuthorityInv, Requests PROVE AuthorityInv'
    OBVIOUS
<1> DEFINE Wishes == 0 .. Max({MaxAsk[m] : m \in Movements})
           Amounts == UNION {Capacities[l] : l \in Links}
           Counts == 0 .. Max({Limit(l) : l \in Links} \cup {queue[l] : l \in Links})
<1>1. ~ asked
    BY DEF Requests
<1>2. PICK d \in Asks, e \in [Links -> Amounts], q \in [Links -> Counts] : Request(q, d, e)
    BY DEF Requests
<1>3. d \in [Movements -> Wishes]
    BY DEF Asks
<1> HIDE DEF Wishes, Amounts, Counts
<1> QED BY <1>1, <1>2, <1>3, RequestAuthority

(* The accrual: nothing is granted yet, and everything contending is on    *)
(* the heap.                                                               *)
LEMMA AccrueAuthority == AuthorityInv /\ Accrue => AuthorityInv'
<1> SUFFICES ASSUME AuthorityInv, Accrue PROVE AuthorityInv'
    OBVIOUS
<1> USE DEF AuthorityInv
<1> DEFINE served(l) == Tokens(serviceResidual, serviceCarry, l, Sending(l))
           received(l) == Tokens(receivingResidual, receivingCarry, l, Receiving(l))
<1>1. UNCHANGED contractVars /\ granted' = NoTokens /\ updating' = TRUE /\ heap' = Contending
    BY DEF Accrue, Contending
<1>2. /\ queue' = queue /\ demand' = demand /\ effective' = effective /\ asked' = asked
      /\ serviceCarry' = serviceCarry /\ receivingCarry' = receivingCarry /\ asked
    BY DEF Accrue, contractVars
<1>3. \A l \in Links :
        /\ IF Sending(l) THEN served(l) \in Fewest(l) .. Most(l) ELSE served(l) = 0
        /\ IF Receiving(l) THEN received(l) \in Fewest(l) .. Most(l) ELSE received(l) = 0
    BY ServiceTokens, ReceivingTokens
<1>4. \A l \in Links : Fewest(l) \in Nat /\ Most(l) \in Nat
    BY BudgetType
<1>5. \A l \in Links : queue[l] \in Nat /\ (Spatial => Storage[l] - queue[l] \in Nat)
    BY StorageAssumption DEF FlowTypeOK, FitsStorage
<1>6. left' = [l \in Links |-> [service |-> served(l),
                               receiving |-> SpaceFor(l, received(l)),
                               vehicles |-> queue[l]]]
    BY DEF Accrue, SpaceFor
<1>7. \A l \in Links : served(l) \in Nat /\ received(l) \in Nat
    BY <1>3, <1>4
<1> HIDE DEF served, received
<1>8. \A l \in Links : SpaceFor(l, received(l)) \in Nat /\ (~ Receiving(l) => SpaceFor(l, received(l)) = 0)
    BY <1>3, <1>5, <1>7 DEF SpaceFor, FewerOf
<1>9. left' \in [Links -> [service : Nat, receiving : Nat, vehicles : Nat]]
    BY <1>5, <1>6, <1>7, <1>8
<1>10. /\ serviceResidual' \in [Links -> 0 .. Scale - 1]
       /\ receivingResidual' \in [Links -> 0 .. Scale - 1]
  <2>1. \A l \in Links : Accrued(serviceResidual, l, Sending(l)) \in Nat
      BY ContractAssumption DEF Accrued, FlowTypeOK
  <2>2. \A l \in Links : Accrued(receivingResidual, l, Receiving(l)) \in Nat
      BY ContractAssumption DEF Accrued, FlowTypeOK
  <2>3. \A n \in Nat : n % Scale \in 0 .. Scale - 1
      BY ContractAssumption
  <2>4. \A l \in Links : Accrued(serviceResidual, l, Sending(l)) % Scale \in 0 .. Scale - 1
      BY <2>1, <2>3
  <2>5. \A l \in Links : Accrued(receivingResidual, l, Receiving(l)) % Scale \in 0 .. Scale - 1
      BY <2>2, <2>3
  <2> QED BY <2>4, <2>5 DEF Accrue
<1>11. NoTokens \in [Movements -> Nat]
    BY DEF NoTokens
<1>12. FlowTypeOK'
    BY <1>1, <1>2, <1>9, <1>10, <1>11 DEF FlowTypeOK
<1>13. FitsStorage'
    BY <1>2 DEF FitsStorage
<1>14. /\ Contending' = Contending
       /\ \A l \in Links : /\ Sending(l)' = Sending(l) /\ Receiving(l)' = Receiving(l)
                            /\ Fewest(l)' = Fewest(l) /\ Most(l)' = Most(l)
    BY <1>2 DEF Contending, Eligible, HasSpace, Sending, Receiving, Fewest, Most
<1>15. \A l \in Links : Leaving(granted', l) = 0 /\ Entering(granted', l) = 0
    BY <1>1, LeavingEnteringType
<1>16. Balanced'
  <2>1. \A m \in Movements : granted'[m] <= demand'[m]
      BY <1>1, <1>2 DEF NoTokens, FlowTypeOK
  <2>2. \A l \in Links : left'[l].vehicles + Leaving(granted', l) = queue'[l]
      BY <1>2, <1>5, <1>6, <1>15
  <2> QED BY <2>1, <2>2 DEF Balanced
<1>17. \A l \in Links : Service(l)' = served(l) /\ Receipt(l)' = SpaceFor(l, received(l))
    BY <1>6, <1>7, <1>8, <1>15 DEF Service, Receipt
<1>18. WithinBudget'
  <2> SUFFICES ASSUME NEW l \in Links
               PROVE  /\ IF Sending(l) THEN Service(l)' \in Fewest(l) .. Most(l) ELSE Service(l)' = 0
                      /\ IF Receiving(l)
                         THEN \E b \in Fewest(l) .. Most(l) : Receipt(l)' = SpaceFor(l, b)'
                         ELSE Receipt(l)' = 0
      BY <1>14 DEF WithinBudget
  <2>1. \A b : SpaceFor(l, b)' = SpaceFor(l, b)
      BY <1>2 DEF SpaceFor
  <2> QED BY <1>3, <1>8, <1>17, <2>1
<1>19. Exhausted' /\ (heap \subseteq Contending)'
    BY <1>1, <1>14 DEF Exhausted
<1> QED BY <1>2, <1>12, <1>13, <1>16, <1>18, <1>19 DEF LoopInv

(* A movement that cannot be served is not served after others were.       *)
LEMMA StaysExhausted ==
    ASSUME NEW m \in Movements, NEW g, NEW h, NEW room, NEW less,
           g \in [Movements -> Nat], h \in [Movements -> Nat], g[m] <= h[m],
           room \in [Links -> [service : Nat, receiving : Nat, vehicles : Nat]],
           less \in [Links -> [service : Nat, receiving : Nat, vehicles : Nat]],
           \A l \in Links : /\ less[l].service <= room[l].service
                            /\ less[l].receiving <= room[l].receiving
                            /\ less[l].vehicles <= room[l].vehicles,
           demand \in [Movements -> Nat], ~ Servable(m, g, room)
    PROVE  ~ Servable(m, h, less)
<1>1. m[1] \in Links /\ (m \in Turns => m[2] \in Links)
    BY EndsOfMovements
<1>2. g[m] \in Nat /\ h[m] \in Nat /\ demand[m] \in Nat
    OBVIOUS
<1>3. \A l \in Links : /\ room[l].service \in Nat /\ less[l].service \in Nat
                       /\ room[l].receiving \in Nat /\ less[l].receiving \in Nat
                       /\ room[l].vehicles \in Nat /\ less[l].vehicles \in Nat
    OBVIOUS
<1> QED BY <1>1, <1>2, <1>3 DEF Servable

LEMMA ServeAuthority ==
    ASSUME AuthorityInv, NEW m \in Movements, Serve(m)
    PROVE  AuthorityInv'
<1> USE DEF AuthorityInv
<1> DEFINE next == [granted EXCEPT ![m] = @ + 1]
<1>1. /\ updating /\ m \in heap /\ Servable(m, granted, left)
      /\ granted' = next /\ left' = Use(m)
      /\ heap' = IF Servable(m, next, Use(m)) THEN heap ELSE heap \ {m}
      /\ UNCHANGED <<contractVars, residualVars, updating>>
    BY DEF Serve, IsTop
<1>2. /\ queue' = queue /\ demand' = demand /\ effective' = effective /\ asked' = asked
      /\ serviceResidual' = serviceResidual /\ receivingResidual' = receivingResidual
      /\ serviceCarry' = serviceCarry /\ receivingCarry' = receivingCarry /\ updating' = updating
    BY <1>1 DEF contractVars, residualVars
<1>3. LoopInv /\ FlowTypeOK
    BY <1>1
<1>4. /\ m[1] \in Links /\ (m \in Turns => m[2] \in Links) /\ (m \notin Turns => m[2] \notin Links)
    BY EndsOfMovements DEF Movements
<1>5. /\ next \in [Movements -> Nat] /\ next[m] = granted[m] + 1
      /\ \A n \in Movements \ {m} : next[n] = granted[n]
    BY <1>3 DEF FlowTypeOK
<1> HIDE DEF next
<1>6. \A l \in Links : /\ left[l].service \in Nat /\ left[l].receiving \in Nat /\ left[l].vehicles \in Nat
    BY <1>3 DEF FlowTypeOK
<1>7. /\ left[m[1]].service > 0 /\ left[m[1]].vehicles > 0 /\ granted[m] < demand[m]
      /\ m \in Turns => left[m[2]].receiving > 0
    BY <1>1 DEF Servable
<1>8. \A l \in Links :
        /\ left'[l].service = left[l].service - (IF l = m[1] THEN 1 ELSE 0)
        /\ left'[l].receiving = left[l].receiving - (IF l = m[2] THEN 1 ELSE 0)
        /\ left'[l].vehicles = left[l].vehicles - (IF l = m[1] THEN 1 ELSE 0)
    BY <1>1 DEF Use
<1>9. left' \in [Links -> [service : Nat, receiving : Nat, vehicles : Nat]]
  <2>1. ASSUME NEW l \in Links
        PROVE  /\ left[l].service - (IF l = m[1] THEN 1 ELSE 0) \in Nat
               /\ left[l].receiving - (IF l = m[2] THEN 1 ELSE 0) \in Nat
               /\ left[l].vehicles - (IF l = m[1] THEN 1 ELSE 0) \in Nat
      BY <1>4, <1>6, <1>7
  <2> QED BY <1>1, <2>1 DEF Use
<1>10. FlowTypeOK'
    BY <1>1, <1>2, <1>3, <1>5, <1>9 DEF FlowTypeOK
<1>11. FitsStorage'
    BY <1>2 DEF FitsStorage
<1>12. /\ Contending' = Contending
       /\ \A l \in Links : /\ Sending(l)' = Sending(l) /\ Receiving(l)' = Receiving(l)
                            /\ Fewest(l)' = Fewest(l) /\ Most(l)' = Most(l)
                            /\ \A b : SpaceFor(l, b)' = SpaceFor(l, b)
    BY <1>2 DEF Contending, Eligible, HasSpace, Sending, Receiving, Fewest, Most, SpaceFor
<1>13. \A l \in Links :
         /\ Leaving(granted', l) = Leaving(granted, l) + (IF l = m[1] THEN 1 ELSE 0)
         /\ Entering(granted', l) = Entering(granted, l) + (IF l = m[2] THEN 1 ELSE 0)
         /\ Leaving(granted, l) \in Nat /\ Entering(granted, l) \in Nat
  <2>1. \A l : /\ Leaving(next, l) = Leaving(granted, l) + (IF m[1] = l THEN 1 ELSE 0)
               /\ Entering(next, l) = Entering(granted, l) + (IF m \in Turns /\ m[2] = l THEN 1 ELSE 0)
      BY <1>3, <1>5, OneMore DEF FlowTypeOK
  <2>2. \A l : Leaving(granted, l) \in Nat /\ Entering(granted, l) \in Nat
      BY <1>3, LeavingEnteringType DEF FlowTypeOK
  <2> QED BY <1>1, <1>4, <2>1, <2>2
<1>14. Balanced'
  <2>1. \A n \in Movements : granted'[n] <= demand'[n]
      BY <1>1, <1>2, <1>3, <1>5, <1>7 DEF LoopInv, Balanced, FlowTypeOK
  <2>2. \A l \in Links : left'[l].vehicles + Leaving(granted', l) = queue'[l]
      BY <1>2, <1>3, <1>6, <1>8, <1>13 DEF LoopInv, Balanced
  <2> QED BY <2>1, <2>2 DEF Balanced
<1>15. \A l \in Links : Service(l)' = Service(l) /\ Receipt(l)' = Receipt(l)
    BY <1>6, <1>8, <1>13 DEF Service, Receipt
<1>16. WithinBudget'
    BY <1>3, <1>12, <1>15 DEF WithinBudget, LoopInv
<1>17. Exhausted' /\ (heap \subseteq Contending)'
  <2>1. heap' \subseteq Contending
      BY <1>1, <1>3 DEF LoopInv
  <2>2. ASSUME NEW n \in Contending \ heap' PROVE ~ Servable(n, granted', left')
    <3>1. n \in Movements
        BY DEF Contending, Eligible, Movements
    <3>2. CASE n \in heap
        BY <1>1, <2>2, <3>2
    <3>3. CASE n \notin heap
      <4>1. ~ Servable(n, granted, left) /\ granted[n] <= granted'[n]
          BY <1>1, <1>3, <1>5, <2>2, <3>1, <3>3 DEF LoopInv, Exhausted, FlowTypeOK
      <4>2. \A l \in Links : /\ left'[l].service <= left[l].service
                             /\ left'[l].receiving <= left[l].receiving
                             /\ left'[l].vehicles <= left[l].vehicles
          BY <1>6, <1>8
      <4> QED BY <1>1, <1>3, <1>5, <1>9, <3>1, <4>1, <4>2, StaysExhausted DEF FlowTypeOK
    <3> QED BY <3>2, <3>3
  <2>3. \A n : Servable(n, granted, left)' = Servable(n, granted', left')
      BY <1>2 DEF Servable
  <2> QED BY <1>12, <2>1, <2>2, <2>3 DEF Exhausted
<1> QED BY <1>2, <1>3, <1>10, <1>11, <1>14, <1>16, <1>17 DEF LoopInv

LEMMA DropAuthority ==
    ASSUME AuthorityInv, NEW m \in Movements, Drop(m)
    PROVE  AuthorityInv'
<1> USE DEF AuthorityInv
<1>1. /\ updating /\ ~ Servable(m, granted, left) /\ heap' = heap \ {m}
      /\ queue' = queue /\ demand' = demand /\ effective' = effective /\ asked' = asked
      /\ serviceResidual' = serviceResidual /\ receivingResidual' = receivingResidual
      /\ serviceCarry' = serviceCarry /\ receivingCarry' = receivingCarry /\ updating' = updating
      /\ granted' = granted /\ left' = left
    BY DEF Drop, contractVars, residualVars
<1>2. FlowTypeOK' /\ FitsStorage'
    BY <1>1 DEF FlowTypeOK, FitsStorage
<1>3. /\ Contending' = Contending /\ Balanced' /\ WithinBudget'
    BY <1>1 DEF Contending, Eligible, HasSpace, Sending, Receiving, Fewest, Most, SpaceFor,
                LoopInv, Balanced, WithinBudget, Service, Receipt
<1>4. Exhausted' /\ (heap \subseteq Contending)'
    BY <1>1, <1>3 DEF LoopInv, Exhausted, Servable
<1> QED BY <1>1, <1>2, <1>3, <1>4 DEF LoopInv

(* What the loop has granted when it ends takes no vehicle that is not     *)
(* there and fills no storage beyond its end.                              *)
LEMMA GrantedFits ==
    ASSUME AuthorityInv, updating, NEW l \in Links
    PROVE  /\ Leaving(granted, l) \in Nat /\ Entering(granted, l) \in Nat
           /\ Leaving(granted, l) <= queue[l] /\ queue[l] \in Nat
           /\ Spatial => Entering(granted, l) <= Storage[l] - queue[l]
<1>1. LoopInv /\ FlowTypeOK /\ FitsStorage
    BY DEF AuthorityInv
<1>2. Leaving(granted, l) \in Nat /\ Entering(granted, l) \in Nat
    BY <1>1, LeavingEnteringType DEF FlowTypeOK
<1>3. left[l].vehicles \in Nat /\ left[l].receiving \in Nat /\ queue[l] \in Nat
    BY <1>1 DEF FlowTypeOK
<1>4. Leaving(granted, l) <= queue[l]
    BY <1>1, <1>2, <1>3 DEF LoopInv, Balanced
<1>5. ASSUME Spatial PROVE Entering(granted, l) <= Storage[l] - queue[l]
  <2>1. PICK free \in Nat : free = Storage[l] - queue[l]
      BY <1>1, <1>3, <1>5, StorageAssumption DEF FitsStorage
  <2>2. CASE Receiving(l)
    <3>1. PICK b \in Fewest(l) .. Most(l) : Receipt(l) = SpaceFor(l, b)
        BY <1>1, <2>2 DEF LoopInv, WithinBudget
    <3>2. b \in Nat
        BY <1>1, BudgetType
    <3>3. SpaceFor(l, b) <= free /\ SpaceFor(l, b) \in Nat
        BY <1>5, <2>1, <3>2 DEF SpaceFor, FewerOf
    <3> QED BY <1>2, <1>3, <2>1, <3>1, <3>3 DEF Receipt
  <2>3. CASE ~ Receiving(l)
    <3>1. Receipt(l) = 0
        BY <1>1, <2>3 DEF LoopInv, WithinBudget
    <3> QED BY <1>2, <1>3, <2>1, <3>1 DEF Receipt
  <2> QED BY <2>2, <2>3
<1> QED BY <1>2, <1>3, <1>4, <1>5

LEMMA CloseAuthority == AuthorityInv /\ Close => AuthorityInv'
<1> SUFFICES ASSUME AuthorityInv, Close PROVE AuthorityInv'
    OBVIOUS
<1> USE DEF AuthorityInv
<1>1. /\ updating /\ updating' = FALSE /\ asked' = FALSE
      /\ demand' = demand /\ effective' = effective
      /\ serviceResidual' = serviceResidual /\ receivingResidual' = receivingResidual
      /\ granted' = NoTokens /\ left' = NothingLeft
      /\ queue' = [l \in Links |-> queue[l] - Leaving(granted, l) + Entering(granted, l)]
    BY DEF Close, NextQueue
<1>2. \A l \in Links : /\ queue[l] - Leaving(granted, l) + Entering(granted, l) \in Nat
                       /\ Spatial => queue[l] - Leaving(granted, l) + Entering(granted, l) <= Storage[l]
    BY <1>1, GrantedFits, StorageAssumption
<1>3. \A n \in Nat : Carried(n) \in 0 .. 1
    BY DEF Carried, FewerOf
<1>4. serviceCarry' \in [Links -> 0 .. 1] /\ receivingCarry' \in [Links -> 0 .. 1]
  <2>1. \A l \in Links : left[l].service \in Nat /\ left[l].receiving \in Nat
      BY DEF FlowTypeOK
  <2>2. \A l \in Links : Carried(left[l].service) \in 0 .. 1 /\ Carried(left[l].receiving) \in 0 .. 1
      BY <1>3, <2>1
  <2> QED BY <2>2 DEF Close
<1>5. NoTokens \in [Movements -> Nat] /\ NothingLeft \in [Links -> [service : Nat, receiving : Nat, vehicles : Nat]]
    BY DEF NoTokens, NothingLeft
<1>6. FlowTypeOK'
    BY <1>1, <1>2, <1>4, <1>5 DEF FlowTypeOK
<1>7. FitsStorage'
    BY <1>1, <1>2 DEF FitsStorage
<1> QED BY <1>1, <1>6, <1>7

(* AuthorityInv always holds: the tokens of an update are within the       *)
(* budget, and what leaves the heap has nothing left to be served with.    *)
THEOREM AuthorityInvariant == Spec => []AuthorityInv
<1>1. AuthorityInv /\ [Next]_vars => AuthorityInv'
  <2> SUFFICES ASSUME AuthorityInv, [Next]_vars PROVE AuthorityInv'
      OBVIOUS
  <2>1. CASE Requests
      BY <2>1, RequestsAuthority
  <2>2. CASE Accrue
      BY <2>2, AccrueAuthority
  <2>3. ASSUME NEW m \in Movements, Serve(m) PROVE AuthorityInv'
      BY <2>3, ServeAuthority
  <2>4. ASSUME NEW m \in Movements, Drop(m) PROVE AuthorityInv'
      BY <2>4, DropAuthority
  <2>5. CASE Close
      BY <2>5, CloseAuthority
  <2>6. CASE UNCHANGED vars
      BY <2>6 DEF vars, contractVars, residualVars, workVars, AuthorityInv, FlowTypeOK, FitsStorage,
                  LoopInv, Contending, Eligible, HasSpace, Sending, Receiving, Fewest, Most,
                  SpaceFor, Balanced, WithinBudget, Service, Receipt, Exhausted, Servable
  <2> QED BY <2>1, <2>2, <2>3, <2>4, <2>5, <2>6 DEF Next
<1> QED BY <1>1, InitAuthority, PTL DEF Spec

(* With finite storage, no flow update over-fills a link.                  *)
THEOREM UpdatesFitStorage == Spec => []FitsStorage
<1>1. AuthorityInv => FitsStorage
    BY DEF AuthorityInv
<1> QED BY <1>1, AuthorityInvariant, PTL

-----------------------------------------------------------------------------
(* The refinement. *)

(* The tokens the contract lets the links have that the update gave them.  *)
ServiceOf == [l \in SendingLinks(demand) |-> IF Sending(l) THEN Service(l) ELSE Fewest(l)]
ReceivingOf ==
    [l \in ReceivingLinks(demand) |->
        IF Receiving(l) THEN CHOOSE b \in Fewest(l) .. Most(l) : Receipt(l) = SpaceFor(l, b)
        ELSE Fewest(l)]

LEMMA TokensAreBudgets ==
    ASSUME AuthorityInv, updating
    PROVE  /\ ServiceOf \in Budgets(SendingLinks(demand))
           /\ ReceivingOf \in Budgets(ReceivingLinks(demand))
           /\ SendingLinks(demand) \subseteq Links /\ ReceivingLinks(demand) \subseteq Links
           /\ \A l \in ReceivingLinks(demand) :
                 Receiving(l) => Receipt(l) = SpaceFor(l, ReceivingOf[l])
<1>1. LoopInv /\ FlowTypeOK
    BY DEF AuthorityInv
<1>2. SendingLinks(demand) \subseteq Links /\ ReceivingLinks(demand) \subseteq Links
    BY EndsOfMovements DEF SendingLinks, ReceivingLinks, Movements
<1>3. \A l \in Links : Fewest(l) \in Nat /\ Most(l) \in Nat /\ Fewest(l) <= Most(l)
    BY <1>1, BudgetType
<1>4. \A l \in SendingLinks(demand) : ServiceOf[l] \in Fewest(l) .. Most(l)
    BY <1>1, <1>2, <1>3 DEF ServiceOf, LoopInv, WithinBudget
<1>5. \A l \in ReceivingLinks(demand) :
        /\ ReceivingOf[l] \in Fewest(l) .. Most(l)
        /\ Receiving(l) => Receipt(l) = SpaceFor(l, ReceivingOf[l])
    BY <1>1, <1>2, <1>3 DEF ReceivingOf, LoopInv, WithinBudget
<1>6. ServiceOf \in Budgets(SendingLinks(demand))
    BY <1>4 DEF Budgets, ServiceOf
<1>7. ReceivingOf \in Budgets(ReceivingLinks(demand))
    BY <1>5 DEF Budgets, ReceivingOf
<1> QED BY <1>2, <1>5, <1>6, <1>7

(* A link that cannot send, or take in, has tokens or space for none.      *)
LEMMA IdleLinks ==
    ASSUME AuthorityInv, updating, NEW m \in Turns, demand[m] > 0, m \notin Eligible
    PROVE  \/ Leaving(granted, m[1]) = 0 /\ Min({ServiceOf[m[1]], queue[m[1]]}) = 0
           \/ Entering(granted, m[2]) = 0 /\ Room(queue, ReceivingOf, m[2]) = 0
<1>1. LoopInv /\ FlowTypeOK /\ FitsStorage
    BY DEF AuthorityInv
<1>2. m \in Movements /\ m[1] \in Links /\ m[2] \in Links
    BY EndsOfMovements DEF Movements
<1>3. m[1] \in SendingLinks(demand) /\ m[2] \in ReceivingLinks(demand)
    BY <1>2 DEF SendingLinks, ReceivingLinks
<1>4. /\ ServiceOf[m[1]] \in Fewest(m[1]) .. Most(m[1]) /\ Fewest(m[1]) \in Nat
      /\ ReceivingOf[m[2]] \in Fewest(m[2]) .. Most(m[2]) /\ Fewest(m[2]) \in Nat
      /\ Most(m[1]) \in Nat /\ Most(m[2]) \in Nat
    BY <1>1, <1>2, <1>3, TokensAreBudgets, BudgetType DEF Budgets
<1>5. /\ queue[m[1]] \in Nat /\ queue[m[2]] \in Nat
      /\ effective[m[1]] \in Nat /\ effective[m[2]] \in Nat
    BY <1>1, <1>2 DEF FlowTypeOK
<1>6. /\ Leaving(granted, m[1]) \in Nat /\ Leaving(granted, m[1]) <= queue[m[1]]
      /\ Entering(granted, m[2]) \in Nat
    BY <1>2, GrantedFits
<1>7. \A n \in Nat : FewerOf(n, 0) = 0 /\ FewerOf(0, n) = 0
    BY DEF FewerOf
<1>8. \A a, b \in Int : Min({a, b}) = FewerOf(a, b)
    BY MinOfTwo
<1>9. CASE queue[m[1]] = 0
  <2>1. Min({ServiceOf[m[1]], 0}) = 0
      BY <1>4, <1>7, <1>8
  <2> QED BY <1>6, <1>9, <2>1
<1>10. CASE effective[m[1]] = 0
  <2>1. Most(m[1]) = 0
      BY <1>10 DEF Most
  <2>2. ServiceOf[m[1]] = 0
      BY <1>4, <2>1
  <2>3. Leaving(granted, m[1]) = 0
    <3>1. left[m[1]].service \in Nat
        BY <1>1, <1>2 DEF FlowTypeOK
    <3>2. Service(m[1]) = 0
        BY <1>1, <1>2, <1>4, <2>1 DEF LoopInv, WithinBudget
    <3> QED BY <1>6, <3>1, <3>2 DEF Service
  <2>4. Min({0, queue[m[1]]}) = 0
      BY <1>5, <1>7, <1>8
  <2> QED BY <2>2, <2>3, <2>4
<1>11. CASE ~ HasSpace(m[2]) \/ effective[m[2]] = 0
  <2>1. ~ Receiving(m[2])
      BY <1>5, <1>11 DEF Receiving, Eligible
  <2>2. Entering(granted, m[2]) = 0
    <3>1. Receipt(m[2]) = 0 /\ left[m[2]].receiving \in Nat
        BY <1>1, <1>2, <2>1 DEF LoopInv, WithinBudget, FlowTypeOK
    <3> QED BY <1>6, <3>1 DEF Receipt
  <2>3. Room(queue, ReceivingOf, m[2]) = SpaceFor(m[2], ReceivingOf[m[2]])
      BY <1>1, <1>2, <1>4, RoomIsSpace
  <2>4. SpaceFor(m[2], ReceivingOf[m[2]]) = 0
    <3>1. CASE ~ HasSpace(m[2])
      <4>1. Spatial /\ Storage[m[2]] - queue[m[2]] = 0
          BY <1>1, <1>2, <1>5, <3>1, StorageAssumption DEF HasSpace, FitsStorage
      <4> QED BY <1>4, <1>7, <4>1 DEF SpaceFor
    <3>2. CASE effective[m[2]] = 0
      <4>1. ReceivingOf[m[2]] = 0
          BY <1>4, <3>2 DEF Most
      <4>2. Spatial => Storage[m[2]] - queue[m[2]] \in Nat
          BY <1>1, <1>2, <1>5, StorageAssumption DEF FitsStorage
      <4> QED BY <1>7, <4>1, <4>2 DEF SpaceFor
    <3> QED BY <1>11, <3>1, <3>2
  <2> QED BY <2>2, <2>3, <2>4
<1> QED BY <1>2, <1>5, <1>9, <1>10, <1>11 DEF Eligible

(* When the heap is empty, what was granted is a grant of the contract.    *)
LEMMA EmptyHeapIsGrant ==
    ASSUME AuthorityInv, updating, heap = {}
    PROVE  IsGrant(granted, queue, demand, ServiceOf, ReceivingOf)
<1>1. LoopInv /\ FlowTypeOK /\ FitsStorage
    BY DEF AuthorityInv
<1>2. /\ ServiceOf \in Budgets(SendingLinks(demand))
      /\ ReceivingOf \in Budgets(ReceivingLinks(demand))
      /\ SendingLinks(demand) \subseteq Links /\ ReceivingLinks(demand) \subseteq Links
    BY TokensAreBudgets
<1>3. \A l \in Links : /\ Fewest(l) \in Nat /\ Most(l) \in Nat
                       /\ Leaving(granted, l) \in Nat /\ Entering(granted, l) \in Nat
                       /\ Leaving(granted, l) <= queue[l] /\ queue[l] \in Nat
                       /\ left[l].service \in Nat /\ left[l].receiving \in Nat
    BY <1>1, BudgetType, GrantedFits DEF FlowTypeOK
<1>4. \A a, b \in Int : Min({a, b}) = FewerOf(a, b)
    BY MinOfTwo
<1>5. \A m \in Movements : granted[m] <= demand[m]
    BY <1>1 DEF LoopInv, Balanced
<1>6. ASSUME NEW l \in SendingLinks(demand)
      PROVE  /\ ServiceOf[l] \in Nat
             /\ Leaving(granted, l) <= Min({ServiceOf[l], queue[l]})
             /\ Sending(l) => ServiceOf[l] = left[l].service + Leaving(granted, l)
  <2>1. ServiceOf[l] \in Nat
      BY <1>2, <1>3 DEF Budgets
  <2>2. Sending(l) => ServiceOf[l] = left[l].service + Leaving(granted, l)
      BY DEF ServiceOf, Service
  <2>3. ~ Sending(l) => Leaving(granted, l) = 0
      BY <1>1, <1>2, <1>3 DEF LoopInv, WithinBudget, Service
  <2>4. Min({ServiceOf[l], queue[l]}) = FewerOf(ServiceOf[l], queue[l])
      BY <1>2, <1>3, <1>4, <2>1
  <2> QED BY <1>2, <1>3, <2>1, <2>2, <2>3, <2>4 DEF FewerOf
<1>7. ASSUME NEW l \in ReceivingLinks(demand)
      PROVE  /\ Entering(granted, l) <= Room(queue, ReceivingOf, l)
             /\ Receiving(l) => Room(queue, ReceivingOf, l)
                                  = left[l].receiving + Entering(granted, l)
  <2>1. ReceivingOf[l] \in Nat
      BY <1>2, <1>3 DEF Budgets
  <2>2. Room(queue, ReceivingOf, l) = SpaceFor(l, ReceivingOf[l])
      BY <1>1, <1>2, <2>1, RoomIsSpace
  <2>3. Receiving(l) => SpaceFor(l, ReceivingOf[l]) = left[l].receiving + Entering(granted, l)
      BY TokensAreBudgets DEF Receipt
  <2>4. ~ Receiving(l) => Entering(granted, l) = 0
      BY <1>1, <1>2, <1>3 DEF LoopInv, WithinBudget, Receipt
  <2>5. Spatial => Storage[l] - queue[l] \in Nat
      BY <1>1, <1>2, <1>3, StorageAssumption DEF FitsStorage
  <2>6. SpaceFor(l, ReceivingOf[l]) \in Nat
      BY <2>1, <2>5 DEF SpaceFor, FewerOf
  <2> QED BY <1>2, <1>3, <2>2, <2>3, <2>4, <2>6
<1>8. ASSUME NEW m \in Movements, demand[m] > 0
      PROVE  Blocked(granted, queue, demand, ServiceOf, ReceivingOf, m)
  <2>1. m[1] \in SendingLinks(demand) /\ m[1] \in Links
      BY <1>2, <1>8 DEF SendingLinks
  <2>2. CASE m \in Contending
    <3>1. ~ Servable(m, granted, left)
        BY <1>1, <2>2 DEF LoopInv, Exhausted
    <3>2. Sending(m[1]) /\ (m \in Turns => m \in Eligible)
        BY <2>2, EndsOfMovements DEF Contending, Sending
    <3>3. granted[m] \in Nat /\ demand[m] \in Nat /\ left[m[1]].vehicles \in Nat
        BY <1>1, <2>1 DEF FlowTypeOK
    <3>4. CASE ~ (granted[m] < demand[m])
        BY <1>5, <3>3, <3>4 DEF Blocked
    <3>5. CASE left[m[1]].service = 0 \/ left[m[1]].vehicles = 0
      <4>1. Min({ServiceOf[m[1]], queue[m[1]]}) = FewerOf(ServiceOf[m[1]], queue[m[1]])
          BY <1>3, <1>4, <1>6, <2>1
      <4>2. left[m[1]].vehicles + Leaving(granted, m[1]) = queue[m[1]]
          BY <1>1, <2>1 DEF LoopInv, Balanced
      <4>3. ServiceOf[m[1]] = left[m[1]].service + Leaving(granted, m[1])
          BY <1>6, <2>1, <3>2
      <4>4. FewerOf(ServiceOf[m[1]], queue[m[1]]) = Leaving(granted, m[1])
          BY <1>3, <2>1, <3>3, <3>5, <4>2, <4>3 DEF FewerOf
      <4> QED BY <4>1, <4>4 DEF Blocked
    <3>6. CASE m \in Turns /\ left[m[2]].receiving = 0
      <4>1. Receiving(m[2]) /\ m[2] \in ReceivingLinks(demand) /\ m[2] \in Links
          BY <1>2, <1>8, <3>2, <3>6 DEF Receiving, ReceivingLinks
      <4>2. Room(queue, ReceivingOf, m[2]) = Entering(granted, m[2])
          BY <1>3, <1>7, <3>6, <4>1
      <4> QED BY <3>6, <4>2 DEF Blocked
    <3>7. \/ ~ (granted[m] < demand[m])
          \/ left[m[1]].service = 0 \/ left[m[1]].vehicles = 0
          \/ m \in Turns /\ left[m[2]].receiving = 0
        BY <1>3, <2>1, <3>1, <3>3, EndsOfMovements DEF Servable
    <3> QED BY <3>4, <3>5, <3>6, <3>7
  <2>3. CASE m \notin Contending
    <3>1. m \in Turns /\ m \notin Eligible
        BY <1>8, <2>3 DEF Contending, Movements
    <3> QED BY <1>8, <3>1, IdleLinks DEF Blocked
  <2> QED BY <2>2, <2>3
<1> QED BY <1>5, <1>6, <1>7, <1>8 DEF IsGrant

LEMMA InitIsContractInit == Init => ContractInit
BY DEF Init

LEMMA StepIsContractStep ==
    ASSUME AuthorityInv, [Next]_vars
    PROVE  [ContractNext]_contractVars
<1>1. CASE Requests
  <2>1. PICK q, d, e : Request(q, d, e)
      BY <1>1 DEF Requests
  <2>2. Ask(q, d, e) /\ ~ asked
      BY <2>1 DEF Request, Ask
  <2>3. Ask(queue', demand', effective')
      BY <2>2 DEF Ask
  <2> QED BY <2>2, <2>3 DEF ContractNext
<1>2. CASE Close
  <2>1. /\ updating /\ heap = {} /\ realized' = granted /\ queue' = NextQueue(queue, granted)
        /\ asked' = FALSE /\ UNCHANGED <<demand, effective>>
      BY <1>2 DEF Close
  <2>2. asked
      BY <2>1 DEF AuthorityInv, LoopInv
  <2>3. IsGrant(realized', queue, demand, ServiceOf, ReceivingOf)
      BY <2>1, EmptyHeapIsGrant
  <2>4. /\ ServiceOf \in Budgets(SendingLinks(demand))
        /\ ReceivingOf \in Budgets(ReceivingLinks(demand))
      BY <2>1, TokensAreBudgets
  <2>5. Realize
      BY <2>1, <2>2, <2>3, <2>4 DEF Realize
  <2> QED BY <2>5 DEF ContractNext
<1>3. CASE Accrue
    BY <1>3 DEF Accrue
<1>4. ASSUME NEW m \in Movements, Serve(m) \/ Drop(m) PROVE [ContractNext]_contractVars
    BY <1>4 DEF Serve, Drop
<1>5. CASE UNCHANGED vars
    BY <1>5 DEF vars
<1> QED BY <1>1, <1>2, <1>3, <1>4, <1>5 DEF Next

(* The flow authority implements the abstract flow update: whatever the    *)
(* credits, residuals and carried tokens are, the vehicles the heap serves *)
(* are a grant of the capacities that uses every token it can, for every   *)
(* network, capacity, demand and storage.                                  *)
THEOREM AuthorityImplementsContract == Spec => ContractSpec
<1>1. AuthorityInv /\ [Next]_vars => [ContractNext]_contractVars
    BY StepIsContractStep
<1> QED BY <1>1, InitIsContractInit, AuthorityInvariant, PTL DEF Spec, ContractSpec
=================================================================================
