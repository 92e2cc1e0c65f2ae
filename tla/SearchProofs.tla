----------------------------- MODULE SearchProofs -----------------------------
(***************************************************************************)
(* Theorems about RouteSearch: the potential, the greedy walk and the      *)
(* ranked search, for every network, cost, closure and turn table.         *)
(***************************************************************************)
EXTENDS RouteSearch, FiniteSetTheorems, SequenceTheorems, Counting, TLAPS

(* Everything has its type; costs to go are at most Far.                   *)
Entries == [est : Nat, cost : Nat, serial : Nat, path : Seq(Links)]

SearchTypeOK ==
    /\ cost \in [Links -> Costs] /\ request \in Requests
    /\ dist \in [Nodes -> 0 .. Far] /\ queue \subseteq Nat \X Nodes
    /\ phase \in {"potential", "greedy", "ranked", "done"}
    /\ path \in Seq(Links) /\ routes \in Seq(Seq(Links))
    /\ open \subseteq Entries /\ serial \in Nat /\ expansions \in Nat

(* A cost to go that is not Far is that of some way onwards, and a link    *)
(* whose end improved is looked at again before the search ends.           *)
Attained ==
    \A n \in Nodes \ {request.dest} : dist[n] < Far =>
        \E l \in Links : Passable(l) /\ Src[l] = n /\ cost[l] + dist[Dst[l]] <= dist[n]

Consistent(l) == dist[Src[l]] <= cost[l] + dist[Dst[l]]

PotentialInv ==
    /\ phase # "potential" => queue = {}
    /\ dist[request.dest] = 0
    /\ \A e \in queue : dist[e[2]] <= e[1]
    /\ \A l \in Links : Passable(l) =>
          Consistent(l) \/ <<dist[Dst[l]], Dst[l]>> \in queue
    /\ Attained

(* Before a search of routes starts, nothing has been searched.            *)
Start == {[est |-> 0, cost |-> 0, serial |-> 0, path |-> <<>>]}
Untouched ==
    /\ phase \in {"potential", "ranked"} => path = <<>>
    /\ phase \in {"potential", "greedy"} => routes = <<>> /\ open = Start /\ expansions = 0
    /\ phase = "greedy" => request.origin # request.dest /\ request.wanted = 1
    /\ phase = "ranked" => request.origin # request.dest /\ request.wanted > 1
    /\ phase = "done" /\ request.wanted > 1 /\ request.origin # request.dest => ~ Searching
    /\ request.origin = request.dest => routes = <<>>

(* Every way under construction is legal and short enough, and no way of   *)
(* the ranked search begins another one.                                   *)
GoodWay(p) == LegalWay(p) /\ Len(p) <= MaxHops
Arrived(p) == GoodWay(p) /\ p # <<>> /\ NodeAfter(p) = request.dest
Begins(p, q) == Len(p) <= Len(q) /\ \A i \in 1 .. Len(p) : p[i] = q[i]

WaysLegal ==
    /\ phase # "done" => GoodWay(path)
    /\ phase = "greedy" => request.dest \notin Visited(path)
    /\ \A e \in open : GoodWay(e.path)
    /\ \A i \in 1 .. Len(routes) : Arrived(routes[i])

WaysApart ==
    /\ \A e, f \in open : e # f => ~ Begins(e.path, f.path)
    /\ request.wanted > 1 =>
          \A i \in 1 .. Len(routes) :
          /\ \A e \in open : ~ Begins(e.path, routes[i]) /\ ~ Begins(routes[i], e.path)
          /\ \A j \in 1 .. Len(routes) : i # j => routes[i] # routes[j]
    /\ request.wanted = 1 => Len(routes) <= 1

(* What the ranked search expects of a way, and that nothing is lost.      *)
Priced ==
    \A e \in open :
        /\ e.cost = CostOf(e.path)
        /\ e.est = IF e.path = <<>> THEN 0 ELSE e.cost + dist[NodeAfter(e.path)]

RankedInOrder ==
    request.wanted > 1 =>
    /\ \A i \in 1 .. Len(routes) :
          /\ \A e \in open : CostOf(routes[i]) <= e.est
          /\ \A j \in 1 .. Len(routes) : i < j => CostOf(routes[i]) <= CostOf(routes[j])
    /\ Len(routes) <= request.wanted /\ expansions <= MaxExpansions

NothingLost ==
    request.wanted > 1 =>
    \A p \in LegalRoutes : \/ \E i \in 1 .. Len(routes) : routes[i] = p
                           \/ \E e \in open : Begins(e.path, p)

(* Never turned away, the greedy walk never leaves a cheapest way.         *)
Downhill ==
    NeverTurnedAway =>
    /\ CostOf(path) + dist[NodeAfter(path)] = dist[request.origin]
    /\ \A i \in 0 .. Len(path) - 1 : dist[NodeAt(path, i)] > dist[NodeAfter(path)]
GreedyEnds ==
    (phase = "done" /\ request.wanted = 1 /\ request.origin # request.dest /\ NeverTurnedAway
       /\ MaxHops >= Cardinality(Nodes) - 1) =>
        \/ routes = <<path>>
        \/ routes = <<>> /\ dist[request.origin] = Far

-----------------------------------------------------------------------------
(* The facts every proof needs, pointwise. *)

LEMMA NetworkFacts ==
    /\ Nodes \subseteq Nat /\ Links \subseteq Nat /\ Far \in Nat /\ Far > 0
    /\ \A l \in Links : Src[l] \in Nodes /\ Dst[l] \in Nodes
    /\ \A r \in Requests : /\ r.origin \in Nodes /\ r.dest \in Nodes
                           /\ r.incoming \in Links \cup {None} /\ r.wanted \in Nat /\ r.wanted > 0
    /\ MaxHops \in Nat
BY SearchAssumption, LinksAssumption

LEMMA TypeFacts ==
    ASSUME SearchTypeOK
    PROVE  /\ \A l \in Links : cost[l] \in Nat /\ cost[l] > 0 /\ ActionCost(l) \in Nat
           /\ \A n \in Nodes : dist[n] \in Nat /\ dist[n] <= Far
           /\ request.origin \in Nodes /\ request.dest \in Nodes
           /\ request.incoming \in Links \cup {None} /\ request.wanted \in Nat /\ request.wanted > 0
<1>1. \A c \in Costs : c \in Nat /\ c > 0
  BY SearchAssumption
<1>2. \A l \in Links : cost[l] \in Nat /\ cost[l] > 0
  BY <1>1 DEF SearchTypeOK
<1>3. \A n \in Nodes : dist[n] \in Nat /\ dist[n] <= Far
  BY NetworkFacts DEF SearchTypeOK
<1>4. request \in Requests
  BY DEF SearchTypeOK
<1>5. \A l \in Links : ActionCost(l) \in Nat
  <2>1. \A l \in Links : Dst[l] \in Nodes
    BY NetworkFacts
  <2>2. \A l \in Links : cost[l] \in Nat /\ dist[Dst[l]] \in Nat
    BY <1>2, <1>3, <2>1
  <2> QED BY <2>2 DEF ActionCost
<1>6. /\ request.origin \in Nodes /\ request.dest \in Nodes
      /\ request.incoming \in Links \cup {None} /\ request.wanted \in Nat /\ request.wanted > 0
  BY <1>4, NetworkFacts
<1> QED BY <1>2, <1>3, <1>5, <1>6

-----------------------------------------------------------------------------
(* What the choices made along the way return. *)

LEMMA MinIsLeast ==
    ASSUME NEW S, S \subseteq Nat, S # {}
    PROVE  Min(S) \in S /\ \A y \in S : Min(S) <= y
BY LeastExists DEF Min

LEMMA FirstIsQueued ==
    ASSUME NEW S, S \subseteq Nat \X Nat, S # {}
    PROVE  First(S) \in S
<1>1. PICK c \in {e[1] : e \in S} : \A d \in {e[1] : e \in S} : c <= d
  <2>1. {e[1] : e \in S} \subseteq Nat /\ {e[1] : e \in S} # {}
    OBVIOUS
  <2> QED BY ONLY <2>1, LeastExists
<1> DEFINE cheap == {e \in S : e[1] = c}
<1>2. PICK n \in {e[2] : e \in cheap} : \A m \in {e[2] : e \in cheap} : n <= m
  <2>1. {e[2] : e \in cheap} \subseteq Nat /\ {e[2] : e \in cheap} # {}
    BY <1>1
  <2> QED BY ONLY <2>1, LeastExists
<1>3. PICK e \in S : e[1] = c /\ e[2] = n
  BY <1>2
<1>4. \A f \in S : e[1] < f[1] \/ (e[1] = f[1] /\ e[2] <= f[2])
  <2>1. \A f \in S : f[1] \in Nat /\ f[2] \in Nat
    OBVIOUS
  <2>2. \A f \in S : c <= f[1] /\ (f[1] = c => n <= f[2])
    BY <1>1, <1>2
  <2> QED BY <1>3, <2>1, <2>2
<1> QED BY <1>3, <1>4 DEF First

LEMMA FirstOpenIsLeast ==
    ASSUME NEW S, S \subseteq Entries, S # {}
    PROVE  FirstOpen(S) \in S /\ \A f \in S : FirstOpen(S).est <= f.est
<1>1. PICK b \in {e.est : e \in S} : \A d \in {e.est : e \in S} : b <= d
  <2>1. {e.est : e \in S} \subseteq Nat /\ {e.est : e \in S} # {}
    BY DEF Entries
  <2> QED BY ONLY <2>1, LeastExists
<1> DEFINE near == {e \in S : e.est = b}
<1>2. PICK c \in {e.cost : e \in near} : \A d \in {e.cost : e \in near} : c <= d
  <2>1. {e.cost : e \in near} \subseteq Nat /\ {e.cost : e \in near} # {}
    BY <1>1 DEF Entries
  <2> QED BY ONLY <2>1, LeastExists
<1> DEFINE cheap == {e \in near : e.cost = c}
<1>3. PICK n \in {e.serial : e \in cheap} : \A m \in {e.serial : e \in cheap} : n <= m
  <2>1. {e.serial : e \in cheap} \subseteq Nat /\ {e.serial : e \in cheap} # {}
    BY <1>2 DEF Entries
  <2> QED BY ONLY <2>1, LeastExists
<1>4. PICK e \in S : e.est = b /\ e.cost = c /\ e.serial = n
  BY <1>3
<1> DEFINE least(x) == \A f \in S : \/ x.est < f.est
                                    \/ x.est = f.est /\ x.cost < f.cost
                                    \/ x.est = f.est /\ x.cost = f.cost /\ x.serial <= f.serial
<1>5. least(e)
  <2> SUFFICES ASSUME NEW f \in S
               PROVE  \/ e.est < f.est
                      \/ e.est = f.est /\ e.cost < f.cost
                      \/ e.est = f.est /\ e.cost = f.cost /\ e.serial <= f.serial
    OBVIOUS
  <2>1. f.est \in Nat /\ f.cost \in Nat /\ b \in Nat /\ c \in Nat
    BY <1>1, <1>2 DEF Entries
  <2>2. b <= f.est /\ (f.est = b => c <= f.cost) /\ (f.est = b /\ f.cost = c => n <= f.serial)
    BY <1>1, <1>2, <1>3
  <2> QED BY <1>4, <2>1, <2>2
<1>6. FirstOpen(S) = CHOOSE x \in S : least(x)
  BY DEF FirstOpen
<1>7. FirstOpen(S) \in S /\ least(FirstOpen(S))
  <2> HIDE DEF least
  <2> QED BY <1>4, <1>5, <1>6
<1>8. \A f \in S : f.est \in Nat
  BY DEF Entries
<1> QED BY <1>7, <1>8

LEMMA BestIsLeast ==
    ASSUME SearchTypeOK, NEW S, S \subseteq Links, S # {}
    PROVE  Best(S) \in S /\ \A m \in S : ActionCost(Best(S)) <= ActionCost(m)
<1>1. \A l \in Links : ActionCost(l) \in Nat
  BY TypeFacts
<1>2. PICK c \in {ActionCost(l) : l \in S} : \A d \in {ActionCost(l) : l \in S} : c <= d
  <2>1. {ActionCost(l) : l \in S} \subseteq Nat /\ {ActionCost(l) : l \in S} # {}
    BY <1>1
  <2> QED BY ONLY <2>1, LeastExists
<1>3. PICK l \in {m \in S : ActionCost(m) = c} : \A m \in {k \in S : ActionCost(k) = c} : l <= m
  <2>1. {m \in S : ActionCost(m) = c} \subseteq Nat /\ {m \in S : ActionCost(m) = c} # {}
    BY <1>2, LinksAssumption
  <2> QED BY ONLY <2>1, LeastExists
<1> DEFINE least(x) == \A m \in S : \/ ActionCost(x) < ActionCost(m)
                                    \/ ActionCost(x) = ActionCost(m) /\ x <= m
<1>4. least(l)
  BY <1>1, <1>2, <1>3
<1>5. Best(S) = CHOOSE x \in S : least(x)
  BY DEF Best
<1>6. Best(S) \in S /\ least(Best(S))
  <2> HIDE DEF least
  <2> QED BY <1>3, <1>4, <1>5
<1> QED BY <1>1, <1>6

-----------------------------------------------------------------------------
(* The potential. *)

(* Of the parallel links from one node that bring it closer, the first of  *)
(* the cheapest counts.                                                    *)
LEMMA CheapestImproves ==
    ASSUME SearchTypeOK, NEW v \in Nodes, NEW c \in Nat, NEW l \in Links,
           Dst[l] = v, Passable(l), c + cost[l] < dist[Src[l]]
    PROVE  \E m \in Improving(v, c) : Src[m] = Src[l] /\ cost[m] <= cost[l]
<1> DEFINE parallel == {m \in Links : Dst[m] = v /\ Src[m] = Src[l] /\ Passable(m)}
<1>1. \A m \in parallel : m \in Nat /\ cost[m] \in Nat
  BY NetworkFacts, TypeFacts
<1>2. PICK least \in {cost[m] : m \in parallel} : \A d \in {cost[m] : m \in parallel} : least <= d
  <2>1. {cost[m] : m \in parallel} \subseteq Nat /\ l \in parallel
    BY <1>1
  <2> HIDE DEF parallel
  <2>2. {cost[m] : m \in parallel} # {}
    BY <2>1
  <2> QED BY ONLY <2>1, <2>2, LeastExists
<1>3. PICK m \in {k \in parallel : cost[k] = least} :
          \A k \in {k \in parallel : cost[k] = least} : m <= k
  <2>1. {k \in parallel : cost[k] = least} \subseteq Nat
    BY <1>1
  <2> HIDE DEF parallel
  <2>2. {k \in parallel : cost[k] = least} # {}
    BY <1>2
  <2> QED BY ONLY <2>1, <2>2, LeastExists
<1>4. m \in parallel /\ cost[m] = least /\ least <= cost[l]
  BY <1>2, <1>3
<1>5. \A k \in parallel : k < m => cost[m] < cost[k]
  <2> SUFFICES ASSUME NEW k \in parallel, k < m, ~ (cost[m] < cost[k]) PROVE FALSE
    OBVIOUS
  <2>1. least <= cost[k] /\ cost[k] \in Nat /\ cost[m] \in Nat /\ k \in Nat /\ m \in Nat
    BY <1>1, <1>2, <1>4
  <2>2. cost[k] = least
    BY <1>4, <2>1
  <2>3. m <= k
    BY <1>3, <2>2
  <2> QED BY <2>1, <2>3
<1>6. dist[Src[l]] \in Nat /\ cost[l] \in Nat /\ cost[m] \in Nat
  BY <1>1, <1>4, NetworkFacts, TypeFacts
<1>7. c + cost[m] < dist[Src[m]]
  BY <1>4, <1>6
<1> QED BY <1>4, <1>5, <1>7 DEF Improving

(* One settled node: what happens to each cost to go.                      *)
LEMMA RelaxFacts ==
    ASSUME SearchTypeOK, PotentialInv, Relax
    PROVE  \E v \in Nodes, c \in Nat :
              /\ <<c, v>> \in queue /\ dist'[v] = dist[v]
              /\ queue \ {<<c, v>>} \subseteq queue'
              /\ \A e \in queue' : \/ e \in queue
                                   \/ e[1] \in Nat /\ e[2] \in Nodes /\ e = <<e[1], e[2]>> /\ dist'[e[2]] <= e[1]
              /\ dist' \in [Nodes -> Nat] /\ \A n \in Nodes : dist'[n] <= dist[n]
              /\ \A n \in Nodes : dist'[n] # dist[n] =>
                    /\ <<dist'[n], n>> \in queue'
                    /\ \E l \in Links : /\ Passable(l) /\ Src[l] = n /\ Dst[l] = v
                                        /\ dist'[n] = dist[v] + cost[l]
              /\ c = dist[v] => \A l \in Links : (Passable(l) /\ Dst[l] = v) =>
                    dist'[Src[l]] <= cost[l] + dist[v]
<1> DEFINE top == First(queue)
           c == top[1]
           v == top[2]
           better == IF c > dist[v] THEN {} ELSE Improving(v, c)
           through(l) == c + cost[l]
           ways(n) == {dist[n]} \cup {through(l) : l \in {m \in better : Src[m] = n}}
<1>1. top \in queue
  BY FirstIsQueued, NetworkFacts DEF SearchTypeOK, Relax
<1>2. top = <<c, v>> /\ c \in Nat /\ v \in Nodes
  <2> HIDE DEF top
  <2> QED BY <1>1 DEF SearchTypeOK
<1>3. /\ dist' = [n \in Nodes |-> Min(ways(n))]
      /\ queue' = (queue \ {top}) \cup {<<through(l), Src[l]>> : l \in better}
  BY DEF Relax
<1>4. c >= dist[v] /\ dist[v] \in Nat
  BY <1>1, <1>2, TypeFacts DEF PotentialInv
<1> HIDE DEF top, c, v
<1>5. \A l \in better : /\ l \in Links /\ Passable(l) /\ Dst[l] = v /\ c = dist[v]
                        /\ through(l) \in Nat /\ through(l) < dist[Src[l]] /\ Src[l] \in Nodes
  <2> SUFFICES ASSUME NEW l \in better
               PROVE  /\ l \in Links /\ Passable(l) /\ Dst[l] = v /\ c = dist[v]
                      /\ through(l) \in Nat /\ through(l) < dist[Src[l]] /\ Src[l] \in Nodes
    OBVIOUS
  <2>1. ~ (c > dist[v]) /\ l \in Improving(v, c)
    OBVIOUS
  <2>2. l \in Links /\ Passable(l) /\ Dst[l] = v /\ c + cost[l] < dist[Src[l]]
    BY <2>1 DEF Improving
  <2>3. cost[l] \in Nat /\ Src[l] \in Nodes
    BY <2>2, TypeFacts, NetworkFacts
  <2> QED BY <1>2, <1>4, <2>1, <2>2, <2>3
<1> HIDE DEF better, through
<1>6. \A n \in Nodes : /\ dist'[n] \in ways(n) /\ dist'[n] \in Nat
                       /\ \A x \in ways(n) : dist'[n] <= x
  <2> SUFFICES ASSUME NEW n \in Nodes
               PROVE  /\ dist'[n] \in ways(n) /\ dist'[n] \in Nat
                      /\ \A x \in ways(n) : dist'[n] <= x
    OBVIOUS
  <2>1. ways(n) \subseteq Nat /\ ways(n) # {}
    BY <1>5, TypeFacts
  <2>2. dist'[n] = Min(ways(n))
    BY <1>3
  <2> HIDE DEF ways
  <2> QED BY <2>1, <2>2, MinIsLeast
<1>7. \A n \in Nodes : dist'[n] <= dist[n]
  BY <1>6
<1>8. \A l \in better : dist'[Src[l]] <= through(l)
  BY <1>5, <1>6
<1>9. \A n \in Nodes : dist'[n] # dist[n] => \E l \in better : Src[l] = n /\ dist'[n] = through(l)
  BY <1>6
<1>10. dist'[v] = dist[v]
  <2> SUFFICES ASSUME dist'[v] # dist[v] PROVE FALSE
    OBVIOUS
  <2>1. PICK l \in better : Src[l] = v
    BY <1>2, <1>9
  <2>2. through(l) < dist[v] /\ c = dist[v] /\ cost[l] \in Nat
    BY <1>5, <2>1, TypeFacts
  <2> QED BY <1>2, <2>2 DEF through
<1>11. dist' \in [Nodes -> Nat]
  <2>1. dist' = [n \in Nodes |-> dist'[n]]
    BY <1>3
  <2> QED BY <1>6, <2>1
<1>12. \A n \in Nodes : dist'[n] # dist[n] =>
          /\ <<dist'[n], n>> \in queue'
          /\ \E l \in Links : /\ Passable(l) /\ Src[l] = n /\ Dst[l] = v
                              /\ dist'[n] = dist[v] + cost[l]
  <2> SUFFICES ASSUME NEW n \in Nodes, dist'[n] # dist[n]
               PROVE  /\ <<dist'[n], n>> \in queue'
                      /\ \E l \in Links : /\ Passable(l) /\ Src[l] = n /\ Dst[l] = v
                                          /\ dist'[n] = dist[v] + cost[l]
    OBVIOUS
  <2>1. PICK l \in better : Src[l] = n /\ dist'[n] = through(l)
    BY <1>9
  <2>2. <<dist'[n], n>> \in queue'
    BY <1>3, <2>1
  <2>3. l \in Links /\ Passable(l) /\ Dst[l] = v /\ dist'[n] = dist[v] + cost[l]
    BY <1>5, <2>1 DEF through
  <2> QED BY <2>1, <2>2, <2>3
<1>13. \A e \in queue' : \/ e \in queue
                         \/ e[1] \in Nat /\ e[2] \in Nodes /\ e = <<e[1], e[2]>> /\ dist'[e[2]] <= e[1]
  BY <1>3, <1>5, <1>8
<1>14. ASSUME c = dist[v], NEW l \in Links, Passable(l), Dst[l] = v
       PROVE  dist'[Src[l]] <= cost[l] + dist[v]
  <2>1. cost[l] \in Nat /\ Src[l] \in Nodes /\ dist[Src[l]] \in Nat /\ dist'[Src[l]] \in Nat
    BY TypeFacts, NetworkFacts, <1>6
  <2>2. CASE c + cost[l] < dist[Src[l]]
    <3>1. PICK m \in Improving(v, c) : Src[m] = Src[l] /\ cost[m] <= cost[l]
      BY <1>2, <1>14, <2>2, CheapestImproves
    <3>2. m \in better
      BY <1>4, <1>14, <3>1 DEF better
    <3>3. dist'[Src[l]] <= c + cost[m] /\ cost[m] \in Nat
      BY <1>5, <1>8, <3>1, <3>2, TypeFacts DEF through
    <3> QED BY <1>2, <1>14, <2>1, <3>1, <3>3
  <2>3. CASE ~ (c + cost[l] < dist[Src[l]])
    BY <1>2, <1>7, <1>14, <2>1, <2>3
  <2> QED BY <2>2, <2>3
<1>15. <<c, v>> \in queue /\ queue \ {<<c, v>>} \subseteq queue'
  BY <1>1, <1>2, <1>3
<1> QED BY <1>2, <1>7, <1>10, <1>11, <1>12, <1>13, <1>14, <1>15

LEMMA RelaxKeepsPotential ==
    ASSUME SearchTypeOK, PotentialInv, Relax
    PROVE  SearchTypeOK' /\ PotentialInv'
<1>1. PICK v \in Nodes, c \in Nat :
          /\ <<c, v>> \in queue /\ dist'[v] = dist[v]
          /\ queue \ {<<c, v>>} \subseteq queue'
          /\ \A e \in queue' : \/ e \in queue
                               \/ e[1] \in Nat /\ e[2] \in Nodes /\ e = <<e[1], e[2]>> /\ dist'[e[2]] <= e[1]
          /\ dist' \in [Nodes -> Nat] /\ \A n \in Nodes : dist'[n] <= dist[n]
          /\ \A n \in Nodes : dist'[n] # dist[n] =>
                /\ <<dist'[n], n>> \in queue'
                /\ \E l \in Links : /\ Passable(l) /\ Src[l] = n /\ Dst[l] = v
                                    /\ dist'[n] = dist[v] + cost[l]
          /\ c = dist[v] => \A l \in Links : (Passable(l) /\ Dst[l] = v) =>
                dist'[Src[l]] <= cost[l] + dist[v]
  BY RelaxFacts
<1>2. phase = "potential" /\ UNCHANGED <<inputs, phase, path, ranking, routes>>
  BY DEF Relax, greedyVars
<1>3. \A n \in Nodes : dist[n] \in Nat /\ dist'[n] \in Nat /\ dist[n] <= Far
  BY <1>1, TypeFacts
<1>4. SearchTypeOK'
  <2>1. dist' \in [Nodes -> 0 .. Far]
    BY <1>1, <1>3, NetworkFacts
  <2>2. queue' \subseteq Nat \X Nodes
    BY <1>1 DEF SearchTypeOK
  <2> QED BY <1>2, <2>1, <2>2 DEF SearchTypeOK, inputs, ranking
<1>5. dist'[request'.dest] = 0
  BY <1>1, <1>2, <1>3, TypeFacts DEF PotentialInv, inputs
<1>6. \A e \in queue' : dist'[e[2]] <= e[1]
  <2> SUFFICES ASSUME NEW e \in queue, e \in queue' PROVE dist'[e[2]] <= e[1]
    BY <1>1
  <2>1. dist[e[2]] <= e[1] /\ e[1] \in Nat /\ e[2] \in Nodes
    BY DEF PotentialInv, SearchTypeOK
  <2> QED BY <1>1, <1>3, <2>1
<1>7. ASSUME NEW l \in Links, Passable(l)'
      PROVE  Consistent(l)' \/ <<dist'[Dst[l]], Dst[l]>> \in queue'
  <2>1. /\ Passable(l) /\ Src[l] \in Nodes /\ Dst[l] \in Nodes /\ cost[l] \in Nat /\ cost' = cost
    BY <1>2, <1>7, NetworkFacts, TypeFacts DEF Passable, inputs
  <2>2. CASE dist'[Dst[l]] # dist[Dst[l]]
    BY <1>1, <2>1, <2>2
  <2>3. CASE dist'[Dst[l]] = dist[Dst[l]] /\ ~ Consistent(l)
    <3>1. <<dist[Dst[l]], Dst[l]>> \in queue
      BY <2>1, <2>3 DEF PotentialInv
    <3>2. CASE <<dist[Dst[l]], Dst[l]>> = <<c, v>>
      <4>1. Dst[l] = v /\ c = dist[v]
        BY <3>2
      <4>2. dist'[Src[l]] <= cost[l] + dist[v]
        BY <1>1, <2>1, <4>1
      <4> QED BY <2>1, <2>3, <4>1, <4>2 DEF Consistent
    <3>3. CASE <<dist[Dst[l]], Dst[l]>> # <<c, v>>
      BY <1>1, <2>3, <3>1, <3>3
    <3> QED BY <3>2, <3>3
  <2>4. CASE dist'[Dst[l]] = dist[Dst[l]] /\ Consistent(l)
    <3>1. dist'[Src[l]] <= dist[Src[l]]
      BY <1>1, <2>1
    <3> QED BY <1>3, <2>1, <2>4, <3>1 DEF Consistent
  <2> QED BY <2>2, <2>3, <2>4
<1>8. Attained'
  <2> SUFFICES ASSUME NEW n \in Nodes \ {request.dest}, dist'[n] < Far
               PROVE  \E l \in Links : Passable(l) /\ Src[l] = n /\ cost[l] + dist'[Dst[l]] <= dist'[n]
    BY <1>2 DEF Attained, Passable, inputs
  <2>1. CASE dist'[n] = dist[n]
    <3>1. PICK l \in Links : Passable(l) /\ Src[l] = n /\ cost[l] + dist[Dst[l]] <= dist[n]
      BY <2>1 DEF PotentialInv, Attained
    <3>2. Dst[l] \in Nodes /\ cost[l] \in Nat
      BY NetworkFacts, TypeFacts
    <3>3. cost[l] + dist'[Dst[l]] <= dist'[n]
      BY <1>1, <1>3, <2>1, <3>1, <3>2
    <3> QED BY <3>1, <3>3
  <2>2. CASE dist'[n] # dist[n]
    <3>1. PICK l \in Links : Passable(l) /\ Src[l] = n /\ Dst[l] = v /\ dist'[n] = dist[v] + cost[l]
      BY <1>1, <2>2
    <3>2. cost[l] \in Nat
      BY TypeFacts
    <3>3. cost[l] + dist'[Dst[l]] <= dist'[n]
      BY <1>1, <1>3, <3>1, <3>2
    <3> QED BY <3>1, <3>3
  <2> QED BY <2>1, <2>2
<1> QED BY <1>2, <1>4, <1>5, <1>6, <1>7, <1>8 DEF PotentialInv

(* The links a way can go on by, and what their order of score is.         *)
LEMMA RankIsNatural ==
    ASSUME NEW l, NEW S, S \subseteq Links
    PROVE  Rank(l, S) \in Nat
<1> DEFINE before == {m \in S : \/ ActionCost(m) < ActionCost(l)
                                \/ ActionCost(m) = ActionCost(l) /\ m <= l}
<1>1. IsFiniteSet(before)
  BY LinksAssumption, FS_Subset
<1>2. Cardinality(before) \in Nat
  BY <1>1, FS_CardinalityType
<1> HIDE DEF before
<1> QED BY <1>2 DEF Rank, before

(* One expansion: the first open way is taken off, and either it is a      *)
(* route, or every way it can grow by one link is opened.                  *)
More(way) ==
    IF (NodeAfter(way) = request.dest /\ way # <<>>) \/ Len(way) >= MaxHops THEN {} ELSE Growing(way)

Child(e, l, n) ==
    [est |-> e.cost + ActionCost(l), cost |-> e.cost + cost[l], serial |-> n,
     path |-> Append(e.path, l)]

LEMMA ExpandFacts ==
    ASSUME SearchTypeOK, Expand
    PROVE  /\ phase = "ranked" /\ Searching
           /\ UNCHANGED <<inputs, potential, phase, greedyVars>>
           /\ serial' \in Nat /\ expansions' = expansions + 1
           /\ \E top \in open :
                /\ top \in Entries /\ \A f \in open : top.est <= f.est
                /\ More(top.path) \subseteq Links
                /\ routes' = IF NodeAfter(top.path) = request.dest /\ top.path # <<>>
                             THEN Append(routes, top.path) ELSE routes
                /\ \A e \in open' :
                      \/ e \in open /\ e # top
                      \/ \E l \in More(top.path), n \in Nat : e = Child(top, l, n)
                /\ \A l \in More(top.path) : \E n \in Nat : Child(top, l, n) \in open'
                /\ \A e, f \in open' : (e \notin open /\ f \notin open /\ e # f) =>
                      e.path[Len(top.path) + 1] # f.path[Len(top.path) + 1]
                /\ open \ {top} \subseteq open'
<1> DEFINE top == FirstOpen(open)
           more == More(top.path)
           grown == {[est |-> top.cost + ActionCost(l), cost |-> top.cost + cost[l],
                      serial |-> serial + Rank(l, more), path |-> Append(top.path, l)] : l \in more}
<1>1. phase = "ranked" /\ Searching /\ UNCHANGED <<inputs, potential, phase, greedyVars>>
      /\ expansions' = expansions + 1
  BY DEF Expand
<1>2. top \in open /\ top \in Entries /\ \A f \in open : top.est <= f.est
  BY FirstOpenIsLeast DEF SearchTypeOK, Expand, Searching
<1>3. more \subseteq Links
  BY DEF More, Growing, NextLinks
<1>4. \A l \in more : Rank(l, more) \in Nat /\ serial + Rank(l, more) \in Nat
  BY <1>3, RankIsNatural DEF SearchTypeOK
<1>5. serial' \in Nat
  <2>1. serial' = serial + Cardinality(more)
    BY DEF Expand, More
  <2>2. Cardinality(more) \in Nat
    BY <1>3, LinksAssumption, FS_Subset, FS_CardinalityType
  <2> QED BY <2>1, <2>2 DEF SearchTypeOK
<1>6. open' = (open \ {top}) \cup grown
  BY DEF Expand, More
<1>7. routes' = IF NodeAfter(top.path) = request.dest /\ top.path # <<>>
                THEN Append(routes, top.path) ELSE routes
  BY DEF Expand
<1>8. \A l \in more : Append(top.path, l)[Len(top.path) + 1] = l
  BY <1>2, <1>3, AppendProperties DEF Entries
<1> HIDE DEF top, more
<1>9. \A e \in open' : \/ e \in open /\ e # top
                       \/ \E l \in more, n \in Nat : e = Child(top, l, n)
  BY <1>4, <1>6 DEF Child
<1>10. \A l \in more : \E n \in Nat : Child(top, l, n) \in open'
  BY <1>4, <1>6 DEF Child
<1>11. ASSUME NEW e \in open', NEW f \in open', e \notin open, f \notin open, e # f
       PROVE  e.path[Len(top.path) + 1] # f.path[Len(top.path) + 1]
  <2>1. PICK l \in more : e = [est |-> top.cost + ActionCost(l), cost |-> top.cost + cost[l],
                      serial |-> serial + Rank(l, more), path |-> Append(top.path, l)]
    BY <1>6, <1>11
  <2>2. PICK m \in more : f = [est |-> top.cost + ActionCost(m), cost |-> top.cost + cost[m],
                      serial |-> serial + Rank(m, more), path |-> Append(top.path, m)]
    BY <1>6, <1>11
  <2>3. l # m
    BY <1>11, <2>1, <2>2
  <2> QED BY <1>8, <2>1, <2>2, <2>3
<1>12. open \ {top} \subseteq open'
  BY <1>6
<1> QED BY <1>1, <1>2, <1>3, <1>5, <1>7, <1>9, <1>10, <1>11, <1>12 DEF more

(* One step of the walk: it stops, or goes on by a cheapest legal link.    *)
LEMMA WalkFacts ==
    ASSUME SearchTypeOK, Walk
    PROVE  /\ phase = "greedy" /\ UNCHANGED <<inputs, potential, ranking>>
           /\ \/ /\ NextLinks(path) = {} \/ Len(path) = MaxHops
                 /\ phase' = "done" /\ UNCHANGED <<path, routes>>
              \/ /\ Len(path) # MaxHops
                 /\ \E l \in NextLinks(path) :
                      /\ l \in Links /\ \A m \in NextLinks(path) : ActionCost(l) <= ActionCost(m)
                      /\ path' = Append(path, l)
                      /\ phase' = IF Dst[l] = request.dest \/ Dst[l] \in Visited(path)
                                  THEN "done" ELSE "greedy"
                      /\ routes' = IF Dst[l] = request.dest THEN <<path'>> ELSE routes
<1>1. phase = "greedy" /\ UNCHANGED <<inputs, potential, ranking>>
  BY DEF Walk
<1>2. CASE NextLinks(path) = {} \/ Len(path) = MaxHops
  BY <1>1, <1>2 DEF Walk
<1>3. CASE NextLinks(path) # {} /\ Len(path) # MaxHops
  <2> DEFINE next == Best(NextLinks(path))
  <2>1. NextLinks(path) \subseteq Links
    BY DEF NextLinks
  <2>2. next \in NextLinks(path) /\ \A m \in NextLinks(path) : ActionCost(next) <= ActionCost(m)
    BY <1>3, <2>1, BestIsLeast
  <2>3. /\ path' = Append(path, next)
        /\ phase' = IF Dst[next] = request.dest \/ Dst[next] \in Visited(path)
                    THEN "done" ELSE "greedy"
        /\ routes' = IF Dst[next] = request.dest THEN <<path'>> ELSE routes
    BY <1>3 DEF Walk
  <2> HIDE DEF next
  <2> QED BY <1>1, <1>3, <2>1, <2>2, <2>3
<1> QED BY <1>2, <1>3

LEMMA TypeStep ==
    ASSUME SearchTypeOK, PotentialInv, [SearchNext]_vars
    PROVE  SearchTypeOK'
<1>1. CASE Relax
  BY <1>1, RelaxKeepsPotential
<1>2. CASE ChooseSearch
  BY <1>2 DEF ChooseSearch, SearchTypeOK, inputs, potential, greedyVars, ranking
<1>3. CASE Walk
  <2>1. UNCHANGED <<inputs, potential, ranking>> /\ phase' \in {"greedy", "done"}
    BY <1>3, WalkFacts
  <2>2. path' \in Seq(Links) /\ routes' \in Seq(Seq(Links))
    <3>1. path \in Seq(Links) /\ routes \in Seq(Seq(Links))
      BY DEF SearchTypeOK
    <3>2. \A l \in Links : Append(path, l) \in Seq(Links)
      BY <3>1, AppendProperties
    <3>3. CASE UNCHANGED <<path, routes>>
      BY <3>1, <3>3
    <3>4. CASE \E l \in Links : path' = Append(path, l) /\ routes' \in {<<path'>>, routes}
      <4>1. path' \in Seq(Links)
        BY <3>2, <3>4
      <4>2. <<path'>> \in Seq(Seq(Links))
        BY <4>1
      <4> QED BY <3>1, <3>4, <4>1, <4>2
    <3>5. UNCHANGED <<path, routes>>
          \/ \E l \in Links : path' = Append(path, l) /\ routes' \in {<<path'>>, routes}
      BY <1>3, WalkFacts
    <3> QED BY <3>3, <3>4, <3>5
  <2> QED BY <2>1, <2>2 DEF SearchTypeOK, inputs, potential, ranking
<1>4. CASE Expand
  <2>1. UNCHANGED <<inputs, potential, phase, greedyVars>> /\ serial' \in Nat
        /\ expansions' = expansions + 1
    BY <1>4, ExpandFacts
  <2>2. PICK top \in open :
          /\ top \in Entries /\ More(top.path) \subseteq Links
          /\ routes' = IF NodeAfter(top.path) = request.dest /\ top.path # <<>>
                       THEN Append(routes, top.path) ELSE routes
          /\ \A e \in open' : \/ e \in open /\ e # top
                              \/ \E l \in More(top.path), n \in Nat : e = Child(top, l, n)
    BY <1>4, ExpandFacts
  <2>3. routes' \in Seq(Seq(Links))
    <3>1. routes \in Seq(Seq(Links)) /\ top.path \in Seq(Links)
      BY <2>2 DEF SearchTypeOK, Entries
    <3>2. Append(routes, top.path) \in Seq(Seq(Links))
      BY <3>1, AppendProperties
    <3> QED BY <2>2, <3>1, <3>2
  <2>4. open' \subseteq Entries
    <3>1. ASSUME NEW l \in Links, NEW n \in Nat PROVE Child(top, l, n) \in Entries
      <4>1. cost[l] \in Nat /\ ActionCost(l) \in Nat
        BY TypeFacts
      <4>2. top.cost \in Nat /\ top.path \in Seq(Links)
        BY <2>2 DEF Entries
      <4>3. Append(top.path, l) \in Seq(Links)
        BY <4>2, AppendProperties
      <4> QED BY <4>1, <4>2, <4>3 DEF Child, Entries
    <3>2. open \subseteq Entries
      BY DEF SearchTypeOK
    <3> QED BY <2>2, <3>1, <3>2
  <2> QED BY <2>1, <2>3, <2>4 DEF SearchTypeOK, inputs, potential, greedyVars
<1>5. CASE EndRanking
  BY <1>5 DEF EndRanking, SearchTypeOK, inputs, potential, greedyVars, ranking
<1>6. CASE UNCHANGED vars
  BY <1>6 DEF vars, SearchTypeOK, inputs, potential, greedyVars, ranking
<1> QED BY <1>1, <1>2, <1>3, <1>4, <1>5, <1>6 DEF SearchNext

LEMMA PotentialStep ==
    ASSUME SearchTypeOK, PotentialInv, [SearchNext]_vars
    PROVE  PotentialInv'
<1>1. CASE Relax
  BY <1>1, RelaxKeepsPotential
<1>2. CASE ~ Relax
  <2>1. UNCHANGED <<inputs, potential>> /\ (phase' # phase => queue = {})
    BY <1>2 DEF SearchNext, ChooseSearch, Walk, Expand, EndRanking, vars, PotentialInv
  <2>2. /\ cost' = cost /\ blocked' = blocked /\ request' = request
        /\ dist' = dist /\ queue' = queue
    BY <2>1 DEF inputs, potential
  <2>3. phase' # "potential" => queue' = {}
    BY <2>1, <2>2 DEF PotentialInv
  <2> QED BY <2>2, <2>3 DEF PotentialInv, Attained, Consistent, Passable
<1> QED BY <1>1, <1>2

LEMMA PotentialInit == SearchInit => SearchTypeOK /\ PotentialInv
<1> SUFFICES ASSUME SearchInit PROVE SearchTypeOK /\ PotentialInv
  OBVIOUS
<1>1. request \in Requests /\ request.dest \in Nodes
  BY NetworkFacts DEF SearchInit
<1>2. /\ queue = {<<0, request.dest>>} /\ phase = "potential" /\ cost \in [Links -> Costs]
      /\ dist = [n \in Nodes |-> IF n = request.dest THEN 0 ELSE Far]
  BY DEF SearchInit
<1>3. \A n \in Nodes : dist[n] = IF n = request.dest THEN 0 ELSE Far
  BY <1>2
<1>4. SearchTypeOK
  <2>1. /\ path = <<>> /\ routes = <<>> /\ serial = 0 /\ expansions = 0
        /\ open = {[est |-> 0, cost |-> 0, serial |-> 0, path |-> <<>>]}
    BY DEF SearchInit
  <2>2. <<>> \in Seq(Links) /\ <<>> \in Seq(Seq(Links))
    OBVIOUS
  <2>3. open \subseteq Entries
    BY <2>1, <2>2 DEF Entries
  <2>4. dist \in [Nodes -> 0 .. Far] /\ queue \subseteq Nat \X Nodes
    BY <1>1, <1>2, NetworkFacts
  <2> QED BY <1>1, <1>2, <2>1, <2>2, <2>3, <2>4 DEF SearchTypeOK
<1>5. PotentialInv
  <2>1. ASSUME NEW l \in Links PROVE Consistent(l) \/ <<dist[Dst[l]], Dst[l]>> \in queue
    <3>1. Src[l] \in Nodes /\ Dst[l] \in Nodes /\ cost[l] \in Nat /\ dist[Src[l]] <= Far
      BY <1>4, NetworkFacts, TypeFacts
    <3>2. CASE Dst[l] = request.dest
      BY <1>2, <1>3, <3>1, <3>2
    <3>3. CASE Dst[l] # request.dest
      <4>1. dist[Dst[l]] = Far /\ dist[Src[l]] \in Nat
        BY <1>3, <1>4, <3>1, <3>3, TypeFacts
      <4> QED BY <3>1, <4>1, NetworkFacts DEF Consistent
    <3> QED BY <3>2, <3>3
  <2>2. Attained
    BY <1>3, NetworkFacts DEF Attained
  <2>3. \A e \in queue : dist[e[2]] <= e[1]
    BY <1>1, <1>2, <1>3
  <2> QED BY <1>1, <1>2, <1>3, <2>1, <2>2, <2>3 DEF PotentialInv
<1> QED BY <1>4, <1>5

(* The costs to go are the least way on found so far, and whatever may     *)
(* still improve is queued (_reverse_dijkstra_node_costs).                 *)
THEOREM PotentialInvariant == SearchSpec => [](SearchTypeOK /\ PotentialInv)
<1>1. SearchTypeOK /\ PotentialInv /\ [SearchNext]_vars => (SearchTypeOK /\ PotentialInv)'
  BY TypeStep, PotentialStep
<1> QED BY PotentialInit, <1>1, PTL DEF SearchSpec

(* The cheapest ways of at most h links (Shortest), and the recursion      *)
(* that defines them.                                                      *)
Onwards(w, n) == {m \in Links \ blocked : Src[m] = n /\ w[Dst[m]] < Far}
Longer(w) == [n \in Nodes |-> Min({w[n]} \cup {cost[l] + w[Dst[l]] : l \in Onwards(w, n)})]
AtGoal == [n \in Nodes |-> IF n = request.dest THEN 0 ELSE Far]
Ways == CHOOSE w : w = [h \in 0 .. Cardinality(Nodes) |-> IF h = 0 THEN AtGoal ELSE Longer(w[h - 1])]

LEMMA ShortestIsWays == Shortest = Ways[Cardinality(Nodes)]
BY DEF Shortest, Ways, Longer, Onwards, AtGoal

LEMMA WaysExist ==
    \A top \in Nat : \E w : w = [h \in 0 .. top |-> IF h = 0 THEN AtGoal ELSE Longer(w[h - 1])]
<1> DEFINE solves(w, top) == w = [h \in 0 .. top |-> IF h = 0 THEN AtGoal ELSE Longer(w[h - 1])]
           unsolved == {top \in Nat : ~ \E w : solves(w, top)}
<1> SUFFICES ASSUME unsolved # {} PROVE FALSE
  OBVIOUS
<1>1. PICK top \in unsolved : \A k \in unsolved : top <= k
  BY LeastExists
<1>2. top # 0
  <2>1. solves([h \in 0 .. 0 |-> AtGoal], 0)
    OBVIOUS
  <2> QED BY <1>1, <2>1
<1>3. top \in Nat /\ top - 1 \in Nat /\ top - 1 \notin unsolved
  <2>1. top \in Nat
    OBVIOUS
  <2> HIDE DEF unsolved
  <2> QED BY <1>1, <1>2, <2>1
<1>4. PICK w : solves(w, top - 1)
  BY <1>3
<1> DEFINE v == [h \in 0 .. top |-> IF h = 0 THEN AtGoal ELSE Longer(w[h - 1])]
<1>5. ASSUME NEW h \in 0 .. top - 1 PROVE v[h] = w[h]
  <2>1. w[h] = IF h = 0 THEN AtGoal ELSE Longer(w[h - 1])
    BY <1>4
  <2>2. v[h] = IF h = 0 THEN AtGoal ELSE Longer(w[h - 1])
    BY <1>3
  <2> QED BY <2>1, <2>2
<1>6. solves(v, top)
  <2>1. ASSUME NEW h \in 0 .. top PROVE v[h] = IF h = 0 THEN AtGoal ELSE Longer(v[h - 1])
    <3>1. v[h] = IF h = 0 THEN AtGoal ELSE Longer(w[h - 1])
      OBVIOUS
    <3>2. h # 0 => h - 1 \in 0 .. top - 1
      BY <1>3
    <3>3. h # 0 => v[h - 1] = w[h - 1]
      <4> HIDE DEF v
      <4> QED BY <1>5, <3>2
    <3> HIDE DEF v
    <3> QED BY <3>1, <3>3
  <2> QED BY <2>1
<1> QED BY <1>3, <1>6

(* A potential that nothing improves any more is exact: no way is cheaper, *)
(* and each cost to go is reached with one link for every node that is     *)
(* nearer to the destination.                                              *)
LEMMA SettledIsShortest ==
    ASSUME SearchTypeOK, PotentialInv, queue = {}
    PROVE  dist = Shortest
<1> DEFINE N == Cardinality(Nodes)
           w == Ways
           nearer(n) == {m \in Nodes : dist[m] < dist[n]}
<1>1. N \in Nat /\ IsFiniteSet(Nodes)
  BY SearchAssumption, FS_CardinalityType
<1>2. w = [h \in 0 .. N |-> IF h = 0 THEN AtGoal ELSE Longer(w[h - 1])]
  BY <1>1, WaysExist DEF Ways
<1> HIDE DEF w, N
<1>3. \A n \in Nodes : dist[n] \in Nat /\ dist[n] <= Far
  BY TypeFacts
<1>4. \A l \in Links : cost[l] \in Nat /\ cost[l] > 0 /\ Src[l] \in Nodes /\ Dst[l] \in Nodes
  BY TypeFacts, NetworkFacts
<1>5. \A l \in Links \ blocked : dist[Src[l]] <= cost[l] + dist[Dst[l]]
  BY DEF PotentialInv, Passable, Consistent
<1> DEFINE bounds(h) == w[h] \in [Nodes -> Nat] /\ \A n \in Nodes : dist[n] <= w[h][n] /\ w[h][n] <= Far
           reached(h) == \A n \in Nodes : Cardinality(nearer(n)) <= h => w[h][n] = dist[n]
<1>6. bounds(0) /\ reached(0)
  <2>1. w[0] = AtGoal
    BY <1>1, <1>2
  <2>2. dist[request.dest] = 0 /\ request.dest \in Nodes
    BY TypeFacts DEF PotentialInv
  <2>3. bounds(0)
    BY <1>3, <2>1, <2>2, NetworkFacts DEF AtGoal
  <2>4. ASSUME NEW n \in Nodes, Cardinality(nearer(n)) <= 0 PROVE w[0][n] = dist[n]
    <3>1. IsFiniteSet(nearer(n))
      BY <1>1, FS_Subset
    <3>2. nearer(n) = {}
      BY <2>4, <3>1, FS_CardinalityType, FS_EmptySet
    <3>3. dist[n] <= 0
      BY <1>3, <2>2, <3>2
    <3>4. n = request.dest \/ dist[n] = Far
      <4> SUFFICES ASSUME n # request.dest, dist[n] < Far PROVE FALSE
        BY <1>3, NetworkFacts
      <4>1. PICK l \in Links : cost[l] + dist[Dst[l]] <= dist[n]
        BY DEF PotentialInv, Attained
      <4> QED BY <1>3, <1>4, <3>3, <4>1
    <3> QED BY <2>1, <2>2, <3>4 DEF AtGoal
  <2> QED BY <2>3, <2>4
<1>7. ASSUME NEW h \in 1 .. N, bounds(h - 1), reached(h - 1)
      PROVE  bounds(h) /\ reached(h)
  <2> DEFINE u == w[h - 1]
             ways(n) == {u[n]} \cup {cost[l] + u[Dst[l]] : l \in Onwards(u, n)}
  <2>1. w[h] = [n \in Nodes |-> Min(ways(n))]
    <3>1. h \in 0 .. N /\ h # 0
      BY <1>1
    <3>2. w[h] = Longer(w[h - 1])
      BY <1>2, <3>1
    <3> QED BY <3>2 DEF Longer
  <2>2. \A n \in Nodes : u[n] \in Nat /\ dist[n] <= u[n] /\ u[n] <= Far
    BY <1>7
  <2>3. \A n \in Nodes : Cardinality(nearer(n)) <= h - 1 => u[n] = dist[n]
    BY <1>7
  <2> HIDE DEF u
  <2>4. \A n \in Nodes : \A l \in Onwards(u, n) :
            /\ l \in Links \ blocked /\ Src[l] = n /\ Dst[l] \in Nodes
            /\ cost[l] + u[Dst[l]] \in Nat /\ dist[n] <= cost[l] + u[Dst[l]]
    <3> SUFFICES ASSUME NEW n \in Nodes, NEW l \in Onwards(u, n)
                 PROVE  /\ l \in Links \ blocked /\ Src[l] = n /\ Dst[l] \in Nodes
                        /\ cost[l] + u[Dst[l]] \in Nat /\ dist[n] <= cost[l] + u[Dst[l]]
      OBVIOUS
    <3>1. l \in Links \ blocked /\ Src[l] = n
      BY DEF Onwards
    <3>2. cost[l] \in Nat /\ Dst[l] \in Nodes /\ dist[n] <= cost[l] + dist[Dst[l]]
      BY <1>4, <1>5, <3>1
    <3>3. u[Dst[l]] \in Nat /\ dist[Dst[l]] <= u[Dst[l]] /\ dist[Dst[l]] \in Nat /\ dist[n] \in Nat
      BY <1>3, <2>2, <3>2
    <3> QED BY <3>1, <3>2, <3>3
  <2>5. \A n \in Nodes : w[h][n] \in ways(n) /\ \A x \in ways(n) : w[h][n] <= x
    <3> SUFFICES ASSUME NEW n \in Nodes PROVE w[h][n] \in ways(n) /\ \A x \in ways(n) : w[h][n] <= x
      OBVIOUS
    <3>1. ways(n) \subseteq Nat /\ ways(n) # {}
      BY <2>2, <2>4
    <3>2. w[h][n] = Min(ways(n))
      BY <2>1
    <3> HIDE DEF ways
    <3> QED BY <3>1, <3>2, MinIsLeast
  <2>6. \A n \in Nodes : w[h][n] \in Nat /\ dist[n] <= w[h][n] /\ w[h][n] <= Far
    <3> SUFFICES ASSUME NEW n \in Nodes
                 PROVE  w[h][n] \in Nat /\ dist[n] <= w[h][n] /\ w[h][n] <= Far
      OBVIOUS
    <3>1. w[h][n] \in Nat /\ dist[n] <= w[h][n]
      BY <2>2, <2>4, <2>5
    <3>2. w[h][n] <= u[n]
      BY <2>5
    <3> QED BY <2>2, <3>1, <3>2, NetworkFacts
  <2>7. bounds(h)
    <3>1. w[h] = [n \in Nodes |-> w[h][n]]
      BY <2>1
    <3> QED BY <2>6, <3>1
  <2>8. ASSUME NEW n \in Nodes, Cardinality(nearer(n)) <= h PROVE w[h][n] = dist[n]
    <3>1. CASE n = request.dest \/ dist[n] = Far
      <4>1. dist[n] = u[n]
        <5>1. CASE dist[n] = Far
          BY <2>2, <5>1, NetworkFacts
        <5>2. CASE n = request.dest
          <6>1. dist[n] = 0
            BY <5>2 DEF PotentialInv
          <6>2. nearer(n) = {}
            BY <1>3, <6>1
          <6>3. Cardinality(nearer(n)) = 0
            BY <6>2, FS_EmptySet
          <6>4. 0 <= h - 1
            OBVIOUS
          <6> QED BY <2>3, <6>3, <6>4
        <5> QED BY <3>1, <5>1, <5>2
      <4>2. w[h][n] <= u[n]
        BY <2>5
      <4> QED BY <1>3, <2>6, <4>1, <4>2
    <3>2. CASE n # request.dest /\ dist[n] # Far
      <4>1. dist[n] < Far
        BY <1>3, <3>2, NetworkFacts
      <4>2. PICK l \in Links : Passable(l) /\ Src[l] = n /\ cost[l] + dist[Dst[l]] <= dist[n]
        BY <3>2, <4>1 DEF PotentialInv, Attained
      <4> DEFINE m == Dst[l]
      <4>3. m \in Nodes /\ dist[m] < dist[n] /\ dist[m] < Far
        <5>1. m \in Nodes /\ cost[l] \in Nat /\ cost[l] > 0 /\ dist[m] \in Nat /\ dist[n] \in Nat
          BY <1>3, <1>4
        <5> HIDE DEF m
        <5>2. cost[l] + dist[m] <= dist[n]
          BY <4>2 DEF m
        <5> QED BY <4>1, <5>1, <5>2, NetworkFacts
      <4>4. Cardinality(nearer(m)) <= h - 1
        <5>1. nearer(m) \subseteq nearer(n) /\ m \in nearer(n) /\ m \notin nearer(m)
          BY <1>3, <4>3
        <5>2. IsFiniteSet(nearer(n)) /\ IsFiniteSet(nearer(m))
          BY <1>1, FS_Subset
        <5>3. Cardinality(nearer(m)) < Cardinality(nearer(n))
          <6> HIDE DEF nearer
          <6>1. Cardinality(nearer(m)) <= Cardinality(nearer(n))
                /\ (Cardinality(nearer(n)) = Cardinality(nearer(m)) => nearer(n) = nearer(m))
            BY <5>1, <5>2, FS_Subset
          <6>2. Cardinality(nearer(m)) \in Nat /\ Cardinality(nearer(n)) \in Nat
            BY <5>2, FS_CardinalityType
          <6> QED BY <5>1, <6>1, <6>2
        <5>4. Cardinality(nearer(m)) \in Nat /\ Cardinality(nearer(n)) \in Nat
          BY <5>2, FS_CardinalityType
        <5> HIDE DEF nearer
        <5> QED BY <2>8, <5>3, <5>4
      <4>5. u[m] = dist[m]
        BY <2>3, <4>3, <4>4
      <4>6. l \in Onwards(u, n)
        BY <4>2, <4>3, <4>5 DEF Onwards, Passable
      <4>7. w[h][n] <= cost[l] + u[m]
        BY <2>5, <4>6
      <4>8. cost[l] \in Nat /\ dist[m] \in Nat /\ dist[n] \in Nat
        BY <1>3, <1>4, <4>3
      <4> QED BY <2>6, <4>2, <4>5, <4>7, <4>8
    <3> QED BY <3>1, <3>2
  <2> QED BY <2>7, <2>8
<1> HIDE DEF bounds, reached
<1>8. \A h \in 0 .. N : bounds(h) /\ reached(h)
  <2> DEFINE bad == {h \in 0 .. N : ~ (bounds(h) /\ reached(h))}
  <2> SUFFICES ASSUME bad # {} PROVE FALSE
    OBVIOUS
  <2>1. bad \subseteq Nat
    BY <1>1
  <2>2. PICK h \in bad : \A k \in bad : h <= k
    BY <2>1, LeastExists
  <2>3. h # 0
    BY <1>6, <2>2
  <2>4. h - 1 \notin bad
    <3>1. h \in Nat
      BY <2>1
    <3> HIDE DEF bad
    <3> QED BY <2>2, <3>1
  <2> QED BY <1>1, <1>7, <2>2, <2>3, <2>4
<1>9. \A n \in Nodes : w[N][n] = dist[n]
  <2> SUFFICES ASSUME NEW n \in Nodes PROVE w[N][n] = dist[n]
    OBVIOUS
  <2>1. Cardinality(nearer(n)) <= N
    BY <1>1, FS_Subset DEF N
  <2>2. N \in 0 .. N
    BY <1>1
  <2> QED BY <1>8, <2>1, <2>2 DEF reached
<1>10. w[N] \in [Nodes -> Nat]
  BY <1>1, <1>8 DEF bounds
<1>11. dist \in [Nodes -> 0 .. Far]
  BY DEF SearchTypeOK
<1>12. dist = w[N]
  BY <1>9, <1>10, <1>11
<1> QED BY <1>12, ShortestIsWays DEF w, N

(* Before any route is searched, the potential of every node is the cost   *)
(* of the cheapest way over links that are not closed, and Far where there *)
(* is none: what greedy and ranked search both rely on.                    *)
THEOREM PotentialAlwaysExact == SearchSpec => []PotentialExact
<1>1. SearchTypeOK /\ PotentialInv => PotentialExact
  BY SettledIsShortest DEF PotentialExact, PotentialInv
<1> QED BY PotentialInvariant, <1>1, PTL

-----------------------------------------------------------------------------
(* Ways and how they grow. *)

(* What a route costs is a sum in the sense of the counting lemmas.        *)
LEMMA CostIsSum ==
    ASSUME NEW p
    PROVE  CostOf(p) = SumOn([i \in 1 .. Len(p) |-> cost[p[i]]], 1 .. Len(p))
BY DEF CostOf, FoldFunction, FoldFunctionOnSet, MapThenFoldSet, SumOn, MapThenSumSet

LEMMA SameInputs ==
    ASSUME UNCHANGED inputs
    PROVE  /\ \A p : /\ LegalWay(p)' <=> LegalWay(p)
                     /\ GoodWay(p)' <=> GoodWay(p)
                     /\ Arrived(p)' <=> Arrived(p)
                     /\ NodeAfter(p)' = NodeAfter(p) /\ Visited(p)' = Visited(p)
                     /\ CostOf(p)' = CostOf(p)
           /\ \A p, i : NodeAt(p, i)' = NodeAt(p, i)
           /\ LegalRoutes' = LegalRoutes
           /\ (dist' = dist /\ path' = path) => (NeverTurnedAway' <=> NeverTurnedAway)
           /\ MaxExpansions' = MaxExpansions
<1>1. cost' = cost /\ blocked' = blocked /\ forbidden' = forbidden /\ request' = request
  BY DEF inputs
<1>2. \A p, i : NodeAt(p, i)' = NodeAt(p, i) /\ LinkAt(p, i)' = LinkAt(p, i)
  BY <1>1 DEF NodeAt, LinkAt
<1>3. \A p : NodeAfter(p)' = NodeAfter(p) /\ Visited(p)' = Visited(p)
  BY <1>2 DEF NodeAfter, Visited
<1>4. \A p : LegalWay(p)' <=> LegalWay(p)
  BY <1>1, <1>2 DEF LegalWay
<1>5. \A p : (GoodWay(p)' <=> GoodWay(p)) /\ (Arrived(p)' <=> Arrived(p))
  BY <1>1, <1>3, <1>4 DEF GoodWay, Arrived
<1>6. \A p : CostOf(p)' = CostOf(p)
  BY <1>1 DEF CostOf, FoldFunction, FoldFunctionOnSet, MapThenFoldSet
<1>7. LegalRoutes' = LegalRoutes
  BY <1>1, <1>3, <1>4 DEF LegalRoutes
<1>8. (dist' = dist /\ path' = path) => (NeverTurnedAway' <=> NeverTurnedAway)
  BY <1>1, <1>2 DEF NeverTurnedAway, GoesOn, LegalTurn
<1>9. MaxExpansions' = MaxExpansions
  BY <1>1 DEF MaxExpansions
<1> QED BY <1>2, <1>3, <1>4, <1>5, <1>6, <1>7, <1>8, <1>9

(* A legal next link to a node not passed yet makes a legal way longer.    *)
LEMMA AppendFacts ==
    ASSUME NEW p \in Seq(Links), NEW l \in Links
    PROVE  /\ Append(p, l) \in Seq(Links) /\ Len(p) \in Nat
           /\ Len(Append(p, l)) = Len(p) + 1 /\ Append(p, l) # <<>>
           /\ \A i \in 1 .. Len(p) : Append(p, l)[i] = p[i]
           /\ Append(p, l)[Len(p) + 1] = l
           /\ \A i \in 0 .. Len(p) : NodeAt(Append(p, l), i) = NodeAt(p, i)
                                     /\ LinkAt(Append(p, l), i) = LinkAt(p, i)
           /\ NodeAfter(Append(p, l)) = Dst[l]
<1>1. /\ Append(p, l) \in Seq(Links) /\ Len(p) \in Nat
      /\ Len(Append(p, l)) = Len(p) + 1 /\ Append(p, l) # <<>>
      /\ \A i \in 1 .. Len(p) : Append(p, l)[i] = p[i]
      /\ Append(p, l)[Len(p) + 1] = l
  BY AppendProperties, LenProperties
<1>2. \A i \in 0 .. Len(p) : NodeAt(Append(p, l), i) = NodeAt(p, i)
                             /\ LinkAt(Append(p, l), i) = LinkAt(p, i)
  BY <1>1 DEF NodeAt, LinkAt
<1>3. NodeAfter(Append(p, l)) = Dst[l]
  BY <1>1 DEF NodeAfter, NodeAt
<1> QED BY <1>1, <1>2, <1>3

LEMMA WayGrows ==
    ASSUME NEW p \in Seq(Links), LegalWay(p), NEW l \in NextLinks(p), Dst[l] \notin Visited(p)
    PROVE  LegalWay(Append(p, l))
<1> DEFINE q == Append(p, l)
<1>1. l \in Links /\ Src[l] = NodeAfter(p) /\ LegalTurn(LinkAt(p, Len(p)), l) /\ l \notin blocked
  BY DEF NextLinks
<1>2. /\ Len(p) \in Nat /\ Len(q) = Len(p) + 1
      /\ \A i \in 1 .. Len(p) : q[i] = p[i]
      /\ q[Len(p) + 1] = l
      /\ \A i \in 0 .. Len(p) : NodeAt(q, i) = NodeAt(p, i) /\ LinkAt(q, i) = LinkAt(p, i)
      /\ NodeAt(q, Len(p) + 1) = Dst[l]
  BY <1>1, AppendFacts DEF NodeAfter
<1> HIDE DEF q
<1>3. ASSUME NEW i \in 1 .. Len(q)
      PROVE  /\ q[i] \notin blocked /\ Src[q[i]] = NodeAt(q, i - 1)
             /\ \/ LinkAt(q, i - 1) = None \/ Listed = {}
                \/ <<LinkAt(q, i - 1), q[i]>> \in Listed \ forbidden
  <2>1. CASE i \in 1 .. Len(p)
    <3>1. i - 1 \in 0 .. Len(p)
      BY <1>2, <2>1
    <3> QED BY <1>2, <2>1, <3>1 DEF LegalWay
  <2>2. CASE i = Len(p) + 1
    <3>1. i - 1 = Len(p) /\ Len(p) \in 0 .. Len(p) /\ q[i] = l
      BY <1>2, <2>2
    <3>2. NodeAt(q, i - 1) = NodeAt(p, Len(p)) /\ LinkAt(q, i - 1) = LinkAt(p, Len(p))
      BY <1>2, <3>1
    <3> QED BY <1>1, <3>1, <3>2 DEF LegalTurn, NodeAfter
  <2> QED BY <1>2, <2>1, <2>2
<1>4. ASSUME NEW i \in 0 .. Len(q), NEW j \in 0 .. Len(q), i < j
      PROVE  NodeAt(q, i) # NodeAt(q, j)
  <2>1. i \in 0 .. Len(p)
    BY <1>2, <1>4
  <2>2. CASE j \in 0 .. Len(p)
    BY <1>2, <1>4, <2>1, <2>2 DEF LegalWay
  <2>3. CASE j = Len(p) + 1
    BY <1>2, <2>1, <2>3 DEF Visited
  <2> QED BY <1>2, <2>2, <2>3
<1> QED BY <1>3, <1>4 DEF LegalWay, q

LEMMA EmptyWay == ASSUME SearchTypeOK PROVE GoodWay(<<>>)
<1>1. Len(<<>>) = 0 /\ 0 <= MaxHops
  BY NetworkFacts
<1> QED BY <1>1 DEF GoodWay, LegalWay

(* One way beginning another. *)
LEMMA BeginsGrown ==
    ASSUME NEW p \in Seq(Links), NEW l \in Links, NEW q \in Seq(Links)
    PROVE  /\ Begins(Append(p, l), q) => Begins(p, q)
           /\ Begins(q, Append(p, l)) => Begins(q, p) \/ Begins(p, q)
           /\ Begins(Append(p, l), q) => Len(p) < Len(q) /\ q[Len(p) + 1] = l
           /\ Begins(p, q) /\ Len(p) < Len(q) /\ q[Len(p) + 1] = l => Begins(Append(p, l), q)
<1>1. /\ Len(p) \in Nat /\ Len(q) \in Nat
      /\ Len(Append(p, l)) = Len(p) + 1
      /\ \A i \in 1 .. Len(p) : Append(p, l)[i] = p[i]
      /\ Append(p, l)[Len(p) + 1] = l
  BY AppendFacts, LenProperties
<1> DEFINE r == Append(p, l)
<1> HIDE DEF r
<1>2. /\ Len(p) \in Nat /\ Len(q) \in Nat /\ Len(r) = Len(p) + 1
      /\ \A i \in 1 .. Len(p) : r[i] = p[i]
      /\ r[Len(p) + 1] = l
  BY <1>1 DEF r
<1>3. Begins(r, q) => Begins(p, q) /\ Len(p) < Len(q) /\ q[Len(p) + 1] = l
  BY <1>2 DEF Begins
<1>4. Begins(q, r) => Begins(q, p) \/ Begins(p, q)
  BY <1>2 DEF Begins
<1>5. Begins(p, q) /\ Len(p) < Len(q) /\ q[Len(p) + 1] = l => Begins(r, q)
  <2> SUFFICES ASSUME Begins(p, q), Len(p) < Len(q), q[Len(p) + 1] = l, NEW i \in 1 .. Len(r)
               PROVE  Len(r) <= Len(q) /\ r[i] = q[i]
    BY DEF Begins
  <2>1. i \in 1 .. Len(p) \/ i = Len(p) + 1
    BY <1>2
  <2> QED BY <1>2, <2>1 DEF Begins
<1> QED BY <1>3, <1>4, <1>5 DEF r

-----------------------------------------------------------------------------
(* Candidates are legal, and no two are the same. *)

LEMMA UntouchedStep ==
    ASSUME SearchTypeOK, Untouched, [SearchNext]_vars
    PROVE  Untouched'
<1>1. CASE Relax
  BY <1>1 DEF Relax, Untouched, Searching, MaxExpansions, inputs, greedyVars, ranking
<1>2. CASE ChooseSearch
  <2>1. request.wanted > 1 \/ request.wanted = 1
    BY TypeFacts
  <2> QED BY <1>2, <2>1 DEF ChooseSearch, Untouched, Searching, MaxExpansions, inputs, greedyVars, ranking
<1>3. CASE Walk
  <2>1. /\ phase = "greedy" /\ UNCHANGED <<inputs, ranking>> /\ phase' \in {"greedy", "done"}
        /\ phase' = "greedy" => routes' = routes
    BY <1>3, WalkFacts
  <2>2. request.origin # request.dest /\ request.wanted = 1 /\ ~ (request.wanted > 1)
    BY <2>1 DEF Untouched
  <2> QED BY <2>1, <2>2 DEF Untouched, inputs, ranking
<1>4. CASE Expand
  <2>1. phase = "ranked" /\ UNCHANGED <<inputs, phase, greedyVars>>
    BY <1>4, ExpandFacts
  <2>2. request.origin # request.dest /\ request.wanted > 1
    BY <2>1 DEF Untouched
  <2> QED BY <2>1, <2>2 DEF Untouched, inputs, greedyVars
<1>5. CASE EndRanking
  <2>1. request.wanted > 1 /\ request.origin # request.dest
    BY <1>5 DEF EndRanking, Untouched
  <2> QED BY <1>5, <2>1 DEF EndRanking, Untouched, Searching, MaxExpansions, inputs, greedyVars, ranking
<1>6. CASE UNCHANGED vars
  BY <1>6 DEF vars, Untouched, Searching, MaxExpansions, inputs, greedyVars, ranking
<1> QED BY <1>1, <1>2, <1>3, <1>4, <1>5, <1>6 DEF SearchNext

LEMMA WaysLegalStep ==
    ASSUME SearchTypeOK, Untouched, WaysLegal, [SearchNext]_vars
    PROVE  WaysLegal'
<1>1. UNCHANGED inputs
  BY DEF SearchNext, Relax, ChooseSearch, Walk, Expand, EndRanking, vars
<1>2. request' = request
  BY <1>1 DEF inputs
<1>3. CASE UNCHANGED <<path, open, routes>> /\ phase' # "greedy" /\ (phase' = "done" \/ phase # "done")
  BY <1>1, <1>2, <1>3, SameInputs DEF WaysLegal
<1>4. CASE ChooseSearch
  <2>1. phase = "potential" /\ path = <<>> /\ UNCHANGED <<path, open, routes>>
    BY <1>4 DEF ChooseSearch, Untouched, greedyVars, ranking
  <2>2. Visited(path) = {request.origin}
    BY <2>1 DEF Visited, NodeAt
  <2>3. phase' = "greedy" => request.origin # request.dest
    BY <1>4 DEF ChooseSearch
  <2> QED BY <1>1, <1>2, <2>1, <2>2, <2>3, SameInputs DEF WaysLegal
<1>5. CASE Walk
  <2>1. phase = "greedy" /\ UNCHANGED <<inputs, potential, ranking>> /\ routes = <<>>
    BY <1>5, WalkFacts DEF Untouched
  <2>2. CASE phase' = "done" /\ UNCHANGED <<path, routes>>
    BY <1>1, <2>1, <2>2, SameInputs DEF WaysLegal, ranking
  <2>3. CASE /\ Len(path) # MaxHops
             /\ \E l \in NextLinks(path) :
                  /\ l \in Links
                  /\ path' = Append(path, l)
                  /\ phase' = IF Dst[l] = request.dest \/ Dst[l] \in Visited(path)
                              THEN "done" ELSE "greedy"
                  /\ routes' = IF Dst[l] = request.dest THEN <<path'>> ELSE routes
    <3>1. PICK l \in NextLinks(path) :
              /\ l \in Links
              /\ path' = Append(path, l)
              /\ phase' = IF Dst[l] = request.dest \/ Dst[l] \in Visited(path)
                          THEN "done" ELSE "greedy"
              /\ routes' = IF Dst[l] = request.dest THEN <<path'>> ELSE routes
      BY <2>3
    <3> DEFINE q == Append(path, l)
    <3>2. path \in Seq(Links) /\ GoodWay(path) /\ request.dest \notin Visited(path)
      BY <2>1 DEF SearchTypeOK, WaysLegal
    <3>3. /\ q \in Seq(Links) /\ Len(path) \in Nat /\ Len(q) = Len(path) + 1 /\ q # <<>>
          /\ \A i \in 0 .. Len(path) : NodeAt(q, i) = NodeAt(path, i)
          /\ NodeAfter(q) = Dst[l]
      BY <3>1, <3>2, AppendFacts
    <3>4. Len(q) <= MaxHops
      BY <2>3, <3>2, <3>3, NetworkFacts DEF GoodWay
    <3>5. Dst[l] \notin Visited(path) => GoodWay(q)
      BY <3>2, <3>4, WayGrows DEF GoodWay
    <3> HIDE DEF q
    <3>6. Dst[l] # request.dest => request.dest \notin Visited(q)
      <4> SUFFICES ASSUME Dst[l] # request.dest, NEW i \in 0 .. Len(q) PROVE NodeAt(q, i) # request.dest
        BY DEF Visited
      <4>1. CASE i \in 0 .. Len(path)
        BY <3>2, <3>3, <4>1 DEF Visited
      <4>2. CASE i = Len(path) + 1
        BY <3>3, <4>2 DEF NodeAfter
      <4> QED BY <3>3, <4>1, <4>2
    <3>7. Dst[l] = request.dest => Arrived(q)
      BY <3>2, <3>3, <3>5 DEF Arrived
    <3>8. path' = q
      BY <3>1 DEF q
    <3>9. \A i \in 1 .. Len(routes') : Arrived(routes'[i])
      <4>1. CASE Dst[l] = request.dest
        <5>1. routes' = <<q>>
          BY <3>1, <3>8, <4>1
        <5> QED BY <3>7, <4>1, <5>1
      <4>2. CASE Dst[l] # request.dest
        BY <2>1, <3>1, <4>2
      <4> QED BY <4>1, <4>2
    <3>10. phase' # "done" => GoodWay(q)
      BY <3>1, <3>5
    <3>11. phase' = "greedy" => request.dest \notin Visited(q)
      BY <3>1, <3>6
    <3>12. \A e \in open' : GoodWay(e.path)
      BY <2>1 DEF ranking, WaysLegal
    <3> QED BY <1>1, <1>2, <3>8, <3>9, <3>10, <3>11, <3>12, SameInputs DEF WaysLegal
  <2> QED BY <1>5, <2>2, <2>3, WalkFacts
<1>6. CASE Expand
  <2>1. phase = "ranked" /\ phase' = phase /\ path' = path
    BY <1>6, ExpandFacts DEF greedyVars
  <2>2. PICK top \in open :
          /\ top \in Entries /\ More(top.path) \subseteq Links
          /\ routes' = IF NodeAfter(top.path) = request.dest /\ top.path # <<>>
                       THEN Append(routes, top.path) ELSE routes
          /\ \A e \in open' : \/ e \in open /\ e # top
                              \/ \E l \in More(top.path), n \in Nat : e = Child(top, l, n)
    BY <1>6, ExpandFacts
  <2>3. top.path \in Seq(Links) /\ GoodWay(top.path)
    BY <2>2 DEF Entries, WaysLegal
  <2>4. ASSUME NEW e \in open' PROVE GoodWay(e.path)
    <3>1. CASE e \in open
      BY <3>1 DEF WaysLegal
    <3>2. CASE \E l \in More(top.path), n \in Nat : e = Child(top, l, n)
      <4>1. PICK l \in More(top.path) : e.path = Append(top.path, l)
        BY <3>2 DEF Child
      <4>2. l \in Links /\ l \in NextLinks(top.path) /\ Dst[l] \notin Visited(top.path)
            /\ ~ (Len(top.path) >= MaxHops)
        BY <2>2, <4>1 DEF More, Growing
      <4>3. LegalWay(Append(top.path, l))
        BY <2>3, <4>2, WayGrows DEF GoodWay
      <4>4. Len(Append(top.path, l)) <= MaxHops
        BY <2>3, <4>2, AppendFacts, NetworkFacts
      <4> QED BY <4>1, <4>3, <4>4 DEF GoodWay
    <3> QED BY <2>2, <3>1, <3>2
  <2>5. ASSUME NEW i \in 1 .. Len(routes') PROVE Arrived(routes'[i])
    <3>1. CASE NodeAfter(top.path) = request.dest /\ top.path # <<>>
      <4>1. routes \in Seq(Seq(Links)) /\ routes' = Append(routes, top.path)
        BY <2>2, <3>1 DEF SearchTypeOK
      <4>2. /\ Len(routes) \in Nat /\ Len(routes') = Len(routes) + 1
            /\ \A j \in 1 .. Len(routes) : routes'[j] = routes[j]
            /\ routes'[Len(routes) + 1] = top.path
        BY <2>3, <4>1, AppendProperties, LenProperties
      <4>3. CASE i \in 1 .. Len(routes)
        BY <4>2, <4>3 DEF WaysLegal
      <4>4. CASE i = Len(routes) + 1
        BY <2>3, <3>1, <4>2, <4>4 DEF Arrived
      <4> QED BY <4>2, <4>3, <4>4
    <3>2. CASE ~ (NodeAfter(top.path) = request.dest /\ top.path # <<>>)
      BY <2>2, <3>2 DEF WaysLegal
    <3> QED BY <3>1, <3>2
  <2> QED BY <1>1, <1>2, <2>1, <2>4, <2>5, SameInputs DEF WaysLegal
<1>7. CASE Relax \/ EndRanking
  BY <1>3, <1>7 DEF Relax, EndRanking, greedyVars, ranking
<1>8. CASE UNCHANGED vars
  BY <1>1, <1>2, <1>8, SameInputs DEF vars, greedyVars, ranking, WaysLegal
<1> QED BY <1>4, <1>5, <1>6, <1>7, <1>8 DEF SearchNext

LEMMA WaysApartExpand ==
    ASSUME SearchTypeOK, Untouched, WaysApart, Expand
    PROVE  WaysApart'
<1>1. /\ phase = "ranked" /\ request' = request /\ request.wanted > 1 /\ ~ (request.wanted = 1)
  BY ExpandFacts, TypeFacts DEF Untouched, inputs
<1>2. PICK top \in open :
        /\ top \in Entries /\ More(top.path) \subseteq Links
        /\ routes' = IF NodeAfter(top.path) = request.dest /\ top.path # <<>>
                     THEN Append(routes, top.path) ELSE routes
        /\ \A e \in open' :
              \/ e \in open /\ e # top
              \/ \E l \in More(top.path), n \in Nat : e = Child(top, l, n)
        /\ \A e, f \in open' : (e \notin open /\ f \notin open /\ e # f) =>
              e.path[Len(top.path) + 1] # f.path[Len(top.path) + 1]
  BY ExpandFacts
<1> DEFINE p == top.path
           arrived == NodeAfter(p) = request.dest /\ p # <<>>
<1>3. p \in Seq(Links) /\ Len(p) \in Nat
  BY <1>2, LenProperties DEF Entries
<1>4. \A e \in open : e.path \in Seq(Links)
  BY DEF SearchTypeOK, Entries
<1>5. \A i \in 1 .. Len(routes) : routes[i] \in Seq(Links)
  BY DEF SearchTypeOK
<1>6. \A e \in open : e # top => ~ Begins(e.path, p) /\ ~ Begins(p, e.path)
  BY DEF WaysApart
<1>7. \A e \in open' : \/ e \in open /\ e # top
                       \/ e \notin open /\ ~ arrived /\ \E l \in Links : e.path = Append(p, l)
  <2> SUFFICES ASSUME NEW e \in open', NEW l \in More(p), NEW n \in Nat, e = Child(top, l, n)
               PROVE  \/ e \in open /\ e # top
                      \/ e \notin open /\ ~ arrived /\ \E m \in Links : e.path = Append(p, m)
    BY <1>2
  <2>1. l \in Links /\ e.path = Append(p, l) /\ ~ arrived
    BY <1>2 DEF Child, More
  <2>2. Len(e.path) = Len(p) + 1
    BY <1>3, <2>1, AppendFacts
  <2>3. e # top
    BY <1>3, <2>2
  <2> QED BY <2>1, <2>3
<1> HIDE DEF p, arrived
<1>8. ASSUME NEW e \in open', NEW f \in open', e # f PROVE ~ Begins(e.path, f.path)
  <2>1. CASE e \in open /\ e # top /\ f \in open /\ f # top
    BY <1>8, <2>1 DEF WaysApart
  <2>2. CASE e \notin open /\ f \in open /\ f # top
    <3>1. PICK l \in Links : e.path = Append(p, l)
      BY <1>7, <2>2
    <3>2. f.path \in Seq(Links) /\ ~ Begins(p, f.path)
      BY <1>4, <1>6, <2>2
    <3> QED BY <1>3, <3>1, <3>2, BeginsGrown
  <2>3. CASE e \in open /\ e # top /\ f \notin open
    <3>1. PICK l \in Links : f.path = Append(p, l)
      BY <1>7, <2>3
    <3>2. e.path \in Seq(Links) /\ ~ Begins(p, e.path) /\ ~ Begins(e.path, p)
      BY <1>4, <1>6, <2>3
    <3> QED BY <1>3, <3>1, <3>2, BeginsGrown
  <2>4. CASE e \notin open /\ f \notin open
    <3>1. PICK l \in Links : e.path = Append(p, l)
      BY <1>7, <2>4
    <3>2. PICK m \in Links : f.path = Append(p, m)
      BY <1>7, <2>4
    <3>3. e.path[Len(p) + 1] # f.path[Len(p) + 1] /\ e.path[Len(p) + 1] = l
      BY <1>2, <1>3, <1>8, <2>4, <3>1, AppendFacts DEF p
    <3>4. f.path \in Seq(Links)
      BY <1>3, <3>2, AppendFacts
    <3> QED BY <1>3, <3>1, <3>3, <3>4, BeginsGrown
  <2> QED BY <1>7, <2>1, <2>2, <2>3, <2>4
<1>9. \A i \in 1 .. Len(routes) :
         /\ \A e \in open : ~ Begins(e.path, routes[i]) /\ ~ Begins(routes[i], e.path)
         /\ \A j \in 1 .. Len(routes) : i # j => routes[i] # routes[j]
  BY <1>1 DEF WaysApart
<1>10. CASE arrived
  <2>1. routes \in Seq(Seq(Links)) /\ routes' = Append(routes, p)
    BY <1>2, <1>10 DEF SearchTypeOK, p, arrived
  <2>2. /\ Len(routes) \in Nat /\ Len(routes') = Len(routes) + 1
        /\ \A j \in 1 .. Len(routes) : routes'[j] = routes[j]
        /\ routes'[Len(routes) + 1] = p
    BY <1>3, <2>1, AppendProperties, LenProperties
  <2>3. \A e \in open' : e \in open /\ e # top
    BY <1>7, <1>10
  <2>4. Begins(p, p)
    BY <1>3 DEF Begins
  <2>5. \A i \in 1 .. Len(routes) : routes[i] # p
    BY <1>2, <1>9, <2>4 DEF p
  <2>6. \A i \in 1 .. Len(routes') : i \in 1 .. Len(routes) \/ i = Len(routes) + 1
    BY <2>2
  <2>7. \A i \in 1 .. Len(routes') :
           \A e \in open' : ~ Begins(e.path, routes'[i]) /\ ~ Begins(routes'[i], e.path)
    BY <1>6, <1>9, <2>2, <2>3, <2>6
  <2>8. \A i, j \in 1 .. Len(routes') : i # j => routes'[i] # routes'[j]
    BY <1>9, <2>2, <2>5, <2>6
  <2> QED BY <1>1, <1>8, <2>7, <2>8 DEF WaysApart
<1>11. CASE ~ arrived
  <2>1. routes' = routes
    BY <1>2, <1>11 DEF p, arrived
  <2>2. ASSUME NEW i \in 1 .. Len(routes), NEW e \in open'
        PROVE  ~ Begins(e.path, routes[i]) /\ ~ Begins(routes[i], e.path)
    <3>1. CASE e \in open
      BY <1>9, <3>1
    <3>2. CASE e \notin open
      <4>1. PICK l \in Links : e.path = Append(p, l)
        BY <1>7, <3>2
      <4>2. routes[i] \in Seq(Links) /\ ~ Begins(p, routes[i]) /\ ~ Begins(routes[i], p)
        BY <1>2, <1>5, <1>9 DEF p
      <4> QED BY <1>3, <4>1, <4>2, BeginsGrown
    <3> QED BY <3>1, <3>2
  <2> QED BY <1>1, <1>8, <1>9, <2>1, <2>2 DEF WaysApart
<1> QED BY <1>10, <1>11

LEMMA WaysApartStep ==
    ASSUME SearchTypeOK, Untouched, WaysApart, [SearchNext]_vars
    PROVE  WaysApart'
<1>1. CASE Expand
  BY <1>1, WaysApartExpand
<1>2. CASE Walk
  <2>1. request' = request /\ open' = open /\ routes = <<>> /\ phase = "greedy"
    BY <1>2, WalkFacts DEF Untouched, inputs, ranking
  <2>2. routes' = routes \/ routes' = <<path'>>
    BY <1>2, WalkFacts
  <2>3. ~ (request.wanted > 1)
    BY <2>1 DEF Untouched
  <2>4. Len(routes') <= 1
    <3>1. CASE routes' = <<>>
      BY <3>1
    <3>2. CASE routes' = <<path'>>
      BY <3>2
    <3> QED BY <2>1, <2>2, <3>1, <3>2
  <2>5. \A e, f \in open : e # f => ~ Begins(e.path, f.path)
    BY DEF WaysApart
  <2> QED BY <2>1, <2>3, <2>4, <2>5 DEF WaysApart
<1>3. CASE Relax \/ ChooseSearch \/ EndRanking \/ UNCHANGED vars
  <2>1. request' = request /\ open' = open /\ routes' = routes
    BY <1>3 DEF Relax, ChooseSearch, EndRanking, vars, inputs, ranking
  <2> QED BY <2>1 DEF WaysApart
<1> QED BY <1>1, <1>2, <1>3 DEF SearchNext

WayInv == Untouched /\ WaysLegal /\ WaysApart

LEMMA WayInit == SearchInit => WayInv
<1> SUFFICES ASSUME SearchInit PROVE WayInv
  OBVIOUS
<1>1. /\ phase = "potential" /\ path = <<>> /\ routes = <<>> /\ open = Start /\ expansions = 0
  BY DEF SearchInit, Start
<1>2. SearchTypeOK
  BY PotentialInit
<1>3. Len(routes) = 0
  BY <1>1
<1>4. Untouched
  BY <1>1 DEF Untouched
<1>5. \A e \in open : e.path = <<>>
  BY <1>1 DEF Start
<1>6. WaysLegal
  BY <1>1, <1>2, <1>3, <1>5, EmptyWay DEF WaysLegal
<1>7. WaysApart
  BY <1>1, <1>3 DEF WaysApart, Start
<1> QED BY <1>4, <1>6, <1>7 DEF WayInv

(* Ways under construction are legal, and no way of the ranked search      *)
(* begins another: it expands no way twice.                                *)
THEOREM WaysInvariant == SearchSpec => []WayInv
<1>1. SearchTypeOK /\ PotentialInv /\ WayInv /\ [SearchNext]_vars => WayInv'
  BY UntouchedStep, WaysLegalStep, WaysApartStep DEF WayInv
<1> QED BY WayInit, PotentialInvariant, <1>1, PTL DEF SearchSpec

LEMMA ArrivedIsLegalRoute ==
    ASSUME NEW p \in Seq(Links)
    PROVE  Arrived(p) <=> p \in LegalRoutes
<1>1. Len(p) \in Nat /\ p \in [1 .. Len(p) -> Links] /\ (p # <<>> <=> Len(p) # 0)
  BY LenProperties
<1>2. ASSUME Arrived(p) PROVE p \in LegalRoutes
  <2>1. Len(p) \in 1 .. MaxHops
    BY <1>1, <1>2, NetworkFacts DEF Arrived, GoodWay
  <2> QED BY <1>1, <1>2, <2>1 DEF LegalRoutes, Arrived, GoodWay
<1>3. ASSUME p \in LegalRoutes PROVE Arrived(p)
  <2>1. PICK n \in 1 .. MaxHops : p \in [1 .. n -> Links]
    BY <1>3 DEF LegalRoutes
  <2>2. LegalWay(p) /\ NodeAfter(p) = request.dest
    BY <1>3 DEF LegalRoutes
  <2>3. Len(p) = n
    <3>1. 1 .. n = 1 .. Len(p)
      BY <1>1, <2>1
    <3>2. n \in 1 .. n /\ n \in Nat /\ Len(p) \in Nat
      BY <1>1, NetworkFacts
    <3>3. n \in 1 .. Len(p) /\ (Len(p) \in 1 .. Len(p) => Len(p) \in 1 .. n)
      BY <3>1, <3>2
    <3> QED BY <3>2, <3>3
  <2> QED BY <1>1, <2>2, <2>3 DEF Arrived, GoodWay
<1> QED BY <1>2, <1>3

(* Every candidate is a legal loopless route from the incoming link to the *)
(* destination over open links, and none is offered twice: what            *)
(* _validate_route_path_authority raises on does not happen.               *)
THEOREM CandidatesAlwaysLegal == SearchSpec => []CandidatesLegal
<1>1. SearchTypeOK /\ WayInv => CandidatesLegal
  <2> SUFFICES ASSUME SearchTypeOK, WayInv PROVE CandidatesLegal
    OBVIOUS
  <2>1. \A i \in 1 .. Len(routes) : routes[i] \in Seq(Links)
    BY DEF SearchTypeOK
  <2>2. \A i \in 1 .. Len(routes) : routes[i] \in LegalRoutes
    BY <2>1, ArrivedIsLegalRoute DEF WayInv, WaysLegal
  <2>3. request.wanted > 1 \/ request.wanted = 1
    BY TypeFacts
  <2>4. \A i, j \in 1 .. Len(routes) : i # j => routes[i] # routes[j]
    BY <2>3, LenProperties DEF WayInv, WaysApart, SearchTypeOK
  <2> QED BY <2>2, <2>4 DEF CandidatesLegal
<1> QED BY <1>1, PotentialInvariant, WaysInvariant, PTL

-----------------------------------------------------------------------------
(* What ways cost, and what the potential says of them. *)

LEMMA TimesGrows ==
    ASSUME NEW a \in Nat, NEW b \in Nat, NEW c \in Nat
    PROVE  /\ c * a \in Nat /\ c * (a + 1) = c * a + c
           /\ a <= b => c * a <= c * b
OBVIOUS

(* What p costs over its first k links. *)
Spent(p, k) == SumOn([i \in 1 .. Len(p) |-> cost[p[i]]], 1 .. k)

LEMMA SpentFacts ==
    ASSUME SearchTypeOK, NEW p \in Seq(Links)
    PROVE  /\ Spent(p, 0) = 0 /\ Spent(p, Len(p)) = CostOf(p)
           /\ \A k \in 0 .. Len(p) : Spent(p, k) \in Nat
           /\ \A k \in 1 .. Len(p) : Spent(p, k) = Spent(p, k - 1) + cost[p[k]]
<1> DEFINE f == [i \in 1 .. Len(p) |-> cost[p[i]]]
<1>1. Len(p) \in Nat /\ \A i \in 1 .. Len(p) : f[i] \in Nat /\ f[i] = cost[p[i]]
  BY TypeFacts, LenProperties
<1>2. \A k : Spent(p, k) = SumOn(f, 1 .. k)
  BY DEF Spent
<1>3. Spent(p, Len(p)) = CostOf(p)
  BY CostIsSum DEF Spent
<1> HIDE DEF f
<1>4. ASSUME NEW k \in 0 .. Len(p) PROVE Spent(p, k) \in Nat
  <2>1. IsFiniteSet(1 .. k) /\ \A i \in 1 .. k : f[i] \in Int /\ f[i] >= 0
    <3>1. k \in Nat /\ k <= Len(p)
      BY <1>1
    <3>2. IsFiniteSet(1 .. k)
      BY <3>1, FS_Interval
    <3> QED BY <1>1, <3>1, <3>2
  <2> QED BY <1>2, <2>1, SumType
<1>5. ASSUME NEW k \in 1 .. Len(p) PROVE Spent(p, k) = Spent(p, k - 1) + cost[p[k]]
  <2>1. IsFiniteSet(1 .. k) /\ (\A i \in 1 .. k : f[i] \in Int) /\ k \in 1 .. k
    <3>1. k \in Nat /\ k >= 1 /\ k <= Len(p)
      BY <1>1
    <3>2. IsFiniteSet(1 .. k)
      BY <3>1, FS_Interval
    <3> QED BY <1>1, <3>1, <3>2
  <2>2. (1 .. k) \ {k} = 1 .. (k - 1)
    BY <1>1
  <2>3. SumOn(f, 1 .. k) = f[k] + SumOn(f, 1 .. (k - 1))
    BY <2>1, <2>2, SumRemove
  <2>4. Spent(p, k - 1) \in Nat
    BY <1>1, <1>4
  <2>5. f[k] \in Nat /\ f[k] = cost[p[k]]
    BY <1>1
  <2> QED BY <1>2, <2>3, <2>4, <2>5
<1>6. Spent(p, 0) = 0
  <2>1. 1 .. 0 = {} /\ IsFiniteSet({})
    BY FS_EmptySet
  <2>2. SumOn(f, {}) = 0
    BY <2>1, SumUnfold
  <2> QED BY <1>2, <2>1, <2>2
<1> QED BY <1>3, <1>4, <1>5, <1>6

(* A way that begins another costs what the other has spent by then.       *)
LEMMA BeginsSpent ==
    ASSUME SearchTypeOK, NEW p \in Seq(Links), NEW q \in Seq(Links), Begins(q, p)
    PROVE  /\ Len(q) \in 0 .. Len(p) /\ CostOf(q) = Spent(p, Len(q))
           /\ \A i \in 0 .. Len(q) : NodeAt(q, i) = NodeAt(p, i) /\ LinkAt(q, i) = LinkAt(p, i)
<1>1. Len(p) \in Nat /\ Len(q) \in Nat /\ Len(q) <= Len(p) /\ \A i \in 1 .. Len(q) : q[i] = p[i]
  BY LenProperties DEF Begins
<1> DEFINE f == [i \in 1 .. Len(p) |-> cost[p[i]]]
           g == [i \in 1 .. Len(q) |-> cost[q[i]]]
<1>2. \A i \in 1 .. Len(q) : g[i] = f[i]
  BY <1>1
<1>3. CostOf(q) = SumOn(g, 1 .. Len(q)) /\ Spent(p, Len(q)) = SumOn(f, 1 .. Len(q))
  BY CostIsSum DEF Spent
<1> HIDE DEF f, g
<1>4. CostOf(q) = Spent(p, Len(q))
  <2>1. IsFiniteSet(1 .. Len(q))
    BY <1>1, FS_Interval
  <2>2. SumOn(g, 1 .. Len(q)) = SumOn(f, 1 .. Len(q))
    BY <1>2, <2>1, SumCongruence
  <2> QED BY <1>3, <2>2
<1>5. \A i \in 0 .. Len(q) : NodeAt(q, i) = NodeAt(p, i) /\ LinkAt(q, i) = LinkAt(p, i)
  BY <1>1 DEF NodeAt, LinkAt
<1> QED BY <1>1, <1>4, <1>5

LEMMA CostType ==
    ASSUME SearchTypeOK, NEW p \in Seq(Links)
    PROVE  CostOf(p) \in Nat /\ CostOf(<<>>) = 0
<1>1. Len(p) \in 0 .. Len(p)
  BY LenProperties
<1>2. <<>> \in Seq(Links) /\ Len(<<>>) = 0
  OBVIOUS
<1> QED BY <1>1, <1>2, SpentFacts

LEMMA CostGrows ==
    ASSUME SearchTypeOK, NEW p \in Seq(Links), NEW l \in Links
    PROVE  CostOf(Append(p, l)) = CostOf(p) + cost[l]
<1> DEFINE q == Append(p, l)
<1>1. /\ q \in Seq(Links) /\ Len(p) \in Nat /\ Len(q) = Len(p) + 1 /\ q[Len(p) + 1] = l
      /\ \A i \in 1 .. Len(p) : q[i] = p[i]
  BY AppendFacts
<1> HIDE DEF q
<1>2. Begins(p, q)
  BY <1>1 DEF Begins
<1>3. CostOf(p) = Spent(q, Len(p))
  BY <1>1, <1>2, BeginsSpent
<1>4. Len(q) \in 1 .. Len(q) /\ Len(p) \in 0 .. Len(q) /\ Len(q) - 1 = Len(p)
  BY <1>1
<1>5. CostOf(q) = Spent(q, Len(p)) + cost[l] /\ Spent(q, Len(p)) \in Nat
  BY <1>1, <1>4, SpentFacts
<1> QED BY <1>3, <1>5 DEF q

(* Some time bounds that of every link. *)
LEMMA DearestLink ==
    ASSUME SearchTypeOK, NEW l \in Links
    PROVE  \E c \in Nat : c * Cardinality(Links) < Far /\ \A m \in Links : cost[m] <= c
<1> DEFINE K == Cardinality(Links)
<1>1. IsFiniteSet(Links) /\ K \in Nat /\ K > 0
  BY LinksAssumption, FS_CardinalityType, FS_EmptySet
<1>2. \A m \in Links : cost[m] \in Nat /\ cost[m] * K < Far
  BY TypeFacts, SearchAssumption DEF SearchTypeOK
<1> HIDE DEF K
<1>3. \A m \in Links : Far - cost[m] \in Nat
  <2> SUFFICES ASSUME NEW m \in Links PROVE Far - cost[m] \in Nat
    OBVIOUS
  <2>1. cost[m] * 1 <= cost[m] * K
    BY <1>1, <1>2, TimesGrows
  <2>2. cost[m] * 1 = cost[m] /\ cost[m] * K \in Nat
    BY <1>1, <1>2, TimesGrows
  <2> QED BY <1>2, <2>1, <2>2, NetworkFacts
<1>4. PICK least \in {Far - cost[m] : m \in Links} : \A d \in {Far - cost[m] : m \in Links} : least <= d
  <2>1. {Far - cost[m] : m \in Links} \subseteq Nat /\ {Far - cost[m] : m \in Links} # {}
    BY <1>3
  <2> QED BY ONLY <2>1, LeastExists
<1>5. PICK m \in Links : least = Far - cost[m]
  BY <1>4
<1>6. \A k \in Links : cost[k] <= cost[m]
  <2> SUFFICES ASSUME NEW k \in Links PROVE cost[k] <= cost[m]
    OBVIOUS
  <2>1. Far - cost[m] <= Far - cost[k]
    BY <1>4, <1>5
  <2>2. cost[m] \in Nat /\ cost[k] \in Nat
    BY <1>2
  <2> QED BY <2>1, <2>2, NetworkFacts
<1> QED BY <1>2, <1>6 DEF K

(* Far is out of reach: where a potential is not Far, it is not Far before *)
(* any open link that leads there.                                         *)
LEMMA FarIsOutOfReach ==
    ASSUME SearchTypeOK, PotentialInv, queue = {}, NEW l \in Links, Passable(l), dist[Dst[l]] < Far
    PROVE  dist[Src[l]] < Far
<1> DEFINE K == Cardinality(Links)
           near(n) == {m \in Links : dist[Src[m]] < Far /\ dist[Src[m]] <= dist[n]}
           size(n) == Cardinality(near(n))
<1>1. PICK c \in Nat : c * K < Far /\ \A m \in Links : cost[m] <= c
  BY DearestLink
<1>2. IsFiniteSet(Links) /\ K \in Nat
  BY LinksAssumption, FS_CardinalityType
<1>3. \A n : IsFiniteSet(near(n)) /\ size(n) \in Nat
  BY <1>2, FS_Subset, FS_CardinalityType
<1>4. \A n \in Nodes : dist[n] \in Nat /\ dist[n] <= Far
  BY TypeFacts
<1>5. \A m \in Links : cost[m] \in Nat /\ cost[m] > 0 /\ Src[m] \in Nodes /\ Dst[m] \in Nodes
  BY TypeFacts, NetworkFacts
<1>6. \A m \in Links : Passable(m) => dist[Src[m]] <= cost[m] + dist[Dst[m]]
  BY DEF PotentialInv, Consistent
<1>7. ASSUME NEW n, NEW m \in Links, NEW S \in SUBSET Links, near(n) \subseteq S, m \in S, m \notin near(n)
      PROVE  size(n) + 1 <= Cardinality(S) /\ Cardinality(S) \in Nat
  <2>1. IsFiniteSet(S) /\ near(n) \cup {m} \in SUBSET S
    BY <1>2, <1>7, FS_Subset
  <2>2. Cardinality(near(n) \cup {m}) = size(n) + 1
    BY <1>3, <1>7, FS_AddElement
  <2> QED BY <2>1, <2>2, FS_Subset, FS_CardinalityType
<1> DEFINE bad == {n \in Nodes : dist[n] < Far /\ ~ (dist[n] <= c * size(n))}
<1>8. bad = {}
  <2> SUFFICES ASSUME bad # {} PROVE FALSE
    OBVIOUS
  <2>1. PICK least \in {dist[n] : n \in bad} : \A d \in {dist[n] : n \in bad} : least <= d
    <3>1. {dist[n] : n \in bad} \subseteq Nat /\ {dist[n] : n \in bad} # {}
      BY <1>4
    <3> HIDE DEF bad
    <3> QED BY <3>1, LeastExists
  <2>2. PICK n \in bad : dist[n] = least
    BY <2>1
  <2>3. n \in Nodes /\ dist[n] < Far /\ ~ (dist[n] <= c * size(n)) /\ dist[n] \in Nat
    BY <1>4
  <2>4. n # request.dest
    <3>1. c * size(n) \in Nat
      BY <1>3, TimesGrows
    <3> HIDE DEF size
    <3> QED BY <2>3, <3>1 DEF PotentialInv
  <2>5. PICK m \in Links : Passable(m) /\ Src[m] = n /\ cost[m] + dist[Dst[m]] <= dist[n]
    BY <2>3, <2>4 DEF PotentialInv, Attained
  <2> DEFINE k == Dst[m]
  <2>6. /\ k \in Nodes /\ dist[k] \in Nat /\ cost[m] \in Nat /\ cost[m] > 0 /\ cost[m] <= c
        /\ cost[m] + dist[k] <= dist[n] /\ dist[n] <= cost[m] + dist[k]
    BY <1>1, <1>4, <1>5, <1>6, <2>5
  <2> HIDE DEF k
  <2>7. dist[k] < dist[n] /\ dist[k] < Far
    BY <2>3, <2>6, NetworkFacts
  <2>8. k \notin bad
    <3>1. k \in bad => least <= dist[k]
      BY <2>1
    <3> HIDE DEF bad
    <3> QED BY <2>2, <2>3, <2>6, <2>7, <3>1
  <2>9. dist[k] <= c * size(k)
    BY <2>6, <2>7, <2>8
  <2>10. size(k) + 1 <= size(n)
    <3>1. near(k) \subseteq near(n) /\ m \in near(n) /\ m \notin near(k)
      BY <1>4, <1>5, <2>3, <2>5, <2>6, <2>7
    <3>2. near(n) \in SUBSET Links
      OBVIOUS
    <3> HIDE DEF near
    <3> QED BY <1>7, <3>1, <3>2
  <2>11. c * (size(k) + 1) <= c * size(n) /\ c * (size(k) + 1) = c * size(k) + c
         /\ c * size(k) \in Nat /\ c * size(n) \in Nat
    <3>1. size(k) \in Nat /\ size(n) \in Nat
      BY <1>3
    <3> HIDE DEF size
    <3> QED BY <2>10, <3>1, TimesGrows
  <2> HIDE DEF size, bad
  <2> QED BY <2>3, <2>6, <2>9, <2>11
<1>9. CASE dist[Src[l]] = Far
  <2> DEFINE k == Dst[l]
  <2>1. k \in Nodes /\ dist[k] \in Nat /\ cost[l] \in Nat /\ cost[l] <= c /\ Far <= cost[l] + dist[k]
    BY <1>1, <1>4, <1>5, <1>6, <1>9
  <2>2. dist[k] <= c * size(k)
    BY <1>8, <2>1
  <2>3. size(k) + 1 <= K
    <3>1. near(k) \subseteq Links /\ l \notin near(k)
      BY <1>9, NetworkFacts
    <3>2. Links \in SUBSET Links
      OBVIOUS
    <3> HIDE DEF near, k
    <3> QED BY <1>7, <3>1, <3>2
  <2>4. c * (size(k) + 1) <= c * K /\ c * (size(k) + 1) = c * size(k) + c
        /\ c * size(k) \in Nat /\ c * K \in Nat
    <3>1. size(k) \in Nat
      BY <1>3
    <3> HIDE DEF size, K
    <3> QED BY <1>2, <2>3, <3>1, TimesGrows
  <2> HIDE DEF size, k, K
  <2> QED BY <1>1, <2>1, <2>2, <2>4, NetworkFacts
<1>10. dist[Src[l]] \in Nat /\ dist[Src[l]] <= Far
  BY <1>4, <1>5
<1> QED BY <1>9, <1>10, NetworkFacts

(* Along a legal route every potential is within reach, and no way that    *)
(* begins it promises less than it costs.                                  *)
LEMMA RouteBound ==
    ASSUME SearchTypeOK, PotentialInv, queue = {}, NEW p \in Seq(Links), Arrived(p)
    PROVE  \A k \in 0 .. Len(p) : /\ NodeAt(p, k) \in Nodes /\ dist[NodeAt(p, k)] < Far
                                  /\ Spent(p, k) + dist[NodeAt(p, k)] <= CostOf(p)
<1> DEFINE good(k) == /\ NodeAt(p, k) \in Nodes /\ dist[NodeAt(p, k)] < Far
                      /\ Spent(p, k) + dist[NodeAt(p, k)] <= CostOf(p)
           bad == {k \in 0 .. Len(p) : ~ good(k)}
<1> SUFFICES ASSUME bad # {} PROVE FALSE
  OBVIOUS
<1>1. Len(p) \in Nat /\ \A i \in 1 .. Len(p) : p[i] \in Links
  BY LenProperties
<1>2. PICK d \in {Len(p) - k : k \in bad} : \A c \in {Len(p) - k : k \in bad} : d <= c
  <2>1. {Len(p) - k : k \in bad} \subseteq Nat /\ {Len(p) - k : k \in bad} # {}
    BY <1>1
  <2> HIDE DEF bad
  <2> QED BY <2>1, LeastExists
<1>3. PICK k \in bad : d = Len(p) - k
  BY <1>2
<1>4. k \in 0 .. Len(p) /\ ~ good(k)
  BY DEF bad
<1> HIDE DEF bad
<1>5. NodeAt(p, k) \in Nodes
  <2>1. k = 0 \/ k \in 1 .. Len(p)
    BY <1>1, <1>4
  <2>2. CASE k = 0
    BY <2>2, TypeFacts DEF NodeAt
  <2>3. CASE k \in 1 .. Len(p)
    <3>1. p[k] \in Links /\ k # 0
      BY <1>1, <2>3
    <3> QED BY <3>1, NetworkFacts DEF NodeAt
  <2> QED BY <2>1, <2>2, <2>3
<1>6. CASE k = Len(p)
  <2>1. NodeAt(p, k) = request.dest /\ dist[request.dest] = 0
    BY <1>6 DEF Arrived, NodeAfter, PotentialInv
  <2>2. Spent(p, k) = CostOf(p) /\ CostOf(p) \in Nat
    BY <1>1, <1>6, SpentFacts
  <2> QED BY <1>4, <1>5, <2>1, <2>2, NetworkFacts
<1>7. CASE k # Len(p)
  <2> DEFINE l == p[k + 1]
  <2>1. k + 1 \in 1 .. Len(p) /\ k + 1 \in 0 .. Len(p) /\ k \in Nat /\ k + 1 - 1 = k
    BY <1>1, <1>4, <1>7
  <2>2. k + 1 \notin bad
    <3>1. k + 1 \in bad => d <= Len(p) - (k + 1)
      BY <1>2
    <3> QED BY <1>1, <1>3, <2>1, <3>1
  <2>3. good(k + 1)
    BY <2>1, <2>2 DEF bad
  <2>4. l \in Links /\ l \notin blocked /\ Src[l] = NodeAt(p, k) /\ NodeAt(p, k + 1) = Dst[l]
    <3>1. NodeAt(p, k + 1) = Dst[l] /\ l \in Links
      BY <1>1, <2>1 DEF NodeAt
    <3>2. LegalWay(p)
      BY DEF Arrived, GoodWay
    <3>3. \A i \in 1 .. Len(p) : p[i] \notin blocked /\ Src[p[i]] = NodeAt(p, i - 1)
      BY <3>2 DEF LegalWay
    <3>4. l \notin blocked /\ Src[l] = NodeAt(p, k + 1 - 1)
      BY <2>1, <3>3
    <3> QED BY <2>1, <3>1, <3>4
  <2>5. Spent(p, k + 1) = Spent(p, k) + cost[l] /\ Spent(p, k) \in Nat
    BY <1>4, <2>1, SpentFacts
  <2>6. dist[NodeAt(p, k)] <= cost[l] + dist[Dst[l]] /\ dist[Dst[l]] < Far
    BY <2>3, <2>4 DEF PotentialInv, Consistent, Passable
  <2>7. dist[NodeAt(p, k)] < Far
    BY <2>4, <2>6, FarIsOutOfReach DEF Passable
  <2>8. cost[l] \in Nat /\ dist[Dst[l]] \in Nat /\ dist[NodeAt(p, k)] \in Nat /\ CostOf(p) \in Nat
    BY <1>5, <2>4, TypeFacts, NetworkFacts, CostType
  <2>9. Spent(p, k + 1) + dist[Dst[l]] <= CostOf(p)
    BY <2>3, <2>4
  <2>10. Spent(p, k) + dist[NodeAt(p, k)] <= CostOf(p)
    <3> HIDE DEF l, good
    <3> QED BY <2>5, <2>6, <2>8, <2>9
  <2> QED BY <1>4, <1>5, <2>7, <2>10
<1> QED BY <1>6, <1>7

-----------------------------------------------------------------------------
(* Ranked candidates come in order, and no cheaper one is passed over. *)

(* A way grown by one link promises no less than before.                   *)
LEMMA ChildPriced ==
    ASSUME SearchTypeOK, PotentialInv, queue = {}, Priced, NEW e \in open, e \in Entries,
           NEW l \in More(e.path), NEW n \in Nat
    PROVE  /\ Child(e, l, n).cost = CostOf(Child(e, l, n).path)
           /\ Child(e, l, n).path # <<>>
           /\ Child(e, l, n).est = Child(e, l, n).cost + dist[NodeAfter(Child(e, l, n).path)]
           /\ e.est <= Child(e, l, n).est
<1>1. /\ l \in Links /\ l \notin blocked /\ Src[l] = NodeAfter(e.path)
  BY DEF More, Growing, NextLinks
<1>2. e.path \in Seq(Links) /\ e.cost \in Nat /\ e.est \in Nat /\ e.cost = CostOf(e.path)
      /\ e.est = IF e.path = <<>> THEN 0 ELSE e.cost + dist[NodeAfter(e.path)]
  BY DEF Entries, Priced
<1>3. /\ cost[l] \in Nat /\ Dst[l] \in Nodes /\ Src[l] \in Nodes
      /\ dist[Dst[l]] \in Nat /\ dist[Src[l]] \in Nat
  BY <1>1, TypeFacts, NetworkFacts
<1>4. dist[Src[l]] <= cost[l] + dist[Dst[l]]
  BY <1>1 DEF PotentialInv, Consistent, Passable
<1>5. /\ CostOf(Append(e.path, l)) = e.cost + cost[l] /\ Append(e.path, l) # <<>>
      /\ NodeAfter(Append(e.path, l)) = Dst[l]
  BY <1>1, <1>2, CostGrows, AppendFacts
<1>6. /\ Child(e, l, n).cost = e.cost + cost[l] /\ Child(e, l, n).path = Append(e.path, l)
      /\ Child(e, l, n).est = e.cost + (cost[l] + dist[Dst[l]])
  BY DEF Child, ActionCost
<1> DEFINE child == Child(e, l, n)
<1> HIDE DEF child
<1>7. /\ child.cost = e.cost + cost[l] /\ child.path = Append(e.path, l)
      /\ child.est = e.cost + (cost[l] + dist[Dst[l]])
  BY <1>6 DEF child
<1>8. child.cost = CostOf(child.path) /\ child.path # <<>>
  BY <1>5, <1>7
<1>9. child.est = child.cost + dist[NodeAfter(child.path)]
  BY <1>2, <1>3, <1>5, <1>7
<1>10. e.est <= child.est
  <2>1. CASE e.path = <<>>
    BY <1>2, <1>3, <1>7, <2>1
  <2>2. CASE e.path # <<>>
    BY <1>1, <1>2, <1>3, <1>4, <1>7, <2>2
  <2> QED BY <2>1, <2>2
<1> QED BY <1>8, <1>9, <1>10 DEF child

LEMMA ExpandKeepsOrder ==
    ASSUME SearchTypeOK, PotentialInv, Untouched, Priced, RankedInOrder, Expand
    PROVE  Priced' /\ RankedInOrder'
<1>1. /\ phase = "ranked" /\ Searching /\ UNCHANGED <<inputs, potential>>
      /\ expansions' = expansions + 1
  BY ExpandFacts
<1>2. queue = {} /\ dist' = dist /\ request' = request /\ request.wanted > 1
  BY <1>1 DEF PotentialInv, Untouched, inputs, potential
<1>3. PICK top \in open :
        /\ top \in Entries /\ \A f \in open : top.est <= f.est
        /\ routes' = IF NodeAfter(top.path) = request.dest /\ top.path # <<>>
                     THEN Append(routes, top.path) ELSE routes
        /\ \A e \in open' :
              \/ e \in open /\ e # top
              \/ \E l \in More(top.path), n \in Nat : e = Child(top, l, n)
  BY ExpandFacts
<1>4. \A e \in open' : \/ e \in open
                       \/ /\ e.cost = CostOf(e.path) /\ e.path # <<>>
                          /\ e.est = e.cost + dist[NodeAfter(e.path)]
                          /\ top.est <= e.est
                          /\ More(top.path) # {}
  BY <1>2, <1>3, ChildPriced
<1>5. Priced'
  BY <1>1, <1>2, <1>4, SameInputs DEF Priced
<1>6. \A e \in open' : top.est <= e.est
  BY <1>3, <1>4
<1>7. \A i \in 1 .. Len(routes) :
         /\ CostOf(routes[i]) \in Nat /\ CostOf(routes[i]) <= top.est
         /\ \A j \in 1 .. Len(routes) : i < j => CostOf(routes[i]) <= CostOf(routes[j])
  <2>1. \A i \in 1 .. Len(routes) : routes[i] \in Seq(Links)
    BY DEF SearchTypeOK
  <2>2. \A i \in 1 .. Len(routes) : CostOf(routes[i]) \in Nat
    BY <2>1, CostType
  <2> QED BY <1>2, <1>3, <2>2 DEF RankedInOrder
<1>8. \A e \in open' : e.est \in Nat /\ top.est \in Nat
  BY <1>3, TypeStep DEF SearchTypeOK, SearchNext, Entries
<1>9. \A i \in 1 .. Len(routes) : \A e \in open' : CostOf(routes[i]) <= e.est
  BY <1>6, <1>7, <1>8
<1>10. Len(routes) < request.wanted /\ expansions < MaxExpansions
  BY <1>1 DEF Searching
<1>11. /\ expansions' <= MaxExpansions /\ Len(routes) \in Nat /\ request.wanted \in Nat
  <2>1. request.wanted * ExpansionsPerCandidate \in Nat
    BY TypeFacts, SearchAssumption, TimesGrows
  <2>2. MaxExpansions \in Nat /\ expansions \in Nat
    BY <2>1 DEF MaxExpansions, SearchTypeOK
  <2> QED BY <1>1, <1>10, <2>2, TypeFacts, LenProperties DEF SearchTypeOK
<1>12. CASE NodeAfter(top.path) = request.dest /\ top.path # <<>>
  <2>1. top.path \in Seq(Links) /\ routes \in Seq(Seq(Links)) /\ routes' = Append(routes, top.path)
    BY <1>3, <1>12 DEF Entries, SearchTypeOK
  <2>2. /\ Len(routes') = Len(routes) + 1 /\ routes'[Len(routes) + 1] = top.path
        /\ \A i \in 1 .. Len(routes) : routes'[i] = routes[i]
    BY <2>1, AppendProperties
  <2>3. CostOf(top.path) = top.est
    <3>1. /\ top.cost = CostOf(top.path) /\ top.cost \in Nat
          /\ top.est = top.cost + dist[request.dest] /\ dist[request.dest] = 0
      BY <1>3, <1>12 DEF Priced, PotentialInv, Entries
    <3> QED BY <3>1
  <2>4. \A i \in 1 .. Len(routes') : i \in 1 .. Len(routes) \/ i = Len(routes) + 1
    BY <1>11, <2>2
  <2>5. \A i \in 1 .. Len(routes') : \A e \in open' : CostOf(routes'[i]) <= e.est
    BY <1>6, <1>9, <2>2, <2>3, <2>4
  <2>6. \A i, j \in 1 .. Len(routes') : i < j => CostOf(routes'[i]) <= CostOf(routes'[j])
    <3> SUFFICES ASSUME NEW i \in 1 .. Len(routes'), NEW j \in 1 .. Len(routes'), i < j
                 PROVE  CostOf(routes'[i]) <= CostOf(routes'[j])
      OBVIOUS
    <3>1. i \in 1 .. Len(routes)
      BY <1>11, <2>2
    <3> QED BY <1>7, <2>2, <2>3, <2>4, <3>1
  <2>7. Len(routes') <= request.wanted
    BY <1>10, <1>11, <2>2
  <2> QED BY <1>1, <1>2, <1>5, <1>11, <2>5, <2>6, <2>7, SameInputs DEF RankedInOrder
<1>13. CASE ~ (NodeAfter(top.path) = request.dest /\ top.path # <<>>)
  <2>1. routes' = routes
    BY <1>3, <1>13
  <2> QED BY <1>1, <1>2, <1>5, <1>7, <1>9, <1>10, <1>11, <2>1, SameInputs DEF RankedInOrder
<1> QED BY <1>12, <1>13

LEMMA LegalRouteFacts ==
    ASSUME NEW p \in LegalRoutes
    PROVE  p \in Seq(Links) /\ Arrived(p) /\ Begins(<<>>, p)
<1>1. p \in Seq(Links)
  BY NetworkFacts DEF LegalRoutes
<1>2. Begins(<<>>, p)
  <2>1. Len(<<>>) = 0 /\ Len(p) \in Nat
    BY <1>1, LenProperties
  <2> QED BY <2>1 DEF Begins
<1> QED BY <1>1, <1>2, ArrivedIsLegalRoute

(* A way that begins a legal route is the route, or can go on along it.    *)
LEMMA WayGoesOn ==
    ASSUME SearchTypeOK, PotentialInv, queue = {},
           NEW p \in Seq(Links), Arrived(p), NEW q \in Seq(Links), Begins(q, p)
    PROVE  \/ q = p
           \/ /\ q = <<>> \/ NodeAfter(q) # request.dest
              /\ \E l \in More(q) : Begins(Append(q, l), p)
<1>1. LegalWay(p) /\ Len(p) <= MaxHops /\ NodeAfter(p) = request.dest
  BY DEF Arrived, GoodWay
<1>2. /\ Len(p) \in Nat /\ Len(q) \in Nat /\ Len(q) <= Len(p) /\ \A i \in 1 .. Len(q) : q[i] = p[i]
      /\ \A i \in 1 .. Len(p) : p[i] \in Links
  BY LenProperties DEF Begins
<1>3. \A i \in 0 .. Len(q) : NodeAt(q, i) = NodeAt(p, i) /\ LinkAt(q, i) = LinkAt(p, i)
  BY BeginsSpent
<1>4. CASE Len(q) = Len(p)
  <2>1. q = p
    BY <1>2, <1>4, SeqEqual
  <2> QED BY <2>1
<1>5. CASE Len(q) < Len(p)
  <2> DEFINE k == Len(q) + 1
             l == p[k]
  <2>1. k \in 1 .. Len(p) /\ k \in 0 .. Len(p) /\ k - 1 = Len(q) /\ Len(q) \in 0 .. Len(p)
        /\ Len(q) \in 0 .. Len(q)
    BY <1>2, <1>5
  <2>2. \A i \in 1 .. Len(p) :
           /\ p[i] \notin blocked /\ Src[p[i]] = NodeAt(p, i - 1)
           /\ \/ LinkAt(p, i - 1) = None \/ Listed = {}
              \/ <<LinkAt(p, i - 1), p[i]>> \in Listed \ forbidden
    BY <1>1 DEF LegalWay
  <2>3. \A i, j \in 0 .. Len(p) : i < j => NodeAt(p, i) # NodeAt(p, j)
    BY <1>1 DEF LegalWay
  <2>4. NodeAt(p, k) = Dst[l] /\ l \in Links
    BY <1>2, <2>1 DEF NodeAt
  <2>5. dist[Dst[l]] < Far
    BY <2>1, <2>4, RouteBound
  <2>6. /\ l \notin blocked /\ Src[l] = NodeAt(p, k - 1)
        /\ LinkAt(p, k - 1) = None \/ Listed = {} \/ <<LinkAt(p, k - 1), l>> \in Listed \ forbidden
    BY <2>1, <2>2
  <2>7. NodeAt(p, k - 1) = NodeAfter(q) /\ LinkAt(p, k - 1) = LinkAt(q, Len(q))
    BY <1>3, <2>1 DEF NodeAfter
  <2>8. l \in NextLinks(q)
    BY <2>4, <2>5, <2>6, <2>7 DEF NextLinks, LegalTurn
  <2>9. Dst[l] \notin Visited(q)
    <3> SUFFICES ASSUME NEW i \in 0 .. Len(q) PROVE NodeAt(q, i) # Dst[l]
      BY DEF Visited
    <3>1. i \in 0 .. Len(p) /\ i < k
      BY <1>2, <2>1
    <3> QED BY <1>3, <2>1, <2>3, <2>4, <3>1
  <2>10. NodeAfter(q) # request.dest
    <3>1. Len(p) \in 0 .. Len(p)
      BY <1>2
    <3>2. NodeAt(p, Len(q)) # NodeAt(p, Len(p))
      BY <1>5, <2>1, <2>3, <3>1
    <3> QED BY <1>1, <2>1, <2>7, <3>2 DEF NodeAfter
  <2>11. l \in More(q)
    <3>1. ~ (Len(q) >= MaxHops)
      BY <1>1, <1>2, <1>5, NetworkFacts
    <3> QED BY <2>8, <2>9, <2>10, <3>1 DEF More, Growing
  <2>12. Begins(Append(q, l), p)
    BY <1>5, <2>4, BeginsGrown
  <2> QED BY <2>10, <2>11, <2>12
<1> QED BY <1>2, <1>4, <1>5

LEMMA ExpandLosesNothing ==
    ASSUME SearchTypeOK, PotentialInv, NothingLost, Expand
    PROVE  NothingLost'
<1>1. queue = {} /\ UNCHANGED inputs /\ request' = request
  BY ExpandFacts DEF PotentialInv, inputs
<1>2. PICK top \in open :
        /\ top \in Entries
        /\ routes' = IF NodeAfter(top.path) = request.dest /\ top.path # <<>>
                     THEN Append(routes, top.path) ELSE routes
        /\ \A l \in More(top.path) : \E n \in Nat : Child(top, l, n) \in open'
        /\ open \ {top} \subseteq open'
  BY ExpandFacts
<1>3. top.path \in Seq(Links) /\ routes \in Seq(Seq(Links))
  BY <1>2 DEF Entries, SearchTypeOK
<1>4. ASSUME NEW i \in 1 .. Len(routes)
      PROVE  i \in 1 .. Len(routes') /\ routes'[i] = routes[i]
  <2>1. CASE routes' = routes
    BY <2>1
  <2>2. CASE routes' = Append(routes, top.path)
    <3>1. Len(routes') = Len(routes) + 1 /\ routes'[i] = routes[i] /\ Len(routes) \in Nat
      BY <1>3, <2>2, AppendProperties, LenProperties
    <3> QED BY <3>1
  <2> QED BY <1>2, <2>1, <2>2
<1>5. ASSUME request.wanted > 1, NEW p \in LegalRoutes
      PROVE  \/ \E i \in 1 .. Len(routes') : routes'[i] = p
             \/ \E e \in open' : Begins(e.path, p)
  <2>1. p \in Seq(Links) /\ Arrived(p)
    BY LegalRouteFacts
  <2>2. CASE \E i \in 1 .. Len(routes) : routes[i] = p
    BY <1>4, <2>2
  <2>3. CASE \E e \in open : Begins(e.path, p) /\ e # top
    BY <1>2, <2>3
  <2>4. CASE Begins(top.path, p)
    <3>1. CASE top.path = p
      <4>1. routes' = Append(routes, p)
        BY <1>2, <2>1, <3>1 DEF Arrived
      <4>2. Len(routes') = Len(routes) + 1 /\ routes'[Len(routes) + 1] = p /\ Len(routes) \in Nat
        BY <1>3, <2>1, <4>1, AppendProperties, LenProperties
      <4>3. Len(routes) + 1 \in 1 .. Len(routes')
        BY <4>2
      <4> QED BY <4>2, <4>3
    <3>2. CASE top.path # p
      <4>1. PICK l \in More(top.path) : Begins(Append(top.path, l), p)
        BY <1>1, <1>3, <2>1, <2>4, <3>2, WayGoesOn
      <4>2. PICK n \in Nat : Child(top, l, n) \in open'
        BY <1>2
      <4>3. Child(top, l, n).path = Append(top.path, l)
        BY DEF Child
      <4> QED BY <4>1, <4>2, <4>3
    <3> QED BY <3>1, <3>2
  <2> QED BY <1>5, <2>2, <2>3, <2>4 DEF NothingLost
<1> QED BY <1>1, <1>5, SameInputs DEF NothingLost

RankedInv == Priced /\ RankedInOrder /\ NothingLost

LEMMA RankedStep ==
    ASSUME SearchTypeOK, PotentialInv, Untouched, RankedInv, [SearchNext]_vars
    PROVE  RankedInv'
<1>1. CASE Expand
  BY <1>1, ExpandKeepsOrder, ExpandLosesNothing DEF RankedInv
<1>2. CASE ~ Expand
  <2>1. UNCHANGED inputs /\ request' = request /\ open' = open /\ expansions' = expansions
    BY <1>2 DEF SearchNext, Relax, ChooseSearch, Walk, EndRanking, vars, inputs, ranking
  <2>2. request.wanted > 1 => routes' = routes
    <3>1. Walk => ~ (request.wanted > 1)
      BY DEF Walk, Untouched
    <3> QED BY <1>2, <3>1 DEF SearchNext, Relax, ChooseSearch, EndRanking, vars
  <2>3. Priced'
    <3>1. CASE dist' = dist
      BY <2>1, <3>1, SameInputs DEF RankedInv, Priced
    <3>2. CASE dist' # dist
      <4>1. phase = "potential" /\ open = Start
        BY <1>2, <3>2 DEF SearchNext, Relax, ChooseSearch, Walk, EndRanking, vars, potential, Untouched
      <4>2. \A e \in open : e.cost = CostOf(e.path) /\ e.path = <<>> /\ e.est = 0
        BY <4>1 DEF RankedInv, Priced, Start
      <4> QED BY <2>1, <4>2, SameInputs DEF Priced
    <3> QED BY <3>1, <3>2
  <2>4. RankedInOrder' /\ NothingLost'
    <3>1. CASE request.wanted > 1
      BY <2>1, <2>2, <3>1, SameInputs DEF RankedInv, RankedInOrder, NothingLost
    <3>2. CASE ~ (request.wanted > 1)
      BY <2>1, <3>2 DEF RankedInOrder, NothingLost
    <3> QED BY <3>1, <3>2
  <2> QED BY <2>3, <2>4 DEF RankedInv
<1> QED BY <1>1, <1>2

LEMMA RankedInit == SearchInit => RankedInv
<1> SUFFICES ASSUME SearchInit PROVE RankedInv
  OBVIOUS
<1>1. /\ routes = <<>> /\ open = Start /\ expansions = 0 /\ SearchTypeOK
  BY PotentialInit DEF SearchInit, Start
<1>2. \A e \in open : e.cost = 0 /\ e.est = 0 /\ e.path = <<>>
  BY <1>1 DEF Start
<1>3. <<>> \in Seq(Links)
  OBVIOUS
<1>4. CostOf(<<>>) = 0
  BY <1>1, <1>3, CostType
<1>5. Priced
  BY <1>2, <1>4 DEF Priced
<1>6. Len(routes) = 0 /\ request.wanted \in Nat /\ MaxExpansions \in Nat
  BY <1>1, TypeFacts, SearchAssumption, TimesGrows DEF MaxExpansions
<1>7. RankedInOrder
  BY <1>1, <1>6 DEF RankedInOrder
<1>8. NothingLost
  BY <1>1, <1>2, LegalRouteFacts DEF NothingLost, Start
<1> QED BY <1>5, <1>7, <1>8 DEF RankedInv

(* Open ways promise no more than the routes they begin, routes come off   *)
(* in the order of what they cost, and every legal route not yet returned  *)
(* has an open way that begins it.                                         *)
THEOREM RankedInvariant == SearchSpec => []RankedInv
<1>1. SearchTypeOK /\ PotentialInv /\ WayInv /\ RankedInv /\ [SearchNext]_vars => RankedInv'
  BY RankedStep DEF WayInv
<1> QED BY RankedInit, PotentialInvariant, WaysInvariant, <1>1, PTL DEF SearchSpec

(* Ranked candidates are the cheapest legal routes, in order, and one that *)
(* is missing is no cheaper and is missing only because enough were found  *)
(* or the expansions ran out (_build_ranked_route_candidate_paths_host).   *)
THEOREM RankedAlwaysCheapest == SearchSpec => []CheapestInOrder
<1>1. SearchTypeOK /\ PotentialInv /\ WayInv /\ RankedInv => CheapestInOrder
  <2> SUFFICES ASSUME SearchTypeOK, PotentialInv, WayInv, RankedInv, phase = "done", request.wanted > 1
               PROVE  /\ \A i, j \in 1 .. Len(routes) : i < j => CostOf(routes[i]) <= CostOf(routes[j])
                      /\ \A p \in LegalRoutes \ {routes[i] : i \in 1 .. Len(routes)} :
                            /\ \A i \in 1 .. Len(routes) : CostOf(routes[i]) <= CostOf(p)
                            /\ Len(routes) = request.wanted \/ expansions = MaxExpansions
    BY DEF CheapestInOrder
  <2>1. queue = {}
    BY DEF PotentialInv
  <2>2. ASSUME NEW p \in LegalRoutes, \A i \in 1 .. Len(routes) : routes[i] # p
        PROVE  /\ \A i \in 1 .. Len(routes) : CostOf(routes[i]) <= CostOf(p)
               /\ Len(routes) = request.wanted \/ expansions = MaxExpansions
    <3>1. p \in Seq(Links) /\ Arrived(p)
      BY LegalRouteFacts
    <3>2. PICK e \in open : Begins(e.path, p)
      BY <2>2 DEF RankedInv, NothingLost
    <3>3. e.path \in Seq(Links) /\ e.cost \in Nat /\ e.est \in Nat
      BY DEF SearchTypeOK, Entries
    <3>4. e.est <= CostOf(p)
      <4>1. CostOf(p) \in Nat
        BY <3>1, CostType
      <4>2. CASE e.path = <<>>
        BY <4>1, <4>2 DEF RankedInv, Priced
      <4>3. CASE e.path # <<>>
        <5>1. /\ Len(e.path) \in 0 .. Len(p) /\ CostOf(e.path) = Spent(p, Len(e.path))
              /\ NodeAfter(e.path) = NodeAt(p, Len(e.path))
          <6>1. Len(e.path) \in 0 .. Len(e.path)
            BY <3>3, LenProperties
          <6> QED BY <3>1, <3>2, <3>3, <6>1, BeginsSpent DEF NodeAfter
        <5>2. Spent(p, Len(e.path)) + dist[NodeAt(p, Len(e.path))] <= CostOf(p)
          BY <2>1, <3>1, <5>1, RouteBound
        <5>3. e.est = CostOf(e.path) + dist[NodeAfter(e.path)]
          BY <4>3 DEF RankedInv, Priced
        <5> QED BY <5>1, <5>2, <5>3
      <4> QED BY <4>2, <4>3
    <3>5. \A i \in 1 .. Len(routes) : CostOf(routes[i]) <= e.est /\ CostOf(routes[i]) \in Nat
      BY CostType DEF RankedInv, RankedInOrder, SearchTypeOK
    <3>6. CostOf(p) \in Nat
      BY <3>1, CostType
    <3>7. request.origin # request.dest
      <4> SUFFICES ASSUME request.origin = request.dest PROVE FALSE
        OBVIOUS
      <4>1. NodeAt(p, 0) = NodeAt(p, Len(p))
        BY <3>1 DEF Arrived, NodeAfter, NodeAt
      <4>2. Len(p) \in Nat /\ Len(p) > 0
        BY <3>1, LenProperties DEF Arrived
      <4>3. 0 \in 0 .. Len(p) /\ Len(p) \in 0 .. Len(p) /\ 0 < Len(p)
        BY <4>2
      <4> QED BY <3>1, <4>1, <4>3 DEF Arrived, GoodWay, LegalWay
    <3>8. ~ Searching
      BY <3>7 DEF WayInv, Untouched
    <3>9. Len(routes) <= request.wanted /\ expansions <= MaxExpansions
      BY DEF RankedInv, RankedInOrder
    <3>10. /\ Len(routes) \in Nat /\ request.wanted \in Nat
           /\ expansions \in Nat /\ MaxExpansions \in Nat
      BY TypeFacts, SearchAssumption, TimesGrows, LenProperties DEF MaxExpansions, SearchTypeOK
    <3> QED BY <3>2, <3>3, <3>4, <3>5, <3>6, <3>8, <3>9, <3>10 DEF Searching
  <2> QED BY <2>2 DEF RankedInv, RankedInOrder
<1> QED BY <1>1, PotentialInvariant, WaysInvariant, RankedInvariant, PTL

-----------------------------------------------------------------------------
(* The greedy walk where it is never turned away. *)

(* From a node within reach where a cheapest way goes on, so does the walk,*)
(* and loses nothing.                                                      *)
LEMMA WalkGoesDown ==
    ASSUME SearchTypeOK, PotentialInv, queue = {}, NEW p \in Seq(Links),
           GoesOn(LinkAt(p, Len(p)), NodeAfter(p)), NodeAfter(p) \in Nodes,
           NodeAfter(p) # request.dest, dist[NodeAfter(p)] < Far
    PROVE  /\ NextLinks(p) # {}
           /\ \A l \in NextLinks(p) : (\A m \in NextLinks(p) : ActionCost(l) <= ActionCost(m)) =>
                 cost[l] + dist[Dst[l]] = dist[NodeAfter(p)]
<1> DEFINE n == NodeAfter(p)
           last == LinkAt(p, Len(p))
<1> HIDE DEF n
<1>1. n \in Nodes /\ n # request.dest /\ dist[n] < Far /\ dist[n] \in Nat /\ dist[n] # Far
  <2>1. n \in Nodes /\ n # request.dest /\ dist[n] < Far
    BY DEF n
  <2>2. dist[n] \in Nat /\ Far \in Nat
    BY <2>1, TypeFacts, NetworkFacts
  <2> QED BY <2>1, <2>2
<1>2. PICK k \in Links \ blocked :
        Src[k] = n /\ LegalTurn(last, k) /\ cost[k] + dist[Dst[k]] = dist[n]
  BY <1>1 DEF GoesOn, n
<1> HIDE DEF last
<1>3. cost[k] \in Nat /\ cost[k] > 0 /\ dist[Dst[k]] \in Nat
  BY TypeFacts, NetworkFacts
<1>4. k \in NextLinks(p)
  <2>1. dist[Dst[k]] < Far
    BY <1>1, <1>2, <1>3, NetworkFacts
  <2> QED BY <1>2, <2>1 DEF NextLinks, n, last
<1>5. ASSUME NEW l \in NextLinks(p), \A m \in NextLinks(p) : ActionCost(l) <= ActionCost(m)
      PROVE  cost[l] + dist[Dst[l]] = dist[n]
  <2>1. l \in Links /\ l \notin blocked /\ Src[l] = n
    BY DEF NextLinks, n
  <2>2. cost[l] \in Nat /\ dist[Dst[l]] \in Nat
    BY <2>1, TypeFacts, NetworkFacts
  <2>3. dist[n] <= cost[l] + dist[Dst[l]]
    BY <2>1 DEF PotentialInv, Consistent, Passable
  <2>4. cost[l] + dist[Dst[l]] <= cost[k] + dist[Dst[k]]
    BY <1>4, <1>5 DEF ActionCost
  <2> QED BY <1>1, <1>2, <1>3, <2>2, <2>3, <2>4
<1> QED BY <1>4, <1>5 DEF n

(* A way that comes to no node twice and avoids one node is shorter than   *)
(* the others are many.                                                    *)
LEMMA WayIsShort ==
    ASSUME SearchTypeOK, NEW p \in Seq(Links), LegalWay(p), request.dest \notin Visited(p)
    PROVE  Len(p) < Cardinality(Nodes) - 1
<1> DEFINE rest == Nodes \ {request.dest}
           at == [i \in 0 .. Len(p) |-> NodeAt(p, i)]
<1>1. Len(p) \in Nat /\ \A i \in 1 .. Len(p) : p[i] \in Links
  BY LenProperties
<1>2. \A i \in 0 .. Len(p) : NodeAt(p, i) \in rest
  <2> SUFFICES ASSUME NEW i \in 0 .. Len(p) PROVE NodeAt(p, i) \in Nodes
    BY DEF Visited
  <2>1. i = 0 \/ i \in 1 .. Len(p)
    BY <1>1
  <2>2. CASE i = 0
    BY <2>2, TypeFacts DEF NodeAt
  <2>3. CASE i \in 1 .. Len(p)
    <3>1. p[i] \in Links /\ i # 0
      BY <1>1, <2>3
    <3> QED BY <3>1, NetworkFacts DEF NodeAt
  <2> QED BY <2>1, <2>2, <2>3
<1>3. \A i, j \in 0 .. Len(p) : i # j => NodeAt(p, i) # NodeAt(p, j)
  <2> SUFFICES ASSUME NEW i \in 0 .. Len(p), NEW j \in 0 .. Len(p), i # j
               PROVE  NodeAt(p, i) # NodeAt(p, j)
    OBVIOUS
  <2>1. i < j \/ j < i
    BY <1>1
  <2> QED BY <2>1 DEF LegalWay
<1>4. at \in Injection(0 .. Len(p), rest)
  BY <1>2, <1>3 DEF Injection, IsInjective
<1>5. IsFiniteSet(rest) /\ Cardinality(rest) = Cardinality(Nodes) - 1 /\ Cardinality(Nodes) \in Nat
  BY TypeFacts, SearchAssumption, FS_RemoveElement, FS_CardinalityType
<1>6. IsFiniteSet(0 .. Len(p)) /\ Cardinality(0 .. Len(p)) = Len(p) + 1
  BY <1>1, FS_Interval
<1> HIDE DEF at, rest
<1>7. Cardinality(0 .. Len(p)) <= Cardinality(rest)
  BY <1>4, <1>5, FS_Injection
<1> QED BY <1>1, <1>5, <1>6, <1>7

GreedyInv == Downhill /\ GreedyEnds

(* A walk that is never turned away was not turned away a step before.     *)
LEMMA WalkWasNotTurnedAway ==
    ASSUME SearchTypeOK, Walk, NeverTurnedAway'
    PROVE  NeverTurnedAway
<1>1. UNCHANGED inputs /\ dist' = dist /\ path \in Seq(Links) /\ Len(path) \in Nat
  BY WalkFacts, LenProperties DEF potential, SearchTypeOK
<1>2. CASE path' = path
  BY <1>1, <1>2, SameInputs
<1>3. CASE \E l \in Links : path' = Append(path, l)
  <2>1. PICK l \in Links : path' = Append(path, l)
    BY <1>3
  <2>2. Len(path') = Len(path) + 1 /\ \A i \in 1 .. Len(path) : path'[i] = path[i]
    BY <1>1, <2>1, AppendFacts
  <2> SUFFICES ASSUME NEW i \in 0 .. Len(path)
               PROVE  GoesOn(LinkAt(path, i), NodeAt(path, i))
    BY DEF NeverTurnedAway
  <2>3. i \in 0 .. Len(path')
    BY <1>1, <2>2
  <2>4. GoesOn(LinkAt(path, i), NodeAt(path, i))'
    BY <2>3 DEF NeverTurnedAway
  <2>5. i = 0 \/ i \in 1 .. Len(path)
    BY <1>1
  <2>6. LinkAt(path, i)' = LinkAt(path, i) /\ NodeAt(path, i)' = NodeAt(path, i)
    BY <1>1, <2>2, <2>5 DEF LinkAt, NodeAt, inputs
  <2> QED BY <1>1, <2>4, <2>6 DEF GoesOn, LegalTurn, inputs
<1> QED BY <1>2, <1>3, WalkFacts

LEMMA WalkKeepsGreedy ==
    ASSUME SearchTypeOK, PotentialInv, WayInv, GreedyInv, Walk
    PROVE  GreedyInv'
<1> SUFFICES ASSUME NeverTurnedAway' PROVE GreedyInv'
  BY DEF GreedyInv, Downhill, GreedyEnds
<1>1. /\ phase = "greedy" /\ UNCHANGED <<inputs, potential>> /\ dist' = dist /\ request' = request
      /\ queue = {}
  BY WalkFacts DEF inputs, potential, PotentialInv
<1>2. /\ path \in Seq(Links) /\ LegalWay(path) /\ request.dest \notin Visited(path)
      /\ routes = <<>> /\ request.origin # request.dest
  BY <1>1 DEF SearchTypeOK, WayInv, WaysLegal, Untouched, GoodWay
<1> DEFINE n == NodeAfter(path)
<1>2a. NeverTurnedAway
  BY WalkWasNotTurnedAway
<1>3. /\ CostOf(path) + dist[n] = dist[request.origin]
      /\ \A i \in 0 .. Len(path) - 1 : dist[NodeAt(path, i)] > dist[n]
  BY <1>2a DEF GreedyInv, Downhill
<1>4. Len(path) \in Nat /\ Len(path) \in 0 .. Len(path)
  BY <1>2, LenProperties
<1>5. n \in Visited(path) /\ n # request.dest
  BY <1>2, <1>4 DEF NodeAfter, Visited
<1>6. \A i \in 0 .. Len(path) : NodeAt(path, i) \in Nodes
  <2> SUFFICES ASSUME NEW i \in 0 .. Len(path) PROVE NodeAt(path, i) \in Nodes
    OBVIOUS
  <2>1. CASE i = 0
    BY <2>1, TypeFacts DEF NodeAt
  <2>2. CASE i # 0
    <3>1. path[i] \in Links
      BY <1>2, <1>4, <2>2
    <3> QED BY <2>2, <3>1, NetworkFacts DEF NodeAt
  <2> QED BY <2>1, <2>2
<1>7. /\ dist[n] \in Nat /\ dist[n] <= Far /\ dist[request.origin] \in Nat
      /\ dist[request.origin] <= Far /\ CostOf(path) \in Nat
  BY <1>2, <1>4, <1>6, TypeFacts, CostType DEF NodeAfter
<1>7a. GoesOn(LinkAt(path, Len(path)), NodeAfter(path)) /\ NodeAfter(path) \in Nodes
  BY <1>4, <1>6, <1>2a DEF NeverTurnedAway, NodeAfter
<1> HIDE DEF n
<1>8. CASE /\ NextLinks(path) = {} \/ Len(path) = MaxHops
           /\ phase' = "done" /\ UNCHANGED <<path, routes>>
  <2>1. Downhill'
    BY <1>1, <1>8, SameInputs DEF GreedyInv, Downhill
  <2>2. NextLinks(path) = {} => dist[request.origin] = Far
    <3>1. NextLinks(path) = {} => ~ (dist[n] < Far)
      BY <1>1, <1>2, <1>5, <1>7a, WalkGoesDown DEF n
    <3> QED BY <1>3, <1>7, <3>1, NetworkFacts
  <2>3. Len(path) < Cardinality(Nodes) - 1 /\ Cardinality(Nodes) \in Nat
    BY <1>2, WayIsShort, SearchAssumption, FS_CardinalityType
  <2>4. Len(path) = MaxHops => ~ (MaxHops >= Cardinality(Nodes) - 1)
    BY <1>4, <2>3
  <2>5. GreedyEnds'
    BY <1>1, <1>2, <1>8, <2>2, <2>4 DEF GreedyEnds
  <2> QED BY <2>1, <2>5 DEF GreedyInv
<1>9. CASE \E l \in NextLinks(path) :
             /\ l \in Links /\ \A m \in NextLinks(path) : ActionCost(l) <= ActionCost(m)
             /\ path' = Append(path, l)
             /\ phase' = IF Dst[l] = request.dest \/ Dst[l] \in Visited(path) THEN "done" ELSE "greedy"
             /\ routes' = IF Dst[l] = request.dest THEN <<path'>> ELSE routes
  <2>1. PICK l \in NextLinks(path) :
             /\ l \in Links /\ \A m \in NextLinks(path) : ActionCost(l) <= ActionCost(m)
             /\ path' = Append(path, l)
             /\ phase' = IF Dst[l] = request.dest \/ Dst[l] \in Visited(path) THEN "done" ELSE "greedy"
             /\ routes' = IF Dst[l] = request.dest THEN <<path'>> ELSE routes
    BY <1>9
  <2>2. Src[l] = n /\ Passable(l) /\ dist[Dst[l]] < Far
    BY DEF NextLinks, Passable, n
  <2>3. dist[n] < Far
    BY <1>1, <2>1, <2>2, FarIsOutOfReach
  <2>4. cost[l] + dist[Dst[l]] = dist[n]
    BY <1>1, <1>2, <1>5, <1>7a, <2>1, <2>3, WalkGoesDown DEF n
  <2>5. cost[l] \in Nat /\ cost[l] > 0 /\ dist[Dst[l]] \in Nat
    BY <2>1, TypeFacts, NetworkFacts
  <2>6. dist[Dst[l]] < dist[n]
    BY <1>7, <2>4, <2>5
  <2>7. \A i \in 0 .. Len(path) : dist[NodeAt(path, i)] > dist[Dst[l]]
    <3> SUFFICES ASSUME NEW i \in 0 .. Len(path) PROVE dist[NodeAt(path, i)] > dist[Dst[l]]
      OBVIOUS
    <3>1. CASE i = Len(path)
      BY <2>6, <3>1 DEF n, NodeAfter
    <3>2. CASE i # Len(path)
      <4>1. i \in 0 .. Len(path) - 1 /\ dist[NodeAt(path, i)] \in Nat
        BY <1>4, <1>6, <3>2, TypeFacts
      <4>2. dist[NodeAt(path, i)] > dist[n]
        BY <1>3, <4>1
      <4> QED BY <1>7, <2>5, <2>6, <4>1, <4>2
    <3> QED BY <3>1, <3>2
  <2>8. Dst[l] \notin Visited(path)
    <3> SUFFICES ASSUME NEW i \in 0 .. Len(path), NodeAt(path, i) = Dst[l] PROVE FALSE
      BY DEF Visited
    <3> QED BY <2>5, <2>7
  <2> DEFINE q == Append(path, l)
  <2>9. /\ Len(q) = Len(path) + 1 /\ NodeAfter(q) = Dst[l] /\ CostOf(q) = CostOf(path) + cost[l]
        /\ \A i \in 0 .. Len(path) : NodeAt(q, i) = NodeAt(path, i)
    BY <1>2, <2>1, AppendFacts, CostGrows
  <2>10. path' = q
    BY <2>1
  <2> HIDE DEF q
  <2>11. CostOf(q) + dist[NodeAfter(q)] = dist[request.origin]
    BY <1>3, <1>7, <2>4, <2>5, <2>9
  <2>12. \A i \in 0 .. Len(q) - 1 : dist[NodeAt(q, i)] > dist[NodeAfter(q)]
    <3>1. Len(q) - 1 = Len(path)
      BY <1>4, <2>9
    <3> QED BY <2>7, <2>9, <3>1
  <2>13. Downhill'
    BY <1>1, <2>10, <2>11, <2>12, SameInputs DEF Downhill
  <2>14. GreedyEnds'
    BY <2>1, <2>8 DEF GreedyEnds
  <2> QED BY <2>13, <2>14 DEF GreedyInv
<1> QED BY <1>8, <1>9, WalkFacts

LEMMA GreedyStep ==
    ASSUME SearchTypeOK, PotentialInv, WayInv, GreedyInv, [SearchNext]_vars
    PROVE  GreedyInv'
<1>1. UNCHANGED inputs /\ request' = request
  BY DEF SearchNext, Relax, ChooseSearch, Walk, Expand, EndRanking, vars, inputs
<1>3. CASE Walk
  BY <1>3, WalkKeepsGreedy
<1>4. CASE ~ Walk
  <2>1. path' = path
    BY <1>4 DEF SearchNext, Relax, ChooseSearch, Expand, EndRanking, vars, greedyVars
  <2>2. Downhill'
    <3>1. CASE dist' = dist
      BY <1>1, <2>1, <3>1, SameInputs DEF GreedyInv, Downhill
    <3>2. CASE dist' # dist
      <4>1. path = <<>> /\ Len(path) = 0
        BY <1>4, <3>2 DEF SearchNext, Relax, ChooseSearch, Expand, EndRanking, vars, potential,
                          WayInv, Untouched
      <4>2. CostOf(path) = 0
        BY <4>1, CostType DEF SearchTypeOK
      <4>3. NodeAfter(path) = request.origin
        BY <4>1 DEF NodeAfter, NodeAt
      <4>4. dist'[request.origin] \in Nat
        <5>1. SearchTypeOK'
          BY TypeStep
        <5>2. \A n \in Nodes : dist'[n] \in Nat
          BY <5>1, NetworkFacts DEF SearchTypeOK
        <5> QED BY <5>2, TypeFacts
      <4> QED BY <1>1, <2>1, <4>1, <4>2, <4>3, <4>4, SameInputs DEF Downhill
    <3> QED BY <3>1, <3>2
  <2>3. GreedyEnds'
    <3>1. CASE phase = "done"
      <4>1. routes' = routes /\ dist' = dist /\ phase' = phase
        BY <1>4, <3>1 DEF SearchNext, Relax, ChooseSearch, Expand, EndRanking, vars, potential
      <4> QED BY <1>1, <2>1, <3>1, <4>1, SameInputs DEF GreedyInv, GreedyEnds
    <3>2. CASE phase # "done" /\ phase' = "done"
      <4>1. request.origin = request.dest \/ request.wanted > 1
        BY <1>4, <3>2 DEF SearchNext, Relax, ChooseSearch, Expand, EndRanking, vars, WayInv, Untouched
      <4>2. ~ (request.wanted > 1 /\ request.wanted = 1)
        OBVIOUS
      <4> QED BY <1>1, <4>1, <4>2 DEF GreedyEnds
    <3>3. CASE phase' # "done"
      BY <3>3 DEF GreedyEnds
    <3> QED BY <3>1, <3>2, <3>3
  <2> QED BY <2>2, <2>3 DEF GreedyInv
<1> QED BY <1>3, <1>4

LEMMA GreedyInit == SearchInit => GreedyInv
<1> SUFFICES ASSUME SearchInit PROVE GreedyInv
  OBVIOUS
<1>1. path = <<>> /\ Len(path) = 0 /\ phase = "potential" /\ SearchTypeOK
  BY PotentialInit DEF SearchInit
<1>2. CostOf(path) = 0 /\ NodeAfter(path) = request.origin /\ dist[request.origin] \in Nat
  BY <1>1, CostType, TypeFacts DEF SearchTypeOK, NodeAfter, NodeAt
<1> QED BY <1>1, <1>2 DEF GreedyInv, Downhill, GreedyEnds

(* A greedy walk that is never turned away from every cheapest way never   *)
(* leaves them, so it comes to no node twice and ends at the destination.  *)
THEOREM GreedyInvariant == SearchSpec => []GreedyInv
<1>1. SearchTypeOK /\ PotentialInv /\ WayInv /\ GreedyInv /\ [SearchNext]_vars => GreedyInv'
  BY GreedyStep
<1> QED BY GreedyInit, PotentialInvariant, WaysInvariant, <1>1, PTL DEF SearchSpec

LEMMA NoRouteHome == ASSUME request.origin = request.dest PROVE LegalRoutes = {}
<1> SUFFICES ASSUME NEW p \in LegalRoutes PROVE FALSE
  OBVIOUS
<1>1. p \in Seq(Links) /\ Arrived(p)
  BY LegalRouteFacts
<1>2. NodeAt(p, 0) = NodeAt(p, Len(p))
  BY <1>1 DEF Arrived, NodeAfter, NodeAt
<1>3. 0 \in 0 .. Len(p) /\ Len(p) \in 0 .. Len(p) /\ 0 < Len(p)
  BY <1>1, LenProperties DEF Arrived
<1> QED BY <1>1, <1>2, <1>3 DEF Arrived, GoodWay, LegalWay

(* Unless a turn that is not allowed takes every cheapest way from it at a *)
(* node it comes to, and where the hop limit is no shorter than a loopless *)
(* route can be, the greedy walk returns a cheapest legal route, and none  *)
(* only when there is no legal route.                                      *)
THEOREM GreedyAlwaysOptimal == SearchSpec => []GreedyOptimalUnlessTurnedAway
<1>1. SearchTypeOK /\ PotentialInv /\ WayInv /\ GreedyInv => GreedyOptimalUnlessTurnedAway
  <2> SUFFICES ASSUME SearchTypeOK, PotentialInv, WayInv, GreedyInv,
                      phase = "done", request.wanted = 1, NeverTurnedAway,
                      MaxHops >= Cardinality(Nodes) - 1
               PROVE  \/ routes = <<>> /\ LegalRoutes = {}
                      \/ routes # <<>> /\ \A p \in LegalRoutes : CostOf(routes[1]) <= CostOf(p)
    BY DEF GreedyOptimalUnlessTurnedAway
  <2>1. queue = {}
    BY DEF PotentialInv
  <2>2. ASSUME NEW p \in LegalRoutes
        PROVE  dist[request.origin] < Far /\ dist[request.origin] <= CostOf(p)
    <3>1. p \in Seq(Links) /\ Arrived(p)
      BY LegalRouteFacts
    <3>2. 0 \in 0 .. Len(p) /\ NodeAt(p, 0) = request.origin
      BY <3>1, LenProperties DEF NodeAt
    <3>3. Spent(p, 0) = 0 /\ dist[request.origin] \in Nat
      BY <3>1, SpentFacts, TypeFacts
    <3> QED BY <2>1, <3>1, <3>2, <3>3, RouteBound
  <2>3. CASE request.origin = request.dest
    BY <2>3, NoRouteHome DEF WayInv, Untouched
  <2>4. CASE request.origin # request.dest /\ routes = <<path>>
    <3>1. routes # <<>> /\ routes[1] = path /\ Arrived(path)
      BY <2>4 DEF WayInv, WaysLegal
    <3>2. CostOf(path) + dist[NodeAfter(path)] = dist[request.origin]
      BY DEF GreedyInv, Downhill
    <3>3. dist[NodeAfter(path)] = 0 /\ CostOf(path) \in Nat
      BY <3>1, CostType DEF Arrived, PotentialInv, SearchTypeOK
    <3> QED BY <2>2, <3>1, <3>2, <3>3
  <2>5. CASE request.origin # request.dest /\ routes = <<>> /\ dist[request.origin] = Far
    BY <2>2, <2>5, NetworkFacts
  <2> QED BY <2>3, <2>4, <2>5 DEF GreedyInv, GreedyEnds
<1> QED BY <1>1, PotentialInvariant, WaysInvariant, GreedyInvariant, PTL
===============================================================================
