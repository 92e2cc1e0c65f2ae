----------------------------- MODULE RouteSearch -----------------------------
(***************************************************************************)
(* Route search of metroflow/routing: the cost-to-go of every node to the  *)
(* destination (dynamic_potential.py), the greedy route that follows it,   *)
(* built when one candidate is asked for, and the ranked loopless routes   *)
(* built when more are (candidates.py).  The searches are run step by step *)
(* on every cost, closure and turn restriction the constants allow.        *)
(*                                                                         *)
(* Costs are integers: travel_time_cost is clamped to be positive before   *)
(* use (_resolve_link_costs), and Far stands for _INF_COST.                *)
(***************************************************************************)
EXTENDS RoadNetwork, Sequences, FiniteSetsExt

CONSTANTS
    Nodes,          \* node ids, ordered like node indices
    Src, Dst,       \* Src[l], Dst[l]: end nodes of a link
    Listed,         \* rows of the turn table: pairs of links; {} when the network has none
    Restrictable,   \* rows that may be marked forbidden
    Blockable,      \* links whose is_blockable is True
    Costs,          \* travel times a link may have
    Far,            \* _INF_COST: above any path
    Requests,       \* [origin, dest, incoming, wanted]: incoming is a link, or None;
                    \* wanted is route_max_candidates
    MaxHops,        \* route_max_hops
    ExpansionsPerCandidate  \* max(16, 4 * link_count), of the code or a smaller bound

ASSUME SearchAssumption ==
    /\ Nodes \subseteq Nat /\ IsFiniteSet(Nodes)
    /\ Src \in [Links -> Nodes] /\ Dst \in [Links -> Nodes]
    /\ Restrictable \subseteq Listed /\ Listed \subseteq Links \X Links
    /\ Far \in Nat \ {0} /\ Costs \subseteq Nat \ {0}
    /\ \A c \in Costs : c * Cardinality(Links) < Far
    /\ Requests \subseteq [origin : Nodes, dest : Nodes, incoming : Links \cup {None},
                           wanted : Nat \ {0}]
    /\ \A r \in Requests : r.incoming # None => Dst[r.incoming] = r.origin
    /\ MaxHops \in Nat /\ ExpansionsPerCandidate \in Nat

VARIABLES
    cost, blocked, forbidden,   \* the network as the search finds it
    request,
    dist,       \* node_cost_to_go
    queue,      \* heap of <<cost, node>>
    phase,      \* "potential", "greedy", "ranked" or "done"
    path,       \* the greedy route so far
    open,       \* heap of partial routes of the ranked search
    serial, expansions,
    routes      \* candidate_paths

inputs == <<cost, blocked, forbidden, request>>
potential == <<dist, queue>>
greedyVars == <<path>>
ranking == <<open, serial, expansions>>
vars == <<inputs, potential, phase, greedyVars, ranking, routes>>

SearchInit ==
    /\ cost \in [Links -> Costs]
    /\ blocked \in SUBSET Blockable
    /\ forbidden \in SUBSET Restrictable
    /\ request \in Requests
    /\ dist = [n \in Nodes |-> IF n = request.dest THEN 0 ELSE Far]
    /\ queue = {<<0, request.dest>>}
    /\ phase = "potential"
    /\ path = <<>> /\ routes = <<>>
    /\ open = {[est |-> 0, cost |-> 0, serial |-> 0, path |-> <<>>]}
    /\ serial = 0 /\ expansions = 0

-----------------------------------------------------------------------------
(* _reverse_dijkstra_node_costs *)

First(entries) ==
    CHOOSE e \in entries : \A f \in entries : e[1] < f[1] \/ (e[1] = f[1] /\ e[2] <= f[2])

(* Mutant: closures are left out of the potential. *)
PassableWhenClosed(l) == TRUE

Passable(l) == l \notin blocked

(* Links into n that bring their other end closer, seen in link order: a   *)
(* later link counts only when it improves on the earlier ones.            *)
Improving(n, at) ==
    {l \in Links :
        /\ Dst[l] = n /\ Passable(l)
        /\ at + cost[l] < dist[Src[l]]
        /\ \A m \in Links : (/\ m < l /\ Dst[m] = n /\ Src[m] = Src[l] /\ Passable(m))
                               => cost[l] < cost[m]}

Relax ==
    /\ phase = "potential" /\ queue # {}
    /\ LET top == First(queue)
           better == IF top[1] > dist[top[2]] THEN {} ELSE Improving(top[2], top[1])
           through(l) == top[1] + cost[l]
       IN  /\ dist' = [n \in Nodes |->
                          Min({dist[n]} \cup {through(l) : l \in {m \in better : Src[m] = n}})]
           /\ queue' = (queue \ {top}) \cup {<<through(l), Src[l]>> : l \in better}
    /\ UNCHANGED <<inputs, phase, greedyVars, ranking, routes>>

(* build_route_candidate_set: which of the two searches follows. *)
ChooseSearch ==
    /\ phase = "potential" /\ queue = {}
    /\ phase' = IF request.origin = request.dest THEN "done"
                ELSE IF request.wanted = 1 THEN "greedy" ELSE "ranked"
    /\ UNCHANGED <<inputs, potential, greedyVars, ranking, routes>>

-----------------------------------------------------------------------------
(* _filter_legal_turn_successors and the scores of the legal next links *)

\* Where route p is after i links, and over which link it came there.
NodeAt(p, i) == IF i = 0 THEN request.origin ELSE Dst[p[i]]
LinkAt(p, i) == IF i = 0 THEN request.incoming ELSE p[i]

NodeAfter(p) == NodeAt(p, Len(p))
Visited(p) == {NodeAt(p, i) : i \in 0 .. Len(p)}

LegalTurn(from, to) ==
    from = None \/ Listed = {} \/ <<from, to>> \in Listed \ forbidden

NextLinks(p) ==
    {l \in Links : /\ Src[l] = NodeAfter(p) /\ LegalTurn(LinkAt(p, Len(p)), l)
                   /\ l \notin blocked /\ dist[Dst[l]] < Far}

ActionCost(l) == cost[l] + dist[Dst[l]]

(* Mutant: the next link is chosen by its own cost. *)
BestByLinkCost(choices) ==
    CHOOSE l \in choices : \A m \in choices : cost[l] < cost[m] \/ (cost[l] = cost[m] /\ l <= m)

(* _best_legal_next_link_id_host: ties go to the smaller link id. *)
Best(choices) ==
    CHOOSE l \in choices :
        \A m \in choices : ActionCost(l) < ActionCost(m) \/ (ActionCost(l) = ActionCost(m) /\ l <= m)

(* _build_greedy_route_candidate_baseline: one iteration.  The walk ends at *)
(* the destination, or empty-handed.                                       *)
Walk ==
    /\ phase = "greedy"
    /\ IF NextLinks(path) = {} \/ Len(path) = MaxHops
       THEN /\ phase' = "done"
            /\ UNCHANGED <<path, routes>>
       ELSE LET next == Best(NextLinks(path))
            IN  /\ path' = Append(path, next)
                /\ phase' = IF Dst[next] = request.dest \/ Dst[next] \in Visited(path)
                            THEN "done" ELSE "greedy"
                /\ routes' = IF Dst[next] = request.dest THEN <<path'>> ELSE routes
    /\ UNCHANGED <<inputs, potential, ranking>>

-----------------------------------------------------------------------------
(* _build_ranked_route_candidate_paths_host *)

(* Mutant: partial routes are taken by the cost of what was travelled. *)
FirstOpenByCost(entries) ==
    CHOOSE e \in entries :
        \A f \in entries : e.cost > f.cost \/ (e.cost = f.cost /\ e.serial <= f.serial)

FirstOpen(entries) ==
    CHOOSE e \in entries :
        \A f \in entries : \/ e.est < f.est
                           \/ e.est = f.est /\ e.cost < f.cost
                           \/ e.est = f.est /\ e.cost = f.cost /\ e.serial <= f.serial

(* Mutant: a route may come back to a node it has passed. *)
GrowingWithLoops(p) == NextLinks(p)

(* Next links in the order of their scores, which is the order of serials. *)
Growing(p) == {l \in NextLinks(p) : Dst[l] \notin Visited(p)}

Rank(l, choices) ==
    Cardinality({m \in choices : \/ ActionCost(m) < ActionCost(l)
                                 \/ ActionCost(m) = ActionCost(l) /\ m <= l})

MaxExpansions == request.wanted * ExpansionsPerCandidate

Searching == open # {} /\ Len(routes) < request.wanted /\ expansions < MaxExpansions

Expand ==
    /\ phase = "ranked" /\ Searching
    /\ LET top == FirstOpen(open)
           arrived == NodeAfter(top.path) = request.dest /\ top.path # <<>>
           more == IF arrived \/ Len(top.path) >= MaxHops THEN {} ELSE Growing(top.path)
       IN  /\ routes' = IF arrived THEN Append(routes, top.path) ELSE routes
           /\ open' = (open \ {top}) \cup
                 {[est |-> top.cost + ActionCost(l), cost |-> top.cost + cost[l],
                   serial |-> serial + Rank(l, more), path |-> Append(top.path, l)] : l \in more}
           /\ serial' = serial + Cardinality(more)
    /\ expansions' = expansions + 1
    /\ UNCHANGED <<inputs, potential, phase, greedyVars>>

EndRanking ==
    /\ phase = "ranked" /\ ~ Searching
    /\ phase' = "done"
    /\ UNCHANGED <<inputs, potential, greedyVars, ranking, routes>>

SearchNext == Relax \/ ChooseSearch \/ Walk \/ Expand \/ EndRanking

SearchSpec == SearchInit /\ [][SearchNext]_vars

-----------------------------------------------------------------------------
(* What a search should return, by enumeration. *)

(* A way from the origin over open links, by turns that are in the table   *)
(* and not forbidden, that comes to no node twice.                         *)
LegalWay(p) ==
    /\ \A i \in 1 .. Len(p) :
          /\ p[i] \notin blocked /\ Src[p[i]] = NodeAt(p, i - 1)
          /\ \/ LinkAt(p, i - 1) = None \/ Listed = {}
             \/ <<LinkAt(p, i - 1), p[i]>> \in Listed \ forbidden
    /\ \A i, j \in 0 .. Len(p) : i < j => NodeAt(p, i) # NodeAt(p, j)

LegalRoutes ==
    {p \in UNION {[1 .. n -> Links] : n \in 1 .. MaxHops} :
        LegalWay(p) /\ NodeAfter(p) = request.dest}

CostOf(p) == FoldFunction(+, 0, [i \in 1 .. Len(p) |-> cost[p[i]]])

(* Cost of the cheapest way to the destination when every turn is legal.   *)
Shortest ==
    LET walk[h \in 0 .. Cardinality(Nodes)] ==
            IF h = 0 THEN [n \in Nodes |-> IF n = request.dest THEN 0 ELSE Far]
            ELSE [n \in Nodes |->
                    Min({walk[h - 1][n]} \cup
                        {cost[l] + walk[h - 1][Dst[l]] :
                            l \in {m \in Links \ blocked : Src[m] = n /\ walk[h - 1][Dst[m]] < Far}})]
    IN  walk[Cardinality(Nodes)]

-----------------------------------------------------------------------------
(* The potential of a finished search is the cost of the cheapest way over *)
(* the links that are not closed, Far where there is none; it knows no     *)
(* turns.                                                                  *)
PotentialExact == phase # "potential" => dist = Shortest

(* Every candidate is a legal loopless route from the origin (from the     *)
(* incoming link) to the destination over open links, and none is offered  *)
(* twice: what _validate_route_path_authority would otherwise raise on.    *)
CandidatesLegal ==
    phase = "done" =>
        /\ \A i \in 1 .. Len(routes) : routes[i] \in LegalRoutes
        /\ \A i, j \in 1 .. Len(routes) : i # j => routes[i] # routes[j]

(* Ranked candidates are the cheapest legal routes, in order: a route that *)
(* was not returned costs at least as much as those that were, and is      *)
(* missing only because enough were found or the expansions ran out.       *)
CheapestInOrder ==
    (phase = "done" /\ request.wanted > 1) =>
        /\ \A i, j \in 1 .. Len(routes) : i < j => CostOf(routes[i]) <= CostOf(routes[j])
        /\ \A p \in LegalRoutes \ {routes[i] : i \in 1 .. Len(routes)} :
              /\ \A i \in 1 .. Len(routes) : CostOf(routes[i]) <= CostOf(p)
              /\ Len(routes) = request.wanted \/ expansions = MaxExpansions

(* A cheapest way goes on from n, by a turn that is legal after link from; *)
(* nothing is asked of the destination, and of nodes cut off from it.      *)
GoesOn(from, n) ==
    \/ n = request.dest \/ dist[n] = Far
    \/ \E l \in Links \ blocked : /\ Src[l] = n /\ LegalTurn(from, l)
                                  /\ cost[l] + dist[Dst[l]] = dist[n]

(* No node of the walk so far is one where a turn that is not allowed      *)
(* takes every cheapest way from the traveller.                            *)
NeverTurnedAway == \A i \in 0 .. Len(path) : GoesOn(LinkAt(path, i), NodeAt(path, i))

(* The greedy walk takes a detour, or fails where there is a legal route,  *)
(* only when it is turned away from every cheapest way at a node it comes  *)
(* to: otherwise it returns a cheapest route, turns restricted elsewhere   *)
(* or not, unless that is longer than the hop limit.                       *)
GreedyOptimalUnlessTurnedAway ==
    (phase = "done" /\ request.wanted = 1 /\ NeverTurnedAway /\ MaxHops >= Cardinality(Nodes) - 1) =>
        \/ routes = <<>> /\ LegalRoutes = {}
        \/ routes # <<>> /\ \A p \in LegalRoutes : CostOf(routes[1]) <= CostOf(p)
===============================================================================
