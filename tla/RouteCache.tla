------------------------------ MODULE RouteCache ------------------------------
(***************************************************************************)
(* The routes trips are admitted with, over the ticks of an incident:      *)
(* candidate sets per origin and destination, kept for some ticks, and the *)
(* cache of potentials they are computed from                              *)
(* (refresh_runtime_route_candidates, routing/candidates.py).  Extends the *)
(* event scheduler, whose closures decide which routes are open.           *)
(*                                                                         *)
(* A search is abstracted to what RouteSearch shows of it: the cheapest    *)
(* open route, or none.  Travel times are two-valued: a busy link costs    *)
(* more, and the flow update of a tick leaves any links busy.              *)
(***************************************************************************)
EXTENDS EventScheduler

CONSTANTS
    Routes,     \* Routes[od]: the legal routes of an origin-destination pair
    DestOf,     \* DestOf[od]: destination node
    Congestible,\* bound: links whose travel time varies
    Trips, OD   \* trip ids, and the pair each trip travels

ODs == DOMAIN Routes

ASSUME RoutesAssumption ==
    /\ \A od \in ODs : Routes[od] # {} /\ \A r \in Routes[od] : r \in Seq(Links) /\ r # <<>>
    /\ DOMAIN DestOf = ODs /\ OD \in [Trips -> ODs] /\ Trips \subseteq Nat
    /\ Congestible \subseteq Links

VARIABLES
    busy,           \* links whose travel_time_cost is raised by their queue
    flowGeneration, \* runtime_flow_generation
    memo,           \* potential_cache: [signature, dest, inputs]
    candidates,     \* candidate_sets: [route, made], route <<>> when none was found
    stage           \* of each trip: "waiting", "pending", "admitted", "failed"

cacheVars == <<busy, flowGeneration, memo, candidates, stage>>
vars == <<eventVars, cacheVars>>

NoSet == [route |-> <<>>, made |-> None]

CacheInit ==
    /\ EventInit
    /\ busy = {} /\ flowGeneration = 0
    /\ memo = {}
    /\ candidates = [od \in ODs |-> NoSet]
    /\ stage = [t \in Trips |-> "waiting"]

-----------------------------------------------------------------------------
(* What a search over given inputs finds: blocked links are those of       *)
(* _resolve_blocked_link_mask.                                             *)
Closed(m) == {l \in Blockable : m[l] = 0}

IsOpen(r, closed) == \A i \in 1 .. Len(r) : r[i] \notin closed

CostWith(r, slow) == Len(r) + 2 * Cardinality({i \in 1 .. Len(r) : r[i] \in slow})

BestRoute(od, inputs) ==
    LET open == {r \in Routes[od] : IsOpen(r, inputs.closed)}
    IN  IF open = {} THEN <<>>
        ELSE CHOOSE r \in open : \A q \in open : CostWith(r, inputs.busy) <= CostWith(q, inputs.busy)

-----------------------------------------------------------------------------
(* Mutant: the signature forgets that the flow update changes travel times.*)
SignatureOfIncidents(flow, incident) == <<incident>>

(* _state_cache_signature: the part that changes during a run. *)
Signature(flow, incident) == <<flow, incident>>

(* _prune_stale_route_potential_cache *)
Kept(signature) == {e \in memo : e.signature = signature}

(* Mutant: a closure that is active does not force a refresh. *)
ShouldRefreshByAge(set, now, forced) ==
    \/ set = NoSet \/ now < set.made \/ now - set.made >= RefreshInterval

(* should_refresh_route_candidate_set *)
ShouldRefresh(set, now, forced) ==
    forced \/ set = NoSet \/ now < set.made \/ now - set.made >= RefreshInterval

(* Mutant: the end of a closure does not force a refresh. *)
ForcedWhileActive(now) == active' # {}

(* A tick with an active event, or in which the links changed. *)
Forced(now) == active' # {} \/ transition'.tick = now

(* refresh_runtime_route_candidates: only the pairs of trips that are      *)
(* pending are looked at.                                                  *)
Refresh(wanted, now) ==
    LET signature == Signature(flowGeneration, generation')
        current == [closed |-> Closed(multiplier'), busy |-> busy]
        due == {od \in wanted : ShouldRefresh(candidates[od], now, Forced(now))}
        hits(d) == {e \in Kept(signature) : e.dest = d}
        inputs(d) == IF hits(d) # {} THEN (CHOOSE e \in hits(d) : TRUE).inputs ELSE current
    IN  /\ candidates' = [od \in ODs |->
                IF od \in due THEN [route |-> BestRoute(od, inputs(DestOf[od])), made |-> now]
                ELSE candidates[od]]
        /\ memo' = Kept(signature) \cup
                {[signature |-> signature, dest |-> DestOf[od], inputs |-> inputs(DestOf[od])] :
                    od \in due}

(* The admission loop of prepare_runtime_active_agents: trips in order of  *)
(* id, up to the one that finds the pool full (after the first of those    *)
(* below upTo); those that find no room on their first link wait.          *)
Admit(requests, upTo, held) ==
    stage' = [t \in Trips |->
        IF t \notin requests THEN stage[t]
        ELSE IF t >= upTo THEN "pending"
        ELSE IF candidates'[OD[t]].route = <<>> THEN "failed"
        ELSE IF t \in held THEN "pending" ELSE "admitted"]

(* One unpaused step: events and their effects, activation, refresh,       *)
(* admission, flow update.                                                 *)
Step(new, clear, requests, upTo, held, slow) ==
    /\ Run(new, clear)
    /\ Refresh({OD[t] : t \in requests}, tick')
    /\ Admit(requests, upTo, held)
    /\ flowGeneration' = flowGeneration + 1
    /\ busy' = slow

(* A control may clear ids that are not in a bucket: those change nothing. *)
StepSome ==
    \E new \in SUBSET (Events \ Known), slow \in SUBSET Congestible :
    \E clear \in SUBSET (scheduled \cup active \cup new) :
    \E activated \in SUBSET {t \in Trips : stage[t] = "waiting"} :
    LET requests == activated \cup {t \in Trips : stage[t] = "pending"}
    IN  \E upTo \in requests \cup {Max(Trips) + 1}, held \in SUBSET requests :
            Step(new, clear, requests, upTo, held, slow)

PausedStep == PauseSome /\ UNCHANGED cacheVars

CacheSpec == CacheInit /\ [][StepSome \/ PausedStep]_vars

-----------------------------------------------------------------------------
(* Type invariant.  The potential cache holds one entry per destination,   *)
(* of one state only, however long the run: it is pruned in every tick.    *)
CacheTypeOK ==
    /\ \A od \in ODs : /\ candidates[od].route \in Routes[od] \cup {<<>>}
                       /\ candidates[od].made \in {None} \cup 0 .. tick
    /\ stage \in [Trips -> {"waiting", "pending", "admitted", "failed"}]
    /\ \A e, f \in memo : e.signature = f.signature /\ (e.dest = f.dest => e = f)

Settles(t) == stage[t] \notin {"admitted", "failed"} /\ stage'[t] \in {"admitted", "failed"}

(* A candidate set is what a search over the closures and travel times of  *)
(* its own tick finds: the potential cache never serves those of another.  *)
FreshWhenMade ==
    [][\A od \in ODs :
        candidates'[od] # candidates[od] =>
            candidates'[od] = [route |-> BestRoute(od, [closed |-> Closed(multiplier'), busy |-> busy]),
                               made |-> tick']]_vars

(* No trip is admitted on a link that is closed in the tick it starts.     *)
AdmittedRoutesOpen ==
    [][\A t \in Trips :
        (Settles(t) /\ stage'[t] = "admitted") =>
            IsOpen(candidates'[OD[t]].route, Closed(multiplier'))]_vars

(* A trip is given up only in a tick in which every route of its pair is   *)
(* closed.  The one exception: its set was made before the links changed   *)
(* for the last time, which no trip of the pair was there to notice, no    *)
(* event is active any more, and the set is younger than the interval.     *)
CutOff(od, closed) == \A r \in Routes[od] : ~ IsOpen(r, closed)

OutlivedItsClosure(set) ==
    /\ set.made < transition'.tick /\ transition'.tick < tick' /\ active' = {}
    /\ tick' - set.made < RefreshInterval

GivenUpOnlyWhenCutOff ==
    [][\A t \in Trips :
        (Settles(t) /\ stage'[t] = "failed") =>
            \/ CutOff(OD[t], Closed(multiplier'))
            \/ OutlivedItsClosure(candidates'[OD[t]])]_vars
===============================================================================
