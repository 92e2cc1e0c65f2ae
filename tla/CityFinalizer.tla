---------------------------- MODULE CityFinalizer ----------------------------
(***************************************************************************)
(* finalize_preview_topology (src/src/metroflow/city/): a generated street *)
(* network is stitched into one weak component, its crossings are made     *)
(* into nodes when planar geometry is asked for, every turn but the        *)
(* immediate return is permitted, and the result is validated.             *)
(*                                                                         *)
(* A link is a record with its end nodes, its physical road (the link of   *)
(* the other direction has the same one) and whether it is on a bridge,    *)
(* which is the layer of its geometry; its id is its place in links.       *)
(* Coordinates are integers and crossing points exact, so the tolerances   *)
(* and the second pass that rounding may call for have nothing to do.      *)
(* Sections, interfaces and metrics are derived from what is kept here.    *)
(***************************************************************************)
EXTENDS Integers, Sequences, FiniteSets, SequencesExt, FiniteSetsExt, Reachability, Plane

CONSTANTS
    Places,     \* node ids of the generated network
    Position,   \* the coordinates of each place
    Streets     \* roads it may have: [ends, twoWay, bridge], by physical road id

ASSUME FinalizerAssumption ==
    /\ Places \subseteq Nat /\ IsFiniteSet(Places) /\ Cardinality(Places) >= 2
    /\ Position \in [Places -> Nat \X Nat]
    /\ \A p, q \in Places : p # q => Position[p] # Position[q]
    /\ DOMAIN Streets \subseteq Nat /\ IsFiniteSet(DOMAIN Streets)
    /\ \A r \in DOMAIN Streets :
        Streets[r].ends \in Places \X Places /\ Streets[r].ends[1] # Streets[r].ends[2]

VARIABLES
    planar,     \* require_planar_geometry
    streets,    \* the physical roads that were generated
    nodes,      \* the coordinates of each node
    links,      \* the links, in the order of their ids
    apart,      \* the weak components left to connect, the main one first
    given,      \* the links of the repaired network
    parts,      \* old_link_to_new_link_ids: what became of each of them
    turns,      \* the permitted turns, as pairs of links
    phase       \* what finalize_preview_topology does next, or its result

finalizerVars == <<planar, streets, nodes, links, apart, given, parts, turns, phase>>

(* S as a sequence, in the order of Before. *)
Ordered(S, Before(_, _)) ==
    [k \in 1 .. Cardinality(S) |->
        CHOOSE x \in S : Cardinality({y \in S : Before(y, x)}) = k - 1]

-----------------------------------------------------------------------------
(* The nodes that are reached from n by next. *)
ReachedFrom(n, next) == Reached({n}, next, Cardinality(DOMAIN nodes))

Onward == [n \in DOMAIN nodes |-> {l.dst : l \in {m \in Range(links) : m.src = n}}]
Around == [n \in DOMAIN nodes |-> Onward[n] \cup {l.src : l \in {m \in Range(links) : m.dst = n}}]

(* Largest first, then by least node. *)
Components ==
    Ordered({ReachedFrom(n, Around) : n \in DOMAIN nodes},
            LAMBDA a, b : \/ Cardinality(a) > Cardinality(b)
                          \/ Cardinality(a) = Cardinality(b) /\ Min(a) < Min(b))

LanesOf(r) ==
    LET lane(from, to) == [src |-> from, dst |-> to, road |-> r, bridge |-> Streets[r].bridge]
        a == Streets[r].ends[1]
        b == Streets[r].ends[2]
    IN  IF Streets[r].twoWay THEN <<lane(a, b), lane(b, a)>> ELSE <<lane(a, b)>>

Generated ==
    /\ nodes = Position
    /\ links = FlattenSeq([k \in 1 .. Cardinality(streets) |->
                              LanesOf(Ordered(streets, LAMBDA r, s : r < s)[k])])
    /\ apart = Components
    /\ given = <<>> /\ parts = <<>> /\ turns = {} /\ phase = "repair"

FinalizerInit ==
    /\ planar \in BOOLEAN
    /\ streets \in SUBSET DOMAIN Streets
    /\ Generated

-----------------------------------------------------------------------------
SquaredDistance(p, q) == (p[1] - q[1]) * (p[1] - q[1]) + (p[2] - q[2]) * (p[2] - q[2])

(* The closest pair; the smaller ids win. *)
NearestPair(small, main) ==
    LET far(c) == SquaredDistance(nodes[c[1]], nodes[c[2]])
    IN  Ordered(small \X main,
                LAMBDA c, d : \/ far(c) < far(d)
                              \/ far(c) = far(d) /\ c[1] < d[1]
                              \/ far(c) = far(d) /\ c[1] = d[1] /\ c[2] < d[2])[1]

(* Mutant: no way back over a stitch. *)
StitchesOneWay(a, b, road) ==
    <<[src |-> a, dst |-> b, road |-> road, bridge |-> FALSE]>>

StitchesFor(a, b, road) ==
    <<[src |-> a, dst |-> b, road |-> road, bridge |-> FALSE],
      [src |-> b, dst |-> a, road |-> road, bridge |-> FALSE]>>

Stitch ==
    /\ phase = "repair" /\ Len(apart) > 1
    /\ LET pair == NearestPair(apart[2], apart[1])
           road == 1 + Max({links[i].road : i \in DOMAIN links} \cup {-1})
       IN  links' = links \o StitchesFor(pair[1], pair[2], road)
    /\ apart' = RemoveAt(apart, 2)
    /\ UNCHANGED <<planar, streets, nodes, given, parts, turns, phase>>

EndRepair ==
    /\ phase = "repair" /\ Len(apart) = 1
    /\ given' = links
    /\ parts' = [i \in DOMAIN links |-> <<i>>]
    /\ phase' = IF planar THEN "planarize" ELSE "compile"
    /\ UNCHANGED <<planar, streets, nodes, links, apart, turns>>

-----------------------------------------------------------------------------
(* Where along the line from p to q, in parts of whole, the line from r to *)
(* s meets it; and the point.                                              *)
Meeting(p, q, r, s) == [part |-> Cross(From(p, r), From(r, s)), whole |-> Cross(From(p, q), From(r, s))]
Within(m) == (0 < m.part /\ m.part < m.whole) \/ (m.whole < m.part /\ m.part < 0)
Proper(p, q, r, s) == Within(Meeting(p, q, r, s)) /\ Within(Meeting(r, s, p, q))

Size(k) == IF k < 0 THEN - k ELSE k
Portion(d, m) == IF m.whole > 0 THEN (d * m.part) \div m.whole ELSE (d * (- m.part)) \div (- m.whole)
PointAlong(p, q, m) == <<p[1] + Portion(q[1] - p[1], m), p[2] + Portion(q[2] - p[2], m)>>

(* Every two straight lines between places cross in integer coordinates.   *)
ASSUME ExactCrossings ==
    \A a, b, c, d \in Range(Position) :
        LET m == Meeting(a, b, c, d)
        IN  Proper(a, b, c, d) => \A axis \in 1 .. 2 :
                Size((b[axis] - a[axis]) * m.part) % Size(m.whole) = 0

(* The centerline of each road, from its smaller node to its larger one.   *)
Roads == {links[i].road : i \in DOMAIN links}
EndsOf(r) == LET l == CHOOSE l \in Range(links) : l.road = r
             IN  <<Min({l.src, l.dst}), Max({l.src, l.dst})>>
Layer(r) == (CHOOSE l \in Range(links) : l.road = r).bridge
Centerlines ==
    [r \in Roads |-> [start |-> nodes[EndsOf(r)[1]], end |-> nodes[EndsOf(r)[2]], layer |-> Layer(r)]]

CrossProperly(l, m) ==
    /\ l.layer = m.layer
    /\ {l.start, l.end} \cap {m.start, m.end} = {}
    /\ Proper(l.start, l.end, m.start, m.end)

(* Each road with the points where another one crosses it. *)
CrossingsOf(lines) ==
    LET point(l, m) == PointAlong(l.start, l.end, Meeting(l.start, l.end, m.start, m.end))
    IN  UNION {{[of |-> r, point |-> point(lines[r], lines[s])] :
                    s \in {x \in DOMAIN lines : x # r /\ CrossProperly(lines[r], lines[x])}} :
                r \in DOMAIN lines}

(* One node for each crossing point, whatever the layer and however many   *)
(* roads cross in it.                                                      *)
PointsOf(crossings) ==
    Ordered({c.point : c \in crossings},
            LAMBDA p, q : p[1] < q[1] \/ (p[1] = q[1] /\ p[2] < q[2]))

LastNode == Max(DOMAIN nodes)
NodeAt(p, points) == LastNode + CHOOSE k \in DOMAIN points : points[k] = p
NodesWith(points) ==
    [n \in DOMAIN nodes \cup LastNode + 1 .. LastNode + Len(points) |->
        IF n \in DOMAIN nodes THEN nodes[n] ELSE points[n - LastNode]]

(* The nodes along road r. *)
Stops(r, crossings, points) ==
    LET ends == EndsOf(r)
        cuts == {c.point : c \in {x \in crossings : x.of = r}}
        inOrder == Ordered(cuts, LAMBDA p, q : SquaredDistance(nodes[ends[1]], p)
                                                 < SquaredDistance(nodes[ends[1]], q))
    IN  <<ends[1]>> \o [k \in DOMAIN inOrder |-> NodeAt(inOrder[k], points)] \o <<ends[2]>>

(* Mutant: the pieces of a link against its centerline in the order along it. *)
PiecesInRoadOrder(i, stops, first) ==
    LET along == [k \in 1 .. Len(stops) - 1 |->
                    [src |-> stops[k], dst |-> stops[k + 1],
                     road |-> first + k - 1, bridge |-> links[i].bridge]]
        back == [k \in DOMAIN along |-> [along[k] EXCEPT !.src = along[k].dst, !.dst = along[k].src]]
    IN  IF links[i].src < links[i].dst THEN along ELSE back

(* The links that replace link i; first is the new road of its first piece *)
(* from the smaller node on.                                               *)
Pieces(i, stops, first) ==
    LET along == [k \in 1 .. Len(stops) - 1 |->
                    [src |-> stops[k], dst |-> stops[k + 1],
                     road |-> first + k - 1, bridge |-> links[i].bridge]]
        back == [k \in DOMAIN along |-> [along[k] EXCEPT !.src = along[k].dst, !.dst = along[k].src]]
    IN  IF links[i].src < links[i].dst THEN along ELSE Reverse(back)

(* Roads are split in the order of their ids, and so are the links of one. *)
Planarize ==
    /\ phase = "planarize" /\ CrossingsOf(Centerlines) # {}
    /\ LET crossings == CrossingsOf(Centerlines)
           points == PointsOf(crossings)
           stops == [r \in Roads |-> Stops(r, crossings, points)]
           pieceCount == [r \in Roads |-> Len(stops[r]) - 1]
           first == [r \in Roads |-> SumFunctionOnSet(pieceCount, {s \in Roads : s < r})]
           order == Ordered(DOMAIN links,
                            LAMBDA i, j : \/ links[i].road < links[j].road
                                          \/ links[i].road = links[j].road /\ i < j)
           pieces == [k \in DOMAIN order |->
                        Pieces(order[k], stops[links[order[k]].road], first[links[order[k]].road])]
           newIds == [i \in DOMAIN links |->
                        LET k == CHOOSE h \in DOMAIN order : order[h] = i
                            before == MapThenSumSet(LAMBDA h : Len(pieces[h]), 1 .. k - 1)
                        IN  [h \in DOMAIN pieces[k] |-> before + h]]
       IN  /\ links' = FlattenSeq(pieces)
           /\ parts' = [g \in DOMAIN parts |->
                          FlattenSeq([k \in DOMAIN parts[g] |-> newIds[parts[g][k]]])]
           /\ nodes' = NodesWith(points)
    /\ UNCHANGED <<planar, streets, apart, given, turns, phase>>

EndPlanarize ==
    /\ phase = "planarize" /\ CrossingsOf(Centerlines) = {}
    /\ phase' = "compile"
    /\ UNCHANGED <<planar, streets, nodes, links, apart, given, parts, turns>>

-----------------------------------------------------------------------------
(* compile_turn_authority: U_TURN_FORBIDDEN back to where the link began.  *)
CompileTurns ==
    /\ phase = "compile"
    /\ turns' = {t \in (DOMAIN links) \X (DOMAIN links) :
                    links[t[1]].dst = links[t[2]].src /\ links[t[1]].src # links[t[2]].dst}
    /\ phase' = "validate"
    /\ UNCHANGED <<planar, streets, nodes, links, apart, given, parts>>

OneComponent == ReachedFrom(Min(DOMAIN nodes), Around) = DOMAIN nodes
Pairs == {p \in (DOMAIN nodes) \X (DOMAIN nodes) : p[1] # p[2]}
Linked(p) == p[2] \in ReachedFrom(p[1], Onward)

(* What the sampled pairs show depends on the seed: any sample may come.   *)
PassValidation ==
    /\ phase = "validate" /\ OneComponent
    /\ planar => CrossingsOf(Centerlines) = {} /\ \E p \in Pairs : Linked(p)
    /\ phase' = IF planar THEN "quality" ELSE "accepted"
    /\ UNCHANGED <<planar, streets, nodes, links, apart, given, parts, turns>>

FailValidation ==
    /\ phase = "validate"
    /\ ~ (OneComponent /\ (planar => CrossingsOf(Centerlines) = {} /\ \A p \in Pairs : Linked(p)))
    /\ phase' = "invalid"
    /\ UNCHANGED <<planar, streets, nodes, links, apart, given, parts, turns>>

(* The morphology gate measures style, which is not modelled. *)
JudgeQuality ==
    /\ phase = "quality" /\ phase' \in {"accepted", "rejected"}
    /\ UNCHANGED <<planar, streets, nodes, links, apart, given, parts, turns>>

FinalizerNext ==
    \/ Stitch \/ EndRepair \/ Planarize \/ EndPlanarize
    \/ CompileTurns \/ PassValidation \/ FailValidation \/ JudgeQuality

FinalizerSpec == FinalizerInit /\ [][FinalizerNext]_finalizerVars

-----------------------------------------------------------------------------
OverCross(g, h) ==
    LET a == Position[g.src] b == Position[g.dst] c == Position[h.src] d == Position[h.dst]
    IN  Intersect(a, b, c, d)

(* The links that replace g are one straight way from its start to its end.*)
StraightWay(g) ==
    LET p == parts[g]
        ahead(i) == From(nodes[links[i].src], nodes[links[i].dst])
        whole == From(Position[given[g].src], Position[given[g].dst])
    IN  /\ p # <<>> /\ links[Head(p)].src = given[g].src /\ links[Last(p)].dst = given[g].dst
        /\ \A k \in 1 .. Len(p) - 1 : links[p[k]].dst = links[p[k + 1]].src
        /\ \A i \in Range(p) :
            /\ links[i].bridge = given[g].bridge
            /\ Cross(ahead(i), whole) = 0 /\ Dot(ahead(i), whole) > 0

On(g) == UNION {{links[i].src, links[i].dst} : i \in Range(parts[g])}
NewRoads(g) == {links[i].road : i \in Range(parts[g])}

(* Planarization keeps every road: what replaces a link leads straight     *)
(* from its start to its end on its layer, by the roads that lead back     *)
(* where the link has an opposite, and replaces no other link.  Two roads  *)
(* of one layer that cross have a junction, and a road has no new node but *)
(* where another of its layer crosses it.  (The roads of the other layer   *)
(* that cross at that very point go through the same node.)                *)
RoadsKept ==
    phase \in {"compile", "validate", "quality", "accepted"} =>
        /\ \A g \in DOMAIN given : StraightWay(g)
        /\ \A i \in DOMAIN links : Cardinality({g \in DOMAIN given : i \in Range(parts[g])}) = 1
        /\ \A g, h \in DOMAIN given :
            /\ given[g].road = given[h].road => NewRoads(g) = NewRoads(h)
            /\ given[g].road # given[h].road => NewRoads(g) \cap NewRoads(h) = {}
            /\ planar /\ given[g].bridge = given[h].bridge /\ OverCross(given[g], given[h]) =>
                (On(g) \cap On(h)) \ Places # {}
        /\ \A g \in DOMAIN given : \A n \in On(g) \ {given[g].src, given[g].dst} :
            /\ n \notin Places
            /\ \E h \in DOMAIN given :
                n \in On(h) /\ given[g].bridge = given[h].bridge /\ OverCross(given[g], given[h])

TurnsInto == [i \in DOMAIN links |-> {t[2] : t \in {x \in turns : x[1] = i}}]
DrivenTo(n) ==
    {links[j].dst : j \in Reached({i \in DOMAIN links : links[i].src = n}, TurnsInto, Len(links))}

(* Where every street is two-way the network is valid, and a vehicle can   *)
(* go from every node to every other one by permitted turns, however many  *)
(* components were stitched and although nobody may turn back at a node.   *)
EveryPlaceRoutable ==
    (\A r \in streets : Streets[r].twoWay) =>
            /\ phase # "invalid"
            /\ phase = "accepted" => \A p \in Pairs : p[2] \in DrivenTo(p[1])
=============================================================================
