------------------------------ MODULE OsmImport ------------------------------
(***************************************************************************)
(* import_osm_xml_text (src/src/metroflow/map/osm_import.py): the ways of  *)
(* an OSM extract are cut into physical segments at the nodes they share   *)
(* and at the edge of the clip box, and the segments become links in the   *)
(* directions their tags allow.                                            *)
(*                                                                         *)
(* A way is the nodes it refers to, its direction and its lane tags, None  *)
(* where there is no such tag.  A box says which nodes are inside it and   *)
(* which straight lines between two outside nodes run through it; without  *)
(* clip bounds every node is inside.  A point is a node, or the point      *)
(* <<a, b>> where the line from the outside node a to b enters the box.    *)
(* Projection, curve simplification, speeds and layers decide no link.     *)
(***************************************************************************)
EXTENDS Integers, Sequences, FiniteSets, SequencesExt, FiniteSetsExt, Reachability

CONSTANTS
    Extracts,   \* sequences of ways [refs, oneway, total, forward, backward]
    Boxes,      \* records [inside, crossed]
    Policies    \* values of lane_tagging_policy, of "strict" and "osm_wiki"

Untagged == 0

ASSUME OsmAssumption ==
    /\ \A e \in Extracts : e \in Seq(Range(e)) /\ \A w \in Range(e) :
        /\ w.refs \in Seq(Range(w.refs))
        /\ Len(w.refs) >= 2 /\ \A k \in 1 .. Len(w.refs) - 1 : w.refs[k] # w.refs[k + 1]
        /\ w.oneway \in {"both", "forward", "reverse"}
        /\ {w.total, w.forward, w.backward} \subseteq Nat
    /\ Policies \subseteq {"strict", "osm_wiki"}

VARIABLES
    ways,       \* the included ways, by id
    box,        \* clip_bounds_m
    policy,     \* lane_tagging_policy
    read,       \* how many ways were read
    segments,   \* the physical segments they gave
    identities, \* what each compiled node stands for, by node id
    network,    \* the compiled links
    outcome     \* "reading", and then why the import was refused, or "imported"

osmVars == <<ways, box, policy, read, segments, identities, network, outcome>>

OsmStart ==
    /\ read = 0 /\ segments = <<>> /\ outcome = "reading"
    /\ identities = <<>> /\ network = <<>>

OsmInit == ways \in Extracts /\ box \in Boxes /\ policy \in Policies /\ OsmStart

-----------------------------------------------------------------------------
(* _parse_directional_lanes: the lanes of each direction, along the way as *)
(* it will be stored; {} when it raises.                                   *)
Tagged(count) == count # Untagged

OneWayLanes(total, along, against) ==
    LET drivable == IF Tagged(against) /\ ~ Tagged(along) /\ Tagged(total)
                    THEN Max({1, total - against}) ELSE along
        lanes == IF Tagged(drivable) THEN drivable ELSE IF Tagged(total) THEN total ELSE 1
    IN  IF \/ policy = "strict" /\ Tagged(against)
           \/ Tagged(total) /\ lanes # total /\ ~ Tagged(against)
        THEN {} ELSE {<<lanes, 0>>}

OneOr(count) == IF Tagged(count) THEN count ELSE 1

TwoWayLanes(total, forward, backward) ==
    IF ~ Tagged(total) THEN
        IF policy = "strict" /\ Tagged(forward) # Tagged(backward)
        THEN {} ELSE {<<OneOr(forward), OneOr(backward)>>}
    ELSE IF total < 2 THEN
        IF policy = "strict" THEN {} ELSE {<<1, 1>>}
    ELSE
        LET ahead == IF Tagged(forward) THEN forward
                     ELSE IF Tagged(backward) THEN total - backward ELSE (total + 1) \div 2
            back == IF Tagged(backward) THEN backward ELSE total - ahead
        IN  {c \in {<<ahead, back>>} : c[1] >= 1 /\ c[2] >= 1 /\ c[1] + c[2] = total}

DirectionalLanes(w) ==
    CASE w.oneway = "forward" -> OneWayLanes(w.total, w.forward, w.backward)
      [] w.oneway = "reverse" -> OneWayLanes(w.total, w.backward, w.forward)
      [] OTHER -> TwoWayLanes(w.total, w.forward, w.backward)

-----------------------------------------------------------------------------
(* _shared_node_ids: nodes of two ways, or that a way passes twice. *)
Occurrences(n) ==
    {o \in (DOMAIN ways) \X (1 .. Max({Len(ways[i].refs) : i \in DOMAIN ways})) :
        o[2] <= Len(ways[o[1]].refs) /\ ways[o[1]].refs[o[2]] = n}

(* Mutant: nodes that a way passes twice are forgotten. *)
SharedByTwoWays(n) == Cardinality({o[1] : o \in Occurrences(n)}) > 1

Shared(n) == Cardinality(Occurrences(n)) > 1

(* The positions between which a way is cut into parts. *)
SplitIndices(w) ==
    LET last == Len(w.refs)
    IN  {k \in 1 .. last : k \in {1, last} \/ w.refs[1] = w.refs[last] \/ Shared(w.refs[k])}

Parts(w) ==
    LET cuts == SplitIndices(w)
        starts == cuts \ {Len(w.refs)}
        after(k) == Min({c \in cuts : c > k})
        part(k) == SubSeq(w.refs, k, after(k))
    IN  [p \in 1 .. Cardinality(starts) |->
            LET k == CHOOSE c \in starts : Cardinality({d \in starts : d < c}) = p - 1
            IN  IF w.oneway = "reverse" THEN Reverse(part(k)) ELSE part(k)]

(* _clip_segment: what is left of the line from node a to node b, if any. *)
ClipSegment(a, b) ==
    IF a \in box.inside \/ b \in box.inside \/ {a, b} \in box.crossed
    THEN {<<IF a \in box.inside THEN <<a>> ELSE <<a, b>>,
            IF b \in box.inside THEN <<b>> ELSE <<b, a>>>>}
    ELSE {}

(* _clip_polyline: the fragments of a part, and the one being drawn. *)
ClipStep(drawn, line) ==
    LET ended == IF drawn.current = <<>> THEN drawn.fragments
                 ELSE Append(drawn.fragments, drawn.current)
        piece == CHOOSE c \in line : TRUE
    IN  IF line = {} THEN [fragments |-> ended, current |-> <<>>]
        ELSE IF drawn.current # <<>> /\ Last(drawn.current) = piece[1]
        THEN [drawn EXCEPT !.current = Append(@, piece[2])]
        ELSE [fragments |-> ended, current |-> piece]

Fragments(part) ==
    LET lines == [k \in 1 .. Len(part) - 1 |-> ClipSegment(part[k], part[k + 1])]
    IN  ClipStep(FoldLeft(ClipStep, [fragments |-> <<>>, current |-> <<>>], lines), {}).fragments

(* The end of a fragment is the end of its part, or a node of its own. *)
Identity(point, end, own) == IF point = <<end>> THEN <<"osm", end>> ELSE own

SegmentsOf(i, lanes) ==
    LET of(p, part) ==
            LET fragments == Fragments(part)
            IN  [f \in DOMAIN fragments |->
                    [start |-> Identity(Head(fragments[f]), Head(part), <<"clip", i, p, f, "start">>),
                     end |-> Identity(Last(fragments[f]), Last(part), <<"clip", i, p, f, "end">>),
                     lanes |-> lanes]]
        parts == Parts(ways[i])
    IN  FlattenSeq([p \in DOMAIN parts |-> of(p, parts[p])])

(* One way of _build_physical_segments. *)
ReadWay ==
    /\ outcome = "reading" /\ read < Len(ways)
    /\ \E lanes \in DirectionalLanes(ways[read + 1]) :
        segments' = segments \o SegmentsOf(read + 1, lanes)
    /\ read' = read + 1
    /\ UNCHANGED <<ways, box, policy, identities, network, outcome>>

RefuseTags ==
    /\ outcome = "reading" /\ read < Len(ways)
    /\ DirectionalLanes(ways[read + 1]) = {}
    /\ outcome' = "bad tags"
    /\ UNCHANGED <<ways, box, policy, read, segments, identities, network>>

-----------------------------------------------------------------------------
(* _compile_typed_topology.  Node ids follow the order of first use; a     *)
(* segment that ends where it starts is skipped, and then refused.         *)
Knowing(known, identity) == IF identity \in Range(known) THEN known ELSE Append(known, identity)
NodeList == FoldLeft(LAMBDA known, s : Knowing(Knowing(known, s.start), s.end), <<>>, segments)

LinksOfSegment(s) ==
    LET link(from, to, lanes) ==
            IF lanes > 0 THEN <<[src |-> from, dst |-> to, lanes |-> lanes]>> ELSE <<>>
    IN  link(s.start, s.end, s.lanes[1]) \o link(s.end, s.start, s.lanes[2])

ClosedSegments == {k \in DOMAIN segments : segments[k].start = segments[k].end}

RefuseShape ==
    /\ outcome = "reading" /\ read = Len(ways)
    /\ segments = <<>> \/ ClosedSegments # {}
    /\ outcome' = IF segments = <<>> THEN "no geometry" ELSE "closed centerline"
    /\ UNCHANGED <<ways, box, policy, read, segments, identities, network>>

Compile ==
    /\ outcome = "reading" /\ read = Len(ways)
    /\ segments # <<>> /\ ClosedSegments = {}
    /\ identities' = NodeList
    /\ network' = FlattenSeq([k \in DOMAIN segments |-> LinksOfSegment(segments[k])])
    /\ outcome' = "imported"
    /\ UNCHANGED <<ways, box, policy, read, segments>>

OsmNext == ReadWay \/ RefuseTags \/ RefuseShape \/ Compile

OsmSpec == OsmInit /\ [][OsmNext]_osmVars

-----------------------------------------------------------------------------
(* The steps that the tags of the ways allow inside the box. *)
Allowed(n) ==
    UNION {LET w == ways[i]
               next(k, h) == IF w.refs[k] = n /\ w.refs[h] \in box.inside THEN {w.refs[h]} ELSE {}
           IN  UNION {(IF w.oneway = "reverse" THEN {} ELSE next(k, k + 1))
                       \cup (IF w.oneway = "forward" THEN {} ELSE next(k + 1, k)) :
                          k \in 1 .. Len(w.refs) - 1} :
           i \in DOMAIN ways}
RefNodes == UNION {Range(ways[i].refs) : i \in DOMAIN ways}
SourceNodes == {x[2] : x \in {y \in Range(identities) : y[1] = "osm"}}
LinkedTo(x) == {l.dst : l \in {m \in Range(network) : m.src = x}}

LanesAsTagged(w, lanes) ==
    LET ahead == IF w.oneway = "reverse" THEN w.backward ELSE w.forward
        back == IF w.oneway = "reverse" THEN w.forward ELSE w.backward
    IN  /\ Tagged(w.total) => lanes[1] + lanes[2] = w.total
        /\ Tagged(ahead) => lanes[1] = ahead
        /\ Tagged(back) => lanes[2] = back

(* An imported network can be driven exactly as the ways are tagged: from  *)
(* one source node to another if and only if the ways inside the box allow *)
(* it, whatever is split, reversed, closed or clipped.  Under the strict   *)
(* policy every lane tag is honoured.  A network is refused for its shape  *)
(* only when nothing is left of it, or a way comes back to its own node.   *)
DrivesAsTagged ==
    /\ outcome = "imported" =>
        LET allowed == [n \in RefNodes |-> Allowed(n)]
            linkedTo == [x \in Range(identities) |-> LinkedTo(x)]
        IN  \A n \in SourceNodes :
                SourceNodes \cap Reached({n}, allowed, Cardinality(RefNodes))
                  = {m \in SourceNodes :
                        <<"osm", m>> \in Reached({<<"osm", n>>}, linkedTo, Len(identities))}
    /\ outcome = "imported" =>
        /\ policy = "strict" =>
            \A w \in Range(ways) : \A lanes \in DirectionalLanes(w) : LanesAsTagged(w, lanes)
    /\ outcome = "no geometry" => \A n \in RefNodes : Allowed(n) = {}
    /\ outcome = "closed centerline" =>
        \E w \in Range(ways) : Cardinality(Range(w.refs)) < Len(w.refs)

(* "Genuinely contradictory or unparseable tags still fail closed under    *)
(* both policies" (the docstring of OSMImportConfig): a way that claims    *)
(* more lanes in one direction than in both is not imported.               *)
ContradictionsRefused ==
    outcome = "imported" =>
        \A w \in Range(ways) : Tagged(w.total) => w.forward <= w.total /\ w.backward <= w.total
=============================================================================
