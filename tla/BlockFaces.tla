------------------------------ MODULE BlockFaces ------------------------------
(***************************************************************************)
(* _build_block_authority_from_records (src/src/metroflow/city/            *)
(* scalable_blocks.py): the physical roads at ground level are an embedded *)
(* graph; its half-edges are ordered around each junction, followed along  *)
(* their left side into closed boundaries, and grouped into faces.  A face *)
(* on a bridge or a ramp is a void; every other bounded face is a block,   *)
(* with the roads it fronts on and the nodes it is entered from.           *)
(*                                                                         *)
(* A road that is not at ground level is a ramp or a mainline here.        *)
(* A half-edge is a road with a direction (TRUE: as it was drawn).         *)
(* Semantic ids are digests; nothing here depends on their order.          *)
(* The unbounded face is what no bounded face covers.  Interior witnesses, *)
(* tile clips and the fingerprints of the records are left out.            *)
(***************************************************************************)
EXTENDS Plane, Sequences, FiniteSets, SequencesExt, FiniteSetsExt, Reachability

CONSTANTS
    Physical,   \* roads there may be: [ends, points, facility], by road id
    Plans,      \* the sets of them a network may have
    Samples     \* points off every road, one in each half cell of a fine lattice

ASSUME FacesAssumption ==
    /\ IsFiniteSet(DOMAIN Physical)
    /\ \A r \in DOMAIN Physical :
        /\ Physical[r].ends[1] # Physical[r].ends[2] /\ Len(Physical[r].points) >= 2
        /\ Physical[r].facility \in {"surface", "bridge", "ramp", "mainline"}
    /\ Plans \subseteq SUBSET DOMAIN Physical
    /\ Samples \subseteq Int \X Int

VARIABLES
    built,      \* the roads of the network
    succ,       \* next_id: the half-edge that follows each one along its left face
    boundaries, \* the boundaries: [edges, ring, area]
    faces,      \* the bounded faces: [outer, holes, role]
    blocks,     \* the blocks: [face, area, frontage, access]
    survey      \* what the construction does next, or its result

facesVars == <<built, succ, boundaries, faces, blocks, survey>>

-----------------------------------------------------------------------------
(* Half-edges and their order around a junction.                           *)
OnGround(r) == Physical[r].facility \in {"surface", "bridge"}
Embedded == {r \in built : OnGround(r)}
HalfEdges == Embedded \X BOOLEAN
Twin(h) == <<h[1], ~ h[2]>>
Course(h) == IF h[2] THEN Physical[h[1]].points ELSE Reverse(Physical[h[1]].points)
Origin(h) == Physical[h[1]].ends[IF h[2] THEN 1 ELSE 2]
Ray(h) == From(Course(h)[1], Course(h)[2])
Leaving(n) == {h \in HalfEdges : Origin(h) = n}

(* Counterclockwise, from the east on. *)
FirstHalf(v) == v[2] > 0 \/ (v[2] = 0 /\ v[1] >= 0)
RayBefore(u, v) ==
    \/ FirstHalf(u) /\ ~ FirstHalf(v)
    \/ FirstHalf(u) = FirstHalf(v) /\ Cross(u, v) > 0
SameRay(u, v) == Cross(u, v) = 0 /\ Dot(u, v) > 0

LastRay(S) == CHOOSE h \in S : \A g \in S \ {h} : RayBefore(Ray(g), Ray(h))

(* The one before the way back in the order around the destination. *)
Following(h) ==
    LET around == Leaving(Origin(Twin(h)))
        earlier == {g \in around : RayBefore(Ray(g), Ray(Twin(h)))}
    IN  LastRay(IF earlier = {} THEN around ELSE earlier)

-----------------------------------------------------------------------------
(* What the geometry audit rejects.                                        *)
Segments == UNION {{<<r, i>> : i \in 1 .. Len(Physical[r].points) - 1} : r \in Embedded}
StartOf(s) == Physical[s[1]].points[s[2]]
FinishOf(s) == Physical[s[1]].points[s[2] + 1]

OnOpenSegment(p, s) ==
    /\ Cross(From(StartOf(s), FinishOf(s)), From(StartOf(s), p)) = 0
    /\ Dot(From(StartOf(s), p), From(FinishOf(s), p)) < 0
(* Segments that overlap are the same or one ends on the other. *)
Interfere(s, t) ==
    /\ s[1] = t[1] => s[2] > t[2] + 1
    /\ \/ Intersect(StartOf(s), FinishOf(s), StartOf(t), FinishOf(t))
       \/ {StartOf(s), FinishOf(s)} = {StartOf(t), FinishOf(t)}
       \/ \E p \in {StartOf(s), FinishOf(s)} : OnOpenSegment(p, t)
       \/ \E p \in {StartOf(t), FinishOf(t)} : OnOpenSegment(p, s)

Inner(r) == {Physical[r].points[i] : i \in 2 .. Len(Physical[r].points) - 1}
Tips(r) == {Head(Physical[r].points), Last(Physical[r].points)}
Welded(r, s) == Inner(r) \cap (Inner(s) \cup Tips(s)) # {}

DuplicateRays ==
    \E h, g \in HalfEdges : h # g /\ Origin(h) = Origin(g) /\ SameRay(Ray(h), Ray(g))
AuditFails ==
    \/ \E s, t \in Segments : Interfere(s, t)
    \/ \E r \in Embedded : ~ IsInjective(Physical[r].points)
    \/ \E r, s \in Embedded : r # s /\ Welded(r, s)
    \/ \E h, g \in HalfEdges : Course(h)[1] = Course(g)[1] /\ Origin(h) # Origin(g)

-----------------------------------------------------------------------------
RingOf(cycle) == FlattenSeq([k \in DOMAIN cycle |-> Front(Course(cycle[k]))])
AfterIn(ring, k) == ring[(k % Len(ring)) + 1]

(* Twice the area, positive counterclockwise. *)
AreaOf(ring) == MapThenSumSet(LAMBDA k : Cross(ring[k], AfterIn(ring, k)), DOMAIN ring)

(* The boundary h is on; where its ring begins does not matter. *)
BoundaryOf(h) ==
    LET edges == Reached({h}, [g \in HalfEdges |-> {succ[g]}], Cardinality(HalfEdges))
        first == CHOOSE g \in edges : TRUE
        at[k \in Nat] == IF k = 0 THEN first ELSE succ[at[k - 1]]
        ring == RingOf([k \in 1 .. Cardinality(edges) |-> at[k - 1]])
    IN  [edges |-> edges, ring |-> ring, area |-> AreaOf(ring)]
Boundaries == {BoundaryOf(h) : h \in HalfEdges}

(* A boundary that encloses something must be a simple polygon. *)
Traceable(b) == b.area # 0 /\ (b.area > 0 => IsInjective(b.ring))

(* _point_status: whether p is in the interior of ring. *)
OnSide(p, ring, k) ==
    LET a == ring[k] b == AfterIn(ring, k)
    IN  Cross(From(a, b), From(a, p)) = 0 /\ Dot(From(p, a), From(p, b)) <= 0
CrossesRightOf(p, ring, k) ==
    LET a == ring[k] b == AfterIn(ring, k)
    IN  /\ (a[2] > p[2]) # (b[2] > p[2])
        /\ ((p[1] - a[1]) * (b[2] - a[2]) < (p[2] - a[2]) * (b[1] - a[1])) = (b[2] > a[2])
Inside(p, ring) ==
    /\ \A k \in DOMAIN ring : ~ OnSide(p, ring, k)
    /\ Cardinality({k \in DOMAIN ring : CrossesRightOf(p, ring, k)}) % 2 = 1

Outers == {b \in boundaries : b.area > 0}
Enclosing(h) == {o \in Outers : o.area > - h.area /\ \A p \in Range(h.ring) : Inside(p, o.ring)}

(* Mutant: the largest of the boundaries that contain a hole owns it. *)
LargestAround(h) == CHOOSE o \in Enclosing(h) : \A other \in Enclosing(h) : other.area <= o.area

(* The smallest of the boundaries that contain it owns a hole. *)
OwnerOfHole(h) == CHOOSE o \in Enclosing(h) : \A other \in Enclosing(h) : o.area <= other.area
HolesOf(o) == {h \in boundaries \ Outers : Enclosing(h) # {} /\ OwnerOfHole(h) = o}

EdgesOf(f) == f.outer.edges \cup UNION {h.edges : h \in f.holes}
RoadsOf(f) == {h[1] : h \in EdgesOf(f)}
NodesOf(f) == {Origin(h) : h \in EdgesOf(f)}
OnBridge(f) == \E r \in RoadsOf(f) : Physical[r].facility = "bridge"
OnRamp(f) == \E r \in built : Physical[r].facility = "ramp" /\ Range(Physical[r].ends) \cap NodesOf(f) # {}

GroupedFaces == {[outer |-> o, holes |-> HolesOf(o)] : o \in Outers}
WithRole(f) ==
    [outer |-> f.outer, holes |-> f.holes,
     role |-> IF OnBridge(f) THEN "barrier" ELSE IF OnRamp(f) THEN "interchange" ELSE "developable"]

BlockOf(f) ==
    [face |-> f, area |-> f.outer.area + MapThenSumSet(LAMBDA h : h.area, f.holes),
     frontage |-> RoadsOf(f), access |-> NodesOf(f)]

Ends == UNION {Range(Physical[r].ends) : r \in Embedded}
Adjoining(n) == UNION {Range(Physical[r].ends) : r \in {s \in Embedded : n \in Range(Physical[s].ends)}}
Islands ==
    LET adjoining == [n \in Ends |-> Adjoining(n)]
    IN  {Reached({n}, adjoining, Cardinality(Ends)) : n \in Ends}

-----------------------------------------------------------------------------
FacesStart ==
    /\ succ = <<>> /\ boundaries = {} /\ faces = {} /\ blocks = {} /\ survey = "embed"
FacesInit == built \in Plans /\ FacesStart

Refuse == survey' = "refused" /\ UNCHANGED <<built, succ, boundaries, faces, blocks>>

Embed ==
    /\ survey = "embed" /\ ~ DuplicateRays /\ ~ AuditFails
    /\ succ' = [h \in HalfEdges |-> Following(h)]
    /\ survey' = "trace"
    /\ UNCHANGED <<built, boundaries, faces, blocks>>
RefuseGeometry == survey = "embed" /\ (DuplicateRays \/ AuditFails) /\ Refuse

Trace ==
    /\ survey = "trace" /\ \A b \in Boundaries : Traceable(b)
    /\ boundaries' = Boundaries
    /\ survey' = "group"
    /\ UNCHANGED <<built, succ, faces, blocks>>
RefuseCarrier == survey = "trace" /\ (\E b \in Boundaries : ~ Traceable(b)) /\ Refuse

Group ==
    /\ survey = "group" /\ \A f \in GroupedFaces : ~ (OnBridge(f) /\ OnRamp(f))
    /\ faces' = {WithRole(f) : f \in GroupedFaces}
    /\ survey' = "emit"
    /\ UNCHANGED <<built, succ, boundaries, blocks>>
RefuseVoids ==
    survey = "group" /\ (\E f \in GroupedFaces : OnBridge(f) /\ OnRamp(f)) /\ Refuse

Emit ==
    /\ survey = "emit"
    /\ blocks' = {BlockOf(f) : f \in {x \in faces : x.role = "developable"}}
    /\ survey' = "certify"
    /\ UNCHANGED <<built, succ, boundaries, faces>>

Planar == Cardinality(Ends) - Cardinality(Embedded) + Cardinality(faces) = Cardinality(Islands)

(* The authority is refused at last if it breaks Euler's formula. *)
Certify ==
    /\ survey = "certify"
    /\ survey' = IF Planar THEN "accepted" ELSE "not_planar"
    /\ UNCHANGED <<built, succ, boundaries, faces, blocks>>

FacesNext ==
    \/ Embed \/ RefuseGeometry \/ Trace \/ RefuseCarrier \/ Group \/ RefuseVoids \/ Emit \/ Certify
-----------------------------------------------------------------------------
(* Samples one can go between without crossing a road: the lattice has     *)
(* cells of three by three, each cut in two by its rising diagonal.        *)
Steps == {<<-1, 1>>, <<1, -1>>, <<2, 1>>, <<-2, -1>>, <<1, 2>>, <<-1, -2>>}
OpenTo(p) ==
    {q \in Samples \cap {<<p[1] + d[1], p[2] + d[2]>> : d \in Steps} :
        \A s \in Segments : ~ Intersect(p, q, StartOf(s), FinishOf(s))}

FacesAt(p) == {f \in faces : Inside(p, f.outer.ring) /\ \A h \in f.holes : ~ Inside(p, h.ring)}

(* The sample on the left of the middle of the first segment of h. *)
LeftOf(h) ==
    LET a == Course(h)[1] b == Course(h)[2]
        off(p) == Dot(From(p, a), From(p, b))
        left == {p \in Samples : Cross(Ray(h), From(a, p)) > 0}
    IN  CHOOSE p \in left : off(p) = Min({off(q) : q \in left})

(* The faces are what the roads divide the plane into: no point is in two  *)
(* of them, one can go from every point of a face to every other one, and  *)
(* into another face only over a road; the face a half-edge is listed with *)
(* is the land on its left; and the area of a block is that of its land,   *)
(* whatever islands of roads lie in it.  The Euler check never fails.      *)
FacesAreRegions ==
    /\ survey # "not_planar"
    /\ survey = "certify" =>
        LET at == [p \in Samples |-> FacesAt(p)]
            Land(v) == {p \in Samples : at[p] = v}
            openTo == [p \in Samples |-> OpenTo(p)]
        IN  /\ \A p \in Samples : Cardinality(at[p]) <= 1 /\ \A q \in OpenTo(p) : at[q] = at[p]
            /\ \A v \in Range(at) :
                Reached({CHOOSE p \in Samples : at[p] = v}, openTo, Cardinality(Land(v))) = Land(v)
            /\ \A h \in HalfEdges : at[LeftOf(h)] = {f \in faces : h \in EdgesOf(f)}
            /\ \A b \in blocks : b.area = 9 * Cardinality(Land({b.face}))
=============================================================================
