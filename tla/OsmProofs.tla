------------------------------ MODULE OsmProofs ------------------------------
(***************************************************************************)
(* An imported network is driven exactly as its ways are tagged            *)
(* (DrivesAsTagged), whatever the extract, the clip box and the policy.    *)
(*                                                                         *)
(* What a fold makes of a sequence is proved by sets of its first indices  *)
(* (FoldExists), for the fragments of a part (FragmentsAre) and for the    *)
(* list of nodes (NodeListIs).  A part is the run of a way between two     *)
(* cuts, and no node within it has another place in any way (InnerOnce):   *)
(* it is come to along its part only.  So a part that is one segment from  *)
(* its first node to its last lies inside the box, and the other way round *)
(* (SegmentIsDrawn, InsideIsSegment), and what a clipped end belongs to is *)
(* one segment (ClippedOnce).                                              *)
(*                                                                         *)
(* Both directions then go by closed sets.  The links never leave the      *)
(* allowed source nodes and the clipped ends beside them (Surroundings);   *)
(* the allowed steps never leave the source nodes that are driven to and   *)
(* the nodes on the way from them (Carried).                               *)
(***************************************************************************)
EXTENDS OsmImport, CityProofs

-----------------------------------------------------------------------------
(* The library's fold over a sequence takes its elements one by one.       *)

(* Removing the greatest makes a set of numbers smaller. *)
LEMMA GreatestRemoved ==
    ASSUME NEW D, IsFiniteSet(D), D \in SUBSET Nat, NEW T \in SUBSET D, T # {}
    PROVE  /\ Max(T) \in T /\ T \ {Max(T)} \in SUBSET D
           /\ Cardinality(T) \in Nat \ {0}
           /\ Cardinality(T \ {Max(T)}) = Cardinality(T) - 1
<1>1. IsFiniteSet(T) /\ Cardinality(T) \in Nat
  BY FS_Subset, FS_CardinalityType
<1>2. \A x \in T : x \in Int
  OBVIOUS
<1>3. Max(T) \in T
  BY <1>1, <1>2, MaxAbove
<1> QED BY <1>1, <1>3, FS_RemoveElement, FS_EmptySet

FoldStep(base, st, g, T) == IF T = {} THEN base ELSE st[<<Max(T), g[T \ {Max(T)}]>>]
FoldsOver(g, base, st, D) == g = [T \in SUBSET D |-> FoldStep(base, st, g, T)]

(* The recursion behind a fold has a solution. *)
LEMMA FoldExists ==
    ASSUME NEW base, NEW st, NEW D, IsFiniteSet(D), D \in SUBSET Nat
    PROVE  \E g : FoldsOver(g, base, st, D)
<1> DEFINE upTo(n) == {T \in SUBSET D : Cardinality(T) <= n}
           solves(g, n) == g = [T \in upTo(n) |-> FoldStep(base, st, g, T)]
           unsolved == {n \in Nat : ~ \E g : solves(g, n)}
<1>1. \A T \in SUBSET D : IsFiniteSet(T) /\ Cardinality(T) \in Nat
  BY FS_Subset, FS_CardinalityType
<1>2. unsolved = {}
  <2> SUFFICES ASSUME unsolved # {} PROVE FALSE
    OBVIOUS
  <2>1. PICK n \in unsolved : \A k \in unsolved : n <= k
    BY LeastExists
  <2>2. n # 0
    <3>1. solves([T \in upTo(0) |-> base], 0)
      <4>1. \A T \in upTo(0) : T = {}
        BY <1>1, FS_EmptySet
      <4> QED BY <4>1 DEF FoldStep
    <3> QED BY <2>1, <3>1
  <2>3. n - 1 \in Nat /\ n - 1 \notin unsolved
    <3>1. n \in Nat
      OBVIOUS
    <3> HIDE DEF unsolved
    <3> QED BY <2>1, <2>2, <3>1
  <2>4. PICK g : solves(g, n - 1)
    BY <2>3
  <2> DEFINE h == [T \in upTo(n) |-> FoldStep(base, st, g, T)]
  <2>5. ASSUME NEW T \in upTo(n) PROVE FoldStep(base, st, g, T) = FoldStep(base, st, h, T)
    <3>1. CASE T = {}
      BY <3>1 DEF FoldStep
    <3>2. CASE T # {}
      <4> DEFINE rest == T \ {Max(T)}
      <4>1. rest \in upTo(n - 1) /\ rest \in upTo(n)
        <5>1. T \in SUBSET D /\ Cardinality(T) <= n /\ n \in Nat
          OBVIOUS
        <5>2. /\ Max(T) \in T /\ rest \in SUBSET D /\ Cardinality(T) \in Nat \ {0}
              /\ Cardinality(rest) = Cardinality(T) - 1
          BY <3>2, <5>1, GreatestRemoved
        <5>3. Cardinality(rest) <= n - 1 /\ Cardinality(rest) <= n
          BY <5>1, <5>2
        <5> QED BY <5>2, <5>3
      <4>2. g[rest] = FoldStep(base, st, g, rest) /\ h[rest] = FoldStep(base, st, g, rest)
        BY <2>4, <4>1
      <4> QED BY <3>2, <4>2 DEF FoldStep
    <3> QED BY <3>1, <3>2
  <2>6. solves(h, n)
    BY <2>5
  <2> QED BY <2>1, <2>6
<1>3. upTo(Cardinality(D)) = SUBSET D
  BY <1>1, FS_Subset
<1>4. Cardinality(D) \in Nat
  BY FS_CardinalityType
<1>5. PICK g : solves(g, Cardinality(D))
  BY <1>2, <1>4
<1>6. g = [T \in SUBSET D |-> FoldStep(base, st, g, T)]
  <2> HIDE DEF upTo
  <2> QED BY <1>3, <1>5
<1> QED BY <1>6 DEF FoldsOver

(* It stays within the values of the step. *)
LEMMA FoldWithin ==
    ASSUME NEW A, NEW base \in A, NEW D, IsFiniteSet(D), D \in SUBSET Nat, NEW st \in [D \X A -> A],
           NEW g, FoldsOver(g, base, st, D), NEW T \in SUBSET D
    PROVE  g[T] \in A
<1> DEFINE bad == {S \in SUBSET D : g[S] \notin A}
<1>1. bad = {}
  <2> SUFFICES ASSUME bad # {} PROVE FALSE
    OBVIOUS
  <2>1. PICK S \in bad : \A U \in bad : Cardinality(S) <= Cardinality(U)
    BY SmallestExists
  <2>2. g[S] = FoldStep(base, st, g, S)
    BY DEF FoldsOver
  <2>3. S # {}
    BY <2>2 DEF FoldStep
  <2> DEFINE rest == S \ {Max(S)}
  <2>4. Max(S) \in D /\ rest \in SUBSET D /\ Cardinality(S) \in Nat \ {0} /\ Cardinality(rest) = Cardinality(S) - 1
    BY <2>3, GreatestRemoved
  <2>5. rest \notin bad
    <3> HIDE DEF bad, rest
    <3> QED BY <2>1, <2>4
  <2>6. g[rest] \in A
    BY <2>4, <2>5
  <2>7. g[S] = st[<<Max(S), g[rest]>>]
    BY <2>2, <2>3 DEF FoldStep
  <2> QED BY <2>4, <2>6, <2>7
<1> QED BY <1>1

(* The greatest of the first k numbers, and what is left without it. *)
LEMMA FirstNumbers ==
    ASSUME NEW k \in Nat \ {0}
    PROVE  /\ 1 .. k # {} /\ Max(1 .. k) = k /\ (1 .. k) \ {k} = 1 .. k - 1
<1>1. IsFiniteSet(1 .. k)
  BY FS_Interval
<1>2. k \in 1 .. k /\ \A x \in 1 .. k : x \in Int
  OBVIOUS
<1>3. Max(1 .. k) \in 1 .. k /\ \A x \in 1 .. k : x <= Max(1 .. k)
  BY <1>1, <1>2, MaxAbove
<1>4. Max(1 .. k) <= k /\ k <= Max(1 .. k) /\ Max(1 .. k) \in Nat
  BY <1>2, <1>3
<1>5. (1 .. k) \ {k} = 1 .. k - 1
  OBVIOUS
<1> QED BY <1>2, <1>4, <1>5

-----------------------------------------------------------------------------
(* The fragments of a part, drawn line by line.                            *)
Undrawn == [fragments |-> <<>>, current |-> <<>>]
DrawStep(lines, g, T) == IF T = {} THEN Undrawn ELSE ClipStep(g[T \ {Max(T)}], lines[Max(T)])
Draws(lines) == CHOOSE g : g = [T \in SUBSET DOMAIN lines |-> DrawStep(lines, g, T)]

LEMMA DrawnIsFold ==
    ASSUME NEW lines
    PROVE  FoldLeft(ClipStep, [fragments |-> <<>>, current |-> <<>>], lines) = Draws(lines)[DOMAIN lines]
BY DEF FoldLeft, MapThenFoldSet, Draws, DrawStep, Undrawn

(* Each line is drawn after the ones before it. *)
LEMMA DrawsInOrder ==
    ASSUME NEW n \in Nat, NEW lines, DOMAIN lines = 1 .. n, NEW A, Undrawn \in A,
           \A x \in A : \A k \in 1 .. n : ClipStep(x, lines[k]) \in A
    PROVE  /\ Draws(lines)[{}] = Undrawn
           /\ \A k \in 1 .. n : Draws(lines)[1 .. k] = ClipStep(Draws(lines)[1 .. k - 1], lines[k])
<1>1. PICK D : D = 1 .. n
  OBVIOUS
<1>2. IsFiniteSet(D) /\ D \in SUBSET Nat
  BY <1>1, FS_Interval
<1> DEFINE st == [p \in D \X A |-> ClipStep(p[2], lines[p[1]])]
<1>3. st \in [D \X A -> A]
  BY <1>1
<1>4. \A k \in D : \A x \in A : st[<<k, x>>] = ClipStep(x, lines[k])
  OBVIOUS
<1> HIDE DEF st
<1>5. PICK g : FoldsOver(g, Undrawn, st, D)
  BY <1>2, FoldExists
<1>6. \A T \in SUBSET D : g[T] \in A
  BY <1>2, <1>3, <1>5, FoldWithin
<1>7. \A T \in SUBSET D : FoldStep(Undrawn, st, g, T) = DrawStep(lines, g, T)
  <2> SUFFICES ASSUME NEW T \in SUBSET D, T # {}
               PROVE  FoldStep(Undrawn, st, g, T) = DrawStep(lines, g, T)
    BY DEF FoldStep, DrawStep
  <2>1. Max(T) \in D /\ T \ {Max(T)} \in SUBSET D
    BY <1>2, GreatestRemoved
  <2>2. st[<<Max(T), g[T \ {Max(T)}]>>] = ClipStep(g[T \ {Max(T)}], lines[Max(T)])
    BY <1>4, <1>6, <2>1
  <2> QED BY <2>2 DEF FoldStep, DrawStep
<1>8. g = [T \in SUBSET DOMAIN lines |-> DrawStep(lines, g, T)]
  BY <1>1, <1>5, <1>7 DEF FoldsOver
<1>9. PICK h : h = Draws(lines)
  OBVIOUS
<1>10. h = [T \in SUBSET DOMAIN lines |-> DrawStep(lines, h, T)]
  BY <1>8, <1>9 DEF Draws
<1>11. \A T \in SUBSET D : h[T] = DrawStep(lines, h, T)
  BY <1>1, <1>10
<1>12. h[{}] = Undrawn
  BY <1>11 DEF DrawStep
<1>13. ASSUME NEW k \in 1 .. n PROVE h[1 .. k] = ClipStep(h[1 .. k - 1], lines[k])
  <2>1. 1 .. k # {} /\ Max(1 .. k) = k /\ (1 .. k) \ {k} = 1 .. k - 1
    BY FirstNumbers
  <2>2. 1 .. k \in SUBSET D
    BY <1>1
  <2> QED BY <1>11, <2>1, <2>2 DEF DrawStep
<1> QED BY <1>9, <1>12, <1>13

(* The nodes of a compiled network, in the order of their first use. *)
KnowStep(g, T) ==
    IF T = {} THEN <<>>
    ELSE Knowing(Knowing(g[T \ {Max(T)}], segments[Max(T)].start), segments[Max(T)].end)
Knows == CHOOSE g : g = [T \in SUBSET DOMAIN segments |-> KnowStep(g, T)]

LEMMA NodesAreFold == NodeList = Knows[DOMAIN segments]
BY DEF NodeList, FoldLeft, MapThenFoldSet, Knows, KnowStep

(* What is seen of the line from a to b, and where it begins.              *)
Seen(a, b) == a \in box.inside \/ b \in box.inside \/ {a, b} \in box.crossed
Entry(a, b) == IF a \in box.inside THEN <<a>> ELSE <<a, b>>
Ended(d) == IF d.current = <<>> THEN d.fragments ELSE Append(d.fragments, d.current)
Continues(d, a, b) == d.current # <<>> /\ Last(d.current) = Entry(a, b)

LEMMA StepIs ==
    ASSUME NEW d, NEW a, NEW b
    PROVE  ClipStep(d, ClipSegment(a, b)) =
              IF ~ Seen(a, b) THEN [fragments |-> Ended(d), current |-> <<>>]
              ELSE IF Continues(d, a, b) THEN [d EXCEPT !.current = Append(@, Entry(b, a))]
              ELSE [fragments |-> Ended(d), current |-> <<Entry(a, b), Entry(b, a)>>]
<1> DEFINE line == ClipSegment(a, b)
           piece == CHOOSE c \in line : TRUE
<1>1. ClipStep(d, line) =
        IF line = {} THEN [fragments |-> Ended(d), current |-> <<>>]
        ELSE IF d.current # <<>> /\ Last(d.current) = piece[1]
        THEN [d EXCEPT !.current = Append(@, piece[2])]
        ELSE [fragments |-> Ended(d), current |-> piece]
  BY DEF ClipStep, Ended
<1>2. line = IF Seen(a, b) THEN {<<Entry(a, b), Entry(b, a)>>} ELSE {}
  BY DEF ClipSegment, Seen, Entry
<1>3. CASE ~ Seen(a, b)
  BY <1>1, <1>2, <1>3
<1>4. CASE Seen(a, b)
  <2>1. line # {} /\ \A c \in line : c = <<Entry(a, b), Entry(b, a)>>
    BY <1>2, <1>4
  <2>2. piece = <<Entry(a, b), Entry(b, a)>>
    BY <2>1
  <2>3. PICK c : c = piece
    OBVIOUS
  <2>5. ClipStep(d, line) =
          IF d.current # <<>> /\ Last(d.current) = c[1]
          THEN [d EXCEPT !.current = Append(@, c[2])]
          ELSE [fragments |-> Ended(d), current |-> c]
    BY <1>1, <2>1, <2>3
  <2>6. c = <<Entry(a, b), Entry(b, a)>>
    BY <2>2, <2>3
  <2>7. c[1] = Entry(a, b) /\ c[2] = Entry(b, a)
    BY <2>6
  <2> HIDE DEF line, piece
  <2> QED BY <1>4, <2>5, <2>6, <2>7 DEF Continues, line
<1> QED BY <1>3, <1>4

(* Points of a part of nodes of V, what is drawn of it, and its lines.     *)
Points(V) == {<<x>> : x \in V \cap box.inside} \cup (V \X V)
Strokes(V) == Seq(Points(V)) \ {<<>>}
Drawn(V) == [fragments : Seq(Strokes(V)), current : Seq(Points(V))]
Lines(P) == [k \in 1 .. Len(P) - 1 |-> ClipSegment(P[k], P[k + 1])]

LEMMA EntryIsPoint ==
    ASSUME NEW V, NEW a \in V, NEW b \in V
    PROVE  Entry(a, b) \in Points(V)
BY DEF Entry, Points

LEMMA EndedIsStrokes ==
    ASSUME NEW V, NEW d \in Drawn(V)
    PROVE  Ended(d) \in Seq(Strokes(V))
BY DEF Ended, Drawn, Strokes

LEMMA StepIsDrawn ==
    ASSUME NEW V, NEW d \in Drawn(V), NEW a \in V, NEW b \in V
    PROVE  ClipStep(d, ClipSegment(a, b)) \in Drawn(V)
<1> DEFINE e == ClipStep(d, ClipSegment(a, b))
<1>1. PICK p, q : p = Entry(a, b) /\ q = Entry(b, a)
  OBVIOUS
<1>2. p \in Points(V) /\ q \in Points(V)
  BY <1>1, EntryIsPoint
<1>3. Ended(d) \in Seq(Strokes(V))
  BY EndedIsStrokes
<1>4. d.current \in Seq(Points(V)) /\ d.fragments \in Seq(Strokes(V))
  BY DEF Drawn
<1>5. <<>> \in Seq(Points(V)) /\ <<p, q>> \in Seq(Points(V)) /\ Append(d.current, q) \in Seq(Points(V))
  BY <1>2, <1>4, PairRange
<1>6. \/ e = [fragments |-> Ended(d), current |-> <<>>]
      \/ e = [d EXCEPT !.current = Append(@, q)]
      \/ e = [fragments |-> Ended(d), current |-> <<p, q>>]
  BY <1>1, StepIs
<1> HIDE DEF e
<1>7. [d EXCEPT !.current = Append(@, q)] \in Drawn(V)
  BY <1>5 DEF Drawn
<1>8. /\ [fragments |-> Ended(d), current |-> <<>>] \in Drawn(V)
      /\ [fragments |-> Ended(d), current |-> <<p, q>>] \in Drawn(V)
  BY <1>3, <1>5 DEF Drawn
<1> QED BY <1>6, <1>7, <1>8 DEF e


(* What is drawn of P after k lines.                                       *)
DrawnUpTo(P, k) == Draws(Lines(P))[1 .. k]

LEMMA DrawnSteps ==
    ASSUME NEW V, NEW P \in Seq(V), Len(P) >= 2
    PROVE  /\ DrawnUpTo(P, 0) = Undrawn
           /\ \A k \in 1 .. Len(P) - 1 :
                DrawnUpTo(P, k) = ClipStep(DrawnUpTo(P, k - 1), ClipSegment(P[k], P[k + 1]))
           /\ \A k \in 0 .. Len(P) - 1 : DrawnUpTo(P, k) \in Drawn(V)
           /\ Fragments(P) = Ended(DrawnUpTo(P, Len(P) - 1))
<1>1. PICK n \in Nat : n = Len(P) - 1
  OBVIOUS
<1>2. \A k \in 1 .. n : P[k] \in V /\ P[k + 1] \in V
  BY <1>1
<1>3. PICK lines : lines = Lines(P)
  OBVIOUS
<1>4. DOMAIN lines = 1 .. n /\ \A k \in 1 .. n : lines[k] = ClipSegment(P[k], P[k + 1])
  BY <1>1, <1>3 DEF Lines
<1>5. Undrawn \in Drawn(V)
  BY DEF Undrawn, Drawn
<1>6. \A x \in Drawn(V) : \A k \in 1 .. n : ClipStep(x, lines[k]) \in Drawn(V)
  BY <1>2, <1>4, StepIsDrawn
<1>7. /\ Draws(lines)[{}] = Undrawn
      /\ \A k \in 1 .. n : Draws(lines)[1 .. k] = ClipStep(Draws(lines)[1 .. k - 1], lines[k])
  BY <1>4, <1>5, <1>6, DrawsInOrder
<1>8. 1 .. 0 = {}
  OBVIOUS
<1>9. /\ DrawnUpTo(P, 0) = Undrawn
      /\ \A k \in 1 .. n : DrawnUpTo(P, k) = ClipStep(DrawnUpTo(P, k - 1), lines[k])
  BY <1>3, <1>7, <1>8 DEF DrawnUpTo
<1>10. \A k \in 0 .. n : DrawnUpTo(P, k) \in Drawn(V)
  <2> DEFINE bad == {k \in Nat : k <= n /\ DrawnUpTo(P, k) \notin Drawn(V)}
  <2>1. bad = {}
    <3> SUFFICES ASSUME bad # {} PROVE FALSE
      OBVIOUS
    <3>1. PICK k \in bad : \A j \in bad : k <= j
      BY LeastExists
    <3>2. k \in Nat /\ k <= n /\ DrawnUpTo(P, k) \notin Drawn(V)
      OBVIOUS
    <3>3. k # 0
      BY <1>5, <1>9, <3>2
    <3>4. k - 1 \in Nat /\ k - 1 <= n /\ k \in 1 .. n
      BY <3>2, <3>3
    <3>5. k - 1 \notin bad
      <4> HIDE DEF bad
      <4> QED BY <3>1, <3>2, <3>4
    <3>6. DrawnUpTo(P, k - 1) \in Drawn(V)
      BY <3>4, <3>5
    <3> QED BY <1>6, <1>9, <3>2, <3>4, <3>6
  <2> QED BY <2>1
<1>11. Fragments(P) = ClipStep(FoldLeft(ClipStep, [fragments |-> <<>>, current |-> <<>>], lines), {}).fragments
  BY <1>3 DEF Fragments, Lines
<1>12. FoldLeft(ClipStep, [fragments |-> <<>>, current |-> <<>>], lines) = Draws(lines)[DOMAIN lines]
  BY DrawnIsFold
<1>13. Draws(lines)[DOMAIN lines] = DrawnUpTo(P, n)
  BY <1>3, <1>4 DEF DrawnUpTo
<1>14. \A d : ClipStep(d, {}).fragments = Ended(d)
  BY DEF ClipStep, Ended
<1>15. Fragments(P) = Ended(DrawnUpTo(P, n))
  BY <1>11, <1>12, <1>13, <1>14
<1> QED BY <1>1, <1>4, <1>9, <1>10, <1>15

(* A part that does not turn back at once.                                 *)
NoBack(P) == \A j \in 2 .. Len(P) - 1 : P[j - 1] # P[j + 1]

(* What a fragment tells of the part: one that is under way ends where the *)
(* last line left off, one that is done ends at the edge of the box.       *)
UnderWay(P, d, k) ==
    /\ d.current # <<>> => k >= 1 /\ Last(d.current) = Entry(P[k + 1], P[k])
    /\ k >= 1 /\ P[k + 1] \in box.inside => d.current # <<>>
Clipped(d) == \A f \in Range(d.fragments) : \A x : Last(f) # <<x>>
Whole(P, d, k) ==
    (\A j \in 1 .. k + 1 : P[j] \in box.inside) =>
        d.fragments = <<>> /\ (k >= 1 => Head(d.current) = <<P[1]>>)
FromStart(P, d, k) ==
    d.current # <<>> /\ Head(d.current) = <<P[1]>> => \A j \in 1 .. k : P[j] \in box.inside
Something(P, d, k) ==
    (\E j \in 1 .. k : Seen(P[j], P[j + 1])) => d.fragments # <<>> \/ d.current # <<>>
StrokeInv(P, d, k) ==
    /\ UnderWay(P, d, k) /\ Clipped(d) /\ Whole(P, d, k) /\ Something(P, d, k)
    /\ NoBack(P) => FromStart(P, d, k)

LEMMA StrokesStart ==
    ASSUME NEW P
    PROVE  StrokeInv(P, Undrawn, 0)
<1>1. Undrawn.fragments = <<>> /\ Undrawn.current = <<>>
  BY DEF Undrawn
<1>2. Range(<<>>) = {}
  BY DEF Range
<1> QED BY <1>1, <1>2 DEF StrokeInv, UnderWay, Clipped, Whole, Something, FromStart

LEMMA AppendEnds ==
    ASSUME NEW T, NEW s \in Seq(T), s # <<>>, NEW x \in T
    PROVE  /\ Append(s, x) # <<>> /\ Head(Append(s, x)) = Head(s) /\ Last(Append(s, x)) = x
           /\ s[Len(s)] \in T /\ Last(s) = s[Len(s)] /\ Head(s) = s[1] /\ Len(s) >= 1
BY DEF Last

LEMMA PairEnds ==
    ASSUME NEW p, NEW q
    PROVE  <<p, q>> # <<>> /\ Head(<<p, q>>) = p /\ Last(<<p, q>>) = q /\ \A x : <<p, q>> # <<x>>
<1>1. Head(<<p, q>>) = p /\ Len(<<p, q>>) = 2 /\ <<p, q>>[2] = q
  OBVIOUS
<1>2. \A x : Len(<<x>>) = 1
  OBVIOUS
<1> QED BY <1>1, <1>2 DEF Last

LEMMA AppendRange ==
    ASSUME NEW T, NEW s \in Seq(T), NEW c \in T
    PROVE  /\ Append(s, c) # <<>> /\ Range(Append(s, c)) = Range(s) \cup {c}
           /\ s = <<>> => Append(s, c) = <<c>>
<1>1. PICK n \in Nat : n = Len(s) /\ DOMAIN s = 1 .. n
  OBVIOUS
<1>2. PICK e : e = Append(s, c)
  OBVIOUS
<1>3. /\ e \in Seq(T) /\ e # <<>> /\ Len(e) = n + 1 /\ e[n + 1] = c
      /\ \A j \in 1 .. n : e[j] = s[j]
  BY <1>1, <1>2, AppendProperties
<1>4. DOMAIN e = 1 .. n + 1
  BY <1>3
<1>5. Range(e) = Range(s) \cup {c}
  BY <1>1, <1>3, <1>4 DEF Range
<1>6. s = <<>> => e = <<c>>
  BY <1>1, <1>3
<1> QED BY <1>2, <1>3, <1>5, <1>6

LEMMA EndedRange ==
    ASSUME NEW V, NEW d \in Drawn(V)
    PROVE  /\ d.current = <<>> => Ended(d) = d.fragments
           /\ d.current # <<>> => /\ Ended(d) # <<>>
                                  /\ Range(Ended(d)) = Range(d.fragments) \cup {d.current}
                                  /\ d.fragments = <<>> => Ended(d) = <<d.current>>
<1>1. CASE d.current = <<>>
  BY <1>1 DEF Ended
<1>2. CASE d.current # <<>>
  <2>1. PICK s, c : s = d.fragments /\ c = d.current
    OBVIOUS
  <2>2. s \in Seq(Strokes(V)) /\ c \in Strokes(V) /\ Ended(d) = Append(s, c)
    BY <1>2, <2>1 DEF Ended, Drawn, Strokes
  <2> QED BY <1>2, <2>1, <2>2, AppendRange
<1> QED BY <1>1, <1>2

(* A fragment that does not go on ends outside the box. *)
LEMMA EndedClipped ==
    ASSUME NEW V, NEW P \in Seq(V), NEW k \in 1 .. Len(P) - 1, NEW d \in Drawn(V),
           UnderWay(P, d, k - 1), Clipped(d), d.current # <<>> => P[k] \notin box.inside, NEW e,
           e.fragments = Ended(d)
    PROVE  Clipped(e)
<1>1. CASE d.current = <<>>
  BY <1>1, EndedRange DEF Clipped
<1>2. CASE d.current # <<>>
  <2>1. Last(d.current) = Entry(P[k], P[k - 1])
    BY <1>2 DEF UnderWay
  <2>2. Last(d.current) = <<P[k], P[k - 1]>>
    BY <1>2, <2>1 DEF Entry
  <2>3. \A x : Last(d.current) # <<x>>
    BY <2>2, PairEnds
  <2> QED BY <1>2, <2>3, EndedRange DEF Clipped
<1> QED BY <1>1, <1>2

LEMMA StrokesStep ==
    ASSUME NEW V, NEW P \in Seq(V), NEW k \in 1 .. Len(P) - 1, NEW d \in Drawn(V),
           StrokeInv(P, d, k - 1)
    PROVE  StrokeInv(P, ClipStep(d, ClipSegment(P[k], P[k + 1])), k)
<1>1. PICK a, b : a = P[k] /\ b = P[k + 1]
  OBVIOUS
<1>2. PICK e : e = ClipStep(d, ClipSegment(a, b))
  OBVIOUS
<1>3. a \in V /\ b \in V /\ k \in Nat /\ k >= 1 /\ k + 1 <= Len(P) /\ (k - 1) + 1 = k
  BY <1>1
<1>4. d.current \in Seq(Points(V)) /\ d.fragments \in Seq(Strokes(V)) /\ d = [fragments |-> d.fragments, current |-> d.current]
  BY DEF Drawn
<1>5. UnderWay(P, d, k - 1) /\ Clipped(d) /\ Whole(P, d, k - 1) /\ Something(P, d, k - 1)
  BY DEF StrokeInv
<1>6. Entry(b, a) = IF b \in box.inside THEN <<b>> ELSE <<b, a>>
  BY DEF Entry
<1>7. a \in box.inside \/ b \in box.inside => Seen(a, b)
  BY DEF Seen
<1>8. k = 1 => d.current = <<>>
  BY <1>5 DEF UnderWay
<1>9. ~ Continues(d, a, b) /\ k # 1 => a \notin box.inside
  <2> SUFFICES ASSUME k # 1, a \in box.inside PROVE Continues(d, a, b)
    OBVIOUS
  <2>1. k - 1 >= 1 /\ P[(k - 1) + 1] = a
    BY <1>1, <1>3
  <2>2. d.current # <<>> /\ Last(d.current) = Entry(a, P[k - 1])
    BY <1>5, <2>1 DEF UnderWay
  <2> QED BY <2>2 DEF Continues, Entry
<1>10. ~ Continues(d, a, b) /\ d.current # <<>> => a \notin box.inside
  BY <1>8, <1>9
<1>11. (\A j \in 1 .. k + 1 : P[j] \in box.inside) =>
         /\ a \in box.inside /\ b \in box.inside /\ \A j \in 1 .. (k - 1) + 1 : P[j] \in box.inside
  BY <1>1, <1>3
<1>12. CASE ~ Seen(a, b)
  <2>1. e = [fragments |-> Ended(d), current |-> <<>>]
    BY <1>2, <1>12, StepIs
  <2>2. e.fragments = Ended(d) /\ e.current = <<>>
    BY <2>1
  <2>3. a \notin box.inside /\ b \notin box.inside
    BY <1>7, <1>12
  <2>4. Clipped(e)
    BY <1>1, <1>5, <2>2, <2>3, EndedClipped
  <2>5. UnderWay(P, e, k) /\ Whole(P, e, k) /\ FromStart(P, e, k)
    BY <1>1, <1>11, <2>2, <2>3 DEF UnderWay, Whole, FromStart
  <2>6. Something(P, e, k)
    <3> SUFFICES ASSUME NEW j \in 1 .. k, Seen(P[j], P[j + 1]) PROVE e.fragments # <<>>
      BY DEF Something
    <3>1. j \in 1 .. k - 1
      BY <1>1, <1>3, <1>12
    <3>2. d.fragments # <<>> \/ d.current # <<>>
      BY <1>5, <3>1 DEF Something
    <3> QED BY <2>2, <3>2, EndedRange
  <2> QED BY <1>1, <1>2, <2>4, <2>5, <2>6 DEF StrokeInv
<1>13. CASE Seen(a, b) /\ Continues(d, a, b)
  <2>1. e = [d EXCEPT !.current = Append(@, Entry(b, a))]
    BY <1>2, <1>13, StepIs
  <2>2. e.fragments = d.fragments /\ e.current = Append(d.current, Entry(b, a))
    BY <1>4, <2>1
  <2>3. d.current # <<>> /\ Last(d.current) = Entry(a, b) /\ k >= 2 /\ Last(d.current) = Entry(a, P[k - 1])
    BY <1>1, <1>3, <1>5, <1>13 DEF Continues, UnderWay
  <2>4. e.current # <<>> /\ Head(e.current) = Head(d.current) /\ Last(e.current) = Entry(b, a)
    <3>1. PICK c, q : c = d.current /\ q = Entry(b, a)
      OBVIOUS
    <3>2. c \in Seq(Points(V)) /\ c # <<>> /\ q \in Points(V) /\ e.current = Append(c, q)
      BY <1>3, <1>4, <2>2, <2>3, <3>1, EntryIsPoint
    <3> QED BY <3>1, <3>2, AppendEnds
  <2>5. UnderWay(P, e, k) /\ Clipped(e) /\ Something(P, e, k)
    BY <1>1, <1>3, <1>5, <2>2, <2>4 DEF UnderWay, Clipped, Something
  <2>6. Whole(P, e, k)
    BY <1>5, <1>11, <2>2, <2>3, <2>4 DEF Whole
  <2>7. NoBack(P) => FromStart(P, e, k)
    <3> SUFFICES ASSUME NoBack(P), Head(d.current) = <<P[1]>>, NEW j \in 1 .. k PROVE P[j] \in box.inside
      BY <2>4 DEF FromStart
    <3>1. FromStart(P, d, k - 1)
      BY DEF StrokeInv
    <3>2. CASE j \in 1 .. k - 1
      BY <2>3, <3>1, <3>2 DEF FromStart
    <3>3. CASE j = k
      <4>1. P[k - 1] # P[k + 1]
        BY <1>3, <2>3 DEF NoBack
      <4>2. a \in box.inside
        <5> SUFFICES ASSUME a \notin box.inside PROVE FALSE
          OBVIOUS
        <5>1. <<a, b>> = <<a, P[k - 1]>>
          BY <2>3 DEF Entry
        <5> QED BY <1>1, <4>1, <5>1
      <4> QED BY <1>1, <3>3, <4>2
    <3> QED BY <1>3, <3>2, <3>3
  <2> QED BY <1>1, <1>2, <2>5, <2>6, <2>7 DEF StrokeInv
<1>14. CASE Seen(a, b) /\ ~ Continues(d, a, b)
  <2>1. e = [fragments |-> Ended(d), current |-> <<Entry(a, b), Entry(b, a)>>]
    BY <1>2, <1>14, StepIs
  <2>2. e.fragments = Ended(d) /\ e.current = <<Entry(a, b), Entry(b, a)>>
    BY <2>1
  <2>3. e.current # <<>> /\ Head(e.current) = Entry(a, b) /\ Last(e.current) = Entry(b, a)
    BY <2>2, PairEnds
  <2>4. Clipped(e)
    BY <1>1, <1>5, <1>10, <1>14, <2>2, EndedClipped
  <2>5. UnderWay(P, e, k) /\ Something(P, e, k)
    BY <1>1, <1>3, <2>3 DEF UnderWay, Something
  <2>6. Whole(P, e, k)
    <3> SUFFICES ASSUME \A j \in 1 .. k + 1 : P[j] \in box.inside
                 PROVE  e.fragments = <<>> /\ Head(e.current) = <<P[1]>>
      BY DEF Whole
    <3>1. k = 1 /\ a \in box.inside
      BY <1>9, <1>11, <1>14
    <3>2. d.fragments = <<>> /\ d.current = <<>>
      BY <1>5, <1>8, <1>11, <3>1 DEF Whole
    <3> QED BY <1>1, <2>2, <2>3, <3>1, <3>2, EndedRange DEF Entry
  <2>7. FromStart(P, e, k)
    <3> SUFFICES ASSUME Entry(a, b) = <<P[1]>> PROVE \A j \in 1 .. k : P[j] \in box.inside
      BY <2>3 DEF FromStart
    <3>1. a \in box.inside
      BY PairEnds DEF Entry
    <3>2. k = 1
      BY <1>9, <1>14, <3>1
    <3> QED BY <1>1, <3>1, <3>2
  <2> QED BY <1>1, <1>2, <2>4, <2>5, <2>6, <2>7 DEF StrokeInv
<1> QED BY <1>12, <1>13, <1>14

LEMMA StrokesHold ==
    ASSUME NEW V, NEW P \in Seq(V), Len(P) >= 2, NEW k \in 0 .. Len(P) - 1
    PROVE  StrokeInv(P, DrawnUpTo(P, k), k)
<1> DEFINE bad == {j \in Nat : j <= Len(P) - 1 /\ ~ StrokeInv(P, DrawnUpTo(P, j), j)}
<1>1. bad = {}
  <2> SUFFICES ASSUME bad # {} PROVE FALSE
    OBVIOUS
  <2>1. PICK j \in bad : \A i \in bad : j <= i
    BY LeastExists
  <2>2. j \in Nat /\ j <= Len(P) - 1 /\ ~ StrokeInv(P, DrawnUpTo(P, j), j)
    OBVIOUS
  <2>3. j # 0
    BY <2>2, DrawnSteps, StrokesStart
  <2>4. j - 1 \in Nat /\ j - 1 <= Len(P) - 1 /\ j \in 1 .. Len(P) - 1 /\ j - 1 \in 0 .. Len(P) - 1
    BY <2>2, <2>3
  <2>5. j - 1 \notin bad
    <3> HIDE DEF bad
    <3> QED BY <2>1, <2>2, <2>4
  <2>6. StrokeInv(P, DrawnUpTo(P, j - 1), j - 1)
    BY <2>4, <2>5
  <2>7. /\ DrawnUpTo(P, j) = ClipStep(DrawnUpTo(P, j - 1), ClipSegment(P[j], P[j + 1]))
        /\ DrawnUpTo(P, j - 1) \in Drawn(V)
    BY <2>4, DrawnSteps
  <2> QED BY <2>2, <2>4, <2>6, <2>7, StrokesStep
<1> QED BY <1>1

InBox(P) == \A j \in 1 .. Len(P) : P[j] \in box.inside

(* A part inside the box is one fragment; a fragment that has both ends of *)
(* its part is all of it; what is seen of a part leaves a fragment.        *)
LEMMA FragmentsAre ==
    ASSUME NEW V, NEW P \in Seq(V), Len(P) >= 2
    PROVE  /\ Fragments(P) \in Seq(Strokes(V))
           /\ InBox(P) => \E c : Fragments(P) = <<c>> /\ Head(c) = <<P[1]>> /\ Last(c) = <<P[Len(P)]>>
           /\ \A f \in Range(Fragments(P)) :
                NoBack(P) /\ Head(f) = <<P[1]>> /\ Last(f) = <<P[Len(P)]>> => InBox(P)
           /\ (\E j \in 1 .. Len(P) - 1 : Seen(P[j], P[j + 1])) => Fragments(P) # <<>>
<1>1. PICK n \in Nat : n = Len(P) - 1 /\ n >= 1 /\ n + 1 = Len(P) /\ n \in 0 .. Len(P) - 1
  OBVIOUS
<1>2. PICK d : d = DrawnUpTo(P, n)
  OBVIOUS
<1>3. d \in Drawn(V) /\ Fragments(P) = Ended(d)
  BY <1>1, <1>2, DrawnSteps
<1>4. StrokeInv(P, d, n)
  BY <1>1, <1>2, StrokesHold
<1>5. Ended(d) \in Seq(Strokes(V))
  BY <1>3, EndedIsStrokes
<1>6. ASSUME InBox(P)
      PROVE  \E c : Ended(d) = <<c>> /\ Head(c) = <<P[1]>> /\ Last(c) = <<P[n + 1]>>
  <2>1. P[n + 1] \in box.inside /\ \A j \in 1 .. n + 1 : P[j] \in box.inside
    BY <1>1, <1>6 DEF InBox
  <2>2. d.current # <<>> /\ Last(d.current) = <<P[n + 1]>>
    BY <1>1, <1>4, <2>1 DEF StrokeInv, UnderWay, Entry
  <2>3. d.fragments = <<>> /\ Head(d.current) = <<P[1]>>
    BY <1>1, <1>4, <2>1 DEF StrokeInv, Whole
  <2> QED BY <1>3, <2>2, <2>3, EndedRange
<1>7. ASSUME NEW f \in Range(Ended(d)), NoBack(P), Head(f) = <<P[1]>>, Last(f) = <<P[n + 1]>>
      PROVE  InBox(P)
  <2>1. f \notin Range(d.fragments)
    BY <1>4, <1>7 DEF StrokeInv, Clipped
  <2>2. d.current # <<>> /\ f = d.current
    BY <1>3, <1>7, <2>1, EndedRange
  <2>3. \A j \in 1 .. n : P[j] \in box.inside
    BY <1>4, <1>7, <2>2 DEF StrokeInv, FromStart
  <2>4. P[n + 1] \in box.inside
    <3>1. Entry(P[n + 1], P[n]) = <<P[n + 1]>>
      BY <1>4, <1>7, <2>2 DEF StrokeInv, UnderWay
    <3> QED BY <3>1, PairEnds DEF Entry
  <2> QED BY <1>1, <2>3, <2>4 DEF InBox
<1>8. (\E j \in 1 .. n : Seen(P[j], P[j + 1])) => Ended(d) # <<>>
  BY <1>3, <1>4, EndedRange DEF StrokeInv, Something
<1> QED BY <1>1, <1>3, <1>5, <1>6, <1>7, <1>8

(* The ends of a fragment are points of the part. *)
LEMMA FragmentEnds ==
    ASSUME NEW V, NEW f \in Strokes(V)
    PROVE  \A x : Head(f) = <<x>> \/ Last(f) = <<x>> => x \in V \cap box.inside
<1>1. f \in Seq(Points(V)) /\ f # <<>>
  BY DEF Strokes
<1>2. Head(f) \in Points(V) /\ Last(f) \in Points(V)
  BY <1>1 DEF Last
<1>3. ASSUME NEW x, <<x>> \in Points(V) PROVE x \in V \cap box.inside
  <2>1. \A a, b : <<x>> # <<a, b>>
    BY PairEnds
  <2>2. PICK y \in V \cap box.inside : <<x>> = <<y>>
    BY <1>3, <2>1 DEF Points
  <2> QED BY <2>2
<1> QED BY <1>2, <1>3

-----------------------------------------------------------------------------
(* The parts of the ways.                                                  *)
WayOk(w) ==
    /\ w.refs \in Seq(RefNodes) /\ Len(w.refs) >= 2
    /\ \A k \in 1 .. Len(w.refs) - 1 : w.refs[k] # w.refs[k + 1]
    /\ w.oneway \in {"both", "forward", "reverse"}
    /\ w.total \in Nat /\ w.forward \in Nat /\ w.backward \in Nat

LEMMA WaysAre ==
    ASSUME ways \in Extracts
    PROVE  /\ IsFiniteSet(RefNodes) /\ IsFiniteSet(DOMAIN ways) /\ Len(ways) \in Nat
           /\ DOMAIN ways = 1 .. Len(ways) /\ Range(ways) = {ways[i] : i \in DOMAIN ways}
           /\ \A i \in DOMAIN ways : WayOk(ways[i])
<1>1. PICK e : e = ways
  OBVIOUS
<1>2. /\ e \in Seq(Range(e))
      /\ \A w \in Range(e) :
           /\ w.refs \in Seq(Range(w.refs)) /\ Len(w.refs) >= 2
           /\ \A k \in 1 .. Len(w.refs) - 1 : w.refs[k] # w.refs[k + 1]
           /\ w.oneway \in {"both", "forward", "reverse"}
           /\ {w.total, w.forward, w.backward} \subseteq Nat
  BY <1>1, OsmAssumption
<1>3. PICK n \in Nat : n = Len(e) /\ DOMAIN e = 1 .. n
  BY <1>2
<1>4. \A i \in 1 .. n : e[i] \in Range(e)
  BY <1>3 DEF Range
<1>5. RefNodes = UNION {Range(e[i].refs) : i \in 1 .. n}
  BY <1>1, <1>3 DEF RefNodes
<1>6. IsFiniteSet(1 .. n)
  BY FS_Interval
<1>7. IsFiniteSet(RefNodes)
  <2> DEFINE r == [i \in 1 .. n |-> Range(e[i].refs)]
  <2>1. ASSUME NEW i \in 1 .. n PROVE IsFiniteSet(r[i])
    <3>1. PICK s, m : s = e[i].refs /\ m = Len(s)
      OBVIOUS
    <3>2. s \in Seq(Range(s))
      BY <1>2, <1>4, <3>1
    <3>3. m \in Nat /\ DOMAIN s = 1 .. m
      BY <3>1, <3>2
    <3>4. IsFiniteSet(1 .. m)
      BY <3>3, FS_Interval
    <3>5. IsFiniteSet({s[k] : k \in 1 .. m})
      BY <3>3, <3>4, ImageFinite
    <3>6. Range(s) = {s[k] : k \in 1 .. m}
      BY <3>3 DEF Range
    <3> QED BY <3>1, <3>5, <3>6
  <2>2. DOMAIN r = 1 .. n
    OBVIOUS
  <2>3. RefNodes = UNION {r[i] : i \in 1 .. n}
    BY <1>5
  <2> HIDE DEF r
  <2>4. IsFiniteSet({r[i] : i \in 1 .. n})
    BY <1>6, <2>2, ImageFinite
  <2> QED BY <2>1, <2>3, <2>4, FS_UNION
<1>8. ASSUME NEW i \in 1 .. n PROVE WayOk(e[i])
  <2>1. PICK s : s = e[i].refs
    OBVIOUS
  <2>2. s \in Seq(Range(s)) /\ Range(s) \in SUBSET RefNodes
    BY <1>2, <1>4, <1>5, <2>1
  <2>3. s \in Seq(RefNodes)
    BY <2>2
  <2> QED BY <1>2, <1>4, <2>1, <2>3 DEF WayOk
<1>9. Range(e) = {e[i] : i \in DOMAIN e}
  BY DEF Range
<1> QED BY <1>1, <1>3, <1>6, <1>7, <1>8, <1>9

OccursWithin(most, x) ==
    {o \in (DOMAIN ways) \X (1 .. most) :
        o[2] <= Len(ways[o[1]].refs) /\ ways[o[1]].refs[o[2]] = x}

(* A node that is not shared has one place in one way. *)
LEMMA OnceOnly ==
    ASSUME ways \in Extracts, NEW i \in DOMAIN ways, NEW j \in DOMAIN ways,
           NEW k \in 1 .. Len(ways[i].refs), NEW h \in 1 .. Len(ways[j].refs), NEW x,
           ways[i].refs[k] = x, ways[j].refs[h] = x, ~ Shared(x)
    PROVE  i = j /\ k = h
<1> DEFINE lens == [m \in DOMAIN ways |-> Len(ways[m].refs)]
           all == {lens[m] : m \in DOMAIN ways}
           most == Max({Len(ways[m].refs) : m \in DOMAIN ways})
           o == Occurrences(x)
           u == <<i, k>>
           v == <<j, h>>
<1>1. IsFiniteSet(DOMAIN ways) /\ \A m \in DOMAIN ways : lens[m] \in Nat
  BY WaysAre DEF WayOk
<1>2. DOMAIN lens = DOMAIN ways /\ all = {Len(ways[m].refs) : m \in DOMAIN ways}
  OBVIOUS
<1>3. Len(ways[i].refs) = lens[i] /\ Len(ways[j].refs) = lens[j] /\ most = Max(all)
  BY <1>2
<1>4. lens[i] \in all /\ lens[j] \in all
  OBVIOUS
<1>5. IsFiniteSet(all)
  <2> HIDE DEF lens
  <2> QED BY <1>1, <1>2, ImageFinite
<1>6. \A y \in all : y \in Int
  <2> HIDE DEF lens
  <2> QED BY <1>1
<1> HIDE DEF lens, all
<1>7. lens[i] <= Max(all) /\ lens[j] <= Max(all) /\ Max(all) \in all
  BY <1>4, <1>5, <1>6, MaxAbove
<1>8. most \in Int /\ k \in 1 .. most /\ h \in 1 .. most
  BY <1>1, <1>3, <1>6, <1>7
<1>9. o = OccursWithin(most, x)
  BY ZenonT(30) DEF Occurrences, OccursWithin
<1> HIDE DEF most
<1>10. u \in OccursWithin(most, x) /\ v \in OccursWithin(most, x)
  BY <1>8 DEF OccursWithin
<1>11. IsFiniteSet(o)
  <2>1. IsFiniteSet(1 .. most)
    BY <1>8, FS_Interval
  <2>2. PICK D, T : D = DOMAIN ways /\ T = 1 .. most
    OBVIOUS
  <2>3. IsFiniteSet(D \X T)
    BY <1>1, <2>1, <2>2, FS_Product
  <2>4. OccursWithin(most, x) \in SUBSET (D \X T)
    BY <2>2 DEF OccursWithin
  <2> QED BY <1>9, <2>3, <2>4, FS_Subset
<1> HIDE DEF o
<1>12. Cardinality(o) \in Nat /\ Cardinality(o) <= 1
  BY <1>11, FS_CardinalityType DEF Shared, o
<1>13. u = v
  <2> SUFFICES ASSUME u # v PROVE FALSE
    OBVIOUS
  <2>1. PICK a, b : a = u /\ b = v
    OBVIOUS
  <2>2. IsFiniteSet({a}) /\ Cardinality({a}) = 1 /\ b \notin {a}
    BY <2>1, FS_Singleton
  <2>3. PICK S : S = {a}
    OBVIOUS
  <2>4. Cardinality(S \cup {b}) = 2
    <3>1. IsFiniteSet(S) /\ Cardinality(S) = 1 /\ b \notin S
      BY <2>2, <2>3
    <3>2. Cardinality(S \cup {b}) = IF b \in S THEN Cardinality(S) ELSE Cardinality(S) + 1
      BY ONLY <3>1, FS_AddElement
    <3> QED BY <3>1, <3>2
  <2>5. S \cup {b} \in SUBSET o
    BY <1>9, <1>10, <2>1, <2>3
  <2>6. Cardinality(S \cup {b}) <= Cardinality(o)
    BY <1>11, <2>5, FS_Subset
  <2> QED BY <1>12, <2>4, <2>6
<1> QED BY <1>13

(* Where a way is cut: after each cut but the last comes the next one.     *)
Starts(w) == SplitIndices(w) \ {Len(w.refs)}
NextCut(w, k) == Min({c \in SplitIndices(w) : c > k})
Neighbours(w, a, b) ==
    /\ a \in SplitIndices(w) /\ b \in SplitIndices(w) /\ a < b
    /\ \A c \in SplitIndices(w) : c <= a \/ b <= c
Run(w, a, b) ==
    IF w.oneway = "reverse" THEN Reverse(SubSeq(w.refs, a, b)) ELSE SubSeq(w.refs, a, b)
NthCut(S, p) == CHOOSE c \in S : Cardinality({d \in S : d < c}) = p - 1

(* The least element of a finite set of integers. *)
LEMMA MinBelow ==
    ASSUME NEW S, IsFiniteSet(S), S # {}, \A x \in S : x \in Int
    PROVE  Min(S) \in S /\ \A x \in S : Min(S) <= x
<1>1. PICK f : f = [x \in S |-> -x]
  OBVIOUS
<1>2. \A x \in S : f[x] \in Int /\ f[x] = -x
  BY <1>1
<1>3. PICK a \in S : \A x \in S : f[a] >= f[x]
  BY <1>2, GreatestExists
<1>4. \A x \in S : a <= x
  BY <1>2, <1>3
<1>5. Min(S) \in S /\ \A x \in S : Min(S) <= x
  BY <1>4 DEF Min
<1> QED BY <1>5

LEMMA CutsAre ==
    ASSUME NEW w, WayOk(w)
    PROVE  /\ SplitIndices(w) \in SUBSET (1 .. Len(w.refs)) /\ {1, Len(w.refs)} \in SUBSET SplitIndices(w)
           /\ IsFiniteSet(SplitIndices(w)) /\ SplitIndices(w) \in SUBSET Nat
           /\ \A k \in Starts(w) : Neighbours(w, k, NextCut(w, k))
<1>1. PICK n \in Nat : n = Len(w.refs) /\ n >= 2
  BY DEF WayOk
<1>2. PICK S : S = SplitIndices(w)
  OBVIOUS
<1>3. S \in SUBSET (1 .. n) /\ {1, n} \in SUBSET S
  <2>1. 1 \in 1 .. n /\ n \in 1 .. n
    BY <1>1
  <2> QED BY <1>1, <1>2, <2>1 DEF SplitIndices
<1>4. IsFiniteSet(S) /\ S \in SUBSET Nat
  <2>1. IsFiniteSet(1 .. n)
    BY FS_Interval
  <2>2. IsFiniteSet(S)
    BY <1>3, <2>1, FS_Subset
  <2>3. S \in SUBSET Nat
    BY <1>3
  <2> QED BY <2>2, <2>3
<1>5. ASSUME NEW k \in Starts(w) PROVE Neighbours(w, k, NextCut(w, k))
  <2>1. k \in S /\ k # n /\ k \in Nat /\ n \in S /\ k < n
    BY <1>1, <1>2, <1>3 DEF Starts
  <2>2. PICK T : T = {c \in S : c > k}
    OBVIOUS
  <2>3. n \in T /\ T \in SUBSET S
    BY <2>1, <2>2
  <2>4. IsFiniteSet(T) /\ T # {} /\ \A c \in T : c \in Int
    <3>1. IsFiniteSet(T)
      BY <1>4, <2>3, FS_Subset
    <3>2. \A c \in T : c \in Int
      BY <1>4, <2>3
    <3> QED BY <2>3, <3>1, <3>2
  <2>5. Min(T) \in T /\ \A c \in T : Min(T) <= c
    BY <2>4, MinBelow
  <2>6. NextCut(w, k) = Min(T)
    BY <1>2, <2>2 DEF NextCut
  <2>7. PICK m : m = Min(T)
    OBVIOUS
  <2>8. m \in S /\ k < m /\ \A c \in S : c > k => m <= c
    BY <2>2, <2>3, <2>5, <2>7
  <2>9. \A c \in S : c <= k \/ m <= c
    BY <1>4, <2>1, <2>8
  <2> QED BY <1>2, <2>1, <2>6, <2>7, <2>8, <2>9 DEF Neighbours
<1> QED BY <1>1, <1>2, <1>3, <1>4, <1>5

(* The parts of a way: one from each cut to the next. *)
PartsFrom(w) ==
    [p \in 1 .. Cardinality(Starts(w)) |->
        Run(w, NthCut(Starts(w), p), NextCut(w, NthCut(Starts(w), p)))]

LEMMA PartsList ==
    ASSUME NEW w, WayOk(w)
    PROVE  \E s : /\ Lists(s, Starts(w)) /\ DOMAIN Parts(w) = DOMAIN s /\ Parts(w) = [p \in DOMAIN s |-> Parts(w)[p]]
                  /\ \E n \in Nat : DOMAIN s = 1 .. n
                  /\ \A p \in DOMAIN s : /\ Neighbours(w, s[p], NextCut(w, s[p]))
                                         /\ Parts(w)[p] = Run(w, s[p], NextCut(w, s[p]))
<1>1. PICK S : S = Starts(w)
  OBVIOUS
<1>2. IsFiniteSet(S) /\ S \in SUBSET Nat
  <2>1. S \in SUBSET SplitIndices(w)
    BY <1>1 DEF Starts
  <2> QED BY <2>1, CutsAre, FS_Subset
<1>3. PICK n \in Nat : n = Cardinality(S)
  BY <1>2, FS_CardinalityType
<1>4. Lists(Ordered(S, LAMBDA r, s : r < s), S)
  BY <1>2, StreetsInOrder
<1>5. Ordered(S, LAMBDA r, s : r < s) = [p \in 1 .. n |-> NthCut(S, p)]
  BY <1>3 DEF Ordered, NthCut
<1>6. PICK s : s = [p \in 1 .. n |-> NthCut(S, p)]
  OBVIOUS
<1>7. Lists(s, S) /\ DOMAIN s = 1 .. n
  BY <1>4, <1>5, <1>6
<1>8. Parts(w) = [p \in 1 .. n |-> Run(w, NthCut(S, p), NextCut(w, NthCut(S, p)))]
  BY <1>1, <1>3 DEF Parts, Run, NextCut, NthCut, Starts
<1>9. ASSUME NEW p \in 1 .. n
      PROVE  Neighbours(w, s[p], NextCut(w, s[p])) /\ Parts(w)[p] = Run(w, s[p], NextCut(w, s[p]))
  <2>1. s[p] = NthCut(S, p)
    BY <1>6
  <2>2. s[p] \in S
    BY <1>7 DEF Lists, Range
  <2> QED BY <1>1, <1>8, <2>1, <2>2, CutsAre
<1>10. DOMAIN Parts(w) = 1 .. n /\ Parts(w) = [p \in 1 .. n |-> Parts(w)[p]]
  BY <1>8
<1> QED BY <1>1, <1>7, <1>9, <1>10

(* The place in the way of the j-th node of a part.                        *)
Pos(w, a, b, j) == IF w.oneway = "reverse" THEN b + 1 - j ELSE a - 1 + j

LEMMA RunIs ==
    ASSUME NEW w, WayOk(w), NEW a, NEW b, Neighbours(w, a, b)
    PROVE  /\ a \in 1 .. Len(w.refs) /\ b \in 1 .. Len(w.refs) /\ a < b
           /\ Run(w, a, b) \in Seq(RefNodes) /\ Len(Run(w, a, b)) = b - a + 1
           /\ \A j \in 1 .. b - a + 1 : /\ Pos(w, a, b, j) \in a .. b
                                        /\ Run(w, a, b)[j] = w.refs[Pos(w, a, b, j)]
<1>1. PICK s : s = w.refs
  OBVIOUS
<1>2. PICK n \in Nat : n = Len(s) /\ s \in Seq(RefNodes)
  <2>1. s \in Seq(RefNodes)
    BY <1>1 DEF WayOk
  <2> QED BY ONLY <2>1
<1>3. a \in 1 .. n /\ b \in 1 .. n /\ a < b
  BY <1>1, <1>2, CutsAre DEF Neighbours
<1>4. PICK m \in Nat : m = b - a + 1 /\ m >= 2
  BY <1>3
<1>5. PICK u : u = SubSeq(s, a, b)
  OBVIOUS
<1>6. u \in Seq(RefNodes) /\ Len(u) = m /\ \A j \in 1 .. m : u[j] = s[a - 1 + j]
  <2>1. \A k \in a .. b : s[k] \in RefNodes
    BY <1>2, <1>3
  <2>2. u = [j \in 1 .. m |-> s[a + j - 1]]
    BY <1>2, <1>3, <1>4, <1>5
  <2>3. ASSUME NEW j \in 1 .. m PROVE u[j] = s[a - 1 + j] /\ u[j] \in RefNodes
    <3>1. a + j - 1 = a - 1 + j /\ a + j - 1 \in a .. b
      BY <1>3, <1>4
    <3> QED BY <2>1, <2>2, <3>1
  <2>4. u = [j \in 1 .. m |-> u[j]]
    BY <2>2
  <2> QED BY <2>3, <2>4, SeqIntro
<1>7. CASE w.oneway # "reverse"
  <2>1. Run(w, a, b) = u
    BY <1>1, <1>5, <1>7 DEF Run
  <2>2. ASSUME NEW j \in 1 .. m PROVE Pos(w, a, b, j) \in a .. b /\ u[j] = s[Pos(w, a, b, j)]
    <3>1. a - 1 + j \in a .. b
      BY <1>3, <1>4
    <3> QED BY <1>6, <1>7, <3>1 DEF Pos
  <2> QED BY <1>1, <1>2, <1>3, <1>4, <1>6, <2>1, <2>2
<1>8. CASE w.oneway = "reverse"
  <2>1. PICK v : v = Reverse(u)
    OBVIOUS
  <2>2. v = [j \in 1 .. m |-> u[(m - j) + 1]]
    BY <1>6, <2>1 DEF Reverse
  <2>3. ASSUME NEW j \in 1 .. m
        PROVE  v[j] = s[b + 1 - j] /\ v[j] \in RefNodes /\ b + 1 - j \in a .. b
    <3>1. (m - j) + 1 \in 1 .. m /\ a - 1 + ((m - j) + 1) = b + 1 - j /\ b + 1 - j \in a .. b
      BY <1>3, <1>4
    <3>2. v[j] = u[(m - j) + 1]
      BY <2>2
    <3>3. u[(m - j) + 1] \in RefNodes
      BY <1>6, <3>1
    <3> QED BY <1>6, <3>1, <3>2, <3>3
  <2>4. v = [j \in 1 .. m |-> v[j]]
    BY <2>2
  <2>5. v \in Seq(RefNodes) /\ Len(v) = m
    BY <2>3, <2>4, SeqIntro
  <2>6. Run(w, a, b) = v /\ \A j \in 1 .. m : Pos(w, a, b, j) = b + 1 - j
    BY <1>1, <1>5, <1>8, <2>1 DEF Run, Pos
  <2> QED BY <1>1, <1>2, <1>3, <1>4, <2>3, <2>5, <2>6
<1> QED BY <1>7, <1>8

(* The parts of a way of the extract.                                      *)
PartIds == UNION {{i} \X DOMAIN Parts(ways[i]) : i \in DOMAIN ways}
PartOf(id) == Parts(ways[id[1]])[id[2]]

(* What a part is: the nodes of its way between two cuts. *)
Between(id, a, b) ==
    /\ Neighbours(ways[id[1]], a, b) /\ PartOf(id) = Run(ways[id[1]], a, b)

LEMMA PartBetween ==
    ASSUME ways \in Extracts
    PROVE  \E first : /\ \A id \in PartIds : Between(id, first[id], NextCut(ways[id[1]], first[id]))
                      /\ \A id, other \in PartIds :
                            id[1] = other[1] /\ first[id] = first[other] => id = other
                      /\ \A i \in DOMAIN ways : \A k \in Starts(ways[i]) :
                            \E id \in PartIds : id[1] = i /\ first[id] = k
<1> DEFINE goodList(i, s) ==
              /\ Lists(s, Starts(ways[i])) /\ DOMAIN Parts(ways[i]) = DOMAIN s
              /\ \E n \in Nat : DOMAIN s = 1 .. n
              /\ \A p \in DOMAIN s : /\ Neighbours(ways[i], s[p], NextCut(ways[i], s[p]))
                                     /\ Parts(ways[i])[p] = Run(ways[i], s[p], NextCut(ways[i], s[p]))
           list(i) == CHOOSE s : goodList(i, s)
           first == [id \in PartIds |-> list(id[1])[id[2]]]
<1>1. ASSUME NEW i \in DOMAIN ways PROVE goodList(i, list(i))
  <2>1. WayOk(ways[i])
    BY WaysAre
  <2>2. \E s : goodList(i, s)
    BY <2>1, PartsList
  <2> HIDE DEF goodList
  <2> QED BY <2>2
<1> HIDE DEF list
<1>2. ASSUME NEW id \in PartIds
      PROVE  /\ id[1] \in DOMAIN ways /\ id[2] \in DOMAIN list(id[1]) /\ first[id] = list(id[1])[id[2]]
             /\ id = <<id[1], id[2]>> /\ Between(id, first[id], NextCut(ways[id[1]], first[id]))
  <2>1. id[1] \in DOMAIN ways /\ id[2] \in DOMAIN Parts(ways[id[1]]) /\ id = <<id[1], id[2]>>
    BY DEF PartIds
  <2>2. goodList(id[1], list(id[1]))
    BY <1>1, <2>1
  <2>3. first[id] = list(id[1])[id[2]]
    OBVIOUS
  <2> HIDE DEF first
  <2> QED BY <2>1, <2>2, <2>3 DEF Between, PartOf
<1> HIDE DEF first
<1>3. ASSUME NEW id \in PartIds, NEW other \in PartIds, id[1] = other[1], first[id] = first[other]
      PROVE  id = other
  <2>1. goodList(id[1], list(id[1]))
    BY <1>1, <1>2
  <2>2. id[2] = other[2]
    BY <1>2, <1>3, <2>1 DEF Lists
  <2>3. id = <<id[1], id[2]>> /\ other = <<other[1], other[2]>>
    BY <1>2
  <2> QED BY <1>3, <2>2, <2>3
<1>4. ASSUME NEW i \in DOMAIN ways, NEW k \in Starts(ways[i])
      PROVE  \E id \in PartIds : id[1] = i /\ first[id] = k
  <2>1. goodList(i, list(i))
    BY <1>1
  <2>2. PICK p \in DOMAIN list(i) : list(i)[p] = k
    BY <2>1 DEF Lists, Range
  <2>3. p \in Nat
    BY <2>1
  <2>4. <<i, p>> \in PartIds
    BY <2>1, <2>2, <2>3 DEF PartIds
  <2>5. first[<<i, p>>] = list(i)[p]
    BY <1>2, <2>4
  <2> QED BY <2>2, <2>4, <2>5
<1> QED BY <1>2, <1>3, <1>4

Spans(P, w, a, b) ==
    /\ a \in 1 .. Len(w.refs) /\ b \in 1 .. Len(w.refs) /\ a < b
    /\ P \in Seq(RefNodes) /\ Len(P) = b - a + 1
    /\ \A j \in 1 .. b - a + 1 : /\ Pos(w, a, b, j) \in a .. b
                                 /\ P[j] = w.refs[Pos(w, a, b, j)]

LEMMA BetweenSpans ==
    ASSUME ways \in Extracts, NEW id \in PartIds, NEW a, NEW b, Between(id, a, b)
    PROVE  /\ id[1] \in DOMAIN ways /\ WayOk(ways[id[1]]) /\ Len(ways[id[1]].refs) \in Nat
           /\ Spans(PartOf(id), ways[id[1]], a, b)
<1>1. PICK w : w = ways[id[1]]
  OBVIOUS
<1>2. id[1] \in DOMAIN ways
  BY DEF PartIds
<1>3. WayOk(w)
  BY <1>1, <1>2, WaysAre
<1>4. Len(w.refs) \in Nat
  BY <1>3 DEF WayOk
<1>5. Neighbours(w, a, b) /\ PartOf(id) = Run(w, a, b)
  BY <1>1 DEF Between
<1>6. Spans(Run(w, a, b), w, a, b)
  BY <1>3, <1>5, RunIs DEF Spans
<1> QED BY <1>1, <1>2, <1>3, <1>4, <1>5, <1>6

(* A node within a part has no other place in any part. *)
LEMMA InnerOnce ==
    ASSUME ways \in Extracts, NEW id \in PartIds, NEW other \in PartIds,
           NEW j \in 2 .. Len(PartOf(id)) - 1, NEW h \in 1 .. Len(PartOf(other)),
           PartOf(id)[j] = PartOf(other)[h]
    PROVE  id = other /\ j = h
<1>1. PICK first : /\ \A p \in PartIds : Between(p, first[p], NextCut(ways[p[1]], first[p]))
                   /\ \A p, q \in PartIds : p[1] = q[1] /\ first[p] = first[q] => p = q
  BY PartBetween
<1>2. PICK w, v : w = ways[id[1]] /\ v = ways[other[1]]
  OBVIOUS
<1>3. id[1] \in DOMAIN ways /\ other[1] \in DOMAIN ways
  BY DEF PartIds
<1>4. PICK P, Q : P = PartOf(id) /\ Q = PartOf(other)
  OBVIOUS
<1>5. PICK a, b : a = first[id] /\ b = NextCut(w, a)
  OBVIOUS
<1>6. PICK c, d : c = first[other] /\ d = NextCut(v, c)
  OBVIOUS
<1>7. Neighbours(w, a, b) /\ Spans(P, w, a, b) /\ Len(w.refs) \in Nat
  BY <1>1, <1>2, <1>4, <1>5, BetweenSpans DEF Between
<1>8. Neighbours(v, c, d) /\ Spans(Q, v, c, d) /\ Len(v.refs) \in Nat
  BY <1>1, <1>2, <1>4, <1>6, BetweenSpans DEF Between
<1>9. PICK n \in Nat : n = Len(w.refs)
  BY <1>7
<1>10. PICK l \in Nat : l = Len(v.refs)
  BY <1>8
<1>11. a \in 1 .. n /\ b \in 1 .. n /\ a < b /\ Len(P) = b - a + 1
  BY <1>7, <1>9 DEF Spans
<1>12. c \in 1 .. l /\ d \in 1 .. l /\ c < d /\ Len(Q) = d - c + 1
  BY <1>8, <1>10 DEF Spans
<1>13. j \in 2 .. b - a /\ h \in 1 .. d - c + 1 /\ j \in 1 .. b - a + 1
  BY <1>4, <1>11, <1>12
<1>14. PICK k : k = Pos(w, a, b, j)
  OBVIOUS
<1>15. PICK m : m = Pos(v, c, d, h)
  OBVIOUS
<1>16. k \in Int /\ a < k /\ k < b /\ P[j] = w.refs[k]
  <2>1. P[j] = w.refs[k]
    BY <1>7, <1>13, <1>14 DEF Spans
  <2>2. k = b + 1 - j \/ k = a - 1 + j
    BY <1>14 DEF Pos
  <2> QED BY <1>11, <1>13, <2>1, <2>2
<1>17. m \in c .. d /\ Q[h] = v.refs[m] /\ k \in 1 .. n /\ m \in 1 .. l
  <2>1. m \in c .. d /\ Q[h] = v.refs[m]
    BY <1>8, <1>13, <1>15 DEF Spans
  <2> QED BY <1>11, <1>12, <1>16, <2>1
<1>18. k \notin SplitIndices(w)
  <2>1. \A e \in SplitIndices(w) : e <= a \/ b <= e
    BY <1>7 DEF Neighbours
  <2> QED BY <1>11, <1>16, <2>1
<1>19. ~ Shared(w.refs[k])
  BY <1>9, <1>17, <1>18 DEF SplitIndices
<1>20. id[1] = other[1] /\ k = m
  <2>1. PICK x : x = w.refs[k]
    OBVIOUS
  <2>2. w.refs[k] = x /\ v.refs[m] = x /\ ~ Shared(x)
    BY <1>4, <1>16, <1>17, <1>19, <2>1
  <2> QED BY <1>2, <1>3, <1>9, <1>10, <1>17, <2>2, OnceOnly
<1>21. c = a
  <2>1. w = v
    BY <1>2, <1>20
  <2>2. c <= a \/ b <= c
    BY <1>7, <1>8, <2>1 DEF Neighbours
  <2>3. a <= c \/ d <= a
    BY <1>7, <1>8, <2>1 DEF Neighbours
  <2> QED BY <1>11, <1>12, <1>16, <1>17, <1>20, <2>2, <2>3
<1>22. id = other
  BY <1>1, <1>5, <1>6, <1>20, <1>21
<1>23. j = h
  <2>1. v = w /\ d = b
    BY <1>2, <1>5, <1>6, <1>20, <1>21
  <2>2. (k = b + 1 - j /\ m = b + 1 - h) \/ (k = a - 1 + j /\ m = a - 1 + h)
    BY <1>14, <1>15, <1>21, <2>1 DEF Pos
  <2> QED BY <1>11, <1>12, <1>13, <1>20, <2>2
<1> QED BY <1>22, <1>23

LEMMA PartsAreSeqs ==
    ASSUME ways \in Extracts, NEW id \in PartIds
    PROVE  /\ id[1] \in DOMAIN ways /\ PartOf(id) \in Seq(RefNodes) /\ Len(PartOf(id)) \in Nat /\ Len(PartOf(id)) >= 2
           /\ \A j \in 1 .. Len(PartOf(id)) : PartOf(id)[j] \in RefNodes
           /\ \E a, b : Between(id, a, b)
<1>1. PICK a, b : Between(id, a, b)
  BY PartBetween
<1>2. PICK w, P : w = ways[id[1]] /\ P = PartOf(id)
  OBVIOUS
<1>3. id[1] \in DOMAIN ways /\ Spans(P, w, a, b) /\ Len(w.refs) \in Nat
  BY <1>1, <1>2, BetweenSpans
<1>4. PICK n \in Nat : n = Len(w.refs)
  BY <1>3
<1>5. a \in 1 .. n /\ b \in 1 .. n /\ a < b /\ P \in Seq(RefNodes) /\ Len(P) = b - a + 1
  BY <1>3, <1>4 DEF Spans
<1>6. Len(P) \in Nat /\ Len(P) >= 2
  BY <1>5
<1>7. \A j \in 1 .. Len(P) : P[j] \in RefNodes
  BY <1>5
<1> QED BY <1>1, <1>2, <1>3, <1>5, <1>6, <1>7

(* What the tags allow: the steps of the ways into the box. *)
StepOfWay(i, k, x, y) ==
    \/ ways[i].oneway # "reverse" /\ ways[i].refs[k] = x /\ ways[i].refs[k + 1] = y
    \/ ways[i].oneway # "forward" /\ ways[i].refs[k + 1] = x /\ ways[i].refs[k] = y

NextTo(i, x, k, h) ==
    IF ways[i].refs[k] = x /\ ways[i].refs[h] \in box.inside THEN {ways[i].refs[h]} ELSE {}
StepsIn(i, k, x) ==
    (IF ways[i].oneway = "reverse" THEN {} ELSE NextTo(i, x, k, k + 1))
        \cup (IF ways[i].oneway = "forward" THEN {} ELSE NextTo(i, x, k + 1, k))

LEMMA AllowedIs ==
    ASSUME NEW x, NEW y
    PROVE  y \in Allowed(x) <=>
              y \in box.inside /\ \E i \in DOMAIN ways : \E k \in 1 .. Len(ways[i].refs) - 1 : StepOfWay(i, k, x, y)
<1>1. Allowed(x) = UNION {UNION {StepsIn(i, k, x) : k \in 1 .. Len(ways[i].refs) - 1} : i \in DOMAIN ways}
  BY DEF Allowed, StepsIn, NextTo
<1>2. \A i \in DOMAIN ways : \A k : y \in StepsIn(i, k, x) <=> y \in box.inside /\ StepOfWay(i, k, x, y)
  BY DEF StepsIn, NextTo, StepOfWay
<1> QED BY <1>1, <1>2

(* A way is gone along as its parts are. *)
Along(id, j, x, y) ==
    \/ PartOf(id)[j] = x /\ PartOf(id)[j + 1] = y
    \/ ways[id[1]].oneway = "both" /\ PartOf(id)[j + 1] = x /\ PartOf(id)[j] = y

LEMMA StepsAlong ==
    ASSUME ways \in Extracts, NEW id \in PartIds, NEW a, NEW b, Between(id, a, b), NEW x, NEW y
    PROVE  /\ \A j \in 1 .. Len(PartOf(id)) - 1 : Along(id, j, x, y) =>
                \E k \in 1 .. Len(ways[id[1]].refs) - 1 : StepOfWay(id[1], k, x, y)
           /\ \A k \in a .. b - 1 : StepOfWay(id[1], k, x, y) =>
                \E j \in 1 .. Len(PartOf(id)) - 1 : Along(id, j, x, y)
<1>1. PICK w : w = ways[id[1]]
  OBVIOUS
<1>2. Len(w.refs) \in Nat /\ WayOk(w)
  BY <1>1, BetweenSpans
<1>3. PICK P : P = PartOf(id)
  OBVIOUS
<1>5. PICK n \in Nat : n = Len(w.refs)
  BY <1>2
<1>4. /\ a \in 1 .. n /\ b \in 1 .. n /\ a < b /\ Len(P) = b - a + 1
      /\ \A j \in 1 .. b - a + 1 : P[j] = w.refs[Pos(w, a, b, j)]
  <2>1. Spans(P, w, a, b)
    BY <1>1, <1>3, BetweenSpans
  <2> QED BY <1>5, <2>1 DEF Spans
<1>6. w.oneway \in {"both", "forward", "reverse"}
  BY <1>2 DEF WayOk
<1>7. ASSUME NEW j \in 1 .. b - a
      PROVE  /\ j \in 1 .. b - a + 1 /\ j + 1 \in 1 .. b - a + 1
             /\ Pos(w, a, b, j) \in 1 .. n /\ Pos(w, a, b, j + 1) \in 1 .. n
             /\ w.oneway = "reverse" => Pos(w, a, b, j) = Pos(w, a, b, j + 1) + 1
             /\ w.oneway # "reverse" => Pos(w, a, b, j + 1) = Pos(w, a, b, j) + 1
  BY <1>4, <1>5 DEF Pos
<1>8. ASSUME NEW j \in 1 .. b - a, Along(id, j, x, y)
      PROVE  \E k \in 1 .. n - 1 : StepOfWay(id[1], k, x, y)
  <2>1. P[j] = w.refs[Pos(w, a, b, j)] /\ P[j + 1] = w.refs[Pos(w, a, b, j + 1)]
    BY <1>4, <1>7
  <2>2. CASE w.oneway = "reverse"
    <3>1. PICK k : k = Pos(w, a, b, j + 1)
      OBVIOUS
    <3>2. k \in 1 .. n - 1 /\ P[j] = w.refs[k + 1] /\ P[j + 1] = w.refs[k]
      BY <1>5, <1>7, <2>1, <2>2, <3>1
    <3>3. P[j] = x /\ P[j + 1] = y
      BY <1>1, <1>3, <1>8, <2>2 DEF Along
    <3> QED BY <1>1, <2>2, <3>2, <3>3 DEF StepOfWay
  <2>3. CASE w.oneway # "reverse"
    <3>1. PICK k : k = Pos(w, a, b, j)
      OBVIOUS
    <3>2. k \in 1 .. n - 1 /\ P[j] = w.refs[k] /\ P[j + 1] = w.refs[k + 1]
      BY <1>5, <1>7, <2>1, <2>3, <3>1
    <3> QED BY <1>1, <1>3, <1>8, <2>3, <3>2 DEF StepOfWay, Along
  <2> QED BY <2>2, <2>3
<1>9. ASSUME NEW k \in a .. b - 1, StepOfWay(id[1], k, x, y)
      PROVE  \E j \in 1 .. b - a : Along(id, j, x, y)
  <2>1. CASE w.oneway = "reverse"
    <3>1. PICK j : j = b - k
      OBVIOUS
    <3>2. j \in 1 .. b - a /\ Pos(w, a, b, j + 1) = k /\ Pos(w, a, b, j) = k + 1
      <4>1. a \in Nat /\ b \in Nat /\ k \in a .. b - 1
        BY <1>4, <1>5
      <4>2. j \in 1 .. b - a /\ b + 1 - (j + 1) = k /\ b + 1 - j = k + 1
        BY ONLY <3>1, <4>1
      <4> QED BY ONLY <2>1, <4>2 DEF Pos
    <3>3. P[j] = w.refs[k + 1] /\ P[j + 1] = w.refs[k]
      BY <1>4, <1>7, <3>2
    <3> QED BY <1>1, <1>3, <1>9, <2>1, <3>2, <3>3 DEF Along, StepOfWay
  <2>2. CASE w.oneway # "reverse"
    <3>1. PICK j : j = k - a + 1
      OBVIOUS
    <3>2. j \in 1 .. b - a /\ Pos(w, a, b, j) = k /\ Pos(w, a, b, j + 1) = k + 1
      <4>1. a \in Nat /\ b \in Nat /\ k \in a .. b - 1
        BY <1>4, <1>5
      <4>2. j \in 1 .. b - a /\ a - 1 + j = k /\ a - 1 + (j + 1) = k + 1
        BY ONLY <3>1, <4>1
      <4> QED BY ONLY <2>2, <4>2 DEF Pos
    <3>3. P[j] = w.refs[k] /\ P[j + 1] = w.refs[k + 1]
      BY <1>4, <1>7, <3>2
    <3> QED BY <1>1, <1>3, <1>6, <1>9, <2>2, <3>2, <3>3 DEF Along, StepOfWay
  <2> QED BY <2>1, <2>2
<1>10. Len(P) - 1 = b - a
  BY <1>4, <1>5
<1> QED BY <1>1, <1>3, <1>5, <1>8, <1>9, <1>10

LEMMA AllowedAlong ==
    ASSUME ways \in Extracts, NEW x, NEW y
    PROVE  y \in Allowed(x) <=>
              /\ y \in box.inside
              /\ \E id \in PartIds : \E j \in 1 .. Len(PartOf(id)) - 1 : Along(id, j, x, y)
<1>1. ASSUME NEW id \in PartIds, NEW j \in 1 .. Len(PartOf(id)) - 1, Along(id, j, x, y)
      PROVE  \E i \in DOMAIN ways : \E k \in 1 .. Len(ways[i].refs) - 1 : StepOfWay(i, k, x, y)
  <2>1. id[1] \in DOMAIN ways /\ \E a, b : Between(id, a, b)
    BY PartsAreSeqs
  <2> QED BY <1>1, <2>1, StepsAlong
<1>2. ASSUME NEW i \in DOMAIN ways, NEW k \in 1 .. Len(ways[i].refs) - 1, StepOfWay(i, k, x, y)
      PROVE  \E id \in PartIds : \E j \in 1 .. Len(PartOf(id)) - 1 : Along(id, j, x, y)
  <2>1. PICK first : /\ \A id \in PartIds : Between(id, first[id], NextCut(ways[id[1]], first[id]))
                     /\ \A h \in DOMAIN ways : \A c \in Starts(ways[h]) :
                            \E id \in PartIds : id[1] = h /\ first[id] = c
    BY PartBetween
  <2>2. PICK w : w = ways[i]
    OBVIOUS
  <2>3. WayOk(w)
    BY <2>2, WaysAre
  <2>4. PICK n \in Nat : n = Len(w.refs) /\ n >= 2
    BY <2>3 DEF WayOk
  <2>5. /\ SplitIndices(w) \in SUBSET (1 .. n) /\ 1 \in SplitIndices(w)
        /\ \A c \in Starts(w) : Neighbours(w, c, NextCut(w, c))
    BY <2>3, <2>4, CutsAre
  <2>6. PICK T : T = {c \in SplitIndices(w) : c <= k}
    OBVIOUS
  <2>7. k \in 1 .. n - 1 /\ 1 \in T /\ T \in SUBSET (1 .. n - 1)
    BY <2>2, <2>4, <2>5, <2>6
  <2>8. PICK c \in T : \A d \in T : d <= c
    <3>1. IsFiniteSet(1 .. n - 1)
      BY <2>4, FS_Interval
    <3>2. IsFiniteSet(T)
      BY <2>7, <3>1, FS_Subset
    <3>3. T # {} /\ \A d \in T : d \in Int
      BY <2>4, <2>7
    <3> QED BY <3>2, <3>3, MaxAbove
  <2>9. c \in Starts(w) /\ c <= k
    BY <2>4, <2>6, <2>7 DEF Starts
  <2>10. PICK id \in PartIds : id[1] = i /\ first[id] = c
    BY <2>1, <2>2, <2>9
  <2>11. PICK b : b = NextCut(w, c)
    OBVIOUS
  <2>12. Between(id, c, b) /\ Neighbours(w, c, b)
    BY <2>1, <2>2, <2>5, <2>9, <2>10, <2>11
  <2>13. b \in SplitIndices(w) /\ b \in 1 .. n /\ c < b /\ b \notin T
    <3>1. b \in SplitIndices(w) /\ b \in 1 .. n /\ c < b
      BY <2>5, <2>12 DEF Neighbours
    <3>2. b \notin T
      BY <2>4, <2>7, <2>8, <3>1
    <3> QED BY <3>1, <3>2
  <2>14. k \in c .. b - 1
    BY <2>4, <2>6, <2>7, <2>9, <2>13
  <2> QED BY <1>2, <2>10, <2>12, <2>14, StepsAlong
<1> QED BY <1>1, <1>2, AllowedIs

-----------------------------------------------------------------------------
(* The segments, and what is imported of them.                             *)

SegmentsOfPart(i, p, part, lanes) ==
    LET fragments == Fragments(part)
    IN  [f \in DOMAIN fragments |->
            [start |-> Identity(Head(fragments[f]), Head(part), <<"clip", i, p, f, "start">>),
             end |-> Identity(Last(fragments[f]), Last(part), <<"clip", i, p, f, "end">>),
             lanes |-> lanes]]
Drafts(i, lanes) ==
    [p \in DOMAIN Parts(ways[i]) |-> SegmentsOfPart(i, p, Parts(ways[i])[p], lanes)]

(* A segment depends on the ways, the box and the policy only. *)
LEMMA InputsStay ==
    ASSUME ways' = ways, box' = box, policy' = policy
    PROVE  /\ \A i, lanes : SegmentsOf(i, lanes)' = SegmentsOf(i, lanes)
           /\ \A w : DirectionalLanes(w)' = DirectionalLanes(w)
           /\ \A x : Allowed(x)' = Allowed(x)
           /\ RefNodes' = RefNodes
<1>1. \A x : Occurrences(x)' = Occurrences(x)
  BY DEF Occurrences
<1>2. \A x : Shared(x)' <=> Shared(x)
  BY <1>1 DEF Shared
<1>3. \A w : SplitIndices(w)' = SplitIndices(w)
  BY <1>2 DEF SplitIndices
<1>4. \A w : Parts(w)' = Parts(w)
  <2>1. \A w : Parts(w) = PartsFrom(w) /\ Parts(w)' = PartsFrom(w)'
    BY DEF Parts, PartsFrom, Run, NextCut, NthCut, Starts
  <2>2. \A w : Starts(w)' = Starts(w) /\ \A k : NextCut(w, k)' = NextCut(w, k)
    BY <1>3 DEF Starts, NextCut
  <2>3. \A w : PartsFrom(w)' = PartsFrom(w)
    BY <2>2 DEF PartsFrom
  <2> QED BY <2>1, <2>3
<1>5. \A a, b : ClipSegment(a, b)' = ClipSegment(a, b)
  BY DEF ClipSegment
<1>6. \A P : Fragments(P)' = Fragments(P)
  BY <1>5 DEF Fragments
<1>7. \A i, lanes : SegmentsOf(i, lanes)' = SegmentsOf(i, lanes)
  <2>1. ASSUME NEW i, NEW lanes
        PROVE  /\ SegmentsOf(i, lanes) = FlattenSeq(Drafts(i, lanes))
               /\ SegmentsOf(i, lanes)' = FlattenSeq(Drafts(i, lanes)')
    BY DEF SegmentsOf, Drafts, SegmentsOfPart
  <2>2. \A i, p, part, lanes : SegmentsOfPart(i, p, part, lanes)' = SegmentsOfPart(i, p, part, lanes)
    BY <1>6 DEF SegmentsOfPart
  <2>3. \A i : Parts(ways[i])' = Parts(ways[i])
    BY <1>4
  <2>4. \A i, lanes : Drafts(i, lanes)' = Drafts(i, lanes)
    BY <2>2, <2>3 DEF Drafts
  <2> QED BY <2>1, <2>4
<1>8. \A w : DirectionalLanes(w)' = DirectionalLanes(w)
  BY DEF DirectionalLanes, OneWayLanes, TwoWayLanes
<1>9. \A x : Allowed(x)' = Allowed(x)
  BY DEF Allowed
<1>10. RefNodes' = RefNodes
  BY DEF RefNodes
<1> QED BY <1>7, <1>8, <1>9, <1>10

(* What was drawn of a way, as a set. *)
Seg(id, f, lanes) == SegmentsOfPart(id[1], id[2], PartOf(id), lanes)[f]
SegsOf(i, lanes) ==
    UNION {{Seg(id, f, lanes) : f \in DOMAIN Fragments(PartOf(id))} : id \in {d \in PartIds : d[1] = i}}

LEMMA SegmentsAre ==
    ASSUME ways \in Extracts, NEW i \in DOMAIN ways, NEW lanes
    PROVE  /\ SegmentsOf(i, lanes) \in Seq(SegsOf(i, lanes))
           /\ Range(SegmentsOf(i, lanes)) = SegsOf(i, lanes)
<1>1. SegmentsOf(i, lanes) = FlattenSeq(Drafts(i, lanes))
  BY DEF SegmentsOf, Drafts, SegmentsOfPart
<1>2. PICK n \in Nat : DOMAIN Parts(ways[i]) = 1 .. n
  <2>1. WayOk(ways[i])
    BY WaysAre
  <2> QED BY <2>1, PartsList
<1>3. PICK T, d : T = SegsOf(i, lanes) /\ d = Drafts(i, lanes)
  OBVIOUS
<1>4. DOMAIN d = 1 .. n /\ d = [p \in 1 .. n |-> d[p]]
  BY <1>2, <1>3 DEF Drafts
<1>5. ASSUME NEW p \in 1 .. n
      PROVE  /\ <<i, p>> \in PartIds /\ d[p] \in Seq(T)
             /\ Range(d[p]) = {Seg(<<i, p>>, f, lanes) : f \in DOMAIN Fragments(PartOf(<<i, p>>))}
  <2>1. PICK id : id = <<i, p>>
    OBVIOUS
  <2>2. id \in PartIds /\ id[1] = i /\ id[2] = p /\ PartOf(id) = Parts(ways[i])[p]
    BY <1>2, <2>1 DEF PartIds, PartOf
  <2>3. d[p] = SegmentsOfPart(id[1], id[2], PartOf(id), lanes)
    BY <1>2, <1>3, <2>2 DEF Drafts
  <2>4. PICK m \in Nat : DOMAIN Fragments(PartOf(id)) = 1 .. m
    <3>1. PartOf(id) \in Seq(RefNodes) /\ Len(PartOf(id)) >= 2
      BY <2>2, PartsAreSeqs
    <3>2. Fragments(PartOf(id)) \in Seq(Strokes(RefNodes))
      BY <3>1, FragmentsAre
    <3> QED BY <3>2
  <2>5. DOMAIN d[p] = 1 .. m /\ d[p] = [f \in 1 .. m |-> d[p][f]]
    BY <2>3, <2>4 DEF SegmentsOfPart
  <2>6. \A f \in 1 .. m : d[p][f] = Seg(id, f, lanes)
    BY <2>3 DEF Seg
  <2>7. \A f \in 1 .. m : Seg(id, f, lanes) \in T
    BY <1>3, <2>2, <2>4 DEF SegsOf
  <2>8. d[p] \in Seq(T)
    BY <2>5, <2>6, <2>7, SeqIntro
  <2>9. Range(d[p]) = {Seg(id, f, lanes) : f \in 1 .. m}
    BY <2>5, <2>6 DEF Range
  <2> QED BY <2>1, <2>2, <2>4, <2>8, <2>9
<1>6. d \in Seq(Seq(T))
  BY <1>4, <1>5, SeqIntro
<1>7. FlattenSeq(d) \in Seq(T) /\ Range(FlattenSeq(d)) = UNION {Range(d[p]) : p \in DOMAIN d}
  BY <1>6, FlattenRange
<1>8. T \in SUBSET UNION {Range(d[p]) : p \in DOMAIN d}
  <2> SUFFICES ASSUME NEW id \in PartIds, id[1] = i, NEW f \in DOMAIN Fragments(PartOf(id))
               PROVE  Seg(id, f, lanes) \in UNION {Range(d[p]) : p \in DOMAIN d}
    BY <1>3 DEF SegsOf
  <2>1. id[2] \in 1 .. n /\ id = <<i, id[2]>>
    BY <1>2 DEF PartIds
  <2>2. Seg(id, f, lanes) \in Range(d[id[2]])
    BY <1>5, <2>1
  <2> QED BY <1>4, <2>1, <2>2
<1>9. Range(FlattenSeq(d)) \in SUBSET T
  BY <1>7 DEF Range
<1> QED BY <1>1, <1>3, <1>7, <1>8, <1>9

(* A segment and its ends. *)
LEMMA SegIs ==
    ASSUME NEW id, NEW lanes, NEW f \in DOMAIN Fragments(PartOf(id))
    PROVE  LET F == Fragments(PartOf(id))
               s == Seg(id, f, lanes)
           IN  /\ s.start = Identity(Head(F[f]), Head(PartOf(id)), <<"clip", id[1], id[2], f, "start">>)
               /\ s.end = Identity(Last(F[f]), Last(PartOf(id)), <<"clip", id[1], id[2], f, "end">>)
               /\ s.lanes = lanes
BY DEF Seg, SegmentsOfPart

(* Tags that are not refused give one count of lanes for each direction.   *)
LEMMA LanesAreGiven ==
    ASSUME NEW w, WayOk(w), NEW lanes \in DirectionalLanes(w)
    PROVE  /\ \A other \in DirectionalLanes(w) : other = lanes
           /\ lanes[1] \in Nat \ {0} /\ lanes[2] \in Nat
           /\ lanes[2] > 0 <=> w.oneway = "both"
<1>1. PICK total, forward, backward \in Nat :
        total = w.total /\ forward = w.forward /\ backward = w.backward
  BY DEF WayOk
<1>2. ASSUME NEW along \in Nat, NEW against \in Nat, NEW l \in OneWayLanes(total, along, against)
      PROVE  /\ \A other \in OneWayLanes(total, along, against) : other = l
             /\ l[1] \in Nat \ {0} /\ l[2] = 0
  <2>1. PICK most : most = Max({1, total - against})
    OBVIOUS
  <2>2. most \in Nat \ {0}
    <3>1. PICK S : S = {1, total - against}
      OBVIOUS
    <3>2. IsFiniteSet(S)
      <4>1. PICK A, B : A = {1} /\ B = {total - against}
        OBVIOUS
      <4>2. IsFiniteSet(A) /\ IsFiniteSet(B) /\ S = A \cup B
        BY <3>1, <4>1, FS_Singleton
      <4> QED BY <4>2, FS_Union
    <3>3. S # {} /\ 1 \in S /\ \A x \in S : x \in Int
      BY <3>1
    <3>4. most \in S /\ 1 <= most
      BY <2>1, <3>1, <3>2, <3>3, MaxAbove
    <3> QED BY <3>3, <3>4
  <2> DEFINE drivable == IF Tagged(against) /\ ~ Tagged(along) /\ Tagged(total) THEN most ELSE along
             count == IF Tagged(drivable) THEN drivable ELSE IF Tagged(total) THEN total ELSE 1
  <2>3. count \in Nat \ {0}
    BY <2>2 DEF Tagged, Untagged
  <2>4. OneWayLanes(total, along, against) \in SUBSET {<<count, 0>>}
    BY <2>1 DEF OneWayLanes
  <2> HIDE DEF count
  <2>5. l = <<count, 0>> /\ \A other \in OneWayLanes(total, along, against) : other = l
    BY <2>4
  <2> QED BY <2>3, <2>5
<1>3. ASSUME NEW l \in TwoWayLanes(total, forward, backward)
      PROVE  /\ \A other \in TwoWayLanes(total, forward, backward) : other = l
             /\ l[1] \in Nat \ {0} /\ l[2] \in Nat \ {0}
  <2> DEFINE ahead == IF Tagged(forward) THEN forward
                      ELSE IF Tagged(backward) THEN total - backward ELSE (total + 1) \div 2
             back == IF Tagged(backward) THEN backward ELSE total - ahead
  <2>1. (total + 1) \div 2 \in Int
    OBVIOUS
  <2>2. ahead \in Int /\ back \in Int
    BY <2>1
  <2>3. OneOr(forward) \in Nat \ {0} /\ OneOr(backward) \in Nat \ {0}
    BY DEF OneOr, Tagged, Untagged
  <2>4. \/ TwoWayLanes(total, forward, backward) \in SUBSET {<<OneOr(forward), OneOr(backward)>>}
        \/ TwoWayLanes(total, forward, backward) \in SUBSET {<<1, 1>>}
        \/ TwoWayLanes(total, forward, backward) \in
              SUBSET {c \in {<<ahead, back>>} : c[1] >= 1 /\ c[2] >= 1}
    BY DEF TwoWayLanes
  <2> HIDE DEF ahead, back
  <2>5. PICK a, b : /\ a \in Int /\ b \in Int
                    /\ \A other \in TwoWayLanes(total, forward, backward) : other = <<a, b>> /\ a >= 1 /\ b >= 1
    <3>1. CASE TwoWayLanes(total, forward, backward) \in SUBSET {<<OneOr(forward), OneOr(backward)>>}
      <4>1. PICK a, b : a = OneOr(forward) /\ b = OneOr(backward)
        OBVIOUS
      <4>2. a \in Int /\ b \in Int /\ a >= 1 /\ b >= 1
        BY <2>3, <4>1
      <4> QED BY <3>1, <4>1, <4>2
    <3>2. CASE TwoWayLanes(total, forward, backward) \in SUBSET {<<1, 1>>}
      <4>1. PICK a, b : a = 1 /\ b = 1
        OBVIOUS
      <4> QED BY <3>2, <4>1
    <3>3. CASE TwoWayLanes(total, forward, backward) \in
                 SUBSET {c \in {<<ahead, back>>} : c[1] >= 1 /\ c[2] >= 1}
      <4>1. PICK a, b : a = ahead /\ b = back
        OBVIOUS
      <4>2. a \in Int /\ b \in Int
        BY <2>2, <4>1
      <4>3. \A other \in TwoWayLanes(total, forward, backward) : other = <<a, b>> /\ other[1] >= 1 /\ other[2] >= 1
        BY <3>3, <4>1
      <4>4. \A other \in TwoWayLanes(total, forward, backward) : other = <<a, b>> /\ a >= 1 /\ b >= 1
        BY <4>3
      <4> QED BY <4>2, <4>4
    <3> QED BY <2>4, <3>1, <3>2, <3>3
  <2>6. l = <<a, b>> /\ a >= 1 /\ b >= 1
    BY <2>5
  <2>7. l[1] = a /\ l[2] = b
    BY <2>6
  <2> QED BY <2>5, <2>6, <2>7
<1>4. w.oneway \in {"both", "forward", "reverse"}
  BY DEF WayOk
<1>5. CASE w.oneway = "both"
  BY <1>1, <1>3, <1>5 DEF DirectionalLanes
<1>6. CASE w.oneway = "forward"
  BY <1>1, <1>2, <1>6 DEF DirectionalLanes
<1>7. CASE w.oneway = "reverse"
  BY <1>1, <1>2, <1>7 DEF DirectionalLanes
<1> QED BY <1>4, <1>5, <1>6, <1>7

-----------------------------------------------------------------------------
(* The compiled network.                                                   *)
EndsOfAll(S) == {s.start : s \in S} \cup {s.end : s \in S}

LEMMA KnowingRange ==
    ASSUME NEW T, NEW known \in Seq(T), NEW x \in T
    PROVE  Knowing(known, x) \in Seq(T) /\ Range(Knowing(known, x)) = Range(known) \cup {x}
<1>1. CASE x \in Range(known)
  BY <1>1 DEF Knowing
<1>2. CASE x \notin Range(known)
  <2>1. Knowing(known, x) = Append(known, x)
    BY <1>2 DEF Knowing
  <2> QED BY <2>1, AppendRange, AppendProperties
<1> QED BY <1>1, <1>2

KnowBoth(known, s) == Knowing(Knowing(known, s.start), s.end)

(* The list of nodes has the ends of every segment. *)
LEMMA NodeListIs ==
    ASSUME NEW S, segments \in Seq(S)
    PROVE  NodeList \in Seq(Range(NodeList)) /\ Range(NodeList) = EndsOfAll(Range(segments))
<1>0. PICK n \in Nat : n = Len(segments)
  OBVIOUS
<1>1. PICK s : n = Len(segments) /\ s = segments /\ DOMAIN s = 1 .. n
  BY <1>0
<1>2. PICK D : D = 1 .. n
  OBVIOUS
<1>3. IsFiniteSet(D) /\ D \in SUBSET Nat /\ D \in SUBSET D
  BY <1>2, FS_Interval
<1>4. PICK T : T = EndsOfAll(Range(s))
  OBVIOUS
<1>5. \A k \in D : s[k].start \in T /\ s[k].end \in T
  BY <1>1, <1>2, <1>4 DEF EndsOfAll, Range
<1> DEFINE st == [p \in D \X Seq(T) |-> KnowBoth(p[2], s[p[1]])]
<1>6. st \in [D \X Seq(T) -> Seq(T)] /\ \A k \in D : \A q \in Seq(T) : st[<<k, q>>] = KnowBoth(q, s[k])
  <2>1. ASSUME NEW k \in D, NEW q \in Seq(T) PROVE KnowBoth(q, s[k]) \in Seq(T)
    BY <1>5, KnowingRange DEF KnowBoth
  <2> QED BY <2>1
<1> HIDE DEF st
<1>7. <<>> \in Seq(T)
  OBVIOUS
<1>8. PICK g : FoldsOver(g, <<>>, st, D)
  BY <1>3, FoldExists
<1>9. \A U \in SUBSET D : g[U] \in Seq(T)
  BY <1>3, <1>6, <1>7, <1>8, FoldWithin
<1>10. \A U \in SUBSET D : FoldStep(<<>>, st, g, U) = KnowStep(g, U)
  <2> SUFFICES ASSUME NEW U \in SUBSET D, U # {}
               PROVE  FoldStep(<<>>, st, g, U) = KnowStep(g, U)
    BY DEF FoldStep, KnowStep
  <2>1. Max(U) \in D /\ U \ {Max(U)} \in SUBSET D
    BY <1>3, GreatestRemoved
  <2>2. st[<<Max(U), g[U \ {Max(U)}]>>] = KnowBoth(g[U \ {Max(U)}], s[Max(U)])
    BY <1>6, <1>9, <2>1
  <2> QED BY <1>1, <2>2 DEF FoldStep, KnowStep, KnowBoth
<1>11. g = [U \in SUBSET DOMAIN segments |-> KnowStep(g, U)]
  BY <1>1, <1>2, <1>8, <1>10 DEF FoldsOver
<1>12. PICK h : h = Knows
  OBVIOUS
<1>13. h = [U \in SUBSET DOMAIN segments |-> KnowStep(h, U)]
  BY <1>11, <1>12 DEF Knows
<1>14. \A U \in SUBSET D : h[U] = KnowStep(h, U)
  BY <1>1, <1>2, <1>13
<1> DEFINE good(U) == h[U] \in Seq(T) /\ Range(h[U]) = EndsOfAll({s[k] : k \in U})
           bad == {U \in SUBSET D : ~ good(U)}
<1>15. bad = {}
  <2> SUFFICES ASSUME bad # {} PROVE FALSE
    OBVIOUS
  <2>1. PICK U \in bad : \A W \in bad : Cardinality(U) <= Cardinality(W)
    BY <1>3, SmallestExists
  <2>2. U \in SUBSET D /\ ~ good(U) /\ h[U] = KnowStep(h, U)
    BY <1>14
  <2>3. U # {}
    <3> SUFFICES ASSUME U = {} PROVE good(U)
      BY <2>2
    <3>1. h[U] = <<>>
      BY <2>2 DEF KnowStep
    <3>2. Range(<<>>) = {} /\ EndsOfAll({}) = {}
      BY DEF Range, EndsOfAll
    <3>3. {s[k] : k \in U} = {}
      OBVIOUS
    <3> QED BY <1>7, <3>1, <3>2, <3>3
  <2>4. PICK m, rest : m = Max(U) /\ rest = U \ {m}
    OBVIOUS
  <2>5. m \in U /\ m \in D /\ rest \in SUBSET D /\ Cardinality(U) \in Nat \ {0} /\ Cardinality(rest) = Cardinality(U) - 1
    BY <1>3, <2>2, <2>3, <2>4, GreatestRemoved
  <2>6. good(rest)
    <3>1. rest \notin bad
      <4> HIDE DEF bad
      <4> QED BY <2>1, <2>5
    <3> QED BY <2>5, <3>1
  <2>7. PICK q : q = h[rest]
    OBVIOUS
  <2>8. h[U] = KnowBoth(q, s[m])
    BY <1>1, <2>2, <2>3, <2>4, <2>7 DEF KnowStep, KnowBoth
  <2>9. q \in Seq(T) /\ Range(q) = EndsOfAll({s[k] : k \in rest})
    BY <2>6, <2>7
  <2>10. /\ KnowBoth(q, s[m]) \in Seq(T)
         /\ Range(KnowBoth(q, s[m])) = (Range(q) \cup {s[m].start}) \cup {s[m].end}
    <3>1. PICK a, b : a = s[m].start /\ b = s[m].end
      OBVIOUS
    <3>2. a \in T /\ b \in T
      BY <1>5, <2>5, <3>1
    <3>3. PICK u : u = Knowing(q, a)
      OBVIOUS
    <3>4. u \in Seq(T) /\ Range(u) = Range(q) \cup {a}
      <4>1. q \in Seq(T)
        BY <2>9
      <4>2. Knowing(q, a) \in Seq(T)
        BY ONLY <3>2, <4>1, KnowingRange
      <4>3. Range(Knowing(q, a)) = Range(q) \cup {a}
        BY ONLY <3>2, <4>1, KnowingRange
      <4> QED BY <3>3, <4>2, <4>3
    <3>5. Knowing(u, b) \in Seq(T) /\ Range(Knowing(u, b)) = Range(u) \cup {b}
      <4>1. u \in Seq(T)
        BY <3>4
      <4>2. Knowing(u, b) \in Seq(T)
        BY ONLY <3>2, <4>1, KnowingRange
      <4>3. Range(Knowing(u, b)) = Range(u) \cup {b}
        BY ONLY <3>2, <4>1, KnowingRange
      <4> QED BY <4>2, <4>3
    <3> QED BY <3>1, <3>3, <3>4, <3>5 DEF KnowBoth
  <2>11. PICK y, A, B : y = s[m] /\ A = {s[k] : k \in rest} /\ B = {s[k] : k \in U} /\ B = A \cup {y}
    <3>1. {s[k] : k \in U} = {s[k] : k \in rest} \cup {s[m]}
      BY <2>4, <2>5
    <3> QED BY <3>1
  <2>12. EndsOfAll(A \cup {y}) = (EndsOfAll(A) \cup {y.start}) \cup {y.end}
    BY DEF EndsOfAll
  <2>13. Range(h[U]) = EndsOfAll(B)
    BY <2>8, <2>9, <2>10, <2>11, <2>12
  <2> QED BY <2>2, <2>8, <2>10, <2>11, <2>13
<1>16. good(D)
  BY <1>3, <1>15
<1>17. {s[k] : k \in D} = Range(s)
  BY <1>1, <1>2 DEF Range
<1>18. NodeList = h[D]
  BY <1>1, <1>2, <1>12, NodesAreFold
<1>19. PICK q : q = h[D]
  OBVIOUS
<1>20. q \in Seq(T) /\ Range(q) = T
  BY <1>4, <1>16, <1>17, <1>19
<1> QED BY <1>1, <1>4, <1>18, <1>19, <1>20

(* The links of a segment. *)
LaneLinks(from, to, lanes) ==
    IF lanes > 0 THEN {[src |-> from, dst |-> to, lanes |-> lanes]} ELSE {}
LinksOfOne(s) == LaneLinks(s.start, s.end, s.lanes[1]) \cup LaneLinks(s.end, s.start, s.lanes[2])

LEMMA LinksOfSegmentAre ==
    ASSUME NEW s
    PROVE  LinksOfSegment(s) \in Seq(LinksOfOne(s)) /\ Range(LinksOfSegment(s)) = LinksOfOne(s)
<1> DEFINE link(from, to, lanes) ==
             IF lanes > 0 THEN <<[src |-> from, dst |-> to, lanes |-> lanes]>> ELSE <<>>
           ahead == link(s.start, s.end, s.lanes[1])
           back == link(s.end, s.start, s.lanes[2])
           T == LinksOfOne(s)
<1>1. LinksOfSegment(s) = ahead \o back
  BY DEF LinksOfSegment
<1>2. ASSUME NEW from, NEW to, NEW lanes, LaneLinks(from, to, lanes) \in SUBSET T
      PROVE  link(from, to, lanes) \in Seq(T) /\ Range(link(from, to, lanes)) = LaneLinks(from, to, lanes)
  <2>1. CASE lanes > 0
    <3>1. PICK l : l = [src |-> from, dst |-> to, lanes |-> lanes]
      OBVIOUS
    <3>2. link(from, to, lanes) = <<l>> /\ LaneLinks(from, to, lanes) = {l} /\ l \in T
      BY <1>2, <2>1, <3>1 DEF LaneLinks
    <3>3. <<>> \in Seq(T) /\ Append(<<>>, l) = <<l>> /\ Range(<<>>) = {}
      BY DEF Range
    <3>4. Range(<<l>>) = {l} /\ <<l>> \in Seq(T)
      <4>1. PICK e : e = <<>>
        OBVIOUS
      <4>2. e \in Seq(T) /\ l \in T /\ Append(e, l) = <<l>> /\ Range(e) = {}
        BY <3>2, <3>3, <4>1
      <4>3. Range(Append(e, l)) = Range(e) \cup {l} /\ Append(e, l) \in Seq(T)
        <5>1. e \in Seq(T) /\ l \in T
          BY <4>2
        <5>2. Range(Append(e, l)) = Range(e) \cup {l}
          BY ONLY <5>1, AppendRange
        <5>3. Append(e, l) \in Seq(T)
          BY ONLY <5>1, AppendProperties
        <5> QED BY <5>2, <5>3
      <4> QED BY <4>2, <4>3
    <3> QED BY <3>2, <3>4
  <2>2. CASE ~ (lanes > 0)
    <3>1. link(from, to, lanes) = <<>> /\ LaneLinks(from, to, lanes) = {}
      BY <2>2 DEF LaneLinks
    <3>2. Range(<<>>) = {} /\ <<>> \in Seq(T)
      BY DEF Range
    <3> QED BY <3>1, <3>2
  <2> QED BY <2>1, <2>2
<1> HIDE DEF link, T
<1>3. /\ ahead \in Seq(T) /\ Range(ahead) = LaneLinks(s.start, s.end, s.lanes[1])
      /\ back \in Seq(T) /\ Range(back) = LaneLinks(s.end, s.start, s.lanes[2])
  BY <1>2 DEF LinksOfOne, T
<1> HIDE DEF ahead, back
<1>4. ahead \o back \in Seq(T) /\ Range(ahead \o back) = Range(ahead) \cup Range(back)
  BY <1>3, ConcatRange
<1> QED BY <1>1, <1>3, <1>4 DEF LinksOfOne, T

-----------------------------------------------------------------------------
(* The invariant: the segments are those of the ways that were read, and   *)
(* what was compiled is made of all of them.                               *)
SegmentsUpTo(n) ==
    UNION {UNION {Range(SegmentsOf(i, lanes)) : lanes \in DirectionalLanes(ways[i])} : i \in 1 .. n}
Compiled ==
    /\ \A s \in Range(segments) : s.start # s.end
    /\ identities \in Seq(Range(identities)) /\ Range(identities) = EndsOfAll(Range(segments))
    /\ Range(network) = UNION {LinksOfOne(s) : s \in Range(segments)}
SegmentsRead ==
    /\ ways \in Extracts /\ read \in Nat /\ read <= Len(ways)
    /\ segments \in Seq(Range(segments)) /\ Range(segments) = SegmentsUpTo(read)
    /\ \A i \in 1 .. read : DirectionalLanes(ways[i]) # {}
OutcomeIs ==
    /\ outcome = "imported" => read = Len(ways) /\ Compiled
    /\ outcome = "no geometry" => read = Len(ways) /\ Range(segments) = {}
    /\ outcome = "closed centerline" => read = Len(ways) /\ \E s \in Range(segments) : s.start = s.end
OsmInv == SegmentsRead /\ OutcomeIs

LEMMA UpToHas ==
    ASSUME NEW n, NEW s
    PROVE  s \in SegmentsUpTo(n) <=>
              \E i \in 1 .. n : \E lanes \in DirectionalLanes(ways[i]) : s \in Range(SegmentsOf(i, lanes))
BY DEF SegmentsUpTo

LEMMA OsmStarts == OsmInit => OsmInv
<1> SUFFICES ASSUME OsmInit PROVE OsmInv
  OBVIOUS
<1>1. ways \in Extracts /\ read = 0 /\ segments = <<>> /\ outcome = "reading"
  BY DEF OsmInit, OsmStart
<1>2. Len(ways) \in Nat
  BY <1>1, WaysAre
<1>3. 1 .. 0 = {} /\ Range(<<>>) = {}
  BY DEF Range
<1>4. SegmentsUpTo(0) = {}
  BY <1>3 DEF SegmentsUpTo
<1>5. segments \in Seq(Range(segments)) /\ Range(segments) = SegmentsUpTo(read)
  <2>1. Range(segments) = {} /\ <<>> \in Seq({})
    BY <1>1, <1>3
  <2> QED BY <1>1, <1>4, <2>1
<1> QED BY <1>1, <1>2, <1>3, <1>5 DEF OsmInv, SegmentsRead, OutcomeIs

LEMMA UpToStays ==
    ASSUME ways' = ways, box' = box, policy' = policy, NEW n
    PROVE  SegmentsUpTo(n)' = SegmentsUpTo(n)
<1>1. \A i, lanes : SegmentsOf(i, lanes)' = SegmentsOf(i, lanes)
  BY InputsStay
<1>2. \A i : DirectionalLanes(ways[i])' = DirectionalLanes(ways[i])
  BY InputsStay
<1> QED BY <1>1, <1>2 DEF SegmentsUpTo

LEMMA OsmReadsWay ==
    ASSUME OsmInv, ReadWay
    PROVE  OsmInv'
<1>1. /\ outcome = "reading" /\ read < Len(ways) /\ read' = read + 1 /\ outcome' = outcome
      /\ ways' = ways /\ box' = box /\ policy' = policy
  BY DEF ReadWay
<1>2. SegmentsRead
  BY DEF OsmInv
<1>3. PICK n \in Nat : n = read
  BY <1>2 DEF SegmentsRead
<1>4. PICK lanes \in DirectionalLanes(ways[n + 1]) : segments' = segments \o SegmentsOf(n + 1, lanes)
  BY <1>3 DEF ReadWay
<1>5. n + 1 \in DOMAIN ways /\ n + 1 <= Len(ways) /\ Len(ways) \in Nat
  BY <1>1, <1>2, <1>3, WaysAre DEF SegmentsRead
<1>6. WayOk(ways[n + 1])
  BY <1>2, <1>5, WaysAre DEF SegmentsRead
<1>7. DirectionalLanes(ways[n + 1]) = {lanes}
  BY <1>6, LanesAreGiven
<1>8. PICK a, b : a = segments /\ b = SegmentsOf(n + 1, lanes)
  OBVIOUS
<1>9. a \in Seq(Range(a)) /\ b \in Seq(Range(b))
  <2>1. a \in Seq(Range(a))
    BY <1>2, <1>8 DEF SegmentsRead
  <2>2. b \in Seq(Range(b))
    BY <1>2, <1>5, <1>8, SegmentsAre DEF SegmentsRead
  <2> QED BY <2>1, <2>2
<1>10. a \o b \in Seq(Range(a) \cup Range(b)) /\ Range(a \o b) = Range(a) \cup Range(b)
  <2>1. PICK T : T = Range(a) \cup Range(b)
    OBVIOUS
  <2>2. a \in Seq(T) /\ b \in Seq(T)
    BY <1>9, <2>1
  <2>3. a \o b \in Seq(T)
    BY ONLY <2>2, ConcatRange
  <2>4. Range(a \o b) = Range(a) \cup Range(b)
    BY ONLY <2>2, ConcatRange
  <2> QED BY <2>1, <2>3, <2>4
<1>11. SegmentsUpTo(n + 1) = SegmentsUpTo(n) \cup Range(b)
  <2>1. 1 .. n + 1 = (1 .. n) \cup {n + 1}
    OBVIOUS
  <2>2. UNION {Range(SegmentsOf(n + 1, l)) : l \in DirectionalLanes(ways[n + 1])} = Range(b)
    BY <1>7, <1>8
  <2>3. ASSUME NEW s PROVE s \in SegmentsUpTo(n + 1) <=> s \in SegmentsUpTo(n) \/ s \in Range(b)
    <3>1. s \in Range(b) <=> \E l \in DirectionalLanes(ways[n + 1]) : s \in Range(SegmentsOf(n + 1, l))
      BY <2>2
    <3> QED BY <2>1, <3>1, UpToHas
  <2> QED BY <2>3
<1>12. segments' = a \o b /\ Range(a) = SegmentsUpTo(n)
  BY <1>2, <1>3, <1>4, <1>8 DEF SegmentsRead
<1>13. SegmentsUpTo(n + 1)' = SegmentsUpTo(n + 1)
  BY <1>1, UpToStays
<1>14. \A i \in 1 .. n + 1 : DirectionalLanes(ways[i])' # {}
  <2>1. \A i : DirectionalLanes(ways[i])' = DirectionalLanes(ways[i])
    BY <1>1, InputsStay
  <2>2. ASSUME NEW i \in 1 .. n + 1 PROVE DirectionalLanes(ways[i]) # {}
    <3>1. i \in 1 .. n \/ i = n + 1
      OBVIOUS
    <3> QED BY <1>2, <1>3, <1>4, <3>1 DEF SegmentsRead
  <2> QED BY <2>1, <2>2
<1>15. SegmentsRead'
  <2>1. read' = n + 1 /\ (read <= Len(ways))' /\ (ways \in Extracts)'
    BY <1>1, <1>2, <1>3, <1>5 DEF SegmentsRead
  <2>2. (segments \in Seq(Range(segments)))' /\ Range(segments)' = SegmentsUpTo(n + 1)
    BY <1>10, <1>11, <1>12
  <2>3. Range(segments)' = SegmentsUpTo(read)'
    BY <1>13, <2>1, <2>2
  <2> QED BY <1>14, <2>1, <2>2, <2>3 DEF SegmentsRead
<1> QED BY <1>1, <1>15 DEF OsmInv, OutcomeIs

LEMMA SegmentsStay ==
    ASSUME SegmentsRead, ways' = ways, box' = box, policy' = policy, read' = read, segments' = segments
    PROVE  SegmentsRead'
<1>1. \A n : SegmentsUpTo(n)' = SegmentsUpTo(n)
  BY UpToStays
<1>2. \A i : DirectionalLanes(ways[i])' = DirectionalLanes(ways[i])
  BY InputsStay
<1>3. SegmentsUpTo(read)' = SegmentsUpTo(read)
  BY <1>1
<1> QED BY <1>2, <1>3 DEF SegmentsRead

LEMMA OsmRefusesShape ==
    ASSUME OsmInv, RefuseShape
    PROVE  OsmInv'
<1>1. /\ read = Len(ways) /\ (segments = <<>> \/ ClosedSegments # {}) /\ read' = read
      /\ outcome' = IF segments = <<>> THEN "no geometry" ELSE "closed centerline"
      /\ ways' = ways /\ box' = box /\ policy' = policy /\ segments' = segments
  BY DEF RefuseShape
<1>2. SegmentsRead'
  BY <1>1, SegmentsStay DEF OsmInv
<1>3. segments = <<>> => Range(segments) = {}
  BY DEF Range
<1>4. ASSUME segments # <<>> PROVE \E s \in Range(segments) : s.start = s.end
  <2>1. PICK k \in DOMAIN segments : segments[k].start = segments[k].end
    BY <1>1, <1>4 DEF ClosedSegments
  <2> QED BY <2>1 DEF Range
<1> QED BY <1>1, <1>2, <1>3, <1>4 DEF OsmInv, OutcomeIs

LEMMA OsmCompiles ==
    ASSUME OsmInv, Compile
    PROVE  OsmInv'
<1>1. /\ read = Len(ways) /\ ClosedSegments = {} /\ read' = read
      /\ ways' = ways /\ box' = box /\ policy' = policy /\ segments' = segments
      /\ outcome' = "imported" /\ identities' = NodeList
      /\ network' = FlattenSeq([k \in DOMAIN segments |-> LinksOfSegment(segments[k])])
  BY DEF Compile
<1>2. SegmentsRead'
  BY <1>1, SegmentsStay DEF OsmInv
<1>3. PICK s, n : s = segments /\ n = Len(segments)
  OBVIOUS
<1>4. s \in Seq(Range(s)) /\ n \in Nat /\ DOMAIN s = 1 .. n
  BY <1>3 DEF OsmInv, SegmentsRead
<1>5. \A t \in Range(s) : t.start # t.end
  BY <1>1, <1>3 DEF ClosedSegments, Range
<1>6. NodeList \in Seq(Range(NodeList)) /\ Range(NodeList) = EndsOfAll(Range(s))
  BY <1>3, <1>4, NodeListIs
<1>7. PICK d, T : d = [k \in DOMAIN s |-> LinksOfSegment(s[k])] /\ T = UNION {LinksOfOne(t) : t \in Range(s)}
  OBVIOUS
<1>8. ASSUME NEW k \in 1 .. n PROVE d[k] \in Seq(T) /\ Range(d[k]) = LinksOfOne(s[k])
  <2>1. d[k] = LinksOfSegment(s[k]) /\ s[k] \in Range(s)
    BY <1>4, <1>7 DEF Range
  <2>2. LinksOfOne(s[k]) \in SUBSET T
    BY <1>7, <2>1
  <2>3. LinksOfSegment(s[k]) \in Seq(LinksOfOne(s[k])) /\ Range(LinksOfSegment(s[k])) = LinksOfOne(s[k])
    BY LinksOfSegmentAre
  <2>4. LinksOfSegment(s[k]) \in Seq(T)
    BY <2>2, <2>3
  <2> QED BY <2>1, <2>3, <2>4
<1>9. DOMAIN d = 1 .. n /\ d \in Seq(Seq(T))
  <2>1. d = [k \in 1 .. n |-> d[k]]
    BY <1>4, <1>7
  <2> QED BY <1>4, <1>8, <2>1, SeqIntro
<1>10. Range(FlattenSeq(d)) = UNION {Range(d[k]) : k \in DOMAIN d}
  BY <1>9, FlattenRange
<1>11. Range(FlattenSeq(d)) = T
  <2>1. ASSUME NEW l \in T PROVE \E k \in 1 .. n : l \in Range(d[k])
    <3>1. PICK t \in Range(s) : l \in LinksOfOne(t)
      BY <1>7
    <3>2. PICK k \in 1 .. n : t = s[k]
      BY <1>4 DEF Range
    <3> QED BY <1>8, <3>1, <3>2
  <2>2. ASSUME NEW k \in 1 .. n, NEW l \in Range(d[k]) PROVE l \in T
    <3>1. s[k] \in Range(s) /\ l \in LinksOfOne(s[k])
      BY <1>4, <1>8 DEF Range
    <3> QED BY <1>7, <3>1
  <2> QED BY <1>9, <1>10, <2>1, <2>2
<1>12. network' = FlattenSeq(d) /\ segments' = s
  BY <1>1, <1>3, <1>7
<1>13. Compiled'
  <2>1. PICK e : e = NodeList
    OBVIOUS
  <2>2. identities' = e /\ e \in Seq(Range(e)) /\ Range(e) = EndsOfAll(Range(s))
    BY <1>1, <1>6, <2>1
  <2>3. (identities \in Seq(Range(identities)))' /\ Range(identities)' = EndsOfAll(Range(segments))'
    BY <1>12, <2>2
  <2>4. Range(network)' = T
    BY <1>11, <1>12
  <2>5. T = UNION {LinksOfOne(t) : t \in Range(segments)'}
    BY <1>7, <1>12
  <2> QED BY <1>5, <1>12, <2>3, <2>4, <2>5 DEF Compiled
<1> QED BY <1>1, <1>2, <1>13 DEF OsmInv, OutcomeIs

(* The segments are those of the ways read, the network has two links of   *)
(* each, and a refusal for the shape has its reason: import_osm_xml_text.  *)
THEOREM OsmInvariant == OsmSpec => []OsmInv
<1>1. OsmInit => OsmInv
  BY OsmStarts
<1>2. OsmInv /\ [OsmNext]_osmVars => OsmInv'
  <2> SUFFICES ASSUME OsmInv, [OsmNext]_osmVars PROVE OsmInv'
    OBVIOUS
  <2>1. CASE ReadWay
    BY <2>1, OsmReadsWay
  <2>2. CASE RefuseTags
    <3>1. /\ outcome' = "bad tags" /\ read' = read
          /\ ways' = ways /\ box' = box /\ policy' = policy /\ segments' = segments
      BY <2>2 DEF RefuseTags
    <3> QED BY <3>1, SegmentsStay DEF OsmInv, OutcomeIs
  <2>3. CASE RefuseShape
    BY <2>3, OsmRefusesShape
  <2>4. CASE Compile
    BY <2>4, OsmCompiles
  <2>5. CASE UNCHANGED osmVars
    <3>1. SegmentsRead'
      BY <2>5, SegmentsStay DEF OsmInv, osmVars
    <3>2. Compiled => Compiled'
      BY <2>5 DEF Compiled, osmVars
    <3> QED BY <2>5, <3>1, <3>2 DEF OsmInv, OutcomeIs, osmVars
  <2> QED BY <2>1, <2>2, <2>3, <2>4, <2>5 DEF OsmNext
<1> QED BY <1>1, <1>2, PTL DEF OsmSpec


-----------------------------------------------------------------------------
(* The segments of an import that read every way.                          *)
AllRead == SegmentsRead /\ read = Len(ways)
PartLanes(id) == DirectionalLanes(ways[id[1]])

LEMMA AllSegments ==
    ASSUME AllRead
    PROVE  /\ \A s : s \in Range(segments) <=>
                \E id \in PartIds : \E f \in DOMAIN Fragments(PartOf(id)) : \E lanes \in PartLanes(id) : s = Seg(id, f, lanes)
           /\ \A id \in PartIds : PartLanes(id) # {}
<1>1. ways \in Extracts /\ DOMAIN ways = 1 .. Len(ways) /\ Len(ways) \in Nat
  BY WaysAre DEF AllRead, SegmentsRead
<1>2. Range(segments) = SegmentsUpTo(Len(ways)) /\ \A i \in DOMAIN ways : DirectionalLanes(ways[i]) # {}
  BY <1>1 DEF AllRead, SegmentsRead
<1>3. \A id \in PartIds : id[1] \in DOMAIN ways
  BY DEF PartIds
<1>4. \A id \in PartIds : PartLanes(id) # {}
  BY <1>2, <1>3 DEF PartLanes
<1>5. ASSUME NEW s
      PROVE  s \in Range(segments) <=> \E i \in DOMAIN ways : \E lanes \in DirectionalLanes(ways[i]) : s \in SegsOf(i, lanes)
  <2>1. s \in SegmentsUpTo(Len(ways)) <=>
          \E i \in DOMAIN ways : \E lanes \in DirectionalLanes(ways[i]) : s \in Range(SegmentsOf(i, lanes))
    BY <1>1, UpToHas
  <2>2. \A i \in DOMAIN ways : \A lanes : Range(SegmentsOf(i, lanes)) = SegsOf(i, lanes)
    BY <1>1, SegmentsAre
  <2> QED BY <1>2, <2>1, <2>2
<1>6. ASSUME NEW s, NEW i \in DOMAIN ways, NEW lanes
      PROVE  s \in SegsOf(i, lanes) <=>
               \E id \in PartIds : id[1] = i /\ \E f \in DOMAIN Fragments(PartOf(id)) : s = Seg(id, f, lanes)
  BY DEF SegsOf
<1>7. ASSUME NEW s
      PROVE  s \in Range(segments) <=>
                \E id \in PartIds : \E f \in DOMAIN Fragments(PartOf(id)) : \E lanes \in PartLanes(id) : s = Seg(id, f, lanes)
  <2>1. ASSUME s \in Range(segments)
        PROVE  \E id \in PartIds : \E f \in DOMAIN Fragments(PartOf(id)) : \E lanes \in PartLanes(id) : s = Seg(id, f, lanes)
    <3>1. PICK i \in DOMAIN ways : \E lanes \in DirectionalLanes(ways[i]) : s \in SegsOf(i, lanes)
      BY <1>5, <2>1
    <3>2. PICK lanes \in DirectionalLanes(ways[i]) : s \in SegsOf(i, lanes)
      BY <3>1
    <3>3. PICK id \in PartIds : id[1] = i /\ \E f \in DOMAIN Fragments(PartOf(id)) : s = Seg(id, f, lanes)
      BY <1>6, <3>2
    <3>4. lanes \in PartLanes(id)
      BY <3>2, <3>3 DEF PartLanes
    <3> QED BY <3>3, <3>4
  <2>2. ASSUME NEW id \in PartIds, NEW f \in DOMAIN Fragments(PartOf(id)), NEW lanes \in PartLanes(id), s = Seg(id, f, lanes)
        PROVE  s \in Range(segments)
    <3>1. s \in SegsOf(id[1], lanes)
      BY <1>3, <1>6, <2>2
    <3> QED BY <1>3, <1>5, <3>1 DEF PartLanes
  <2> QED BY <2>1, <2>2
<1> QED BY <1>4, <1>7

(* A part whose ends differ never comes straight back.                     *)
LEMMA NeverBack ==
    ASSUME ways \in Extracts, NEW id \in PartIds, PartOf(id)[1] # PartOf(id)[Len(PartOf(id))]
    PROVE  NoBack(PartOf(id))
<1>1. PICK P : P = PartOf(id)
  OBVIOUS
<1>2. PICK n \in Nat : n = Len(P)
  BY <1>1, PartsAreSeqs
<1>3. \A j \in 2 .. n - 1 : \A h \in 1 .. n : P[j] = P[h] => j = h
  BY <1>1, <1>2, InnerOnce
<1>4. ASSUME NEW j \in 2 .. n - 1 PROVE P[j - 1] # P[j + 1]
  <2>1. CASE j - 1 \in 2 .. n - 1
    <3>1. j + 1 \in 1 .. n /\ j - 1 # j + 1
      OBVIOUS
    <3> QED BY <1>3, <2>1, <3>1
  <2>2. CASE j + 1 \in 2 .. n - 1
    <3>1. j - 1 \in 1 .. n /\ j - 1 # j + 1
      OBVIOUS
    <3>2. P[j + 1] # P[j - 1]
      BY <1>3, <2>2, <3>1
    <3> QED BY <3>2
  <2>3. CASE j - 1 = 1 /\ j + 1 = n
    BY <1>1, <1>2, <2>3
  <2> QED BY <2>1, <2>2, <2>3
<1> QED BY <1>1, <1>2, <1>4 DEF NoBack

(* The ends of a segment, and the lanes between them.                      *)
Clip(id, f, end) == <<"clip", id[1], id[2], f, end>>
EndIs(x, node, own) == x = own \/ (x = <<"osm", node>> /\ node \in box.inside)
LastOf(id) == PartOf(id)[Len(PartOf(id))]
DrawnAs(s, id, f) ==
    /\ id \in PartIds /\ f \in DOMAIN Fragments(PartOf(id)) /\ s.lanes \in PartLanes(id) /\ s = Seg(id, f, s.lanes)
    /\ EndIs(s.start, PartOf(id)[1], Clip(id, f, "start")) /\ EndIs(s.end, LastOf(id), Clip(id, f, "end"))
    /\ s.lanes[1] > 0 /\ (s.lanes[2] > 0 <=> ways[id[1]].oneway = "both")
    /\ s.start = <<"osm", PartOf(id)[1]>> /\ s.end = <<"osm", LastOf(id)>> /\ s.start # s.end => InBox(PartOf(id))

LEMMA SegmentIsDrawn ==
    ASSUME AllRead, NEW s \in Range(segments)
    PROVE  \E id, f : DrawnAs(s, id, f)
<1>0. PICK id \in PartIds :
        \E f \in DOMAIN Fragments(PartOf(id)) : \E lanes \in PartLanes(id) : s = Seg(id, f, lanes)
  BY AllSegments
<1>1. PICK f \in DOMAIN Fragments(PartOf(id)) : \E lanes \in PartLanes(id) : s = Seg(id, f, lanes)
  BY <1>0
<1>a. PICK lanes \in PartLanes(id) : s = Seg(id, f, lanes)
  BY <1>1
<1>2. ways \in Extracts
  BY DEF AllRead, SegmentsRead
<1>3. PICK P, F : P = PartOf(id) /\ F = Fragments(P)
  OBVIOUS
<1>4. /\ id[1] \in DOMAIN ways /\ P \in Seq(RefNodes) /\ Len(P) \in Nat /\ Len(P) >= 2
      /\ WayOk(ways[id[1]])
  BY <1>2, <1>3, PartsAreSeqs, WaysAre
<1>5. Head(P) = P[1] /\ Last(P) = P[Len(P)]
  BY <1>4 DEF Last
<1>6. PICK g : g = F[f]
  OBVIOUS
<1>7. /\ s.start = Identity(Head(g), P[1], Clip(id, f, "start")) /\ s.end = Identity(Last(g), P[Len(P)], Clip(id, f, "end"))
      /\ s.lanes = lanes
  BY <1>a, <1>3, <1>5, <1>6, SegIs DEF Clip
<1>8. F \in Seq(Strokes(RefNodes)) /\ g \in Strokes(RefNodes) /\ g \in Range(F)
  <2>1. F \in Seq(Strokes(RefNodes))
    BY <1>3, <1>4, FragmentsAre
  <2> QED BY <1>1, <1>3, <1>6, <2>1 DEF Range
<1>9. \A x : Head(g) = <<x>> \/ Last(g) = <<x>> => x \in box.inside
  BY <1>8, FragmentEnds
<1>10. EndIs(s.start, P[1], Clip(id, f, "start")) /\ EndIs(s.end, P[Len(P)], Clip(id, f, "end"))
  BY <1>7, <1>9 DEF EndIs, Identity
<1>11. lanes[1] > 0 /\ (lanes[2] > 0 <=> ways[id[1]].oneway = "both")
  <2>1. lanes[1] \in Nat \ {0} /\ (lanes[2] > 0 <=> ways[id[1]].oneway = "both")
    BY <1>4, LanesAreGiven DEF PartLanes
  <2> QED BY <2>1
<1>12. ASSUME s.start = <<"osm", P[1]>>, s.end = <<"osm", P[Len(P)]>>, s.start # s.end PROVE InBox(P)
  <2>1. P[1] # P[Len(P)]
    BY <1>12
  <2>2. NoBack(P)
    BY <1>2, <1>3, <2>1, NeverBack
  <2>3. Head(g) = <<P[1]>> /\ Last(g) = <<P[Len(P)]>>
    <3>1. Clip(id, f, "start")[1] = "clip" /\ Clip(id, f, "end")[1] = "clip"
      BY DEF Clip
    <3>2. s.start[1] = "osm" /\ s.end[1] = "osm"
      BY <1>12
    <3> QED BY <1>7, <3>1, <3>2 DEF Identity
  <2> QED BY <1>3, <1>4, <1>8, <2>2, <2>3, FragmentsAre
<1> QED BY <1>a, <1>3, <1>7, <1>10, <1>11, <1>12 DEF DrawnAs, LastOf

LEMMA ClipTells ==
    ASSUME NEW id, NEW other, NEW f, NEW g, NEW e, NEW d, NEW x
    PROVE  /\ Clip(id, f, e) = Clip(other, g, d) => id[1] = other[1] /\ id[2] = other[2] /\ f = g /\ e = d
           /\ Clip(id, f, e) # <<"osm", x>>
<1>1. Clip(id, f, e) = Clip(other, g, d) => id[1] = other[1] /\ id[2] = other[2] /\ f = g /\ e = d
  BY DEF Clip
<1>2. Clip(id, f, e)[1] = "clip" /\ <<"osm", x>>[1] = "osm"
  BY DEF Clip
<1> QED BY <1>1, <1>2

(* What ends at the edge of the box is the end of one segment only.        *)
LEMMA ClippedOnce ==
    ASSUME AllRead, NEW s \in Range(segments), NEW t \in Range(segments), NEW x,
           x \in {s.start, s.end}, x \in {t.start, t.end}, \A v : x # <<"osm", v>>
    PROVE  s = t
<1>1. PICK id, f : DrawnAs(s, id, f)
  BY SegmentIsDrawn
<1>2. PICK other, g : DrawnAs(t, other, g)
  BY SegmentIsDrawn
<1>3. PICK e : x = Clip(id, f, e)
  BY <1>1 DEF DrawnAs, EndIs
<1>4. PICK d : x = Clip(other, g, d)
  BY <1>2 DEF DrawnAs, EndIs
<1>5. id[1] = other[1] /\ id[2] = other[2] /\ f = g
  <2>1. Clip(id, f, e) = Clip(other, g, d)
    BY <1>3, <1>4
  <2> QED BY ONLY <2>1 DEF Clip
<1>6. id = other
  <2>1. id \in PartIds /\ other \in PartIds
    BY <1>1, <1>2 DEF DrawnAs
  <2>2. id = <<id[1], id[2]>> /\ other = <<other[1], other[2]>>
    BY <2>1 DEF PartIds
  <2> QED BY <1>5, <2>2
<1>7. s.lanes = t.lanes
  <2>1. ways \in Extracts /\ id[1] \in DOMAIN ways
    BY <1>1, PartsAreSeqs DEF DrawnAs, AllRead, SegmentsRead
  <2>2. WayOk(ways[id[1]])
    BY <2>1, WaysAre
  <2>3. s.lanes \in PartLanes(id) /\ t.lanes \in PartLanes(id)
    BY <1>1, <1>2, <1>6 DEF DrawnAs
  <2> QED BY <2>2, <2>3, LanesAreGiven DEF PartLanes
<1> QED BY <1>1, <1>2, <1>5, <1>6, <1>7 DEF DrawnAs

(* A part inside the box is one segment from its first node to its last.   *)
LEMMA InsideIsSegment ==
    ASSUME AllRead, NEW id \in PartIds, InBox(PartOf(id))
    PROVE  \E s \in Range(segments) :
              /\ s.start = <<"osm", PartOf(id)[1]>> /\ s.end = <<"osm", LastOf(id)>>
              /\ s.lanes[1] > 0 /\ (s.lanes[2] > 0 <=> ways[id[1]].oneway = "both")
<1>1. ways \in Extracts
  BY DEF AllRead, SegmentsRead
<1>2. PICK P : P = PartOf(id)
  OBVIOUS
<1>3. P \in Seq(RefNodes) /\ Len(P) \in Nat /\ Len(P) >= 2 /\ id[1] \in DOMAIN ways /\ WayOk(ways[id[1]])
  BY <1>1, <1>2, PartsAreSeqs, WaysAre
<1>4. PICK c : Fragments(P) = <<c>> /\ Head(c) = <<P[1]>> /\ Last(c) = <<P[Len(P)]>>
  BY <1>2, <1>3, FragmentsAre
<1>5. PICK lanes \in PartLanes(id) : TRUE
  BY AllSegments
<1>6. 1 \in DOMAIN Fragments(P) /\ Fragments(P)[1] = c
  BY <1>4
<1>7. PICK s : s = Seg(id, 1, lanes)
  OBVIOUS
<1>8. s \in Range(segments)
  BY <1>2, <1>5, <1>6, <1>7, AllSegments
<1>9. Head(P) = P[1] /\ Last(P) = P[Len(P)]
  BY <1>3 DEF Last
<1>10. s.start = <<"osm", P[1]>> /\ s.end = <<"osm", P[Len(P)]>> /\ s.lanes = lanes
  <2>1. PICK F, own, last : /\ F = Fragments(PartOf(id)) /\ own = <<"clip", id[1], id[2], 1, "start">>
                            /\ last = <<"clip", id[1], id[2], 1, "end">>
    OBVIOUS
  <2>2. /\ s.start = Identity(Head(F[1]), Head(P), own) /\ s.end = Identity(Last(F[1]), Last(P), last)
        /\ s.lanes = lanes
    BY <1>2, <1>6, <1>7, <2>1, SegIs
  <2>3. F[1] = c
    BY <1>2, <1>6, <2>1
  <2> QED BY <1>4, <1>9, <2>2, <2>3 DEF Identity
<1>11. lanes[1] > 0 /\ (lanes[2] > 0 <=> ways[id[1]].oneway = "both")
  <2>1. lanes[1] \in Nat \ {0} /\ (lanes[2] > 0 <=> ways[id[1]].oneway = "both")
    BY <1>3, <1>5, LanesAreGiven DEF PartLanes
  <2> QED BY <2>1
<1> QED BY <1>2, <1>8, <1>10, <1>11 DEF LastOf

(* The links between two nodes of the network are those of its segments.   *)
LEMMA LinkedBySegment ==
    ASSUME Compiled, NEW x, NEW y
    PROVE  y \in LinkedTo(x) <=>
              \E s \in Range(segments) : \/ s.start = x /\ s.end = y /\ s.lanes[1] > 0
                                         \/ s.end = x /\ s.start = y /\ s.lanes[2] > 0
<1>1. y \in LinkedTo(x) <=> \E l \in Range(network) : l.src = x /\ l.dst = y
  BY DEF LinkedTo
<1>2. \A l : l \in Range(network) <=> \E s \in Range(segments) : l \in LinksOfOne(s)
  BY DEF Compiled
<1>3. ASSUME NEW from, NEW to, NEW lanes
      PROVE  (\E l \in LaneLinks(from, to, lanes) : l.src = x /\ l.dst = y) <=> lanes > 0 /\ from = x /\ to = y
  <2>1. PICK l : l = [src |-> from, dst |-> to, lanes |-> lanes]
    OBVIOUS
  <2>2. l.src = from /\ l.dst = to
    BY <2>1
  <2>3. LaneLinks(from, to, lanes) = IF lanes > 0 THEN {l} ELSE {}
    BY <2>1 DEF LaneLinks
  <2> QED BY <2>2, <2>3
<1>4. ASSUME NEW s
      PROVE  (\E l \in LinksOfOne(s) : l.src = x /\ l.dst = y) <=>
                \/ s.start = x /\ s.end = y /\ s.lanes[1] > 0
                \/ s.end = x /\ s.start = y /\ s.lanes[2] > 0
  <2>1. (\E l \in LinksOfOne(s) : l.src = x /\ l.dst = y) <=>
          \/ \E l \in LaneLinks(s.start, s.end, s.lanes[1]) : l.src = x /\ l.dst = y
          \/ \E l \in LaneLinks(s.end, s.start, s.lanes[2]) : l.src = x /\ l.dst = y
    BY DEF LinksOfOne
  <2> QED BY <1>3, <2>1
<1> QED BY <1>1, <1>2, <1>4

-----------------------------------------------------------------------------
(* Why a shape is refused.                                                 *)
LEMMA ImageAtMost ==
    ASSUME NEW E, IsFiniteSet(E), NEW r
    PROVE  IsFiniteSet({r[k] : k \in E}) /\ Cardinality({r[k] : k \in E}) <= Cardinality(E)
<1>1. PICK T, g : T = {r[k] : k \in E} /\ g = [k \in E |-> r[k]]
  OBVIOUS
<1>2. g \in [E -> T] /\ \A y \in T : \E k \in E : g[k] = y
  BY <1>1
<1>3. g \in Surjection(E, T)
  BY <1>2 DEF Surjection
<1>4. IsFiniteSet(T) /\ Cardinality(T) <= Cardinality(E)
  BY <1>3, FS_Surjection
<1> QED BY <1>1, <1>4

LEMMA NothingLeft ==
    ASSUME AllRead, Range(segments) = {}, NEW x
    PROVE  Allowed(x) = {}
<1> SUFFICES ASSUME NEW y \in Allowed(x) PROVE FALSE
  OBVIOUS
<1>1. ways \in Extracts
  BY DEF AllRead, SegmentsRead
<1>2. y \in box.inside /\ \E id \in PartIds : \E j \in 1 .. Len(PartOf(id)) - 1 : Along(id, j, x, y)
  BY <1>1, AllowedAlong
<1>3. PICK id \in PartIds : \E j \in 1 .. Len(PartOf(id)) - 1 : Along(id, j, x, y)
  BY <1>2
<1>4. PICK j \in 1 .. Len(PartOf(id)) - 1 : Along(id, j, x, y)
  BY <1>3
<1>5. PICK P : P = PartOf(id)
  OBVIOUS
<1>6. P \in Seq(RefNodes) /\ Len(P) >= 2
  BY <1>1, <1>5, PartsAreSeqs
<1>7. Seen(P[j], P[j + 1])
  BY <1>2, <1>4, <1>5 DEF Along, Seen
<1>8. Fragments(P) \in Seq(Strokes(RefNodes)) /\ Fragments(P) # <<>>
  BY <1>4, <1>5, <1>6, <1>7, FragmentsAre
<1>9. 1 \in DOMAIN Fragments(P)
  BY <1>8
<1>10. PICK lanes \in PartLanes(id) : TRUE
  BY AllSegments
<1>11. Seg(id, 1, lanes) \in Range(segments)
  BY <1>5, <1>9, <1>10, AllSegments
<1> QED BY <1>11

LEMMA ClosedReturns ==
    ASSUME AllRead, NEW s \in Range(segments), s.start = s.end
    PROVE  \E w \in Range(ways) : Cardinality(Range(w.refs)) < Len(w.refs)
<1>1. PICK id, f : DrawnAs(s, id, f)
  BY SegmentIsDrawn
<1>2. id \in PartIds /\ ways \in Extracts
  BY <1>1 DEF DrawnAs, AllRead, SegmentsRead
<1>3. PartOf(id)[1] = LastOf(id)
  <2>1. EndIs(s.start, PartOf(id)[1], Clip(id, f, "start")) /\ EndIs(s.start, LastOf(id), Clip(id, f, "end"))
    BY <1>1 DEF DrawnAs
  <2>2. Clip(id, f, "start") # Clip(id, f, "end")
    BY ClipTells
  <2>3. \A x : Clip(id, f, "start") # <<"osm", x>> /\ Clip(id, f, "end") # <<"osm", x>>
    BY ClipTells
  <2> QED BY <2>1, <2>2, <2>3 DEF EndIs
<1>4. PICK w, P : w = ways[id[1]] /\ P = PartOf(id)
  OBVIOUS
<1>5. \E a, b : Spans(P, w, a, b)
  BY <1>2, <1>4, PartsAreSeqs, BetweenSpans
<1>6. PICK a, b : Spans(P, w, a, b)
  BY <1>5
<1>7. id[1] \in DOMAIN ways /\ WayOk(w)
  BY <1>2, <1>4, PartsAreSeqs, WaysAre
<1>8. PICK n \in Nat : n = Len(w.refs)
  BY <1>7 DEF WayOk
<1>9. PICK r : r = w.refs
  OBVIOUS
<1>10. r \in Seq(RefNodes) /\ DOMAIN r = 1 .. n
  BY <1>7, <1>8, <1>9 DEF WayOk
<1>11. a \in 1 .. n /\ b \in 1 .. n /\ a < b /\ r[a] = r[b]
  <2>1. a \in 1 .. n /\ b \in 1 .. n /\ a < b /\ Len(P) = b - a + 1
    BY <1>6, <1>8 DEF Spans
  <2>2. P[1] = r[Pos(w, a, b, 1)] /\ P[b - a + 1] = r[Pos(w, a, b, b - a + 1)]
    <3>1. 1 \in 1 .. b - a + 1 /\ b - a + 1 \in 1 .. b - a + 1
      BY <2>1
    <3> QED BY <1>6, <1>9, <3>1 DEF Spans
  <2>3. P[1] = P[b - a + 1]
    BY <1>3, <1>4, <2>1 DEF LastOf
  <2>4. CASE w.oneway = "reverse"
    <3>1. Pos(w, a, b, 1) = b /\ Pos(w, a, b, b - a + 1) = a
      BY <2>1, <2>4 DEF Pos
    <3> QED BY <2>1, <2>2, <2>3, <3>1
  <2>5. CASE w.oneway # "reverse"
    <3>1. Pos(w, a, b, 1) = a /\ Pos(w, a, b, b - a + 1) = b
      BY <2>1, <2>5 DEF Pos
    <3> QED BY <2>1, <2>2, <2>3, <3>1
  <2> QED BY <2>4, <2>5
<1>12. Cardinality(Range(r)) < n
  <2>1. PICK D, E : D = 1 .. n /\ E = D \ {b}
    OBVIOUS
  <2>2. IsFiniteSet(D) /\ Cardinality(D) = n /\ b \in D
    BY <1>11, <2>1, FS_Interval
  <2>3. IsFiniteSet(E) /\ Cardinality(E) = n - 1
    BY <2>1, <2>2, FS_RemoveElement
  <2>4. Range(r) = {r[k] : k \in E}
    <3>1. Range(r) = {r[k] : k \in D}
      BY <1>10, <2>1 DEF Range
    <3>2. r[b] \in {r[k] : k \in E}
      BY <1>11, <2>1
    <3> QED BY <2>1, <3>1, <3>2
  <2>5. Cardinality({r[k] : k \in E}) <= n - 1 /\ IsFiniteSet({r[k] : k \in E})
    BY <2>3, ImageAtMost
  <2>6. Cardinality(Range(r)) <= n - 1 /\ Cardinality(Range(r)) \in Nat
    BY <2>4, <2>5, FS_CardinalityType
  <2> QED BY <2>6
<1>13. w \in Range(ways)
  BY <1>4, <1>7, <1>2, WaysAre
<1> QED BY <1>8, <1>9, <1>12, <1>13

-----------------------------------------------------------------------------
(* The strict policy honours every tag. *)
LEMMA StrictHonours ==
    ASSUME policy = "strict", NEW w, WayOk(w), NEW lanes \in DirectionalLanes(w)
    PROVE  LanesAsTagged(w, lanes)
<1>1. PICK total, forward, backward \in Nat :
        total = w.total /\ forward = w.forward /\ backward = w.backward
  BY DEF WayOk
<1>2. ASSUME NEW along \in Nat, NEW against \in Nat, NEW l \in OneWayLanes(total, along, against)
      PROVE  /\ total # 0 => l[1] + l[2] = total
             /\ along # 0 => l[1] = along
             /\ against = 0
  <2>1. against = 0
    BY <1>2 DEF OneWayLanes, Tagged, Untagged
  <2>2. PICK count : count = IF along # 0 THEN along ELSE IF total # 0 THEN total ELSE 1
    OBVIOUS
  <2>3. count \in Nat
    BY <2>2
  <2>4. l = <<count, 0>> /\ (total # 0 => count = total)
    BY <1>2, <2>1, <2>2 DEF OneWayLanes, Tagged, Untagged
  <2>5. l[1] = count /\ l[2] = 0
    BY <2>4
  <2> QED BY <2>1, <2>2, <2>3, <2>4, <2>5
<1>3. ASSUME NEW l \in TwoWayLanes(total, forward, backward)
      PROVE  /\ total # 0 => l[1] + l[2] = total
             /\ forward # 0 => l[1] = forward
             /\ backward # 0 => l[2] = backward
  <2>1. CASE total = 0
    <3>1. (forward = 0 <=> backward = 0) /\ l = <<OneOr(forward), OneOr(backward)>>
      BY <1>3, <2>1 DEF TwoWayLanes, Tagged, Untagged
    <3>2. l[1] = OneOr(forward) /\ l[2] = OneOr(backward)
      BY <3>1
    <3> QED BY <2>1, <3>2 DEF OneOr, Tagged, Untagged
  <2>2. CASE total # 0
    <3>1. PICK ahead : ahead = IF forward # 0 THEN forward
                               ELSE IF backward # 0 THEN total - backward ELSE (total + 1) \div 2
      OBVIOUS
    <3>2. PICK back : back = IF backward # 0 THEN backward ELSE total - ahead
      OBVIOUS
    <3>3. l \in {c \in {<<ahead, back>>} : c[1] >= 1 /\ c[2] >= 1 /\ c[1] + c[2] = total}
      BY <1>3, <2>2, <3>1, <3>2 DEF TwoWayLanes, Tagged, Untagged
    <3>4. l[1] = ahead /\ l[2] = back /\ l[1] + l[2] = total
      BY <3>3
    <3> QED BY <3>1, <3>2, <3>4
  <2> QED BY <2>1, <2>2
<1>4. w.oneway \in {"both", "forward", "reverse"}
  BY DEF WayOk
<1>5. CASE w.oneway = "both"
  <2>1. lanes \in TwoWayLanes(total, forward, backward)
    BY <1>1, <1>5 DEF DirectionalLanes
  <2> QED BY <1>1, <1>3, <1>5, <2>1 DEF LanesAsTagged, Tagged, Untagged
<1>6. CASE w.oneway = "forward"
  <2>1. lanes \in OneWayLanes(total, forward, backward)
    BY <1>1, <1>6 DEF DirectionalLanes
  <2> QED BY <1>1, <1>2, <1>6, <2>1 DEF LanesAsTagged, Tagged, Untagged
<1>7. CASE w.oneway = "reverse"
  <2>1. lanes \in OneWayLanes(total, backward, forward)
    BY <1>1, <1>7 DEF DirectionalLanes
  <2> QED BY <1>1, <1>2, <1>7, <2>1 DEF LanesAsTagged, Tagged, Untagged
<1> QED BY <1>4, <1>5, <1>6, <1>7

-----------------------------------------------------------------------------
(* What the ways allow, and what the network can be driven.                *)
AllowedFrom == [n \in RefNodes |-> Allowed(n)]
LinkedFrom == [x \in Range(identities) |-> LinkedTo(x)]
MayReach(n) == Reached({n}, AllowedFrom, Cardinality(RefNodes))
CanDrive(n) == Reached({<<"osm", n>>}, LinkedFrom, Len(identities))

LEMMA MayReachIs ==
    ASSUME ways \in Extracts, NEW n \in RefNodes
    PROVE  /\ n \in MayReach(n) /\ MayReach(n) \in SUBSET RefNodes
           /\ \A x \in MayReach(n) : \A y \in Allowed(x) : y \in MayReach(n)
           /\ \A D \in SUBSET RefNodes : n \in D /\ (\A x \in D : \A y \in Allowed(x) : y \in D) =>
                MayReach(n) \in SUBSET D
<1>1. PICK U : U = RefNodes
  OBVIOUS
<1>2. IsFiniteSet(U) /\ Cardinality(U) \in Nat
  BY <1>1, WaysAre, FS_CardinalityType
<1>3. PICK next : next = AllowedFrom
  OBVIOUS
<1>4. \A x \in U : next[x] = Allowed(x)
  BY <1>1, <1>3 DEF AllowedFrom
<1>5. ASSUME NEW x, NEW y \in Allowed(x) PROVE y \in U
  <2>1. \E id \in PartIds : \E j \in 1 .. Len(PartOf(id)) - 1 : Along(id, j, x, y)
    BY AllowedAlong
  <2>2. PICK id \in PartIds : \E j \in 1 .. Len(PartOf(id)) - 1 : Along(id, j, x, y)
    BY <2>1
  <2>3. PICK j \in 1 .. Len(PartOf(id)) - 1 : Along(id, j, x, y)
    BY <2>2
  <2>4. Len(PartOf(id)) \in Nat /\ \A h \in 1 .. Len(PartOf(id)) : PartOf(id)[h] \in RefNodes
    BY PartsAreSeqs
  <2>5. j \in 1 .. Len(PartOf(id)) /\ j + 1 \in 1 .. Len(PartOf(id))
    BY <2>4
  <2>6. PartOf(id)[j] \in RefNodes /\ PartOf(id)[j + 1] \in RefNodes
    BY <2>4, <2>5
  <2> QED BY <1>1, <2>3, <2>6 DEF Along
<1>6. ClosedUnder(next, U)
  BY <1>4, <1>5 DEF ClosedUnder
<1>7. PICK start, k : start = {n} /\ k = Cardinality(U)
  OBVIOUS
<1>8. PICK A : A = Reached(start, next, k)
  OBVIOUS
<1>9. start \in SUBSET U /\ k \in Nat /\ Cardinality(U) <= k
  BY <1>1, <1>2, <1>7
<1>10. /\ start \in SUBSET A /\ A \in SUBSET U /\ ClosedUnder(next, A)
       /\ \A D \in SUBSET U : start \in SUBSET D /\ ClosedUnder(next, D) => A \in SUBSET D
  BY ONLY <1>2, <1>6, <1>8, <1>9, ReachedClosed
<1>11. A = MayReach(n)
  BY <1>1, <1>3, <1>7, <1>8 DEF MayReach
<1>12. \A D \in SUBSET U : ClosedUnder(next, D) <=> \A x \in D : \A y \in Allowed(x) : y \in D
  BY <1>4 DEF ClosedUnder
<1> QED BY <1>1, <1>7, <1>10, <1>11, <1>12

LEMMA CanDriveIs ==
    ASSUME OsmInv, outcome = "imported", NEW n, <<"osm", n>> \in Range(identities)
    PROVE  /\ <<"osm", n>> \in CanDrive(n) /\ CanDrive(n) \in SUBSET Range(identities)
           /\ \A x \in CanDrive(n) : \A y \in LinkedTo(x) : y \in CanDrive(n)
           /\ \A D \in SUBSET Range(identities) :
                <<"osm", n>> \in D /\ (\A x \in D : \A y \in LinkedTo(x) : y \in D) => CanDrive(n) \in SUBSET D
<1>1. PICK s : s = identities
  OBVIOUS
<1>2. s \in Seq(Range(s)) /\ Compiled
  BY <1>1 DEF OsmInv, OutcomeIs, Compiled
<1>3. PICK k \in Nat : k = Len(s) /\ DOMAIN s = 1 .. k
  BY <1>2
<1>4. PICK U : U = Range(s)
  OBVIOUS
<1>5. IsFiniteSet(U) /\ Cardinality(U) <= k
  <2>1. PICK D : D = 1 .. k
    OBVIOUS
  <2>2. IsFiniteSet(D) /\ Cardinality(D) = k
    BY <2>1, FS_Interval
  <2>3. U = {s[j] : j \in D}
    BY <1>3, <1>4, <2>1 DEF Range
  <2> QED BY <2>2, <2>3, ImageAtMost
<1>6. PICK next : next = LinkedFrom
  OBVIOUS
<1>7. \A x \in U : next[x] = LinkedTo(x)
  BY <1>1, <1>4, <1>6 DEF LinkedFrom
<1>8. ASSUME NEW x, NEW y \in LinkedTo(x) PROVE y \in U
  <2>1. PICK t \in Range(segments) : t.start = y \/ t.end = y
    BY <1>2, LinkedBySegment
  <2>2. y \in EndsOfAll(Range(segments))
    BY <2>1 DEF EndsOfAll
  <2> QED BY <1>1, <1>2, <1>4, <2>2 DEF Compiled
<1>9. ClosedUnder(next, U)
  BY <1>7, <1>8 DEF ClosedUnder
<1>10. PICK start : start = {<<"osm", n>>}
  OBVIOUS
<1>11. PICK A : A = Reached(start, next, k)
  OBVIOUS
<1>12. start \in SUBSET U
  BY <1>1, <1>4, <1>10
<1>13. /\ start \in SUBSET A /\ A \in SUBSET U /\ ClosedUnder(next, A)
       /\ \A D \in SUBSET U : start \in SUBSET D /\ ClosedUnder(next, D) => A \in SUBSET D
  <2>1. k \in Nat
    OBVIOUS
  <2> QED BY ONLY <1>5, <1>9, <1>11, <1>12, <2>1, ReachedClosed
<1>14. A = CanDrive(n)
  BY <1>1, <1>3, <1>6, <1>10, <1>11 DEF CanDrive
<1>15. \A D \in SUBSET U : ClosedUnder(next, D) <=> \A x \in D : \A y \in LinkedTo(x) : y \in D
  BY <1>7 DEF ClosedUnder
<1> QED BY <1>1, <1>4, <1>10, <1>13, <1>14, <1>15

(* A closed set of nodes that has one end of a part inside the box has the *)
(* other end, in a direction of the way.                                   *)
LEMMA AlongInside ==
    ASSUME ways \in Extracts, NEW id \in PartIds, InBox(PartOf(id)),
           NEW A, \A x \in A : \A y \in Allowed(x) : y \in A
    PROVE  /\ PartOf(id)[1] \in A => LastOf(id) \in A
           /\ ways[id[1]].oneway = "both" /\ LastOf(id) \in A => PartOf(id)[1] \in A
<1>1. PICK P : P = PartOf(id)
  OBVIOUS
<1>2. PICK n \in Nat : n = Len(P) /\ n >= 2
  BY <1>1, PartsAreSeqs
<1>3. \A j \in 1 .. n : P[j] \in box.inside
  BY <1>1, <1>2 DEF InBox
<1>4. ASSUME NEW x, NEW y, NEW j \in 1 .. n - 1, Along(id, j, x, y), y \in box.inside, x \in A
      PROVE  y \in A
  <2>1. y \in Allowed(x)
    BY <1>1, <1>2, <1>4, AllowedAlong
  <2> QED BY <1>4, <2>1
<1>5. ASSUME P[1] \in A PROVE P[n] \in A
  <2> DEFINE bad == {j \in Nat : j >= 1 /\ j <= n /\ P[j] \notin A}
  <2>1. bad = {}
    <3> SUFFICES ASSUME bad # {} PROVE FALSE
      OBVIOUS
    <3>1. PICK j \in bad : \A i \in bad : j <= i
      BY LeastExists
    <3>2. j \in Nat /\ j >= 1 /\ j <= n /\ P[j] \notin A
      OBVIOUS
    <3>3. j # 1
      BY <1>5, <3>2
    <3>4. PICK i : i = j - 1
      OBVIOUS
    <3>5. i \in 1 .. n - 1 /\ i \in Nat /\ i + 1 = j /\ j \in 1 .. n
      BY <3>2, <3>3, <3>4
    <3>6. P[i] \in A
      <4>1. i \notin bad
        <5> HIDE DEF bad
        <5> QED BY <3>1, <3>2, <3>5
      <4> QED BY <3>2, <3>5, <4>1
    <3>7. Along(id, i, P[i], P[j])
      BY <1>1, <3>5 DEF Along
    <3> QED BY <1>3, <1>4, <3>2, <3>5, <3>6, <3>7
  <2> QED BY <1>2, <2>1
<1>6. ASSUME P[n] \in A, ways[id[1]].oneway = "both" PROVE P[1] \in A
  <2> DEFINE bad == {j \in Nat : j <= n - 1 /\ P[n - j] \notin A}
  <2>1. bad = {}
    <3> SUFFICES ASSUME bad # {} PROVE FALSE
      OBVIOUS
    <3>1. PICK j \in bad : \A i \in bad : j <= i
      BY LeastExists
    <3>2. j \in Nat /\ j <= n - 1 /\ P[n - j] \notin A
      OBVIOUS
    <3>3. j # 0
      BY <1>6, <3>2
    <3>4. PICK i, h : i = j - 1 /\ h = n - j
      OBVIOUS
    <3>5. h \in 1 .. n - 1 /\ i \in Nat /\ i <= n - 1 /\ i < j /\ n - i = h + 1 /\ h \in 1 .. n
      BY <3>2, <3>3, <3>4
    <3>6. P[h + 1] \in A
      <4>1. i \notin bad
        <5> HIDE DEF bad
        <5> QED BY <3>1, <3>2, <3>5
      <4>2. P[n - i] \in A
        BY <3>5, <4>1
      <4> QED BY <3>5, <4>2
    <3>7. Along(id, h, P[h + 1], P[h])
      BY <1>1, <1>6 DEF Along
    <3>8. P[h] \in A
      BY <1>3, <1>4, <3>5, <3>6, <3>7
    <3> QED BY <3>2, <3>4, <3>8
  <2>2. n - 1 \in Nat /\ n - (n - 1) = 1
    BY <1>2
  <2>3. n - 1 \notin bad
    BY <2>1
  <2>4. P[n - (n - 1)] \in A
    BY <2>2, <2>3
  <2> QED BY <2>2, <2>4
<1> QED BY <1>1, <1>2, <1>5, <1>6 DEF LastOf

(* What can be driven is allowed: every link leaves the source nodes of a  *)
(* closed set for one of them, or for the clipped end of a segment of one. *)
Beside(A, s, x) ==
    \/ x = s.start /\ \E m \in A : s.end = <<"osm", m>>
    \/ x = s.end /\ \E m \in A : s.start = <<"osm", m>>
Surroundings(A) ==
    {x \in Range(identities) :
        \/ \E m \in A : x = <<"osm", m>>
        \/ (\A v : x # <<"osm", v>>) /\ \E s \in Range(segments) : Beside(A, s, x)}

LEMMA LinksStayNear ==
    ASSUME AllRead, Compiled, NEW A, \A x \in A : \A y \in Allowed(x) : y \in A,
           NEW x \in Surroundings(A), NEW y \in LinkedTo(x)
    PROVE  y \in Surroundings(A)
<1>1. PICK s \in Range(segments) : \/ s.start = x /\ s.end = y /\ s.lanes[1] > 0
                                   \/ s.end = x /\ s.start = y /\ s.lanes[2] > 0
  BY LinkedBySegment
<1>2. y \in Range(identities)
  <2>1. y \in EndsOfAll(Range(segments))
    BY <1>1 DEF EndsOfAll
  <2> QED BY <2>1 DEF Compiled
<1>3. s.start # s.end
  BY DEF Compiled
<1>4. PICK id, f : DrawnAs(s, id, f)
  BY SegmentIsDrawn
<1>5. ways \in Extracts /\ id \in PartIds
  BY <1>4 DEF AllRead, SegmentsRead, DrawnAs
<1>6. CASE \A v : x # <<"osm", v>>
  <2>1. PICK t \in Range(segments) : Beside(A, t, x)
    BY <1>6 DEF Surroundings
  <2>2. t = s
    <3>1. x \in {s.start, s.end} /\ x \in {t.start, t.end}
      BY <1>1, <2>1 DEF Beside
    <3> QED BY <1>6, <3>1, ClippedOnce
  <2>3. \E m \in A : y = <<"osm", m>>
    BY <1>1, <1>3, <2>1, <2>2 DEF Beside
  <2> QED BY <1>2, <2>3 DEF Surroundings
<1>7. CASE \E v : x = <<"osm", v>>
  <2>1. PICK m \in A : x = <<"osm", m>>
    BY <1>7 DEF Surroundings
  <2>2. CASE \A v : y # <<"osm", v>>
    <3>1. Beside(A, s, y)
      BY <1>1, <2>1 DEF Beside
    <3> QED BY <1>2, <2>2, <3>1 DEF Surroundings
  <2>3. CASE \E v : y = <<"osm", v>>
    <3>1. PICK v : y = <<"osm", v>>
      BY <2>3
    <3>2. s.start = <<"osm", PartOf(id)[1]>> /\ s.end = <<"osm", LastOf(id)>>
      <4>1. \A e : \A z : Clip(id, f, e) # <<"osm", z>>
        BY ClipTells
      <4>2. \E z : s.start = <<"osm", z>>
        BY <1>1, <2>1, <3>1
      <4>3. \E z : s.end = <<"osm", z>>
        BY <1>1, <2>1, <3>1
      <4>4. EndIs(s.start, PartOf(id)[1], Clip(id, f, "start")) /\ EndIs(s.end, LastOf(id), Clip(id, f, "end"))
        BY <1>4 DEF DrawnAs
      <4> QED BY <4>1, <4>2, <4>3, <4>4 DEF EndIs
    <3>3. InBox(PartOf(id))
      BY <1>3, <1>4, <3>2 DEF DrawnAs
    <3>4. /\ PartOf(id)[1] \in A => LastOf(id) \in A
          /\ ways[id[1]].oneway = "both" /\ LastOf(id) \in A => PartOf(id)[1] \in A
      BY <1>5, <3>3, AlongInside
    <3>5. s.lanes[2] > 0 => ways[id[1]].oneway = "both"
      BY <1>4 DEF DrawnAs
    <3>6. v \in A
      <4>1. CASE s.start = x /\ s.end = y
        <5>1. m = PartOf(id)[1] /\ v = LastOf(id)
          BY <2>1, <3>1, <3>2, <4>1
        <5> QED BY <3>4, <5>1
      <4>2. CASE s.end = x /\ s.start = y /\ s.lanes[2] > 0
        <5>1. v = PartOf(id)[1] /\ m = LastOf(id)
          BY <2>1, <3>1, <3>2, <4>2
        <5> QED BY <3>4, <3>5, <4>2, <5>1
      <4> QED BY <1>1, <4>1, <4>2
    <3> QED BY <1>2, <3>1, <3>6 DEF Surroundings
  <2> QED BY <2>2, <2>3
<1> QED BY <1>6, <1>7

LEMMA DrivenIsAllowed ==
    ASSUME OsmInv, outcome = "imported", NEW n \in RefNodes, <<"osm", n>> \in Range(identities),
           NEW m, <<"osm", m>> \in CanDrive(n)
    PROVE  m \in MayReach(n)
<1>1. AllRead /\ Compiled /\ ways \in Extracts
  BY DEF OsmInv, OutcomeIs, AllRead, SegmentsRead
<1>2. PICK A : A = MayReach(n)
  OBVIOUS
<1>3. n \in A /\ \A x \in A : \A y \in Allowed(x) : y \in A
  BY <1>1, <1>2, MayReachIs
<1>4. PICK D : D = Surroundings(A)
  OBVIOUS
<1>5. D \in SUBSET Range(identities) /\ <<"osm", n>> \in D
  BY <1>3, <1>4 DEF Surroundings
<1>6. \A x \in D : \A y \in LinkedTo(x) : y \in D
  BY <1>1, <1>3, <1>4, LinksStayNear
<1>7. CanDrive(n) \in SUBSET D
  BY <1>5, <1>6, CanDriveIs
<1>8. <<"osm", m>> \in D
  BY <1>7
<1>9. PICK v \in A : <<"osm", m>> = <<"osm", v>>
  BY <1>4, <1>8 DEF Surroundings
<1> QED BY <1>2, <1>9

(* What is allowed can be driven: the source nodes of a set that the links *)
(* do not leave, and the nodes within a part that are come to from an end  *)
(* of it in the set, are left by no allowed step.                          *)
Source(x) == <<"osm", x>>

LEMMA SourcesAreEnds ==
    ASSUME AllRead, Compiled, NEW v, Source(v) \in Range(identities)
    PROVE  /\ v \in RefNodes /\ v \in box.inside
           /\ \A id \in PartIds : \A j \in 2 .. Len(PartOf(id)) - 1 : PartOf(id)[j] # v
<1>1. ways \in Extracts
  BY DEF AllRead, SegmentsRead
<1>2. PICK s \in Range(segments) : s.start = Source(v) \/ s.end = Source(v)
  BY DEF Compiled, EndsOfAll
<1>3. PICK other, f : DrawnAs(s, other, f)
  BY <1>2, SegmentIsDrawn
<1>4. other \in PartIds
  BY <1>3 DEF DrawnAs
<1>5. PICK n \in Nat : n = Len(PartOf(other)) /\ n >= 2 /\ \A j \in 1 .. n : PartOf(other)[j] \in RefNodes
  BY <1>1, <1>4, PartsAreSeqs
<1>6. (v = PartOf(other)[1] \/ v = LastOf(other)) /\ v \in box.inside
  <2>1. \A e : \A z : Clip(other, f, e) # <<"osm", z>>
    BY ClipTells
  <2>2. EndIs(s.start, PartOf(other)[1], Clip(other, f, "start")) /\ EndIs(s.end, LastOf(other), Clip(other, f, "end"))
    BY <1>3 DEF DrawnAs
  <2>3. \A x, y : <<"osm", x>> = <<"osm", y>> => x = y
    OBVIOUS
  <2> QED BY <1>2, <2>1, <2>2, <2>3 DEF EndIs, Source
<1>7. PICK h \in 1 .. n : v = PartOf(other)[h] /\ (h = 1 \/ h = n)
  BY <1>5, <1>6 DEF LastOf
<1>8. ASSUME NEW id \in PartIds, NEW j \in 2 .. Len(PartOf(id)) - 1, PartOf(id)[j] = v PROVE FALSE
  <2>1. h \in 1 .. Len(PartOf(other)) /\ PartOf(id)[j] = PartOf(other)[h]
    BY <1>5, <1>7, <1>8
  <2>2. id = other /\ j = h
    BY <1>1, <1>4, <2>1, InnerOnce
  <2> QED BY <1>5, <1>7, <2>2
<1> QED BY <1>5, <1>6, <1>7, <1>8

FromFirst(J, id, j) == Source(PartOf(id)[1]) \in J /\ \A h \in 1 .. j : PartOf(id)[h] \in box.inside
FromLast(J, id, j) ==
    /\ ways[id[1]].oneway = "both" /\ Source(LastOf(id)) \in J
    /\ \A h \in j .. Len(PartOf(id)) : PartOf(id)[h] \in box.inside
HeldAt(J, id, j) ==
    \/ j = 1 /\ Source(PartOf(id)[1]) \in J
    \/ j = Len(PartOf(id)) /\ Source(LastOf(id)) \in J
    \/ j \in 2 .. Len(PartOf(id)) - 1 /\ (FromFirst(J, id, j) \/ FromLast(J, id, j))
Carried(J) ==
    {v \in RefNodes : \/ Source(v) \in J
                      \/ \E id \in PartIds : \E j \in 2 .. Len(PartOf(id)) - 1 :
                            v = PartOf(id)[j] /\ HeldAt(J, id, j)}

LEMMA CarriedIsHeld ==
    ASSUME AllRead, Compiled, NEW J \in SUBSET Range(identities), NEW id \in PartIds,
           NEW j \in 1 .. Len(PartOf(id))
    PROVE  PartOf(id)[j] \in Carried(J) <=> HeldAt(J, id, j)
<1>1. ways \in Extracts
  BY DEF AllRead, SegmentsRead
<1>2. PICK P : P = PartOf(id)
  OBVIOUS
<1>3. PICK n \in Nat : n = Len(P) /\ n >= 2 /\ \A h \in 1 .. n : P[h] \in RefNodes
  BY <1>1, <1>2, PartsAreSeqs
<1>4. ASSUME HeldAt(J, id, j) PROVE P[j] \in Carried(J)
  <2>1. P[j] \in RefNodes
    BY <1>2, <1>3
  <2>2. CASE j \in 2 .. Len(PartOf(id)) - 1
    BY <1>2, <1>4, <2>1, <2>2 DEF Carried
  <2>3. CASE j \notin 2 .. Len(PartOf(id)) - 1
    <3>1. Source(P[j]) \in J
      BY <1>2, <1>4, <2>3 DEF HeldAt, LastOf
    <3> QED BY <2>1, <3>1 DEF Carried
  <2> QED BY <2>2, <2>3
<1>5. ASSUME P[j] \in Carried(J) PROVE HeldAt(J, id, j)
  <2>1. CASE Source(P[j]) \in J
    <3>1. j \notin 2 .. Len(PartOf(id)) - 1
      BY <1>2, <2>1, SourcesAreEnds
    <3>2. j = 1 \/ j = n
      BY <1>2, <1>3, <3>1
    <3> QED BY <1>2, <1>3, <2>1, <3>2 DEF HeldAt, LastOf
  <2>2. CASE Source(P[j]) \notin J
    <3>1. PICK other \in PartIds : \E h \in 2 .. Len(PartOf(other)) - 1 : P[j] = PartOf(other)[h] /\ HeldAt(J, other, h)
      BY <1>5, <2>2 DEF Carried
    <3>2. PICK h \in 2 .. Len(PartOf(other)) - 1 : P[j] = PartOf(other)[h] /\ HeldAt(J, other, h)
      BY <3>1
    <3>3. other = id /\ h = j
      <4>1. PartOf(other)[h] = PartOf(id)[j]
        BY <1>2, <3>2
      <4> QED BY <1>1, <4>1, InnerOnce
    <3> QED BY <3>2, <3>3
  <2> QED BY <2>1, <2>2
<1> QED BY <1>2, <1>4, <1>5

LEMMA HeldAlong ==
    ASSUME AllRead, Compiled, NEW J \in SUBSET Range(identities), \A x \in J : \A y \in LinkedTo(x) : y \in J,
           NEW id \in PartIds, NEW j \in 1 .. Len(PartOf(id)) - 1
    PROVE  /\ HeldAt(J, id, j) /\ PartOf(id)[j + 1] \in box.inside => HeldAt(J, id, j + 1)
           /\ ways[id[1]].oneway = "both" /\ HeldAt(J, id, j + 1) /\ PartOf(id)[j] \in box.inside => HeldAt(J, id, j)
<1>1. ways \in Extracts
  BY DEF AllRead, SegmentsRead
<1>2. PICK P, both : P = PartOf(id) /\ both = (ways[id[1]].oneway = "both")
  OBVIOUS
<1>3. PICK n \in Nat : n = Len(P) /\ n >= 2
  BY <1>1, <1>2, PartsAreSeqs
<1>4. PICK first, last : first = Source(P[1]) /\ last = Source(P[n])
  OBVIOUS
<1>5. j \in Nat /\ j >= 1 /\ j + 1 <= n
  BY <1>2, <1>3
<1>6. first \in J => P[1] \in box.inside
  BY <1>4, SourcesAreEnds
<1>7. last \in J => P[n] \in box.inside
  BY <1>4, SourcesAreEnds
<1>8. ASSUME \A h \in 1 .. n : P[h] \in box.inside
      PROVE  (first \in J => last \in J) /\ (both /\ last \in J => first \in J)
  <2>1. InBox(PartOf(id))
    BY <1>2, <1>3, <1>8 DEF InBox
  <2>2. PICK s \in Range(segments) :
              /\ s.start = <<"osm", PartOf(id)[1]>> /\ s.end = <<"osm", LastOf(id)>>
              /\ s.lanes[1] > 0 /\ (s.lanes[2] > 0 <=> ways[id[1]].oneway = "both")
    BY <2>1, InsideIsSegment
  <2>3. s.start = first /\ s.end = last
    BY <1>2, <1>3, <1>4, <2>2 DEF LastOf, Source
  <2>4. last \in LinkedTo(first) /\ (both => first \in LinkedTo(last))
    BY <1>2, <2>2, <2>3, LinkedBySegment
  <2> QED BY <2>4
<1> DEFINE ahead(k) == first \in J /\ \A h \in 1 .. k : P[h] \in box.inside
           behind(k) == both /\ last \in J /\ \A h \in k .. n : P[h] \in box.inside
           held(k) == \/ k = 1 /\ first \in J
                      \/ k = n /\ last \in J
                      \/ k \in 2 .. n - 1 /\ (ahead(k) \/ behind(k))
<1>9. \A k : HeldAt(J, id, k) <=> held(k)
  BY <1>2, <1>3, <1>4 DEF HeldAt, FromFirst, FromLast, LastOf
<1>10. ASSUME held(j), P[j + 1] \in box.inside PROVE held(j + 1)
  <2>1. CASE ahead(j)
    <3>1. ahead(j + 1)
      <4>1. \A h \in 1 .. j + 1 : h \in 1 .. j \/ h = j + 1
        BY <1>5
      <4> QED BY <1>10, <2>1, <4>1
    <3>2. CASE j + 1 = n
      <4>1. last \in J
        BY <1>8, <3>1, <3>2
      <4> QED BY <3>2, <4>1
    <3>3. CASE j + 1 # n
      <4>1. j + 1 \in 2 .. n - 1
        BY <1>5, <3>3
      <4> QED BY <3>1, <4>1
    <3> QED BY <3>2, <3>3
  <2>2. CASE behind(j)
    <3>1. behind(j + 1)
      <4>1. \A h \in j + 1 .. n : h \in j .. n
        BY <1>5
      <4> QED BY <2>2, <4>1
    <3>2. CASE j + 1 = n
      BY <2>2, <3>2
    <3>3. CASE j + 1 # n
      <4>1. j + 1 \in 2 .. n - 1
        BY <1>5, <3>3
      <4> QED BY <3>1, <4>1
    <3> QED BY <3>2, <3>3
  <2>3. ahead(j) \/ behind(j)
    <3>1. CASE j = 1
      <4>1. first \in J
        BY <1>5, <1>10, <3>1
      <4>2. \A h \in 1 .. 1 : h = 1
        OBVIOUS
      <4> QED BY <1>6, <3>1, <4>1, <4>2
    <3>2. CASE j # 1
      <4>1. j # n
        BY <1>5
      <4> QED BY <1>10, <3>2, <4>1
    <3> QED BY <3>1, <3>2
  <2> QED BY <2>1, <2>2, <2>3
<1>11. ASSUME both, held(j + 1), P[j] \in box.inside PROVE held(j)
  <2>1. CASE ahead(j + 1)
    <3>1. ahead(j)
      <4>1. \A h \in 1 .. j : h \in 1 .. j + 1
        BY <1>5
      <4> QED BY <2>1, <4>1
    <3>2. CASE j = 1
      BY <2>1, <3>2
    <3>3. CASE j # 1
      <4>1. j \in 2 .. n - 1
        BY <1>5, <3>3
      <4> QED BY <3>1, <4>1
    <3> QED BY <3>2, <3>3
  <2>2. CASE behind(j + 1)
    <3>1. behind(j)
      <4>1. \A h \in j .. n : h \in j + 1 .. n \/ h = j
        BY <1>5
      <4> QED BY <1>11, <2>2, <4>1
    <3>2. CASE j = 1
      <4>1. first \in J
        BY <1>8, <1>11, <3>1, <3>2
      <4> QED BY <3>2, <4>1
    <3>3. CASE j # 1
      <4>1. j \in 2 .. n - 1
        BY <1>5, <3>3
      <4> QED BY <3>1, <4>1
    <3> QED BY <3>2, <3>3
  <2>3. ahead(j + 1) \/ behind(j + 1)
    <3>1. CASE j + 1 = n
      <4>1. last \in J
        BY <1>5, <1>11, <3>1
      <4>2. \A h \in n .. n : h = n
        OBVIOUS
      <4> QED BY <1>7, <1>11, <3>1, <4>1, <4>2
    <3>2. CASE j + 1 # n
      <4>1. j + 1 # 1
        BY <1>5
      <4> QED BY <1>11, <3>2, <4>1
    <3> QED BY <3>1, <3>2
  <2> QED BY <2>1, <2>2, <2>3
<1> HIDE DEF held
<1> QED BY <1>2, <1>9, <1>10, <1>11

LEMMA AllowedIsDriven ==
    ASSUME OsmInv, outcome = "imported", NEW n \in RefNodes, Source(n) \in Range(identities),
           NEW m \in MayReach(n), Source(m) \in Range(identities)
    PROVE  Source(m) \in CanDrive(n)
<1>1. AllRead /\ Compiled /\ ways \in Extracts
  BY DEF OsmInv, OutcomeIs, AllRead, SegmentsRead
<1>2. PICK J : J = CanDrive(n)
  OBVIOUS
<1>3. Source(n) \in J /\ J \in SUBSET Range(identities) /\ \A x \in J : \A y \in LinkedTo(x) : y \in J
  BY <1>2, CanDriveIs DEF Source
<1>4. PICK D : D = Carried(J)
  OBVIOUS
<1>5. D \in SUBSET RefNodes /\ n \in D
  BY <1>3, <1>4 DEF Carried
<1>6. ASSUME NEW x \in D, NEW y \in Allowed(x) PROVE y \in D
  <2>1. y \in box.inside /\ \E id \in PartIds : \E j \in 1 .. Len(PartOf(id)) - 1 : Along(id, j, x, y)
    BY <1>1, AllowedAlong
  <2>2. PICK id \in PartIds : \E j \in 1 .. Len(PartOf(id)) - 1 : Along(id, j, x, y)
    BY <2>1
  <2>3. PICK j \in 1 .. Len(PartOf(id)) - 1 : Along(id, j, x, y)
    BY <2>2
  <2>4. Len(PartOf(id)) \in Nat
    BY <1>1, PartsAreSeqs
  <2>5. j \in 1 .. Len(PartOf(id)) /\ j + 1 \in 1 .. Len(PartOf(id))
    BY <2>4
  <2>6. /\ PartOf(id)[j] \in D <=> HeldAt(J, id, j)
        /\ PartOf(id)[j + 1] \in D <=> HeldAt(J, id, j + 1)
    BY <1>1, <1>3, <1>4, <2>5, CarriedIsHeld
  <2>7. /\ HeldAt(J, id, j) /\ PartOf(id)[j + 1] \in box.inside => HeldAt(J, id, j + 1)
        /\ ways[id[1]].oneway = "both" /\ HeldAt(J, id, j + 1) /\ PartOf(id)[j] \in box.inside => HeldAt(J, id, j)
    BY <1>1, <1>3, HeldAlong
  <2> QED BY <2>1, <2>3, <2>6, <2>7 DEF Along
<1>7. MayReach(n) \in SUBSET D
  BY <1>1, <1>5, <1>6, MayReachIs
<1>8. m \in D
  BY <1>7
<1>9. \A id \in PartIds : \A j \in 2 .. Len(PartOf(id)) - 1 : PartOf(id)[j] # m
  BY <1>1, SourcesAreEnds
<1> QED BY <1>2, <1>4, <1>8, <1>9 DEF Carried

(* The network of an imported extract leads from one source node to        *)
(* another if and only if the ways inside the box do.                      *)
LEMMA ImportedDrivesAsTagged ==
    ASSUME OsmInv, outcome = "imported", NEW n \in SourceNodes
    PROVE  SourceNodes \cap MayReach(n) = {m \in SourceNodes : <<"osm", m>> \in CanDrive(n)}
<1>1. \A m \in SourceNodes : Source(m) \in Range(identities) /\ m \in RefNodes
  <2>1. AllRead /\ Compiled /\ ways \in Extracts
    BY DEF OsmInv, OutcomeIs, AllRead, SegmentsRead
  <2> SUFFICES ASSUME NEW m \in SourceNodes PROVE Source(m) \in Range(identities) /\ m \in RefNodes
    OBVIOUS
  <2>2. PICK x \in Range(identities) : x[1] = "osm" /\ m = x[2]
    BY DEF SourceNodes
  <2>3. \E z : x = Source(z)
    <3>1. PICK s \in Range(segments) : s.start = x \/ s.end = x
      BY <2>1 DEF Compiled, EndsOfAll
    <3>2. PICK id, f : DrawnAs(s, id, f)
      BY <2>1, SegmentIsDrawn
    <3>3. \A e : x # Clip(id, f, e)
      <4>1. \A e : Clip(id, f, e)[1] = "clip"
        BY DEF Clip
      <4> QED BY <2>2, <4>1
    <3> QED BY <3>1, <3>2, <3>3 DEF DrawnAs, EndIs, Source
  <2>4. x = Source(m)
    BY <2>2, <2>3 DEF Source
  <2> QED BY <2>1, <2>4, SourcesAreEnds
<1>2. ASSUME NEW m \in SourceNodes PROVE m \in MayReach(n) <=> <<"osm", m>> \in CanDrive(n)
  <2>1. m \in MayReach(n) => <<"osm", m>> \in CanDrive(n)
    BY <1>1, AllowedIsDriven DEF Source
  <2>2. <<"osm", m>> \in CanDrive(n) => m \in MayReach(n)
    BY <1>1, DrivenIsAllowed DEF Source
  <2> QED BY <2>1, <2>2
<1> QED BY <1>2

LEMMA OsmInvDrivesAsTagged == OsmInv => DrivesAsTagged
<1> SUFFICES ASSUME OsmInv PROVE DrivesAsTagged
  OBVIOUS
<1>1. ways \in Extracts
  BY DEF OsmInv, SegmentsRead
<1>2. ASSUME outcome = "imported"
      PROVE  LET allowed == [n \in RefNodes |-> Allowed(n)]
                 linkedTo == [x \in Range(identities) |-> LinkedTo(x)]
             IN  \A n \in SourceNodes :
                     SourceNodes \cap Reached({n}, allowed, Cardinality(RefNodes))
                       = {m \in SourceNodes :
                             <<"osm", m>> \in Reached({<<"osm", n>>}, linkedTo, Len(identities))}
  <2>1. ASSUME NEW n \in SourceNodes
        PROVE  SourceNodes \cap MayReach(n) = {m \in SourceNodes : <<"osm", m>> \in CanDrive(n)}
    BY <1>2, ImportedDrivesAsTagged
  <2> QED BY <2>1 DEF MayReach, CanDrive, AllowedFrom, LinkedFrom
<1>3. ASSUME policy = "strict", NEW w \in Range(ways), NEW lanes \in DirectionalLanes(w)
      PROVE  LanesAsTagged(w, lanes)
  <2>1. WayOk(w)
    BY <1>1, WaysAre
  <2> QED BY <1>3, <2>1, StrictHonours
<1>4. ASSUME outcome = "no geometry", NEW n \in RefNodes PROVE Allowed(n) = {}
  <2>1. AllRead /\ Range(segments) = {}
    BY <1>4 DEF OsmInv, OutcomeIs, AllRead
  <2> QED BY <2>1, NothingLeft
<1>5. ASSUME outcome = "closed centerline"
      PROVE  \E w \in Range(ways) : Cardinality(Range(w.refs)) < Len(w.refs)
  <2>1. AllRead /\ \E s \in Range(segments) : s.start = s.end
    BY <1>5 DEF OsmInv, OutcomeIs, AllRead
  <2> QED BY <2>1, ClosedReturns
<1> QED BY <1>2, <1>3, <1>4, <1>5 DEF DrivesAsTagged

(* Whatever the extract, the clip box and the policy, an imported network  *)
(* is driven exactly as the ways are tagged, the strict policy honours     *)
(* every lane tag, and a shape is refused for what the refusal says:       *)
(* import_osm_xml_text, _build_physical_segments, _clip_polyline.          *)
THEOREM ImportAlwaysDrivesAsTagged == OsmSpec => []DrivesAsTagged
<1>1. OsmInv => DrivesAsTagged
  BY OsmInvDrivesAsTagged
<1> QED BY <1>1, OsmInvariant, PTL
=============================================================================
