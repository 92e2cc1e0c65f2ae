------------------------------ MODULE CityProofs ------------------------------
(***************************************************************************)
(* Where every street is two-way, finalize_preview_topology makes a valid  *)
(* network in which every node can be driven to from every other one, for  *)
(* any number of places and streets, wherever they lie.                    *)
(*                                                                         *)
(* A network is Strong when no proper part of its nodes is left by no      *)
(* link.  The components that are still apart (Joins) say what such a part *)
(* must be made of: whole components; a stitch leaves one component fewer  *)
(* to choose from (StitchKeeps), until there is no choice (JoinedIsStrong).*)
(* Planarization puts nodes along roads: as every road has its way back,   *)
(* a part that is not left holds all the stops of a road or none           *)
(* (SplitIsStrong).  In a strong network a search finds every node         *)
(* (StrongIsLinked), and so does one that may not turn back at once        *)
(* (TurnsLoseNothing): where the way back is the only way on, the node it  *)
(* would have come to was passed before.                                   *)
(*                                                                         *)
(* What a search reaches, how Ordered sorts and where Portion rounds to    *)
(* are lemmas on the way.  Nothing is assumed of crossing points: they may *)
(* be rounded, and roads may cross in one point.                           *)
(*                                                                         *)
(* The derivation of the land use allocates every network it does not      *)
(* refuse soundly (AllocationSound).  The invariant LandInv says, stage by *)
(* stage, what has been made so far, in operators of the values of the     *)
(* variables, so that a variable that does not change changes nothing it   *)
(* is about.  Apportionment by the largest remainder, on exact quotas with *)
(* remainders, is fair (FairShares); consecutive runs of which the first   *)
(* few are longer by one cover every block once (RunsBalanced); what the   *)
(* points of interest of a channel hold is what the blocks do, summed      *)
(* along the map from blocks to points (PlacesHold).                       *)
(***************************************************************************)
EXTENDS CityFinalizer, LandAllocation, Counting, SequenceTheorems

-----------------------------------------------------------------------------
(* Recursion over the naturals, and what a search reaches.                 *)

(* f goes from base by step up to n. *)
Goes(f, T, base, step, n) ==
    /\ f \in [0 .. n -> T] /\ f[0] = base
    /\ \A k \in 0 .. n - 1 : f[k + 1] = step[<<k, f[k]>>]

(* Two recursions that start and step alike agree. *)
LEMMA GoesTogether ==
    ASSUME NEW T, NEW base, NEW step, NEW m \in Nat, NEW n \in Nat, NEW f, NEW g,
           Goes(f, T, base, step, m), Goes(g, T, base, step, n), NEW k \in Nat, k <= m, k <= n
    PROVE  f[k] = g[k]
<1> DEFINE bad == {j \in Nat : j <= m /\ j <= n /\ f[j] # g[j]}
<1>1. bad = {}
  <2> SUFFICES ASSUME bad # {} PROVE FALSE
    OBVIOUS
  <2>1. PICK j \in bad : \A i \in bad : j <= i
    BY LeastExists
  <2>2. j \in Nat /\ j <= m /\ j <= n /\ f[j] # g[j]
    OBVIOUS
  <2>3. j # 0
    BY <2>2 DEF Goes
  <2>4. PICK i \in Nat : j = i + 1
    BY <2>2, <2>3
  <2>5. i \notin bad
    BY <2>1, <2>4
  <2>6. f[i] = g[i] /\ i \in 0 .. m - 1 /\ i \in 0 .. n - 1
    BY <2>2, <2>4, <2>5
  <2>7. f[i + 1] = step[<<i, f[i]>>] /\ g[i + 1] = step[<<i, g[i]>>]
    BY <2>6 DEF Goes
  <2> QED BY <2>2, <2>4, <2>6, <2>7
<1> QED BY <1>1

(* f goes from base by step for ever. *)
Follows(f, T, base, step) ==
    /\ f \in [Nat -> T] /\ f[0] = base
    /\ \A k \in Nat : f[k + 1] = step[<<k, f[k]>>]

(* Recursion on the naturals is well defined. *)
LEMMA RecursionExists ==
    ASSUME NEW T, NEW base, NEW step, base \in T, step \in [Nat \X T -> T]
    PROVE  \E f : Follows(f, T, base, step)
<1> DEFINE bad == {n \in Nat : ~ \E g : Goes(g, T, base, step, n)}
<1>1. bad = {}
  <2> SUFFICES ASSUME bad # {} PROVE FALSE
    OBVIOUS
  <2>1. PICK n \in bad : \A i \in bad : n <= i
    BY LeastExists
  <2>2. n # 0
    <3>1. Goes([k \in 0 .. 0 |-> base], T, base, step, 0)
      BY DEF Goes
    <3> QED BY <2>1, <3>1
  <2>3. PICK p \in Nat : n = p + 1
    BY <2>2
  <2>4. PICK g : Goes(g, T, base, step, p)
    <3>1. p \notin bad
      BY <2>1, <2>3
    <3> QED BY <3>1
  <2> DEFINE h == [k \in 0 .. n |-> IF k = n THEN step[<<p, g[p]>>] ELSE g[k]]
  <2>5. g[p] \in T /\ step[<<p, g[p]>>] \in T
    BY <2>4 DEF Goes
  <2>6. h \in [0 .. n -> T] /\ h[0] = base
    BY <2>3, <2>4, <2>5 DEF Goes
  <2>7. ASSUME NEW k \in 0 .. n - 1 PROVE h[k + 1] = step[<<k, h[k]>>]
    <3>1. CASE k = p
      BY <2>3, <3>1
    <3>2. CASE k # p
      <4>1. k \in 0 .. p - 1 /\ k + 1 \in 0 .. n /\ k + 1 # n /\ k # n
        BY <2>3, <3>2
      <4>2. g[k + 1] = step[<<k, g[k]>>]
        BY <2>4, <4>1 DEF Goes
      <4>3. h[k] = g[k] /\ h[k + 1] = g[k + 1]
        BY <4>1
      <4> QED BY <4>2, <4>3
    <3> QED BY <3>1, <3>2
  <2>8. Goes(h, T, base, step, n)
    BY <2>6, <2>7 DEF Goes
  <2> QED BY <2>8
<1> DEFINE g(n) == CHOOSE f : Goes(f, T, base, step, n)
           f == [k \in Nat |-> g(k)[k]]
<1>2. \A n \in Nat : Goes(g(n), T, base, step, n)
  BY <1>1
<1> HIDE DEF g
<1>3. f \in [Nat -> T] /\ f[0] = base
  <2>1. ASSUME NEW k \in Nat PROVE g(k)[k] \in T
    BY <1>2 DEF Goes
  <2>2. g(0)[0] = base
    BY <1>2 DEF Goes
  <2> QED BY <2>1, <2>2
<1>4. ASSUME NEW k \in Nat PROVE f[k + 1] = step[<<k, f[k]>>]
  <2>1. Goes(g(k), T, base, step, k) /\ Goes(g(k + 1), T, base, step, k + 1)
    BY <1>2
  <2>2. PICK a, b, m : a = g(k) /\ b = g(k + 1) /\ m = k + 1
    OBVIOUS
  <2>3. a[k] = b[k]
    BY <2>1, <2>2, GoesTogether
  <2>4. b[k + 1] = step[<<k, b[k]>>]
    BY <2>1, <2>2 DEF Goes
  <2> QED BY <2>2, <2>3, <2>4
<1> QED BY <1>3, <1>4 DEF Follows

(* One round of a search: what is new is what the last round leads to. *)
NewIn(next, b) == (UNION {next[x] : x \in b.queue}) \ b.seen
RoundOf(next, b) == [seen |-> b.seen \cup NewIn(next, b), queue |-> NewIn(next, b)]
Searches(s, start, next) ==
    s = [k \in Nat |-> IF k = 0 THEN [seen |-> start, queue |-> start] ELSE RoundOf(next, s[k - 1])]

(* What is reached is what such a search has seen. *)
LEMMA ReachedIsSearch ==
    ASSUME NEW start, NEW next, NEW rounds
    PROVE  Reached(start, next, rounds) = (CHOOSE s : Searches(s, start, next))[rounds].seen
BY DEF Reached, Searches, RoundOf, NewIn

(* There is a search, so that CHOOSE finds one. *)
LEMMA SearchExists ==
    ASSUME NEW U, NEW start \in SUBSET U, NEW next, \A x \in U : next[x] \in SUBSET U
    PROVE  \E s : Searches(s, start, next)
<1> DEFINE T == [seen : SUBSET U, queue : SUBSET U]
           base == [seen |-> start, queue |-> start]
           step == [q \in Nat \X T |-> RoundOf(next, q[2])]
<1>1. base \in T
  OBVIOUS
<1>2. ASSUME NEW b \in T PROVE RoundOf(next, b) \in T
  <2>1. NewIn(next, b) \in SUBSET U
    BY DEF NewIn
  <2> QED BY <2>1 DEF RoundOf
<1>3. step \in [Nat \X T -> T]
  BY <1>2
<1>4. \A k \in Nat : \A b \in T : step[<<k, b>>] = RoundOf(next, b)
  OBVIOUS
<1> HIDE DEF T, base, step
<1>a. PICK f : Follows(f, T, base, step)
  BY <1>1, <1>3, RecursionExists
<1>5. /\ f \in [Nat -> T] /\ f[0] = base
      /\ \A k \in Nat : f[k + 1] = step[<<k, f[k]>>]
  BY <1>a DEF Follows
<1>6. ASSUME NEW k \in Nat
      PROVE  f[k] = IF k = 0 THEN base ELSE RoundOf(next, f[k - 1])
  <2>1. CASE k = 0
    BY <1>5, <2>1
  <2>2. CASE k # 0
    <3>1. PICK m \in Nat : k = m + 1
      BY <2>2
    <3>2. f[m + 1] = step[<<m, f[m]>>] /\ f[m] \in T
      BY <1>5
    <3>3. step[<<m, f[m]>>] = RoundOf(next, f[m])
      BY <1>4, <3>2
    <3>4. m = k - 1
      BY <3>1
    <3> QED BY <2>2, <3>1, <3>2, <3>3, <3>4
  <2> QED BY <2>1, <2>2
<1>7. f = [k \in Nat |-> f[k]]
  BY <1>5
<1>8. Searches(f, start, next)
  BY <1>6, <1>7 DEF Searches, base
<1> QED BY <1>8

(* next leads nowhere out of C. *)
ClosedUnder(next, C) == \A x \in C : next[x] \in SUBSET C

(* A search of as many rounds as there are elements is complete: what it   *)
(* reaches is closed, and in every closed set around where it started.     *)
LEMMA ReachedClosed ==
    ASSUME NEW U, IsFiniteSet(U), NEW start \in SUBSET U, NEW next, ClosedUnder(next, U),
           NEW n \in Nat, Cardinality(U) <= n
    PROVE  /\ start \in SUBSET Reached(start, next, n) /\ Reached(start, next, n) \in SUBSET U
           /\ ClosedUnder(next, Reached(start, next, n))
           /\ \A C \in SUBSET U : start \in SUBSET C /\ ClosedUnder(next, C) =>
                Reached(start, next, n) \in SUBSET C
<1> DEFINE r == CHOOSE s : Searches(s, start, next)
<1>1. \E s : Searches(s, start, next)
  BY SearchExists DEF ClosedUnder
<1>2. Searches(r, start, next)
  BY <1>1
<1>3. PICK s : s = r
  OBVIOUS
<1> HIDE DEF r
<1>4. /\ s[0] = [seen |-> start, queue |-> start]
      /\ \A k \in Nat : s[k + 1] = RoundOf(next, s[k])
  <2>1. s = [k \in Nat |-> IF k = 0 THEN [seen |-> start, queue |-> start] ELSE RoundOf(next, s[k - 1])]
    BY <1>2, <1>3 DEF Searches
  <2>2. s[0] = [seen |-> start, queue |-> start]
    BY <2>1
  <2>3. ASSUME NEW k \in Nat PROVE s[k + 1] = RoundOf(next, s[k])
    <3>1. k + 1 \in Nat /\ k + 1 # 0 /\ (k + 1) - 1 = k
      OBVIOUS
    <3>2. s[k + 1] = RoundOf(next, s[(k + 1) - 1])
      BY <2>1, <3>1
    <3> QED BY <3>1, <3>2
  <2> QED BY <2>2, <2>3
<1> DEFINE seen(k) == s[k].seen
           queue(k) == s[k].queue
           ok(k) == /\ start \in SUBSET seen(k) /\ seen(k) \in SUBSET U /\ queue(k) \in SUBSET seen(k)
                    /\ \A x \in seen(k) \ queue(k) : next[x] \in SUBSET seen(k)
                    /\ \A C \in SUBSET U : start \in SUBSET C /\ ClosedUnder(next, C) => seen(k) \in SUBSET C
                    /\ queue(k) = {} \/ Cardinality(seen(k)) >= k + 1
           bad == {k \in Nat : ~ ok(k)}
<1>5. ok(0)
  <2>1. seen(0) = start /\ queue(0) = start
    BY <1>4
  <2>2. start = {} \/ Cardinality(start) >= 1
    BY FS_Subset, FS_CardinalityType, FS_EmptySet
  <2> QED BY <2>1, <2>2
<1>6. ASSUME NEW k \in Nat, ok(k) PROVE ok(k + 1)
  <2> DEFINE add == (UNION {next[x] : x \in queue(k)}) \ seen(k)
  <2>1. seen(k + 1) = seen(k) \cup add /\ queue(k + 1) = add
    <3>1. s[k + 1] = RoundOf(next, s[k])
      BY <1>4
    <3> QED BY <3>1 DEF RoundOf, NewIn
  <2>2. PICK S, Q : S = seen(k) /\ Q = queue(k)
    OBVIOUS
  <2>3. /\ start \in SUBSET S /\ S \in SUBSET U /\ Q \in SUBSET S
        /\ \A x \in S \ Q : next[x] \in SUBSET S
        /\ \A C \in SUBSET U : start \in SUBSET C /\ ClosedUnder(next, C) => S \in SUBSET C
        /\ Q = {} \/ Cardinality(S) >= k + 1
    BY <1>6, <2>2
  <2>4. PICK A : A = (UNION {next[x] : x \in Q}) \ S
    OBVIOUS
  <2>5. seen(k + 1) = S \cup A /\ queue(k + 1) = A
    BY <2>1, <2>2, <2>4
  <2> HIDE DEF seen, queue
  <2>6. A \in SUBSET U
    BY <2>3, <2>4 DEF ClosedUnder
  <2>7. ASSUME NEW x \in S PROVE next[x] \in SUBSET (S \cup A)
    BY <2>3, <2>4
  <2>8. ASSUME NEW C \in SUBSET U, start \in SUBSET C, ClosedUnder(next, C) PROVE S \cup A \in SUBSET C
    <3>1. S \in SUBSET C
      BY <2>3, <2>8
    <3>2. A \in SUBSET C
      BY <2>3, <2>4, <2>8, <3>1 DEF ClosedUnder
    <3> QED BY <3>1, <3>2
  <2>9. A = {} \/ Cardinality(S \cup A) >= (k + 1) + 1
    <3> SUFFICES ASSUME A # {} PROVE Cardinality(S \cup A) >= (k + 1) + 1
      OBVIOUS
    <3>1. Q # {}
      BY <2>4
    <3>2. PICK a \in A : TRUE
      OBVIOUS
    <3>3. a \notin S /\ IsFiniteSet(S) /\ IsFiniteSet(S \cup A)
      BY <2>3, <2>4, <2>6, FS_Subset
    <3>4. Cardinality(S \cup {a}) = Cardinality(S) + 1
      BY <3>3, FS_AddElement
    <3>5. Cardinality(S \cup {a}) <= Cardinality(S \cup A)
      <4>1. S \cup {a} \in SUBSET (S \cup A)
        OBVIOUS
      <4> QED BY <3>3, <4>1, FS_Subset
    <3>6. Cardinality(S) \in Nat /\ Cardinality(S \cup A) \in Nat
      BY <3>3, FS_CardinalityType
    <3> QED BY <2>3, <3>1, <3>4, <3>5, <3>6
  <2>10. ASSUME NEW x \in (S \cup A) \ A PROVE next[x] \in SUBSET (S \cup A)
    BY <2>7
  <2>11. start \in SUBSET (S \cup A) /\ S \cup A \in SUBSET U /\ A \in SUBSET (S \cup A)
    BY <2>3, <2>6
  <2> QED BY <2>5, <2>8, <2>9, <2>10, <2>11
<1>7. bad = {}
  <2> SUFFICES ASSUME bad # {} PROVE FALSE
    OBVIOUS
  <2> HIDE DEF ok
  <2>1. PICK k \in bad : \A j \in bad : k <= j
    BY LeastExists
  <2>2. k \in Nat /\ ~ ok(k)
    OBVIOUS
  <2>3. k # 0
    BY <1>5, <2>2
  <2>4. PICK m \in Nat : k = m + 1
    BY <2>2, <2>3
  <2>5. m \notin bad
    BY <2>1, <2>4
  <2>6. ok(m)
    BY <2>5
  <2>7. ok(m + 1)
    BY <1>6, <2>6
  <2> QED BY <2>2, <2>4, <2>7
<1>8. ok(n)
  BY <1>7
<1>9. Reached(start, next, n) = seen(n)
  BY <1>3, ReachedIsSearch DEF r
<1>10. PICK S, Q : S = seen(n) /\ Q = queue(n)
  OBVIOUS
<1>11. /\ start \in SUBSET S /\ S \in SUBSET U /\ Q \in SUBSET S
       /\ \A x \in S \ Q : next[x] \in SUBSET S
       /\ \A C \in SUBSET U : start \in SUBSET C /\ ClosedUnder(next, C) => S \in SUBSET C
       /\ Q = {} \/ Cardinality(S) >= n + 1
  BY <1>8, <1>10
<1>12. Q = {}
  <2>1. Cardinality(S) <= Cardinality(U) /\ Cardinality(S) \in Nat /\ Cardinality(U) \in Nat
    BY <1>11, FS_Subset, FS_CardinalityType
  <2> QED BY <1>11, <2>1
<1>13. ClosedUnder(next, S)
  BY <1>11, <1>12 DEF ClosedUnder
<1> HIDE DEF seen
<1> QED BY <1>9, <1>10, <1>11, <1>13

-----------------------------------------------------------------------------
(* Sequences: what they range over.                                        *)

(* A function on 1 .. n into S is a sequence. *)
LEMMA SeqIntro ==
    ASSUME NEW S, NEW n \in Nat, NEW s, s = [k \in 1 .. n |-> s[k]], \A k \in 1 .. n : s[k] \in S
    PROVE  s \in Seq(S) /\ Len(s) = n /\ DOMAIN s = 1 .. n
OBVIOUS

(* A sequence that lists the elements of S, each of them once. *)
Lists(s, S) ==
    /\ s \in Seq(S) /\ Range(s) = S
    /\ \A i, j \in DOMAIN s : s[i] = s[j] => i = j

(* The k-th of s has k - 1 elements before it, when any has. *)
Ranked(s, S, R) ==
    /\ s = [k \in 1 .. Cardinality(S) |-> s[k]]
    /\ \A k \in 1 .. Cardinality(S) :
        (\E x \in S : RankIn(R, S, x) = k - 1) => s[k] \in S /\ RankIn(R, S, s[k]) = k - 1

(* Sorting by a total order lists every element. *)
LEMMA RankedLists ==
    ASSUME NEW S, IsFiniteSet(S), NEW R, TotalOrder(R, S), NEW s, Ranked(s, S, R)
    PROVE  Lists(s, S)
<1>1. PICK n \in Nat : n = Cardinality(S)
  BY FS_CardinalityType
<1> DEFINE rank == [x \in S |-> RankIn(R, S, x)]
<1>2. rank \in Bijection(S, 0 .. n - 1)
  BY <1>1, RankBijection
<1>3. /\ \A x \in S : rank[x] \in 0 .. n - 1
      /\ \A x, y \in S : rank[x] = rank[y] => x = y
      /\ \A k \in 0 .. n - 1 : \E x \in S : rank[x] = k
  <2> HIDE DEF rank
  <2> QED BY <1>2 DEF Bijection, Injection, Surjection, IsInjective
<1>4. \A x \in S : rank[x] = RankIn(R, S, x)
  OBVIOUS
<1> HIDE DEF rank
<1>5. ASSUME NEW k \in 1 .. n PROVE s[k] \in S /\ rank[s[k]] = k - 1
  <2>1. k - 1 \in 0 .. n - 1
    OBVIOUS
  <2>2. PICK x \in S : rank[x] = k - 1
    BY <1>3, <2>1
  <2>3. RankIn(R, S, x) = k - 1
    BY <1>4, <2>2
  <2>4. s[k] \in S /\ RankIn(R, S, s[k]) = k - 1
    BY <1>1, <2>3 DEF Ranked
  <2> QED BY <1>4, <2>4
<1>6. s = [k \in 1 .. n |-> s[k]]
  BY <1>1 DEF Ranked
<1>7. s \in Seq(S)
  BY <1>5, <1>6
<1>8. ASSUME NEW x \in S PROVE \E k \in 1 .. n : s[k] = x
  <2>1. PICK j \in 0 .. n - 1 : j = rank[x]
    BY <1>3
  <2>2. PICK k \in 1 .. n : j = k - 1
    <3>1. j + 1 \in 1 .. n /\ j = (j + 1) - 1
      OBVIOUS
    <3> QED BY <3>1
  <2>3. s[k] = x
    BY <1>3, <1>5, <2>1, <2>2
  <2> QED BY <2>3
<1>9. DOMAIN s = 1 .. n
  BY <1>6
<1>10. Range(s) = S
  BY <1>5, <1>8, <1>9 DEF Range
<1>11. ASSUME NEW i \in 1 .. n, NEW j \in 1 .. n, s[i] = s[j] PROVE i = j
  <2>1. rank[s[i]] = i - 1 /\ rank[s[j]] = j - 1
    BY <1>5
  <2> QED BY <1>11, <2>1
<1> QED BY <1>7, <1>9, <1>10, <1>11 DEF Lists

(* What is joined ranges over what the two range over. *)
LEMMA ConcatRange ==
    ASSUME NEW T, NEW a \in Seq(T), NEW b \in Seq(T)
    PROVE  a \o b \in Seq(T) /\ Range(a \o b) = Range(a) \cup Range(b)
<1>1. a \o b \in Seq(T) /\ Len(a \o b) = Len(a) + Len(b)
  OBVIOUS
<1>2. ASSUME NEW i \in 1 .. Len(a) PROVE (a \o b)[i] = a[i] /\ i \in 1 .. Len(a \o b)
  OBVIOUS
<1>3. ASSUME NEW i \in 1 .. Len(b) PROVE (a \o b)[Len(a) + i] = b[i] /\ Len(a) + i \in 1 .. Len(a \o b)
  OBVIOUS
<1>4. ASSUME NEW i \in 1 .. Len(a \o b)
      PROVE  (a \o b)[i] \in Range(a) \cup Range(b)
  BY <1>1 DEF Range
<1>5. DOMAIN (a \o b) = 1 .. Len(a \o b) /\ DOMAIN a = 1 .. Len(a) /\ DOMAIN b = 1 .. Len(b)
  OBVIOUS
<1>6. PICK c : c = a \o b
  OBVIOUS
<1>7. Range(c) \in SUBSET (Range(a) \cup Range(b))
  BY <1>4, <1>5, <1>6 DEF Range
<1>8. Range(a) \in SUBSET Range(c)
  BY <1>2, <1>5, <1>6 DEF Range
<1>9. Range(b) \in SUBSET Range(c)
  BY <1>3, <1>5, <1>6 DEF Range
<1> QED BY <1>1, <1>6, <1>7, <1>8, <1>9

(* The recursion behind the library's concatenation of sequences. *)
Flattens(f, s) == f = [i \in 1 .. Len(s) |-> IF i = 1 THEN s[i] ELSE f[i - 1] \o s[i]]

(* What is concatenated ranges over what the parts range over. *)
LEMMA FlattenRange ==
    ASSUME NEW T, NEW s \in Seq(Seq(T))
    PROVE  /\ FlattenSeq(s) \in Seq(T)
           /\ Range(FlattenSeq(s)) = UNION {Range(s[k]) : k \in DOMAIN s}
<1>1. PICK n \in Nat : n = Len(s) /\ DOMAIN s = 1 .. n
  OBVIOUS
<1>2. \A k \in 1 .. n : s[k] \in Seq(T)
  BY <1>1
<1>3. CASE n = 0
  <2>1. FlattenSeq(s) = <<>> /\ s = <<>>
    BY <1>1, <1>3 DEF FlattenSeq
  <2> QED BY <2>1 DEF Range
<1>4. CASE n # 0
  <2> DEFINE f == CHOOSE g : Flattens(g, s)
             step == [q \in Nat \X Seq(T) |-> IF q[1] + 2 \in 1 .. n THEN q[2] \o s[q[1] + 2] ELSE q[2]]
  <2>1. FlattenSeq(s) = f[n]
    BY <1>1, <1>4 DEF FlattenSeq, Flattens
  <2>2. step \in [Nat \X Seq(T) -> Seq(T)]
    <3>1. ASSUME NEW q \in Nat \X Seq(T)
          PROVE  (IF q[1] + 2 \in 1 .. n THEN q[2] \o s[q[1] + 2] ELSE q[2]) \in Seq(T)
      BY <1>2
    <3> QED BY <3>1
  <2>3. \A k \in Nat, t \in Seq(T) :
            step[<<k, t>>] = IF k + 2 \in 1 .. n THEN t \o s[k + 2] ELSE t
    OBVIOUS
  <2>4. s[1] \in Seq(T)
    BY <1>2, <1>4
  <2> HIDE DEF f, step
  <2>5. PICK g : Follows(g, Seq(T), s[1], step)
    BY <2>2, <2>4, RecursionExists
  <2>6. g \in [Nat -> Seq(T)] /\ g[0] = s[1] /\ \A k \in Nat : g[k + 1] = step[<<k, g[k]>>]
    BY <2>5 DEF Follows
  <2> DEFINE h == [i \in 1 .. n |-> g[i - 1]]
  <2>7. ASSUME NEW i \in 1 .. n PROVE h[i] = IF i = 1 THEN s[i] ELSE h[i - 1] \o s[i]
    <3>1. CASE i = 1
      BY <2>6, <3>1
    <3>2. CASE i # 1
      <4>1. PICK k \in Nat : i = k + 2
        <5>1. i - 2 \in Nat /\ i = (i - 2) + 2
          BY <3>2
        <5> QED BY <5>1
      <4>2. i - 1 \in 1 .. n /\ i - 1 = k + 1 /\ (i - 1) - 1 = k /\ k + 2 \in 1 .. n
        BY <4>1
      <4>3. g[k + 1] = g[k] \o s[k + 2]
        BY <2>3, <2>6, <4>2
      <4>4. h[i] = g[k + 1] /\ h[i - 1] = g[k]
        BY <4>2
      <4> QED BY <3>2, <4>1, <4>3, <4>4
    <3> QED BY <3>1, <3>2
  <2>8. h = [i \in 1 .. n |-> IF i = 1 THEN s[i] ELSE h[i - 1] \o s[i]]
    <3> DEFINE r == [i \in 1 .. n |-> IF i = 1 THEN s[i] ELSE h[i - 1] \o s[i]]
    <3>1. \A i \in 1 .. n : h[i] = r[i]
      BY <2>7
    <3>2. DOMAIN h = 1 .. n /\ DOMAIN r = 1 .. n /\ h = [i \in 1 .. n |-> h[i]] /\ r = [i \in 1 .. n |-> r[i]]
      OBVIOUS
    <3> HIDE DEF h, r
    <3>3. h = r
      BY <3>1, <3>2
    <3> QED BY <3>3 DEF r
  <2>9. Flattens(h, s)
    <3> HIDE DEF h
    <3> QED BY <1>1, <2>8 DEF Flattens
  <2>10. Flattens(f, s)
    <3>1. \E e : Flattens(e, s)
      BY <2>9
    <3> QED BY <3>1 DEF f
  <2>11. \A i \in 1 .. n : f[i] = IF i = 1 THEN s[i] ELSE f[i - 1] \o s[i]
    BY <1>1, <2>10 DEF Flattens
  <2> DEFINE ok(k) == f[k] \in Seq(T) /\ Range(f[k]) = UNION {Range(s[j]) : j \in 1 .. k}
             bad == {k \in 1 .. n : ~ ok(k)}
  <2>12. ok(1)
    <3>1. f[1] = s[1]
      BY <1>4, <2>11
    <3>2. 1 .. 1 = {1}
      OBVIOUS
    <3> QED BY <2>4, <3>1, <3>2
  <2>13. ASSUME NEW k \in Nat, k + 1 \in 1 .. n, k # 0, ok(k) PROVE ok(k + 1)
    <3>1. f[k + 1] = f[k] \o s[k + 1]
      <4>1. k + 1 # 1 /\ (k + 1) - 1 = k
        BY <2>13
      <4> QED BY <2>11, <2>13, <4>1
    <3>2. PICK a, b : a = f[k] /\ b = s[k + 1]
      OBVIOUS
    <3>3. a \in Seq(T) /\ b \in Seq(T)
      BY <1>2, <2>13, <3>2
    <3>4. a \o b \in Seq(T) /\ Range(a \o b) = Range(a) \cup Range(b)
      BY <3>3, ConcatRange
    <3>5. Range(a \o b) = UNION {Range(s[j]) : j \in 1 .. k + 1}
      <4>1. 1 .. k + 1 = (1 .. k) \cup {k + 1}
        OBVIOUS
      <4>2. Range(a) = UNION {Range(s[j]) : j \in 1 .. k}
        BY <2>13, <3>2
      <4> QED BY <3>2, <3>4, <4>1, <4>2
    <3> QED BY <3>1, <3>2, <3>4, <3>5
  <2>14. bad = {}
    <3> SUFFICES ASSUME bad # {} PROVE FALSE
      OBVIOUS
    <3>1. bad \subseteq Nat
      OBVIOUS
    <3> HIDE DEF ok
    <3>2. PICK k \in bad : \A j \in bad : k <= j
      <4> HIDE DEF bad
      <4> QED BY <3>1, LeastExists
    <3>3. k \in 1 .. n /\ ~ ok(k)
      OBVIOUS
    <3>4. k # 1
      BY <2>12, <3>3
    <3>5. PICK m \in Nat : k = m + 1 /\ m # 0
      <4>1. k - 1 \in Nat /\ k = (k - 1) + 1 /\ k - 1 # 0
        BY <3>3, <3>4
      <4> QED BY <4>1
    <3>6. m \in 1 .. n /\ m \notin bad
      BY <3>2, <3>3, <3>5
    <3>7. ok(m)
      BY <3>6
    <3>8. ok(m + 1)
      BY <2>13, <3>3, <3>5, <3>7
    <3> QED BY <3>3, <3>5, <3>8
  <2>15. ok(n)
    BY <1>4, <2>14
  <2> QED BY <1>1, <2>1, <2>15
<1> QED BY <1>3, <1>4

-----------------------------------------------------------------------------
(* Networks, as a set of links E over a set of nodes N.                    *)

(* No link leads out of C. *)
Keeps(E, C) == \A l \in E : l.src \in C => l.dst \in C

(* Every node leads to every other one. *)
Strong(E, N) == \A C \in SUBSET N : C # {} /\ Keeps(E, C) => C = N

(* The links are a list of the links of E, between nodes of N. *)
Linking(ls, N) ==
    /\ ls \in Seq(Range(ls))
    /\ \A l \in Range(ls) : l.src \in N /\ l.dst \in N

(* The turns of a list of links: every one but the immediate return. *)
TurnsOf(ls) ==
    {t \in (DOMAIN ls) \X (DOMAIN ls) :
        ls[t[1]].dst = ls[t[2]].src /\ ls[t[1]].src # ls[t[2]].dst}

(* The indices of a sequence are finitely many. *)
LEMMA IndicesFinite ==
    ASSUME NEW T, NEW s \in Seq(T)
    PROVE  /\ Len(s) \in Nat /\ DOMAIN s = 1 .. Len(s) /\ IsFiniteSet(DOMAIN s)
           /\ Cardinality(DOMAIN s) = Len(s)
<1>1. Len(s) \in Nat /\ DOMAIN s = 1 .. Len(s)
  OBVIOUS
<1>2. PICK n \in Nat : n = Len(s)
  BY <1>1
<1>3. IsFiniteSet(1 .. n) /\ Cardinality(1 .. n) = IF 1 > n THEN 0 ELSE n - 1 + 1
  BY FS_Interval
<1> QED BY <1>1, <1>2, <1>3

(* What a search reaches was there at first or is next to what it reached. *)
LEMMA ReachedFromWhere ==
    ASSUME NEW U, IsFiniteSet(U), NEW start \in SUBSET U, NEW next, ClosedUnder(next, U),
           NEW n \in Nat, Cardinality(U) <= n, NEW x \in Reached(start, next, n)
    PROVE  x \in start \/ \E y \in Reached(start, next, n) : x \in next[y]
<1>1. PICK J : J = Reached(start, next, n)
  OBVIOUS
<1>2. /\ start \in SUBSET J /\ J \in SUBSET U /\ ClosedUnder(next, J)
      /\ \A C \in SUBSET U : start \in SUBSET C /\ ClosedUnder(next, C) => J \in SUBSET C
  BY <1>1, ReachedClosed
<1> DEFINE C == {z \in J : z \in start \/ \E y \in J : z \in next[y]}
<1>3. C \in SUBSET U /\ start \in SUBSET C /\ ClosedUnder(next, C)
  BY <1>2 DEF ClosedUnder
<1>4. J \in SUBSET C
  <2> HIDE DEF C
  <2> QED BY <1>2, <1>3
<1>5. x \in C
  BY <1>1, <1>4
<1> QED BY <1>1, <1>5

(* The ban on turning back loses nothing: where every node leads to every  *)
(* other one by the links, it does so by the permitted turns.              *)
THEOREM TurnsLoseNothing ==
    ASSUME Linking(links, DOMAIN nodes), Strong(Range(links), DOMAIN nodes),
           turns = TurnsOf(links), NEW a \in DOMAIN nodes, NEW b \in DOMAIN nodes, a # b
    PROVE  b \in DrivenTo(a)
<1>1. PICK U, n : U = DOMAIN links /\ n = Len(links)
  OBVIOUS
<1>2. n \in Nat /\ U = 1 .. n /\ IsFiniteSet(U) /\ Cardinality(U) = n
  BY <1>1, IndicesFinite DEF Linking
<1>3. PICK next : next = TurnsInto
  OBVIOUS
<1>4. \A i \in U : next[i] = {t[2] : t \in {x \in turns : x[1] = i}}
  BY <1>1, <1>3 DEF TurnsInto
<1>5. ASSUME NEW i \in U, NEW j \in U
      PROVE  j \in next[i] <=> (links[i].dst = links[j].src /\ links[i].src # links[j].dst)
  <2>1. j \in next[i] <=> <<i, j>> \in turns
    <3>1. ASSUME NEW t \in turns PROVE t = <<t[1], t[2]>>
      BY <3>1 DEF TurnsOf
    <3>2. next[i] = {t[2] : t \in {x \in turns : x[1] = i}}
      BY <1>4
    <3>3. ASSUME j \in next[i] PROVE <<i, j>> \in turns
      <4>1. PICK t \in turns : t[1] = i /\ j = t[2]
        BY <3>2, <3>3
      <4>2. t = <<t[1], t[2]>>
        BY <3>1
      <4> QED BY <4>1, <4>2
    <3>4. ASSUME <<i, j>> \in turns PROVE j \in next[i]
      <4>1. <<i, j>>[1] = i /\ <<i, j>>[2] = j
        OBVIOUS
      <4> QED BY <3>2, <3>4, <4>1
    <3> QED BY <3>3, <3>4
  <2>2. <<i, j>> \in turns <=> (links[i].dst = links[j].src /\ links[i].src # links[j].dst)
    BY <1>1 DEF TurnsOf
  <2> QED BY <2>1, <2>2
<1>6. ClosedUnder(next, U)
  <2>1. ASSUME NEW i \in U PROVE next[i] \in SUBSET U
    <3>1. \A t \in turns : t[2] \in U
      BY <1>1 DEF TurnsOf
    <3>2. next[i] = {t[2] : t \in {x \in turns : x[1] = i}}
      BY <1>4
    <3> QED BY <3>1, <3>2
  <2> QED BY <2>1 DEF ClosedUnder
<1>7. PICK start \in SUBSET U : start = {i \in U : links[i].src = a}
  OBVIOUS
<1>8. PICK J : J = Reached(start, next, n)
  OBVIOUS
<1>a. IsFiniteSet(U) /\ n \in Nat /\ Cardinality(U) <= n
  BY <1>2
<1>9. start \in SUBSET J /\ J \in SUBSET U /\ ClosedUnder(next, J)
  BY ONLY <1>a, <1>6, <1>8, ReachedClosed
<1>10. \A x \in J : x \in start \/ \E y \in J : x \in next[y]
  BY ONLY <1>a, <1>6, <1>8, ReachedFromWhere
<1>11. DrivenTo(a) = {links[j].dst : j \in J}
  BY <1>1, <1>3, <1>7, <1>8 DEF DrivenTo
<1> DEFINE D == {links[j].dst : j \in J} \cup {a}
<1>12. \A i \in U : links[i] \in Range(links)
  BY <1>1 DEF Range
<1>13. D \in SUBSET DOMAIN nodes
  BY <1>9, <1>12 DEF Linking
<1>14. ASSUME NEW l \in Range(links), l.src \in D PROVE l.dst \in D
  <2>1. PICK i \in U : l = links[i]
    BY <1>1 DEF Range
  <2>2. CASE l.src = a
    <3>1. i \in J
      BY <1>7, <1>9, <2>1, <2>2
    <3> QED BY <2>1, <3>1
  <2>3. CASE l.src # a
    <3>1. PICK j \in J : links[j].dst = links[i].src
      BY <1>14, <2>1, <2>3
    <3>2. j \in U
      BY <1>9
    <3>3. CASE links[j].src # links[i].dst
      <4>1. i \in next[j]
        BY <1>5, <3>1, <3>2, <3>3
      <4>2. i \in J
        BY <1>9, <4>1 DEF ClosedUnder
      <4> QED BY <2>1, <4>2
    <3>4. CASE links[j].src = links[i].dst
      <4>1. CASE j \in start
        BY <1>7, <2>1, <3>4, <4>1
      <4>2. CASE j \notin start
        <5>1. PICK y \in J : j \in next[y]
          BY <1>10, <4>2
        <5>2. y \in U
          BY <1>9
        <5>3. links[y].dst = links[j].src
          BY <1>5, <3>2, <5>1, <5>2
        <5>4. links[y].dst = l.dst
          BY <2>1, <3>4, <5>3
        <5> QED BY <5>4
      <4> QED BY <4>1, <4>2
    <3> QED BY <3>3, <3>4
  <2> QED BY <2>2, <2>3
<1>15. Keeps(Range(links), D)
  <2> HIDE DEF D
  <2> QED BY <1>14 DEF Keeps
<1>16. D = DOMAIN nodes
  <2>1. D # {}
    OBVIOUS
  <2> HIDE DEF D
  <2> QED BY <1>13, <1>15, <2>1 DEF Strong
<1>17. b \in D
  BY <1>16
<1> QED BY <1>11, <1>17

(* Where every node leads to every other one the searches find them all. *)
LEMMA StrongIsLinked ==
    ASSUME Linking(links, DOMAIN nodes), Strong(Range(links), DOMAIN nodes),
           IsFiniteSet(DOMAIN nodes), NEW a \in DOMAIN nodes
    PROVE  ReachedFrom(a, Onward) = DOMAIN nodes /\ ReachedFrom(a, Around) = DOMAIN nodes
<1>1. PICK N, n, E : N = DOMAIN nodes /\ n = Cardinality(N) /\ E = Range(links)
  OBVIOUS
<1>2. n \in Nat /\ {a} \in SUBSET N /\ IsFiniteSet(N)
  BY <1>1, FS_CardinalityType
<1>3. \A x \in N : Onward[x] = {l.dst : l \in {m \in E : m.src = x}}
  BY <1>1 DEF Onward
<1>4. \A x \in N : Around[x] = Onward[x] \cup {l.src : l \in {m \in E : m.dst = x}}
  BY <1>1 DEF Around
<1>5. \A l \in E : l.src \in N /\ l.dst \in N
  BY <1>1 DEF Linking
<1>6. ClosedUnder(Onward, N) /\ ClosedUnder(Around, N)
  BY <1>3, <1>4, <1>5 DEF ClosedUnder
<1>7. ASSUME NEW next, next \in {Onward, Around} PROVE Reached({a}, next, n) = N
  <2>1. PICK R : R = Reached({a}, next, n)
    OBVIOUS
  <2>2. {a} \in SUBSET R /\ R \in SUBSET N /\ ClosedUnder(next, R)
    BY <1>1, <1>2, <1>6, <1>7, <2>1, ReachedClosed
  <2>3. \A x \in N : Onward[x] \in SUBSET next[x]
    BY <1>4, <1>7
  <2>4. ASSUME NEW l \in E, l.src \in R PROVE l.dst \in R
    <3>1. l.dst \in Onward[l.src]
      BY <1>3, <1>5
    <3>2. l.dst \in next[l.src]
      BY <1>5, <2>3, <3>1
    <3> QED BY <2>2, <2>4, <3>2 DEF ClosedUnder
  <2>5. Keeps(E, R)
    BY <2>4 DEF Keeps
  <2> QED BY <1>1, <2>1, <2>2, <2>5 DEF Strong
<1>8. Reached({a}, Onward, n) = N /\ Reached({a}, Around, n) = N
  BY <1>7
<1> QED BY <1>1, <1>8 DEF ReachedFrom

-----------------------------------------------------------------------------
(* The generated network.                                                  *)

(* Every link has one that leads back on the same road. *)
Paired(E) == \A l \in E : \E m \in E : m.src = l.dst /\ m.dst = l.src /\ m.road = l.road

(* A road has its two ends, whichever link of it is asked. *)
Roadwise(E) ==
    /\ \A l \in E : l.road \in Nat
    /\ \A l, m \in E : l.road = m.road => {l.src, l.dst} = {m.src, m.dst}

Network(ls, at) ==
    /\ IsFiniteSet(DOMAIN at) /\ DOMAIN at # {} /\ DOMAIN at \in SUBSET Nat
    /\ \A n \in DOMAIN at : at[n] \in Int \X Int
    /\ Linking(ls, DOMAIN at) /\ Paired(Range(ls)) /\ Roadwise(Range(ls))

(* The components that are left: what leads nowhere out of itself has all  *)
(* of each or nothing of it, and something of one if it has anything.      *)
Joins(ap, E, N) ==
    /\ ap \in Seq(SUBSET N) /\ Len(ap) >= 1
    /\ \A k \in 1 .. Len(ap) : ap[k] # {}
    /\ \A C \in SUBSET N : Keeps(E, C) =>
        /\ \A k \in 1 .. Len(ap) : ap[k] \in SUBSET C \/ ap[k] \cap C = {}
        /\ (\A k \in 1 .. Len(ap) : ap[k] \cap C = {}) => C = {}

(* What leads nowhere out of itself is not led into either. *)
LEMMA KeepsBothWays ==
    ASSUME NEW E, NEW N, \A l \in E : l.src \in N /\ l.dst \in N, Paired(E),
           NEW C \in SUBSET N, Keeps(E, C)
    PROVE  Keeps(E, N \ C) /\ \A l \in E : l.src \in C <=> l.dst \in C
<1>1. ASSUME NEW l \in E, l.dst \in C PROVE l.src \in C
  <2>1. PICK m \in E : m.src = l.dst /\ m.dst = l.src
    BY DEF Paired
  <2> QED BY <1>1, <2>1 DEF Keeps
<1> QED BY <1>1 DEF Keeps

(* A pair as a sequence. *)
LEMMA PairRange ==
    ASSUME NEW a, NEW b
    PROVE  Range(<<a, b>>) = {a, b} /\ \A T : a \in T /\ b \in T => <<a, b>> \in Seq(T)
<1>1. DOMAIN <<a, b>> = 1 .. 2 /\ <<a, b>>[1] = a /\ <<a, b>>[2] = b
  OBVIOUS
<1>2. 1 .. 2 = {1, 2}
  OBVIOUS
<1>3. ASSUME NEW T, a \in T, b \in T PROVE <<a, b>> \in Seq(T)
  BY <1>3
<1> QED BY <1>1, <1>2, <1>3 DEF Range

(* The two links of a two-way street. *)
LEMMA LanesAre ==
    ASSUME NEW r \in DOMAIN Streets, Streets[r].twoWay
    PROVE  \E l, m : /\ LanesOf(r) = <<l, m>> /\ l.road = r /\ m.road = r
                     /\ l.src = Streets[r].ends[1] /\ l.dst = Streets[r].ends[2]
                     /\ m.src = Streets[r].ends[2] /\ m.dst = Streets[r].ends[1]
<1> DEFINE lane(from, to) == [src |-> from, dst |-> to, road |-> r, bridge |-> Streets[r].bridge]
           a == Streets[r].ends[1]
           b == Streets[r].ends[2]
<1>1. LanesOf(r) = <<lane(a, b), lane(b, a)>>
  BY DEF LanesOf
<1> QED BY <1>1

(* Streets are sorted by their ids. *)
LEMMA StreetsInOrder ==
    ASSUME NEW S, IsFiniteSet(S), S \in SUBSET Nat
    PROVE  Lists(Ordered(S, LAMBDA r, s : r < s), S)
<1> DEFINE R == {p \in S \X S : p[1] < p[2]}
           o == Ordered(S, LAMBDA r, s : r < s)
           at(k) == CHOOSE x \in S : Cardinality({y \in S : y < x}) = k - 1
<1>1. \A x, y \in S : <<x, y>> \in R <=> x < y
  OBVIOUS
<1>2. \A x \in S : x \in Int
  OBVIOUS
<1>3. TotalOrder(R, S)
  <2> HIDE DEF R
  <2> QED BY <1>1, <1>2 DEF TotalOrder
<1>4. \A x \in S : RankIn(R, S, x) = Cardinality({y \in S : y < x})
  <2> HIDE DEF R
  <2> SUFFICES ASSUME NEW x \in S PROVE {y \in S : <<y, x>> \in R} = {y \in S : y < x}
    BY DEF RankIn, Below
  <2> QED BY <1>1
<1>5. o = [k \in 1 .. Cardinality(S) |-> at(k)]
  BY DEF Ordered
<1> HIDE DEF R, o, at
<1>6. ASSUME NEW k \in 1 .. Cardinality(S), \E x \in S : RankIn(R, S, x) = k - 1
      PROVE  o[k] \in S /\ RankIn(R, S, o[k]) = k - 1
  <2>1. \E x \in S : Cardinality({y \in S : y < x}) = k - 1
    BY <1>4, <1>6
  <2>2. o[k] = at(k)
    BY <1>5
  <2>3. at(k) \in S /\ Cardinality({y \in S : y < at(k)}) = k - 1
    BY <2>1 DEF at
  <2> QED BY <1>4, <2>2, <2>3
<1>7. o = [k \in 1 .. Cardinality(S) |-> o[k]]
  BY <1>5
<1>8. Ranked(o, S, R)
  BY <1>6, <1>7 DEF Ranked
<1>9. Lists(o, S)
  BY <1>3, <1>8, RankedLists
<1> QED BY <1>9 DEF o

(* The links of a set of two-way streets. *)
LEMMA GeneratedLinks ==
    ASSUME NEW S, S \in SUBSET DOMAIN Streets, \A r \in S : Streets[r].twoWay,
           NEW ls, ls = FlattenSeq([k \in 1 .. Cardinality(S) |-> LanesOf(Ordered(S, LAMBDA r, s : r < s)[k])])
    PROVE  Linking(ls, Places) /\ Paired(Range(ls)) /\ Roadwise(Range(ls))
<1>1. IsFiniteSet(S) /\ S \in SUBSET Nat
  BY FinalizerAssumption, FS_Subset
<1>2. PICK o : o = Ordered(S, LAMBDA r, s : r < s)
  OBVIOUS
<1>3. o \in Seq(S) /\ Range(o) = S
  BY <1>1, <1>2, StreetsInOrder DEF Lists
<1>4. PICK n \in Nat : n = Cardinality(S)
  BY <1>1, FS_CardinalityType
<1>5. DOMAIN o = 1 .. n
  BY <1>2, <1>4 DEF Ordered
<1>6. PICK seqs : seqs = [k \in 1 .. n |-> LanesOf(o[k])]
  OBVIOUS
<1>7. ls = FlattenSeq(seqs)
  BY <1>2, <1>4, <1>6
<1>8. \A k \in 1 .. n : o[k] \in S
  BY <1>3, <1>5 DEF Range
<1>9. \A r \in S : \E k \in 1 .. n : o[k] = r
  BY <1>3, <1>5 DEF Range
<1> DEFINE T == UNION {Range(LanesOf(r)) : r \in S}
<1>10. ASSUME NEW r \in S PROVE LanesOf(r) \in Seq(T)
  <2>1. PICK l, m : /\ LanesOf(r) = <<l, m>> /\ l.road = r /\ m.road = r
                    /\ l.src = Streets[r].ends[1] /\ l.dst = Streets[r].ends[2]
                    /\ m.src = Streets[r].ends[2] /\ m.dst = Streets[r].ends[1]
    BY LanesAre
  <2>2. Range(<<l, m>>) = {l, m}
    BY PairRange
  <2>3. l \in T /\ m \in T
    BY <2>1, <2>2
  <2> HIDE DEF T
  <2>4. <<l, m>> \in Seq(T)
    BY <2>3, PairRange
  <2> QED BY <2>1, <2>4
<1>11. seqs \in Seq(Seq(T))
  <2> HIDE DEF T
  <2>1. \A k \in 1 .. n : LanesOf(o[k]) \in Seq(T)
    BY <1>8, <1>10
  <2>2. \A k \in 1 .. n : seqs[k] \in Seq(T)
    BY <1>6, <2>1
  <2>3. seqs = [k \in 1 .. n |-> seqs[k]]
    BY <1>6
  <2> QED BY ONLY <2>2, <2>3, SeqIntro, n \in Nat
<1>12. DOMAIN seqs = 1 .. n
  BY <1>6
<1>13. ls \in Seq(T) /\ Range(ls) = UNION {Range(seqs[k]) : k \in 1 .. n}
  <2> HIDE DEF T
  <2> QED BY <1>7, <1>11, <1>12, FlattenRange
<1>14. Range(ls) = T
  <2>1. \A k \in 1 .. n : seqs[k] = LanesOf(o[k])
    BY <1>6
  <2>2. ASSUME NEW l \in T PROVE l \in Range(ls)
    <3>1. PICK r \in S : l \in Range(LanesOf(r))
      OBVIOUS
    <3>2. PICK k \in 1 .. n : o[k] = r
      BY <1>9
    <3>3. l \in Range(seqs[k])
      BY <2>1, <3>1, <3>2
    <3> QED BY <1>13, <3>3
  <2>3. ASSUME NEW l \in Range(ls) PROVE l \in T
    <3>1. PICK k \in 1 .. n : l \in Range(seqs[k])
      BY <1>13
    <3>2. l \in Range(LanesOf(o[k])) /\ o[k] \in S
      BY <1>8, <2>1, <3>1
    <3> QED BY <3>2
  <2> HIDE DEF T
  <2> QED BY <2>2, <2>3
<1>15. \A l \in Range(ls) : \E r \in S : l \in Range(LanesOf(r))
  BY <1>14
<1>16. \A r \in S : \A l \in Range(LanesOf(r)) : l \in Range(ls)
  BY <1>14
<1>17. ls \in Seq(Range(ls))
  BY <1>13, <1>14
<1> HIDE DEF T
<1>18. ASSUME NEW r \in S, NEW l \in Range(LanesOf(r))
       PROVE  /\ l.src \in Places /\ l.dst \in Places /\ l.road = r
              /\ {l.src, l.dst} = {Streets[r].ends[1], Streets[r].ends[2]}
              /\ \E m \in Range(LanesOf(r)) : m.src = l.dst /\ m.dst = l.src /\ m.road = l.road
  <2>1. PICK g, h : /\ LanesOf(r) = <<g, h>> /\ g.road = r /\ h.road = r
                    /\ g.src = Streets[r].ends[1] /\ g.dst = Streets[r].ends[2]
                    /\ h.src = Streets[r].ends[2] /\ h.dst = Streets[r].ends[1]
    BY LanesAre
  <2>2. Range(LanesOf(r)) = {g, h}
    BY <2>1, PairRange
  <2>3. Streets[r].ends[1] \in Places /\ Streets[r].ends[2] \in Places
    BY FinalizerAssumption
  <2> QED BY <2>1, <2>2, <2>3
<1>19. \A l \in Range(ls) : l.src \in Places /\ l.dst \in Places
  BY <1>15, <1>18
<1>20. Paired(Range(ls))
  <2>1. ASSUME NEW l \in Range(ls)
        PROVE  \E m \in Range(ls) : m.src = l.dst /\ m.dst = l.src /\ m.road = l.road
    <3>1. PICK r \in S : l \in Range(LanesOf(r))
      BY <1>15
    <3> QED BY <1>16, <1>18, <3>1
  <2> QED BY <2>1 DEF Paired
<1>21. Roadwise(Range(ls))
  <2>1. ASSUME NEW l \in Range(ls) PROVE l.road \in S /\ {l.src, l.dst} = {Streets[l.road].ends[1], Streets[l.road].ends[2]}
    <3>1. PICK r \in S : l \in Range(LanesOf(r))
      BY <1>15
    <3>2. l.road = r /\ {l.src, l.dst} = {Streets[r].ends[1], Streets[r].ends[2]}
      BY <1>18, <3>1
    <3> QED BY <3>2
  <2> QED BY <1>1, <2>1 DEF Roadwise
<1> QED BY <1>17, <1>19, <1>20, <1>21 DEF Linking

(* Components are sorted by size, then by their least nodes. *)
LEMMA ComponentsInOrder ==
    ASSUME NEW S, IsFiniteSet(S), \A a \in S : Cardinality(a) \in Nat /\ Min(a) \in Nat,
           \A a, b \in S : Min(a) = Min(b) => a = b
    PROVE  Lists(Ordered(S, LAMBDA a, b : Cardinality(a) > Cardinality(b) \/ (Cardinality(a) = Cardinality(b) /\ Min(a) < Min(b))), S)
<1> DEFINE R == {p \in S \X S : Cardinality(p[1]) > Cardinality(p[2]) \/ (Cardinality(p[1]) = Cardinality(p[2]) /\ Min(p[1]) < Min(p[2]))}
           o == Ordered(S, LAMBDA a, b : Cardinality(a) > Cardinality(b) \/ (Cardinality(a) = Cardinality(b) /\ Min(a) < Min(b)))
           before(x) == {y \in S : Cardinality(y) > Cardinality(x) \/ (Cardinality(y) = Cardinality(x) /\ Min(y) < Min(x))}
           at(k) == CHOOSE x \in S : Cardinality(before(x)) = k - 1
<1>1. \A u, v \in S : <<u, v>> \in R <=> (Cardinality(u) > Cardinality(v) \/ (Cardinality(u) = Cardinality(v) /\ Min(u) < Min(v)))
  OBVIOUS
<1>3. TotalOrder(R, S)
  <2> HIDE DEF R
  <2>1. \A u \in S : <<u, u>> \notin R
    BY <1>1
  <2>2. ASSUME NEW u \in S, NEW v \in S, u # v PROVE <<u, v>> \in R \/ <<v, u>> \in R
    <3>1. Min(u) # Min(v) /\ Min(u) \in Nat /\ Min(v) \in Nat
      BY <2>2
    <3>2. Cardinality(u) \in Nat /\ Cardinality(v) \in Nat
      OBVIOUS
    <3>3. PICK c, d, e, f : c = Cardinality(u) /\ d = Cardinality(v) /\ e = Min(u) /\ f = Min(v)
      OBVIOUS
    <3>4. c > d \/ (c = d /\ e < f) \/ d > c \/ (d = c /\ f < e)
      BY <3>1, <3>2, <3>3
    <3> QED BY <1>1, <3>3, <3>4
  <2>3. ASSUME NEW u \in S, NEW v \in S, NEW w \in S, <<u, v>> \in R, <<v, w>> \in R
        PROVE  <<u, w>> \in R
    BY <1>1, <2>3
  <2> QED BY <2>1, <2>2, <2>3 DEF TotalOrder
<1>4. \A u \in S : RankIn(R, S, u) = Cardinality(before(u))
  <2> HIDE DEF R
  <2> SUFFICES ASSUME NEW u \in S PROVE {v \in S : <<v, u>> \in R} = before(u)
    BY DEF RankIn, Below
  <2>1. ASSUME NEW v PROVE v \in {w \in S : <<w, u>> \in R} <=> v \in before(u)
    BY <1>1
  <2> HIDE DEF before
  <2> QED BY <2>1
<1>5. o = [k \in 1 .. Cardinality(S) |-> at(k)]
  BY DEF Ordered
<1> HIDE DEF R, o, at, before
<1>6. ASSUME NEW k \in 1 .. Cardinality(S), \E u \in S : RankIn(R, S, u) = k - 1
      PROVE  o[k] \in S /\ RankIn(R, S, o[k]) = k - 1
  <2>1. \E u \in S : Cardinality(before(u)) = k - 1
    BY <1>4, <1>6
  <2>2. at(k) \in S /\ Cardinality(before(at(k))) = k - 1
    BY <2>1 DEF at
  <2> QED BY <1>4, <1>5, <2>2
<1>7. Ranked(o, S, R)
  BY <1>5, <1>6 DEF Ranked
<1>8. Lists(o, S)
  BY <1>3, <1>7, RankedLists
<1> QED BY <1>8 DEF o

(* What is reached from a node by next, which leads back everywhere, is    *)
(* what is reached from any node of it.                                    *)
LEMMA ReachedTogether ==
    ASSUME NEW N, IsFiniteSet(N), NEW next, ClosedUnder(next, N),
           \A x, y \in N : y \in next[x] => x \in next[y],
           NEW n \in Nat, Cardinality(N) <= n, NEW x \in N, NEW y \in Reached({x}, next, n)
    PROVE  Reached({y}, next, n) = Reached({x}, next, n)
<1>1. \A z \in N : /\ {z} \in SUBSET Reached({z}, next, n) /\ Reached({z}, next, n) \in SUBSET N
                   /\ ClosedUnder(next, Reached({z}, next, n))
                   /\ \A C \in SUBSET N : {z} \in SUBSET C /\ ClosedUnder(next, C) =>
                        Reached({z}, next, n) \in SUBSET C
  <2> SUFFICES ASSUME NEW z \in N
               PROVE  /\ {z} \in SUBSET Reached({z}, next, n) /\ Reached({z}, next, n) \in SUBSET N
                      /\ ClosedUnder(next, Reached({z}, next, n))
                      /\ \A C \in SUBSET N : {z} \in SUBSET C /\ ClosedUnder(next, C) =>
                            Reached({z}, next, n) \in SUBSET C
    OBVIOUS
  <2>1. {z} \in SUBSET N
    OBVIOUS
  <2> QED BY <2>1, ReachedClosed
<1>2. PICK A, B : A = Reached({x}, next, n) /\ B = Reached({y}, next, n)
  OBVIOUS
<1>3. y \in A /\ y \in N /\ x \in A /\ y \in B /\ A \in SUBSET N /\ B \in SUBSET N
  BY <1>1, <1>2
<1>4. B \in SUBSET A
  BY <1>1, <1>2, <1>3
<1>5. x \in B
  <2> SUFFICES ASSUME x \notin B PROVE FALSE
    OBVIOUS
  <2>1. ClosedUnder(next, N \ B)
    <3>1. ClosedUnder(next, B)
      BY <1>1, <1>2, <1>3
    <3>2. ASSUME NEW u \in N \ B, NEW v \in next[u] PROVE v \in N \ B
      <4>1. v \in N
        BY DEF ClosedUnder
      <4>2. CASE v \in B
        <5>1. u \in next[v]
          BY <4>1
        <5> QED BY <3>1, <4>2, <5>1 DEF ClosedUnder
      <4> QED BY <4>1, <4>2
    <3> QED BY <3>2 DEF ClosedUnder
  <2>2. N \ B \in SUBSET N /\ {x} \in SUBSET (N \ B)
    OBVIOUS
  <2>3. A \in SUBSET (N \ B)
    BY <1>1, <1>2, <2>1, <2>2
  <2> QED BY <1>3, <2>3
<1>6. A \in SUBSET B
  BY <1>1, <1>2, <1>3, <1>5
<1> QED BY <1>2, <1>4, <1>6

(* The components of a network as it was generated. *)
LEMMA ComponentsJoin ==
    ASSUME Network(links, nodes)
    PROVE  Joins(Components, Range(links), DOMAIN nodes)
<1>1. PICK N, E, n, next : N = DOMAIN nodes /\ E = Range(links) /\ n = Cardinality(N) /\ next = Around
  OBVIOUS
<1>2. IsFiniteSet(N) /\ N # {} /\ N \in SUBSET Nat /\ n \in Nat /\ Cardinality(N) <= n
  BY <1>1, FS_CardinalityType DEF Network
<1>3. (\A l \in E : l.src \in N /\ l.dst \in N) /\ Paired(E)
  BY <1>1 DEF Network, Linking
<1>4. \A x \in N : next[x] = {l.dst : l \in {m \in E : m.src = x}} \cup {l.src : l \in {m \in E : m.dst = x}}
  BY <1>1 DEF Around, Onward
<1>5. ASSUME NEW x \in N, NEW y
      PROVE  y \in next[x] <=> \E l \in E : (l.src = x /\ l.dst = y) \/ (l.dst = x /\ l.src = y)
  BY <1>4
<1>6. ClosedUnder(next, N)
  BY <1>3, <1>5 DEF ClosedUnder
<1>7. \A x, y \in N : y \in next[x] => x \in next[y]
  BY <1>5
<1> DEFINE class(x) == Reached({x}, next, n)
           T == {class(x) : x \in N}
<1>8. \A x \in N : /\ x \in class(x) /\ class(x) \in SUBSET N
                   /\ \A C \in SUBSET N : x \in C /\ ClosedUnder(next, C) => class(x) \in SUBSET C
  <2> SUFFICES ASSUME NEW x \in N
               PROVE  /\ x \in class(x) /\ class(x) \in SUBSET N
                      /\ \A C \in SUBSET N : x \in C /\ ClosedUnder(next, C) => class(x) \in SUBSET C
    OBVIOUS
  <2>1. {x} \in SUBSET N
    OBVIOUS
  <2>2. /\ {x} \in SUBSET class(x) /\ class(x) \in SUBSET N
        /\ \A C \in SUBSET N : {x} \in SUBSET C /\ ClosedUnder(next, C) => class(x) \in SUBSET C
    BY <1>2, <1>6, <2>1, ReachedClosed
  <2> HIDE DEF class
  <2> QED BY <2>2
<1>9. \A x \in N : \A y \in class(x) : class(y) = class(x)
  <2> SUFFICES ASSUME NEW x \in N, NEW y \in class(x) PROVE class(y) = class(x)
    OBVIOUS
  <2>1. Cardinality(N) <= n /\ n \in Nat /\ IsFiniteSet(N)
    BY <1>2
  <2> QED BY ONLY <2>1, <1>6, <1>7, x \in N, y \in class(x), ReachedTogether
<1>10. Components =
          Ordered({class(x) : x \in N},
            LAMBDA a, b : \/ Cardinality(a) > Cardinality(b)
                          \/ Cardinality(a) = Cardinality(b) /\ Min(a) < Min(b))
  BY <1>1 DEF Components, ReachedFrom
<1> HIDE DEF class
<1>11. IsFiniteSet(T)
  <2>1. PICK f : f = [x \in N |-> class(x)]
    OBVIOUS
  <2>2. IsFiniteSet({f[x] : x \in N})
    <3>1. DOMAIN f = N
      BY <2>1
    <3> QED BY <1>2, <3>1, ImageFinite
  <2>3. {f[x] : x \in N} = T
    BY <2>1
  <2> QED BY <2>2, <2>3
<1>12. \A a \in T : \E x \in N : a = class(x)
  OBVIOUS
<1>13. \A x \in N : class(x) \in T
  OBVIOUS
<1> HIDE DEF T
<1>14. ASSUME NEW a \in T PROVE a # {} /\ a \in SUBSET N /\ Cardinality(a) \in Nat /\ Min(a) \in a /\ Min(a) \in Nat
  <2>1. PICK x \in N : a = class(x)
    BY <1>12
  <2>2. a # {} /\ a \in SUBSET N
    BY <1>8, <2>1
  <2>3. Cardinality(a) \in Nat
    BY <1>2, <2>2, FS_Subset, FS_CardinalityType
  <2>4. \E u \in a : \A v \in a : u <= v
    <3>1. a \subseteq Nat
      BY <1>2, <2>2
    <3> QED BY <2>2, <3>1, LeastExists
  <2>5. Min(a) \in a
    BY <2>4 DEF Min
  <2> QED BY <1>2, <2>2, <2>3, <2>5
<1>15. ASSUME NEW a \in T, NEW b \in T, Min(a) = Min(b) PROVE a = b
  <2>1. PICK x \in N, y \in N : a = class(x) /\ b = class(y)
    BY <1>12
  <2>2. Min(a) \in a /\ Min(a) \in b
    BY <1>14, <1>15
  <2> QED BY <1>9, <2>1, <2>2
<1>16. PICK ap : ap = Components
  OBVIOUS
<1>17. ap \in Seq(T) /\ Range(ap) = T
  <2>1. Lists(Ordered(T, LAMBDA a, b : \/ Cardinality(a) > Cardinality(b)
                                       \/ Cardinality(a) = Cardinality(b) /\ Min(a) < Min(b)), T)
    <3>1. \A a \in T : Cardinality(a) \in Nat /\ Min(a) \in Nat
      BY <1>14
    <3>2. \A a, b \in T : Min(a) = Min(b) => a = b
      BY <1>15
    <3> QED BY <1>11, <3>1, <3>2, ComponentsInOrder
  <2>2. Lists(ap, T)
    BY <1>10, <1>16, <2>1 DEF T
  <2> QED BY <2>2 DEF Lists
<1>18. Len(ap) \in Nat /\ DOMAIN ap = 1 .. Len(ap)
  BY <1>17
<1>19. \A k \in 1 .. Len(ap) : ap[k] \in T
  BY <1>17, <1>18 DEF Range
<1>20. ap \in Seq(SUBSET N)
  BY <1>14, <1>17
<1>21. \A x \in N : \E k \in 1 .. Len(ap) : x \in ap[k]
  <2> SUFFICES ASSUME NEW x \in N PROVE \E k \in 1 .. Len(ap) : x \in ap[k]
    OBVIOUS
  <2>1. class(x) \in Range(ap) /\ x \in class(x)
    BY <1>8, <1>13, <1>17
  <2> QED BY <1>18, <2>1 DEF Range
<1>22. Len(ap) >= 1
  <2>1. PICK x \in N : TRUE
    BY <1>2
  <2>2. PICK k \in 1 .. Len(ap) : x \in ap[k]
    BY <1>21
  <2> QED BY <1>18, <2>2
<1>23. ASSUME NEW C \in SUBSET N, Keeps(E, C)
       PROVE  /\ \A k \in 1 .. Len(ap) : ap[k] \in SUBSET C \/ ap[k] \cap C = {}
              /\ (\A k \in 1 .. Len(ap) : ap[k] \cap C = {}) => C = {}
  <2>1. \A l \in E : l.src \in C <=> l.dst \in C
    BY <1>3, <1>23, KeepsBothWays
  <2>2. ClosedUnder(next, C)
    BY <1>5, <2>1 DEF ClosedUnder
  <2>3. ASSUME NEW k \in 1 .. Len(ap), NEW x \in ap[k] \cap C PROVE ap[k] \in SUBSET C
    <3>1. PICK y \in N : ap[k] = class(y)
      BY <1>12, <1>19
    <3>2. class(x) = class(y)
      BY <1>9, <3>1
    <3>3. class(x) \in SUBSET C
      BY <1>8, <2>2
    <3> QED BY <3>1, <3>2, <3>3
  <2>4. ASSUME \A k \in 1 .. Len(ap) : ap[k] \cap C = {} PROVE C = {}
    BY <1>21, <2>4
  <2> QED BY <2>3, <2>4
<1>24. \A k \in 1 .. Len(ap) : ap[k] # {}
  BY <1>14, <1>19
<1> QED BY <1>1, <1>16, <1>20, <1>22, <1>23, <1>24 DEF Joins

(* Pairs of nodes are sorted by their distance, then by their ids. *)
LEMMA PairsInOrder ==
    ASSUME NEW S, IsFiniteSet(S), \A c \in S : c = <<c[1], c[2]>> /\ c[1] \in Int /\ c[2] \in Int,
           \A c \in S : SquaredDistance(nodes[c[1]], nodes[c[2]]) \in Int
    PROVE  LET far(c) == SquaredDistance(nodes[c[1]], nodes[c[2]])
           IN  Lists(Ordered(S, LAMBDA c, d : \/ far(c) < far(d)
                                              \/ far(c) = far(d) /\ c[1] < d[1]
                                              \/ far(c) = far(d) /\ c[1] = d[1] /\ c[2] < d[2]), S)
<1> DEFINE far(c) == SquaredDistance(nodes[c[1]], nodes[c[2]])
           R == {p \in S \X S : \/ far(p[1]) < far(p[2])
                                \/ far(p[1]) = far(p[2]) /\ p[1][1] < p[2][1]
                                \/ far(p[1]) = far(p[2]) /\ p[1][1] = p[2][1] /\ p[1][2] < p[2][2]}
           o == Ordered(S, LAMBDA c, d : \/ far(c) < far(d)
                                         \/ far(c) = far(d) /\ c[1] < d[1]
                                         \/ far(c) = far(d) /\ c[1] = d[1] /\ c[2] < d[2])
           before(x) == {y \in S : \/ far(y) < far(x)
                                   \/ far(y) = far(x) /\ y[1] < x[1]
                                   \/ far(y) = far(x) /\ y[1] = x[1] /\ y[2] < x[2]}
           at(k) == CHOOSE x \in S : Cardinality(before(x)) = k - 1
<1>1. \A u, v \in S : <<u, v>> \in R <=> (\/ far(u) < far(v)
                                          \/ far(u) = far(v) /\ u[1] < v[1]
                                          \/ far(u) = far(v) /\ u[1] = v[1] /\ u[2] < v[2])
  OBVIOUS
<1>3. TotalOrder(R, S)
  <2> HIDE DEF R
  <2>1. \A u \in S : <<u, u>> \notin R
    BY <1>1
  <2>2. ASSUME NEW u \in S, NEW v \in S, u # v PROVE <<u, v>> \in R \/ <<v, u>> \in R
    <3>1. u[1] # v[1] \/ u[2] # v[2]
      BY <2>2
    <3>2. PICK c, d \in Int : c = far(u) /\ d = far(v)
      OBVIOUS
    <3>3. PICK e, f, g, h : e = u[1] /\ f = u[2] /\ g = v[1] /\ h = v[2]
      OBVIOUS
    <3>4. e \in Int /\ f \in Int /\ g \in Int /\ h \in Int
      BY <3>3
    <3> HIDE DEF far
    <3>5. c < d \/ (c = d /\ e < g) \/ (c = d /\ e = g /\ f < h) \/ d < c \/ (d = c /\ g < e) \/ (d = c /\ g = e /\ h < f)
      BY <3>1, <3>2, <3>3, <3>4
    <3>6. \/ far(u) < far(v)
          \/ far(u) = far(v) /\ u[1] < v[1]
          \/ far(u) = far(v) /\ u[1] = v[1] /\ u[2] < v[2]
          \/ far(v) < far(u)
          \/ far(v) = far(u) /\ v[1] < u[1]
          \/ far(v) = far(u) /\ v[1] = u[1] /\ v[2] < u[2]
      BY <3>2, <3>3, <3>5
    <3> QED BY <1>1, <3>6
  <2>3. ASSUME NEW u \in S, NEW v \in S, NEW w \in S, <<u, v>> \in R, <<v, w>> \in R
        PROVE  <<u, w>> \in R
    <3>1. far(u) \in Int /\ far(v) \in Int /\ far(w) \in Int
      OBVIOUS
    <3>2. \A c \in {u, v, w} : c[1] \in Int /\ c[2] \in Int
      OBVIOUS
    <3> HIDE DEF far
    <3> QED BY <1>1, <2>3, <3>1, <3>2
  <2> QED BY <2>1, <2>2, <2>3 DEF TotalOrder
<1>4. \A u \in S : RankIn(R, S, u) = Cardinality(before(u))
  <2> HIDE DEF R
  <2> SUFFICES ASSUME NEW u \in S PROVE {v \in S : <<v, u>> \in R} = before(u)
    BY DEF RankIn, Below
  <2>1. ASSUME NEW v PROVE v \in {w \in S : <<w, u>> \in R} <=> v \in before(u)
    BY <1>1
  <2> HIDE DEF before
  <2> QED BY <2>1
<1>5. o = [k \in 1 .. Cardinality(S) |-> at(k)]
  BY DEF Ordered
<1> HIDE DEF R, o, at, before
<1>6. ASSUME NEW k \in 1 .. Cardinality(S), \E u \in S : RankIn(R, S, u) = k - 1
      PROVE  o[k] \in S /\ RankIn(R, S, o[k]) = k - 1
  <2>1. \E u \in S : Cardinality(before(u)) = k - 1
    BY <1>4, <1>6
  <2>2. at(k) \in S /\ Cardinality(before(at(k))) = k - 1
    BY <2>1 DEF at
  <2> QED BY <1>4, <1>5, <2>2
<1>7. Ranked(o, S, R)
  BY <1>5, <1>6 DEF Ranked
<1>8. Lists(o, S)
  BY <1>3, <1>7, RankedLists
<1> QED BY <1>8 DEF o

(* The greatest element of a finite set of integers. *)
LEMMA MaxAbove ==
    ASSUME NEW S, IsFiniteSet(S), S # {}, \A x \in S : x \in Int
    PROVE  Max(S) \in S /\ \A x \in S : x <= Max(S)
<1>1. PICK f : f = [x \in S |-> x]
  OBVIOUS
<1>2. \A x \in S : f[x] \in Int
  BY <1>1
<1>3. PICK a \in S : \A x \in S : f[a] >= f[x]
  BY <1>2, GreatestExists
<1>4. \A x \in S : a >= x
  BY <1>1, <1>3
<1>5. Max(S) \in S /\ \A x \in S : Max(S) >= x
  BY <1>4 DEF Max
<1> QED BY <1>5

(* The squared distance of two points is a number. *)
LEMMA DistanceIsNumber ==
    ASSUME NEW p \in Int \X Int, NEW q \in Int \X Int
    PROVE  SquaredDistance(p, q) \in Int
<1>1. PICK a, b, c, d \in Int : a = p[1] /\ b = p[2] /\ c = q[1] /\ d = q[2]
  OBVIOUS
<1>2. (a - c) * (a - c) + (b - d) * (b - d) \in Int
  OBVIOUS
<1> QED BY <1>1, <1>2 DEF SquaredDistance

(* The closest pair has a node of each of the two components. *)
LEMMA NearestIsPair ==
    ASSUME Network(links, nodes), NEW A \in SUBSET DOMAIN nodes, NEW B \in SUBSET DOMAIN nodes,
           A # {}, B # {}
    PROVE  NearestPair(A, B) \in A \X B
<1>1. PICK N : N = DOMAIN nodes
  OBVIOUS
<1>2. IsFiniteSet(N) /\ N \in SUBSET Nat /\ \A n \in N : nodes[n] \in Int \X Int
  BY <1>1 DEF Network
<1>3. A \in SUBSET N /\ B \in SUBSET N /\ IsFiniteSet(A) /\ IsFiniteSet(B)
  BY <1>1, <1>2, FS_Subset
<1>4. PICK S : S = A \X B
  OBVIOUS
<1>5. IsFiniteSet(S) /\ S # {}
  <2>1. IsFiniteSet(A \X B)
    BY <1>3, FS_Product
  <2>2. PICK a \in A, b \in B : TRUE
    OBVIOUS
  <2>3. <<a, b>> \in S
    BY <1>4
  <2> QED BY <1>4, <2>1, <2>3
<1>6. \A c \in S : c = <<c[1], c[2]>> /\ c[1] \in Int /\ c[2] \in Int
  <2> SUFFICES ASSUME NEW c \in S PROVE c = <<c[1], c[2]>> /\ c[1] \in Int /\ c[2] \in Int
    OBVIOUS
  <2>1. c \in A \X B
    BY <1>4
  <2>2. c = <<c[1], c[2]>> /\ c[1] \in A /\ c[2] \in B
    BY <2>1
  <2>3. \A n \in N : n \in Int
    BY <1>2
  <2> QED BY <1>3, <2>2, <2>3
<1>7. \A c \in S : SquaredDistance(nodes[c[1]], nodes[c[2]]) \in Int
  <2> SUFFICES ASSUME NEW c \in S PROVE SquaredDistance(nodes[c[1]], nodes[c[2]]) \in Int
    OBVIOUS
  <2>1. c[1] \in N /\ c[2] \in N
    BY <1>3, <1>4
  <2> QED BY <1>2, <2>1, DistanceIsNumber
<1> DEFINE far(c) == SquaredDistance(nodes[c[1]], nodes[c[2]])
           o == Ordered(S, LAMBDA c, d : \/ far(c) < far(d)
                                         \/ far(c) = far(d) /\ c[1] < d[1]
                                         \/ far(c) = far(d) /\ c[1] = d[1] /\ c[2] < d[2])
<1>8. Lists(o, S)
  BY <1>5, <1>6, <1>7, PairsInOrder
<1>9. NearestPair(A, B) = o[1]
  BY <1>1, <1>4 DEF NearestPair
<1> HIDE DEF o
<1>10. o \in Seq(S) /\ Range(o) = S
  BY <1>8 DEF Lists
<1>11. Len(o) \in Nat /\ DOMAIN o = 1 .. Len(o)
  BY <1>10
<1>12. 1 \in DOMAIN o
  <2>1. PICK c \in S : TRUE
    BY <1>5
  <2>2. PICK k \in DOMAIN o : o[k] = c
    BY <1>10 DEF Range
  <2> QED BY <1>11, <2>2
<1>13. o[1] \in S
  BY <1>10, <1>12 DEF Range
<1> QED BY <1>4, <1>9, <1>13

(* The road of a stitch is new. *)
LEMMA StitchRoadIsNew ==
    ASSUME Network(links, nodes)
    PROVE  LET road == 1 + Max({links[i].road : i \in DOMAIN links} \cup {-1})
           IN  road \in Nat /\ \A l \in Range(links) : l.road < road
<1> DEFINE road == 1 + Max({links[i].road : i \in DOMAIN links} \cup {-1})
<1>1. PICK ls, D : ls = links /\ D = DOMAIN links
  OBVIOUS
<1>2. IsFiniteSet(D)
  BY <1>1, IndicesFinite DEF Network, Linking
<1>3. \A i \in D : ls[i] \in Range(links) /\ ls[i].road \in Nat
  BY <1>1 DEF Range, Network, Roadwise
<1>4. PICK T : T = {ls[i].road : i \in D}
  OBVIOUS
<1>5. IsFiniteSet(T)
  <2>1. PICK f : f = [i \in D |-> ls[i].road]
    OBVIOUS
  <2>2. DOMAIN f = D
    BY <2>1
  <2>3. IsFiniteSet({f[i] : i \in D})
    BY <1>2, <2>2, ImageFinite
  <2>4. {f[i] : i \in D} = T
    BY <1>4, <2>1
  <2> QED BY <2>3, <2>4
<1>6. PICK S : S = T \cup {-1}
  OBVIOUS
<1>7. IsFiniteSet(S) /\ S # {}
  BY <1>5, <1>6, FS_AddElement
<1>8. \A x \in S : x \in Int
  BY <1>3, <1>4, <1>6
<1>9. Max(S) \in S /\ \A x \in S : x <= Max(S)
  BY <1>7, <1>8, MaxAbove
<1>10. PICK m \in Int : m = Max(S)
  BY <1>8, <1>9
<1>11. m >= -1
  BY <1>6, <1>9, <1>10
<1>12. \A l \in Range(links) : l.road \in T
  BY <1>1, <1>4 DEF Range
<1>13. ASSUME NEW l \in Range(links) PROVE l.road < 1 + m
  <2>1. l.road \in S /\ l.road \in Int
    BY <1>6, <1>8, <1>12
  <2> QED BY <1>9, <1>10, <2>1
<1>14. road = 1 + m
  BY <1>1, <1>4, <1>6, <1>10
<1> HIDE DEF road
<1>15. road \in Nat /\ \A l \in Range(links) : l.road < road
  BY <1>10, <1>11, <1>13, <1>14
<1> QED BY <1>15 DEF road

(* Without its second element a sequence has the others. *)
LEMMA RemoveSecond ==
    ASSUME NEW T, NEW s \in Seq(T), Len(s) > 1
    PROVE  /\ RemoveAt(s, 2) \in Seq(T) /\ Len(RemoveAt(s, 2)) = Len(s) - 1
           /\ RemoveAt(s, 2)[1] = s[1]
           /\ \A k \in 2 .. Len(s) - 1 : RemoveAt(s, 2)[k] = s[k + 1]
<1>1. PICK n \in Nat : n = Len(s) /\ n > 1
  OBVIOUS
<1>2. \A k \in 1 .. n : s[k] \in T
  BY <1>1
<1>3. PICK a, b : a = SubSeq(s, 1, 1) /\ b = SubSeq(s, 3, n)
  OBVIOUS
<1>4. a \in Seq(T) /\ Len(a) = 1 /\ a[1] = s[1]
  <2>1. \A k \in 1 .. 1 : s[k] \in T
    BY <1>1, <1>2
  <2>2. a \in Seq(T) /\ Len(a) = 1 /\ \A i \in 1 .. 1 - 1 + 1 : a[i] = s[1 + i - 1]
    BY <1>3, <2>1, SubSeqProperties
  <2> QED BY <2>2
<1>5. b \in Seq(T) /\ Len(b) = n - 2 /\ \A k \in 1 .. n - 2 : b[k] = s[k + 2]
  <2>1. \A k \in 3 .. n : s[k] \in T
    BY <1>2
  <2>2. /\ b \in Seq(T) /\ Len(b) = IF 3 <= n THEN n - 3 + 1 ELSE 0
        /\ \A i \in 1 .. n - 3 + 1 : b[i] = s[3 + i - 1]
    BY <1>1, <1>3, <2>1, SubSeqProperties
  <2>3. ASSUME NEW k \in 1 .. n - 2 PROVE b[k] = s[k + 2]
    <3>1. k \in 1 .. n - 3 + 1 /\ 3 + k - 1 = k + 2
      BY <1>1
    <3> QED BY <2>2, <3>1
  <2> QED BY <1>1, <2>2, <2>3
<1>6. PICK c : c = a \o b
  OBVIOUS
<1>7. /\ c \in Seq(T) /\ Len(c) = 1 + (n - 2)
      /\ \A i \in 1 .. 1 + (n - 2) : c[i] = IF i <= 1 THEN a[i] ELSE b[i - 1]
  <2>1. /\ c \in Seq(T) /\ Len(c) = Len(a) + Len(b)
        /\ \A i \in 1 .. Len(a) + Len(b) : c[i] = IF i <= Len(a) THEN a[i] ELSE b[i - Len(a)]
    BY <1>4, <1>5, <1>6, ConcatProperties
  <2>2. Len(a) = 1 /\ Len(b) = n - 2
    BY <1>4, <1>5
  <2> QED BY <2>1, <2>2
<1>8. c[1] = s[1]
  BY <1>1, <1>4, <1>7
<1>9. ASSUME NEW k \in 2 .. n - 1 PROVE c[k] = s[k + 1]
  <2>1. k \in 1 .. 1 + (n - 2) /\ ~ (k <= 1) /\ k - 1 \in 1 .. n - 2 /\ (k - 1) + 2 = k + 1
    BY <1>1
  <2> QED BY <1>5, <1>7, <2>1
<1>10. RemoveAt(s, 2) = c
  <2>1. 2 - 1 = 1 /\ 2 + 1 = 3
    OBVIOUS
  <2> QED BY <1>1, <1>3, <1>6, <2>1 DEF RemoveAt
<1> QED BY <1>1, <1>7, <1>8, <1>9, <1>10

(* A stitch joins the second component to the first. *)
LEMMA StitchKeeps ==
    ASSUME NEW ls, NEW at, Network(ls, at), NEW ap, Joins(ap, Range(ls), DOMAIN at), Len(ap) > 1,
           NEW a \in ap[2], NEW b \in ap[1], NEW road \in Nat, \A l \in Range(ls) : l.road < road,
           NEW new, new = ls \o StitchesFor(a, b, road)
    PROVE  Network(new, at) /\ Joins(RemoveAt(ap, 2), Range(new), DOMAIN at)
<1>1. PICK N, E : N = DOMAIN at /\ E = Range(ls)
  OBVIOUS
<1>2. /\ ls \in Seq(E) /\ \A l \in E : l.src \in N /\ l.dst \in N
  BY <1>1 DEF Network, Linking
<1>3. /\ ap \in Seq(SUBSET N) /\ Len(ap) \in Nat /\ Len(ap) > 1
      /\ \A k \in 1 .. Len(ap) : ap[k] # {}
      /\ \A C \in SUBSET N : Keeps(E, C) =>
            /\ \A k \in 1 .. Len(ap) : ap[k] \in SUBSET C \/ ap[k] \cap C = {}
            /\ (\A k \in 1 .. Len(ap) : ap[k] \cap C = {}) => C = {}
  <2>1. Len(ap) \in Nat
    BY DEF Joins
  <2> QED BY <1>1, <2>1 DEF Joins
<1>4. a \in N /\ b \in N
  <2>1. ap[1] \in SUBSET N /\ ap[2] \in SUBSET N
    BY <1>3
  <2> QED BY <2>1
<1>5. PICK l, m : /\ StitchesFor(a, b, road) = <<l, m>> /\ l.src = a /\ l.dst = b /\ l.road = road
                  /\ m.src = b /\ m.dst = a /\ m.road = road
  BY DEF StitchesFor
<1>6. PICK T : T = E \cup {l, m}
  OBVIOUS
<1>7. new \in Seq(T) /\ Range(new) = T
  <2>1. ls \in Seq(T)
    BY <1>2, <1>6
  <2>2. <<l, m>> \in Seq(T) /\ Range(<<l, m>>) = {l, m}
    BY <1>6, PairRange
  <2>3. ls \o <<l, m>> \in Seq(T) /\ Range(ls \o <<l, m>>) = Range(ls) \cup Range(<<l, m>>)
    BY <2>1, <2>2, ConcatRange
  <2> QED BY <1>1, <1>5, <1>6, <2>2, <2>3
<1>8. Linking(new, N)
  BY <1>2, <1>4, <1>5, <1>6, <1>7 DEF Linking
<1>9. Paired(T)
  <2>1. Paired(E)
    BY <1>1 DEF Network
  <2>2. ASSUME NEW x \in T PROVE \E y \in T : y.src = x.dst /\ y.dst = x.src /\ y.road = x.road
    <3>1. CASE x \in E
      BY <1>6, <2>1, <3>1 DEF Paired
    <3>2. CASE x = l \/ x = m
      BY <1>5, <1>6, <3>2
    <3> QED BY <1>6, <3>1, <3>2
  <2> QED BY <2>2 DEF Paired
<1>10. Roadwise(T)
  <2>1. Roadwise(E) /\ \A x \in E : x.road < road
    BY <1>1 DEF Network
  <2>2. \A x \in T : x.road \in Nat
    BY <1>5, <1>6, <2>1 DEF Roadwise
  <2>3. ASSUME NEW x \in T, NEW y \in T, x.road = y.road PROVE {x.src, x.dst} = {y.src, y.dst}
    <3>1. CASE x \in E /\ y \in E
      BY <2>1, <2>3, <3>1 DEF Roadwise
    <3>2. CASE x \notin E
      <4>1. x.road = road /\ x \in {l, m}
        BY <1>5, <1>6, <3>2
      <4>2. y \notin E
        <5> SUFFICES ASSUME y \in E PROVE FALSE
          OBVIOUS
        <5>1. y.road < road /\ y.road = road
          BY <2>1, <2>3, <4>1
        <5> QED BY <5>1
      <4> QED BY <1>5, <1>6, <4>1, <4>2
    <3>3. CASE y \notin E
      <4>1. y.road = road /\ y \in {l, m}
        BY <1>5, <1>6, <3>3
      <4>2. x \notin E
        <5> SUFFICES ASSUME x \in E PROVE FALSE
          OBVIOUS
        <5>1. x.road < road /\ x.road = road
          BY <2>1, <2>3, <4>1
        <5> QED BY <5>1
      <4> QED BY <1>5, <1>6, <4>1, <4>2
    <3> QED BY <3>1, <3>2, <3>3
  <2> QED BY <2>2, <2>3 DEF Roadwise
<1>11. Network(new, at)
  BY <1>1, <1>7, <1>8, <1>9, <1>10 DEF Network
<1>12. PICK q : q = RemoveAt(ap, 2)
  OBVIOUS
<1>13. /\ q \in Seq(SUBSET N) /\ Len(q) = Len(ap) - 1 /\ q[1] = ap[1]
       /\ \A k \in 2 .. Len(ap) - 1 : q[k] = ap[k + 1]
  BY <1>3, <1>12, RemoveSecond
<1>14. \A k \in 1 .. Len(q) : \E h \in 1 .. Len(ap) : q[k] = ap[h]
  <2> SUFFICES ASSUME NEW k \in 1 .. Len(q) PROVE \E h \in 1 .. Len(ap) : q[k] = ap[h]
    OBVIOUS
  <2>1. CASE k = 1
    BY <1>3, <1>13, <2>1
  <2>2. CASE k # 1
    <3>1. k \in 2 .. Len(ap) - 1 /\ k + 1 \in 1 .. Len(ap)
      BY <1>3, <1>13, <2>2
    <3> QED BY <1>13, <3>1
  <2> QED BY <2>1, <2>2
<1>15. \A h \in 1 .. Len(ap) : h # 2 => \E k \in 1 .. Len(q) : q[k] = ap[h]
  <2> SUFFICES ASSUME NEW h \in 1 .. Len(ap), h # 2 PROVE \E k \in 1 .. Len(q) : q[k] = ap[h]
    OBVIOUS
  <2>1. CASE h = 1
    BY <1>3, <1>13, <2>1
  <2>2. CASE h # 1
    <3>1. h - 1 \in 2 .. Len(ap) - 1 /\ (h - 1) + 1 = h /\ h - 1 \in 1 .. Len(q)
      BY <1>3, <1>13, <2>2
    <3> QED BY <1>13, <3>1
  <2> QED BY <2>1, <2>2
<1>16. ASSUME NEW C \in SUBSET N, Keeps(T, C)
       PROVE  /\ \A k \in 1 .. Len(q) : q[k] \in SUBSET C \/ q[k] \cap C = {}
              /\ (\A k \in 1 .. Len(q) : q[k] \cap C = {}) => C = {}
  <2>1. Keeps(E, C)
    BY <1>6, <1>16 DEF Keeps
  <2>2. \A k \in 1 .. Len(ap) : ap[k] \in SUBSET C \/ ap[k] \cap C = {}
    BY <1>3, <2>1
  <2>3. ASSUME \A k \in 1 .. Len(q) : q[k] \cap C = {} PROVE C = {}
    <3>1. \A h \in 1 .. Len(ap) : h # 2 => ap[h] \cap C = {}
      BY <1>15, <2>3
    <3>2. b \notin C
      <4>1. 1 \in 1 .. Len(ap) /\ 1 # 2
        BY <1>3
      <4> QED BY <3>1, <4>1
    <3>3. a \notin C
      BY <1>5, <1>6, <1>16, <3>2 DEF Keeps
    <3>4. ap[2] \cap C = {}
      <4>1. 2 \in 1 .. Len(ap)
        BY <1>3
      <4> QED BY <2>2, <3>3, <4>1
    <3> QED BY <1>3, <2>1, <3>1, <3>4
  <2> QED BY <1>14, <2>2, <2>3
<1>17. Len(q) >= 1 /\ \A k \in 1 .. Len(q) : q[k] # {}
  <2>1. Len(q) >= 1
    BY <1>3, <1>13
  <2>2. \A k \in 1 .. Len(q) : q[k] # {}
    BY <1>3, <1>14
  <2> QED BY <2>1, <2>2
<1>18. Joins(q, T, N)
  BY <1>13, <1>16, <1>17 DEF Joins
<1> QED BY <1>1, <1>7, <1>11, <1>12, <1>18

(* When one component is left every node leads to every other one. *)
LEMMA JoinedIsStrong ==
    ASSUME NEW ls, NEW at, Network(ls, at), NEW ap, Joins(ap, Range(ls), DOMAIN at), Len(ap) = 1
    PROVE  Strong(Range(ls), DOMAIN at)
<1>1. PICK N, E : N = DOMAIN at /\ E = Range(ls)
  OBVIOUS
<1>2. (\A l \in E : l.src \in N /\ l.dst \in N) /\ Paired(E)
  BY <1>1 DEF Network, Linking
<1>3. \A C \in SUBSET N : Keeps(E, C) =>
            /\ ap[1] \in SUBSET C \/ ap[1] \cap C = {}
            /\ ap[1] \cap C = {} => C = {}
  <2>1. \A k \in 1 .. Len(ap) : k = 1
    OBVIOUS
  <2>2. 1 \in 1 .. Len(ap)
    OBVIOUS
  <2> QED BY <1>1, <2>1, <2>2 DEF Joins
<1>4. ASSUME NEW C \in SUBSET N, C # {}, Keeps(E, C) PROVE C = N
  <2>1. ap[1] \in SUBSET C
    BY <1>3, <1>4
  <2>2. Keeps(E, N \ C) /\ N \ C \in SUBSET N
    BY <1>2, <1>4, KeepsBothWays
  <2>3. ap[1] \cap (N \ C) = {}
    BY <2>1
  <2>4. N \ C = {}
    BY <1>3, <2>2, <2>3
  <2> QED BY <2>4
<1> QED BY <1>1, <1>4 DEF Strong

-----------------------------------------------------------------------------
(* Points along a line.                                                    *)

(* A larger part of the same stretch, rounded down, reaches as far at      *)
(* least, in the direction of the stretch.                                 *)
LEMMA FloorOrder ==
    ASSUME NEW d \in Int, NEW a \in Nat \ {0}, NEW w \in Nat \ {0}, NEW b \in Nat \ {0},
           NEW v \in Nat \ {0}, a * v <= b * w
    PROVE  /\ (d * a) \div w \in Int /\ (d * b) \div v \in Int
           /\ d >= 0 => 0 <= (d * a) \div w /\ (d * a) \div w <= (d * b) \div v
           /\ d < 0 => (d * b) \div v <= (d * a) \div w /\ (d * a) \div w <= 0
<1>1. PICK e, f \in Int : e = d * a /\ f = d * b
  OBVIOUS
<1>2. PICK x, r \in Int : x = e \div w /\ e = w * x + r /\ 0 <= r /\ r < w
  <2>1. e \div w \in Int /\ e % w \in 0 .. w - 1 /\ e = w * (e \div w) + (e % w)
    BY Division
  <2> QED BY <2>1
<1>3. PICK y, s \in Int : y = f \div v /\ f = v * y + s /\ 0 <= s /\ s < v
  <2>1. f \div v \in Int /\ f % v \in 0 .. v - 1 /\ f = v * (f \div v) + (f % v)
    BY Division
  <2> QED BY <2>1
<1>4. PICK av, bw \in Nat : av = a * v /\ bw = b * w /\ av <= bw
  OBVIOUS
<1>5. v * e = d * av /\ w * f = d * bw
  BY <1>1, <1>4
<1>6. PICK vw \in Nat \ {0} : vw = v * w
  <2>1. v * w \in Int /\ v * w > 0
    OBVIOUS
  <2> QED BY <2>1
<1>7. v * e = vw * x + v * r /\ w * f = vw * y + w * s
  <2>1. v * (w * x) = vw * x /\ w * (v * y) = vw * y
    BY <1>6
  <2>2. v * (w * x + r) = v * (w * x) + v * r /\ w * (v * y + s) = w * (v * y) + w * s
    OBVIOUS
  <2> QED BY <1>2, <1>3, <2>1, <2>2
<1>8. 0 <= v * r /\ v * r < vw /\ 0 <= w * s /\ w * s < vw
  <2>1. v * 0 <= v * r /\ w * 0 <= w * s
    BY <1>2, <1>3, ProductOrder
  <2>2. v * r <= v * (w - 1) /\ w * s <= w * (v - 1)
    BY <1>2, <1>3, ProductOrder
  <2>3. v * (w - 1) = vw - v /\ w * (v - 1) = vw - w
    BY <1>6
  <2> QED BY <2>1, <2>2, <2>3, <1>2, <1>3
<1>9. PICK vr, ws \in Int : vr = v * r /\ ws = w * s /\ 0 <= vr /\ vr < vw /\ 0 <= ws /\ ws < vw
  BY <1>8
<1>10. \A i, j \in Int : i + 1 <= j => vw * i + vw <= vw * j
  <2> SUFFICES ASSUME NEW i \in Int, NEW j \in Int, i + 1 <= j PROVE vw * i + vw <= vw * j
    OBVIOUS
  <2>1. vw * (i + 1) <= vw * j
    BY ProductOrder
  <2>2. vw * (i + 1) = vw * i + vw
    OBVIOUS
  <2> QED BY <2>1, <2>2
<1>11. CASE d >= 0
  <2>1. d * av <= d * bw
    BY <1>4, <1>11, ProductOrder
  <2>2. PICK g, h \in Int : g = vw * x /\ h = vw * y
    OBVIOUS
  <2>3. g + vr <= h + ws
    BY <1>5, <1>7, <1>9, <2>1, <2>2
  <2>4. x <= y
    <3> SUFFICES ASSUME y + 1 <= x PROVE FALSE
      OBVIOUS
    <3>1. h + vw <= g
      BY <1>10, <2>2
    <3> QED BY <1>9, <2>3, <3>1
  <2>5. 0 <= x
    <3> SUFFICES ASSUME x + 1 <= 0 PROVE FALSE
      OBVIOUS
    <3>1. g + vw <= 0
      BY <1>10, <2>2
    <3>2. 0 <= d * av
      <4>1. d * 0 <= d * av
        BY <1>4, <1>11, ProductOrder
      <4> QED BY <4>1
    <3> QED BY <1>5, <1>7, <1>9, <2>2, <3>1, <3>2
  <2> QED BY <1>1, <1>2, <1>3, <1>11, <2>4, <2>5
<1>12. CASE d < 0
  <2>1. d * bw <= d * av
    <3>1. (-d) * av <= (-d) * bw
      BY <1>4, <1>12, ProductOrder
    <3>2. (-d) * av = - (d * av) /\ (-d) * bw = - (d * bw)
      OBVIOUS
    <3> QED BY <3>1, <3>2
  <2>2. PICK g, h \in Int : g = vw * x /\ h = vw * y
    OBVIOUS
  <2>3. h + ws <= g + vr
    BY <1>5, <1>7, <1>9, <2>1, <2>2
  <2>4. y <= x
    <3> SUFFICES ASSUME x + 1 <= y PROVE FALSE
      OBVIOUS
    <3>1. g + vw <= h
      BY <1>10, <2>2
    <3> QED BY <1>9, <2>3, <3>1
  <2>5. x <= 0
    <3> SUFFICES ASSUME 0 + 1 <= x PROVE FALSE
      OBVIOUS
    <3>1. vw <= g
      BY <1>10, <2>2
    <3>2. d * av <= 0
      <4>1. (-d) * 0 <= (-d) * av
        BY <1>4, <1>12, ProductOrder
      <4>2. (-d) * av = - (d * av)
        OBVIOUS
      <4> QED BY <4>1, <4>2
    <3> QED BY <1>5, <1>6, <1>7, <1>9, <2>2, <3>1, <3>2
  <2> QED BY <1>1, <1>2, <1>3, <1>12, <2>4, <2>5
<1> QED BY <1>11, <1>12, <1>1, <1>2, <1>3

(* x and y lie on one side of zero, and y is as far from it at least. *)
Farther(x, y) == (0 <= x /\ x <= y) \/ (y <= x /\ x <= 0)

(* A larger part of a distance, rounded down, is not a shorter one. *)
LEMMA FloorsFarther ==
    ASSUME NEW d \in Int, NEW a \in Nat \ {0}, NEW w \in Nat \ {0}, NEW b \in Nat \ {0},
           NEW v \in Nat \ {0}, a * v <= b * w, NEW x, x = (d * a) \div w, NEW y, y = (d * b) \div v
    PROVE  Farther(x, y)
<1>1. /\ (d * a) \div w \in Int /\ (d * b) \div v \in Int
      /\ d >= 0 => 0 <= (d * a) \div w /\ (d * a) \div w <= (d * b) \div v
      /\ d < 0 => (d * b) \div v <= (d * a) \div w /\ (d * a) \div w <= 0
  BY FloorOrder
<1>2. /\ x \in Int /\ y \in Int
      /\ d >= 0 => 0 <= x /\ x <= y
      /\ d < 0 => y <= x /\ x <= 0
  BY <1>1
<1>3. d >= 0 \/ d < 0
  OBVIOUS
<1> QED BY <1>2, <1>3 DEF Farther

(* Squares keep the order of numbers of one sign by their size. *)
LEMMA SquareOrder ==
    ASSUME NEW x \in Int, NEW y \in Int, (0 <= x /\ x <= y) \/ (y <= x /\ x <= 0)
    PROVE  x * x <= y * y /\ (x * x = y * y => x = y)
<1>1. \A i, j \in Nat : i <= j => i * i <= j * j /\ (i * i = j * j => i = j)
  <2> SUFFICES ASSUME NEW i \in Nat, NEW j \in Nat, i <= j
               PROVE  i * i <= j * j /\ (i * i = j * j => i = j)
    OBVIOUS
  <2>1. i * i <= i * j /\ j * i <= j * j
    BY ProductOrder
  <2>2. i * j = j * i
    OBVIOUS
  <2>3. ASSUME i < j PROVE i * i < j * j
    <3>1. j * (i + 1) <= j * j
      BY <2>3, ProductOrder
    <3>2. j * (i + 1) = j * i + j
      OBVIOUS
    <3> QED BY <2>1, <2>2, <2>3, <3>1, <3>2
  <2>4. PICK k, l \in Int : k = i * i /\ l = j * j
    OBVIOUS
  <2> QED BY <2>1, <2>2, <2>3
<1>2. CASE 0 <= x /\ x <= y
  BY <1>1, <1>2
<1>3. CASE y <= x /\ x <= 0
  <2>1. -x \in Nat /\ -y \in Nat /\ -x <= -y
    BY <1>3
  <2>2. (-x) * (-x) <= (-y) * (-y) /\ ((-x) * (-x) = (-y) * (-y) => -x = -y)
    BY <1>1, <2>1
  <2>3. (-x) * (-x) = x * x /\ (-y) * (-y) = y * y
    OBVIOUS
  <2> QED BY <2>2, <2>3
<1> QED BY <1>2, <1>3

(* A point within a line. *)
Admits(m) == m.part \in Int /\ m.whole \in Int /\ Within(m)

(* A meeting point is some positive part of the way. *)
LEMMA PortionIsPart ==
    ASSUME NEW m, Admits(m)
    PROVE  \E a, w \in Nat \ {0} : \A d \in Int : Portion(d, m) = (d * a) \div w
<1> USE DEF Admits
<1>1. CASE m.whole > 0
  <2>1. m.part \in Nat \ {0} /\ m.whole \in Nat \ {0}
    BY <1>1 DEF Within
  <2>2. \A d \in Int : Portion(d, m) = (d * m.part) \div m.whole
    BY <1>1 DEF Portion
  <2> QED BY <2>1, <2>2
<1>2. CASE ~ (m.whole > 0)
  <2>1. -m.part \in Nat \ {0} /\ -m.whole \in Nat \ {0}
    BY <1>2 DEF Within
  <2>2. \A d \in Int : Portion(d, m) = (d * (-m.part)) \div (-m.whole)
    BY <1>2 DEF Portion
  <2> QED BY <2>1, <2>2
<1> QED BY <1>1, <1>2

(* Offsets of which one is no farther than the other on either axis, in    *)
(* the same direction, are the same when they are as far.                  *)
LEMMA OffsetsApart ==
    ASSUME NEW x \in Int, NEW y \in Int, NEW u \in Int, NEW v \in Int,
           (0 <= x /\ x <= u) \/ (u <= x /\ x <= 0), (0 <= y /\ y <= v) \/ (v <= y /\ y <= 0),
           x * x + y * y = u * u + v * v
    PROVE  x = u /\ y = v
<1>1. x * x <= u * u /\ (x * x = u * u => x = u)
  BY SquareOrder
<1>2. y * y <= v * v /\ (y * y = v * v => y = v)
  BY SquareOrder
<1>3. PICK a, b, c, d \in Int : a = x * x /\ b = y * y /\ c = u * u /\ d = v * v
  OBVIOUS
<1>4. a <= c /\ b <= d /\ a + b = c + d
  BY <1>1, <1>2, <1>3
<1>5. a = c /\ b = d
  BY <1>4
<1> QED BY <1>1, <1>2, <1>3, <1>5

(* The point at an offset, and how far it is. *)
LEMMA AlongIsOffset ==
    ASSUME NEW p \in Int \X Int, NEW q \in Int \X Int, NEW m,
           \A d \in Int : Portion(d, m) \in Int
    PROVE  LET x == Portion(q[1] - p[1], m)
               y == Portion(q[2] - p[2], m)
           IN  /\ x \in Int /\ y \in Int /\ PointAlong(p, q, m) = <<p[1] + x, p[2] + y>>
               /\ PointAlong(p, q, m) \in Int \X Int
               /\ SquaredDistance(p, PointAlong(p, q, m)) = x * x + y * y
<1>1. PICK a, b, c, d \in Int : p = <<a, b>> /\ q = <<c, d>>
  OBVIOUS
<1>2. p[1] = a /\ p[2] = b /\ q[1] = c /\ q[2] = d
  BY <1>1
<1>3. c - a \in Int /\ d - b \in Int
  OBVIOUS
<1>4. PICK x, y \in Int : x = Portion(c - a, m) /\ y = Portion(d - b, m)
  BY <1>3
<1>5. PointAlong(p, q, m) = <<a + x, b + y>>
  BY <1>2, <1>4 DEF PointAlong
<1>6. SquaredDistance(p, <<a + x, b + y>>) = (a - (a + x)) * (a - (a + x)) + (b - (b + y)) * (b - (b + y))
  BY <1>2 DEF SquaredDistance
<1>7. a - (a + x) = -x /\ b - (b + y) = -y /\ (-x) * (-x) = x * x /\ (-y) * (-y) = y * y
  OBVIOUS
<1>8. SquaredDistance(p, PointAlong(p, q, m)) = x * x + y * y
  BY <1>5, <1>6, <1>7
<1>9. <<a + x, b + y>> \in Int \X Int
  OBVIOUS
<1> QED BY <1>2, <1>4, <1>5, <1>8, <1>9

(* Two points along a line that are as far from its start are the same. *)
LEMMA DistancesApart ==
    ASSUME NEW p \in Int \X Int, NEW q \in Int \X Int,
           NEW m, Admits(m), NEW n, Admits(n)
    PROVE  /\ PointAlong(p, q, m) \in Int \X Int
           /\ SquaredDistance(p, PointAlong(p, q, m)) = SquaredDistance(p, PointAlong(p, q, n))
                => PointAlong(p, q, m) = PointAlong(p, q, n)
<1>1. PICK a, w \in Nat \ {0} : \A d \in Int : Portion(d, m) = (d * a) \div w
  BY PortionIsPart
<1>2. PICK b, v \in Nat \ {0} : \A d \in Int : Portion(d, n) = (d * b) \div v
  BY PortionIsPart
<1>3. \A d \in Int : Portion(d, m) \in Int /\ Portion(d, n) \in Int
  <2> SUFFICES ASSUME NEW d \in Int PROVE Portion(d, m) \in Int /\ Portion(d, n) \in Int
    OBVIOUS
  <2>1. d * a \in Int /\ d * b \in Int
    OBVIOUS
  <2>2. (d * a) \div w \in Int /\ (d * b) \div v \in Int
    BY <2>1, Division
  <2> QED BY <1>1, <1>2, <2>2
<1>4. PICK e, f \in Int : e = q[1] - p[1] /\ f = q[2] - p[2]
  OBVIOUS
<1>5. PICK x, y, g, h \in Int : /\ x = Portion(e, m) /\ y = Portion(f, m)
                                /\ g = Portion(e, n) /\ h = Portion(f, n)
  BY <1>3
<1>6. /\ PointAlong(p, q, m) = <<p[1] + x, p[2] + y>> /\ PointAlong(p, q, m) \in Int \X Int
      /\ SquaredDistance(p, PointAlong(p, q, m)) = x * x + y * y
  BY <1>3, <1>4, <1>5, AlongIsOffset
<1>7. /\ PointAlong(p, q, n) = <<p[1] + g, p[2] + h>>
      /\ SquaredDistance(p, PointAlong(p, q, n)) = g * g + h * h
  BY <1>3, <1>4, <1>5, AlongIsOffset
<1>8. ASSUME x * x + y * y = g * g + h * h PROVE x = g /\ y = h
  <2>1. x = (e * a) \div w /\ y = (f * a) \div w /\ g = (e * b) \div v /\ h = (f * b) \div v
    BY <1>1, <1>2, <1>5
  <2>2. CASE a * v <= b * w
    <3>1. Farther(x, g)
      BY <2>1, <2>2, FloorsFarther
    <3>2. Farther(y, h)
      BY <2>1, <2>2, FloorsFarther
    <3> QED BY <1>8, <3>1, <3>2, OffsetsApart DEF Farther
  <2>3. CASE b * w <= a * v
    <3>1. Farther(g, x)
      BY <2>1, <2>3, FloorsFarther
    <3>2. Farther(h, y)
      BY <2>1, <2>3, FloorsFarther
    <3>3. g * g + h * h = x * x + y * y
      BY <1>8
    <3>4. g = x /\ h = y
      BY <3>1, <3>2, <3>3, OffsetsApart DEF Farther
    <3> QED BY <3>4
  <2>4. a * v \in Int /\ b * w \in Int
    OBVIOUS
  <2> QED BY <2>2, <2>3, <2>4
<1> QED BY <1>6, <1>7, <1>8

-----------------------------------------------------------------------------
(* Where roads cross, and the nodes along a road.                          *)

(* The points of S as they come along road r. *)
AlongRoad(r, S) ==
    Ordered(S, LAMBDA p, q : SquaredDistance(nodes[EndsOf(r)[1]], p) < SquaredDistance(nodes[EndsOf(r)[1]], q))

(* Points that are not as far from the start of a road are sorted along it. *)
LEMMA CutsInOrder ==
    ASSUME NEW S, IsFiniteSet(S), NEW r, \A p \in S : SquaredDistance(nodes[EndsOf(r)[1]], p) \in Int,
           \A p, q \in S : SquaredDistance(nodes[EndsOf(r)[1]], p) = SquaredDistance(nodes[EndsOf(r)[1]], q) => p = q
    PROVE  Lists(AlongRoad(r, S), S)
<1> DEFINE R == {p \in S \X S : SquaredDistance(nodes[EndsOf(r)[1]], p[1]) < SquaredDistance(nodes[EndsOf(r)[1]], p[2])}
           o == Ordered(S, LAMBDA p, q : SquaredDistance(nodes[EndsOf(r)[1]], p) < SquaredDistance(nodes[EndsOf(r)[1]], q))
           before(x) == {y \in S : SquaredDistance(nodes[EndsOf(r)[1]], y) < SquaredDistance(nodes[EndsOf(r)[1]], x)}
           at(k) == CHOOSE x \in S : Cardinality(before(x)) = k - 1
<1>1. \A u, v \in S : <<u, v>> \in R <=> (SquaredDistance(nodes[EndsOf(r)[1]], u) < SquaredDistance(nodes[EndsOf(r)[1]], v))
  OBVIOUS
<1>3. TotalOrder(R, S)
  <2> HIDE DEF R
  <2>1. ASSUME NEW u \in S, NEW v \in S, u # v PROVE <<u, v>> \in R \/ <<v, u>> \in R
    <3>1. PICK a, b \in Int : a = SquaredDistance(nodes[EndsOf(r)[1]], u) /\ b = SquaredDistance(nodes[EndsOf(r)[1]], v)
      OBVIOUS
    <3>2. a # b
      BY <2>1, <3>1
    <3>3. a < b \/ b < a
      BY <3>2
    <3> QED BY <1>1, <3>1, <3>3
  <2>2. ASSUME NEW u \in S, NEW v \in S, NEW w \in S, <<u, v>> \in R, <<v, w>> \in R
        PROVE  <<u, w>> \in R
    BY <1>1, <2>2
  <2>3. \A u \in S : <<u, u>> \notin R
    BY <1>1
  <2> QED BY <2>1, <2>2, <2>3 DEF TotalOrder
<1>4. \A u \in S : RankIn(R, S, u) = Cardinality(before(u))
  <2> HIDE DEF R
  <2> SUFFICES ASSUME NEW u \in S PROVE {v \in S : <<v, u>> \in R} = before(u)
    BY DEF RankIn, Below
  <2>1. ASSUME NEW v PROVE v \in {w \in S : <<w, u>> \in R} <=> v \in before(u)
    BY <1>1
  <2> HIDE DEF before
  <2> QED BY <2>1
<1>5. o = [k \in 1 .. Cardinality(S) |-> at(k)]
  BY DEF Ordered
<1> HIDE DEF R, o, at, before
<1>6. ASSUME NEW k \in 1 .. Cardinality(S), \E u \in S : RankIn(R, S, u) = k - 1
      PROVE  o[k] \in S /\ RankIn(R, S, o[k]) = k - 1
  <2>1. \E u \in S : Cardinality(before(u)) = k - 1
    BY <1>4, <1>6
  <2>2. at(k) \in S /\ Cardinality(before(at(k))) = k - 1
    BY <2>1 DEF at
  <2> QED BY <1>4, <1>5, <2>2
<1>7. Ranked(o, S, R)
  BY <1>5, <1>6 DEF Ranked
<1>8. Lists(o, S)
  BY <1>3, <1>7, RankedLists
<1> QED BY <1>8 DEF o, AlongRoad

(* Points are sorted by their coordinates. *)
LEMMA PointsInOrder ==
    ASSUME NEW S, IsFiniteSet(S), \A p \in S : p \in Int \X Int
    PROVE  Lists(Ordered(S, LAMBDA p, q : p[1] < q[1] \/ (p[1] = q[1] /\ p[2] < q[2])), S)
<1> DEFINE R == {p \in S \X S : p[1][1] < p[2][1] \/ (p[1][1] = p[2][1] /\ p[1][2] < p[2][2])}
           o == Ordered(S, LAMBDA p, q : p[1] < q[1] \/ (p[1] = q[1] /\ p[2] < q[2]))
           before(x) == {y \in S : y[1] < x[1] \/ (y[1] = x[1] /\ y[2] < x[2])}
           at(k) == CHOOSE x \in S : Cardinality(before(x)) = k - 1
<1>1. \A u, v \in S : <<u, v>> \in R <=> (u[1] < v[1] \/ (u[1] = v[1] /\ u[2] < v[2]))
  OBVIOUS
<1>3. TotalOrder(R, S)
  <2> HIDE DEF R
  <2>1. ASSUME NEW u \in S, NEW v \in S, u # v PROVE <<u, v>> \in R \/ <<v, u>> \in R
    <3>1. PICK a, b, c, d \in Int : u = <<a, b>> /\ v = <<c, d>>
      OBVIOUS
    <3>2. u[1] = a /\ u[2] = b /\ v[1] = c /\ v[2] = d
      BY <3>1
    <3>3. a # c \/ b # d
      BY <2>1, <3>1
    <3>4. a < c \/ (a = c /\ b < d) \/ c < a \/ (c = a /\ d < b)
      BY <3>3
    <3> QED BY <1>1, <3>2, <3>4
  <2>2. ASSUME NEW u \in S, NEW v \in S, NEW w \in S, <<u, v>> \in R, <<v, w>> \in R
        PROVE  <<u, w>> \in R
    BY <1>1, <2>2
  <2>3. \A u \in S : <<u, u>> \notin R
    BY <1>1
  <2> QED BY <2>1, <2>2, <2>3 DEF TotalOrder
<1>4. \A u \in S : RankIn(R, S, u) = Cardinality(before(u))
  <2> HIDE DEF R
  <2> SUFFICES ASSUME NEW u \in S PROVE {v \in S : <<v, u>> \in R} = before(u)
    BY DEF RankIn, Below
  <2>1. ASSUME NEW v PROVE v \in {w \in S : <<w, u>> \in R} <=> v \in before(u)
    BY <1>1
  <2> HIDE DEF before
  <2> QED BY <2>1
<1>5. o = [k \in 1 .. Cardinality(S) |-> at(k)]
  BY DEF Ordered
<1> HIDE DEF R, o, at, before
<1>6. ASSUME NEW k \in 1 .. Cardinality(S), \E u \in S : RankIn(R, S, u) = k - 1
      PROVE  o[k] \in S /\ RankIn(R, S, o[k]) = k - 1
  <2>1. \E u \in S : Cardinality(before(u)) = k - 1
    BY <1>4, <1>6
  <2>2. at(k) \in S /\ Cardinality(before(at(k))) = k - 1
    BY <2>1 DEF at
  <2> QED BY <1>4, <1>5, <2>2
<1>7. Ranked(o, S, R)
  BY <1>5, <1>6 DEF Ranked
<1>8. Lists(o, S)
  BY <1>3, <1>7, RankedLists
<1> QED BY <1>8 DEF o

(* The two ends of a road, whichever is the smaller. *)
LEMMA MinMaxOfTwo ==
    ASSUME NEW a \in Int, NEW b \in Int
    PROVE  {Min({a, b}), Max({a, b})} = {a, b}
<1>1. \A S : (\E x \in S : \A y \in S : x <= y) => Min(S) \in S /\ \A y \in S : Min(S) <= y
  BY DEF Min
<1>2. \A S : (\E x \in S : \A y \in S : x >= y) => Max(S) \in S /\ \A y \in S : Max(S) >= y
  BY DEF Max
<1>3. PICK S : S = {a, b}
  OBVIOUS
<1>4. (\E x \in S : \A y \in S : x <= y) /\ (\E x \in S : \A y \in S : x >= y)
  <2>1. a <= b \/ b <= a
    OBVIOUS
  <2> QED BY <1>3, <2>1
<1>5. Min(S) \in S /\ (\A y \in S : Min(S) <= y) /\ Max(S) \in S /\ (\A y \in S : Max(S) >= y)
  BY <1>1, <1>2, <1>4
<1>6. PICK m, n \in Int : m = Min(S) /\ n = Max(S)
  BY <1>3, <1>5
<1>7. (m = a \/ m = b) /\ m <= a /\ m <= b /\ (n = a \/ n = b) /\ n >= a /\ n >= b
  BY <1>3, <1>5, <1>6
<1>8. {m, n} = {a, b}
  <2>1. (m = a /\ n = b) \/ (m = b /\ n = a)
    BY <1>7
  <2> QED BY <2>1
<1> QED BY <1>3, <1>6, <1>8

(* The ends of a road are those of each of its links. *)
LEMMA RoadEnds ==
    ASSUME Network(links, nodes), NEW l \in Range(links)
    PROVE  /\ EndsOf(l.road)[1] \in DOMAIN nodes /\ EndsOf(l.road)[2] \in DOMAIN nodes
           /\ {EndsOf(l.road)[1], EndsOf(l.road)[2]} = {l.src, l.dst}
<1>1. PICK E, N : E = Range(links) /\ N = DOMAIN nodes
  OBVIOUS
<1>2. (\A m \in E : m.src \in N /\ m.dst \in N) /\ N \in SUBSET Nat /\ Roadwise(E)
  BY <1>1 DEF Network, Linking
<1>3. PICK m : m = CHOOSE o \in E : o.road = l.road
  OBVIOUS
<1>4. m \in E /\ m.road = l.road
  BY <1>1, <1>3
<1>5. EndsOf(l.road) = <<Min({m.src, m.dst}), Max({m.src, m.dst})>>
  BY <1>1, <1>3 DEF EndsOf
<1>6. EndsOf(l.road)[1] = Min({m.src, m.dst}) /\ EndsOf(l.road)[2] = Max({m.src, m.dst})
  BY <1>5
<1>7. m.src \in Int /\ m.dst \in Int
  <2>1. m.src \in N /\ m.dst \in N
    BY <1>2, <1>4
  <2>2. \A n \in N : n \in Int
    BY <1>2
  <2> QED BY <2>1, <2>2
<1>8. {Min({m.src, m.dst}), Max({m.src, m.dst})} = {m.src, m.dst}
  BY <1>7, MinMaxOfTwo
<1>9. {m.src, m.dst} = {l.src, l.dst}
  BY <1>1, <1>2, <1>4 DEF Roadwise
<1>10. l.src \in N /\ l.dst \in N
  BY <1>1, <1>2
<1>11. {EndsOf(l.road)[1], EndsOf(l.road)[2]} = {l.src, l.dst}
  BY <1>6, <1>8, <1>9
<1> QED BY <1>1, <1>10, <1>11

(* How far along one straight line another meets it. *)
LEMMA MeetingIsNumbers ==
    ASSUME NEW p \in Int \X Int, NEW q \in Int \X Int, NEW r \in Int \X Int, NEW s \in Int \X Int
    PROVE  /\ Meeting(p, q, r, s).part \in Int /\ Meeting(p, q, r, s).whole \in Int
           /\ p = q => ~ Within(Meeting(p, q, r, s))
<1>1. PICK p1, p2, q1, q2 \in Int : p = <<p1, p2>> /\ q = <<q1, q2>>
  OBVIOUS
<1>2. PICK r1, r2, s1, s2 \in Int : r = <<r1, r2>> /\ s = <<s1, s2>>
  OBVIOUS
<1>3. /\ From(p, r) = <<r1 - p1, r2 - p2>> /\ From(r, s) = <<s1 - r1, s2 - r2>>
      /\ From(p, q) = <<q1 - p1, q2 - p2>>
  BY <1>1, <1>2 DEF From
<1>4. PICK a, b, c, d, e, f \in Int : /\ a = r1 - p1 /\ b = r2 - p2 /\ c = s1 - r1 /\ d = s2 - r2
                                      /\ e = q1 - p1 /\ f = q2 - p2
  OBVIOUS
<1>5. Cross(<<a, b>>, <<c, d>>) = a * d - b * c /\ Cross(<<e, f>>, <<c, d>>) = e * d - f * c
  BY DEF Cross
<1>6. Meeting(p, q, r, s) = [part |-> a * d - b * c, whole |-> e * d - f * c]
  BY <1>3, <1>4, <1>5 DEF Meeting
<1>7. Meeting(p, q, r, s).part = a * d - b * c /\ Meeting(p, q, r, s).whole = e * d - f * c
  BY <1>6
<1>8. ASSUME p = q PROVE Meeting(p, q, r, s).whole = 0
  <2>1. p1 = q1 /\ p2 = q2
    BY <1>1, <1>8
  <2>2. e = 0 /\ f = 0
    BY <1>4, <2>1
  <2>3. 0 * d - 0 * c = 0
    OBVIOUS
  <2> QED BY <1>7, <2>2, <2>3
<1>9. a * d - b * c \in Int /\ e * d - f * c \in Int
  OBVIOUS
<1>10. ASSUME p = q PROVE ~ Within(Meeting(p, q, r, s))
  <2>1. PICK m : m = Meeting(p, q, r, s)
    OBVIOUS
  <2>2. m.whole = 0 /\ m.part \in Int
    BY <1>7, <1>8, <1>9, <1>10, <2>1
  <2>3. ~ Within(m)
    BY <2>2 DEF Within
  <2> QED BY <2>1, <2>3
<1> QED BY <1>7, <1>9, <1>10

(* What the crossings of some lines are. *)
LEMMA CrossingsAre ==
    ASSUME NEW lines, IsFiniteSet(DOMAIN lines)
    PROVE  /\ IsFiniteSet(CrossingsOf(lines))
           /\ \A c \in CrossingsOf(lines) : \E r, s \in DOMAIN lines :
                /\ c.of = r /\ CrossProperly(lines[r], lines[s])
                /\ c.point = PointAlong(lines[r].start, lines[r].end,
                                Meeting(lines[r].start, lines[r].end, lines[s].start, lines[s].end))
<1> DEFINE D == DOMAIN lines
           point(l, m) == PointAlong(l.start, l.end, Meeting(l.start, l.end, m.start, m.end))
           crossing(r, s) == [of |-> r, point |-> point(lines[r], lines[s])]
           crossed(r) == {s \in D : s # r /\ CrossProperly(lines[r], lines[s])}
<1>1. CrossingsOf(lines) = UNION {{crossing(r, s) : s \in crossed(r)} : r \in D}
  BY DEF CrossingsOf
<1>2. \A r, s : crossing(r, s).of = r /\ crossing(r, s).point = point(lines[r], lines[s])
  OBVIOUS
<1> HIDE DEF crossing, point
<1>3. \A c \in CrossingsOf(lines) : \E r, s \in D :
            c = crossing(r, s) /\ CrossProperly(lines[r], lines[s])
  BY <1>1
<1>4. PICK P, h : P = D \X D /\ h = [x \in P |-> crossing(x[1], x[2])]
  OBVIOUS
<1>5. IsFiniteSet(P)
  BY <1>4, FS_Product
<1>6. IsFiniteSet({h[x] : x \in P})
  <2>1. DOMAIN h = P
    BY <1>4
  <2> QED BY <1>5, <2>1, ImageFinite
<1>7. \A r, s \in D : h[<<r, s>>] = crossing(r, s) /\ <<r, s>> \in P
  BY <1>4
<1>8. CrossingsOf(lines) \subseteq {h[x] : x \in P}
  BY <1>3, <1>7
<1>9. IsFiniteSet(CrossingsOf(lines))
  BY <1>6, <1>8, FS_Subset
<1>10. \A c \in CrossingsOf(lines) : \E r, s \in D :
          c.of = r /\ CrossProperly(lines[r], lines[s]) /\ c.point = point(lines[r], lines[s])
  BY <1>2, <1>3
<1> QED BY <1>9, <1>10 DEF point

(* The roads are the roads of the links. *)
LEMMA RoadsAre ==
    ASSUME Network(links, nodes)
    PROVE  /\ IsFiniteSet(Roads) /\ Roads \in SUBSET Nat
           /\ \A r \in Roads : \E l \in Range(links) : l.road = r
           /\ \A l \in Range(links) : l.road \in Roads
<1>1. PICK ls, D : ls = links /\ D = DOMAIN links
  OBVIOUS
<1>2. IsFiniteSet(D)
  BY <1>1, IndicesFinite DEF Network, Linking
<1>3. PICK f : f = [i \in D |-> ls[i].road]
  OBVIOUS
<1>4. IsFiniteSet({f[i] : i \in D})
  <2>1. DOMAIN f = D
    BY <1>3
  <2> QED BY <1>2, <2>1, ImageFinite
<1>5. {f[i] : i \in D} = Roads
  BY <1>1, <1>3 DEF Roads
<1>6. \A r \in Roads : \E l \in Range(links) : l.road = r
  BY DEF Roads, Range
<1>7. \A l \in Range(links) : l.road \in Roads
  BY DEF Roads, Range
<1>8. Roads \in SUBSET Nat
  BY <1>6 DEF Network, Roadwise
<1> QED BY <1>4, <1>5, <1>6, <1>7, <1>8

(* A crossing lies within its road. *)
CutsWithin(c) ==
    /\ c.of \in Roads /\ EndsOf(c.of)[1] # EndsOf(c.of)[2]
    /\ \E m : /\ Admits(m)
              /\ c.point = PointAlong(nodes[EndsOf(c.of)[1]], nodes[EndsOf(c.of)[2]], m)

(* There are finitely many crossings, each within its road. *)
LEMMA CrossingsCut ==
    ASSUME Network(links, nodes)
    PROVE  /\ IsFiniteSet(CrossingsOf(Centerlines))
           /\ \A c \in CrossingsOf(Centerlines) : CutsWithin(c) /\ c.point \in Int \X Int
<1>1. PICK lines : lines = Centerlines
  OBVIOUS
<1>2. /\ DOMAIN lines = Roads
      /\ \A r \in Roads : lines[r].start = nodes[EndsOf(r)[1]] /\ lines[r].end = nodes[EndsOf(r)[2]]
  BY <1>1 DEF Centerlines
<1>3. IsFiniteSet(DOMAIN lines)
  BY <1>2, RoadsAre
<1>4. /\ IsFiniteSet(CrossingsOf(lines))
      /\ \A c \in CrossingsOf(lines) : \E r, s \in DOMAIN lines :
            /\ c.of = r /\ CrossProperly(lines[r], lines[s])
            /\ c.point = PointAlong(lines[r].start, lines[r].end,
                            Meeting(lines[r].start, lines[r].end, lines[s].start, lines[s].end))
  BY <1>3, CrossingsAre
<1>5. ASSUME NEW r \in Roads
      PROVE lines[r].start \in Int \X Int /\ lines[r].end \in Int \X Int
  <2>1. PICK l \in Range(links) : l.road = r
    BY RoadsAre
  <2>2. EndsOf(r)[1] \in DOMAIN nodes /\ EndsOf(r)[2] \in DOMAIN nodes
    BY <2>1, RoadEnds
  <2>3. \A n \in DOMAIN nodes : nodes[n] \in Int \X Int
    BY DEF Network
  <2> QED BY <1>2, <2>2, <2>3
<1>6. ASSUME NEW c \in CrossingsOf(lines) PROVE CutsWithin(c) /\ c.point \in Int \X Int
  <2>1. PICK r \in Roads, s \in Roads :
            /\ c.of = r /\ CrossProperly(lines[r], lines[s])
            /\ c.point = PointAlong(lines[r].start, lines[r].end,
                            Meeting(lines[r].start, lines[r].end, lines[s].start, lines[s].end))
    BY <1>2, <1>4
  <2>2. PICK p, q, t, u \in Int \X Int : /\ p = lines[r].start /\ q = lines[r].end
                                         /\ t = lines[s].start /\ u = lines[s].end
    BY <1>5
  <2>3. PICK m : m = Meeting(p, q, t, u)
    OBVIOUS
  <2>4. Within(m)
    BY <2>1, <2>2, <2>3 DEF CrossProperly, Proper
  <2>5. m.part \in Int /\ m.whole \in Int /\ p # q
    BY <2>3, <2>4, MeetingIsNumbers
  <2>6. c.point = PointAlong(p, q, m)
    BY <2>1, <2>2, <2>3
  <2>a. Admits(m)
    BY <2>4, <2>5 DEF Admits
  <2>7. c.point \in Int \X Int
    BY <2>a, <2>6, DistancesApart
  <2>8. p = nodes[EndsOf(r)[1]] /\ q = nodes[EndsOf(r)[2]]
    BY <1>2, <2>2
  <2>9. EndsOf(r)[1] # EndsOf(r)[2]
    BY <2>5, <2>8
  <2> QED BY <2>1, <2>a, <2>5, <2>6, <2>7, <2>8, <2>9 DEF CutsWithin
<1> QED BY <1>1, <1>4, <1>6

(* The stops of a road lead from one end of it to the other, by the node   *)
(* at every crossing; a road from a node to itself has none.               *)
Stopping(s, r, crossings, points) ==
    /\ s \in Seq(DOMAIN NodesWith(points)) /\ Len(s) >= 2
    /\ s[1] = EndsOf(r)[1] /\ s[Len(s)] = EndsOf(r)[2]
    /\ \A c \in crossings : c.of = r => NodeAt(c.point, points) \in Range(s)
    /\ EndsOf(r)[1] = EndsOf(r)[2] => Len(s) = 2

(* The new nodes follow the old ones, one for each point. *)
LEMMA NodesWithAre ==
    ASSUME Network(links, nodes), NEW T \in SUBSET (Int \X Int), NEW points, Lists(points, T)
    PROVE  /\ IsFiniteSet(DOMAIN NodesWith(points)) /\ DOMAIN NodesWith(points) \in SUBSET Nat
           /\ DOMAIN nodes \in SUBSET DOMAIN NodesWith(points)
           /\ \A n \in DOMAIN NodesWith(points) : NodesWith(points)[n] \in Int \X Int
           /\ \A n \in DOMAIN NodesWith(points) \ DOMAIN nodes : \E p \in T : n = NodeAt(p, points)
           /\ \A p \in T : NodeAt(p, points) \in DOMAIN NodesWith(points)
<1>1. PICK N, last : N = DOMAIN nodes /\ last = LastNode
  OBVIOUS
<1>2. IsFiniteSet(N) /\ N # {} /\ N \in SUBSET Nat /\ \A n \in N : nodes[n] \in Int \X Int
  BY <1>1 DEF Network
<1>3. last \in N /\ \A n \in N : n <= last
  <2>1. \A n \in N : n \in Int
    BY <1>2
  <2> QED BY <1>1, <1>2, <2>1, MaxAbove DEF LastNode
<1>4. last \in Nat
  BY <1>2, <1>3
<1>5. points \in Seq(T) /\ Range(points) = T /\ \A i, j \in DOMAIN points : points[i] = points[j] => i = j
  BY DEF Lists
<1>6. PICK k \in Nat : k = Len(points)
  BY <1>5
<1>7. DOMAIN points = 1 .. k
  BY <1>5, <1>6
<1>8. PICK W : W = N \cup last + 1 .. last + k
  OBVIOUS
<1>9. DOMAIN NodesWith(points) = W
  BY <1>1, <1>6, <1>8 DEF NodesWith
<1>10. IsFiniteSet(W)
  <2>1. PICK a, b \in Int : a = last + 1 /\ b = last + k
    BY <1>4
  <2>2. IsFiniteSet(a .. b)
    BY FS_Interval
  <2> QED BY <1>2, <1>8, <2>1, <2>2, FS_Union
<1>11. W \in SUBSET Nat
  <2>1. \A n \in last + 1 .. last + k : n \in Nat
    BY <1>4
  <2> QED BY <1>2, <1>8, <2>1
<1>12. \A j \in 1 .. k : points[j] \in T
  BY <1>5, <1>7 DEF Range
<1>13. \A n \in W : NodesWith(points)[n] = IF n \in N THEN nodes[n] ELSE points[n - last]
  BY <1>1, <1>6, <1>8 DEF NodesWith
<1>14. ASSUME NEW n \in W, n \notin N PROVE n - last \in 1 .. k /\ n = last + (n - last)
  BY <1>4, <1>8, <1>14
<1>15. \A n \in W : NodesWith(points)[n] \in Int \X Int
  <2> SUFFICES ASSUME NEW n \in W PROVE NodesWith(points)[n] \in Int \X Int
    OBVIOUS
  <2>1. CASE n \in N
    BY <1>2, <1>13, <2>1
  <2>2. CASE n \notin N
    BY <1>12, <1>13, <1>14, <2>2
  <2> QED BY <2>1, <2>2
<1>16. \A p \in T : \E j \in 1 .. k : NodeAt(p, points) = last + j /\ points[j] = p
  <2> SUFFICES ASSUME NEW p \in T PROVE \E j \in 1 .. k : NodeAt(p, points) = last + j /\ points[j] = p
    OBVIOUS
  <2>1. \E j \in DOMAIN points : points[j] = p
    BY <1>5 DEF Range
  <2>2. PICK j : j = CHOOSE i \in DOMAIN points : points[i] = p
    OBVIOUS
  <2>3. j \in DOMAIN points /\ points[j] = p
    BY <2>1, <2>2
  <2>4. NodeAt(p, points) = last + j
    BY <1>1, <2>2 DEF NodeAt
  <2> QED BY <1>7, <2>3, <2>4
<1>17. \A p \in T : NodeAt(p, points) \in W
  <2> SUFFICES ASSUME NEW p \in T PROVE NodeAt(p, points) \in W
    OBVIOUS
  <2>1. PICK j \in 1 .. k : NodeAt(p, points) = last + j
    BY <1>16
  <2> QED BY <1>4, <1>8, <2>1
<1>18. \A n \in W \ N : \E p \in T : n = NodeAt(p, points)
  <2> SUFFICES ASSUME NEW n \in W, n \notin N PROVE \E p \in T : n = NodeAt(p, points)
    OBVIOUS
  <2>1. PICK j \in 1 .. k : j = n - last /\ n = last + j
    BY <1>14
  <2>2. points[j] \in T
    BY <1>12
  <2>3. PICK i \in 1 .. k : NodeAt(points[j], points) = last + i /\ points[i] = points[j]
    BY <1>16, <2>2
  <2>4. i = j
    BY <1>5, <1>7, <2>3
  <2> QED BY <2>1, <2>2, <2>3, <2>4
<1> QED BY <1>1, <1>2, <1>8, <1>9, <1>10, <1>11, <1>15, <1>17, <1>18

(* The points of the crossings, in order. *)
LEMMA PointsListed ==
    ASSUME Network(links, nodes), NEW X, X = CrossingsOf(Centerlines)
    PROVE  Lists(PointsOf(X), {c.point : c \in X}) /\ {c.point : c \in X} \in SUBSET (Int \X Int)
<1>1. PICK T : T = {c.point : c \in X}
  OBVIOUS
<1>2. IsFiniteSet(X) /\ \A c \in X : c.point \in Int \X Int
  BY CrossingsCut
<1>3. IsFiniteSet(T)
  <2>1. PICK h : h = [c \in X |-> c.point]
    OBVIOUS
  <2>2. IsFiniteSet({h[c] : c \in X})
    <3>1. DOMAIN h = X
      BY <2>1
    <3> QED BY <1>2, <3>1, ImageFinite
  <2>3. {h[c] : c \in X} = T
    BY <1>1, <2>1
  <2> QED BY <2>2, <2>3
<1>4. \A p \in T : p \in Int \X Int
  BY <1>1, <1>2
<1>5. Lists(Ordered(T, LAMBDA p, q : p[1] < q[1] \/ (p[1] = q[1] /\ p[2] < q[2])), T)
  BY <1>3, <1>4, PointsInOrder
<1>6. PointsOf(X) = Ordered(T, LAMBDA p, q : p[1] < q[1] \/ (p[1] = q[1] /\ p[2] < q[2]))
  BY <1>1 DEF PointsOf
<1>7. Lists(PointsOf(X), T)
  BY <1>5, <1>6
<1> QED BY <1>1, <1>4, <1>7

(* The points where a road is cut, in order. *)
LEMMA CutsListed ==
    ASSUME Network(links, nodes), NEW r \in Roads, NEW X, X = CrossingsOf(Centerlines),
           NEW S, S = {c.point : c \in {x \in X : x.of = r}}
    PROVE  Lists(AlongRoad(r, S), S) /\ (EndsOf(r)[1] = EndsOf(r)[2] => S = {})
<1>1. IsFiniteSet(X) /\ \A c \in X : CutsWithin(c)
  BY CrossingsCut
<1>2. PICK Y : Y = {x \in X : x.of = r}
  OBVIOUS
<1>3. IsFiniteSet(Y)
  BY <1>1, <1>2, FS_Subset
<1>4. IsFiniteSet(S)
  <2>1. PICK h : h = [c \in Y |-> c.point]
    OBVIOUS
  <2>2. IsFiniteSet({h[c] : c \in Y})
    <3>1. DOMAIN h = Y
      BY <2>1
    <3> QED BY <1>3, <3>1, ImageFinite
  <2>3. {h[c] : c \in Y} = S
    BY <1>2, <2>1
  <2> QED BY <2>2, <2>3
<1>5. PICK a, b : a = nodes[EndsOf(r)[1]] /\ b = nodes[EndsOf(r)[2]]
  OBVIOUS
<1>6. a \in Int \X Int /\ b \in Int \X Int
  <2>1. PICK l \in Range(links) : l.road = r
    BY RoadsAre
  <2>2. EndsOf(r)[1] \in DOMAIN nodes /\ EndsOf(r)[2] \in DOMAIN nodes
    BY <2>1, RoadEnds
  <2>3. \A n \in DOMAIN nodes : nodes[n] \in Int \X Int
    BY DEF Network
  <2> QED BY <1>5, <2>2, <2>3
<1>7. ASSUME NEW p \in S
      PROVE  /\ EndsOf(r)[1] # EndsOf(r)[2]
             /\ \E m : Admits(m) /\ p = PointAlong(a, b, m)
  <2>1. PICK c \in X : c.of = r /\ p = c.point
    OBVIOUS
  <2>2. CutsWithin(c)
    BY <1>1
  <2>3. PICK m : /\ Admits(m)
                 /\ c.point = PointAlong(nodes[EndsOf(c.of)[1]], nodes[EndsOf(c.of)[2]], m)
    BY <2>2 DEF CutsWithin
  <2>4. EndsOf(r)[1] # EndsOf(r)[2]
    BY <2>1, <2>2 DEF CutsWithin
  <2> QED BY <1>5, <2>1, <2>3, <2>4
<1>8. \A p \in S : SquaredDistance(a, p) \in Int
  <2> SUFFICES ASSUME NEW p \in S PROVE SquaredDistance(a, p) \in Int
    OBVIOUS
  <2>1. PICK m : Admits(m) /\ p = PointAlong(a, b, m)
    BY <1>7
  <2>2. p \in Int \X Int
    BY <1>6, <2>1, DistancesApart
  <2> QED BY <1>6, <2>2, DistanceIsNumber
<1>9. \A p, q \in S : SquaredDistance(a, p) = SquaredDistance(a, q) => p = q
  <2> SUFFICES ASSUME NEW p \in S, NEW q \in S, SquaredDistance(a, p) = SquaredDistance(a, q)
               PROVE  p = q
    OBVIOUS
  <2>1. PICK m : Admits(m) /\ p = PointAlong(a, b, m)
    BY <1>7
  <2>2. PICK n : Admits(n) /\ q = PointAlong(a, b, n)
    BY <1>7
  <2>3. Admits(m) /\ Admits(n)
    BY <2>1, <2>2
  <2>4. SquaredDistance(a, PointAlong(a, b, m)) = SquaredDistance(a, PointAlong(a, b, n))
            => PointAlong(a, b, m) = PointAlong(a, b, n)
    BY ONLY <1>6, <2>3, DistancesApart
  <2> QED BY <2>1, <2>2, <2>4
<1>10. Lists(AlongRoad(r, S), S)
  BY <1>4, <1>5, <1>8, <1>9, CutsInOrder
<1> QED BY <1>7, <1>10

(* A road goes from its one end by its crossings to its other end. *)
LEMMA StopsAre ==
    ASSUME Network(links, nodes), NEW r \in Roads, NEW X, X = CrossingsOf(Centerlines),
           NEW points, points = PointsOf(X)
    PROVE  Stopping(Stops(r, X, points), r, X, points)
<1>1. PICK T : T = {c.point : c \in X} /\ Lists(points, T) /\ T \in SUBSET (Int \X Int)
  BY PointsListed
<1>2. PICK W : W = DOMAIN NodesWith(points)
  OBVIOUS
<1>3. DOMAIN nodes \in SUBSET W /\ \A p \in T : NodeAt(p, points) \in W
  BY <1>1, <1>2, NodesWithAre
<1>4. PICK a, b : a = EndsOf(r)[1] /\ b = EndsOf(r)[2]
  OBVIOUS
<1>5. a \in W /\ b \in W
  <2>1. PICK l \in Range(links) : l.road = r
    BY RoadsAre
  <2>2. EndsOf(r)[1] \in DOMAIN nodes /\ EndsOf(r)[2] \in DOMAIN nodes
    BY <2>1, RoadEnds
  <2> QED BY <1>3, <1>4, <2>2
<1>6. PICK S, o : S = {c.point : c \in {x \in X : x.of = r}} /\ o = AlongRoad(r, S)
  OBVIOUS
<1>7. o \in Seq(S) /\ Range(o) = S /\ (a = b => S = {})
  BY <1>4, <1>6, CutsListed DEF Lists
<1>8. PICK k \in Nat : k = Len(o) /\ DOMAIN o = 1 .. k
  BY <1>7
<1>9. \A j \in 1 .. k : o[j] \in S
  BY <1>7, <1>8 DEF Range
<1>10. S \in SUBSET T
  BY <1>1, <1>6
<1>11. PICK mid : mid = [j \in 1 .. k |-> NodeAt(o[j], points)]
  OBVIOUS
<1>12. \A j \in 1 .. k : mid[j] = NodeAt(o[j], points) /\ mid[j] \in W
  BY <1>3, <1>9, <1>10, <1>11
<1>13. mid \in Seq(W) /\ Len(mid) = k /\ DOMAIN mid = 1 .. k
  <2>1. mid = [j \in 1 .. k |-> mid[j]]
    BY <1>11
  <2> QED BY <1>12, <2>1, SeqIntro
<1>14. Stops(r, X, points) = <<a>> \o mid \o <<b>>
  BY <1>4, <1>6, <1>8, <1>11 DEF Stops, AlongRoad
<1>15. PICK u, v, w : u = <<a>> /\ v = <<b>> /\ w = u \o mid
  OBVIOUS
<1>16. u \in Seq(W) /\ Len(u) = 1 /\ u[1] = a /\ v \in Seq(W) /\ Len(v) = 1 /\ v[1] = b
  BY <1>5, <1>15
<1>17. /\ w \in Seq(W) /\ Len(w) = 1 + k
       /\ \A i \in 1 .. 1 + k : w[i] = IF i <= 1 THEN u[i] ELSE mid[i - 1]
  <2>1. /\ w \in Seq(W) /\ Len(w) = Len(u) + Len(mid)
        /\ \A i \in 1 .. Len(u) + Len(mid) : w[i] = IF i <= Len(u) THEN u[i] ELSE mid[i - Len(u)]
    BY <1>13, <1>15, <1>16, ConcatProperties
  <2>2. Len(u) = 1 /\ Len(mid) = k
    BY <1>13, <1>16
  <2> QED BY <2>1, <2>2
<1>18. PICK s : s = w \o v
  OBVIOUS
<1>19. /\ s \in Seq(W) /\ Len(s) = (1 + k) + 1
       /\ \A i \in 1 .. (1 + k) + 1 : s[i] = IF i <= 1 + k THEN w[i] ELSE v[i - (1 + k)]
  <2>1. /\ s \in Seq(W) /\ Len(s) = Len(w) + Len(v)
        /\ \A i \in 1 .. Len(w) + Len(v) : s[i] = IF i <= Len(w) THEN w[i] ELSE v[i - Len(w)]
    BY <1>16, <1>17, <1>18, ConcatProperties
  <2>2. Len(w) = 1 + k /\ Len(v) = 1
    BY <1>16, <1>17
  <2> QED BY <2>1, <2>2
<1>20. s[1] = a
  <2>1. 1 \in 1 .. (1 + k) + 1 /\ 1 <= 1 + k /\ 1 \in 1 .. 1 + k
    OBVIOUS
  <2> QED BY <1>16, <1>17, <1>19, <2>1
<1>21. s[Len(s)] = b
  <2>1. (1 + k) + 1 \in 1 .. (1 + k) + 1 /\ ~ ((1 + k) + 1 <= 1 + k) /\ ((1 + k) + 1) - (1 + k) = 1
    OBVIOUS
  <2> QED BY <1>16, <1>19, <2>1
<1>22. ASSUME NEW c \in X, c.of = r PROVE NodeAt(c.point, points) \in Range(s)
  <2>1. c.point \in S
    BY <1>6, <1>22
  <2>2. PICK j \in 1 .. k : o[j] = c.point
    BY <1>7, <1>8, <2>1 DEF Range
  <2>3. mid[j] = NodeAt(c.point, points)
    BY <1>12, <2>2
  <2>4. j + 1 \in 1 .. 1 + k /\ ~ (j + 1 <= 1) /\ (j + 1) - 1 = j /\ j + 1 \in 1 .. (1 + k) + 1 /\ j + 1 <= 1 + k
    OBVIOUS
  <2>5. s[j + 1] = mid[j]
    BY <1>17, <1>19, <2>4
  <2>6. DOMAIN s = 1 .. (1 + k) + 1
    BY <1>19
  <2> QED BY <2>3, <2>4, <2>5, <2>6 DEF Range
<1>23. ASSUME a = b PROVE Len(s) = 2
  <2>1. k = 0
    <3> SUFFICES ASSUME k # 0 PROVE FALSE
      OBVIOUS
    <3>1. o[1] \in S
      BY <1>9
    <3> QED BY <1>7, <1>23, <3>1
  <2> QED BY <1>19, <2>1
<1>24. Len(s) >= 2
  BY <1>19
<1> QED BY <1>2, <1>4, <1>14, <1>15, <1>18, <1>19, <1>20, <1>21, <1>22, <1>23, <1>24 DEF Stopping

-----------------------------------------------------------------------------
(* Planarization.                                                          *)

(* New roads are numbered from road to road. *)
RoadsBefore(f, D) == [r \in D |-> SumFunctionOnSet(f, {s \in D : s < r})]

(* The numbers of a road's pieces come after those of the roads before it. *)
LEMMA NewRoadsApart ==
    ASSUME NEW D, IsFiniteSet(D), D \in SUBSET Nat, NEW f, \A r \in D : f[r] \in Nat,
           NEW first, first = RoadsBefore(f, D)
    PROVE  /\ \A r \in D : first[r] \in Nat
           /\ \A r, s \in D : r < s => first[r] + f[r] <= first[s]
<1> DEFINE under(r) == {s \in D : s < r}
<1>1. \A r \in D : first[r] = SumOn(f, under(r))
  BY DEF RoadsBefore, SumFunctionOnSet, FoldFunctionOnSet, SumOn, MapThenSumSet
<1>2. \A r \in D : IsFiniteSet(under(r)) /\ under(r) \in SUBSET D
  BY FS_Subset
<1>3. \A r, s \in D : s \in under(r) <=> s < r
  OBVIOUS
<1> HIDE DEF under
<1>4. ASSUME NEW r \in D PROVE first[r] \in Nat
  <2>1. ASSUME NEW x \in under(r) PROVE f[x] \in Int /\ f[x] >= 0
    <3>1. x \in D
      BY <1>2
    <3>2. f[x] \in Nat
      BY <3>1
    <3> QED BY <3>2
  <2>2. SumOn(f, under(r)) \in Int /\ SumOn(f, under(r)) >= 0
    BY <1>2, <2>1, SumType
  <2> QED BY <1>1, <2>2
<1>5. ASSUME NEW r \in D, NEW s \in D, r < s PROVE first[r] + f[r] <= first[s]
  <2>1. PICK S, P : S = under(s) /\ P = under(s) \ {r}
    OBVIOUS
  <2>2. IsFiniteSet(S) /\ IsFiniteSet(P) /\ S \in SUBSET D /\ r \in S
    BY <1>2, <1>3, <1>5, <2>1, FS_Subset
  <2>3. \A x \in S : f[x] \in Int
    BY <2>2
  <2>4. SumOn(f, S) = f[r] + SumOn(f, P)
    <3>1. \A x \in S : SumOn(f, S) = f[x] + SumOn(f, S \ {x})
      BY ONLY <2>2, <2>3, SumRemove
    <3>2. P = S \ {r}
      BY <2>1
    <3> QED BY <2>2, <3>1, <3>2
  <2>5. under(r) \in SUBSET P
    <3> SUFFICES ASSUME NEW x \in under(r) PROVE x \in P
      OBVIOUS
    <3>1. x \in D /\ x < r
      BY <1>2, <1>3
    <3>2. x \in Nat /\ r \in Nat /\ s \in Nat
      BY <3>1
    <3>3. x < s /\ x # r
      BY <1>5, <3>1, <3>2
    <3> QED BY <1>3, <2>1, <3>1, <3>3
  <2>6. \A x \in P : f[x] \in Nat
    BY <2>1, <2>2
  <2>7. SumOn(f, under(r)) <= SumOn(f, P)
    BY <2>2, <2>5, <2>6, SumOfFewer
  <2>8. \A x \in P : f[x] \in Int
    BY <2>6
  <2>9. SumOn(f, P) \in Int
    BY <2>2, <2>8, SumType
  <2>10. first[r] = SumOn(f, under(r)) /\ first[s] = SumOn(f, S)
    BY <1>1, <2>1
  <2>11. first[r] \in Nat /\ f[r] \in Nat
    BY <1>4
  <2> QED BY <2>4, <2>7, <2>9, <2>10, <2>11
<1> QED BY <1>4, <1>5

(* The k-th piece of road r, in the direction of link i. *)
PieceOf(i, k, s, f) ==
    [src |-> IF links[i].src < links[i].dst THEN s[k] ELSE s[k + 1],
     dst |-> IF links[i].src < links[i].dst THEN s[k + 1] ELSE s[k],
     road |-> f + k - 1, bridge |-> links[i].bridge]

AllPieces(i, s, f) == {PieceOf(i, k, s, f) : k \in 1 .. Len(s) - 1}

(* A piece in the other direction. *)
Turned(a) == [a EXCEPT !.src = a.dst, !.dst = a.src]

(* It has the ends of the piece the other way round, and its road. *)
LEMMA TurnedAround ==
    ASSUME NEW x, NEW y, NEW z, NEW w, NEW a, a = [src |-> x, dst |-> y, road |-> z, bridge |-> w]
    PROVE  Turned(a) = [src |-> y, dst |-> x, road |-> z, bridge |-> w]
<1>1. PICK b : b = [a EXCEPT !.src = a.dst, !.dst = a.src]
  OBVIOUS
<1>2. a.src = x /\ a.dst = y /\ a.road = z /\ a.bridge = w
  OBVIOUS
<1>3. b = [a EXCEPT !.src = y, !.dst = x]
  BY <1>1, <1>2
<1>4. b = [src |-> y, dst |-> x, road |-> z, bridge |-> w]
  BY <1>3
<1> QED BY <1>1, <1>4 DEF Turned

(* The pieces of a link are all the pieces of its road, once it was cut. *)
LEMMA PiecesAre ==
    ASSUME NEW i, NEW W, NEW s \in Seq(W), Len(s) >= 2, NEW f \in Nat,
           NEW T, AllPieces(i, s, f) \in SUBSET T
    PROVE  Pieces(i, s, f) \in Seq(T) /\ Range(Pieces(i, s, f)) = AllPieces(i, s, f)
<1>0. \A k \in 1 .. Len(s) - 1 : PieceOf(i, k, s, f) \in T
  BY DEF AllPieces
<1>1. PICK n \in Nat : n = Len(s) - 1
  OBVIOUS
<1>2. PICK along : along = [k \in 1 .. n |-> [src |-> s[k], dst |-> s[k + 1], road |-> f + k - 1,
                                              bridge |-> links[i].bridge]]
  OBVIOUS
<1>3. PICK back : back = [k \in 1 .. n |-> Turned(along[k])]
  OBVIOUS
<1>4. DOMAIN along = 1 .. n /\ DOMAIN back = 1 .. n
  BY <1>2, <1>3
<1>5. Pieces(i, s, f) = IF links[i].src < links[i].dst THEN along ELSE Reverse(back)
  BY <1>1, <1>2, <1>3, <1>4 DEF Pieces, Turned
<1>6. CASE links[i].src < links[i].dst
  <2>1. \A k \in 1 .. n : along[k] = PieceOf(i, k, s, f)
    BY <1>2, <1>6 DEF PieceOf
  <2>2. along = [k \in 1 .. n |-> along[k]]
    BY <1>2
  <2>3. \A k \in 1 .. n : along[k] \in T
    BY <1>0, <1>1, <2>1
  <2>4. along \in Seq(T)
    BY <2>2, <2>3, SeqIntro
  <2>5. Range(along) = {PieceOf(i, k, s, f) : k \in 1 .. n}
    BY <1>4, <2>1 DEF Range
  <2> QED BY <1>1, <1>5, <1>6, <2>4, <2>5 DEF AllPieces
<1>7. CASE ~ (links[i].src < links[i].dst)
  <2>1. ASSUME NEW k \in 1 .. n PROVE back[k] = PieceOf(i, k, s, f)
    <3>1. along[k] = [src |-> s[k], dst |-> s[k + 1], road |-> f + k - 1, bridge |-> links[i].bridge]
      BY <1>2
    <3>2. back[k] = Turned(along[k])
      BY <1>3
    <3>3. back[k] = [src |-> s[k + 1], dst |-> s[k], road |-> f + k - 1, bridge |-> links[i].bridge]
      BY <3>1, <3>2, TurnedAround
    <3> QED BY <1>7, <3>3 DEF PieceOf
  <2>2. back = [k \in 1 .. n |-> back[k]]
    BY <1>3
  <2>3. \A k \in 1 .. n : back[k] \in T
    BY <1>0, <1>1, <2>1
  <2>4. back \in Seq(T) /\ Len(back) = n
    BY <2>2, <2>3, SeqIntro
  <2>5. PICK rev : rev = Reverse(back)
    OBVIOUS
  <2>6. rev = [k \in 1 .. n |-> back[(n - k) + 1]]
    BY <2>4, <2>5 DEF Reverse
  <2>7. \A k \in 1 .. n : (n - k) + 1 \in 1 .. n /\ (n - ((n - k) + 1)) + 1 = k
    OBVIOUS
  <2>8. \A k \in 1 .. n : rev[k] = back[(n - k) + 1]
    BY <2>6
  <2>9. \A k \in 1 .. n : rev[k] \in T
    BY <2>3, <2>7, <2>8
  <2>10. rev = [k \in 1 .. n |-> rev[k]]
    BY <2>6
  <2>11. rev \in Seq(T) /\ DOMAIN rev = 1 .. n
    BY <2>9, <2>10, SeqIntro
  <2>12. Range(rev) = {PieceOf(i, k, s, f) : k \in 1 .. n}
    <3>1. ASSUME NEW k \in 1 .. n PROVE rev[k] \in {PieceOf(i, j, s, f) : j \in 1 .. n}
      BY <2>1, <2>7, <2>8
    <3>2. ASSUME NEW k \in 1 .. n PROVE \E j \in 1 .. n : rev[j] = PieceOf(i, k, s, f)
      <4>1. (n - k) + 1 \in 1 .. n /\ (n - ((n - k) + 1)) + 1 = k
        BY <2>7
      <4>2. rev[(n - k) + 1] = back[k]
        BY <2>8, <4>1
      <4> QED BY <2>1, <4>1, <4>2
    <3> QED BY <2>11, <3>1, <3>2 DEF Range
  <2> QED BY <1>1, <1>5, <1>7, <2>5, <2>11, <2>12 DEF AllPieces
<1> QED BY <1>6, <1>7

(* Links are sorted by their roads, then by their ids. *)
LEMMA LinksInOrder ==
    ASSUME NEW S, IsFiniteSet(S), \A i \in S : i \in Int /\ links[i].road \in Int
    PROVE  Lists(Ordered(S, LAMBDA i, j : \/ links[i].road < links[j].road
                                          \/ links[i].road = links[j].road /\ i < j), S)
<1> DEFINE R == {p \in S \X S : \/ links[p[1]].road < links[p[2]].road
                                \/ links[p[1]].road = links[p[2]].road /\ p[1] < p[2]}
           o == Ordered(S, LAMBDA i, j : \/ links[i].road < links[j].road
                                         \/ links[i].road = links[j].road /\ i < j)
           before(x) == {y \in S : \/ links[y].road < links[x].road
                                   \/ links[y].road = links[x].road /\ y < x}
           at(k) == CHOOSE x \in S : Cardinality(before(x)) = k - 1
<1>1. \A u, v \in S : <<u, v>> \in R <=> (\/ links[u].road < links[v].road
                                          \/ links[u].road = links[v].road /\ u < v)
  OBVIOUS
<1>3. TotalOrder(R, S)
  <2> HIDE DEF R
  <2>1. ASSUME NEW u \in S, NEW v \in S, u # v PROVE <<u, v>> \in R \/ <<v, u>> \in R
    <3>1. PICK a, b \in Int : a = links[u].road /\ b = links[v].road
      OBVIOUS
    <3>2. u \in Int /\ v \in Int
      OBVIOUS
    <3>3. a < b \/ (a = b /\ u < v) \/ b < a \/ (b = a /\ v < u)
      BY <2>1, <3>2
    <3> QED BY <1>1, <3>1, <3>3
  <2>2. ASSUME NEW u \in S, NEW v \in S, NEW w \in S, <<u, v>> \in R, <<v, w>> \in R
        PROVE  <<u, w>> \in R
    BY <1>1, <2>2
  <2>3. \A u \in S : <<u, u>> \notin R
    BY <1>1
  <2> QED BY <2>1, <2>2, <2>3 DEF TotalOrder
<1>4. \A u \in S : RankIn(R, S, u) = Cardinality(before(u))
  <2> HIDE DEF R
  <2> SUFFICES ASSUME NEW u \in S PROVE {v \in S : <<v, u>> \in R} = before(u)
    BY DEF RankIn, Below
  <2>1. ASSUME NEW v PROVE v \in {w \in S : <<w, u>> \in R} <=> v \in before(u)
    BY <1>1
  <2> HIDE DEF before
  <2> QED BY <2>1
<1>5. o = [k \in 1 .. Cardinality(S) |-> at(k)]
  BY DEF Ordered
<1> HIDE DEF R, o, at, before
<1>6. ASSUME NEW k \in 1 .. Cardinality(S), \E u \in S : RankIn(R, S, u) = k - 1
      PROVE  o[k] \in S /\ RankIn(R, S, o[k]) = k - 1
  <2>1. \E u \in S : Cardinality(before(u)) = k - 1
    BY <1>4, <1>6
  <2>2. at(k) \in S /\ Cardinality(before(at(k))) = k - 1
    BY <2>1 DEF at
  <2> QED BY <1>4, <1>5, <2>2
<1>7. Ranked(o, S, R)
  BY <1>5, <1>6 DEF Ranked
<1>8. Lists(o, S)
  BY <1>3, <1>7, RankedLists
<1> QED BY <1>8 DEF o

(* The pieces of the links E: piece k of link l, and no other. *)
PieceFrom(l, k, s, f) ==
    [src |-> IF l.src < l.dst THEN s[k] ELSE s[k + 1],
     dst |-> IF l.src < l.dst THEN s[k + 1] ELSE s[k],
     road |-> f + k - 1, bridge |-> l.bridge]

SplitInto(F, E, stops, first) ==
    /\ \A l \in E : \A k \in 1 .. Len(stops[l.road]) - 1 :
            PieceFrom(l, k, stops[l.road], first[l.road]) \in F
    /\ \A m \in F : \E l \in E : \E k \in 1 .. Len(stops[l.road]) - 1 :
            m = PieceFrom(l, k, stops[l.road], first[l.road])

(* The pieces of each link, in the order of order. *)
PiecesOf(stops, first, order) ==
    [k \in DOMAIN order |-> Pieces(order[k], stops[links[order[k]].road], first[links[order[k]].road])]

(* What planarization makes of the links is the pieces of each. *)
LEMMA LinksAreSplit ==
    ASSUME Network(links, nodes), NEW W, NEW stops, \A r \in Roads : stops[r] \in Seq(W) /\ Len(stops[r]) >= 2,
           NEW first, \A r \in Roads : first[r] \in Nat,
           NEW order, Lists(order, DOMAIN links),
           NEW pieces, pieces = PiecesOf(stops, first, order)
    PROVE  /\ FlattenSeq(pieces) \in Seq(Range(FlattenSeq(pieces)))
           /\ SplitInto(Range(FlattenSeq(pieces)), Range(links), stops, first)
<1>1. PICK ls, D, E : ls = links /\ D = DOMAIN links /\ E = Range(links)
  OBVIOUS
<1>2. \A i \in D : ls[i] \in E /\ ls[i].road \in Roads
  BY <1>1, RoadsAre DEF Range
<1>3. \A l \in E : \E i \in D : l = ls[i]
  BY <1>1 DEF Range
<1>4. PICK sp : sp = [i \in D |-> stops[ls[i].road]]
  OBVIOUS
<1>5. PICK fp : fp = [i \in D |-> first[ls[i].road]]
  OBVIOUS
<1>6. ASSUME NEW i \in D PROVE sp[i] \in Seq(W) /\ Len(sp[i]) >= 2 /\ fp[i] \in Nat
  BY <1>2, <1>4, <1>5
<1> DEFINE part(i) == AllPieces(i, sp[i], fp[i])
           T == UNION {part(i) : i \in D}
<1>7. PICK TT : TT = T
  OBVIOUS
<1>8. ASSUME NEW i \in D PROVE Pieces(i, sp[i], fp[i]) \in Seq(TT) /\ Range(Pieces(i, sp[i], fp[i])) = part(i)
  <2>1. PICK s, f : s = sp[i] /\ f = fp[i]
    OBVIOUS
  <2>2. s \in Seq(W) /\ Len(s) >= 2 /\ f \in Nat /\ AllPieces(i, s, f) \in SUBSET TT
    BY <1>6, <1>7, <2>1
  <2>3. Pieces(i, s, f) \in Seq(TT) /\ Range(Pieces(i, s, f)) = AllPieces(i, s, f)
    BY ONLY <2>2, PiecesAre
  <2> QED BY <2>1, <2>3
<1>9. PICK n \in Nat : n = Len(order) /\ DOMAIN order = 1 .. n
  BY DEF Lists
<1>10. ASSUME NEW k \in 1 .. n PROVE order[k] \in D /\ pieces[k] = Pieces(order[k], sp[order[k]], fp[order[k]])
  <2>1. order[k] \in D
    BY <1>1, <1>9 DEF Lists
  <2>2. sp[order[k]] = stops[links[order[k]].road] /\ fp[order[k]] = first[links[order[k]].road]
    BY <1>1, <1>4, <1>5, <2>1
  <2> QED BY <1>9, <2>1, <2>2 DEF PiecesOf
<1> HIDE DEF part, T
<1>11. pieces \in Seq(Seq(TT)) /\ DOMAIN pieces = 1 .. n
  <2>1. pieces = [k \in 1 .. n |-> pieces[k]]
    BY <1>9 DEF PiecesOf
  <2>2. \A k \in 1 .. n : pieces[k] \in Seq(TT)
    BY <1>8, <1>10
  <2> QED BY <2>1, <2>2, SeqIntro
<1>12. PICK new : new = FlattenSeq(pieces)
  OBVIOUS
<1>13. new \in Seq(TT) /\ Range(new) = UNION {Range(pieces[k]) : k \in 1 .. n}
  BY <1>11, <1>12, FlattenRange
<1>14. new \in Seq(Range(new))
  <2>1. PICK h \in Nat : h = Len(new) /\ DOMAIN new = 1 .. h /\ new = [k \in 1 .. h |-> new[k]]
    BY <1>13
  <2>2. \A k \in 1 .. h : new[k] \in Range(new)
    BY <2>1 DEF Range
  <2> QED BY <2>1, <2>2, SeqIntro
<1>15. \A i \in D : \E k \in 1 .. n : order[k] = i
  BY <1>1, <1>9 DEF Lists, Range
<1>16. \A i \in D : part(i) \in SUBSET Range(new)
  <2> SUFFICES ASSUME NEW i \in D, NEW m \in part(i) PROVE m \in Range(new)
    OBVIOUS
  <2>1. PICK k \in 1 .. n : order[k] = i
    BY <1>15
  <2>2. Range(pieces[k]) = part(i)
    BY <1>8, <1>10, <2>1
  <2> QED BY <1>13, <2>2
<1>17. \A m \in Range(new) : \E i \in D : m \in part(i)
  <2> SUFFICES ASSUME NEW m \in Range(new) PROVE \E i \in D : m \in part(i)
    OBVIOUS
  <2>1. PICK k \in 1 .. n : m \in Range(pieces[k])
    BY <1>13
  <2>2. Range(pieces[k]) = part(order[k]) /\ order[k] \in D
    BY <1>8, <1>10
  <2> QED BY <2>1, <2>2
<1>18. \A i \in D : \A k : PieceOf(i, k, sp[i], fp[i]) = PieceFrom(ls[i], k, stops[ls[i].road], first[ls[i].road])
  BY <1>1, <1>4, <1>5 DEF PieceOf, PieceFrom
<1>19. ASSUME NEW l \in E, NEW k \in 1 .. Len(stops[l.road]) - 1
       PROVE  PieceFrom(l, k, stops[l.road], first[l.road]) \in Range(new)
  <2>1. PICK i \in D : l = ls[i]
    BY <1>3
  <2>2. k \in 1 .. Len(sp[i]) - 1
    BY <1>4, <1>19, <2>1
  <2>3. PieceOf(i, k, sp[i], fp[i]) \in part(i)
    BY <2>2 DEF part, AllPieces
  <2> QED BY <1>16, <1>18, <2>1, <2>3
<1>20. ASSUME NEW m \in Range(new)
       PROVE  \E l \in E : \E k \in 1 .. Len(stops[l.road]) - 1 :
                    m = PieceFrom(l, k, stops[l.road], first[l.road])
  <2>1. PICK i \in D : m \in part(i)
    BY <1>17
  <2>2. PICK k \in 1 .. Len(sp[i]) - 1 : m = PieceOf(i, k, sp[i], fp[i])
    BY <2>1 DEF part, AllPieces
  <2>3. m = PieceFrom(ls[i], k, stops[ls[i].road], first[ls[i].road])
    BY <1>18, <2>2
  <2>4. k \in 1 .. Len(stops[ls[i].road]) - 1
    BY <1>4
  <2> QED BY <1>2, <2>3, <2>4
<1> QED BY <1>1, <1>12, <1>14, <1>19, <1>20 DEF SplitInto

(* The roads of E are divided at their stops, among the nodes of W. *)
Stopped(E, W, stops) ==
    \A l \in E :
        /\ stops[l.road] \in Seq(W) /\ Len(stops[l.road]) >= 2
        /\ {stops[l.road][1], stops[l.road][Len(stops[l.road])]} = {l.src, l.dst}
        /\ l.src = l.dst => Len(stops[l.road]) = 2

(* The pieces of a road are numbered on from those of the roads before it. *)
Numbered(E, stops, first) ==
    /\ \A l \in E : first[l.road] \in Nat
    /\ \A l, m \in E : l.road < m.road => first[l.road] + (Len(stops[l.road]) - 1) <= first[m.road]

(* Pieces of one number are pieces of one road, at one place. *)
LEMMA PiecesNumbered ==
    ASSUME NEW E, Roadwise(E), NEW W, NEW stops, NEW first, Stopped(E, W, stops), Numbered(E, stops, first),
           NEW l \in E, NEW m \in E, NEW j \in 1 .. Len(stops[l.road]) - 1, NEW k \in 1 .. Len(stops[m.road]) - 1,
           first[l.road] + j - 1 = first[m.road] + k - 1
    PROVE  l.road = m.road /\ j = k
<1>1. l.road \in Nat /\ m.road \in Nat
  BY DEF Roadwise
<1>2. PICK a, b, p, q : a = Len(stops[l.road]) - 1 /\ b = Len(stops[m.road]) - 1
                        /\ p = first[l.road] /\ q = first[m.road]
  OBVIOUS
<1>3. a \in Nat /\ b \in Nat
  <2>1. Len(stops[l.road]) \in Nat /\ Len(stops[l.road]) >= 2 /\ Len(stops[m.road]) \in Nat /\ Len(stops[m.road]) >= 2
    BY DEF Stopped
  <2> QED BY <1>2, <2>1
<1>4. p \in Nat /\ q \in Nat
  BY <1>2 DEF Numbered
<1>5. j \in Nat /\ k \in Nat /\ 1 <= j /\ j <= a /\ 1 <= k /\ k <= b
  BY <1>2, <1>3
<1>6. p + j = q + k
  <2>1. p + j - 1 = q + k - 1
    BY <1>2
  <2> QED BY ONLY <1>4, <1>5, <2>1
<1>7. ~ (l.road < m.road)
  <2> SUFFICES ASSUME l.road < m.road PROVE FALSE
    OBVIOUS
  <2>1. p + a <= q
    BY <1>2 DEF Numbered
  <2> QED BY <1>3, <1>4, <1>5, <1>6, <2>1
<1>8. ~ (m.road < l.road)
  <2> SUFFICES ASSUME m.road < l.road PROVE FALSE
    OBVIOUS
  <2>1. q + b <= p
    BY <1>2 DEF Numbered
  <2> QED BY <1>3, <1>4, <1>5, <1>6, <2>1
<1>9. l.road = m.road
  BY <1>1, <1>7, <1>8
<1>10. p = q
  BY <1>2, <1>9
<1> QED BY <1>4, <1>5, <1>6, <1>9, <1>10

(* The pieces of a network run both ways between new nodes, by roads that  *)
(* have their two ends.                                                    *)
LEMMA SplitIsNetwork ==
    ASSUME NEW E, \A l \in E : l.src \in Nat /\ l.dst \in Nat, Paired(E), Roadwise(E),
           NEW W, NEW stops, NEW first, Stopped(E, W, stops), Numbered(E, stops, first),
           NEW F, SplitInto(F, E, stops, first)
    PROVE  (\A m \in F : m.src \in W /\ m.dst \in W) /\ Paired(F) /\ Roadwise(F)
<1> DEFINE of(m, l, k) == /\ k \in 1 .. Len(stops[l.road]) - 1
                          /\ m = PieceFrom(l, k, stops[l.road], first[l.road])
<1>1. \A m \in F : \E l \in E : \E k : of(m, l, k)
  BY DEF SplitInto
<1>2. ASSUME NEW m, NEW l \in E, NEW k, of(m, l, k)
      PROVE  /\ stops[l.road][k] \in W /\ stops[l.road][k + 1] \in W
             /\ k \in Nat /\ k >= 1 /\ first[l.road] \in Nat
             /\ m.src = IF l.src < l.dst THEN stops[l.road][k] ELSE stops[l.road][k + 1]
             /\ m.dst = IF l.src < l.dst THEN stops[l.road][k + 1] ELSE stops[l.road][k]
             /\ m.road = first[l.road] + k - 1
  <2>1. PICK s : s = stops[l.road]
    OBVIOUS
  <2>2. s \in Seq(W) /\ Len(s) >= 2
    BY <2>1 DEF Stopped
  <2>3. k \in 1 .. Len(s) /\ k + 1 \in 1 .. Len(s)
    BY <1>2, <2>1, <2>2
  <2>4. s[k] \in W /\ s[k + 1] \in W /\ k \in Nat /\ k >= 1
    BY <2>2, <2>3
  <2>5. first[l.road] \in Nat
    BY DEF Numbered
  <2>6. m = PieceFrom(l, k, s, first[l.road])
    BY <1>2, <2>1
  <2>7. /\ m.src = (IF l.src < l.dst THEN s[k] ELSE s[k + 1])
        /\ m.dst = (IF l.src < l.dst THEN s[k + 1] ELSE s[k])
        /\ m.road = first[l.road] + k - 1
    BY <2>6 DEF PieceFrom
  <2> QED BY <2>1, <2>4, <2>5, <2>7
<1>3. ASSUME NEW l \in E, NEW k \in 1 .. Len(stops[l.road]) - 1
      PROVE  \E m \in F : of(m, l, k)
  BY DEF SplitInto
<1> HIDE DEF of
<1>4. ASSUME NEW m \in F PROVE m.src \in W /\ m.dst \in W /\ m.road \in Nat
  <2>a1. PICK l \in E : \E k : of(m, l, k)
    BY <1>1
  <2>1. PICK k : of(m, l, k)
    BY <2>a1
  <2> QED BY <1>2, <2>1
<1>5. ASSUME NEW m \in F PROVE \E o \in F : o.src = m.dst /\ o.dst = m.src /\ o.road = m.road
  <2>a1. PICK l \in E : \E k : of(m, l, k)
    BY <1>1
  <2>1. PICK k : of(m, l, k)
    BY <2>a1
  <2>2. k \in 1 .. Len(stops[l.road]) - 1
    BY <2>1 DEF of
  <2>3. l.src \in Nat /\ l.dst \in Nat
    OBVIOUS
  <2>4. CASE l.src = l.dst
    <3>1. Len(stops[l.road]) = 2 /\ stops[l.road][1] = stops[l.road][2]
      BY <2>4 DEF Stopped
    <3>2. k = 1
      BY <2>2, <3>1
    <3>3. m.src = m.dst
      BY <1>2, <2>1, <3>1, <3>2
    <3> QED BY <3>3
  <2>5. CASE l.src # l.dst
    <3>1. PICK p \in E : p.src = l.dst /\ p.dst = l.src /\ p.road = l.road
      BY DEF Paired
    <3>2. PICK o \in F : of(o, p, k)
      BY <1>3, <2>2, <3>1
    <3>3. (p.src < p.dst) <=> ~ (l.src < l.dst)
      BY <2>3, <2>5, <3>1
    <3>4. /\ o.src = IF p.src < p.dst THEN stops[l.road][k] ELSE stops[l.road][k + 1]
          /\ o.dst = IF p.src < p.dst THEN stops[l.road][k + 1] ELSE stops[l.road][k]
          /\ o.road = first[l.road] + k - 1
      BY <1>2, <3>1, <3>2
    <3>5. /\ m.src = IF l.src < l.dst THEN stops[l.road][k] ELSE stops[l.road][k + 1]
          /\ m.dst = IF l.src < l.dst THEN stops[l.road][k + 1] ELSE stops[l.road][k]
          /\ m.road = first[l.road] + k - 1
      BY <1>2, <2>1
    <3>6. o.src = m.dst /\ o.dst = m.src /\ o.road = m.road
      BY <3>3, <3>4, <3>5
    <3> QED BY <3>6
  <2> QED BY <2>4, <2>5
<1>6. ASSUME NEW m \in F, NEW o \in F, m.road = o.road PROVE {m.src, m.dst} = {o.src, o.dst}
  <2>a1. PICK l \in E : \E j : of(m, l, j)
    BY <1>1
  <2>1. PICK j : of(m, l, j)
    BY <2>a1
  <2>a2. PICK p \in E : \E k : of(o, p, k)
    BY <1>1
  <2>2. PICK k : of(o, p, k)
    BY <2>a2
  <2>3. j \in 1 .. Len(stops[l.road]) - 1 /\ k \in 1 .. Len(stops[p.road]) - 1
    BY <2>1, <2>2 DEF of
  <2>4. first[l.road] + j - 1 = first[p.road] + k - 1
    BY <1>2, <1>6, <2>1, <2>2
  <2>5. l.road = p.road /\ j = k
    BY <2>3, <2>4, PiecesNumbered
  <2>6. {m.src, m.dst} = {stops[l.road][j], stops[l.road][j + 1]}
    BY <1>2, <2>1
  <2>7. {o.src, o.dst} = {stops[p.road][k], stops[p.road][k + 1]}
    BY <1>2, <2>2
  <2> QED BY <2>5, <2>6, <2>7
<1> QED BY <1>4, <1>5, <1>6 DEF Paired, Roadwise

(* A network that is divided at its stops stays strongly connected. *)
LEMMA SplitIsStrong ==
    ASSUME NEW E, NEW N, \A l \in E : l.src \in N /\ l.dst \in N, Strong(E, N),
           NEW W, N \in SUBSET W, NEW stops, NEW first, Stopped(E, W, stops),
           NEW F, SplitInto(F, E, stops, first), \A m \in F : m.src \in W /\ m.dst \in W, Paired(F),
           \A n \in W \ N : \E l \in E : n \in Range(stops[l.road])
    PROVE  Strong(F, W)
<1> SUFFICES ASSUME NEW C \in SUBSET W, C # {}, Keeps(F, C) PROVE C = W
  BY DEF Strong
<1>1. \A m \in F : m.src \in C <=> m.dst \in C
  BY KeepsBothWays
<1>2. ASSUME NEW l \in E, NEW k \in 1 .. Len(stops[l.road]) - 1
      PROVE  stops[l.road][k] \in C <=> stops[l.road][k + 1] \in C
  <2>1. PICK m : m = PieceFrom(l, k, stops[l.road], first[l.road])
    OBVIOUS
  <2>2. m \in F
    BY <2>1 DEF SplitInto
  <2>3. {m.src, m.dst} = {stops[l.road][k], stops[l.road][k + 1]}
    BY <2>1 DEF PieceFrom
  <2>4. m.src \in C <=> m.dst \in C
    BY <1>1, <2>2
  <2>5. \/ m.src = stops[l.road][k] /\ m.dst = stops[l.road][k + 1]
        \/ m.dst = stops[l.road][k] /\ m.src = stops[l.road][k + 1]
    BY <2>1 DEF PieceFrom
  <2> QED BY <2>4, <2>5
<1>3. ASSUME NEW l \in E, NEW k \in 1 .. Len(stops[l.road])
      PROVE  stops[l.road][k] \in C <=> stops[l.road][1] \in C
  <2>1. PICK s : s = stops[l.road]
    OBVIOUS
  <2>2. s \in Seq(W) /\ Len(s) >= 2 /\ Len(s) \in Nat
    BY <2>1 DEF Stopped
  <2> DEFINE bad == {h \in 1 .. Len(s) : ~ (s[h] \in C <=> s[1] \in C)}
  <2>3. bad = {}
    <3> SUFFICES ASSUME bad # {} PROVE FALSE
      OBVIOUS
    <3>1. bad \in SUBSET Nat
      BY <2>2
    <3>2. PICK h \in bad : \A g \in bad : h <= g
      BY <3>1, LeastExists
    <3>3. h \in 1 .. Len(s) /\ ~ (s[h] \in C <=> s[1] \in C)
      OBVIOUS
    <3>4. h # 1
      BY <3>3
    <3>5. h - 1 \in 1 .. Len(s) - 1 /\ h - 1 \in 1 .. Len(s) /\ (h - 1) + 1 = h /\ h \in Nat /\ h - 1 \in Nat /\ ~ (h <= h - 1)
      BY <2>2, <3>3, <3>4
    <3>6. h - 1 \notin bad
      BY <3>2, <3>5
    <3>7. s[h - 1] \in C <=> s[1] \in C
      BY <3>5, <3>6
    <3>8. s[h - 1] \in C <=> s[(h - 1) + 1] \in C
      BY <1>2, <2>1, <3>5
    <3> QED BY <3>3, <3>5, <3>7, <3>8
  <2> HIDE DEF bad
  <2>4. k \notin bad /\ k \in 1 .. Len(s)
    BY <1>3, <2>1, <2>3
  <2> QED BY <2>1, <2>4 DEF bad
<1>4. ASSUME NEW l \in E PROVE l.src \in C <=> l.dst \in C
  <2>1. PICK s, n : s = stops[l.road] /\ n = Len(s)
    OBVIOUS
  <2>2. n \in 1 .. n /\ {s[1], s[n]} = {l.src, l.dst}
    <3>1. s \in Seq(W) /\ n >= 2
      BY <2>1 DEF Stopped
    <3>2. n \in Nat
      BY <2>1, <3>1
    <3>3. {stops[l.road][1], stops[l.road][Len(stops[l.road])]} = {l.src, l.dst}
      BY DEF Stopped
    <3> QED BY <2>1, <3>1, <3>2, <3>3
  <2>3. s[n] \in C <=> s[1] \in C
    BY <1>3, <2>1, <2>2
  <2> QED BY <2>2, <2>3
<1>5. PICK B : B = C \cap N
  OBVIOUS
<1>6. Keeps(E, B) /\ B \in SUBSET N
  BY <1>4, <1>5 DEF Keeps
<1>7. ASSUME NEW n \in W \ N PROVE \E b \in N : n \in C <=> b \in C
  <2>1. PICK l \in E : n \in Range(stops[l.road])
    OBVIOUS
  <2>2. PICK s : s = stops[l.road]
    OBVIOUS
  <2>3. s \in Seq(W) /\ {s[1], s[Len(s)]} = {l.src, l.dst}
    BY <2>2 DEF Stopped
  <2>4. PICK k \in 1 .. Len(s) : n = s[k]
    BY <2>1, <2>2, <2>3 DEF Range
  <2>5. n \in C <=> s[1] \in C
    BY <1>3, <2>2, <2>4
  <2>6. s[1] \in N
    BY <2>3
  <2> QED BY <2>5, <2>6
<1>8. B # {}
  <2>1. PICK c \in C : TRUE
    OBVIOUS
  <2>2. CASE c \in N
    BY <1>5, <2>2
  <2>3. CASE c \notin N
    <3>1. PICK b \in N : c \in C <=> b \in C
      BY <1>7, <2>3
    <3> QED BY <1>5, <3>1
  <2> QED BY <2>2, <2>3
<1>9. B = N
  BY <1>6, <1>8 DEF Strong
<1>10. ASSUME NEW n \in W PROVE n \in C
  <2>1. CASE n \in N
    BY <1>5, <1>9, <2>1
  <2>2. CASE n \notin N
    <3>1. PICK b \in N : n \in C <=> b \in C
      BY <1>7, <2>2
    <3> QED BY <1>5, <1>9, <3>1
  <2> QED BY <2>1, <2>2
<1> QED BY <1>10

(* Planarization makes a network of a network, strongly connected if that  *)
(* was.                                                                    *)
LEMMA PlanarNetwork ==
    ASSUME Network(links, nodes), Strong(Range(links), DOMAIN nodes),
           NEW crossings, crossings = CrossingsOf(Centerlines),
           NEW points, points = PointsOf(crossings),
           NEW stops, stops = [r \in Roads |-> Stops(r, crossings, points)],
           NEW pieceCount, pieceCount = [r \in Roads |-> Len(stops[r]) - 1],
           NEW first, first = RoadsBefore(pieceCount, Roads),
           NEW order, Lists(order, DOMAIN links),
           NEW pieces, pieces = PiecesOf(stops, first, order),
           NEW new, new = FlattenSeq(pieces), NEW at, at = NodesWith(points)
    PROVE  Network(new, at) /\ Strong(Range(new), DOMAIN at)
<1>1. PICK E, N, R, W : E = Range(links) /\ N = DOMAIN nodes /\ R = Roads /\ W = DOMAIN at
  OBVIOUS
<1>2. IsFiniteSet(R) /\ R \in SUBSET Nat /\ \A l \in E : l.road \in R
  BY <1>1, RoadsAre
<1>3. PICK T : T = {c.point : c \in crossings} /\ Lists(points, T) /\ T \in SUBSET (Int \X Int)
  BY PointsListed
<1>4. /\ IsFiniteSet(W) /\ W \in SUBSET Nat /\ N \in SUBSET W
      /\ \A n \in W : at[n] \in Int \X Int
      /\ \A n \in W \ N : \E p \in T : n = NodeAt(p, points)
  <2>1. PICK w : w = NodesWith(points)
    OBVIOUS
  <2>2. at = w /\ W = DOMAIN w
    BY <1>1, <2>1
  <2>3. /\ IsFiniteSet(DOMAIN w) /\ DOMAIN w \in SUBSET Nat
        /\ DOMAIN nodes \in SUBSET DOMAIN w
        /\ \A n \in DOMAIN w : w[n] \in Int \X Int
        /\ \A n \in DOMAIN w \ DOMAIN nodes : \E p \in T : n = NodeAt(p, points)
    <3>1. Network(links, nodes) /\ T \in SUBSET (Int \X Int) /\ Lists(points, T)
      BY <1>3
    <3>2. /\ IsFiniteSet(DOMAIN NodesWith(points)) /\ DOMAIN NodesWith(points) \in SUBSET Nat
          /\ DOMAIN nodes \in SUBSET DOMAIN NodesWith(points)
          /\ \A n \in DOMAIN NodesWith(points) : NodesWith(points)[n] \in Int \X Int
          /\ \A n \in DOMAIN NodesWith(points) \ DOMAIN nodes : \E p \in T : n = NodeAt(p, points)
      BY ONLY <3>1, NodesWithAre
    <3> QED BY <2>1, <3>2
  <2> QED BY <1>1, <2>2, <2>3
<1>5. \A r \in R : Stopping(stops[r], r, crossings, points)
  BY <1>1, StopsAre
<1>6. \A r \in R : /\ stops[r] \in Seq(W) /\ Len(stops[r]) >= 2
                   /\ stops[r][1] = EndsOf(r)[1] /\ stops[r][Len(stops[r])] = EndsOf(r)[2]
                   /\ EndsOf(r)[1] = EndsOf(r)[2] => Len(stops[r]) = 2
  BY <1>1, <1>5 DEF Stopping
<1>7. \A r \in R : \A c \in crossings : c.of = r => NodeAt(c.point, points) \in Range(stops[r])
  BY <1>5 DEF Stopping
<1>8. /\ \A r \in R : first[r] \in Nat
      /\ \A r, s \in R : r < s => first[r] + (Len(stops[r]) - 1) <= first[s]
  <2>1. ASSUME NEW r \in R PROVE pieceCount[r] = Len(stops[r]) - 1 /\ pieceCount[r] \in Nat
    <3>1. stops[r] \in Seq(W) /\ Len(stops[r]) >= 2
      BY <1>6
    <3>2. Len(stops[r]) \in Nat
      BY <3>1
    <3> QED BY <1>1, <3>1, <3>2
  <2>2. first = RoadsBefore(pieceCount, R) /\ \A r \in R : pieceCount[r] \in Nat
    BY <1>1, <2>1
  <2>3. /\ \A r \in R : first[r] \in Nat
        /\ \A r, s \in R : r < s => first[r] + pieceCount[r] <= first[s]
    BY ONLY <1>2, <2>2, NewRoadsApart
  <2> QED BY <2>1, <2>3
<1>9. /\ new \in Seq(Range(new))
      /\ SplitInto(Range(new), E, stops, first)
  <2>1. \A r \in Roads : stops[r] \in Seq(W) /\ Len(stops[r]) >= 2 /\ first[r] \in Nat
    BY <1>1, <1>6, <1>8
  <2>2. /\ FlattenSeq(pieces) \in Seq(Range(FlattenSeq(pieces)))
        /\ SplitInto(Range(FlattenSeq(pieces)), Range(links), stops, first)
    BY <2>1, LinksAreSplit
  <2> QED BY <1>1, <2>2
<1>10. /\ \A l \in E : l.src \in N /\ l.dst \in N
       /\ Paired(E) /\ Roadwise(E) /\ N \in SUBSET Nat /\ N # {}
  BY <1>1 DEF Network, Linking
<1>11. ASSUME NEW l \in E
       PROVE  /\ stops[l.road] \in Seq(W) /\ Len(stops[l.road]) >= 2
              /\ {stops[l.road][1], stops[l.road][Len(stops[l.road])]} = {l.src, l.dst}
              /\ l.src = l.dst => Len(stops[l.road]) = 2
  <2>1. {EndsOf(l.road)[1], EndsOf(l.road)[2]} = {l.src, l.dst}
    BY <1>1, RoadEnds
  <2>2. l.road \in R
    BY <1>2
  <2>3. l.src = l.dst => EndsOf(l.road)[1] = EndsOf(l.road)[2]
    BY <2>1
  <2> QED BY <1>6, <2>1, <2>2, <2>3
<1>12. Stopped(E, W, stops)
  BY <1>11 DEF Stopped
<1>13. Numbered(E, stops, first)
  BY <1>2, <1>8 DEF Numbered
<1>14. \A l \in E : l.src \in Nat /\ l.dst \in Nat
  BY <1>10
<1>15. (\A m \in Range(new) : m.src \in W /\ m.dst \in W) /\ Paired(Range(new)) /\ Roadwise(Range(new))
  BY <1>9, <1>10, <1>12, <1>13, <1>14, SplitIsNetwork
<1>16. ASSUME NEW n \in W \ N PROVE \E l \in E : n \in Range(stops[l.road])
  <2>1. PICK p \in T : n = NodeAt(p, points)
    BY <1>4
  <2>2. PICK c \in crossings : p = c.point
    BY <1>3
  <2>3. c.of \in R
    BY <1>1, CrossingsCut DEF CutsWithin
  <2>4. n \in Range(stops[c.of])
    BY <1>7, <2>1, <2>2, <2>3
  <2>5. PICK l \in E : l.road = c.of
    BY <1>1, <2>3, RoadsAre
  <2> QED BY <2>4, <2>5
<1>17. Strong(Range(new), W)
  <2>1. Strong(E, N)
    BY <1>1
  <2> QED BY <1>4, <1>9, <1>10, <1>12, <1>15, <1>16, <2>1, SplitIsStrong
<1>18. W # {}
  BY <1>4, <1>10
<1> QED BY <1>1, <1>4, <1>9, <1>15, <1>17, <1>18 DEF Network, Linking

-----------------------------------------------------------------------------
(* What finalize_preview_topology keeps true of a network of two-way roads *)
(* at each of its steps.                                                   *)
EveryStreetTwoWay == \A r \in streets : Streets[r].twoWay

Routable ==
    /\ Network(links, nodes)
    /\ phase = "repair" => Joins(apart, Range(links), DOMAIN nodes)
    /\ phase # "repair" => Strong(Range(links), DOMAIN nodes)
    /\ phase \in {"compile", "validate"} /\ planar => CrossingsOf(Centerlines) = {}
    /\ phase \in {"validate", "quality", "accepted"} => turns = TurnsOf(links)
    /\ phase # "invalid"

CityInv == EveryStreetTwoWay => Routable

(* The generated network. *)
LEMMA CityStart ==
    ASSUME FinalizerInit, EveryStreetTwoWay
    PROVE  Routable
<1>1. /\ nodes = Position /\ apart = Components /\ phase = "repair" /\ streets \in SUBSET DOMAIN Streets
      /\ links = FlattenSeq([k \in 1 .. Cardinality(streets) |-> LanesOf(Ordered(streets, LAMBDA r, s : r < s)[k])])
  BY DEF FinalizerInit, Generated
<1>2. \A r \in streets : Streets[r].twoWay
  BY DEF EveryStreetTwoWay
<1>3. Linking(links, Places) /\ Paired(Range(links)) /\ Roadwise(Range(links))
  BY <1>1, <1>2, GeneratedLinks
<1>4. /\ DOMAIN nodes = Places /\ IsFiniteSet(Places) /\ Places \in SUBSET Nat
      /\ \A n \in Places : nodes[n] \in Int \X Int
  <2>1. Position \in [Places -> Nat \X Nat] /\ IsFiniteSet(Places) /\ Places \in SUBSET Nat
    BY FinalizerAssumption
  <2>2. \A n \in Places : Position[n] \in Nat \X Nat
    BY <2>1
  <2>3. \A p \in Nat \X Nat : p \in Int \X Int
    OBVIOUS
  <2> QED BY <1>1, <2>1, <2>2, <2>3
<1>5. Places # {}
  <2> SUFFICES ASSUME Places = {} PROVE FALSE
    OBVIOUS
  <2>1. Cardinality(Places) = 0
    BY FS_EmptySet
  <2> QED BY <2>1, FinalizerAssumption
<1>6. Network(links, nodes)
  BY <1>3, <1>4, <1>5 DEF Network
<1>7. Joins(apart, Range(links), DOMAIN nodes)
  BY <1>1, <1>6, ComponentsJoin
<1> QED BY <1>1, <1>6, <1>7 DEF Routable

(* One component is stitched to the main one. *)
LEMMA CityStitch ==
    ASSUME Routable, Stitch
    PROVE  Routable'
<1>1. /\ phase = "repair" /\ Len(apart) > 1 /\ phase' = phase /\ nodes' = nodes
      /\ Network(links, nodes) /\ Joins(apart, Range(links), DOMAIN nodes)
  BY DEF Stitch, Routable
<1> DEFINE pair == NearestPair(apart[2], apart[1])
           road == 1 + Max({links[i].road : i \in DOMAIN links} \cup {-1})
<1>2. links' = links \o StitchesFor(pair[1], pair[2], road) /\ apart' = RemoveAt(apart, 2)
  BY DEF Stitch
<1>3. road \in Nat /\ \A l \in Range(links) : l.road < road
  BY <1>1, StitchRoadIsNew
<1>4. PICK q : q = road
  OBVIOUS
<1>5. pair \in apart[2] \X apart[1]
  <2>1. /\ apart[1] \in SUBSET DOMAIN nodes /\ apart[2] \in SUBSET DOMAIN nodes
        /\ apart[1] # {} /\ apart[2] # {}
    <3>1. apart \in Seq(SUBSET DOMAIN nodes) /\ \A k \in 1 .. Len(apart) : apart[k] # {}
      BY <1>1 DEF Joins
    <3>2. 1 \in 1 .. Len(apart) /\ 2 \in 1 .. Len(apart)
      BY <1>1, <3>1
    <3> QED BY <3>1, <3>2
  <2> QED BY <1>1, <2>1, NearestIsPair
<1>6. PICK a, b : a = pair[1] /\ b = pair[2]
  OBVIOUS
<1> HIDE DEF pair, road
<1>7. a \in apart[2] /\ b \in apart[1]
  BY <1>5, <1>6
<1>8. q \in Nat /\ \A l \in Range(links) : l.road < q
  BY <1>3, <1>4
<1>9. links' = links \o StitchesFor(a, b, q)
  BY <1>2, <1>4, <1>6
<1>10. PICK ls, at, ap : ls = links /\ at = nodes /\ ap = apart
  OBVIOUS
<1>11. PICK new : new = ls \o StitchesFor(a, b, q)
  OBVIOUS
<1>12. /\ Network(ls, at) /\ Joins(ap, Range(ls), DOMAIN at) /\ Len(ap) > 1
       /\ a \in ap[2] /\ b \in ap[1] /\ \A l \in Range(ls) : l.road < q
  BY <1>1, <1>7, <1>8, <1>10
<1>13. Network(new, at) /\ Joins(RemoveAt(ap, 2), Range(new), DOMAIN at)
  BY ONLY <1>8, <1>11, <1>12, StitchKeeps
<1>14. links' = new /\ nodes' = at /\ apart' = RemoveAt(ap, 2)
  BY <1>1, <1>2, <1>9, <1>10, <1>11
<1> QED BY <1>1, <1>13, <1>14 DEF Routable

(* The crossings depend on the nodes and the links only. *)
LEMMA CrossingsStay ==
    ASSUME links' = links, nodes' = nodes
    PROVE  CrossingsOf(Centerlines)' = CrossingsOf(Centerlines)
<1>1. Roads' = Roads
  BY DEF Roads
<1>2. \A r : EndsOf(r)' = EndsOf(r) /\ Layer(r)' = Layer(r)
  BY DEF EndsOf, Layer
<1>3. Centerlines' = Centerlines
  BY <1>1, <1>2 DEF Centerlines
<1> QED BY <1>3

(* Nothing is left to stitch. *)
LEMMA CityEndRepair ==
    ASSUME Routable, EndRepair
    PROVE  Routable'
<1>1. /\ phase = "repair" /\ Len(apart) = 1 /\ links' = links /\ nodes' = nodes /\ planar' = planar
      /\ phase' = IF planar THEN "planarize" ELSE "compile"
      /\ Network(links, nodes) /\ Joins(apart, Range(links), DOMAIN nodes)
  BY DEF EndRepair, Routable
<1>2. Strong(Range(links), DOMAIN nodes)
  BY <1>1, JoinedIsStrong
<1>3. phase' \in {"planarize", "compile"} /\ (planar => phase' = "planarize")
  BY <1>1
<1> QED BY <1>1, <1>2, <1>3 DEF Routable

(* The crossings are made into nodes. *)
LEMMA CityPlanarize ==
    ASSUME Routable, Planarize
    PROVE  Routable'
<1>1. phase = "planarize" /\ phase' = phase /\ Network(links, nodes) /\ Strong(Range(links), DOMAIN nodes)
  BY DEF Planarize, Routable
<1> DEFINE crossings == CrossingsOf(Centerlines)
           points == PointsOf(crossings)
           stops == [r \in Roads |-> Stops(r, crossings, points)]
           pieceCount == [r \in Roads |-> Len(stops[r]) - 1]
           first == [r \in Roads |-> SumFunctionOnSet(pieceCount, {s \in Roads : s < r})]
           order == Ordered(DOMAIN links,
                            LAMBDA i, j : \/ links[i].road < links[j].road
                                          \/ links[i].road = links[j].road /\ i < j)
           pieces == [k \in DOMAIN order |->
                        Pieces(order[k], stops[links[order[k]].road], first[links[order[k]].road])]
<1>2. links' = FlattenSeq(pieces) /\ nodes' = NodesWith(points)
  BY DEF Planarize
<1>3. Lists(order, DOMAIN links)
  <2>1. IsFiniteSet(DOMAIN links)
    BY <1>1, IndicesFinite DEF Network, Linking
  <2>2. \A i \in DOMAIN links : i \in Int /\ links[i].road \in Int
    <3> SUFFICES ASSUME NEW i \in DOMAIN links PROVE i \in Int /\ links[i].road \in Int
      OBVIOUS
    <3>1. links[i] \in Range(links)
      BY DEF Range
    <3>2. links[i].road \in Nat
      BY <1>1, <3>1 DEF Network, Roadwise
    <3>3. DOMAIN links = 1 .. Len(links)
      BY <1>1, IndicesFinite DEF Network, Linking
    <3> QED BY <3>2, <3>3
  <2> QED BY <2>1, <2>2, LinksInOrder
<1>4. first = RoadsBefore(pieceCount, Roads)
  BY DEF RoadsBefore
<1>5. pieces = PiecesOf(stops, first, order)
  BY DEF PiecesOf
<1>6. PICK cr : cr = crossings
  OBVIOUS
<1>7. PICK pt : pt = points
  OBVIOUS
<1>8. PICK st : st = stops
  OBVIOUS
<1>9. PICK pc : pc = pieceCount
  OBVIOUS
<1>10. PICK fi : fi = first
  OBVIOUS
<1>11. PICK od : od = order
  OBVIOUS
<1>12. PICK pi : pi = pieces
  OBVIOUS
<1>13. pt = PointsOf(crossings)
  BY <1>7
<1>14. st = [r \in Roads |-> Stops(r, crossings, points)]
  BY <1>8
<1>15. pc = [r \in Roads |-> Len(stops[r]) - 1]
  BY <1>9
<1> HIDE DEF pieces, order, first, pieceCount, stops, points, crossings
<1>16. cr = CrossingsOf(Centerlines) /\ pt = PointsOf(cr)
  BY <1>6, <1>13 DEF crossings
<1>17. st = [r \in Roads |-> Stops(r, cr, pt)]
  BY <1>6, <1>7, <1>14
<1>18. pc = [r \in Roads |-> Len(st[r]) - 1]
  BY <1>8, <1>15
<1>19. fi = RoadsBefore(pc, Roads)
  BY <1>4, <1>9, <1>10
<1>20. Lists(od, DOMAIN links)
  BY <1>3, <1>11
<1>21. pi = PiecesOf(st, fi, od)
  BY <1>5, <1>8, <1>10, <1>11, <1>12
<1>22. PICK new, at : new = FlattenSeq(pi) /\ at = NodesWith(pt)
  OBVIOUS
<1>23. Network(new, at) /\ Strong(Range(new), DOMAIN at)
  BY <1>1, <1>16, <1>17, <1>18, <1>19, <1>20, <1>21, <1>22, PlanarNetwork
<1>24. links' = new /\ nodes' = at
  BY <1>2, <1>7, <1>12, <1>22
<1> QED BY <1>1, <1>23, <1>24 DEF Routable

(* No crossing is left. *)
LEMMA CityEndPlanarize ==
    ASSUME Routable, EndPlanarize
    PROVE  Routable'
<1>1. /\ phase = "planarize" /\ phase' = "compile" /\ links' = links /\ nodes' = nodes
      /\ Network(links, nodes) /\ Strong(Range(links), DOMAIN nodes)
      /\ CrossingsOf(Centerlines) = {}
  BY DEF EndPlanarize, Routable
<1>2. CrossingsOf(Centerlines)' = {}
  BY <1>1, CrossingsStay
<1> QED BY <1>1, <1>2 DEF Routable

(* Every turn but the immediate return is permitted. *)
LEMMA CityCompile ==
    ASSUME Routable, CompileTurns
    PROVE  Routable'
<1>1. /\ phase = "compile" /\ phase' = "validate" /\ links' = links /\ nodes' = nodes /\ planar' = planar
      /\ Network(links, nodes) /\ Strong(Range(links), DOMAIN nodes)
      /\ planar => CrossingsOf(Centerlines) = {}
      /\ turns' = TurnsOf(links)
  BY DEF CompileTurns, Routable, TurnsOf
<1>2. planar' => CrossingsOf(Centerlines)' = {}
  BY <1>1, CrossingsStay
<1> QED BY <1>1, <1>2 DEF Routable

(* What comes after validation leaves the network alone. *)
LEMMA CityPass ==
    ASSUME Routable, PassValidation \/ JudgeQuality
    PROVE  Routable'
<1>1. /\ phase \in {"validate", "quality"} /\ phase' \in {"quality", "accepted", "rejected"}
      /\ links' = links /\ nodes' = nodes /\ turns' = turns
      /\ Network(links, nodes) /\ Strong(Range(links), DOMAIN nodes) /\ turns = TurnsOf(links)
  BY DEF PassValidation, JudgeQuality, Routable
<1> QED BY <1>1 DEF Routable

(* A network that is valid is never found invalid, whatever the sample. *)
LEMMA CityNeverFails ==
    ASSUME Routable
    PROVE  ~ FailValidation
<1> SUFFICES ASSUME FailValidation PROVE FALSE
  OBVIOUS
<1>1. /\ phase = "validate" /\ Network(links, nodes) /\ Strong(Range(links), DOMAIN nodes)
      /\ planar => CrossingsOf(Centerlines) = {}
      /\ ~ (OneComponent /\ (planar => CrossingsOf(Centerlines) = {} /\ \A p \in Pairs : Linked(p)))
  BY DEF FailValidation, Routable
<1>2. Linking(links, DOMAIN nodes) /\ IsFiniteSet(DOMAIN nodes) /\ DOMAIN nodes # {} /\ DOMAIN nodes \in SUBSET Nat
  BY <1>1 DEF Network
<1>3. Min(DOMAIN nodes) \in DOMAIN nodes
  <2>1. PICK n \in DOMAIN nodes : \A x \in DOMAIN nodes : n <= x
    BY <1>2, LeastExists
  <2> QED BY <2>1 DEF Min
<1>4. OneComponent
  BY <1>1, <1>2, <1>3, StrongIsLinked DEF OneComponent
<1>5. ASSUME NEW p \in Pairs PROVE Linked(p)
  <2>1. p[1] \in DOMAIN nodes /\ p[2] \in DOMAIN nodes
    BY DEF Pairs
  <2>2. ReachedFrom(p[1], Onward) = DOMAIN nodes
    BY <1>1, <1>2, <2>1, StrongIsLinked
  <2> QED BY <2>1, <2>2 DEF Linked
<1> QED BY <1>1, <1>4, <1>5

(* A network of two-way roads stays one, and becomes strongly connected,   *)
(* through every step of finalize_preview_topology.                        *)
THEOREM CityInvariant == FinalizerSpec => []CityInv
<1>1. FinalizerInit => CityInv
  BY CityStart DEF CityInv
<1>2. CityInv /\ [FinalizerNext]_finalizerVars => CityInv'
  <2> SUFFICES ASSUME CityInv, [FinalizerNext]_finalizerVars, EveryStreetTwoWay' PROVE Routable'
    BY DEF CityInv
  <2>1. streets' = streets
    BY DEF FinalizerNext, finalizerVars, Stitch, EndRepair, Planarize, EndPlanarize, CompileTurns,
           PassValidation, FailValidation, JudgeQuality
  <2>2. EveryStreetTwoWay
    BY <2>1 DEF EveryStreetTwoWay
  <2>3. Routable
    BY <2>2 DEF CityInv
  <2>4. CASE Stitch
    BY <2>3, <2>4, CityStitch
  <2>5. CASE EndRepair
    BY <2>3, <2>5, CityEndRepair
  <2>6. CASE Planarize
    BY <2>3, <2>6, CityPlanarize
  <2>7. CASE EndPlanarize
    BY <2>3, <2>7, CityEndPlanarize
  <2>8. CASE CompileTurns
    BY <2>3, <2>8, CityCompile
  <2>9. CASE PassValidation \/ JudgeQuality
    BY <2>3, <2>9, CityPass
  <2>10. CASE FailValidation
    BY <2>3, <2>10, CityNeverFails
  <2>11. CASE UNCHANGED finalizerVars
    <3>1. /\ links' = links /\ nodes' = nodes /\ apart' = apart /\ turns' = turns
          /\ phase' = phase /\ planar' = planar
      BY <2>11 DEF finalizerVars
    <3>2. CrossingsOf(Centerlines)' = CrossingsOf(Centerlines)
      BY <3>1, CrossingsStay
    <3> QED BY <2>3, <3>1, <3>2 DEF Routable
  <2> QED BY <2>4, <2>5, <2>6, <2>7, <2>8, <2>9, <2>10, <2>11 DEF FinalizerNext
<1> QED BY <1>1, <1>2, PTL DEF FinalizerSpec

(* EveryPlaceRoutable, for every network: where every generated street is  *)
(* two-way, validation never fails, and in the accepted network a vehicle  *)
(* can go from every node to every other one by permitted turns.           *)
THEOREM EveryPlaceAlwaysRoutable == FinalizerSpec => []EveryPlaceRoutable
<1>1. CityInv => EveryPlaceRoutable
  <2> SUFFICES ASSUME CityInv, \A r \in streets : Streets[r].twoWay
               PROVE  phase # "invalid" /\ (phase = "accepted" => \A p \in Pairs : p[2] \in DrivenTo(p[1]))
    BY DEF EveryPlaceRoutable
  <2>1. Routable
    BY DEF CityInv, EveryStreetTwoWay
  <2>2. ASSUME phase = "accepted", NEW p \in Pairs PROVE p[2] \in DrivenTo(p[1])
    <3>1. Linking(links, DOMAIN nodes) /\ Strong(Range(links), DOMAIN nodes) /\ turns = TurnsOf(links)
      BY <2>1, <2>2 DEF Routable, Network
    <3>2. p[1] \in DOMAIN nodes /\ p[2] \in DOMAIN nodes /\ p[1] # p[2]
      BY DEF Pairs
    <3> QED BY <3>1, <3>2, TurnsLoseNothing
  <2> QED BY <2>1, <2>2 DEF Routable
<1> QED BY <1>1, CityInvariant, PTL

-----------------------------------------------------------------------------
(* The land use of a city.                                                 *)

(* Who has the greater remainder is before the others. *)
ByRemainder(r, S) == {p \in S \X S : r[p[1]] > r[p[2]] \/ (r[p[1]] = r[p[2]] /\ p[1] < p[2])}

LEMMA RemaindersOrder ==
    ASSUME NEW S \in SUBSET Nat, NEW r, \A b \in S : r[b] \in Int
    PROVE  TotalOrder(ByRemainder(r, S), S)
<1>1. \A x, y \in S : <<x, y>> \in ByRemainder(r, S) <=> (r[x] > r[y] \/ (r[x] = r[y] /\ x < y))
  BY DEF ByRemainder
<1>2. \A x \in S : x \in Nat /\ r[x] \in Int
  OBVIOUS
<1>3. \A x \in S : <<x, x>> \notin ByRemainder(r, S)
  BY <1>1, <1>2
<1>4. \A x, y \in S : x # y => <<x, y>> \in ByRemainder(r, S) \/ <<y, x>> \in ByRemainder(r, S)
  BY <1>1, <1>2
<1>5. \A x, y, z \in S :
         <<x, y>> \in ByRemainder(r, S) /\ <<y, z>> \in ByRemainder(r, S) => <<x, z>> \in ByRemainder(r, S)
  BY <1>1, <1>2
<1> QED BY <1>3, <1>4, <1>5 DEF TotalOrder

(* The quota of each block is its weight's part of the target, rounded     *)
(* down; what is left of the target goes to the greatest remainders.       *)
Divided(S, target, weight, quota, rest) ==
    \A b \in S : /\ weight[b] \in Nat /\ quota[b] \in Int
                 /\ rest[b] \in 0 .. SumOn(weight, S) - 1
                 /\ target * weight[b] = SumOn(weight, S) * quota[b] + rest[b]
HandedOut(S, target, quota, rest, share) ==
    \A b \in S : share[b] = quota[b]
        + IF RankIn(ByRemainder(rest, S), S, b) < target - SumOn(quota, S) THEN 1 ELSE 0

(* Shares that add up to the target, each within one of the exact quota,   *)
(* and none smaller than that of a block of less weight.                   *)
FairShares(S, target, weight, share) ==
    /\ SumOn(share, S) = target
    /\ \A b \in S :
        /\ share[b] \in Int
        /\ - SumOn(weight, S) < share[b] * SumOn(weight, S) - target * weight[b]
        /\ share[b] * SumOn(weight, S) - target * weight[b] < SumOn(weight, S)
    /\ \A b, c \in S : weight[b] > weight[c] => share[b] >= share[c]

(* Apportionment by the largest remainder is fair. *)
LEMMA LargestRemainder ==
    ASSUME NEW S \in SUBSET Nat, IsFiniteSet(S), NEW target \in Nat,
           NEW weight, NEW quota, NEW rest, NEW share,
           SumOn(weight, S) > 0, Divided(S, target, weight, quota, rest),
           HandedOut(S, target, quota, rest, share)
    PROVE  FairShares(S, target, weight, share)
<1> USE DEF Divided, HandedOut
<1> DEFINE whole == SumOn(weight, S)
           dealt == SumOn(quota, S)
           left == target - dealt
           order == ByRemainder(rest, S)
           some == {b \in S : rest[b] > 0}
           m == Cardinality(some)
           n == Cardinality(S)
           over == SumOn(rest, S)
           first == {b \in S : RankIn(order, S, b) < left}
           mark == [b \in S |-> IF b \in first THEN 1 ELSE 0]
<1>1. whole \in Nat \ {0} /\ dealt \in Int /\ over \in Int /\ over >= 0 /\ left \in Int
  <2>1. \A b \in S : weight[b] \in Int
    OBVIOUS
  <2>2. SumOn(weight, S) \in Int /\ SumOn(quota, S) \in Int
    BY <2>1, SumType
  <2>3. \A b \in S : rest[b] \in Int /\ rest[b] >= 0
    BY <2>2
  <2>4. SumOn(rest, S) \in Int /\ SumOn(rest, S) >= 0
    BY <2>3, SumType
  <2> QED BY <2>2, <2>4
<1>2. /\ n \in Nat /\ m \in Nat /\ m <= n /\ IsFiniteSet(some)
  BY FS_CardinalityType, FS_Subset
<1>3. \A b \in S : /\ weight[b] \in Nat /\ quota[b] \in Int /\ rest[b] \in Nat /\ rest[b] <= whole - 1
                   /\ target * weight[b] = whole * quota[b] + rest[b]
  BY <1>1
(* What is left is as much as the remainders. *)
<1>4. left * whole = over
  <2> DEFINE total == Scaled(target, weight, S)
             full == Scaled(whole, quota, S)
  <2>1. \A b \in S : weight[b] \in Int /\ quota[b] \in Int /\ rest[b] \in Int
    BY <1>3
  <2>2. whole \in Int /\ target \in Int
    BY <1>1
  <2> HIDE DEF whole
  <2>3. \A b \in S : full[b] \in Int /\ total[b] = Added(full, rest, S)[b]
    BY <1>3, <2>1, <2>2 DEF Scaled, Added
  <2>4. SumOn(total, S) = target * SumOn(weight, S) /\ SumOn(full, S) = whole * SumOn(quota, S)
    BY <2>1, <2>2, SumScaled
  <2> HIDE DEF total, full
  <2>5. SumOn(Added(full, rest, S), S) = SumOn(full, S) + SumOn(rest, S)
    BY <2>1, <2>3, SumAdded
  <2>6. SumOn(total, S) = SumOn(Added(full, rest, S), S)
    BY <2>3, SumCongruence
  <2>7. SumOn(quota, S) = dealt /\ SumOn(rest, S) = over /\ SumOn(weight, S) = whole
    BY DEF dealt, over, whole
  <2>9. whole * dealt + over = target * whole
    BY <2>4, <2>5, <2>6, <2>7
  <2>10. left = target - dealt
    BY DEF left, dealt
  <2> HIDE DEF whole, dealt, over, left
  <2> QED BY <2>9, <2>10, <1>1
(* So it is less than the number of blocks with a remainder. *)
<1>5. over <= (whole - 1) * m
  <2> DEFINE marked == [b \in S |-> IF b \in some THEN 1 ELSE 0]
             k == whole - 1
             most == Scaled(k, marked, S)
  <2>1. SumOn(marked, S) = m
    BY SumOfMarks
  <2>2. k \in Int /\ \A b \in S : marked[b] \in Int /\ most[b] = k * marked[b]
    BY <1>1 DEF Scaled
  <2>3. \A b \in S : rest[b] \in Int /\ most[b] \in Int /\ rest[b] <= most[b]
    BY <1>1, <1>3, <2>2
  <2> HIDE DEF marked, k, m, over, whole
  <2>4. SumOn(most, S) = k * SumOn(marked, S)
    BY <2>2, SumScaled
  <2> HIDE DEF most
  <2>5. SumOn(rest, S) <= SumOn(most, S)
    BY <2>3, SumMonotone
  <2> QED BY <2>1, <2>4, <2>5 DEF over, k
<1>6. 0 <= left /\ left <= m /\ (left > 0 => left < m)
  <2> HIDE DEF left, whole, over, m, n, some
  <2>1. left >= 0
    <3> SUFFICES ASSUME left <= -1 PROVE FALSE
      BY <1>1
    <3>1. left * whole <= - whole
      BY <1>1
    <3> QED BY <1>1, <1>4, <3>1
  <2>2. left > 0 => left < m
    <3> SUFFICES ASSUME left > 0, left >= m PROVE FALSE
      BY <1>1, <1>2
    <3>1. (whole - 1) * m <= (whole - 1) * left
      BY <1>1, <1>2, ProductOrder
    <3>2. left * whole <= (whole - 1) * left
      BY <1>1, <1>2, <1>4, <1>5, <3>1
    <3>3. (whole - 1) * left = left * whole - left
      BY <1>1
    <3> QED BY <1>1, <3>2, <3>3
  <2> QED BY <1>1, <1>2, <2>1, <2>2
<1>7. TotalOrder(order, S)
  BY <1>3, RemaindersOrder
<1> HIDE DEF order
<1>8. Cardinality(first) = left
  <2>1. left \in 0 .. n
    BY <1>1, <1>2, <1>6
  <2> HIDE DEF left
  <2> QED BY <1>7, <2>1, FirstRanks DEF n
<1>9. \A b \in S : share[b] = quota[b] + mark[b] /\ mark[b] \in {0, 1} /\ (mark[b] = 1 <=> b \in first)
  BY DEF order
<1>10. SumOn(share, S) = target
  <2>1. \A b \in S : quota[b] \in Int /\ mark[b] \in Int /\ share[b] = Added(quota, mark, S)[b]
    BY <1>9 DEF Added
  <2>2. SumOn(mark, S) = Cardinality(first)
    BY SumOfMarks
  <2> HIDE DEF mark, first, dealt
  <2>3. SumOn(Added(quota, mark, S), S) = SumOn(quota, S) + SumOn(mark, S)
    BY <2>1, SumAdded
  <2>4. SumOn(share, S) = SumOn(Added(quota, mark, S), S)
    BY <2>1, SumCongruence
  <2>5. SumOn(share, S) = dealt + left
    BY <2>2, <2>3, <2>4, <1>8 DEF dealt
  <2> QED BY <1>1, <2>5
(* No block without a remainder is served. *)
<1>11. \A b \in first : rest[b] > 0
  <2> SUFFICES ASSUME NEW b \in first, ~ (rest[b] > 0) PROVE FALSE
    OBVIOUS
  <2>1. b \in S /\ rest[b] = 0
    BY <1>3
  <2>2. \A c \in some : <<c, b>> \in order
    BY <1>3, <2>1 DEF order, ByRemainder
  <2>3. some \in SUBSET Below(order, S, b)
    BY <2>2 DEF Below
  <2>4. IsFiniteSet(Below(order, S, b)) /\ RankIn(order, S, b) \in Int
    BY RankIsNumber
  <2>5. m <= RankIn(order, S, b)
    BY <2>3, <2>4, FS_Subset DEF RankIn
  <2>6. RankIn(order, S, b) < left
    OBVIOUS
  <2> HIDE DEF m, left
  <2> QED BY <1>1, <1>2, <1>6, <2>4, <2>5, <2>6
<1>12. ASSUME NEW b \in S
       PROVE  /\ share[b] \in Int
              /\ - whole < share[b] * whole - target * weight[b]
              /\ share[b] * whole - target * weight[b] < whole
  <2> DEFINE s == share[b]  q == quota[b]  r == rest[b]  d == mark[b]  t == target * weight[b]
  <2>1. s = q + d /\ d \in {0, 1} /\ (d = 1 => r > 0)
    BY <1>9, <1>11
  <2>2. q \in Int /\ r \in Nat /\ r <= whole - 1 /\ t = whole * q + r
    BY <1>3
  <2> HIDE DEF s, q, r, d, t, whole
  <2>3. s \in Int /\ s * whole = whole * q + d * whole
    BY <1>1, <2>1, <2>2
  <2>4. d * whole = IF d = 1 THEN whole ELSE 0
    BY <1>1, <2>1
  <2>5. whole * q \in Int
    BY <1>1, <2>2
  <2>6. s * whole - t = (IF d = 1 THEN whole ELSE 0) - r
    BY <1>1, <2>2, <2>3, <2>4, <2>5
  <2>7. - whole < s * whole - t /\ s * whole - t < whole
    BY <1>1, <2>1, <2>2, <2>6
  <2> QED BY <2>3, <2>7 DEF s, t
<1>13. ASSUME NEW b \in S, NEW c \in S, weight[b] > weight[c] PROVE share[b] >= share[c]
  <2> DEFINE qb == quota[b]  qc == quota[c]  rb == rest[b]  rc == rest[c]
             tb == target * weight[b]  tc == target * weight[c]
  <2>1. /\ qb \in Int /\ qc \in Int /\ rb \in Nat /\ rc \in Nat /\ rb <= whole - 1 /\ rc <= whole - 1
        /\ tb = whole * qb + rb /\ tc = whole * qc + rc
    BY <1>3
  <2>2. tc <= tb
    BY <1>3, <1>13, ProductOrder
  <2>3. qc <= qb
    <3> HIDE DEF qb, qc, rb, rc, tb, tc, whole
    <3> SUFFICES ASSUME qb + 1 <= qc PROVE FALSE
      BY <2>1
    <3>1. whole * (qb + 1) <= whole * qc
      BY <1>1, <2>1, ProductOrder
    <3>2. whole * (qb + 1) = whole * qb + whole
      BY <1>1, <2>1
    <3>3. whole * qb \in Int /\ whole * qc \in Int
      BY <1>1, <2>1
    <3> QED BY <1>1, <2>1, <2>2, <3>1, <3>2, <3>3
  <2>4. CASE qc < qb
    <3>1. share[b] = qb + mark[b] /\ share[c] = qc + mark[c] /\ mark[b] \in {0, 1} /\ mark[c] \in {0, 1}
      BY <1>9
    <3> HIDE DEF qb, qc, mark
    <3> QED BY <2>1, <2>4, <3>1
  <2>5. CASE qc = qb
    <3>1. rc <= rb
      <4> HIDE DEF qb, qc, rb, rc, tb, tc, whole
      <4>1. whole * qb \in Int
        BY <1>1, <2>1
      <4> QED BY <2>1, <2>2, <2>5, <4>1
    <3>2. mark[c] = 1 => mark[b] = 1
      <4> SUFFICES ASSUME c \in first PROVE b \in first
        OBVIOUS
      <4>1. CASE rc < rb
        <5>1. <<b, c>> \in order
          BY <4>1, <1>3 DEF order, ByRemainder
        <5>2. RankIn(order, S, b) < RankIn(order, S, c)
          BY <1>7, <5>1, RankOrders
        <5>3. RankIn(order, S, c) < left
          OBVIOUS
        <5>4. RankIn(order, S, b) \in Int /\ RankIn(order, S, c) \in Int
          BY RankIsNumber
        <5>5. RankIn(order, S, b) < left
          <6> HIDE DEF left
          <6> QED BY <1>1, <5>2, <5>3, <5>4
        <5> QED BY <5>5
      <4>2. CASE rc = rb
        (* Equal to the last unit: then there is nothing to hand out. *)
        <5>1. tb = tc
          BY <2>1, <2>5, <4>2
        <5>2. target = 0
          <6> DEFINE wb == weight[b]  wc == weight[c]
          <6>1. wb \in Nat /\ wc \in Nat /\ wb > wc /\ target * wb = target * wc
            BY <1>3, <1>13, <5>1
          <6> HIDE DEF wb, wc
          <6>2. target * (wb - wc) = 0 /\ wb - wc >= 1
            BY <6>1
          <6>3. target <= target * (wb - wc)
            <7>1. PICK e \in Nat : e = wb - wc
              BY <6>1
            <7>2. target * 1 <= target * e
              BY <6>1, <7>1, ProductOrder
            <7> QED BY <7>1, <7>2
          <6> QED BY <6>2, <6>3
        <5>3. rest[c] > 0
          BY <1>11
        <5>4. target * weight[c] = 0
          BY <5>2, <1>3
        <5>5. whole * qc + rc = 0 /\ rc > 0
          BY <2>1, <5>3, <5>4
        <5>6. FALSE
          <6> DEFINE p == whole * qc
          <6>0. rc \in Nat /\ rc <= whole - 1 /\ qc \in Int /\ p + rc = 0 /\ rc > 0
            BY <2>1, <5>5
          <6> HIDE DEF qc, rc, whole
          <6>1. CASE qc >= 0
            <7>1. whole * 0 <= whole * qc
              BY <1>1, <2>1, <6>1, ProductOrder
            <7>2. p \in Int /\ p >= 0
              BY <1>1, <2>1, <7>1
            <7> HIDE DEF p
            <7> QED BY <6>0, <7>2
          <6>2. CASE qc <= -1
            <7>1. whole * qc <= whole * (-1)
              BY <1>1, <2>1, <6>2, ProductOrder
            <7>2. p \in Int /\ p <= - whole
              BY <1>1, <2>1, <7>1
            <7> HIDE DEF p
            <7> QED BY <1>1, <6>0, <7>2
          <6> QED BY <2>1, <6>1, <6>2
        <5> QED BY <5>6
      <4> QED BY <2>1, <3>1, <4>1, <4>2
    <3>3. share[b] = qb + mark[b] /\ share[c] = qc + mark[c] /\ mark[b] \in {0, 1} /\ mark[c] \in {0, 1}
      BY <1>9
    <3> HIDE DEF qb, qc, mark
    <3> QED BY <2>1, <2>5, <3>2, <3>3
  <2> QED BY <2>1, <2>3, <2>4, <2>5
<1> QED BY <1>10, <1>12, <1>13 DEF FairShares

----------------------------------------------------------------------------
(* What the invariant says of a state, by the values of the variables.     *)

(* A row of blocks, each with land, a road and a node. *)
AddressableRow(ps) ==
    /\ DOMAIN ps = 1 .. Len(ps) /\ Len(ps) \in Nat
    /\ \A b \in DOMAIN ps : Addressable(ps[b])

Graded(ps, ld) == \A b \in DOMAIN ps : ld[b].intense \in 0 .. 4

WeightsOf(ps, ld, us, c) ==
    [b \in DOMAIN ps |-> ps[b].area * Rate[us[b]][c] * (9 * 4 + 11 * ld[b].intense)]
WholeOf(ps, ld, us, c) == SumOn(WeightsOf(ps, ld, us, c), DOMAIN ps)
TargetOf(ps, ld, us, pe) ==
    [home |-> pe, job |-> (31 * pe + 49) \div 50,
     leisure |-> Rounded(WholeOf(ps, ld, us, "leisure"), PerUnit)]

FairFor(sh, weight, whole, target) ==
    /\ DOMAIN sh = DOMAIN weight
    /\ SumOn(sh, DOMAIN sh) = target
    /\ \A b \in DOMAIN weight :
        /\ sh[b] \in Nat
        /\ whole > 0 => /\ - whole < sh[b] * whole - target * weight[b]
                        /\ sh[b] * whole - target * weight[b] < whole
        /\ \A d \in DOMAIN weight : weight[b] > weight[d] => sh[b] >= sh[d]
Fair(ps, ld, us, pe, sh) ==
    \A c \in Channels :
        FairFor(sh[c], WeightsOf(ps, ld, us, c), WholeOf(ps, ld, us, c), TargetOf(ps, ld, us, pe)[c])

ApartIn(ps, us) ==
    \A b, c \in DOMAIN ps :
        us[b] = "residential" /\ us[c] = "industrial" =>
            ~ (b # c /\ ps[b].frontage \cap ps[c].frontage # {})

(* The definitions of the model are these of its variables. *)
LEMMA WeightsHere ==
    \A c : Weights(c) = WeightsOf(parcels, land, uses, c)
BY DEF Weights, WeightsOf, RawCapacity, Blocks

LEMMA TotalHere ==
    \A c : Total(c) = WholeOf(parcels, land, uses, c)
<1> SUFFICES ASSUME NEW c PROVE Total(c) = WholeOf(parcels, land, uses, c)
  OBVIOUS
<1> DEFINE w == Weights(c)
<1>1. w = WeightsOf(parcels, land, uses, c) /\ DOMAIN w = DOMAIN parcels
  BY WeightsHere DEF WeightsOf
<1>2. Total(c) = SumFunction(w)
  BY DEF Total
<1> HIDE DEF w
<1>3. SumFunction(w) = SumOn(w, DOMAIN w)
  BY DEF SumFunction, SumFunctionOnSet, FoldFunctionOnSet, SumOn, MapThenSumSet
<1> QED BY <1>1, <1>2, <1>3 DEF WholeOf

LEMMA TargetHere ==
    Target = TargetOf(parcels, land, uses, people)
BY TotalHere DEF Target, TargetOf

(* The sums of the library over a function. *)
LEMMA SumOfFunction ==
    ASSUME NEW f PROVE SumFunction(f) = SumOn(f, DOMAIN f)
BY DEF SumFunction, SumFunctionOnSet, FoldFunctionOnSet, SumOn, MapThenSumSet

(* The weights of addressable blocks, and what they add up to. *)
LEMMA WeightsAreNumbers ==
    ASSUME NEW ps, NEW ld, NEW us, AddressableRow(ps), Graded(ps, ld),
           us \in [DOMAIN ps -> AllUses], NEW c \in Channels
    PROVE  /\ IsFiniteSet(DOMAIN ps) /\ DOMAIN ps \in SUBSET Nat
           /\ \A b \in DOMAIN ps : WeightsOf(ps, ld, us, c)[b] \in Nat
           /\ WholeOf(ps, ld, us, c) \in Nat
<1> DEFINE w == WeightsOf(ps, ld, us, c)
<1>1. IsFiniteSet(DOMAIN ps) /\ DOMAIN ps \in SUBSET Nat
  <2>1. PICK n \in Nat : n = Len(ps)
    BY DEF AddressableRow
  <2>2. IsFiniteSet(1 .. n)
    BY <2>1, FS_Interval
  <2> QED BY <2>1, <2>2 DEF AddressableRow
<1>2. \A b \in DOMAIN ps : w[b] \in Nat
  <2> SUFFICES ASSUME NEW b \in DOMAIN ps PROVE w[b] \in Nat
    OBVIOUS
  <2> DEFINE a == ps[b].area  r == Rate[us[b]][c]  i == 9 * 4 + 11 * ld[b].intense
  <2>1. a \in Nat
    BY DEF AddressableRow, Addressable
  <2>2. r \in Nat
    BY DEF Rate, AllUses, Channels
  <2>3. i \in Nat
    BY DEF Graded
  <2>4. w[b] = a * r * i
    BY DEF WeightsOf
  <2> HIDE DEF a, r, i, w
  <2>5. a * r \in Nat
    BY <2>1, <2>2
  <2> QED BY <2>3, <2>4, <2>5
<1>3. WholeOf(ps, ld, us, c) \in Nat
  <2>1. \A b \in DOMAIN ps : w[b] \in Int
    BY <1>2
  <2>2. \A b \in DOMAIN ps : w[b] >= 0
    BY <1>2
  <2> HIDE DEF w
  <2>3. SumOn(w, DOMAIN ps) \in Int /\ SumOn(w, DOMAIN ps) >= 0
    BY <1>1, <2>1, <2>2, SumType
  <2> QED BY <2>3 DEF WholeOf, w
<1> QED BY <1>1, <1>2, <1>3

(* What is to be shared out of each channel. *)
LEMMA TargetsAreNumbers ==
    ASSUME NEW ps, NEW ld, NEW us, AddressableRow(ps), Graded(ps, ld),
           us \in [DOMAIN ps -> AllUses], NEW pe \in Nat \ {0}, NEW c \in Channels
    PROVE  TargetOf(ps, ld, us, pe)[c] \in Nat
<1> DEFINE n == WholeOf(ps, ld, us, "leisure")
<1>1. n \in Nat
  BY WeightsAreNumbers DEF Channels
<1>2. PerUnit \in Nat \ {0}
  BY AllocationAssumption DEF PerUnit
<1>3. Rounded(n, PerUnit) \in Nat
  <2> HIDE DEF n
  <2> DEFINE d == PerUnit
  <2> HIDE DEF d
  <2>1. d \in Nat \ {0}
    BY <1>2 DEF d
  <2>2. n \div d \in Nat
    BY <1>1, <2>1
  <2>3. Rounded(n, d) \in Nat
    BY <2>2 DEF Rounded
  <2> QED BY <2>3 DEF d
<1>4. (31 * pe + 49) \div 50 \in Nat
  <2>1. PICK m \in Nat : m = 31 * pe + 49
    OBVIOUS
  <2>2. m \div 50 \in Nat
    OBVIOUS
  <2> QED BY <2>1, <2>2
<1>5. /\ TargetOf(ps, ld, us, pe)["home"] = pe
      /\ TargetOf(ps, ld, us, pe)["job"] = (31 * pe + 49) \div 50
      /\ TargetOf(ps, ld, us, pe)["leisure"] = Rounded(n, PerUnit)
  BY DEF TargetOf
<1> QED BY <1>3, <1>4, <1>5 DEF Channels

(* A channel within its bounds is shared out fairly. *)
LEMMA ApportionedFairly ==
    ASSUME AddressableRow(parcels), Graded(parcels, land), uses \in [DOMAIN parcels -> AllUses],
           people \in Nat \ {0}, NEW c \in Channels, WithinBounds(c)
    PROVE  FairFor(Apportioned(c), WeightsOf(parcels, land, uses, c),
                   WholeOf(parcels, land, uses, c), TargetOf(parcels, land, uses, people)[c])
<1> DEFINE S == DOMAIN parcels
           weight == WeightsOf(parcels, land, uses, c)
           whole == WholeOf(parcels, land, uses, c)
           target == TargetOf(parcels, land, uses, people)[c]
           quota == [b \in S |-> (target * weight[b]) \div whole]
           rest == [b \in S |-> (target * weight[b]) % whole]
           share == Apportioned(c)
<1>1. /\ IsFiniteSet(S) /\ S \in SUBSET Nat /\ DOMAIN weight = S
      /\ \A b \in S : weight[b] \in Nat
      /\ whole \in Nat /\ target \in Nat
  BY WeightsAreNumbers, TargetsAreNumbers DEF WeightsOf
<1>2. whole = SumOn(weight, S)
  BY DEF WholeOf
<1>3. /\ Total(c) = whole /\ Target[c] = target
      /\ \A b \in S : RawCapacity(b, c) = weight[b]
  BY TotalHere, TargetHere DEF RawCapacity, WeightsOf
<1>4. /\ \A b \in S : RoundedDown(b, c) = quota[b] /\ Remaining(b, c) = rest[b]
      /\ [b \in S |-> RoundedDown(b, c)] = quota
  BY <1>3 DEF RoundedDown, Remaining
<1>5. DOMAIN share = S
  BY DEF Apportioned, Blocks
<1> HIDE DEF weight, whole, target
<1>6. CASE whole = 0
  <2>1. \A b \in S : share[b] = 0
    BY <1>3, <1>6 DEF Apportioned, Blocks
  <2>2. target = 0
    <3>1. c = "leisure"
      BY <1>3, <1>6 DEF WithinBounds
    <3>2. target * PerUnit = 0
      BY <1>3, <1>6, <3>1 DEF WithinBounds
    <3>3. PerUnit \in Nat \ {0}
      BY AllocationAssumption DEF PerUnit
    <3>4. PICK d \in Nat \ {0} : d = PerUnit
      BY <3>3
    <3>5. target * d = 0
      BY <3>2, <3>4
    <3> QED BY <1>1, <3>5
  <2> HIDE DEF share
  <2>3. SumOn(share, S) = 0
    <3>1. \A b \in S : share[b] \in Int
      BY <2>1
    <3> QED BY <1>1, <2>1, <3>1, SumType
  <2> QED BY <1>1, <1>5, <1>6, <2>1, <2>2, <2>3 DEF FairFor, weight, whole, target, share
<1>7. CASE whole > 0
  <2>1. \A b \in S : /\ quota[b] \in Int /\ rest[b] \in 0 .. whole - 1
                     /\ target * weight[b] = whole * quota[b] + rest[b]
    <3> SUFFICES ASSUME NEW b \in S
                 PROVE  /\ quota[b] \in Int /\ rest[b] \in 0 .. whole - 1
                        /\ target * weight[b] = whole * quota[b] + rest[b]
      OBVIOUS
    <3>1. PICK a \in Int : a = target * weight[b]
      BY <1>1
    <3>2. PICK d \in Nat \ {0} : d = whole
      BY <1>1, <1>7
    <3>3. /\ a \div d \in Int /\ a % d \in 0 .. d - 1 /\ a = d * (a \div d) + (a % d)
      BY Division
    <3>4. quota[b] = a \div d /\ rest[b] = a % d
      BY <3>1, <3>2
    <3> HIDE DEF quota, rest
    <3> QED BY <3>1, <3>2, <3>3, <3>4
  <2>2. SumFunction(quota) = SumOn(quota, S)
    BY SumOfFunction
  <2>3. \A b \in S : {d \in S \ {b} : ServedBefore(d, b, c)} = Below(ByRemainder(rest, S), S, b)
    <3> SUFFICES ASSUME NEW b \in S
                 PROVE  {d \in S \ {b} : ServedBefore(d, b, c)} = Below(ByRemainder(rest, S), S, b)
      OBVIOUS
    <3>1. \A d \in S : ServedBefore(d, b, c) <=> <<d, b>> \in ByRemainder(rest, S)
      BY <1>4 DEF ServedBefore, ByRemainder
    <3>2. rest[b] \in Int /\ b \in Nat
      BY <1>1, <2>1
    <3>3. <<b, b>> \notin ByRemainder(rest, S)
      BY <3>2 DEF ByRemainder
    <3> HIDE DEF rest
    <3> QED BY <3>1, <3>3 DEF Below
  <2>4. \A b \in S :
          share[b] = quota[b] + IF RankIn(ByRemainder(rest, S), S, b) < target - SumOn(quota, S)
                                THEN 1 ELSE 0
    <3> SUFFICES ASSUME NEW b \in S
                 PROVE  share[b] = quota[b]
                          + IF RankIn(ByRemainder(rest, S), S, b) < target - SumOn(quota, S)
                            THEN 1 ELSE 0
      OBVIOUS
    <3>1. share[b] = RoundedDown(b, c)
              + IF Cardinality({d \in S \ {b} : ServedBefore(d, b, c)})
                    < Target[c] - SumFunction([x \in S |-> RoundedDown(x, c)]) THEN 1 ELSE 0
      BY <1>1, <1>3, <1>7 DEF Apportioned, Blocks
    <3>2. [x \in S |-> RoundedDown(x, c)] = quota /\ RoundedDown(b, c) = quota[b]
      BY <1>4
    <3> HIDE DEF quota, rest, share
    <3> QED BY <1>3, <2>2, <2>3, <3>1, <3>2 DEF RankIn
  <2> HIDE DEF quota, rest, share
  <2>5. /\ SumOn(share, S) = target
        /\ \A b \in S : /\ share[b] \in Int
                        /\ - whole < share[b] * whole - target * weight[b]
                        /\ share[b] * whole - target * weight[b] < whole
        /\ \A b, d \in S : weight[b] > weight[d] => share[b] >= share[d]
    <3>1. SumOn(weight, S) > 0
      BY <1>2, <1>7
    <3>2. Divided(S, target, weight, quota, rest)
      BY <1>1, <1>2, <2>1 DEF Divided
    <3>3. HandedOut(S, target, quota, rest, share)
      BY <2>4 DEF HandedOut
    <3>4. FairShares(S, target, weight, share)
      BY <1>1, <3>1, <3>2, <3>3, LargestRemainder
    <3> QED BY <1>2, <3>4 DEF FairShares
  <2>6. \A b \in S : share[b] \in Nat
    <3> SUFFICES ASSUME NEW b \in S PROVE share[b] >= 0
      BY <2>5
    <3> SUFFICES ASSUME share[b] <= -1 PROVE FALSE
      BY <2>5
    <3>1. PICK s \in Int, t \in Nat, w \in Nat \ {0} : s = share[b] /\ t = target * weight[b] /\ w = whole
      BY <1>1, <1>7, <2>5
    <3>2. w * s <= w * (-1)
      <4>1. w \in Nat /\ s \in Int /\ -1 \in Int /\ s <= -1
        BY <3>1
      <4> QED BY <4>1, ProductOrder
    <3>3. - w < s * w - t
      BY <2>5, <3>1
    <3> QED BY <3>1, <3>2, <3>3
  <2> QED BY <1>1, <1>5, <2>5, <2>6 DEF FairFor, weight, whole, target, share
<1> QED BY <1>1, <1>6, <1>7

-----------------------------------------------------------------------------
(* Zones.                                                                  *)

(* The first m of k runs of which r have q + 1 blocks and the others q. *)
Covered(q, r, m) == m * q + IF m <= r THEN m ELSE r
RunLengths(q, r, k) == [z \in 1 .. k |-> q + IF z <= r THEN 1 ELSE 0]

(* A further run adds its length. *)
LEMMA CoveredStep ==
    ASSUME NEW q \in Nat, NEW r \in Nat, NEW m \in Nat
    PROVE  /\ Covered(q, r, m) \in Nat
           /\ Covered(q, r, m + 1) = Covered(q, r, m) + q + IF m + 1 <= r THEN 1 ELSE 0
<1>1. m * q \in Nat /\ (m + 1) * q = m * q + q
  OBVIOUS
<1> QED BY <1>1 DEF Covered

(* More runs cover more. *)
LEMMA CoveredGrows ==
    ASSUME NEW q \in Nat, NEW r \in Nat, NEW l \in Nat, NEW m \in Nat, l <= m
    PROVE  Covered(q, r, l) <= Covered(q, r, m)
<1>1. q * l <= q * m
  BY ProductOrder
<1>2. q * l = l * q /\ q * m = m * q /\ l * q \in Nat /\ m * q \in Nat
  OBVIOUS
<1> QED BY <1>1, <1>2 DEF Covered

(* The closed form is the sum of the lengths. *)
LEMMA CoveredIsSum ==
    ASSUME NEW q \in Nat, NEW r \in Nat, NEW k \in Nat, NEW m \in Nat, m <= k
    PROVE  SumOn(RunLengths(q, r, k), 1 .. m) = Covered(q, r, m)
<1> DEFINE size == RunLengths(q, r, k)
           wrong == {i \in Nat : i <= k /\ SumOn(size, 1 .. i) # Covered(q, r, i)}
<1>1. wrong = {}
  <2> SUFFICES ASSUME wrong # {} PROVE FALSE
    OBVIOUS
  <2>1. PICK i \in wrong : \A j \in wrong : i <= j
    BY LeastExists
  <2>2. i \in Nat /\ i <= k /\ SumOn(size, 1 .. i) # Covered(q, r, i)
    OBVIOUS
  <2>3. i # 0
    <3> SUFFICES ASSUME i = 0 PROVE FALSE
      OBVIOUS
    <3>1. 1 .. 0 = {} /\ IsFiniteSet({})
      BY FS_EmptySet
    <3> HIDE DEF size
    <3>2. SumOn(size, {}) = 0
      BY <3>1, SumType
    <3>3. Covered(q, r, 0) = 0
      BY DEF Covered
    <3> QED BY <2>2, <3>1, <3>2, <3>3
  <2>4. PICK p \in Nat : i = p + 1
    BY <2>2, <2>3
  <2>5. SumOn(size, 1 .. p) = Covered(q, r, p)
    <3>1. p \notin wrong /\ p <= k
      BY <2>1, <2>2, <2>4
    <3> QED BY <3>1
  <2>6. SumOn(size, 1 .. i) = size[i] + SumOn(size, 1 .. p)
    <3>1. IsFiniteSet(1 .. i) /\ i \in 1 .. i /\ (1 .. i) \ {i} = 1 .. p
      <4>1. i \in Int /\ 1 \in Int
        BY <2>2
      <4>2. IsFiniteSet(1 .. i)
        BY <4>1, FS_Interval
      <4>3. i \in 1 .. i /\ (1 .. i) \ {i} = 1 .. p
        BY <2>2, <2>4
      <4> QED BY <4>2, <4>3
    <3>2. \A x \in 1 .. i : size[x] \in Int
      BY <2>2 DEF RunLengths
    <3> HIDE DEF size
    <3>3. SumOn(size, 1 .. i) = size[i] + SumOn(size, (1 .. i) \ {i})
      BY <3>1, <3>2, SumRemove
    <3> QED BY <3>1, <3>3
  <2>7. size[i] = q + IF p + 1 <= r THEN 1 ELSE 0
    BY <2>2, <2>4 DEF RunLengths
  <2>8. /\ Covered(q, r, p) \in Nat
        /\ Covered(q, r, i) = Covered(q, r, p) + q + IF p + 1 <= r THEN 1 ELSE 0
    BY <2>4, CoveredStep
  <2> HIDE DEF size, wrong
  <2> QED BY <2>2, <2>5, <2>6, <2>7, <2>8
<1> QED BY <1>1

(* Each element is in one zone, and no zone is larger by two than another. *)
Balanced(S, zs) ==
    /\ \A b \in S : \E z \in DOMAIN zs : {y \in DOMAIN zs : b \in zs[y]} = {z}
    /\ \A z \in DOMAIN zs : Cardinality(zs[z]) \in Nat
    /\ \A y, z \in DOMAIN zs : Cardinality(zs[y]) <= Cardinality(zs[z]) + 1

CutAlong(curve, q, r, k) ==
    [z \in 1 .. k |-> {curve[j] : j \in Covered(q, r, z - 1) + 1 .. Covered(q, r, z)}]

(* The runs are disjoint, cover everything, and differ by one. *)
LEMMA RunsBalanced ==
    ASSUME NEW n \in Nat, NEW q \in Nat, NEW r \in Nat, NEW k \in Nat, k * q + r = n, r <= k,
           NEW curve \in Bijection(1 .. n, 1 .. n)
    PROVE  Balanced(1 .. n, CutAlong(curve, q, r, k))
<1>0. PICK zs : zs = CutAlong(curve, q, r, k)
  OBVIOUS
<1>a. zs = [z \in 1 .. k |-> {curve[j] : j \in Covered(q, r, z - 1) + 1 .. Covered(q, r, z)}]
  BY <1>0 DEF CutAlong
<1> USE <1>a
<1>1. /\ curve \in [1 .. n -> 1 .. n]
      /\ \A i, j \in 1 .. n : curve[i] = curve[j] => i = j
      /\ \A b \in 1 .. n : \E j \in 1 .. n : curve[j] = b
  BY DEF Bijection, Injection, Surjection, IsInjective
<1>2. Covered(q, r, 0) = 0 /\ Covered(q, r, k) = n
  <2>1. Covered(q, r, k) = k * q + r
    <3>1. k * q \in Nat
      OBVIOUS
    <3> QED BY <3>1 DEF Covered
  <2> QED BY <2>1 DEF Covered
<1>3. ASSUME NEW z \in 1 .. k
      PROVE  /\ z - 1 \in Nat /\ Covered(q, r, z - 1) \in Nat /\ Covered(q, r, z) \in Nat
             /\ Covered(q, r, z) = Covered(q, r, z - 1) + q + IF z <= r THEN 1 ELSE 0
             /\ Covered(q, r, z) <= n
  <2>1. PICK p \in Nat : z = p + 1
    OBVIOUS
  <2>2. /\ Covered(q, r, p) \in Nat
        /\ Covered(q, r, p + 1) = Covered(q, r, p) + q + IF p + 1 <= r THEN 1 ELSE 0
    BY CoveredStep
  <2>3. Covered(q, r, z) \in Nat
    BY <2>1, <2>2
  <2>4. Covered(q, r, z) <= Covered(q, r, k)
    BY CoveredGrows
  <2>5. z - 1 = p
    BY <2>1
  <2> QED BY <1>2, <2>1, <2>2, <2>3, <2>4, <2>5
<1>4. ASSUME NEW j \in 1 .. n
      PROVE  \E z \in 1 .. k : j \in Covered(q, r, z - 1) + 1 .. Covered(q, r, z)
  <2> DEFINE reach == {m \in Nat : m <= k /\ j <= Covered(q, r, m)}
  <2>1. k \in reach
    BY <1>2
  <2>2. PICK z \in reach : \A y \in reach : z <= y
    BY <2>1, LeastExists
  <2>3. z # 0
    BY <1>2
  <2>4. z \in 1 .. k /\ z - 1 \notin reach /\ z - 1 \in Nat /\ z - 1 <= k
    BY <2>2, <2>3
  <2>5. ~ (j <= Covered(q, r, z - 1)) /\ j <= Covered(q, r, z)
    BY <2>4
  <2> HIDE DEF reach
  <2>6. Covered(q, r, z - 1) \in Nat /\ Covered(q, r, z) \in Nat
    BY <1>3, <2>4
  <2> QED BY <2>4, <2>5, <2>6
<1>5. ASSUME NEW j \in 1 .. n, NEW y \in 1 .. k, NEW z \in 1 .. k, y < z,
             j \in Covered(q, r, y - 1) + 1 .. Covered(q, r, y),
             j \in Covered(q, r, z - 1) + 1 .. Covered(q, r, z)
      PROVE  FALSE
  <2>1. PICK p \in Nat : p = z - 1
    BY <1>3
  <2>2. Covered(q, r, y) <= Covered(q, r, p)
    BY <1>5, <2>1, CoveredGrows
  <2>3. Covered(q, r, p) \in Nat /\ Covered(q, r, y) \in Nat
    BY <1>3, <2>1
  <2> QED BY <1>5, <2>1, <2>2, <2>3
<1>6. ASSUME NEW b \in 1 .. n
      PROVE  \E z \in DOMAIN zs : {y \in DOMAIN zs : b \in zs[y]} = {z}
  <2>1. PICK j \in 1 .. n : curve[j] = b
    BY <1>1
  <2>2. PICK z \in 1 .. k : j \in Covered(q, r, z - 1) + 1 .. Covered(q, r, z)
    BY <1>4
  <2>3. b \in zs[z]
    BY <2>1, <2>2
  <2>4. ASSUME NEW y \in 1 .. k, b \in zs[y] PROVE y = z
    <3>1. PICK i \in Covered(q, r, y - 1) + 1 .. Covered(q, r, y) : b = curve[i]
      BY <2>4
    <3>2. i \in 1 .. n
      BY <1>3
    <3>3. i = j
      BY <1>1, <2>1, <3>1, <3>2
    <3> QED BY <1>5, <2>2, <3>1, <3>3
  <2>5. DOMAIN zs = 1 .. k
    OBVIOUS
  <2>6. {y \in DOMAIN zs : b \in zs[y]} = {z}
    BY ONLY <2>3, <2>4, <2>5, z \in 1 .. k
  <2> QED BY <2>5, <2>6
<1>7. ASSUME NEW z \in 1 .. k
      PROVE  Cardinality(zs[z]) = q + IF z <= r THEN 1 ELSE 0
  <2>1. PICK a \in Nat, e \in Nat : a = Covered(q, r, z - 1) /\ e = Covered(q, r, z)
    BY <1>3
  <2>2. e = a + q + (IF z <= r THEN 1 ELSE 0) /\ e <= n
    BY <1>3, <2>1
  <2> DEFINE run == a + 1 .. e
             back == [j \in run |-> curve[j]]
  <2>3. /\ IsFiniteSet(run)
        /\ Cardinality(run) = q + IF z <= r THEN 1 ELSE 0
    <3>1. PICK s \in Int : s = a + 1
      OBVIOUS
    <3>2. IsFiniteSet(s .. e) /\ Cardinality(s .. e) = IF s > e THEN 0 ELSE e - s + 1
      BY FS_Interval
    <3> QED BY <2>2, <3>1, <3>2
  <2>4. zs[z] = {curve[j] : j \in run}
    BY <2>1
  <2>5. run \subseteq 1 .. n
    BY <2>2
  <2> HIDE DEF run
  <2>6. back \in Bijection(run, zs[z])
    <3>1. back \in [run -> zs[z]]
      BY <2>4
    <3>2. \A i, j \in run : back[i] = back[j] => i = j
      BY <1>1, <2>5
    <3>3. \A b \in zs[z] : \E j \in run : back[j] = b
      BY <2>4
    <3> HIDE DEF back
    <3> QED BY <3>1, <3>2, <3>3 DEF Bijection, Injection, Surjection, IsInjective
  <2> HIDE DEF back
  <2> QED BY <2>3, <2>6, FS_Bijection DEF ExistsBijection
<1>8. DOMAIN zs = 1 .. k
  OBVIOUS
<1>9. \A z \in DOMAIN zs : Cardinality(zs[z]) \in Nat
  BY <1>7, <1>8
<1>10. \A y, z \in DOMAIN zs : Cardinality(zs[y]) <= Cardinality(zs[z]) + 1
  BY <1>7, <1>8
<1>11. Balanced(1 .. n, zs)
  BY ONLY <1>6, <1>9, <1>10 DEF Balanced
<1> QED BY ONLY <1>0, <1>11

(* There is a zone. *)
LEMMA ZoneCountIsNumber ==
    ASSUME people \in Nat \ {0} PROVE ZoneCount \in Nat \ {0}
<1>1. ASSUME NEW a \in Nat \ {0}, NEW b \in Nat
      PROVE  /\ Max({a, b}) \in Nat \ {0}
             /\ b # 0 => Min({a, b}) \in Nat \ {0}
  <2>1. \E x \in {a, b} : \A y \in {a, b} : x >= y
    BY <1>1
  <2>2. Max({a, b}) \in {a, b} /\ \A y \in {a, b} : Max({a, b}) >= y
    BY <2>1 DEF Max
  <2>3. \E x \in {a, b} : \A y \in {a, b} : x <= y
    BY <1>1
  <2>4. Min({a, b}) \in {a, b}
    BY <2>3 DEF Min
  <2> QED BY <1>1, <2>2, <2>4
<1>2. PICK p \in Nat, d \in Nat \ {0} : p = people + ZonePeople - 1 /\ d = ZonePeople
  BY AllocationAssumption
<1>3. p \div d \in Nat
  OBVIOUS
<1>4. FewestZones \in Nat \ {0} /\ MostZones \in Nat \ {0}
  BY AllocationAssumption
<1>5. PICK m \in Nat \ {0} : m = Max({FewestZones, p \div d})
  BY <1>1, <1>3, <1>4
<1>6. Min({MostZones, m}) \in Nat \ {0}
  BY <1>1, <1>4
<1> QED BY <1>2, <1>5, <1>6 DEF ZoneCount

(* The zones that are cut along either curve are balanced. *)
LEMMA PartitionBalanced ==
    ASSUME AddressableRow(parcels), people \in Nat \ {0}, ZoneCount <= Count,
           NEW curve \in {[k \in Blocks |-> k], [k \in Blocks |-> Count + 1 - k]}
    PROVE  Balanced(DOMAIN parcels, Partition(curve))
<1>1. PICK n \in Nat, k \in Nat \ {0} : n = Count /\ k = ZoneCount /\ k <= n
  BY ZoneCountIsNumber DEF Count, AddressableRow
<1>2. PICK q \in Nat, r \in Nat : q = n \div k /\ r = n % k /\ k * q + r = n /\ r <= k
  <2>1. n \div k \in Int /\ n % k \in 0 .. k - 1 /\ n = k * (n \div k) + (n % k)
    BY Division
  <2>2. n \div k \in Nat
    OBVIOUS
  <2> QED BY <2>1, <2>2
<1>3. Blocks = 1 .. n /\ DOMAIN parcels = 1 .. n
  BY <1>1 DEF Blocks, Count, AddressableRow
<1>4. curve \in Bijection(1 .. n, 1 .. n)
  <2>1. curve \in [1 .. n -> 1 .. n] /\ \A i, j \in 1 .. n : curve[i] = curve[j] => i = j
    BY <1>1, <1>3
  <2>2. ASSUME NEW b \in 1 .. n PROVE \E j \in 1 .. n : curve[j] = b
    <3>1. CASE curve = [j \in Blocks |-> j]
      BY <1>3, <3>1
    <3>2. CASE curve = [j \in Blocks |-> Count + 1 - j]
      <4>1. n + 1 - b \in 1 .. n /\ curve[n + 1 - b] = n + 1 - (n + 1 - b)
        BY <1>1, <1>3, <3>2
      <4> QED BY <4>1
    <3> QED BY <3>1, <3>2
  <2> QED BY <2>1, <2>2 DEF Bijection, Injection, Surjection, IsInjective
<1> DEFINE size == [z \in 1 .. ZoneCount |->
                       (Count \div ZoneCount) + IF z <= Count % ZoneCount THEN 1 ELSE 0]
           cut == Partition(curve)
<1>5. size = RunLengths(q, r, k)
  BY <1>1, <1>2 DEF RunLengths
<1>6. cut = [z \in 1 .. ZoneCount |->
                {curve[j] : j \in SumFunctionOnSet(size, 1 .. z - 1) + 1
                                  .. SumFunctionOnSet(size, 1 .. z - 1) + size[z]}]
  BY DEF Partition
<1> HIDE DEF size, cut
<1>7. ASSUME NEW z \in 1 .. k
      PROVE  cut[z] = {curve[j] : j \in Covered(q, r, z - 1) + 1 .. Covered(q, r, z)}
  <2>1. PICK m \in Nat : m = z - 1 /\ z = m + 1 /\ m <= k
    OBVIOUS
  <2>2. SumFunctionOnSet(size, 1 .. m) = SumOn(size, 1 .. m)
    BY DEF SumFunctionOnSet, FoldFunctionOnSet, SumOn, MapThenSumSet
  <2>3. SumOn(size, 1 .. m) = Covered(q, r, m)
    BY <1>5, <2>1, CoveredIsSum
  <2>4. size[z] = q + IF m + 1 <= r THEN 1 ELSE 0
    BY <1>5, <2>1 DEF RunLengths
  <2>5. Covered(q, r, m) \in Nat /\ Covered(q, r, m) + size[z] = Covered(q, r, z)
    <3>1. /\ Covered(q, r, m) \in Nat
          /\ Covered(q, r, m + 1) = Covered(q, r, m) + q + IF m + 1 <= r THEN 1 ELSE 0
      BY CoveredStep
    <3> QED BY <2>1, <2>4, <3>1
  <2> QED BY <1>1, <1>6, <2>1, <2>2, <2>3, <2>5
<1>8. cut = CutAlong(curve, q, r, k)
  BY <1>1, <1>6, <1>7 DEF CutAlong
<1>9. Balanced(1 .. n, CutAlong(curve, q, r, k))
  BY <1>2, <1>4, RunsBalanced
<1> QED BY <1>3, <1>8, <1>9 DEF cut

-----------------------------------------------------------------------------
(* Points of interest and the owners of nodes.                             *)
OfKind(po, c) == {x \in po : x.kind = c}
HeldIn(po, c) == SumOn([p \in OfKind(po, c) |-> p.capacity], OfKind(po, c))
PlacesOf(S, zo, sh) ==
    UNION {{[kind |-> c, block |-> b, zone |-> zo[b], capacity |-> sh[c][b]] :
                b \in {x \in S : sh[c][x] > 0}} :
           c \in Channels}

(* The points of interest of a channel hold what its blocks do. *)
LEMMA PlacesHold ==
    ASSUME NEW S, IsFiniteSet(S), NEW zo, NEW sh, NEW c \in Channels,
           \A b \in S : sh[c][b] \in Nat
    PROVE  HeldIn(PlacesOf(S, zo, sh), c) = SumOn(sh[c], S)
<1> DEFINE po == PlacesOf(S, zo, sh)
           P == {x \in S : sh[c][x] > 0}
           R == OfKind(po, c)
           h == [p \in R |-> p.capacity]
           g == [b \in P |-> [kind |-> c, block |-> b, zone |-> zo[b], capacity |-> sh[c][b]]]
<1>1. R = {[kind |-> c, block |-> b, zone |-> zo[b], capacity |-> sh[c][b]] : b \in P}
  <2>1. ASSUME NEW p \in R PROVE \E b \in P : p = [kind |-> c, block |-> b, zone |-> zo[b], capacity |-> sh[c][b]]
    <3>1. p.kind = c /\ p \in po
      BY <2>1 DEF OfKind
    <3>2. PICK d \in Channels : \E b \in {x \in S : sh[d][x] > 0} :
             p = [kind |-> d, block |-> b, zone |-> zo[b], capacity |-> sh[d][b]]
      BY <3>1 DEF PlacesOf
    <3>3. d = c
      BY <3>1, <3>2
    <3> QED BY <3>2, <3>3
  <2>2. ASSUME NEW b \in P
        PROVE  [kind |-> c, block |-> b, zone |-> zo[b], capacity |-> sh[c][b]] \in R
    BY DEF OfKind, PlacesOf
  <2> QED BY <2>1, <2>2
<1>2. g \in Bijection(P, R)
  <2>1. g \in [P -> R]
    BY <1>1
  <2>2. \A a, b \in P : g[a] = g[b] => a = b
    <3> SUFFICES ASSUME NEW a \in P, NEW b \in P, g[a] = g[b] PROVE a = b
      OBVIOUS
    <3>1. g[a].block = a /\ g[b].block = b
      OBVIOUS
    <3> QED BY <3>1
  <2>3. \A p \in R : \E b \in P : g[b] = p
    BY <1>1
  <2> HIDE DEF g, R, P
  <2> QED BY <2>1, <2>2, <2>3 DEF Bijection, Injection, Surjection, IsInjective
<1>3. \A b \in P : g[b] \in R /\ g[b].capacity = sh[c][b]
  BY <1>1
<1>4. \A b \in P : sh[c][b] = h[g[b]]
  BY <1>3
<1>5. \A p \in R : h[p] \in Int
  <2> SUFFICES ASSUME NEW p \in R PROVE p.capacity \in Int
    OBVIOUS
  <2>1. PICK b \in P : p = g[b]
    BY <1>1
  <2> QED BY <1>3, <2>1
<1>6. IsFiniteSet(P) /\ P \in SUBSET S
  BY FS_Subset
<1>7. \A b \in S : sh[c][b] \in Int /\ (b \notin P => sh[c][b] = 0)
  OBVIOUS
<1>8. PICK f : f = sh[c]
  OBVIOUS
<1> HIDE DEF P, R, h, g
<1>9. SumOn(f, P) = SumOn(h, R)
  <2>1. \A b \in P : f[b] = h[g[b]]
    BY <1>4, <1>8
  <2> QED BY <1>2, <1>5, <1>6, <2>1, SumAlong
<1>10. SumOn(f, S) = SumOn(f, P)
  <2>1. (\A b \in S : f[b] \in Int) /\ (\A b \in S \ P : f[b] = 0)
    BY <1>7, <1>8
  <2> QED BY <1>6, <2>1, SumSupport
<1> QED BY <1>8, <1>9, <1>10 DEF HeldIn, h, R, po

ZoneIn(zs, b) == CHOOSE z \in DOMAIN zs : b \in zs[z]
OwnedAround(ps, zs, ow) ==
    \A n \in UNION {ps[b].access : b \in DOMAIN ps} :
        ow[n] \in {ZoneIn(zs, b) : b \in {x \in DOMAIN ps : n \in ps[x].access}}

(* Every node that a block is entered from goes with such a block. *)
LEMMA OwnersAround ==
    ASSUME AddressableRow(parcels), Entered \subseteq NetworkNodes
    PROVE  OwnedAround(parcels, zones, [n \in NetworkNodes |-> OwnerOf(n)])
<1> DEFINE ow == [n \in NetworkNodes |-> OwnerOf(n)]
<1> SUFFICES ASSUME NEW n \in Entered
             PROVE  ow[n] \in {ZoneIn(zones, b) : b \in {x \in DOMAIN parcels : n \in parcels[x].access}}
  BY DEF OwnedAround, Entered, Blocks
<1> DEFINE around == {b \in Blocks : n \in parcels[b].access}
<1>1. around # {}
  BY DEF Entered
<1>2. around \subseteq Nat
  <2>1. Len(parcels) \in Nat /\ DOMAIN parcels = 1 .. Len(parcels)
    BY DEF AddressableRow
  <2> QED BY <2>1 DEF Blocks
<1>3. \E x \in around : \A y \in around : x <= y
  BY <1>1, <1>2, LeastExists
<1>4. Min(around) \in around
  BY <1>3 DEF Min
<1>5. ow[n] = ZoneOf(Min(around))
  BY DEF OwnerOf, OwnerOfEntered
<1>6. \A b : ZoneOf(b) = ZoneIn(zones, b)
  BY DEF ZoneOf, ZoneIn
<1> QED BY <1>4, <1>5, <1>6 DEF Blocks

-----------------------------------------------------------------------------
(* The invariant of the derivation.                                        *)
Finite == IsFiniteSet(built) /\ IsFiniteSet(boundaries) /\ IsFiniteSet(faces) /\ IsFiniteSet(blocks)

LandInv ==
    /\ Finite
    /\ allocation \in {"number", "classify", "apportion", "partition", "own", "derived", "refused"}
    /\ allocation \in {"classify", "apportion", "partition", "own", "derived"} =>
        AddressableRow(parcels) /\ Graded(parcels, land) /\ people \in Nat \ {0}
    /\ allocation \in {"apportion", "partition", "own", "derived"} =>
        uses \in [DOMAIN parcels -> AllUses] /\ ApartIn(parcels, uses)
    /\ allocation \in {"partition", "own", "derived"} => Fair(parcels, land, uses, people, shares)
    /\ allocation \in {"own", "derived"} => Balanced(DOMAIN parcels, zones)
    /\ allocation = "derived" =>
        /\ OwnedAround(parcels, zones, owner)
        /\ \A c \in Channels : HeldIn(pois, c) = SumOn(shares[c], DOMAIN parcels)

(* The construction of the blocks keeps them finitely many. *)
LEMMA FacesStayFinite ==
    ASSUME Finite, FacesNext PROVE Finite'
<1> USE DEF Finite
<1>1. CASE Trace
  <2> DEFINE f == [h \in HalfEdges |-> BoundaryOf(h)]
  <2>1. IsFiniteSet(HalfEdges)
    <3>1. IsFiniteSet(Embedded)
      BY FS_Subset DEF Embedded
    <3>2. IsFiniteSet(BOOLEAN)
      <4>1. IsFiniteSet({TRUE}) /\ IsFiniteSet({FALSE})
        BY FS_Singleton
      <4>2. IsFiniteSet({TRUE} \cup {FALSE})
        BY <4>1, FS_Union
      <4>3. BOOLEAN = {TRUE} \cup {FALSE}
        OBVIOUS
      <4> QED BY <4>2, <4>3
    <3> QED BY <3>1, <3>2, FS_Product DEF HalfEdges
  <2>2. Boundaries = {f[h] : h \in HalfEdges} /\ DOMAIN f = HalfEdges
    BY DEF Boundaries
  <2> HIDE DEF f
  <2>3. IsFiniteSet(Boundaries)
    BY <2>1, <2>2, ImageFinite
  <2> QED BY <1>1, <2>3 DEF Trace
<1>2. CASE Group
  <2> DEFINE S == Outers
             f == [o \in S |-> WithRole([outer |-> o, holes |-> HolesOf(o)])]
             T == {WithRole(g) : g \in GroupedFaces}
  <2>1. IsFiniteSet(S)
    BY FS_Subset DEF Outers
  <2>2. T = {f[x] : x \in S} /\ DOMAIN f = S
    BY DEF GroupedFaces
  <2>3. faces' = T /\ UNCHANGED <<built, boundaries, blocks>>
    BY <1>2 DEF Group
  <2> HIDE DEF S, f, T
  <2>4. IsFiniteSet(T)
    BY <2>1, <2>2, ImageFinite
  <2> QED BY <2>3, <2>4
<1>3. CASE Emit
  <2> DEFINE S == {x \in faces : x.role = "developable"}
             f == [x \in S |-> BlockOf(x)]
  <2>1. IsFiniteSet(S)
    BY FS_Subset
  <2> DEFINE T == {BlockOf(x) : x \in S}
  <2>2. T = {f[x] : x \in S} /\ DOMAIN f = S
    OBVIOUS
  <2>3. blocks' = T /\ UNCHANGED <<built, boundaries, faces>>
    BY <1>3 DEF Emit
  <2> HIDE DEF f, S, T
  <2>4. IsFiniteSet(T)
    BY <2>1, <2>2, ImageFinite
  <2> QED BY <2>3, <2>4
<1>4. CASE Embed \/ RefuseGeometry \/ RefuseCarrier \/ RefuseVoids \/ Certify
  BY <1>4 DEF Embed, RefuseGeometry, RefuseCarrier, RefuseVoids, Certify, Refuse
<1> QED BY <1>1, <1>2, <1>3, <1>4 DEF FacesNext

(* The blocks in either order are a row of them. *)
LEMMA BlocksInOrder ==
    ASSUME NEW S, IsFiniteSet(S), NEW ps \in {SetToSeq(S), Reverse(SetToSeq(S))}
    PROVE  /\ DOMAIN ps = 1 .. Len(ps) /\ Len(ps) \in Nat /\ Len(ps) = Cardinality(S)
           /\ \A b \in DOMAIN ps : ps[b] \in S
<1>1. PICK n \in Nat : n = Cardinality(S)
  BY FS_CardinalityType
<1>2. \E f \in [1 .. n -> S] : IsInjective(f)
  <2>1. ExistsBijection(1 .. n, S)
    BY <1>1, FS_CardinalityType
  <2> QED BY <2>1 DEF ExistsBijection, Bijection, Injection
<1>3. SetToSeq(S) \in [1 .. n -> S]
  BY <1>1, <1>2 DEF SetToSeq
<1>4. PICK s \in [1 .. n -> S] : s = SetToSeq(S)
  BY <1>3
<1>5. s \in Seq(S) /\ Len(s) = n
  OBVIOUS
<1>6. Reverse(s) \in [1 .. n -> S]
  BY <1>5 DEF Reverse
<1>7. ps \in [1 .. n -> S]
  BY <1>4, <1>6
<1>8. ps \in Seq(S) /\ Len(ps) = n
  BY <1>7
<1> QED BY <1>1, <1>7, <1>8

(* A derivation starts with a finite network and nothing allocated. *)
THEOREM LandInit == FacesInit /\ AllocationInit => LandInv
<1> SUFFICES ASSUME FacesInit, AllocationInit PROVE LandInv
  OBVIOUS
<1>1. IsFiniteSet(built)
  BY FacesAssumption, FS_Subset DEF FacesInit
<1>2. Finite
  BY <1>1, FS_EmptySet DEF Finite, FacesInit, FacesStart
<1> QED BY <1>2 DEF LandInv, AllocationInit

(* Numbering, classifying, apportioning, zoning and populating each keep   *)
(* the invariant, and so does every refusal.                               *)
THEOREM LandStep == LandInv /\ [CityBuildNext]_cityVars => LandInv'
<1> SUFFICES ASSUME LandInv, [CityBuildNext]_cityVars PROVE LandInv'
  OBVIOUS
<1>1. CASE FacesNext /\ UNCHANGED allocationVars
  BY <1>1, FacesStayFinite DEF LandInv, allocationVars
<1>2. CASE Number
  <2>1. allocation = "number" /\ UNCHANGED <<facesVars, uses, shares, zones, owner, pois>>
    BY <1>2 DEF Number
  <2>2. Finite'
    BY <2>1 DEF LandInv, Finite, facesVars
  <2>3. allocation' \in {"classify", "refused"} /\ (allocation' = "classify" => \A b \in blocks : Addressable(b))
    BY <1>2 DEF Number
  <2>4. allocation' = "classify" => AddressableRow(parcels') /\ Graded(parcels', land') /\ people' \in Nat \ {0}
    <3> SUFFICES ASSUME \A b \in blocks : Addressable(b)
                 PROVE  AddressableRow(parcels') /\ Graded(parcels', land') /\ people' \in Nat \ {0}
      BY <2>3
    <3>1. PICK ps \in {SetToSeq(blocks), Reverse(SetToSeq(blocks))} : ps = parcels'
      BY <1>2 DEF Number
    <3>2. PICK l \in Landscapes : l = land' /\ 1 .. Cardinality(blocks) \subseteq DOMAIN l
      BY <1>2 DEF Number
    <3>3. IsFiniteSet(blocks)
      BY DEF LandInv, Finite
    <3>4. /\ DOMAIN ps = 1 .. Len(ps) /\ Len(ps) \in Nat /\ Len(ps) = Cardinality(blocks)
          /\ \A b \in DOMAIN ps : ps[b] \in blocks
      BY <3>1, <3>3, BlocksInOrder
    <3>5. AddressableRow(ps)
      BY <3>4 DEF AddressableRow
    <3>6. Graded(ps, l)
      BY <3>2, <3>4, AllocationAssumption DEF Graded
    <3>7. people' \in Nat \ {0}
      BY <1>2, AllocationAssumption DEF Number
    <3> QED BY <3>1, <3>2, <3>5, <3>6, <3>7
  <2> QED BY <2>2, <2>3, <2>4 DEF LandInv
<1>3. CASE Classify
  <2>1. /\ allocation = "classify" /\ allocation' = "apportion" /\ uses' = UsesOfLand
        /\ UNCHANGED <<facesVars, parcels, land, people, shares, zones, owner, pois>>
    BY <1>3 DEF Classify
  <2>2. UsesOfLand \in [DOMAIN parcels -> AllUses] /\ ApartIn(parcels, UsesOfLand)
    <3> DEFINE commerce == Best(Blocks, CommercialCount, CommercialScore)
               industry == Best(Blocks \ commerce, IndustrialCount, IndustrialScore)
               rest == Blocks \ (commerce \cup industry)
               mixed == Best(rest, MixedCount, MixedScore)
               converted == Converted(rest \ mixed, industry)
    <3>1. UsesOfLand = [b \in Blocks |->
            IF b \in commerce THEN "commercial" ELSE IF b \in industry THEN "industrial"
            ELSE IF b \in mixed \cup converted THEN "mixed" ELSE "residential"]
      BY DEF UsesOfLand
    <3> HIDE DEF commerce, industry, mixed
    <3>2. UsesOfLand \in [DOMAIN parcels -> AllUses]
      BY <3>1 DEF Blocks, AllUses
    <3>3. ASSUME NEW b \in DOMAIN parcels, NEW c \in DOMAIN parcels,
                 UsesOfLand[b] = "residential", UsesOfLand[c] = "industrial"
          PROVE  ~ Adjacent(b, c)
      <4>1. b \in rest \ mixed /\ b \notin converted
        BY <3>1, <3>3 DEF Blocks
      <4>2. c \in industry
        BY <3>1, <3>3 DEF Blocks
      <4> QED BY <4>1, <4>2 DEF Converted
    <3> QED BY <3>2, <3>3 DEF ApartIn, Adjacent
  <2> QED BY <2>1, <2>2 DEF LandInv, Finite, facesVars
<1>4. CASE Apportion
  <2>1. /\ allocation = "apportion" /\ allocation' = "partition"
        /\ shares' = [c \in Channels |-> Apportioned(c)]
        /\ \A c \in Channels : WithinBounds(c)
        /\ UNCHANGED <<facesVars, parcels, land, people, uses, zones, owner, pois>>
    BY <1>4 DEF Apportion
  <2>2. /\ AddressableRow(parcels) /\ Graded(parcels, land) /\ people \in Nat \ {0}
        /\ uses \in [DOMAIN parcels -> AllUses]
    BY <2>1 DEF LandInv
  <2>3. \A c \in Channels :
          FairFor(Apportioned(c), WeightsOf(parcels, land, uses, c),
                  WholeOf(parcels, land, uses, c), TargetOf(parcels, land, uses, people)[c])
    BY <2>1, <2>2, ApportionedFairly
  <2>4. Fair(parcels, land, uses, people, [c \in Channels |-> Apportioned(c)])
    BY <2>3 DEF Fair
  <2> QED BY <2>1, <2>4 DEF LandInv, Finite, facesVars
<1>5. CASE MakeZones
  <2>1. /\ allocation = "partition" /\ allocation' = "own" /\ ZoneCount <= Count
        /\ UNCHANGED <<facesVars, parcels, land, people, uses, shares, owner, pois>>
    BY <1>5 DEF MakeZones
  <2>2. PICK curve \in {[k \in Blocks |-> k], [k \in Blocks |-> Count + 1 - k]} : zones' = Partition(curve)
    BY <1>5 DEF MakeZones
  <2>3. AddressableRow(parcels) /\ people \in Nat \ {0}
    BY <2>1 DEF LandInv
  <2>4. Balanced(DOMAIN parcels, Partition(curve))
    BY <2>1, <2>3, PartitionBalanced
  <2> QED BY <2>1, <2>2, <2>4 DEF LandInv, Finite, facesVars
<1>6. CASE Populate
  <2>1. /\ allocation = "own" /\ allocation' \in {"derived", "refused"}
        /\ allocation' = "derived" => Entered \subseteq NetworkNodes
        /\ owner' = [n \in NetworkNodes |-> OwnerOf(n)] /\ pois' = Aggregated
        /\ UNCHANGED <<facesVars, parcels, land, people, uses, shares, zones>>
    BY <1>6 DEF Populate
  <2>2. /\ AddressableRow(parcels) /\ Graded(parcels, land) /\ people \in Nat \ {0}
        /\ uses \in [DOMAIN parcels -> AllUses] /\ Fair(parcels, land, uses, people, shares)
    BY <2>1 DEF LandInv
  <2>3. allocation' = "derived" => OwnedAround(parcels, zones, [n \in NetworkNodes |-> OwnerOf(n)])
    BY <2>1, <2>2, OwnersAround
  <2>4. ASSUME NEW c \in Channels
        PROVE  HeldIn(Aggregated, c) = SumOn(shares[c], DOMAIN parcels)
    <3> DEFINE zo == [b \in Blocks |-> ZoneOf(b)]
    <3>1. Aggregated = PlacesOf(DOMAIN parcels, zo, shares)
      BY DEF Aggregated, PlacesOf, Blocks
    <3> HIDE DEF zo
    <3>2. IsFiniteSet(DOMAIN parcels)
      BY <2>2, WeightsAreNumbers
    <3>3. \A b \in DOMAIN parcels : shares[c][b] \in Nat
      BY <2>2 DEF Fair, FairFor, WeightsOf
    <3>4. HeldIn(PlacesOf(DOMAIN parcels, zo, shares), c) = SumOn(shares[c], DOMAIN parcels)
      BY <3>2, <3>3, PlacesHold
    <3> QED BY <3>1, <3>4
  <2>5. \A c \in Channels : HeldIn(pois', c) = SumOn(shares'[c], DOMAIN parcels')
    BY <2>1, <2>4
  <2>6. allocation' = "derived" => OwnedAround(parcels', zones', owner')
    BY <2>1, <2>3
  <2> QED BY <2>1, <2>5, <2>6 DEF LandInv, Finite, facesVars
<1>7. CASE RefuseUses \/ RefuseTarget \/ RefuseZones
  BY <1>7 DEF RefuseUses, RefuseTarget, RefuseZones, RefuseAllocation, LandInv, Finite, facesVars
<1>8. CASE UNCHANGED cityVars
  BY <1>8 DEF cityVars, facesVars, allocationVars, LandInv, Finite
<1> QED BY <1>1, <1>2, <1>3, <1>4, <1>5, <1>6, <1>7, <1>8 DEF CityBuildNext, AllocationNext

(* The invariant holds in every state of _derive_scalable_static_authority.*)
THEOREM LandInvariant == CityBuildSpec => []LandInv
<1>1. FacesInit /\ AllocationInit => LandInv
  BY LandInit
<1>2. LandInv /\ [CityBuildNext]_cityVars => LandInv'
  BY LandStep
<1> QED BY <1>1, <1>2, PTL DEF CityBuildSpec

(* The invariant says all that soundness does. *)
LEMMA LandInvSuffices == LandInv => AllocationSound
<1> SUFFICES ASSUME LandInv, allocation = "derived"
             PROVE  /\ SharesFair /\ HousingApart /\ ZonesBalanced
                    /\ \A c \in Channels : Holds(pois, c) = Target[c]
  BY DEF AllocationSound
<1>1. /\ AddressableRow(parcels) /\ uses \in [DOMAIN parcels -> AllUses]
      /\ ApartIn(parcels, uses) /\ Fair(parcels, land, uses, people, shares)
      /\ Balanced(DOMAIN parcels, zones) /\ OwnedAround(parcels, zones, owner)
      /\ \A c \in Channels : HeldIn(pois, c) = SumOn(shares[c], DOMAIN parcels)
  BY DEF LandInv
<1>2. ASSUME NEW c \in Channels
      PROVE  /\ SumFunction(shares[c]) = Target[c] /\ SumOn(shares[c], DOMAIN parcels) = Target[c]
             /\ \A b \in Blocks :
                 /\ Total(c) > 0 =>
                     LET over == shares[c][b] * Total(c) - Target[c] * RawCapacity(b, c)
                     IN  - Total(c) < over /\ over < Total(c)
                 /\ \A d \in Blocks : RawCapacity(b, c) > RawCapacity(d, c) => shares[c][b] >= shares[c][d]
  <2>1. /\ Total(c) = WholeOf(parcels, land, uses, c)
        /\ Target = TargetOf(parcels, land, uses, people)
    BY TotalHere, TargetHere
  <2>2. FairFor(shares[c], WeightsOf(parcels, land, uses, c), Total(c), Target[c])
    BY <1>1, <2>1 DEF Fair
  <2>3. \A b \in Blocks : RawCapacity(b, c) = WeightsOf(parcels, land, uses, c)[b]
    BY DEF RawCapacity, WeightsOf, Blocks
  <2>4. DOMAIN WeightsOf(parcels, land, uses, c) = Blocks
    BY DEF WeightsOf, Blocks
  <2>5. SumFunction(shares[c]) = SumOn(shares[c], DOMAIN shares[c])
    BY SumOfFunction
  <2>6. SumFunction(shares[c]) = Target[c] /\ SumOn(shares[c], DOMAIN parcels) = Target[c]
    BY <2>2, <2>4, <2>5 DEF FairFor, Blocks
  <2> QED BY <2>2, <2>3, <2>4, <2>6 DEF FairFor
<1>3. SharesFair
  BY <1>2 DEF SharesFair
<1>4. HousingApart
  BY <1>1 DEF ApartIn, HousingApart, Adjacent, Blocks
<1>5. ZonesBalanced
  <2>1. ASSUME NEW b \in Blocks PROVE Cardinality({z \in DOMAIN zones : b \in zones[z]}) = 1
    <3>1. PICK z : {y \in DOMAIN zones : b \in zones[y]} = {z}
      BY <1>1 DEF Balanced, Blocks
    <3> QED BY <3>1, FS_Singleton
  <2>2. \A y, z \in DOMAIN zones : Cardinality(zones[y]) <= Cardinality(zones[z]) + 1
    BY <1>1 DEF Balanced
  <2>3. \A b : ZoneOf(b) = ZoneIn(zones, b)
    BY DEF ZoneOf, ZoneIn
  <2>4. \A n \in Entered : owner[n] \in {ZoneOf(b) : b \in {x \in Blocks : n \in parcels[x].access}}
    BY <1>1, <2>3 DEF OwnedAround, Entered, Blocks
  <2> QED BY <2>1, <2>2, <2>4 DEF ZonesBalanced
<1>6. ASSUME NEW c \in Channels PROVE Holds(pois, c) = Target[c]
  <2> DEFINE f == [p \in {q \in pois : q.kind = c} |-> p.capacity]
  <2>1. SumFunction(f) = SumOn(f, DOMAIN f)
    BY SumOfFunction
  <2>2. DOMAIN f = OfKind(pois, c) /\ f = [p \in OfKind(pois, c) |-> p.capacity]
    BY DEF OfKind
  <2>3. Holds(pois, c) = SumFunction(f)
    BY DEF Holds
  <2> HIDE DEF f
  <2>4. Holds(pois, c) = HeldIn(pois, c)
    BY <2>1, <2>2, <2>3 DEF HeldIn
  <2> QED BY <1>1, <1>2, <2>4
<1> QED BY <1>3, <1>4, <1>5, <1>6

(* The land of every city is allocated soundly: the shares of people, jobs *)
(* and leisure add up and are fair, the points of interest hold exactly    *)
(* them, housing is apart from industry, and the zones are balanced.       *)
THEOREM AllocationAlwaysSound == CityBuildSpec => []AllocationSound
<1>1. LandInv => AllocationSound
  BY LandInvSuffices
<1> QED BY <1>1, LandInvariant, PTL
=============================================================================
