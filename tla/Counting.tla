------------------------------- MODULE Counting -------------------------------
(***************************************************************************)
(* Facts about naturals and finite sums, stated without operator parameters*)
(* so that other proofs can cite them: a nonempty set of naturals has a    *)
(* least element, and the sum of a function over a finite set, which the   *)
(* library defines by recursion on an arbitrary choice of elements, is the *)
(* sum that does not depend on the choice.  Then the rank of an element in *)
(* an order, the greatest element and the image of a finite set, and       *)
(* division and products of integers.                                      *)
(***************************************************************************)
EXTENDS Integers, FiniteSetsExt, FiniteSetTheorems, WellFoundedInduction, TLAPS

(* The well-ordering of the naturals. *)
LEMMA LeastExists ==
    ASSUME NEW S, S \subseteq Nat, S # {}
    PROVE  \E x \in S : \A y \in S : x <= y
<1> DEFINE Less == {pair \in Nat \X Nat : pair[1] < pair[2]}
<1>1. IsWellFoundedOn(Less, Nat)
  BY NatLessThanWellFounded DEF OpToRel
<1>2. \A x, y \in S : y < x => <<y, x>> \in Less
  OBVIOUS
<1>3. \A x, y \in S : x <= y \/ y < x
  OBVIOUS
<1> HIDE DEF Less
<1>4. \E x \in S : \A y \in S : <<y, x>> \notin Less
  BY <1>1, WFMin
<1>5. QED
  BY ONLY <1>2, <1>3, <1>4

(* Among the subsets of a finite set with some property, one is smallest. *)
LEMMA SmallestExists ==
    ASSUME NEW S, IsFiniteSet(S), NEW Bad, Bad \subseteq SUBSET S, Bad # {}
    PROVE  \E T \in Bad : \A U \in Bad : Cardinality(T) <= Cardinality(U)
<1> DEFINE sizes == {Cardinality(T) : T \in Bad}
<1>1. sizes \subseteq Nat /\ sizes # {}
  BY FS_Subset, FS_CardinalityType
<1>2. PICK n \in sizes : \A k \in sizes : n <= k
  BY <1>1, LeastExists
<1> QED BY <1>2

-----------------------------------------------------------------------------
(* The sum of the values of f on S. *)
SumOn(f, S) == MapThenSumSet(LAMBDA x : f[x], S)

(* The recursion behind the library's fold. *)
Picked(S) == CHOOSE x \in S : TRUE
SumStep(f, g, T) == IF T = {} THEN 0 ELSE f[Picked(T)] + g[T \ {Picked(T)}]
Sums(f, S) == CHOOSE g : g = [T \in SUBSET S |-> SumStep(f, g, T)]

(* The library's fold is this recursion. *)
LEMMA SumIsFold == ASSUME NEW f, NEW S PROVE SumOn(f, S) = Sums(f, S)[S]
BY DEF SumOn, Sums, SumStep, MapThenSumSet, MapThenFoldSet, Picked

(* Removing the chosen element makes a set smaller. *)
LEMMA FirstRemoved ==
    ASSUME NEW S, IsFiniteSet(S), NEW T \in SUBSET S, T # {}
    PROVE  /\ Picked(T) \in T /\ T \ {Picked(T)} \in SUBSET S
           /\ Cardinality(T) \in Nat \ {0}
           /\ Cardinality(T \ {Picked(T)}) = Cardinality(T) - 1
<1>1. Picked(T) \in T
  BY DEF Picked
<1>2. IsFiniteSet(T) /\ Cardinality(T) \in Nat
  BY FS_Subset, FS_CardinalityType
<1> QED BY <1>1, <1>2, FS_RemoveElement, FS_EmptySet

(* The recursion has a solution on the subsets of a finite set. *)
LEMMA SumsExist ==
    ASSUME NEW f, NEW S, IsFiniteSet(S)
    PROVE  \E g : g = [T \in SUBSET S |-> SumStep(f, g, T)]
<1> DEFINE upTo(n) == {T \in SUBSET S : Cardinality(T) <= n}
           solves(g, n) == g = [T \in upTo(n) |-> SumStep(f, g, T)]
           unsolved == {n \in Nat : ~ \E g : solves(g, n)}
<1>1. \A T \in SUBSET S : IsFiniteSet(T) /\ Cardinality(T) \in Nat
  BY FS_Subset, FS_CardinalityType
<1>2. unsolved = {}
  <2> SUFFICES ASSUME unsolved # {} PROVE FALSE
    OBVIOUS
  <2>1. PICK n \in unsolved : \A k \in unsolved : n <= k
    BY LeastExists
  <2>2. n # 0
    <3>1. solves([T \in upTo(0) |-> 0], 0)
      <4>1. \A T \in upTo(0) : T = {}
        BY <1>1, FS_EmptySet
      <4> QED BY <4>1 DEF SumStep
    <3> QED BY <2>1, <3>1
  <2>3. n - 1 \in Nat /\ n - 1 \notin unsolved
    <3>1. n \in Nat
      OBVIOUS
    <3> HIDE DEF unsolved
    <3> QED BY <2>1, <2>2, <3>1
  <2>4. PICK g : solves(g, n - 1)
    BY <2>3
  <2> DEFINE h == [T \in upTo(n) |-> SumStep(f, g, T)]
  <2>5. ASSUME NEW T \in upTo(n) PROVE SumStep(f, g, T) = SumStep(f, h, T)
    <3>1. CASE T = {}
      BY <3>1 DEF SumStep
    <3>2. CASE T # {}
      <4> DEFINE rest == T \ {Picked(T)}
      <4>1. rest \in upTo(n - 1) /\ rest \in upTo(n)
        BY <2>3, <3>2, FirstRemoved, <1>1
      <4>2. g[rest] = SumStep(f, g, rest) /\ h[rest] = SumStep(f, g, rest)
        BY <2>4, <4>1
      <4> QED BY <3>2, <4>2 DEF SumStep
    <3> QED BY <3>1, <3>2
  <2>6. solves(h, n)
    BY <2>5
  <2> QED BY <2>1, <2>6
<1>3. upTo(Cardinality(S)) = SUBSET S
  BY <1>1, FS_Subset
<1>4. Cardinality(S) \in Nat
  BY FS_CardinalityType
<1>5. PICK g : solves(g, Cardinality(S))
  BY <1>2, <1>4
<1>6. g = [T \in SUBSET S |-> SumStep(f, g, T)]
  <2> HIDE DEF upTo
  <2> QED BY <1>3, <1>5
<1> QED BY <1>6

(* Two such solutions agree where the functions they sum do. *)
LEMMA SumsAgree ==
    ASSUME NEW f, NEW h, NEW S, NEW R, IsFiniteSet(S), IsFiniteSet(R),
           NEW T \in SUBSET (S \cap R), \A x \in T : f[x] = h[x]
    PROVE  Sums(f, S)[T] = Sums(h, R)[T]
<1> DEFINE bad == {U \in SUBSET T : Sums(f, S)[U] # Sums(h, R)[U]}
<1>1. /\ Sums(f, S) = [U \in SUBSET S |-> SumStep(f, Sums(f, S), U)]
      /\ Sums(h, R) = [U \in SUBSET R |-> SumStep(h, Sums(h, R), U)]
  BY SumsExist DEF Sums
<1>2. bad = {}
  <2> SUFFICES ASSUME bad # {} PROVE FALSE
    OBVIOUS
  <2>1. IsFiniteSet(T)
    BY FS_Subset
  <2>2. PICK U \in bad : \A V \in bad : Cardinality(U) <= Cardinality(V)
    BY <2>1, SmallestExists
  <2>3. /\ Sums(f, S)[U] = SumStep(f, Sums(f, S), U)
        /\ Sums(h, R)[U] = SumStep(h, Sums(h, R), U)
    BY <1>1
  <2>4. U # {}
    BY <2>3 DEF SumStep
  <2> DEFINE rest == U \ {Picked(U)}
  <2>5. Picked(U) \in U /\ rest \in SUBSET T /\ Cardinality(U) \in Nat /\ Cardinality(rest) = Cardinality(U) - 1
    BY <2>1, <2>4, FirstRemoved
  <2>6. rest \notin bad
    <3> HIDE DEF bad, rest
    <3> QED BY <2>2, <2>5
  <2>7. Sums(f, S)[rest] = Sums(h, R)[rest]
    BY <2>5, <2>6
  <2> QED BY <2>3, <2>4, <2>5, <2>7 DEF SumStep
<1> QED BY <1>2

(* The sum over a set takes only the values on the set into account. *)
LEMMA SumCongruence ==
    ASSUME NEW f, NEW h, NEW S, IsFiniteSet(S), \A x \in S : f[x] = h[x]
    PROVE  SumOn(f, S) = SumOn(h, S)
BY SumsAgree, SumIsFold

(* The sum, one element at a time. *)
LEMMA SumUnfold ==
    ASSUME NEW f, NEW S, IsFiniteSet(S)
    PROVE  SumOn(f, S) = IF S = {} THEN 0 ELSE f[Picked(S)] + SumOn(f, S \ {Picked(S)})
<1>1. Sums(f, S) = [U \in SUBSET S |-> SumStep(f, Sums(f, S), U)]
  BY SumsExist DEF Sums
<1>2. Sums(f, S)[S] = SumStep(f, Sums(f, S), S)
  BY <1>1
<1>3. CASE S # {}
  <2> DEFINE rest == S \ {Picked(S)}
  <2>1. rest \in SUBSET S /\ IsFiniteSet(rest)
    BY FS_RemoveElement
  <2>2. Sums(f, S)[rest] = Sums(f, rest)[rest]
    BY <2>1, SumsAgree
  <2> QED BY <1>2, <1>3, <2>2, SumIsFold DEF SumStep
<1> QED BY <1>2, <1>3, SumIsFold DEF SumStep

(* The sum of integers is an integer, of nonnegative ones nonnegative, and *)
(* of zeros zero.                                                          *)
LEMMA SumType ==
    ASSUME NEW f, NEW S, IsFiniteSet(S), \A x \in S : f[x] \in Int
    PROVE  /\ SumOn(f, S) \in Int
           /\ (\A x \in S : f[x] >= 0) => SumOn(f, S) >= 0
           /\ (\A x \in S : f[x] = 0) => SumOn(f, S) = 0
<1> DEFINE ok(T) == /\ SumOn(f, T) \in Int
                    /\ (\A x \in S : f[x] >= 0) => SumOn(f, T) >= 0
                    /\ (\A x \in S : f[x] = 0) => SumOn(f, T) = 0
           bad == {T \in SUBSET S : ~ ok(T)}
<1>1. bad = {}
  <2> SUFFICES ASSUME bad # {} PROVE FALSE
    OBVIOUS
  <2>1. PICK T \in bad : \A U \in bad : Cardinality(T) <= Cardinality(U)
    BY SmallestExists
  <2>2. SumOn(f, T) = IF T = {} THEN 0 ELSE f[Picked(T)] + SumOn(f, T \ {Picked(T)})
    BY FS_Subset, SumUnfold
  <2>3. T # {}
    BY <2>2
  <2> DEFINE rest == T \ {Picked(T)}
  <2>4. Picked(T) \in T /\ rest \in SUBSET S /\ Cardinality(T) \in Nat /\ Cardinality(rest) = Cardinality(T) - 1
    BY <2>3, FirstRemoved
  <2>5. rest \notin bad
    <3> HIDE DEF bad, rest
    <3> QED BY <2>1, <2>4
  <2>6. ok(rest)
    BY <2>4, <2>5
  <2> QED BY <2>2, <2>3, <2>4, <2>6
<1> QED BY <1>1

(* The sum does not depend on the order: any element may be taken out. *)
LEMMA SumRemove ==
    ASSUME NEW f, NEW S, IsFiniteSet(S), \A x \in S : f[x] \in Int, NEW x \in S
    PROVE  SumOn(f, S) = f[x] + SumOn(f, S \ {x})
<1> DEFINE ok(T) == \A y \in T : SumOn(f, T) = f[y] + SumOn(f, T \ {y})
           bad == {T \in SUBSET S : ~ ok(T)}
<1>1. bad = {}
  <2> SUFFICES ASSUME bad # {} PROVE FALSE
    OBVIOUS
  <2>1. PICK T \in bad : \A U \in bad : Cardinality(T) <= Cardinality(U)
    BY SmallestExists
  <2>2. PICK y \in T : SumOn(f, T) # f[y] + SumOn(f, T \ {y})
    OBVIOUS
  <2> DEFINE z == Picked(T)
  <2>3. IsFiniteSet(T) /\ IsFiniteSet(T \ {y}) /\ IsFiniteSet(T \ {z})
    BY FS_Subset
  <2>4. z \in T /\ T \ {z} \in SUBSET S /\ Cardinality(T) \in Nat
    BY FirstRemoved
  <2>5. SumOn(f, T) = f[z] + SumOn(f, T \ {z})
    BY <2>3, SumUnfold
  <2>6. y # z
    BY <2>2, <2>5
  <2>7. T \ {z} \notin bad /\ T \ {y} \notin bad
    <3>1. Cardinality(T \ {z}) = Cardinality(T) - 1 /\ Cardinality(T \ {y}) = Cardinality(T) - 1
      BY <2>3, <2>4, FS_RemoveElement
    <3> HIDE DEF bad
    <3> QED BY <2>1, <2>4, <3>1
  <2>8. /\ SumOn(f, T \ {z}) = f[y] + SumOn(f, T \ {z, y})
        /\ SumOn(f, T \ {y}) = f[z] + SumOn(f, T \ {z, y})
    <3>1. ok(T \ {z}) /\ ok(T \ {y})
      BY <2>4, <2>7
    <3>2. (T \ {z}) \ {y} = T \ {z, y} /\ (T \ {y}) \ {z} = T \ {z, y}
      OBVIOUS
    <3>3. y \in T \ {z} /\ z \in T \ {y}
      BY <2>4, <2>6
    <3> HIDE DEF z
    <3> QED BY <3>1, <3>2, <3>3
  <2>9. SumOn(f, T \ {z, y}) \in Int /\ f[y] \in Int /\ f[z] \in Int
    BY <2>4, FS_Subset, SumType
  <2> HIDE DEF z, ok, bad
  <2> QED BY <2>2, <2>5, <2>8, <2>9
<1> QED BY <1>1

(* Changing the function at one place changes the sums over that place. *)
LEMMA SumUpdate ==
    ASSUME NEW D, NEW f \in [D -> Int], NEW h \in [D -> Int], NEW x \in D,
           \A y \in D \ {x} : h[y] = f[y], NEW S \in SUBSET D, IsFiniteSet(S)
    PROVE  /\ x \in S => SumOn(h, S) = SumOn(f, S) - f[x] + h[x]
           /\ x \notin S => SumOn(h, S) = SumOn(f, S)
<1> DEFINE rest == S \ {x}
<1>1. IsFiniteSet(rest) /\ \A y \in rest : f[y] = h[y]
  BY FS_RemoveElement
<1>2. SumOn(f, rest) = SumOn(h, rest) /\ SumOn(f, rest) \in Int
  BY <1>1, SumCongruence, SumType
<1>3. CASE x \notin S
  <2>1. rest = S
    BY <1>3
  <2> QED BY <1>2, <1>3, <2>1
<1>4. CASE x \in S
  <2>1. SumOn(f, S) = f[x] + SumOn(f, rest) /\ SumOn(h, S) = h[x] + SumOn(h, rest)
    BY <1>4, SumRemove
  <2> QED BY <1>2, <1>4, <2>1
<1> QED BY <1>3, <1>4

-----------------------------------------------------------------------------
(* A combination of two functions, and its sum. *)
Combined(j, f, k, g, S) == [x \in S |-> j * f[x] + k * g[x]]

LEMMA SumCombined ==
    ASSUME NEW S, IsFiniteSet(S), NEW f, NEW g, NEW j \in Int, NEW k \in Int,
           \A x \in S : f[x] \in Int, \A x \in S : g[x] \in Int
    PROVE  SumOn(Combined(j, f, k, g, S), S) = j * SumOn(f, S) + k * SumOn(g, S)
<1>1. \A x \in S : f[x] \in Int /\ g[x] \in Int /\ Combined(j, f, k, g, S)[x] = j * f[x] + k * g[x]
  BY DEF Combined
<1> DEFINE h == Combined(j, f, k, g, S)
<1>2. \A x \in S : f[x] \in Int /\ g[x] \in Int /\ h[x] = j * f[x] + k * g[x]
  BY <1>1
<1> HIDE DEF h
<1> DEFINE ok(T) == SumOn(h, T) = j * SumOn(f, T) + k * SumOn(g, T)
           bad == {T \in SUBSET S : ~ ok(T)}
<1>6. bad = {}
  <2> SUFFICES ASSUME bad # {} PROVE FALSE
    OBVIOUS
  <2>1. PICK T \in bad : \A U \in bad : Cardinality(T) <= Cardinality(U)
    BY SmallestExists
  <2> DEFINE x == Picked(T)
             rest == T \ {x}
  <2>2. IsFiniteSet(T)
    BY FS_Subset
  <2>3. T # {}
    <3> SUFFICES ASSUME T = {} PROVE FALSE
      OBVIOUS
    <3>1. SumOn(f, {}) = 0 /\ SumOn(g, {}) = 0 /\ SumOn(h, {}) = 0
      BY FS_EmptySet, SumUnfold
    <3> QED BY <3>1
  <2>4. x \in T /\ rest \in SUBSET S /\ Cardinality(T) \in Nat /\ Cardinality(rest) = Cardinality(T) - 1
    BY <2>3, FirstRemoved
  <2>5. IsFiniteSet(rest)
    BY <2>4, FS_Subset
  <2>6. ok(rest)
    <3> HIDE DEF ok, rest
    <3> QED BY <2>1, <2>4
  <2>7. /\ SumOn(f, T) = f[x] + SumOn(f, rest) /\ SumOn(g, T) = g[x] + SumOn(g, rest)
        /\ SumOn(h, T) = h[x] + SumOn(h, rest)
    BY <2>2, <2>3, SumUnfold
  <2>8. SumOn(f, rest) \in Int /\ SumOn(g, rest) \in Int
    BY <2>4, <2>5, SumType
  <2>9. f[x] \in Int /\ g[x] \in Int /\ h[x] = j * f[x] + k * g[x]
    BY <1>2, <2>4
  <2> DEFINE a == SumOn(f, rest)
             b == SumOn(g, rest)
             c == SumOn(h, rest)
             fx == f[x]
             gx == g[x]
             hx == h[x]
  <2>10. c = j * a + k * b /\ a \in Int /\ b \in Int /\ fx \in Int /\ gx \in Int /\ hx = j * fx + k * gx
    BY <2>6, <2>8, <2>9
  <2>11. ~ (hx + c = j * (fx + a) + k * (gx + b))
    BY <2>1, <2>7
  <2> HIDE DEF a, b, c, fx, gx, hx
  <2> QED BY <2>10, <2>11
<1>7. SumOn(h, S) = j * SumOn(f, S) + k * SumOn(g, S)
  BY <1>6
<1> QED BY <1>7 DEF h

(* The sum of sums, and of multiples. *)
Added(f, g, S) == [x \in S |-> f[x] + g[x]]
Scaled(k, f, S) == [x \in S |-> k * f[x]]

LEMMA SumAdded ==
    ASSUME NEW S, IsFiniteSet(S), NEW f, NEW g,
           \A x \in S : f[x] \in Int, \A x \in S : g[x] \in Int
    PROVE  SumOn(Added(f, g, S), S) = SumOn(f, S) + SumOn(g, S)
<1> DEFINE one == 1
<1>1. one \in Int
  OBVIOUS
<1>2. \A x \in S : Added(f, g, S)[x] = Combined(one, f, one, g, S)[x]
  BY DEF Added, Combined
<1> HIDE DEF one
<1>3. SumOn(Combined(one, f, one, g, S), S) = one * SumOn(f, S) + one * SumOn(g, S)
  BY <1>1, SumCombined
<1>4. SumOn(Added(f, g, S), S) = SumOn(Combined(one, f, one, g, S), S)
  BY <1>2, SumCongruence
<1>5. SumOn(f, S) \in Int /\ SumOn(g, S) \in Int
  BY SumType
<1> QED BY <1>3, <1>4, <1>5 DEF one

LEMMA SumScaled ==
    ASSUME NEW S, IsFiniteSet(S), NEW f, NEW k \in Int, \A x \in S : f[x] \in Int
    PROVE  SumOn(Scaled(k, f, S), S) = k * SumOn(f, S)
<1> DEFINE zero == 0
<1>1. zero \in Int
  OBVIOUS
<1>2. \A x \in S : Scaled(k, f, S)[x] = Combined(k, f, zero, f, S)[x]
  BY DEF Scaled, Combined
<1> HIDE DEF zero
<1>3. SumOn(Combined(k, f, zero, f, S), S) = k * SumOn(f, S) + zero * SumOn(f, S)
  BY <1>1, SumCombined
<1>4. SumOn(Scaled(k, f, S), S) = SumOn(Combined(k, f, zero, f, S), S)
  BY <1>2, SumCongruence
<1>5. SumOn(f, S) \in Int
  BY SumType
<1> QED BY <1>3, <1>4, <1>5 DEF zero

(* A greater function has the greater sum. *)
LEMMA SumMonotone ==
    ASSUME NEW S, IsFiniteSet(S), NEW f, NEW g,
           \A x \in S : f[x] \in Int /\ g[x] \in Int /\ f[x] <= g[x]
    PROVE  SumOn(f, S) <= SumOn(g, S)
<1> DEFINE more == [x \in S |-> g[x] - f[x]]
<1>1. \A x \in S : more[x] \in Int /\ more[x] >= 0
  OBVIOUS
<1>2. \A x \in S : f[x] \in Int /\ more[x] \in Int /\ g[x] = Added(f, more, S)[x]
  BY DEF Added
<1> HIDE DEF more
<1>3. SumOn(more, S) \in Int /\ SumOn(more, S) >= 0 /\ SumOn(f, S) \in Int
  BY <1>1, <1>2, SumType
<1>4. SumOn(Added(f, more, S), S) = SumOn(f, S) + SumOn(more, S)
  BY <1>2, SumAdded
<1>5. SumOn(g, S) = SumOn(Added(f, more, S), S)
  BY <1>2, SumCongruence
<1> QED BY <1>3, <1>4, <1>5

(* What is zero does not count. *)
LEMMA SumSupport ==
    ASSUME NEW S, IsFiniteSet(S), NEW f, \A x \in S : f[x] \in Int,
           NEW P \in SUBSET S, \A x \in S \ P : f[x] = 0
    PROVE  SumOn(f, S) = SumOn(f, P)
<1> DEFINE ok(T) == SumOn(f, T) = SumOn(f, T \cap P)
           bad == {T \in SUBSET S : ~ ok(T)}
<1>1. bad = {}
  <2> SUFFICES ASSUME bad # {} PROVE FALSE
    OBVIOUS
  <2>1. PICK T \in bad : \A U \in bad : Cardinality(T) <= Cardinality(U)
    BY SmallestExists
  <2> DEFINE x == Picked(T)
             rest == T \ {x}
  <2>2. IsFiniteSet(T)
    BY FS_Subset
  <2>3. T # {}
    OBVIOUS
  <2>4. x \in T /\ rest \in SUBSET S /\ Cardinality(T) \in Nat /\ Cardinality(rest) = Cardinality(T) - 1
    BY <2>3, FirstRemoved
  <2>5. IsFiniteSet(rest) /\ IsFiniteSet(T \cap P)
    BY <2>4, FS_Subset
  <2>6. ok(rest)
    <3> HIDE DEF ok, rest
    <3> QED BY <2>1, <2>4
  <2>7. SumOn(f, T) = f[x] + SumOn(f, rest) /\ SumOn(f, rest) \in Int /\ f[x] \in Int
    BY <2>2, <2>3, <2>4, <2>5, SumUnfold, SumType
  <2> HIDE DEF x
  <2>8. CASE x \in P
    <3>1. x \in T \cap P /\ (T \cap P) \ {x} = rest \cap P
      BY <2>4, <2>8
    <3>2. SumOn(f, T \cap P) = f[x] + SumOn(f, rest \cap P)
      BY <2>5, <3>1, SumRemove
    <3> QED BY <2>1, <2>6, <2>7, <3>2
  <2>9. CASE x \notin P
    <3>1. T \cap P = rest \cap P /\ f[x] = 0
      BY <2>4, <2>9
    <3> HIDE DEF rest
    <3> QED BY <2>1, <2>6, <2>7, <3>1
  <2> QED BY <2>8, <2>9
<1>2. S \cap P = P
  OBVIOUS
<1>3. ok(S)
  BY <1>1
<1> QED BY <1>2, <1>3

(* The size of a set is the sum of its marks. *)
LEMMA SumOfMarks ==
    ASSUME NEW S, IsFiniteSet(S), NEW P \in SUBSET S
    PROVE  SumOn([x \in S |-> IF x \in P THEN 1 ELSE 0], S) = Cardinality(P)
<1> DEFINE mark == [x \in S |-> IF x \in P THEN 1 ELSE 0]
           ok(T) == SumOn(mark, T) = Cardinality(T)
           bad == {T \in SUBSET P : ~ ok(T)}
<1>0. IsFiniteSet(P) /\ \A x \in S : mark[x] \in Int
  BY FS_Subset
<1>1. bad = {}
  <2> SUFFICES ASSUME bad # {} PROVE FALSE
    OBVIOUS
  <2>1. PICK T \in bad : \A U \in bad : Cardinality(T) <= Cardinality(U)
    BY <1>0, SmallestExists
  <2> DEFINE x == Picked(T)
             rest == T \ {x}
  <2>2. IsFiniteSet(T)
    BY <1>0, FS_Subset
  <2>3. T # {}
    BY FS_EmptySet, SumUnfold
  <2>4. x \in T /\ rest \in SUBSET P /\ Cardinality(T) \in Nat /\ Cardinality(rest) = Cardinality(T) - 1
    BY <1>0, <2>3, FirstRemoved
  <2>6. ok(rest)
    <3> HIDE DEF ok, rest
    <3> QED BY <2>1, <2>4
  <2>7. SumOn(mark, T) = mark[x] + SumOn(mark, rest) /\ mark[x] = 1
    BY <2>2, <2>3, <2>4, SumUnfold
  <2> HIDE DEF x, mark, rest
  <2> QED BY <2>1, <2>4, <2>6, <2>7
<1>2. SumOn(mark, P) = Cardinality(P)
  BY <1>1
<1>3. \A x \in S \ P : mark[x] = 0
  OBVIOUS
<1> HIDE DEF mark
<1>4. SumOn(mark, S) = SumOn(mark, P)
  BY <1>0, <1>3, SumSupport
<1> QED BY <1>2, <1>4 DEF mark

(* Counting along a bijection. *)
LEMMA SumAlong ==
    ASSUME NEW S, IsFiniteSet(S), NEW R, NEW f, NEW h, \A y \in R : h[y] \in Int,
           NEW g \in Bijection(S, R), \A x \in S : f[x] = h[g[x]]
    PROVE  SumOn(f, S) = SumOn(h, R)
<1> DEFINE image(T) == {y \in R : \E x \in T : y = g[x]}
           ok(T) == SumOn(f, T) = SumOn(h, image(T))
           bad == {T \in SUBSET S : ~ ok(T)}
<1>0. /\ g \in [S -> R] /\ \A x, y \in S : g[x] = g[y] => x = y
      /\ \A y \in R : \E x \in S : g[x] = y
  BY DEF Bijection, Injection, Surjection, IsInjective
<1>9. IsFiniteSet(R)
  <2>1. ExistsBijection(S, R)
    BY DEF ExistsBijection
  <2> QED BY <2>1, FS_Bijection
<1>1. bad = {}
  <2> SUFFICES ASSUME bad # {} PROVE FALSE
    OBVIOUS
  <2>1. PICK T \in bad : \A U \in bad : Cardinality(T) <= Cardinality(U)
    BY SmallestExists
  <2> DEFINE x == Picked(T)
             rest == T \ {x}
  <2>2. IsFiniteSet(T)
    BY FS_Subset
  <2>3. T # {}
    <3> SUFFICES ASSUME T = {} PROVE FALSE
      OBVIOUS
    <3>1. image({}) = {}
      OBVIOUS
    <3>2. SumOn(f, {}) = 0 /\ SumOn(h, {}) = 0
      BY FS_EmptySet, SumUnfold
    <3> QED BY <3>1, <3>2
  <2>4. x \in T /\ rest \in SUBSET S /\ Cardinality(T) \in Nat /\ Cardinality(rest) = Cardinality(T) - 1
    BY <2>3, FirstRemoved
  <2>6. ok(rest)
    <3> HIDE DEF ok, rest
    <3> QED BY <2>1, <2>4
  <2>7. SumOn(f, T) = f[x] + SumOn(f, rest)
    BY <2>2, <2>3, SumUnfold
  <2> HIDE DEF x
  <2>8. g[x] \in image(T) /\ image(T) \ {g[x]} = image(rest)
    BY <1>0, <2>4
  <2>9. IsFiniteSet(image(T)) /\ \A y \in image(T) : h[y] \in Int
    BY <1>9, FS_Subset
  <2>10. SumOn(h, image(T)) = h[g[x]] + SumOn(h, image(rest))
    <3>1. \A U : IsFiniteSet(U) /\ (\A y \in U : h[y] \in Int)
                  => \A y \in U : SumOn(h, U) = h[y] + SumOn(h, U \ {y})
      BY SumRemove
    <3> HIDE DEF image
    <3> QED BY <2>8, <2>9, <3>1
  <2>11. f[x] = h[g[x]]
    BY <2>4
  <2> HIDE DEF image, rest
  <2> QED BY <2>1, <2>6, <2>7, <2>10, <2>11
<1>2. image(S) = R
  BY <1>0
<1>3. ok(S)
  BY <1>1
<1> QED BY <1>2, <1>3

-----------------------------------------------------------------------------
(* How many elements of S come before x. *)
Below(R, S, x) == {y \in S : <<y, x>> \in R}
RankIn(R, S, x) == Cardinality(Below(R, S, x))
TotalOrder(R, S) ==
    /\ \A x \in S : <<x, x>> \notin R
    /\ \A x, y \in S : x # y => <<x, y>> \in R \/ <<y, x>> \in R
    /\ \A x, y, z \in S : <<x, y>> \in R /\ <<y, z>> \in R => <<x, z>> \in R

LEMMA RankIsNumber ==
    ASSUME NEW S, IsFiniteSet(S), NEW R, NEW x
    PROVE  IsFiniteSet(Below(R, S, x)) /\ RankIn(R, S, x) \in Nat
BY FS_Subset, FS_CardinalityType DEF Below, RankIn

(* In a total order each rank is taken by one element. *)
LEMMA RankOrders ==
    ASSUME NEW S, IsFiniteSet(S), NEW R, TotalOrder(R, S)
    PROVE  /\ \A x \in S : RankIn(R, S, x) \in 0 .. Cardinality(S) - 1
           /\ \A x, y \in S : <<x, y>> \in R => RankIn(R, S, x) < RankIn(R, S, y)
<1>1. Cardinality(S) \in Nat
  BY FS_CardinalityType
<1>2. \A x \in S : IsFiniteSet(Below(R, S, x)) /\ RankIn(R, S, x) \in Nat
  BY FS_Subset, FS_CardinalityType DEF Below, RankIn
<1>3. ASSUME NEW x \in S PROVE RankIn(R, S, x) \in 0 .. Cardinality(S) - 1
  <2>1. Below(R, S, x) \in SUBSET (S \ {x})
    BY DEF Below, TotalOrder
  <2>2. IsFiniteSet(S \ {x}) /\ Cardinality(S \ {x}) = Cardinality(S) - 1
    BY FS_RemoveElement
  <2>3. RankIn(R, S, x) <= Cardinality(S) - 1
    BY <2>1, <2>2, FS_Subset DEF RankIn
  <2> QED BY <1>1, <1>2, <2>3
<1>4. ASSUME NEW x \in S, NEW y \in S, <<x, y>> \in R PROVE RankIn(R, S, x) < RankIn(R, S, y)
  <2>1. Below(R, S, x) \cup {x} \in SUBSET Below(R, S, y) /\ x \notin Below(R, S, x)
    BY <1>4 DEF Below, TotalOrder
  <2>2. Cardinality(Below(R, S, x) \cup {x}) = RankIn(R, S, x) + 1
    BY <1>2, <2>1, FS_AddElement DEF RankIn
  <2>3. Cardinality(Below(R, S, x) \cup {x}) <= RankIn(R, S, y)
    BY <1>2, <2>1, FS_Subset DEF RankIn
  <2> QED BY <1>2, <2>2, <2>3
<1> QED BY <1>3, <1>4

LEMMA RankBijection ==
    ASSUME NEW S, IsFiniteSet(S), NEW R, TotalOrder(R, S)
    PROVE  [x \in S |-> RankIn(R, S, x)] \in Bijection(S, 0 .. Cardinality(S) - 1)
<1> DEFINE n == Cardinality(S)
           rank == [x \in S |-> RankIn(R, S, x)]
<1>1. n \in Nat
  BY FS_CardinalityType
<1>2. IsFiniteSet(0 .. n - 1) /\ Cardinality(0 .. n - 1) = n
  <2>1. PICK m \in Int : m = n - 1
    BY <1>1
  <2>2. IsFiniteSet(0 .. m) /\ Cardinality(0 .. m) = IF 0 > m THEN 0 ELSE m - 0 + 1
    BY FS_Interval
  <2> QED BY <1>1, <2>1, <2>2
<1>3. rank \in [S -> 0 .. n - 1]
  BY RankOrders
<1>4. ASSUME NEW x \in S, NEW y \in S, rank[x] = rank[y] PROVE x = y
  <2>1. \A a, b \in S : <<a, b>> \in R => rank[a] < rank[b]
    BY RankOrders
  <2>2. rank[x] \in Int /\ rank[y] \in Int
    BY <1>1, <1>3
  <2> HIDE DEF rank
  <2>3. rank[x] = rank[y]
    BY <1>4
  <2>4. ~ (<<x, y>> \in R) /\ ~ (<<y, x>> \in R)
    BY <2>1, <2>2, <2>3
  <2> QED BY <2>4 DEF TotalOrder
<1>5. rank \in Injection(S, 0 .. n - 1)
  <2> HIDE DEF rank
  <2> QED BY <1>3, <1>4 DEF Injection, IsInjective
<1>6. rank \in Surjection(S, 0 .. n - 1)
  <2> HIDE DEF rank
  <2> QED BY <1>2, <1>5, FS_Injection
<1> QED BY <1>5, <1>6 DEF Bijection

(* As many elements as asked for have a rank below it. *)
LEMMA FirstRanks ==
    ASSUME NEW S, IsFiniteSet(S), NEW R, TotalOrder(R, S), NEW k \in 0 .. Cardinality(S)
    PROVE  Cardinality({x \in S : RankIn(R, S, x) < k}) = k
<1> DEFINE n == Cardinality(S)
           rank == [x \in S |-> RankIn(R, S, x)]
           first == {x \in S : rank[x] < k}
           part == [x \in first |-> rank[x]]
<1>1. n \in Nat /\ k \in Nat /\ k <= n
  BY FS_CardinalityType
<1>2. rank \in Bijection(S, 0 .. n - 1)
  BY RankBijection
<1> HIDE DEF n, rank
<1>3. /\ rank \in [S -> 0 .. n - 1] /\ \A x, y \in S : rank[x] = rank[y] => x = y
      /\ \A r \in 0 .. n - 1 : \E x \in S : rank[x] = r
  BY <1>2 DEF Bijection, Injection, Surjection, IsInjective
<1>4. part \in [first -> 0 .. k - 1]
  BY <1>1, <1>3
<1>5. \A x, y \in first : part[x] = part[y] => x = y
  BY <1>3
<1>6. \A r \in 0 .. k - 1 : \E x \in first : part[x] = r
  <2> SUFFICES ASSUME NEW r \in 0 .. k - 1 PROVE \E x \in first : part[x] = r
    OBVIOUS
  <2>1. r \in 0 .. n - 1 /\ r < k
    BY <1>1
  <2>2. PICK x \in S : rank[x] = r
    BY <1>3, <2>1
  <2> QED BY <2>1, <2>2
<1>7. part \in Bijection(first, 0 .. k - 1)
  <2> HIDE DEF part, first
  <2> QED BY <1>4, <1>5, <1>6 DEF Bijection, Injection, Surjection, IsInjective
<1>8. ExistsBijection(first, 0 .. k - 1)
  BY <1>7 DEF ExistsBijection
<1>9. IsFiniteSet(first)
  BY FS_Subset
<1> HIDE DEF first
<1>10. Cardinality(0 .. k - 1) = Cardinality(first)
  BY <1>8, <1>9, FS_Bijection
<1>11. Cardinality(0 .. k - 1) = k
  <2>1. PICK m \in Int : m = k - 1
    BY <1>1
  <2>2. Cardinality(0 .. m) = IF 0 > m THEN 0 ELSE m - 0 + 1
    BY FS_Interval
  <2> QED BY <1>1, <2>1, <2>2
<1>12. first = {x \in S : RankIn(R, S, x) < k}
  BY DEF first, rank
<1> QED BY <1>10, <1>11, <1>12

-----------------------------------------------------------------------------
(* Division, products, images and greatest elements. *)
(* Division with a remainder. *)
LEMMA Division ==
    ASSUME NEW a \in Int, NEW d \in Nat \ {0}
    PROVE  /\ a \div d \in Int /\ a % d \in 0 .. d - 1
           /\ a = d * (a \div d) + (a % d)
OBVIOUS

(* Products of natural numbers keep the order. *)
LEMMA ProductOrder ==
    ASSUME NEW k \in Nat, NEW a \in Int, NEW b \in Int, a <= b
    PROVE  k * a <= k * b
OBVIOUS

(* What a function maps a finite set to is finite. *)
LEMMA ImageFinite ==
    ASSUME NEW S, IsFiniteSet(S), NEW f, DOMAIN f = S
    PROVE  IsFiniteSet({f[x] : x \in S})
<1> DEFINE T == {f[x] : x \in S}
           g == [x \in S |-> f[x]]
<1>1. g \in [S -> T] /\ \A y \in T : \E x \in S : g[x] = y
  OBVIOUS
<1> HIDE DEF g, T
<1>2. g \in Surjection(S, T)
  BY <1>1 DEF Surjection
<1>3. IsFiniteSet(T)
  BY <1>2, FS_Surjection
<1> QED BY <1>3 DEF T

(* Of finitely many whole numbers one is the greatest. *)
LEMMA GreatestExists ==
  ASSUME NEW S, IsFiniteSet(S), S # {}, NEW f, \A x \in S : f[x] \in Int
  PROVE  \E a \in S : \A x \in S : f[a] >= f[x]
<1> DEFINE ok(T) == T = {} \/ \E a \in T : \A x \in T : f[a] >= f[x]
           bad == {T \in SUBSET S : ~ ok(T)}
<1>1. CASE bad = {}
  <2>1. S \in SUBSET S
    OBVIOUS
  <2> QED BY <1>1, <2>1
<1>2. CASE bad # {}
  <2>1. bad \subseteq SUBSET S
    OBVIOUS
  <2>2. PICK T \in bad : \A U \in bad : Cardinality(T) <= Cardinality(U)
    <3> HIDE DEF bad
    <3> QED BY <1>2, <2>1, SmallestExists
  <2>3. T \in SUBSET S /\ T # {} /\ ~ ok(T)
    OBVIOUS
  <2>4. PICK t \in T : TRUE
    BY <2>3
  <2>5. /\ IsFiniteSet(T \ {t}) /\ Cardinality(T \ {t}) = Cardinality(T) - 1
        /\ Cardinality(T) \in Nat
    BY <2>3, FS_Subset, FS_RemoveElement, FS_CardinalityType
  <2>6. T \ {t} \notin bad
    <3> HIDE DEF bad
    <3> QED BY <2>2, <2>5
  <2>7. ok(T \ {t})
    BY <2>3, <2>6
  <2>8. CASE T \ {t} = {}
    <3>1. T = {t} /\ f[t] \in Int
      BY <2>3, <2>8
    <3> QED BY <2>3, <3>1
  <2>9. CASE T \ {t} # {}
    <3>1. PICK m \in T \ {t} : \A x \in T \ {t} : f[m] >= f[x]
      BY <2>7, <2>9
    <3>2. \A x \in T : f[x] \in Int
      BY <2>3
    <3>3. CASE f[m] >= f[t]
      <4>1. \A x \in T : f[m] >= f[x]
        BY <3>1, <3>3
      <4> QED BY <4>1, <3>1, <2>3
    <3>4. CASE ~(f[m] >= f[t])
      <4>1. \A x \in T : f[t] >= f[x]
        BY <3>1, <3>2, <3>4
      <4> QED BY <4>1, <2>3
    <3> QED BY <3>3, <3>4
  <2> QED BY <2>8, <2>9
<1> QED BY <1>1, <1>2

(* A part of a set of numbers that are not negative has no greater sum. *)
LEMMA SumOfFewer ==
    ASSUME NEW S, IsFiniteSet(S), NEW f, \A x \in S : f[x] \in Nat, NEW P \in SUBSET S
    PROVE  SumOn(f, P) <= SumOn(f, S)
<1>1. PICK g : g = [x \in S |-> IF x \in P THEN f[x] ELSE 0]
  OBVIOUS
<1>2. \A x \in S : g[x] \in Int /\ f[x] \in Int /\ g[x] <= f[x]
  BY <1>1
<1>3. SumOn(g, S) <= SumOn(f, S)
  BY <1>2, SumMonotone
<1>4. SumOn(g, S) = SumOn(g, P)
  <2>1. \A x \in S \ P : g[x] = 0
    BY <1>1
  <2> QED BY <1>2, <2>1, SumSupport
<1>5. SumOn(g, P) = SumOn(f, P)
  <2>1. \A x \in P : g[x] = f[x]
    BY <1>1
  <2>2. IsFiniteSet(P)
    BY FS_Subset
  <2> QED BY <2>1, <2>2, SumCongruence
<1> QED BY <1>3, <1>4, <1>5

=============================================================================
