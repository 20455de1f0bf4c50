----------------------------- MODULE DataLemmas -----------------------------
(***************************************************************************)
(* Lemmas about the data that the models are built from: least numbers,    *)
(* best elements of finite sets, folds over finite sets and along          *)
(* sequences, sums, the queue of a topic, lists of segments, and           *)
(* distances.  Induction over a number, a set or a sequence is done with   *)
(* the first-order form of well-foundedness: a set of counterexamples that *)
(* is not empty has a least member.                                        *)
(***************************************************************************)
EXTENDS Topic, Geometry, SegmentList, FiniteSetTheorems, SequenceTheorems, TLAPS

-----------------------------------------------------------------------------
(* Least numbers, minimal sets, best elements.                             *)

\* A set of natural numbers that is not empty has a least member.
LEMMA SmallestOf ==
  ASSUME NEW S \in SUBSET Nat, S # {}
  PROVE  \E x \in S : \A y \in S : x <= y
<1>1. PICK x \in S : \A y \in S : <<y, x>> \notin OpToRel(<, Nat)
  BY NatLessThanWellFounded, WFMin
<1>2. \A y \in S : ~(y < x)
  BY <1>1 DEF OpToRel
<1>3. QED
  BY <1>2

\* A set of finite sets that is not empty has a member that includes no other.
LEMMA MinimalSet ==
  ASSUME NEW U, NEW F \in SUBSET FiniteSubsetsOf(U), F # {}
  PROVE  \E s \in F : \A t \in F : ~(t \subseteq s /\ t # s)
<1>1. PICK s \in F : \A t \in F : <<t, s>> \notin StrictSubsetOrdering(U)
  BY FS_StrictSubsetOrderingWellFounded, WFMin
<1>2. QED
  BY <1>1 DEF StrictSubsetOrdering, FiniteSubsetsOf

\* The subsets of a finite set are finite.
LEMMA SubsetsAreFinite ==
  ASSUME NEW S, IsFiniteSet(S)
  PROVE  SUBSET S \subseteq FiniteSubsetsOf(S)
BY FS_Subset DEF FiniteSubsetsOf

\* A total and transitive relation has a greatest element in every finite set.
LEMMA BestOf ==
  ASSUME NEW S, IsFiniteSet(S), S # {}, NEW R,
         \A x, y \in S : <<x, y>> \in R \/ <<y, x>> \in R,
         \A x, y, z \in S : <<x, y>> \in R /\ <<y, z>> \in R => <<x, z>> \in R
  PROVE  \E x \in S : \A y \in S : <<x, y>> \in R
<1>. DEFINE Best(s) == \E x \in s : \A y \in s : <<x, y>> \in R
            F == {s \in SUBSET S : s # {} /\ ~Best(s)}
<1>1. SUFFICES F = {}
  BY <1>1
<1>2. SUFFICES ASSUME F # {} PROVE FALSE
  OBVIOUS
<1>3. F \in SUBSET FiniteSubsetsOf(S)
  BY SubsetsAreFinite
<1>. HIDE DEF F
<1>4. PICK s \in F : \A t \in F : ~(t \subseteq s /\ t # s)
  BY <1>2, <1>3, MinimalSet
<1>5. s \subseteq S /\ s # {} /\ ~Best(s)
  BY DEF F
<1>6. PICK a \in s : TRUE
  BY <1>5
<1>. DEFINE rest == s \ {a}
<1>7. CASE rest = {}
  BY <1>5, <1>7
<1>8. CASE rest # {}
  <2>1. rest \subseteq s /\ rest # s
    OBVIOUS
  <2>2. Best(rest)
    <3>1. rest \notin F
      BY <1>4, <2>1
    <3>2. QED
      BY <1>5, <1>8, <2>1, <3>1 DEF F
  <2>3. PICK b \in rest : \A y \in rest : <<b, y>> \in R
    BY <2>2
  <2>4. a \in S /\ b \in S /\ b \in s
    BY <1>5
  <2>5. CASE <<a, b>> \in R
    <3>1. \A y \in s : <<a, y>> \in R
      BY <1>5, <2>3, <2>4, <2>5
    <3>2. QED
      BY <1>5, <3>1
  <2>6. CASE <<b, a>> \in R
    <3>1. \A y \in s : <<b, y>> \in R
      BY <2>3, <2>6
    <3>2. QED
      BY <1>5, <2>4, <3>1
  <2>7. QED
    BY <2>4, <2>5, <2>6
<1>9. QED
  BY <1>7, <1>8

\* Min and Max of the community modules are what they are called.
LEMMA MinOfNats ==
  ASSUME NEW S \in SUBSET Nat, S # {}
  PROVE  Min(S) \in S /\ \A y \in S : Min(S) <= y
BY SmallestOf DEF Min

\* The greatest of a finite set of naturals.
LEMMA MaxOfFinite ==
  ASSUME NEW S \in SUBSET Int, IsFiniteSet(S), S # {}
  PROVE  Max(S) \in S /\ \A y \in S : Max(S) >= y
<1>. DEFINE R == {p \in Int \X Int : p[1] >= p[2]}
<1>1. \A x, y \in Int : <<x, y>> \in R <=> x >= y
  OBVIOUS
<1>. HIDE DEF R
<1>2. /\ \A x, y \in S : <<x, y>> \in R \/ <<y, x>> \in R
      /\ \A x, y, z \in S : <<x, y>> \in R /\ <<y, z>> \in R => <<x, z>> \in R
  BY <1>1
<1>3. \E x \in S : \A y \in S : <<x, y>> \in R
  BY <1>2, BestOf
<1>4. \E x \in S : \A y \in S : x >= y
  BY <1>1, <1>3
<1>5. QED
  BY <1>4 DEF Max

\* The greater of two.
LEMMA MaxOfTwo ==
  ASSUME NEW a \in Int, NEW b \in Int
  PROVE  Max({a, b}) = IF a >= b THEN a ELSE b
BY DEF Max

\* The smaller of two.
LEMMA MinOfTwo ==
  ASSUME NEW a \in Int, NEW b \in Int
  PROVE  Min({a, b}) = IF a <= b THEN a ELSE b
BY DEF Min

\* Two to the n is the number of subsets of 1..n, so it is positive.
LEMMA PowerOfTwo ==
  ASSUME NEW n \in Nat
  PROVE  2 ^ n \in Nat \ {0}
<1>1. IsFiniteSet(1..n) /\ Cardinality(1..n) = n
  BY FS_Interval
<1>2. /\ IsFiniteSet(SUBSET (1..n))
      /\ Cardinality(SUBSET (1..n)) = 2 ^ Cardinality(1..n)
  BY <1>1, FS_SUBSET
<1>3. Cardinality(SUBSET (1..n)) \in Nat /\ Cardinality(SUBSET (1..n)) # 0
  BY <1>2, FS_CardinalityType, FS_EmptySet
<1>4. QED
  BY <1>1, <1>2, <1>3

-----------------------------------------------------------------------------
(* Folds.                                                                  *)

\* What a fold over the subsets of S takes: a base and a step with values in V,
\* and a choice of the element that is next.
Foldable(S, V, base, pick, step) ==
  /\ IsFiniteSet(S)
  /\ base \in V
  /\ \A s \in SUBSET S : s # {} => pick[s] \in s
  /\ \A x \in S, v \in V : step[<<x, v>>] \in V

\* g holds the fold of every subset of S.
IsFold(g, S, base, pick, step) ==
  \A s \in SUBSET S :
    g[s] = IF s = {} THEN base ELSE step[<<pick[s], g[s \ {pick[s]}]>>]

\* A fold over a finite set exists, whatever picks the next element.
LEMMA FoldExists ==
  ASSUME NEW S, NEW V, NEW base, NEW pick, NEW step,
         Foldable(S, V, base, pick, step)
  PROVE  \E g \in [SUBSET S -> V] : IsFold(g, S, base, pick, step)
<1>. DEFINE Value(g, s) == IF s = {} THEN base
                           ELSE step[<<pick[s], g[s \ {pick[s]}]>>]
            UpTo(g, n) == \A s \in SUBSET S : Cardinality(s) <= n => g[s] = Value(g, s)
            Bad == {n \in Nat : ~\E g \in [SUBSET S -> V] : UpTo(g, n)}
<1>. USE DEF Foldable
<1>1. \A s \in SUBSET S : IsFiniteSet(s) /\ Cardinality(s) \in Nat
  BY FS_Subset, FS_CardinalityType
<1>2. \A s \in SUBSET S : Cardinality(s) <= Cardinality(S)
  BY FS_Subset
<1>3. \A s \in SUBSET S : s # {} =>
        /\ pick[s] \in S /\ s \ {pick[s]} \in SUBSET S
        /\ Cardinality(s \ {pick[s]}) = Cardinality(s) - 1
  BY <1>1, FS_RemoveElement
<1>4. \A g \in [SUBSET S -> V], s \in SUBSET S : Value(g, s) \in V
  BY <1>3
<1>5. \A s \in SUBSET S : Cardinality(s) <= 0 => s = {}
  BY <1>1, FS_EmptySet
<1>. HIDE DEF Value
<1>6. SUFFICES Bad = {}
  <2>1. Cardinality(S) \in Nat
    BY <1>1
  <2>2. PICK g \in [SUBSET S -> V] : UpTo(g, Cardinality(S))
    BY <1>6, <2>1
  <2>3. \A s \in SUBSET S : g[s] = Value(g, s)
    BY <1>2, <2>2
  <2>4. QED
    BY <2>3 DEF Value, IsFold
<1>7. SUFFICES ASSUME Bad # {} PROVE FALSE
  OBVIOUS
<1>8. PICK n \in Bad : \A m \in Bad : n <= m
  BY <1>7, SmallestOf
<1>9. n \in Nat
  OBVIOUS
<1>10. CASE n = 0
  <2>. DEFINE g == [s \in SUBSET S |-> base]
  <2>1. UpTo(g, 0)
    BY <1>5 DEF Value
  <2>2. g \in [SUBSET S -> V]
    OBVIOUS
  <2>3. QED
    BY <1>8, <1>10, <2>1, <2>2
<1>11. CASE n # 0
  <2>1. n - 1 \in Nat /\ n - 1 \notin Bad
    <3>. HIDE DEF Bad
    <3>1. n - 1 \in Nat /\ ~(n <= n - 1)
      BY <1>9, <1>11
    <3>2. QED
      BY <1>8, <3>1
  <2>2. PICK g \in [SUBSET S -> V] : UpTo(g, n - 1)
    BY <2>1
  <2>. DEFINE h == [s \in SUBSET S |-> Value(g, s)]
  <2>3. h \in [SUBSET S -> V]
    BY <1>4
  <2>4. \A s \in SUBSET S : Cardinality(s) <= n - 1 => h[s] = g[s]
    BY <2>2
  <2>. HIDE DEF h
  <2>5. ASSUME NEW s \in SUBSET S, Cardinality(s) <= n
        PROVE  Value(h, s) = Value(g, s)
    <3>1. CASE s = {}
      BY <3>1 DEF Value
    <3>2. CASE s # {}
      <4>1. Cardinality(s \ {pick[s]}) <= n - 1 /\ s \ {pick[s]} \in SUBSET S
        BY <1>1, <1>3, <2>1, <2>5, <3>2
      <4>2. h[s \ {pick[s]}] = g[s \ {pick[s]}]
        BY <2>4, <4>1
      <4>3. QED
        BY <4>2 DEF Value
    <3>3. QED
      BY <3>1, <3>2
  <2>6. UpTo(h, n)
    BY <2>5 DEF h
  <2>7. QED
    BY <1>8, <2>3, <2>6
<1>12. QED
  BY <1>10, <1>11

\* What holds of 0 and passes from each number to the next holds up to n.
LEMMA CountingUp ==
  ASSUME NEW n \in Nat, NEW G, 0 \in G,
         \A k \in 0..(n - 1) : k \in G => k + 1 \in G
  PROVE  0..n \subseteq G
<1>. DEFINE Bad == (0..n) \ G
<1>1. SUFFICES ASSUME Bad # {} PROVE FALSE
  OBVIOUS
<1>2. Bad \in SUBSET Nat
  OBVIOUS
<1>. HIDE DEF Bad
<1>3. PICK k \in Bad : \A m \in Bad : k <= m
  BY <1>1, <1>2, SmallestOf
<1>4. k \in 0..n /\ k \notin G
  BY DEF Bad
<1>5. k # 0 /\ k - 1 \in 0..(n - 1) /\ k - 1 \in 0..n /\ ~(k <= k - 1)
  BY <1>4
<1>6. k - 1 \in G
  BY <1>3, <1>5 DEF Bad
<1>7. (k - 1) + 1 = k
  BY <1>4
<1>8. QED
  BY <1>4, <1>5, <1>6, <1>7

\* FoldLeft takes the positions of a sequence from the first to the last.
LEMMA LastOfPrefix ==
  ASSUME NEW k \in Nat \ {0}
  PROVE  Max(1..k) = k /\ (1..k) \ {k} = 1..(k - 1) /\ 1..k # {}
<1>1. 1..k \in SUBSET Int /\ IsFiniteSet(1..k) /\ k \in 1..k
  BY FS_Interval
<1>2. Max(1..k) \in 1..k /\ \A y \in 1..k : Max(1..k) >= y
  BY <1>1, MaxOfFinite
<1>3. QED
  BY <1>1, <1>2

\* The positions that are left are those of the sequence's other elements.
LEMMA MaxIsNext ==
  ASSUME NEW n \in Nat, NEW s \in SUBSET (1..n), s # {}
  PROVE  Max(s) \in s
<1>1. IsFiniteSet(1..n)
  BY FS_Interval
<1>2. IsFiniteSet(s)
  BY <1>1, FS_Subset
<1>3. s \in SUBSET Int
  OBVIOUS
<1>4. QED
  BY <1>2, <1>3, MaxOfFinite

\* A step that takes positions up to n, and values in V to values in V.
Closed(step, n, V) == \A k \in 1..n, v \in V : step[<<k, v>>] \in V

\* h folds the positions up to n, the greatest last, wherever its values are
\* in V.
FoldsUp(h, n, V, step) ==
  \A r \in SUBSET (1..n) : r # {} /\ h[r \ {Max(r)}] \in V =>
    h[r] = step[<<Max(r), h[r \ {Max(r)}]>>]

\* f has the values along the way.
Along(f, n, base, step) ==
  f[0] = base /\ \A k \in 1..n : f[k] = step[<<k, f[k - 1]>>]

\* f and h begin alike and go on alike.
Alike(f, h, n) ==
  f[0] = h[0] /\ \A k \in 1..n : f[k - 1] = h[k - 1] => f[k] = h[k]

\* FoldLeft goes through all subsets of a sequence's positions by their greatest
\* members: what it chooses exists.
LEMMA FoldOfPositions ==
  ASSUME NEW n \in Nat, NEW V, NEW base \in V, NEW step, Closed(step, n, V)
  PROVE  \E g \in [SUBSET (1..n) -> V] : g[{}] = base /\ FoldsUp(g, n, V, step)
<1>. DEFINE D == 1..n
            pick == [r \in SUBSET D |-> Max(r)]
<1>1. IsFiniteSet(D)
  BY FS_Interval
<1>2. \A r \in SUBSET D : r # {} => pick[r] \in r
  BY MaxIsNext
<1>3. \A r \in SUBSET D : pick[r] = Max(r)
  OBVIOUS
<1>. HIDE DEF pick, D
<1>4. Foldable(D, V, base, pick, step)
  BY <1>1, <1>2 DEF Foldable, D, Closed
<1>5. PICK g \in [SUBSET D -> V] : IsFold(g, D, base, pick, step)
  BY <1>4, FoldExists
<1>6. \A r \in SUBSET D :
        g[r] = IF r = {} THEN base ELSE step[<<Max(r), g[r \ {Max(r)}]>>]
  BY <1>3, <1>5 DEF IsFold
<1>7. {} \in SUBSET D
  OBVIOUS
<1>8. g[{}] = base /\ FoldsUp(g, n, V, step)
  BY <1>6, <1>7 DEF D, FoldsUp
<1>9. QED
  BY <1>8 DEF D

\* What is h of the first k positions, as h takes one position after the other.
LEMMA FoldAlongPrefixes ==
  ASSUME NEW n \in Nat, NEW V, NEW base \in V, NEW step, NEW h,
         Closed(step, n, V), h[{}] = base, FoldsUp(h, n, V, step)
  PROVE  \E f \in [0..n -> V] : f[n] = h[1..n] /\ Along(f, n, base, step)
<1>. DEFINE G == {k \in 0..n : h[1..k] \in V}
            f == [k \in 0..n |-> h[1..k]]
<1>1. 1..0 = {}
  OBVIOUS
<1>2. 0 \in G
  BY <1>1
<1>3. ASSUME NEW k \in 1..n, h[1..(k - 1)] \in V
      PROVE  h[1..k] = step[<<k, h[1..(k - 1)]>>]
  <2>1. Max(1..k) = k /\ (1..k) \ {k} = 1..(k - 1) /\ 1..k # {}
    <3>1. k \in Nat \ {0}
      OBVIOUS
    <3>2. QED
      BY <3>1, LastOfPrefix
  <2>2. 1..k \in SUBSET (1..n)
    OBVIOUS
  <2>3. QED
    BY <1>3, <2>1, <2>2 DEF FoldsUp
<1>4. ASSUME NEW k \in 0..(n - 1), k \in G PROVE k + 1 \in G
  <2>1. k + 1 \in 1..n /\ (k + 1) - 1 = k
    OBVIOUS
  <2>2. h[1..k] \in V
    BY <1>4
  <2>3. h[1..(k + 1)] = step[<<k + 1, h[1..k]>>]
    BY <1>3, <2>1, <2>2
  <2>4. h[1..(k + 1)] \in V
    BY <2>1, <2>2, <2>3 DEF Closed
  <2>5. QED
    BY <2>1, <2>4
<1>5. 0..n \subseteq G
  <2>. HIDE DEF G
  <2>1. QED
    BY <1>2, <1>4, CountingUp
<1>6. f \in [0..n -> V]
  BY <1>5
<1>7. f[0] = h[{}] /\ f[n] = h[1..n]
  BY <1>1
<1>8. ASSUME NEW k \in 1..n PROVE f[k] = step[<<k, f[k - 1]>>]
  <2>1. k - 1 \in 0..n /\ k \in 0..n
    OBVIOUS
  <2>2. h[1..(k - 1)] \in V
    BY <1>5, <2>1
  <2>3. QED
    BY <1>3, <2>1, <2>2
<1>9. QED
  <2>. HIDE DEF f
  <2>1. QED
    BY <1>6, <1>7, <1>8 DEF Along

\* Two that begin alike and go on alike are alike.
LEMMA SameFold ==
  ASSUME NEW n \in Nat, NEW f, NEW h, Alike(f, h, n)
  PROVE  \A k \in 0..n : f[k] = h[k]
<1>. USE DEF Alike
<1>. DEFINE G == {k \in 0..n : f[k] = h[k]}
<1>1. 0 \in G
  OBVIOUS
<1>2. ASSUME NEW k \in 0..(n - 1), k \in G PROVE k + 1 \in G
  <2>1. k + 1 \in 1..n /\ (k + 1) - 1 = k
    OBVIOUS
  <2>2. QED
    BY <1>2, <2>1
<1>3. 0..n \subseteq G
  <2>. HIDE DEF G
  <2>1. QED
    BY <1>1, <1>2, CountingUp
<1>4. QED
  BY <1>3

\* What holds of the empty sequence and stays true when an element is appended
\* holds of every sequence.
LEMMA Appending ==
  ASSUME NEW C, NEW G, <<>> \in G,
         \A s \in Seq(C), x \in C : s \in G => Append(s, x) \in G
  PROVE  Seq(C) \subseteq G
<1>. DEFINE Short(k) == \A s \in Seq(C) : Len(s) = k => s \in G
            N == {k \in Nat : Short(k)}
<1>1. SUFFICES ASSUME NEW s \in Seq(C) PROVE s \in G
  OBVIOUS
<1>2. Len(s) \in Nat
  BY LenProperties
<1>3. 0 \in N
  <2>1. \A t \in Seq(C) : Len(t) = 0 => t = <<>>
    BY EmptySeq
  <2>2. QED
    BY <2>1
<1>4. ASSUME NEW k \in 0..(Len(s) - 1), k \in N PROVE k + 1 \in N
  <2>1. k \in Nat /\ k + 1 \in Nat /\ k + 1 # 0
    BY <1>2
  <2>2. ASSUME NEW t \in Seq(C), Len(t) = k + 1 PROVE t \in G
    <3>1. t # <<>>
      BY <2>1, <2>2, EmptySeq
    <3>2. PICK u \in Seq(C), x \in C : t = Append(u, x)
      BY <3>1, SequenceEmptyOrAppend
    <3>3. Len(t) = Len(u) + 1 /\ Len(u) \in Nat
      BY <3>2, AppendProperties, LenProperties
    <3>4. Len(u) = k
      BY <2>1, <2>2, <3>3
    <3>5. QED
      BY <1>4, <3>2, <3>4
  <2>3. QED
    BY <2>1, <2>2
<1>5. 0..Len(s) \subseteq N
  <2>. HIDE DEF N
  <2>1. QED
    BY <1>2, <1>3, <1>4, CountingUp
<1>6. Len(s) \in N
  BY <1>2, <1>5
<1>7. QED
  BY <1>6

\* A number for every element, in no order: the sum of MapThenSumSet.
IsSum(g, f, S) ==
  g = [s \in SUBSET S |-> IF s = {} THEN 0
                          ELSE LET x == CHOOSE y \in s : TRUE
                               IN  f[x] + g[s \ {x}]]

\* MapThenSumSet over the values of a function, in terms of IsSum.
SumOf(f, S) == (CHOOSE g : IsSum(g, f, S))[S]

\* There are finitely many values, and they are natural numbers.
Summable(f, S) == IsFiniteSet(S) /\ \A x \in S : f[x] \in Nat

\* g holds the sum over every subset of S, whatever is summed first.
SumsUp(g, f, S) ==
  /\ g \in [SUBSET S -> Nat]
  /\ g[{}] = 0
  /\ \A s \in SUBSET S : \A x \in s : g[s] = f[x] + g[s \ {x}]

\* A sum of natural numbers exists, and is a natural number for every subset.
LEMMA SumExists ==
  ASSUME NEW S, NEW f, Summable(f, S)
  PROVE  LET g == CHOOSE g : IsSum(g, f, S)
         IN  /\ IsSum(g, f, S)
             /\ g \in [SUBSET S -> Nat]
<1>. USE DEF Summable
<1>. DEFINE pick == [s \in SUBSET S |-> CHOOSE y \in s : TRUE]
            step == [p \in S \X Nat |-> f[p[1]] + p[2]]
<1>1. \A s \in SUBSET S : s # {} => pick[s] \in s
  OBVIOUS
<1>2. \A x \in S, v \in Nat : step[<<x, v>>] = f[x] + v
  OBVIOUS
<1>3. \A s \in SUBSET S : pick[s] = CHOOSE y \in s : TRUE
  OBVIOUS
<1>. HIDE DEF pick, step
<1>4. 0 \in Nat /\ \A x \in S, v \in Nat : step[<<x, v>>] \in Nat
  BY <1>2
<1>5. PICK g \in [SUBSET S -> Nat] : IsFold(g, S, 0, pick, step)
  BY <1>1, <1>4, FoldExists DEF Foldable
<1>6. ASSUME NEW s \in SUBSET S
      PROVE  g[s] = IF s = {} THEN 0 ELSE LET x == CHOOSE y \in s : TRUE
                                          IN  f[x] + g[s \ {x}]
  <2>1. CASE s = {}
    BY <1>5, <2>1 DEF IsFold
  <2>2. CASE s # {}
    <3>1. pick[s] \in S /\ g[s \ {pick[s]}] \in Nat
      BY <1>1, <2>2
    <3>2. g[s] = f[pick[s]] + g[s \ {pick[s]}]
      BY <1>2, <1>5, <2>2, <3>1 DEF IsFold
    <3>3. QED
      BY <1>3, <2>2, <3>2
  <2>3. QED
    BY <2>1, <2>2
<1>7. IsSum(g, f, S)
  BY <1>6 DEF IsSum
<1>8. PICK h : h = CHOOSE k : IsSum(k, f, S)
  OBVIOUS
<1>9. IsSum(h, f, S)
  BY <1>7, <1>8
<1>10. h \in [SUBSET S -> Nat]
  <2>. DEFINE Bad == {s \in SUBSET S : h[s] \notin Nat}
  <2>1. SUFFICES Bad = {}
    BY <1>9 DEF IsSum
  <2>2. SUFFICES ASSUME Bad # {} PROVE FALSE
    OBVIOUS
  <2>3. Bad \in SUBSET FiniteSubsetsOf(S)
    BY SubsetsAreFinite
  <2>. HIDE DEF Bad
  <2>4. PICK s \in Bad : \A t \in Bad : ~(t \subseteq s /\ t # s)
    BY <2>2, <2>3, MinimalSet
  <2>5. s \in SUBSET S /\ h[s] \notin Nat
    BY DEF Bad
  <2>6. h[s] = IF s = {} THEN 0 ELSE LET x == CHOOSE y \in s : TRUE
                                     IN  f[x] + h[s \ {x}]
    BY <1>9, <2>5 DEF IsSum
  <2>7. CASE s = {}
    BY <2>5, <2>6, <2>7
  <2>8. CASE s # {}
    <3>. DEFINE x == CHOOSE y \in s : TRUE
    <3>1. x \in s
      BY <2>8
    <3>. HIDE DEF x
    <3>2. s \ {x} \notin Bad
      BY <2>4, <3>1
    <3>3. h[s \ {x}] \in Nat
      BY <2>5, <3>2 DEF Bad
    <3>4. h[s] = f[x] + h[s \ {x}]
      BY <2>6, <2>8 DEF x
    <3>5. QED
      BY <2>5, <3>1, <3>3, <3>4
  <2>9. QED
    BY <2>7, <2>8
<1>11. QED
  BY <1>8, <1>9, <1>10

\* What is summed first makes no difference.
LEMMA SumSplits ==
  ASSUME NEW S, NEW f, Summable(f, S)
  PROVE  SumsUp(CHOOSE g : IsSum(g, f, S), f, S)
<1>. DEFINE g == CHOOSE k : IsSum(k, f, S)
<1>. DEFINE Splits(s) == \A x \in s : g[s] = f[x] + g[s \ {x}]
            Bad == {s \in SUBSET S : ~Splits(s)}
<1>0. IsSum(g, f, S) /\ g \in [SUBSET S -> Nat]
  BY SumExists
<1>. HIDE DEF g
<1>1. \A s \in SUBSET S : g[s] = IF s = {} THEN 0
                                 ELSE LET y == CHOOSE y \in s : TRUE
                                      IN  f[y] + g[s \ {y}]
  BY <1>0 DEF IsSum
<1>2. g \in [SUBSET S -> Nat] /\ g[{}] = 0
  BY <1>0, <1>1
<1>3. SUFFICES Bad = {}
  BY <1>2 DEF SumsUp, g
<1>4. SUFFICES ASSUME Bad # {} PROVE FALSE
  OBVIOUS
<1>5. Bad \in SUBSET FiniteSubsetsOf(S)
  BY SubsetsAreFinite DEF Summable
<1>. HIDE DEF Bad
<1>6. PICK s \in Bad : \A t \in Bad : ~(t \subseteq s /\ t # s)
  BY <1>4, <1>5, MinimalSet
<1>7. s \in SUBSET S /\ ~Splits(s)
  BY DEF Bad
<1>8. PICK x \in s : g[s] # f[x] + g[s \ {x}]
  BY <1>7
<1>. DEFINE y == CHOOSE y \in s : TRUE
<1>9. y \in s /\ g[s] = f[y] + g[s \ {y}]
  BY <1>1, <1>7, <1>8
<1>. HIDE DEF y
<1>10. x # y
  BY <1>8, <1>9
<1>11. \A z \in s : Splits(s \ {z})
  <2>1. \A z \in s : s \ {z} \notin Bad
    BY <1>6
  <2>2. QED
    BY <1>7, <2>1 DEF Bad
<1>12. (s \ {y}) \ {x} = (s \ {x}) \ {y}
  OBVIOUS
<1>13. /\ g[s \ {y}] = f[x] + g[(s \ {y}) \ {x}]
       /\ g[s \ {x}] = f[y] + g[(s \ {y}) \ {x}]
  BY <1>8, <1>9, <1>10, <1>11, <1>12
<1>14. f[x] \in Nat /\ f[y] \in Nat /\ g[(s \ {y}) \ {x}] \in Nat
  BY <1>2, <1>7, <1>8, <1>9 DEF Summable
<1>15. QED
  BY <1>8, <1>9, <1>13, <1>14

\* A sum over more elements, or of greater values, is no less.
LEMMA SumMonotone ==
  ASSUME NEW T, NEW S, NEW f, NEW h, S \subseteq T,
         Summable(f, S), Summable(h, T), \A x \in S : f[x] <= h[x]
  PROVE  SumOf(f, S) <= SumOf(h, T)
<1>. DEFINE g == CHOOSE g : IsSum(g, f, S)
            k == CHOOSE k : IsSum(k, h, T)
            Below(s) == g[s \cap S] <= k[s]
            Bad == {s \in SUBSET T : ~Below(s)}
<1>1. SumsUp(g, f, S) /\ SumsUp(k, h, T)
  BY SumSplits
<1>. HIDE DEF g, k
<1>2. g \in [SUBSET S -> Nat] /\ k \in [SUBSET T -> Nat]
  BY <1>1 DEF SumsUp
<1>3. /\ g[{}] = 0 /\ \A s \in SUBSET S : \A x \in s : g[s] = f[x] + g[s \ {x}]
      /\ k[{}] = 0 /\ \A s \in SUBSET T : \A x \in s : k[s] = h[x] + k[s \ {x}]
  BY <1>1 DEF SumsUp
<1>4. SUFFICES Bad = {}
  <2>1. g[T \cap S] <= k[T] /\ T \cap S = S
    BY <1>4
  <2>2. QED
    BY <2>1 DEF SumOf, g, k
<1>5. SUFFICES ASSUME Bad # {} PROVE FALSE
  OBVIOUS
<1>6. Bad \in SUBSET FiniteSubsetsOf(T)
  BY SubsetsAreFinite DEF Summable
<1>. HIDE DEF Bad
<1>7. PICK s \in Bad : \A t \in Bad : ~(t \subseteq s /\ t # s)
  BY <1>5, <1>6, MinimalSet
<1>8. s \in SUBSET T /\ ~Below(s)
  BY DEF Bad
<1>9. PICK x \in s : TRUE
  <2>1. CASE s = {}
    <3>1. s \cap S = {}
      BY <2>1
    <3>2. QED
      BY <1>3, <1>8, <2>1, <3>1
  <2>2. QED
    BY <2>1
<1>. DEFINE rest == s \ {x}
<1>10. Below(rest)
  <2>1. rest \notin Bad
    BY <1>7, <1>9
  <2>2. QED
    BY <1>8, <2>1 DEF Bad
<1>11. k[s] = h[x] + k[rest]
  BY <1>3, <1>8
<1>12. /\ rest \in SUBSET T /\ s \cap S \in SUBSET S /\ rest \cap S \in SUBSET S
       /\ h[x] \in Nat
  BY <1>8 DEF Summable
<1>13. k[rest] \in Nat /\ g[rest \cap S] \in Nat /\ k[s] \in Nat /\ g[s \cap S] \in Nat
  BY <1>2, <1>8, <1>12
<1>14. CASE x \in S
  <2>1. rest \cap S = (s \cap S) \ {x} /\ x \in s \cap S
    BY <1>14
  <2>2. g[s \cap S] = f[x] + g[rest \cap S]
    BY <1>3, <1>12, <2>1
  <2>3. f[x] \in Nat /\ f[x] <= h[x]
    BY <1>14 DEF Summable
  <2>. HIDE DEF rest
  <2>4. QED
    BY <1>8, <1>10, <1>11, <1>12, <1>13, <2>2, <2>3
<1>15. CASE x \notin S
  <2>1. rest \cap S = s \cap S
    BY <1>15
  <2>2. g[s \cap S] <= k[rest]
    BY <1>10, <2>1
  <2>. HIDE DEF rest
  <2>3. QED
    BY <1>8, <1>11, <1>12, <1>13, <2>2
<1>16. QED
  BY <1>14, <1>15

\* A sum of natural numbers is one; it is 0 if all of them are.
LEMMA SumType ==
  ASSUME NEW S, NEW f, Summable(f, S)
  PROVE  SumOf(f, S) \in Nat
<1>. DEFINE g == CHOOSE g : IsSum(g, f, S)
<1>1. SumsUp(g, f, S)
  BY SumSplits
<1>. HIDE DEF g
<1>2. g[S] \in Nat
  BY <1>1 DEF SumsUp
<1>3. QED
  BY <1>2 DEF SumOf, g

\* A positive sum has a positive term.
LEMMA SumPositive ==
  ASSUME NEW S, NEW f, Summable(f, S), SumOf(f, S) > 0
  PROVE  \E x \in S : f[x] > 0
<1>. DEFINE g == CHOOSE g : IsSum(g, f, S)
            Bad == {s \in SUBSET S : g[s] # 0}
<1>1. SUFFICES ASSUME \A x \in S : ~(f[x] > 0) PROVE FALSE
  OBVIOUS
<1>2. \A x \in S : f[x] = 0
  BY <1>1 DEF Summable
<1>3. SumsUp(g, f, S)
  BY SumSplits
<1>4. S \in Bad
  BY DEF SumOf
<1>. HIDE DEF g
<1>5. g[{}] = 0 /\ \A s \in SUBSET S : \A x \in s : g[s] = f[x] + g[s \ {x}]
  BY <1>3 DEF SumsUp
<1>6. Bad \in SUBSET FiniteSubsetsOf(S)
  BY SubsetsAreFinite DEF Summable
<1>. HIDE DEF Bad
<1>7. PICK s \in Bad : \A t \in Bad : ~(t \subseteq s /\ t # s)
  BY <1>4, <1>6, MinimalSet
<1>8. s \in SUBSET S /\ g[s] # 0
  BY DEF Bad
<1>9. PICK x \in s : TRUE
  BY <1>5, <1>8
<1>10. g[s \ {x}] = 0
  <2>1. s \ {x} \notin Bad
    BY <1>7, <1>9
  <2>2. QED
    BY <1>8, <2>1 DEF Bad
<1>11. g[s] = 0 + 0
  BY <1>2, <1>5, <1>8, <1>9, <1>10
<1>12. QED
  BY <1>8, <1>11

-----------------------------------------------------------------------------
(* The queue of a topic.                                                   *)

\* The KEEP_LAST queue keeps its type, and holds the new message and nothing
\* else that it did not hold before.
LEMMA KeepLastProperties ==
  ASSUME NEW S, NEW q \in Seq(S), NEW m \in S, NEW depth \in Nat \ {0}
  PROVE  /\ KeepLast(q, m, depth) \in Seq(S)
         /\ \A n \in 1..Len(KeepLast(q, m, depth)) :
              \/ KeepLast(q, m, depth)[n] = m
              \/ \E k \in 1..Len(q) : KeepLast(q, m, depth)[n] = q[k]
<1> DEFINE rest == IF Len(q) < depth THEN q ELSE Tail(q)
<1>1. /\ rest \in Seq(S)
      /\ \A n \in 1..Len(rest) : \E k \in 1..Len(q) : rest[n] = q[k]
  <2>1. CASE Len(q) < depth
    BY <2>1
  <2>2. CASE ~(Len(q) < depth)
    <3>1. q # <<>>
      BY <2>2
    <3>2. /\ Tail(q) \in Seq(S) /\ Len(Tail(q)) = Len(q) - 1
          /\ \A n \in 1..Len(Tail(q)) : Tail(q)[n] = q[n + 1]
      BY <3>1, HeadTailProperties
    <3>3. \A n \in 1..Len(Tail(q)) : n + 1 \in 1..Len(q)
      BY <3>2, LenProperties
    <3>4. QED
      BY <2>2, <3>2, <3>3
  <2>3. QED
    BY <2>1, <2>2
<1>2. KeepLast(q, m, depth) = Append(rest, m)
  BY DEF KeepLast
<1> HIDE DEF rest
<1>3. /\ Append(rest, m) \in Seq(S)
      /\ Len(Append(rest, m)) = Len(rest) + 1
      /\ \A n \in 1..Len(rest) : Append(rest, m)[n] = rest[n]
      /\ Append(rest, m)[Len(rest) + 1] = m
  BY <1>1, AppendProperties
<1>4. ASSUME NEW n \in 1..Len(Append(rest, m)), Append(rest, m)[n] # m
      PROVE  \E k \in 1..Len(q) : Append(rest, m)[n] = q[k]
  <2>1. n \in 1..Len(rest)
    BY <1>1, <1>3, <1>4, LenProperties
  <2>2. QED
    BY <2>1, <1>1, <1>3
<1>5. QED
  BY <1>2, <1>3, <1>4

\* Taking the head leaves messages that were there before.
LEMMA DequeueProperties ==
  ASSUME NEW S, NEW q \in Seq(S), q # <<>>
  PROVE  /\ Head(q) \in S /\ Tail(q) \in Seq(S)
         /\ 1 \in 1..Len(q) /\ Head(q) = q[1]
         /\ \A n \in 1..Len(Tail(q)) : \E k \in 1..Len(q) : Tail(q)[n] = q[k]
<1>1. /\ Head(q) \in S /\ Tail(q) \in Seq(S) /\ Len(Tail(q)) = Len(q) - 1
      /\ \A n \in 1..Len(Tail(q)) : Tail(q)[n] = q[n + 1]
  BY HeadTailProperties
<1>2. Len(q) \in Nat /\ Len(q) # 0
  BY LenProperties, EmptySeq
<1>3. QED
  BY <1>1, <1>2

\* The queue keeps the order: what it holds moves up by at most one place, and
\* the new message is the last.
LEMMA KeepLastShifts ==
  ASSUME NEW S, NEW q \in Seq(S), NEW m \in S, NEW depth \in Nat \ {0}
  PROVE  /\ KeepLast(q, m, depth) \in Seq(S)
         /\ Len(q) <= depth => Len(KeepLast(q, m, depth)) <= depth
         /\ KeepLast(q, m, depth)[Len(KeepLast(q, m, depth))] = m
         /\ \E d \in {0, 1} :
              /\ Len(KeepLast(q, m, depth)) = Len(q) - d + 1
              /\ d = 1 => Len(q) > 0
              /\ \A n \in 1..(Len(q) - d) : KeepLast(q, m, depth)[n] = q[n + d]
<1> DEFINE rest == IF Len(q) < depth THEN q ELSE Tail(q)
<1>0. Len(q) \in Nat
  BY LenProperties
<1>1. rest \in Seq(S) /\ \E d \in {0, 1} :
        /\ Len(rest) = Len(q) - d
        /\ d = 1 => Len(q) > 0
        /\ Len(q) >= depth => d = 1
        /\ \A n \in 1..(Len(q) - d) : rest[n] = q[n + d]
  <2>1. CASE Len(q) < depth
    BY <1>0, <2>1
  <2>2. CASE ~(Len(q) < depth)
    <3>1. Len(q) > 0 /\ q # <<>>
      BY <1>0, <2>2, EmptySeq
    <3>2. /\ Tail(q) \in Seq(S) /\ Len(Tail(q)) = Len(q) - 1
          /\ \A n \in 1..Len(Tail(q)) : Tail(q)[n] = q[n + 1]
      BY <3>1, HeadTailProperties
    <3>3. QED
      BY <1>0, <2>2, <3>1, <3>2
  <2>3. QED
    BY <2>1, <2>2
<1>2. KeepLast(q, m, depth) = Append(rest, m)
  BY DEF KeepLast
<1> HIDE DEF rest
<1>3. /\ Append(rest, m) \in Seq(S)
      /\ Len(Append(rest, m)) = Len(rest) + 1
      /\ \A n \in 1..Len(rest) : Append(rest, m)[n] = rest[n]
      /\ Append(rest, m)[Len(rest) + 1] = m
  BY <1>1, AppendProperties
<1>4. QED
  BY <1>0, <1>1, <1>2, <1>3

\* What is left after the head was taken keeps its order.
LEMMA DequeueShifts ==
  ASSUME NEW S, NEW q \in Seq(S), q # <<>>
  PROVE  /\ Tail(q) \in Seq(S) /\ Len(Tail(q)) = Len(q) - 1
         /\ Len(q) \in Nat \ {0}
         /\ Head(q) = q[1] /\ Head(q) \in S
         /\ \A n \in 1..Len(Tail(q)) : Tail(q)[n] = q[n + 1]
BY HeadTailProperties, LenProperties, EmptySeq

-----------------------------------------------------------------------------
(* Lists of segments.                                                      *)

-----------------------------------------------------------------------------
(* Lists of segments.                                                      *)

\* No id is twice in the list.
Distinct(segs) ==
  \A n, k \in DOMAIN segs : segs[n].id = segs[k].id => n = k

\* s in the place of every segment of its id.
Replaced(segs, s) ==
  [n \in DOMAIN segs |-> IF segs[n].id = s.id THEN s ELSE segs[n]]

\* s after s, as the segments of s are put into u.
PutAll(u, s) == FoldLeft(PutSegment, u, s)

\* A list and its ids when a segment is appended.
LEMMA AppendSegment ==
  ASSUME NEW C, NEW segs \in Seq(C), NEW s \in C
  PROVE  /\ Append(segs, s) \in Seq(C)
         /\ Len(Append(segs, s)) = Len(segs) + 1 /\ Len(segs) \in Nat
         /\ DOMAIN segs = 1..Len(segs)
         /\ DOMAIN Append(segs, s) = 1..(Len(segs) + 1)
         /\ \A n \in 1..Len(segs) : Append(segs, s)[n] = segs[n] /\ segs[n] \in C
         /\ Append(segs, s)[Len(segs) + 1] = s
         /\ \A i : HasId(Append(segs, s), i) <=> HasId(segs, i) \/ i = s.id
<1>1. /\ Append(segs, s) \in Seq(C)
      /\ Len(Append(segs, s)) = Len(segs) + 1 /\ Len(segs) \in Nat
      /\ DOMAIN segs = 1..Len(segs)
      /\ \A n \in 1..Len(segs) : Append(segs, s)[n] = segs[n] /\ segs[n] \in C
      /\ Append(segs, s)[Len(segs) + 1] = s
  BY AppendProperties, LenProperties, ElementOfSeq
<1>2. DOMAIN Append(segs, s) = 1..(Len(segs) + 1)
  BY <1>1, LenProperties
<1>. DEFINE t == Append(segs, s)
<1>. HIDE DEF t
<1>3. ASSUME NEW i PROVE HasId(t, i) <=> HasId(segs, i) \/ i = s.id
  <2>1. ASSUME HasId(t, i) PROVE HasId(segs, i) \/ i = s.id
    <3>1. PICK n \in 1..(Len(segs) + 1) : t[n].id = i
      BY <1>2, <2>1 DEF HasId, t
    <3>2. n \in 1..Len(segs) \/ n = Len(segs) + 1
      BY <1>1, <3>1
    <3>3. QED
      BY <1>1, <3>1, <3>2 DEF HasId, t
  <2>2. ASSUME HasId(segs, i) PROVE HasId(t, i)
    <3>1. PICK n \in 1..Len(segs) : segs[n].id = i
      BY <1>1, <2>2 DEF HasId
    <3>2. n \in 1..(Len(segs) + 1)
      BY <1>1, <3>1
    <3>3. QED
      BY <1>1, <1>2, <3>1, <3>2 DEF HasId, t
  <2>3. ASSUME i = s.id PROVE HasId(t, i)
    <3>1. Len(segs) + 1 \in 1..(Len(segs) + 1)
      BY <1>1
    <3>2. QED
      BY <1>1, <1>2, <2>3, <3>1 DEF HasId, t
  <2>4. QED
    BY <2>1, <2>2, <2>3
<1>4. QED
  BY <1>1, <1>2, <1>3 DEF t

\* A list and its ids when a segment is replaced.
LEMMA ReplaceSegment ==
  ASSUME NEW C, NEW segs \in Seq(C), NEW s \in C
  PROVE  /\ Replaced(segs, s) \in Seq(C)
         /\ Len(Replaced(segs, s)) = Len(segs)
         /\ DOMAIN Replaced(segs, s) = DOMAIN segs
         /\ \A n \in DOMAIN segs : /\ Replaced(segs, s)[n].id = segs[n].id
                                   /\ Replaced(segs, s)[n] =
                                        IF segs[n].id = s.id THEN s ELSE segs[n]
         /\ \A i : HasId(Replaced(segs, s), i) <=> HasId(segs, i)
<1>. DEFINE put == [n \in 1..Len(segs) |-> IF segs[n].id = s.id THEN s ELSE segs[n]]
<1>1. /\ Len(segs) \in Nat /\ DOMAIN segs = 1..Len(segs)
      /\ \A n \in 1..Len(segs) : segs[n] \in C
  BY LenProperties, ElementOfSeq
<1>2. Replaced(segs, s) = put
  BY <1>1 DEF Replaced
<1>3. \A n \in 1..Len(segs) : (IF segs[n].id = s.id THEN s ELSE segs[n]) \in C
  BY <1>1
<1>4. put \in Seq(C)
  BY <1>1, <1>3, IsASeq
<1>5. DOMAIN put = 1..Len(segs)
  OBVIOUS
<1>6. \A n \in DOMAIN segs : /\ put[n].id = segs[n].id
                             /\ put[n] = IF segs[n].id = s.id THEN s ELSE segs[n]
  BY <1>1
<1>. HIDE DEF put
<1>7. Len(put) = Len(segs)
  <2>1. Len(put) \in Nat /\ DOMAIN put = 1..Len(put)
    BY <1>4, LenProperties
  <2>2. \A a, b \in Nat : 1..a = 1..b => a = b
    <3>1. ASSUME NEW a \in Nat, NEW b \in Nat, 1..a = 1..b, a < b PROVE FALSE
      <4>1. b \in 1..b /\ b \notin 1..a
        BY <3>1
      <4>2. QED
        BY <3>1, <4>1
    <3>2. \A a, b \in Nat : a = b \/ a < b \/ b < a
      OBVIOUS
    <3>3. QED
      BY <3>1, <3>2
  <2>3. QED
    BY <1>1, <1>5, <2>1, <2>2
<1>8. \A i : HasId(put, i) <=> HasId(segs, i)
  BY <1>1, <1>5, <1>6 DEF HasId
<1>9. QED
  BY <1>1, <1>2, <1>4, <1>5, <1>6, <1>7, <1>8

\* One more segment.
LEMMA PutProperties ==
  ASSUME NEW C, NEW segs \in Seq(C), NEW s \in C
  PROVE  /\ PutSegment(segs, s) \in Seq(C)
         /\ PutSegment(segs, s) =
              IF HasId(segs, s.id) THEN Replaced(segs, s) ELSE Append(segs, s)
         /\ Len(PutSegment(segs, s)) =
              IF HasId(segs, s.id) THEN Len(segs) ELSE Len(segs) + 1
         /\ \A i : HasId(PutSegment(segs, s), i) <=> HasId(segs, i) \/ i = s.id
         /\ Distinct(segs) => Distinct(PutSegment(segs, s))
<1>1. PutSegment(segs, s) =
        IF HasId(segs, s.id) THEN Replaced(segs, s) ELSE Append(segs, s)
  BY DEF PutSegment, Replaced
<1>2. CASE HasId(segs, s.id)
  <2>. DEFINE r == Replaced(segs, s)
  <2>1. DOMAIN r = DOMAIN segs /\ \A n \in DOMAIN segs : r[n].id = segs[n].id
    BY ReplaceSegment
  <2>. HIDE DEF r
  <2>2. Distinct(segs) => Distinct(r)
    BY <2>1 DEF Distinct
  <2>3. \A i : HasId(Replaced(segs, s), i) <=> HasId(segs, i) \/ i = s.id
    BY <1>2, ReplaceSegment
  <2>4. QED
    BY <1>1, <1>2, <2>3, <2>2, ReplaceSegment DEF r
<1>3. CASE ~HasId(segs, s.id)
  <2>. DEFINE t == Append(segs, s)
              N == Len(segs)
  <2>1. /\ t \in Seq(C) /\ Len(t) = N + 1 /\ N \in Nat
        /\ DOMAIN segs = 1..N /\ DOMAIN t = 1..(N + 1)
        /\ \A n \in 1..N : t[n] = segs[n]
        /\ t[N + 1] = s
        /\ \A i : HasId(t, i) <=> HasId(segs, i) \/ i = s.id
    BY AppendSegment
  <2>. HIDE DEF t, N
  <2>2. \A n \in 1..N : t[n].id # s.id
    BY <1>3, <2>1 DEF HasId
  <2>3. ASSUME Distinct(segs), NEW n \in DOMAIN t, NEW k \in DOMAIN t, t[n].id = t[k].id
        PROVE  n = k
    <3>1. /\ n \in 1..N \/ n = N + 1
          /\ k \in 1..N \/ k = N + 1
      BY <2>1
    <3>2. QED
      BY <2>1, <2>2, <2>3, <3>1 DEF Distinct
  <2>4. Distinct(segs) => Distinct(t)
    BY <2>3 DEF Distinct
  <2>5. QED
    BY <1>1, <1>3, <2>1, <2>4 DEF t, N
<1>4. QED
  BY <1>2, <1>3

\* Two segments of one id: the second counts.
LEMMA PutAgain ==
  ASSUME NEW C, NEW w \in Seq(C), NEW x \in C, NEW y \in C, x.id = y.id
  PROVE  PutSegment(PutSegment(w, y), x) = PutSegment(w, x)
<1>. DEFINE v == PutSegment(w, y)
<1>1. /\ v \in Seq(C) /\ HasId(v, x.id)
      /\ v = IF HasId(w, y.id) THEN Replaced(w, y) ELSE Append(w, y)
  BY PutProperties
<1>2. PutSegment(v, x) = Replaced(v, x)
  BY <1>1, PutProperties
<1>3. PutSegment(w, x) = IF HasId(w, x.id) THEN Replaced(w, x) ELSE Append(w, x)
  BY PutProperties
<1>4. CASE HasId(w, x.id)
  <2>1. v = Replaced(w, y)
    BY <1>1, <1>4
  <2>2. Replaced(v, x) = Replaced(w, x)
    BY <2>1 DEF Replaced
  <2>3. QED
    BY <1>2, <1>3, <1>4, <2>2
<1>5. CASE ~HasId(w, x.id)
  <2>1. v = Append(w, y)
    BY <1>1, <1>5
  <2>. HIDE DEF v
  <2>. DEFINE N == Len(w)
  <2>2. /\ N \in Nat /\ DOMAIN w = 1..N /\ DOMAIN v = 1..(N + 1)
        /\ Append(w, x) \in Seq(C) /\ DOMAIN Append(w, x) = 1..(N + 1)
        /\ Len(Append(w, x)) = N + 1 /\ Len(v) = N + 1
        /\ \A n \in 1..N : v[n] = w[n] /\ Append(w, x)[n] = w[n]
        /\ v[N + 1] = y /\ Append(w, x)[N + 1] = x
    BY <2>1, AppendSegment
  <2>3. v \in Seq(C)
    BY <1>1
  <2>4. /\ Replaced(v, x) \in Seq(C) /\ Len(Replaced(v, x)) = Len(v)
        /\ \A n \in DOMAIN v : Replaced(v, x)[n] = IF v[n].id = x.id THEN x ELSE v[n]
    BY <2>3, ReplaceSegment
  <2>5. \A n \in 1..N : w[n].id # x.id
    BY <1>5, <2>2 DEF HasId
  <2>. HIDE DEF N
  <2>6. ASSUME NEW n \in 1..(N + 1) PROVE Replaced(v, x)[n] = Append(w, x)[n]
    <3>1. n \in 1..N \/ n = N + 1
      BY <2>2
    <3>2. QED
      BY <2>2, <2>4, <2>5, <2>6, <3>1
  <2>7. Replaced(v, x) = Append(w, x)
    BY <2>2, <2>4, <2>6, SeqEqual
  <2>8. QED
    BY <1>2, <1>3, <1>5, <2>7 DEF v
<1>6. QED
  BY <1>4, <1>5

\* Two segments of different ids: if the one has its place, either may come
\* first.
LEMMA PutInAnyOrder ==
  ASSUME NEW C, NEW w \in Seq(C), NEW x \in C, NEW y \in C,
         x.id # y.id, HasId(w, x.id)
  PROVE  PutSegment(PutSegment(w, x), y) = PutSegment(PutSegment(w, y), x)
<1>. DEFINE wx == Replaced(w, x)
            wy == PutSegment(w, y)
<1>1. /\ PutSegment(w, x) = wx /\ wx \in Seq(C)
      /\ \A i : HasId(wx, i) <=> HasId(w, i)
  BY PutProperties, ReplaceSegment
<1>2. /\ wy \in Seq(C) /\ HasId(wy, x.id)
      /\ wy = IF HasId(w, y.id) THEN Replaced(w, y) ELSE Append(w, y)
  BY PutProperties
<1>3. PutSegment(wy, x) = Replaced(wy, x)
  BY <1>2, PutProperties
<1>4. PutSegment(wx, y) = IF HasId(w, y.id) THEN Replaced(wx, y) ELSE Append(wx, y)
  BY <1>1, PutProperties
<1>5. CASE HasId(w, y.id)
  <2>1. wy = Replaced(w, y)
    BY <1>2, <1>5
  <2>2. DOMAIN wx = DOMAIN w /\ DOMAIN Replaced(w, y) = DOMAIN w
    BY ReplaceSegment
  <2>3. Replaced(wx, y) = Replaced(Replaced(w, y), x)
    BY <2>2 DEF Replaced
  <2>4. QED
    BY <1>1, <1>3, <1>4, <1>5, <2>1, <2>3
<1>6. CASE ~HasId(w, y.id)
  <2>. DEFINE N == Len(w)
              a == Append(w, y)
              b == Append(wx, y)
  <2>1. wy = a
    BY <1>2, <1>6
  <2>2. N \in Nat /\ DOMAIN w = 1..N
    BY LenProperties
  <2>3. Len(wx) = N /\ \A n \in DOMAIN w : wx[n] = IF w[n].id = x.id THEN x ELSE w[n]
    BY ReplaceSegment
  <2>. HIDE DEF N, wx
  <2>4. /\ N \in Nat /\ DOMAIN w = 1..N /\ Len(wx) = N
        /\ \A n \in 1..N : wx[n] = IF w[n].id = x.id THEN x ELSE w[n]
    BY <2>2, <2>3
  <2>5. /\ a \in Seq(C) /\ Len(a) = N + 1 /\ DOMAIN a = 1..(N + 1)
        /\ a[N + 1] = y /\ \A n \in 1..N : a[n] = w[n]
    BY AppendSegment DEF N
  <2>6. /\ b \in Seq(C) /\ Len(b) = N + 1
        /\ b[N + 1] = y /\ \A n \in 1..N : b[n] = wx[n]
    BY <1>1, <2>4, AppendSegment
  <2>. HIDE DEF a, b
  <2>7. /\ Replaced(a, x) \in Seq(C) /\ Len(Replaced(a, x)) = N + 1
        /\ \A n \in DOMAIN a : Replaced(a, x)[n] = IF a[n].id = x.id THEN x ELSE a[n]
    BY <2>5, ReplaceSegment
  <2>8. ASSUME NEW n \in 1..(N + 1) PROVE Replaced(a, x)[n] = b[n]
    <3>1. n \in 1..N \/ n = N + 1
      BY <2>4
    <3>2. QED
      BY <2>4, <2>5, <2>6, <2>7, <2>8, <3>1
  <2>9. Replaced(a, x) = b
    BY <2>4, <2>6, <2>7, <2>8, SeqEqual
  <2>10. QED
    BY <1>1, <1>3, <1>4, <1>6, <2>1, <2>9 DEF b
<1>7. QED
  BY <1>5, <1>6

\* PutAll goes through s step by step.
LEMMA PutAllSteps ==
  ASSUME NEW C, NEW u \in Seq(C), NEW s \in Seq(C)
  PROVE  \E f \in [0..Len(s) -> Seq(C)] :
           /\ f[0] = u /\ f[Len(s)] = PutAll(u, s)
           /\ \A k \in 1..Len(s) : f[k] = PutSegment(f[k - 1], s[k])
<1>. DEFINE n == Len(s)
            D == 1..n
            V == Seq(C)
            Put(v, x) == PutSegment(v, x)
            step == [p \in D \X V |-> Put(p[2], s[p[1]])]
            Value(g, r) == IF r = {} THEN u
                           ELSE LET x == Max(r) IN Put(g[r \ {x}], s[x])
            P(g) == g = [r \in SUBSET D |-> Value(g, r)]
<1>1. n \in Nat /\ DOMAIN s = D /\ \A k \in D : s[k] \in C
  BY LenProperties, ElementOfSeq
<1>2. PutAll(u, s) = (CHOOSE g : P(g))[D]
  BY <1>1 DEF PutAll, FoldLeft, MapThenFoldSet
<1>3. \A v \in V, x \in C : Put(v, x) \in V
  BY PutProperties
<1>. HIDE DEF Put, V
<1>4. \A k \in D, v \in V : step[<<k, v>>] = Put(v, s[k]) /\ step[<<k, v>>] \in V
  BY <1>1, <1>3
<1>. HIDE DEF step
<1>5. u \in V
  BY DEF V
<1>6. n \in Nat /\ Closed(step, n, V)
  BY <1>1, <1>4 DEF Closed
<1>7. PICK g \in [SUBSET (1..n) -> V] : g[{}] = u /\ FoldsUp(g, n, V, step)
  BY <1>5, <1>6, FoldOfPositions
<1>8. \A r \in SUBSET D : r # {} => Max(r) \in D
  BY <1>1, MaxIsNext
<1>9. P(g)
  <2>1. ASSUME NEW r \in SUBSET D PROVE g[r] = Value(g, r)
    <3>1. CASE r = {}
      BY <1>7, <3>1
    <3>2. CASE r # {}
      <4>1. Max(r) \in D /\ g[r \ {Max(r)}] \in V
        BY <1>8, <3>2
      <4>2. QED
        BY <1>4, <1>7, <3>2, <4>1 DEF FoldsUp
    <3>3. QED
      BY <3>1, <3>2
  <2>2. QED
    BY <2>1
<1>10. PICK h : h = (CHOOSE k : P(k))
  OBVIOUS
<1>11. P(h)
  BY <1>9, <1>10
<1>12. h[{}] = u
  BY <1>11
<1>13. FoldsUp(h, n, V, step)
  <2>1. ASSUME NEW r \in SUBSET D, r # {}, h[r \ {Max(r)}] \in V
        PROVE  h[r] = step[<<Max(r), h[r \ {Max(r)}]>>]
    <3>1. h[r] = Put(h[r \ {Max(r)}], s[Max(r)])
      BY <1>11, <2>1
    <3>2. QED
      BY <1>4, <1>8, <2>1, <3>1
  <2>2. QED
    BY <2>1 DEF FoldsUp
<1>. HIDE DEF P
<1>14. PICK f \in [0..n -> V] : f[n] = h[1..n] /\ Along(f, n, u, step)
  <2>. HIDE DEF n
  <2>1. QED
    BY <1>5, <1>6, <1>12, <1>13, FoldAlongPrefixes
<1>15. \A k \in 1..n : f[k] = Put(f[k - 1], s[k])
  <2>1. \A k \in 1..n : k - 1 \in 0..n
    BY <1>6
  <2>2. QED
    BY <1>4, <1>14, <2>1 DEF Along
<1>16. f[n] = PutAll(u, s)
  BY <1>2, <1>10, <1>14
<1>17. QED
  BY <1>14, <1>15, <1>16 DEF V, Put, Along

\* One by one, and the last one last.
LEMMA PutAllRecursion ==
  ASSUME NEW C, NEW u \in Seq(C)
  PROVE  /\ PutAll(u, <<>>) = u
         /\ \A s \in Seq(C) : PutAll(u, s) \in Seq(C)
         /\ \A s \in Seq(C), x \in C :
              PutAll(u, Append(s, x)) = PutSegment(PutAll(u, s), x)
<1>1. PutAll(u, <<>>) = u
  <2>1. <<>> \in Seq(C) /\ Len(<<>>) = 0
    BY EmptySeq
  <2>2. ASSUME NEW s \in Seq(C), Len(s) = 0 PROVE PutAll(u, s) = u
    <3>1. PICK f \in [0..Len(s) -> Seq(C)] : f[0] = u /\ f[Len(s)] = PutAll(u, s)
      BY PutAllSteps
    <3>2. QED
      BY <2>2, <3>1
  <2>3. QED
    BY <2>1, <2>2
<1>2. ASSUME NEW s \in Seq(C) PROVE PutAll(u, s) \in Seq(C)
  <2>1. PICK f \in [0..Len(s) -> Seq(C)] : f[Len(s)] = PutAll(u, s)
    BY PutAllSteps
  <2>2. Len(s) \in 0..Len(s)
    BY LenProperties
  <2>3. QED
    BY <2>1, <2>2
<1>3. ASSUME NEW s \in Seq(C), NEW x \in C
      PROVE  PutAll(u, Append(s, x)) = PutSegment(PutAll(u, s), x)
  <2>. DEFINE n == Len(s)
              t == Append(s, x)
  <2>1. /\ t \in Seq(C) /\ n \in Nat /\ Len(t) = n + 1
        /\ t[n + 1] = x /\ \A k \in 1..n : t[k] = s[k]
    BY AppendSegment
  <2>2. PICK f \in [0..n -> Seq(C)] :
          /\ f[0] = u /\ f[n] = PutAll(u, s)
          /\ \A k \in 1..n : f[k] = PutSegment(f[k - 1], s[k])
    BY PutAllSteps
  <2>. HIDE DEF t
  <2>3. PICK h \in [0..(n + 1) -> Seq(C)] :
          /\ h[0] = u /\ h[n + 1] = PutAll(u, t)
          /\ \A k \in 1..(n + 1) : h[k] = PutSegment(h[k - 1], t[k])
    BY <2>1, PutAllSteps
  <2>. HIDE DEF n
  <2>4. Alike(f, h, n)
    <3>1. \A k \in 1..n : k \in 1..(n + 1)
      BY <2>1
    <3>2. QED
      BY <2>1, <2>2, <2>3, <3>1 DEF Alike
  <2>5. \A k \in 0..n : f[k] = h[k]
    <3>1. n \in Nat
      BY <2>1
    <3>2. QED
      BY <2>4, <3>1, SameFold
  <2>6. n \in 0..n /\ n + 1 \in 1..(n + 1) /\ (n + 1) - 1 = n
    <3>1. n \in Nat
      BY <2>1
    <3>2. QED
      BY <3>1
  <2>7. QED
    BY <2>1, <2>2, <2>3, <2>5, <2>6 DEF t
<1>4. QED
  BY <1>1, <1>2, <1>3

\* LastWins begins with nothing, and its list has no id twice.
LEMMA LastWinsRecursion ==
  ASSUME NEW C
  PROVE  /\ LastWins(<<>>) = <<>>
         /\ \A s \in Seq(C), x \in C : LastWins(Append(s, x)) = PutSegment(LastWins(s), x)
         /\ \A s \in Seq(C) : /\ LastWins(s) = PutAll(<<>>, s)
                              /\ LastWins(s) \in Seq(C)
                              /\ Distinct(LastWins(s))
                              /\ \A i : HasId(LastWins(s), i) <=> HasId(s, i)
<1>1. \A s : LastWins(s) = PutAll(<<>>, s)
  BY DEF LastWins, PutAll
<1>2. <<>> \in Seq(C) /\ DOMAIN <<>> = {}
  BY EmptySeq
<1>3. LastWins(<<>>) = <<>>
  BY <1>1, <1>2, PutAllRecursion
<1>4. \A s \in Seq(C), x \in C : LastWins(Append(s, x)) = PutSegment(LastWins(s), x)
  <2>1. \A s \in Seq(C), x \in C :
          PutAll(<<>>, Append(s, x)) = PutSegment(PutAll(<<>>, s), x)
    <3>1. ASSUME NEW u \in Seq(C), NEW s \in Seq(C), NEW x \in C
          PROVE  PutAll(u, Append(s, x)) = PutSegment(PutAll(u, s), x)
      BY PutAllRecursion
    <3>2. QED
      BY <1>2, <3>1
  <2>2. QED
    BY <1>1, <2>1
<1>. DEFINE Good(s) == /\ LastWins(s) \in Seq(C) /\ Distinct(LastWins(s))
                       /\ \A i : HasId(LastWins(s), i) <=> HasId(s, i)
            G == {s \in Seq(C) : Good(s)}
<1>5. <<>> \in G
  BY <1>2, <1>3 DEF Distinct
<1>6. ASSUME NEW s \in Seq(C), NEW x \in C, s \in G PROVE Append(s, x) \in G
  <2>1. Good(s)
    BY <1>6
  <2>2. Append(s, x) \in Seq(C) /\ \A i : HasId(Append(s, x), i) <=> HasId(s, i) \/ i = x.id
    BY AppendSegment
  <2>3. LastWins(Append(s, x)) = PutSegment(LastWins(s), x)
    BY <1>4
  <2>4. /\ PutSegment(LastWins(s), x) \in Seq(C)
        /\ \A i : HasId(PutSegment(LastWins(s), x), i) <=> HasId(LastWins(s), i) \/ i = x.id
        /\ Distinct(PutSegment(LastWins(s), x))
    BY <2>1, PutProperties
  <2>5. Good(Append(s, x))
    BY <2>1, <2>2, <2>3, <2>4
  <2>6. QED
    BY <2>2, <2>5
<1>7. Seq(C) \subseteq G
  <2>. HIDE DEF G
  <2>1. QED
    BY <1>5, <1>6, Appending
<1>8. QED
  BY <1>1, <1>3, <1>4, <1>7

\* The ids in the end are those of both lists.
LEMMA PutAllIds ==
  ASSUME NEW C, NEW u \in Seq(C), NEW t \in Seq(C), NEW i
  PROVE  HasId(PutAll(u, t), i) <=> HasId(u, i) \/ HasId(t, i)
<1>. DEFINE Good(s) == HasId(PutAll(u, s), i) <=> HasId(u, i) \/ HasId(s, i)
            G == {s \in Seq(C) : Good(s)}
<1>1. <<>> \in G
  <2>1. <<>> \in Seq(C) /\ DOMAIN <<>> = {}
    BY EmptySeq
  <2>2. ~HasId(<<>>, i)
    BY <2>1 DEF HasId
  <2>3. PutAll(u, <<>>) = u
    BY PutAllRecursion
  <2>4. QED
    BY <2>1, <2>2, <2>3
<1>2. ASSUME NEW s \in Seq(C), NEW x \in C, s \in G PROVE Append(s, x) \in G
  <2>1. Append(s, x) \in Seq(C) /\ (HasId(Append(s, x), i) <=> HasId(s, i) \/ i = x.id)
    BY AppendSegment
  <2>2. /\ PutAll(u, s) \in Seq(C)
        /\ PutAll(u, Append(s, x)) = PutSegment(PutAll(u, s), x)
    BY PutAllRecursion
  <2>3. HasId(PutSegment(PutAll(u, s), x), i) <=> HasId(PutAll(u, s), i) \/ i = x.id
    BY <2>2, PutProperties
  <2>4. QED
    BY <1>2, <2>1, <2>2, <2>3
<1>3. Seq(C) \subseteq G
  <2>. HIDE DEF G
  <2>1. QED
    BY <1>1, <1>2, Appending
<1>4. QED
  BY <1>3

\* Replacing goes element by element.
LEMMA ReplacedAppend ==
  ASSUME NEW C, NEW t \in Seq(C), NEW x \in C, NEW y \in C
  PROVE  /\ Replaced(Append(t, y), x) =
              Append(Replaced(t, x), IF y.id = x.id THEN x ELSE y)
         /\ ~HasId(t, x.id) => Replaced(t, x) = t
<1>. DEFINE N == Len(t)
            z == IF y.id = x.id THEN x ELSE y
            a == Append(t, y)
            r == Replaced(t, x)
            b == Append(r, z)
<1>1. /\ N \in Nat /\ DOMAIN t = 1..N
      /\ a \in Seq(C) /\ Len(a) = N + 1 /\ DOMAIN a = 1..(N + 1)
      /\ a[N + 1] = y /\ \A n \in 1..N : a[n] = t[n]
  BY AppendSegment
<1>2. /\ r \in Seq(C) /\ Len(r) = N
      /\ \A n \in DOMAIN t : r[n] = IF t[n].id = x.id THEN x ELSE t[n]
  BY ReplaceSegment
<1>3. z \in C
  OBVIOUS
<1>. HIDE DEF r
<1>4. /\ b \in Seq(C) /\ Len(b) = Len(r) + 1
      /\ b[Len(r) + 1] = z /\ \A n \in 1..Len(r) : b[n] = r[n]
  <2>. HIDE DEF z
  <2>1. QED
    BY <1>2, <1>3, AppendSegment
<1>. HIDE DEF a, b, N
<1>5. /\ Replaced(a, x) \in Seq(C) /\ Len(Replaced(a, x)) = Len(a)
      /\ \A n \in DOMAIN a : Replaced(a, x)[n] = IF a[n].id = x.id THEN x ELSE a[n]
  <2>1. a \in Seq(C)
    BY <1>1
  <2>2. QED
    BY <2>1, ReplaceSegment
<1>6. ASSUME NEW n \in 1..(N + 1) PROVE Replaced(a, x)[n] = b[n]
  <2>1. n \in 1..N \/ n = N + 1
    BY <1>1
  <2>2. QED
    BY <1>1, <1>2, <1>4, <1>5, <1>6, <2>1
<1>7. Replaced(a, x) = b
  BY <1>1, <1>2, <1>4, <1>5, <1>6, SeqEqual
<1>8. ASSUME ~HasId(t, x.id) PROVE r = t
  <2>1. \A n \in 1..N : r[n] = t[n]
    BY <1>1, <1>2, <1>8 DEF HasId
  <2>2. Len(r) = Len(t)
    BY <1>2 DEF N
  <2>3. QED
    BY <1>2, <2>1, <2>2, SeqEqual DEF N
<1>9. QED
  BY <1>7, <1>8 DEF a, b, r

\* Putting a list in which a segment was replaced is putting the segment last.
LEMMA PutReplaced ==
  ASSUME NEW C, NEW u \in Seq(C), NEW t \in Seq(C), NEW x \in C, HasId(t, x.id)
  PROVE  PutAll(u, Replaced(t, x)) = PutSegment(PutAll(u, t), x)
<1>. DEFINE Good(s) == HasId(s, x.id) =>
                         PutAll(u, Replaced(s, x)) = PutSegment(PutAll(u, s), x)
            G == {s \in Seq(C) : Good(s)}
<1>1. <<>> \in G
  <2>1. <<>> \in Seq(C) /\ DOMAIN <<>> = {}
    BY EmptySeq
  <2>2. ~HasId(<<>>, x.id)
    BY <2>1 DEF HasId
  <2>3. QED
    BY <2>1, <2>2
<1>2. ASSUME NEW s \in Seq(C), NEW y \in C, s \in G, HasId(Append(s, y), x.id)
      PROVE  PutAll(u, Replaced(Append(s, y), x)) = PutSegment(PutAll(u, Append(s, y)), x)
  <2>. DEFINE z == IF y.id = x.id THEN x ELSE y
              w == PutAll(u, s)
              r == Replaced(s, x)
  <2>1. /\ Replaced(Append(s, y), x) = Append(r, z)
        /\ ~HasId(s, x.id) => r = s
    BY ReplacedAppend
  <2>2. r \in Seq(C) /\ z \in C
    BY ReplaceSegment
  <2>3. w \in Seq(C) /\ PutAll(u, Append(s, y)) = PutSegment(w, y)
    BY PutAllRecursion
  <2>. HIDE DEF w, z
  <2>4. PutAll(u, Append(r, z)) = PutSegment(PutAll(u, r), z)
    <3>. HIDE DEF r
    <3>1. QED
      BY <2>2, PutAllRecursion
  <2>5. HasId(s, x.id) => PutAll(u, r) = PutSegment(w, x)
    BY <1>2 DEF w
  <2>6. CASE y.id = x.id
    <3>1. z = x
      BY <2>6 DEF z
    <3>2. PutSegment(PutSegment(w, y), x) = PutSegment(w, x)
      BY <2>3, <2>6, PutAgain
    <3>3. PutSegment(PutSegment(w, x), x) = PutSegment(w, x)
      BY <2>3, PutAgain
    <3>4. ~HasId(s, x.id) => PutAll(u, r) = w
      BY <2>1 DEF w
    <3>5. QED
      BY <2>1, <2>3, <2>4, <2>5, <3>1, <3>2, <3>3, <3>4
  <2>7. CASE y.id # x.id
    <3>1. z = y
      BY <2>7 DEF z
    <3>2. HasId(s, x.id)
      BY <1>2, <2>7, AppendSegment
    <3>3. HasId(w, x.id)
      BY <3>2, PutAllIds DEF w
    <3>4. PutSegment(PutSegment(w, x), y) = PutSegment(PutSegment(w, y), x)
      BY <2>3, <2>7, <3>3, PutInAnyOrder
    <3>5. QED
      BY <2>1, <2>3, <2>4, <2>5, <3>1, <3>2, <3>4
  <2>8. QED
    BY <2>6, <2>7
<1>3. ASSUME NEW s \in Seq(C), NEW y \in C, s \in G PROVE Append(s, y) \in G
  <2>1. Append(s, y) \in Seq(C)
    BY AppendSegment
  <2>2. QED
    BY <1>2, <1>3, <2>1
<1>4. Seq(C) \subseteq G
  <2>. HIDE DEF G
  <2>1. QED
    BY <1>1, <1>3, Appending
<1>5. QED
  BY <1>4

\* A list may be stripped of what is replaced anyway before it is put.
LEMMA PutLastWins ==
  ASSUME NEW C, NEW u \in Seq(C), NEW s \in Seq(C)
  PROVE  PutAll(u, LastWins(s)) = PutAll(u, s)
<1>. DEFINE G == {t \in Seq(C) : PutAll(u, LastWins(t)) = PutAll(u, t)}
<1>1. <<>> \in G
  BY EmptySeq, LastWinsRecursion
<1>2. ASSUME NEW t \in Seq(C), NEW x \in C, t \in G PROVE Append(t, x) \in G
  <2>. DEFINE l == LastWins(t)
  <2>1. l \in Seq(C) /\ LastWins(Append(t, x)) = PutSegment(l, x)
    BY LastWinsRecursion
  <2>2. /\ Append(t, x) \in Seq(C)
        /\ PutAll(u, Append(t, x)) = PutSegment(PutAll(u, t), x)
    BY AppendSegment, PutAllRecursion
  <2>3. PutAll(u, l) = PutAll(u, t)
    BY <1>2
  <2>. HIDE DEF l
  <2>4. PutSegment(l, x) = IF HasId(l, x.id) THEN Replaced(l, x) ELSE Append(l, x)
    BY <2>1, PutProperties
  <2>5. PutAll(u, PutSegment(l, x)) = PutSegment(PutAll(u, l), x)
    <3>1. CASE HasId(l, x.id)
      BY <2>1, <2>4, <3>1, PutReplaced
    <3>2. CASE ~HasId(l, x.id)
      BY <2>1, <2>4, <3>2, PutAllRecursion
    <3>3. QED
      BY <3>1, <3>2
  <2>6. QED
    BY <2>1, <2>2, <2>3, <2>5
<1>3. Seq(C) \subseteq G
  <2>. HIDE DEF G
  <2>1. QED
    BY <1>1, <1>2, Appending
<1>4. QED
  BY <1>3

\* Two lists after each other.
LEMMA PutConcatenated ==
  ASSUME NEW C, NEW u \in Seq(C), NEW s \in Seq(C), NEW t \in Seq(C)
  PROVE  PutAll(u, s \o t) = PutAll(PutAll(u, s), t)
<1>. DEFINE w == PutAll(u, s)
            G == {r \in Seq(C) : PutAll(u, s \o r) = PutAll(w, r)}
<1>1. w \in Seq(C)
  BY PutAllRecursion
<1>. HIDE DEF w
<1>2. <<>> \in G
  <2>1. <<>> \in Seq(C) /\ s \o <<>> = s
    BY EmptySeq, ConcatEmptySeq
  <2>2. PutAll(w, <<>>) = w
    BY <1>1, PutAllRecursion
  <2>3. QED
    BY <2>1, <2>2 DEF w
<1>3. ASSUME NEW r \in Seq(C), NEW x \in C, r \in G PROVE Append(r, x) \in G
  <2>1. <<x>> \in Seq(C) /\ Append(r, x) \in Seq(C) /\ s \o r \in Seq(C)
    BY AppendSegment, ConcatProperties
  <2>2. s \o Append(r, x) = Append(s \o r, x)
    <3>1. Append(r, x) = r \o <<x>>
      BY AppendIsConcat
    <3>2. Append(s \o r, x) = (s \o r) \o <<x>>
      BY <2>1, AppendIsConcat
    <3>3. (s \o r) \o <<x>> = s \o (r \o <<x>>)
      BY <2>1, ConcatAssociative
    <3>4. QED
      BY <3>1, <3>2, <3>3
  <2>3. PutAll(u, Append(s \o r, x)) = PutSegment(PutAll(u, s \o r), x)
    <3>. DEFINE sr == s \o r
    <3>1. sr \in Seq(C)
      BY <2>1
    <3>. HIDE DEF sr
    <3>2. PutAll(u, Append(sr, x)) = PutSegment(PutAll(u, sr), x)
      BY <3>1, PutAllRecursion
    <3>3. QED
      BY <3>2 DEF sr
  <2>4. PutAll(w, Append(r, x)) = PutSegment(PutAll(w, r), x)
    BY <1>1, PutAllRecursion
  <2>5. QED
    BY <1>3, <2>1, <2>2, <2>3, <2>4
<1>4. Seq(C) \subseteq G
  <2>. HIDE DEF G
  <2>1. QED
    BY <1>2, <1>3, Appending
<1>5. QED
  BY <1>4 DEF w

\* Duplicates goes through s step by step.
LEMMA DuplicatesSteps ==
  ASSUME NEW C, NEW s \in Seq(C)
  PROVE  \E f \in [0..Len(s) -> Seq({x.id : x \in C})] :
           /\ f[0] = <<>> /\ f[Len(s)] = Duplicates(s)
           /\ \A k \in 1..Len(s) :
                f[k] = IF HasId(SubSeq(s, 1, k - 1), s[k].id)
                       THEN Append(f[k - 1], s[k].id) ELSE f[k - 1]
<1>. DEFINE n == Len(s)
            D == 1..n
            V == Seq({x.id : x \in C})
            Meet(v, k) == IF HasId(SubSeq(s, 1, k - 1), s[k].id)
                          THEN Append(v, s[k].id) ELSE v
            step == [p \in D \X V |-> Meet(p[2], p[1])]
            Value(g, r) == IF r = {} THEN <<>>
                           ELSE LET x == Max(r) IN Meet(g[r \ {x}], [i \in D |-> i][x])
            P(g) == g = [r \in SUBSET D |-> Value(g, r)]
<1>1. n \in Nat /\ DOMAIN s = D /\ \A k \in D : s[k] \in C
  BY LenProperties, ElementOfSeq
<1>2. Duplicates(s) = (CHOOSE g : P(g))[D]
  <2>. HIDE DEF Meet
  <2>1. Duplicates(s) = FoldLeftDomain(Meet, <<>>, s)
    BY DEF Duplicates, Meet
  <2>2. QED
    BY <1>1, <2>1 DEF FoldLeftDomain, FoldLeft, MapThenFoldSet
<1>3. \A k \in D, v \in V : Meet(v, k) \in V
  <2>1. ASSUME NEW k \in D, NEW v \in V PROVE Append(v, s[k].id) \in V
    <3>1. s[k].id \in {x.id : x \in C}
      BY <1>1
    <3>2. QED
      BY <3>1, AppendProperties
  <2>2. QED
    BY <2>1
<1>4. <<>> \in V
  BY EmptySeq
<1>. HIDE DEF Meet, V
<1>5. \A k \in D, v \in V : step[<<k, v>>] = Meet(v, k) /\ step[<<k, v>>] \in V
  BY <1>3
<1>. HIDE DEF step
<1>6. n \in Nat /\ Closed(step, n, V)
  BY <1>1, <1>5 DEF Closed
<1>7. PICK g \in [SUBSET (1..n) -> V] : g[{}] = <<>> /\ FoldsUp(g, n, V, step)
  BY <1>4, <1>6, FoldOfPositions
<1>8. \A r \in SUBSET D : r # {} => Max(r) \in D /\ [i \in D |-> i][Max(r)] = Max(r)
  BY <1>1, MaxIsNext
<1>9. P(g)
  <2>1. ASSUME NEW r \in SUBSET D PROVE g[r] = Value(g, r)
    <3>1. CASE r = {}
      BY <1>7, <3>1
    <3>2. CASE r # {}
      <4>1. Max(r) \in D /\ g[r \ {Max(r)}] \in V
        BY <1>8, <3>2
      <4>2. g[r] = Meet(g[r \ {Max(r)}], Max(r))
        BY <1>5, <1>7, <3>2, <4>1 DEF FoldsUp
      <4>3. QED
        BY <1>8, <3>2, <4>2
    <3>3. QED
      BY <3>1, <3>2
  <2>2. QED
    BY <2>1
<1>10. PICK h : h = (CHOOSE k : P(k))
  OBVIOUS
<1>11. P(h)
  BY <1>9, <1>10
<1>12. h[{}] = <<>>
  BY <1>11
<1>13. FoldsUp(h, n, V, step)
  <2>1. ASSUME NEW r \in SUBSET D, r # {}, h[r \ {Max(r)}] \in V
        PROVE  h[r] = step[<<Max(r), h[r \ {Max(r)}]>>]
    <3>1. h[r] = Meet(h[r \ {Max(r)}], Max(r))
      BY <1>8, <1>11, <2>1
    <3>2. QED
      BY <1>5, <1>8, <2>1, <3>1
  <2>2. QED
    BY <2>1 DEF FoldsUp
<1>. HIDE DEF P
<1>14. PICK f \in [0..n -> V] : f[n] = h[1..n] /\ Along(f, n, <<>>, step)
  <2>. HIDE DEF n
  <2>1. QED
    BY <1>4, <1>6, <1>12, <1>13, FoldAlongPrefixes
<1>15. \A k \in 1..n : f[k] = Meet(f[k - 1], k)
  <2>1. \A k \in 1..n : k - 1 \in 0..n
    BY <1>6
  <2>2. QED
    BY <1>5, <1>14, <2>1 DEF Along
<1>16. f[n] = Duplicates(s)
  BY <1>2, <1>10, <1>14
<1>17. QED
  BY <1>14, <1>15, <1>16 DEF V, Meet, Along

\* Whatever is not kept is reported.
LEMMA DuplicatesCount ==
  ASSUME NEW C, NEW s \in Seq(C)
  PROVE  /\ Len(Duplicates(s)) \in Nat
         /\ Len(LastWins(s)) \in Nat
         /\ Len(Duplicates(s)) + Len(LastWins(s)) = Len(s)
<1>. DEFINE n == Len(s)
            I == {x.id : x \in C}
<1>1. n \in Nat /\ DOMAIN s = 1..n /\ \A k \in 1..n : s[k] \in C
  BY LenProperties, ElementOfSeq
<1>2. PICK f \in [0..n -> Seq(I)] :
        /\ f[0] = <<>> /\ f[n] = Duplicates(s)
        /\ \A k \in 1..n : f[k] = IF HasId(SubSeq(s, 1, k - 1), s[k].id)
                                  THEN Append(f[k - 1], s[k].id) ELSE f[k - 1]
  BY DuplicatesSteps
<1>3. PICK l \in [0..n -> Seq(C)] :
        /\ l[0] = <<>> /\ l[n] = LastWins(s)
        /\ \A k \in 1..n : l[k] = PutSegment(l[k - 1], s[k])
  <2>1. <<>> \in Seq(C)
    BY EmptySeq
  <2>2. ASSUME NEW u \in Seq(C)
        PROVE  \E h \in [0..n -> Seq(C)] :
                 /\ h[0] = u /\ h[n] = PutAll(u, s)
                 /\ \A k \in 1..n : h[k] = PutSegment(h[k - 1], s[k])
    BY PutAllSteps
  <2>3. LastWins(s) = PutAll(<<>>, s)
    BY DEF LastWins, PutAll
  <2>4. QED
    BY <2>1, <2>2, <2>3
<1>4. ASSUME NEW k \in 1..n
      PROVE  HasId(SubSeq(s, 1, k - 1), s[k].id) <=> \E m \in 1..(k - 1) : s[m].id = s[k].id
  <2>. DEFINE r == SubSeq(s, 1, k - 1)
  <2>1. /\ r \in Seq(C) /\ Len(r) = k - 1
        /\ \A m \in 1..(k - 1) : r[m] = s[m]
    <3>1. /\ k - 1 \in Int /\ 1 \in Int /\ \A m \in 1..(k - 1) : s[m] \in C
          /\ (k - 1) - 1 + 1 = k - 1 /\ ~(1 <= k - 1) => k - 1 = 0
          /\ \A m \in 1..(k - 1) : 1 + m - 1 = m
      BY <1>1
    <3>2. /\ r \in Seq(C)
          /\ Len(r) = IF 1 <= k - 1 THEN (k - 1) - 1 + 1 ELSE 0
          /\ \A m \in 1..((k - 1) - 1 + 1) : r[m] = s[1 + m - 1]
      BY <3>1, SubSeqProperties
    <3>3. QED
      BY <3>1, <3>2
  <2>. HIDE DEF r
  <2>2. DOMAIN r = 1..(k - 1)
    BY <2>1, LenProperties
  <2>3. QED
    BY <2>1, <2>2 DEF HasId, r
<1>. DEFINE Good(k) == /\ Len(f[k]) \in Nat /\ Len(l[k]) \in Nat
                       /\ Len(f[k]) + Len(l[k]) = k
                       /\ \A i : HasId(l[k], i) <=> \E m \in 1..k : s[m].id = i
            G == {k \in 0..n : Good(k)}
<1>. HIDE DEF n, I
<1>5. 0 \in G
  <2>1. Len(<<>>) = 0 /\ DOMAIN <<>> = {}
    BY EmptySeq
  <2>2. \A i : ~HasId(<<>>, i)
    BY <2>1 DEF HasId
  <2>3. QED
    BY <1>1, <1>2, <1>3, <2>1, <2>2
<1>6. ASSUME NEW k \in 0..(n - 1), k \in G PROVE k + 1 \in G
  <2>1. /\ k \in 0..n /\ k + 1 \in 1..n /\ (k + 1) - 1 = k
        /\ 1..(k + 1) = (1..k) \cup {k + 1} /\ k + 1 \in 0..n
    BY <1>1
  <2>. DEFINE x == s[k + 1]
              again == HasId(l[k], x.id)
  <2>2. x \in C /\ l[k] \in Seq(C) /\ f[k] \in Seq(I) /\ x.id \in I
    BY <1>1, <2>1 DEF I
  <2>3. Good(k)
    BY <1>6
  <2>4. l[k + 1] = PutSegment(l[k], x)
    BY <1>3, <2>1
  <2>5. HasId(SubSeq(s, 1, (k + 1) - 1), x.id) <=> again
    BY <1>4, <2>1, <2>3
  <2>6. f[k + 1] = IF again THEN Append(f[k], x.id) ELSE f[k]
    BY <1>2, <2>1, <2>5
  <2>. HIDE DEF x
  <2>7. Len(PutSegment(l[k], x)) = IF again THEN Len(l[k]) ELSE Len(l[k]) + 1
    BY <2>2, PutProperties
  <2>8. Len(Append(f[k], x.id)) = Len(f[k]) + 1
    BY <2>2, AppendProperties
  <2>9. \A i : HasId(l[k + 1], i) <=> HasId(l[k], i) \/ i = x.id
    BY <2>2, <2>4, PutProperties
  <2>10. /\ Len(f[k + 1]) \in Nat /\ Len(l[k + 1]) \in Nat
         /\ Len(f[k + 1]) + Len(l[k + 1]) = k + 1
    <3>. HIDE DEF again
    <3>1. QED
      BY <2>1, <2>3, <2>4, <2>6, <2>7, <2>8
  <2>11. \A i : HasId(l[k + 1], i) <=> \E m \in 1..(k + 1) : s[m].id = i
    BY <2>1, <2>3, <2>9 DEF x
  <2>12. QED
    BY <2>1, <2>10, <2>11
<1>7. 0..n \subseteq G
  <2>. HIDE DEF G
  <2>1. QED
    BY <1>1, <1>5, <1>6, CountingUp
<1>8. n \in 0..n
  BY <1>1
<1>9. Good(n)
  BY <1>7, <1>8
<1>10. QED
  BY <1>2, <1>3, <1>9 DEF n

-----------------------------------------------------------------------------
(* Lists put one after the other.                                          *)

-----------------------------------------------------------------------------
(* Sequences of sequences.                                                 *)

\* FlattenSeq goes through the sequences one by one.
LEMMA FlattenSteps ==
  ASSUME NEW C, NEW F \in Seq(Seq(C))
  PROVE  \E f \in [0..Len(F) -> Seq(C)] :
           /\ f[0] = <<>> /\ f[Len(F)] = FlattenSeq(F)
           /\ \A k \in 1..Len(F) : f[k] = f[k - 1] \o F[k]
<1>. DEFINE n == Len(F)
            V == Seq(C)
            Join(v, t) == v \o t
            step == [p \in (1..n) \X V |-> Join(p[2], F[p[1]])]
            P(g) == g = [i \in 1..n |-> IF i = 1 THEN F[i] ELSE Join(g[i - 1], F[i])]
<1>1. n \in Nat /\ \A k \in 1..n : F[k] \in V
  BY LenProperties, ElementOfSeq
<1>2. CASE n = 0
  <2>1. F = <<>>
    BY <1>2, EmptySeq
  <2>2. FlattenSeq(F) = F
    BY <1>2 DEF FlattenSeq
  <2>3. <<>> \in Seq(C)
    BY EmptySeq
  <2>. DEFINE f == [k \in 0..n |-> <<>>]
  <2>4. f \in [0..n -> Seq(C)]
    BY <2>3
  <2>5. f[0] = <<>> /\ f[n] = FlattenSeq(F)
    BY <1>2, <2>1, <2>2
  <2>6. \A k \in 1..n : f[k] = f[k - 1] \o F[k]
    BY <1>2
  <2>. HIDE DEF f, n
  <2>7. QED
    BY <2>4, <2>5, <2>6 DEF n
<1>3. CASE n # 0
  <2>1. FlattenSeq(F) = (CHOOSE g : P(g))[n]
    BY <1>3 DEF FlattenSeq
  <2>2. \A v \in V, t \in V : Join(v, t) \in V
    BY ConcatProperties
  <2>3. <<>> \in V /\ \A t \in V : Join(<<>>, t) = t
    BY EmptySeq, ConcatEmptySeq
  <2>. HIDE DEF Join, V
  <2>4. \A k \in 1..n, v \in V : step[<<k, v>>] = Join(v, F[k]) /\ step[<<k, v>>] \in V
    BY <1>1, <2>2
  <2>. HIDE DEF step
  <2>5. n \in Nat /\ Closed(step, n, V)
    BY <1>1, <2>4 DEF Closed
  <2>. HIDE DEF n
  <2>6. PICK g \in [SUBSET (1..n) -> V] : g[{}] = <<>> /\ FoldsUp(g, n, V, step)
    BY <2>3, <2>5, FoldOfPositions
  <2>7. PICK f \in [0..n -> V] : Along(f, n, <<>>, step)
    BY <2>3, <2>5, <2>6, FoldAlongPrefixes
  <2>8. f[0] = <<>> /\ \A k \in 1..n : f[k] = Join(f[k - 1], F[k])
    <3>1. \A k \in 1..n : k - 1 \in 0..n
      BY <2>5
    <3>2. QED
      BY <2>4, <2>7, <3>1 DEF Along
  <2>9. f[1] = F[1]
    <3>1. 1 \in 1..n /\ 1 - 1 = 0
      BY <1>3, <2>5
    <3>2. QED
      BY <1>1, <2>3, <2>8, <3>1
  <2>10. P([i \in 1..n |-> f[i]])
    <3>. DEFINE e == [i \in 1..n |-> f[i]]
    <3>1. ASSUME NEW i \in 1..n
          PROVE  e[i] = IF i = 1 THEN F[i] ELSE Join(e[i - 1], F[i])
      <4>1. CASE i = 1
        BY <2>9, <4>1
      <4>2. CASE i # 1
        <5>1. i - 1 \in 1..n
          BY <2>5, <4>2
        <5>2. QED
          BY <2>8, <4>2, <5>1
      <4>3. QED
        BY <4>1, <4>2
    <3>2. QED
      BY <3>1
  <2>11. PICK h : h = (CHOOSE k : P(k))
    OBVIOUS
  <2>12. P(h)
    BY <2>10, <2>11
  <2>. DEFINE e == [k \in 0..n |-> IF k = 0 THEN <<>> ELSE h[k]]
  <2>13. Alike(f, e, n)
    <3>1. f[0] = e[0]
      BY <2>5, <2>8
    <3>2. ASSUME NEW k \in 1..n, f[k - 1] = e[k - 1] PROVE f[k] = e[k]
      <4>1. h[k] = IF k = 1 THEN F[k] ELSE Join(h[k - 1], F[k])
        BY <2>12
      <4>2. k \in 0..n /\ k - 1 \in 0..n /\ k # 0
        BY <2>5
      <4>3. CASE k = 1
        BY <2>9, <4>1, <4>2, <4>3
      <4>4. CASE k # 1
        <5>1. k - 1 # 0
          BY <4>2, <4>4
        <5>2. f[k - 1] = h[k - 1]
          BY <3>2, <4>2, <5>1
        <5>3. QED
          BY <2>8, <4>1, <4>2, <4>4, <5>2
      <4>5. QED
        BY <4>3, <4>4
    <3>3. QED
      BY <3>1, <3>2 DEF Alike
  <2>14. n \in 0..n
    BY <2>5
  <2>15. f[n] = e[n]
    <3>. HIDE DEF e
    <3>1. QED
      BY <2>5, <2>13, <2>14, SameFold
  <2>16. f[n] = FlattenSeq(F)
    BY <1>3, <2>1, <2>11, <2>14, <2>15
  <2>. HIDE DEF P
  <2>17. QED
    BY <2>7, <2>8, <2>16 DEF n, V, Join
<1>4. QED
  BY <1>2, <1>3

\* The last one last.
LEMMA FlattenRecursion ==
  ASSUME NEW C
  PROVE  /\ FlattenSeq(<<>>) = <<>>
         /\ \A F \in Seq(Seq(C)) : FlattenSeq(F) \in Seq(C)
         /\ \A F \in Seq(Seq(C)), t \in Seq(C) :
              FlattenSeq(Append(F, t)) = FlattenSeq(F) \o t
<1>1. FlattenSeq(<<>>) = <<>>
  BY EmptySeq DEF FlattenSeq
<1>2. ASSUME NEW F \in Seq(Seq(C)) PROVE FlattenSeq(F) \in Seq(C)
  <2>1. PICK f \in [0..Len(F) -> Seq(C)] : f[Len(F)] = FlattenSeq(F)
    BY FlattenSteps
  <2>2. Len(F) \in 0..Len(F)
    BY LenProperties
  <2>3. QED
    BY <2>1, <2>2
<1>3. ASSUME NEW F \in Seq(Seq(C)), NEW t \in Seq(C)
      PROVE  FlattenSeq(Append(F, t)) = FlattenSeq(F) \o t
  <2>. DEFINE n == Len(F)
              H == Append(F, t)
  <2>1. /\ H \in Seq(Seq(C)) /\ n \in Nat /\ Len(H) = n + 1
        /\ H[n + 1] = t /\ \A k \in 1..n : H[k] = F[k]
    BY AppendProperties, LenProperties
  <2>2. PICK f \in [0..n -> Seq(C)] :
          /\ f[0] = <<>> /\ f[n] = FlattenSeq(F)
          /\ \A k \in 1..n : f[k] = f[k - 1] \o F[k]
    BY FlattenSteps
  <2>. HIDE DEF H
  <2>3. PICK h \in [0..(n + 1) -> Seq(C)] :
          /\ h[0] = <<>> /\ h[n + 1] = FlattenSeq(H)
          /\ \A k \in 1..(n + 1) : h[k] = h[k - 1] \o H[k]
    <3>1. H \in Seq(Seq(C)) /\ Len(H) = n + 1
      BY <2>1
    <3>2. \E h \in [0..Len(H) -> Seq(C)] :
            /\ h[0] = <<>> /\ h[Len(H)] = FlattenSeq(H)
            /\ \A k \in 1..Len(H) : h[k] = h[k - 1] \o H[k]
      BY <3>1, FlattenSteps
    <3>. HIDE DEF n
    <3>3. QED
      BY <3>1, <3>2
  <2>. HIDE DEF n
  <2>4. Alike(f, h, n)
    <3>1. \A k \in 1..n : k \in 1..(n + 1)
      BY <2>1
    <3>2. QED
      BY <2>1, <2>2, <2>3, <3>1 DEF Alike
  <2>5. n \in Nat
    BY <2>1
  <2>6. f[n] = h[n]
    <3>1. n \in 0..n
      BY <2>5
    <3>2. QED
      BY <2>4, <2>5, <3>1, SameFold
  <2>7. n + 1 \in 1..(n + 1) /\ (n + 1) - 1 = n
    BY <2>5
  <2>8. QED
    BY <2>1, <2>2, <2>3, <2>6, <2>7 DEF H
<1>4. QED
  BY <1>1, <1>2, <1>3

-----------------------------------------------------------------------------
(* Distances.                                                              *)

\* A square is not negative.
LEMMA SquareIsNat ==
  ASSUME NEW x \in Int
  PROVE  x * x \in Nat
OBVIOUS

\* Neither is a product of naturals, and it is positive if both are.
LEMMA ProductIsNat ==
  ASSUME NEW x \in Nat, NEW y \in Nat
  PROVE  x * y \in Nat /\ (x > 0 /\ y > 0 => x * y > 0)
OBVIOUS

\* Multiplying by a positive number keeps the order.
LEMMA ProductsInOrder ==
  ASSUME NEW x \in Int, NEW y \in Int, NEW z \in Nat \ {0}
  PROVE  x <= y <=> x * z <= y * z
OBVIOUS

\* A sum of two squares that is 0 has terms that are 0.
LEMMA NoLength ==
  ASSUME NEW x \in Int, NEW y \in Int, x * x + y * y = 0
  PROVE  x = 0 /\ y = 0
<1>1. x * x >= 0 /\ y * y >= 0
  BY SquareIsNat
<1>2. x * x = 0 /\ y * y = 0
  BY <1>1
<1>3. QED
  BY <1>2

\* What a squared distance depends on: the squared distance "far" to the start
\* of a segment, its squared length "len", and the product "along" of both.
FractionOf(far, along, len) ==
  IF len = 0 \/ along <= 0 THEN [num |-> far, den |-> 1]
  ELSE IF along >= len THEN [num |-> far - 2 * along + len, den |-> 1]
  ELSE [num |-> far * len - along * along, den |-> len]

\* So do the squared distances to the points at multiples of 1/g.
GridOf(far, along, len, k, g) ==
  g * g * far - 2 * (g * k) * along + k * k * len

\* Points and segments are reduced to these three numbers.
LEMMA Reduced ==
  ASSUME NEW p \in Plane, NEW s, s.start \in Plane, s.end \in Plane
  PROVE  \E far \in Nat, along \in Int :
           LET len == NormSq(Minus(s.end, s.start))
           IN  /\ len \in Nat
               /\ len = 0 => along = 0
               /\ DistanceSq(p, s) = FractionOf(far, along, len)
               /\ \A k, g \in Int : GridSq(p, s, k, g) = GridOf(far, along, len, k, g)
<1>. DEFINE p1 == p[1] - s.start[1]
            p2 == p[2] - s.start[2]
            a1 == s.end[1] - s.start[1]
            a2 == s.end[2] - s.start[2]
            far == p1 * p1 + p2 * p2
            along == p1 * a1 + p2 * a2
            len == a1 * a1 + a2 * a2
<1>1. p1 \in Int /\ p2 \in Int /\ a1 \in Int /\ a2 \in Int
  BY DEF Plane
<1>2. /\ p[1] - s.end[1] = p1 - a1
      /\ p[2] - s.end[2] = p2 - a2
  BY DEF Plane
<1>3. /\ NormSq(Minus(s.end, s.start)) = len
      /\ NormSq(Minus(p, s.start)) = far
      /\ Dot(Minus(p, s.start), Minus(s.end, s.start)) = along
      /\ NormSq(Minus(p, s.end)) =
           (p[1] - s.end[1]) * (p[1] - s.end[1]) + (p[2] - s.end[2]) * (p[2] - s.end[2])
      /\ \A k, g : GridSq(p, s, k, g) =
                     (g * p1 - k * a1) * (g * p1 - k * a1)
                       + (g * p2 - k * a2) * (g * p2 - k * a2)
  BY DEF NormSq, Minus, Dot, GridSq
<1>. HIDE DEF p1, p2, a1, a2
<1>4. far \in Nat /\ along \in Int /\ len \in Nat
  <2>1. p1 * p1 \in Nat /\ p2 * p2 \in Nat /\ a1 * a1 \in Nat /\ a2 * a2 \in Nat
    BY <1>1, SquareIsNat
  <2>2. p1 * a1 \in Int /\ p2 * a2 \in Int
    BY <1>1
  <2>3. QED
    BY <2>1, <2>2
<1>5. len = 0 => along = 0
  BY <1>1, NoLength
<1>6. NormSq(Minus(p, s.end)) = far - 2 * along + len
  <2>1. (p1 - a1) * (p1 - a1) + (p2 - a2) * (p2 - a2) = far - 2 * along + len
    BY <1>1
  <2>2. QED
    BY <1>2, <1>3, <2>1
<1>7. ASSUME NEW k \in Int, NEW g \in Int
      PROVE  GridSq(p, s, k, g) = GridOf(far, along, len, k, g)
  <2>1. (g * p1 - k * a1) * (g * p1 - k * a1) + (g * p2 - k * a2) * (g * p2 - k * a2)
          = g * g * far - 2 * (g * k) * along + k * k * len
    BY <1>1
  <2>2. QED
    BY <1>3, <2>1 DEF GridOf
<1>. HIDE DEF far, along, len
<1>8. DistanceSq(p, s) = FractionOf(far, along, len)
  BY <1>3, <1>6 DEF DistanceSq, FractionOf
<1>9. QED
  BY <1>3, <1>4, <1>5, <1>7, <1>8

\* A fraction is one.
LEMMA FractionType ==
  ASSUME NEW far \in Nat, NEW along \in Int, NEW len \in Nat
  PROVE  /\ FractionOf(far, along, len).num \in Int
         /\ FractionOf(far, along, len).den \in Nat \ {0}
<1>1. far * len - along * along \in Int
  OBVIOUS
<1>. DEFINE slope == far * len - along * along
<1>. HIDE DEF slope
<1>2. slope \in Int
  BY <1>1 DEF slope
<1>3. FractionOf(far, along, len) =
        IF len = 0 \/ along <= 0 THEN [num |-> far, den |-> 1]
        ELSE IF along >= len THEN [num |-> far - 2 * along + len, den |-> 1]
        ELSE [num |-> slope, den |-> len]
  BY DEF FractionOf, slope
<1>4. CASE len = 0 \/ along <= 0
  BY <1>3, <1>4
<1>5. CASE ~(len = 0 \/ along <= 0) /\ along >= len
  BY <1>3, <1>5
<1>6. CASE ~(len = 0 \/ along <= 0) /\ ~(along >= len)
  BY <1>2, <1>3, <1>6
<1>7. QED
  BY <1>4, <1>5, <1>6

\* Every foot is on a grid that is a multiple of the squared length.
LEMMA FootIsOnGrid ==
  ASSUME NEW far \in Nat, NEW along \in Int, NEW len \in Nat, NEW g \in Nat,
         len = 0 => along = 0, len > 0 => \E q \in 1..g : g = q * len
  PROVE  \E k \in 0..g :
           GridOf(far, along, len, k, g) * FractionOf(far, along, len).den
             = g * g * FractionOf(far, along, len).num
<1>1. CASE len = 0 \/ along <= 0
  <2>1. FractionOf(far, along, len) = [num |-> far, den |-> 1]
    BY <1>1 DEF FractionOf
  <2>2. GridOf(far, along, len, 0, g) = g * g * far
    BY DEF GridOf
  <2>3. GridOf(far, along, len, 0, g) * 1 = g * g * far
    BY <2>2
  <2>4. 0 \in 0..g
    OBVIOUS
  <2>5. QED
    BY <2>1, <2>3, <2>4
<1>2. CASE ~(len = 0 \/ along <= 0) /\ along >= len
  <2>1. FractionOf(far, along, len) = [num |-> far - 2 * along + len, den |-> 1]
    BY <1>2 DEF FractionOf
  <2>2. GridOf(far, along, len, g, g) * 1 = g * g * (far - 2 * along + len)
    BY DEF GridOf
  <2>3. g \in 0..g
    OBVIOUS
  <2>4. QED
    BY <2>1, <2>2, <2>3
<1>3. CASE ~(len = 0 \/ along <= 0) /\ ~(along >= len)
  <2>1. FractionOf(far, along, len) =
          [num |-> far * len - along * along, den |-> len]
    BY <1>3 DEF FractionOf
  <2>2. PICK q \in 1..g : g = q * len
    BY <1>3
  <2>3. along \in Nat /\ along <= len /\ q \in Nat \ {0}
    BY <1>3
  <2>4. q * along \in Nat
    BY <2>3, ProductIsNat
  <2>5. along * q <= len * q
    BY <2>3, ProductsInOrder
  <2>6. q * along \in 0..g
    BY <2>2, <2>3, <2>4, <2>5
  <2>7. ((q * len) * (q * len) * far - 2 * ((q * len) * (q * along)) * along
           + (q * along) * (q * along) * len) * len
          = (q * len) * (q * len) * (far * len - along * along)
    BY <2>3
  <2>8. GridOf(far, along, len, q * along, g) * len
          = g * g * (far * len - along * along)
    BY <2>2, <2>7 DEF GridOf
  <2>9. QED
    BY <2>1, <2>6, <2>8
<1>4. QED
  BY <1>1, <1>2, <1>3

\* No point of the segment is nearer than the foot.
LEMMA FootIsNearest ==
  ASSUME NEW far \in Nat, NEW along \in Int, NEW len \in Nat, NEW g \in Nat,
         len = 0 => along = 0, NEW k \in 0..g
  PROVE  g * g * FractionOf(far, along, len).num
           <= GridOf(far, along, len, k, g) * FractionOf(far, along, len).den
<1>0. k \in Nat
  OBVIOUS
<1>1. CASE len = 0 \/ along <= 0
  <2>1. FractionOf(far, along, len) = [num |-> far, den |-> 1]
    BY <1>1 DEF FractionOf
  <2>2. -along \in Nat
    BY <1>1
  <2>3. k * k \in Nat /\ g * k \in Nat
    BY <1>0, ProductIsNat
  <2>4. (k * k) * len \in Nat /\ (g * k) * (-along) \in Nat
    BY <2>2, <2>3, ProductIsNat
  <2>5. GridOf(far, along, len, k, g) * 1
          = g * g * far + 2 * ((g * k) * (-along)) + (k * k) * len
    BY <1>0 DEF GridOf
  <2>6. g * g * far \in Int
    OBVIOUS
  <2>7. QED
    BY <2>1, <2>4, <2>5, <2>6
<1>2. CASE ~(len = 0 \/ along <= 0) /\ along >= len
  <2>1. FractionOf(far, along, len) = [num |-> far - 2 * along + len, den |-> 1]
    BY <1>2 DEF FractionOf
  <2>2. g - k \in Nat /\ along - len \in Nat
    BY <1>2
  <2>3. (g - k) * (g - k) \in Nat /\ g * (g - k) \in Nat
    BY <2>2, ProductIsNat
  <2>4. ((g - k) * (g - k)) * len \in Nat /\ (g * (g - k)) * (along - len) \in Nat
    BY <2>2, <2>3, ProductIsNat
  <2>5. GridOf(far, along, len, k, g) * 1
          = g * g * (far - 2 * along + len)
              + 2 * ((g * (g - k)) * (along - len)) + ((g - k) * (g - k)) * len
    BY <1>0 DEF GridOf
  <2>6. g * g * (far - 2 * along + len) \in Int
    OBVIOUS
  <2>7. QED
    BY <2>1, <2>4, <2>5, <2>6
<1>3. CASE ~(len = 0 \/ along <= 0) /\ ~(along >= len)
  <2>1. FractionOf(far, along, len) =
          [num |-> far * len - along * along, den |-> len]
    BY <1>3 DEF FractionOf
  <2>2. GridOf(far, along, len, k, g) * len
          = (g * along - k * len) * (g * along - k * len)
              + g * g * (far * len - along * along)
    BY <1>0 DEF GridOf
  <2>3. (g * along - k * len) * (g * along - k * len) \in Nat
    <3>1. g * along - k * len \in Int
      BY <1>0
    <3>2. QED
      BY <3>1, SquareIsNat
  <2>4. g * g * (far * len - along * along) \in Int
    OBVIOUS
  <2>5. QED
    BY <2>1, <2>2, <2>3, <2>4
<1>4. QED
  BY <1>1, <1>2, <1>3

\* The squared distance is a fraction; a point of the grid is that far, and
\* none is nearer.
LEMMA DistanceOnGrid ==
  ASSUME NEW p \in Plane, NEW s, s.start \in Plane, s.end \in Plane,
         NEW g \in Nat \ {0}
  PROVE  LET d == DistanceSq(p, s)
         IN  /\ d.num \in Int /\ d.den \in Nat \ {0}
             /\ \A k \in 0..g : /\ GridSq(p, s, k, g) \in Int
                                /\ g * g * d.num <= GridSq(p, s, k, g) * d.den
             /\ GridFits(s, g) =>
                  \E k \in 0..g : GridSq(p, s, k, g) * d.den = g * g * d.num
<1>. DEFINE len == NormSq(Minus(s.end, s.start))
<1>1. PICK far \in Nat, along \in Int :
        /\ len \in Nat
        /\ len = 0 => along = 0
        /\ DistanceSq(p, s) = FractionOf(far, along, len)
        /\ \A k, h \in Int : GridSq(p, s, k, h) = GridOf(far, along, len, k, h)
  BY Reduced
<1>2. GridFits(s, g) <=> (len > 0 => \E q \in 1..g : g = q * len)
  BY DEF GridFits
<1>. HIDE DEF len
<1>3. \A k \in 0..g : GridSq(p, s, k, g) = GridOf(far, along, len, k, g)
  BY <1>1
<1>4. ASSUME NEW k \in 0..g PROVE GridOf(far, along, len, k, g) \in Int
  <2>1. k \in Int /\ len \in Int
    BY <1>1
  <2>2. QED
    BY <2>1 DEF GridOf
<1>5. /\ DistanceSq(p, s).num \in Int /\ DistanceSq(p, s).den \in Nat \ {0}
  BY <1>1, FractionType
<1>6. \A k \in 0..g : g * g * DistanceSq(p, s).num
                        <= GridSq(p, s, k, g) * DistanceSq(p, s).den
  BY <1>1, <1>3, FootIsNearest
<1>7. GridFits(s, g) => \E k \in 0..g :
        GridSq(p, s, k, g) * DistanceSq(p, s).den = g * g * DistanceSq(p, s).num
  <2>1. SUFFICES ASSUME GridFits(s, g)
                 PROVE  \E k \in 0..g :
                          GridOf(far, along, len, k, g) * FractionOf(far, along, len).den
                            = g * g * FractionOf(far, along, len).num
    BY <1>1, <1>3
  <2>2. QED
    BY <1>1, <1>2, <2>1, FootIsOnGrid
<1>8. QED
  BY <1>3, <1>4, <1>5, <1>6, <1>7

\* Fractions are ordered as numbers are.
LEMMA CloserIsAnOrder ==
  ASSUME NEW d, NEW e, NEW f,
         \A x \in {d, e, f} : x.num \in Int /\ x.den \in Nat \ {0},
         ~Closer(e, d), ~Closer(f, e)
  PROVE  /\ ~Closer(f, d)
         /\ Closer(d, e) \/ Closer(e, f) => Closer(d, f)
<1>. DEFINE a == d.num
            b == e.num
            c == f.num
            u == d.den
            v == e.den
            w == f.den
<1>1. a \in Int /\ b \in Int /\ c \in Int
  OBVIOUS
<1>2. u \in Nat \ {0} /\ v \in Nat \ {0} /\ w \in Nat \ {0}
  OBVIOUS
<1>3. a * v <= b * u /\ b * w <= c * v
  <2>1. ~(b * u < a * v) /\ ~(c * v < b * w)
    BY DEF Closer
  <2>2. a * v \in Int /\ b * u \in Int /\ b * w \in Int /\ c * v \in Int
    BY <1>1, <1>2
  <2>3. QED
    BY <2>1, <2>2
<1>4. /\ Closer(f, d) <=> c * u < a * w
      /\ Closer(d, e) <=> a * v < b * u
      /\ Closer(e, f) <=> b * w < c * v
      /\ Closer(d, f) <=> a * w < c * u
  BY DEF Closer
<1>. HIDE DEF a, b, c, u, v, w
<1>5. /\ a * v <= b * u <=> (a * v) * w <= (b * u) * w
      /\ b * u <= a * v <=> (b * u) * w <= (a * v) * w
      /\ b * w <= c * v <=> (b * w) * u <= (c * v) * u
      /\ c * v <= b * w <=> (c * v) * u <= (b * w) * u
      /\ a * w <= c * u <=> (a * w) * v <= (c * u) * v
      /\ c * u <= a * w <=> (c * u) * v <= (a * w) * v
  <2>1. a * v \in Int /\ b * u \in Int /\ b * w \in Int /\ c * v \in Int
        /\ a * w \in Int /\ c * u \in Int
    BY <1>1, <1>2
  <2>2. QED
    BY <1>2, <2>1, ProductsInOrder
<1>6. /\ (a * v) * w = (a * w) * v /\ (b * u) * w = (b * w) * u
      /\ (c * v) * u = (c * u) * v
  BY <1>1, <1>2
<1>7. /\ (a * w) * v \in Int /\ (b * w) * u \in Int /\ (c * u) * v \in Int
      /\ a * v \in Int /\ b * u \in Int /\ b * w \in Int /\ c * v \in Int
      /\ a * w \in Int /\ c * u \in Int
  BY <1>1, <1>2
<1>. DEFINE x == (a * w) * v
            y == (b * w) * u
            z == (c * u) * v
<1>8. x \in Int /\ y \in Int /\ z \in Int
  BY <1>7
<1>9. /\ x <= y /\ y <= z
      /\ a * v < b * u => x < y
      /\ b * w < c * v => y < z
      /\ x <= z <=> a * w <= c * u
      /\ z <= x <=> c * u <= a * w
  BY <1>3, <1>5, <1>6, <1>7
<1>. HIDE DEF x, y, z
<1>10. a * w <= c * u /\ (a * v < b * u \/ b * w < c * v => a * w < c * u)
  BY <1>7, <1>8, <1>9
<1>11. QED
  BY <1>4, <1>7, <1>10

\* The first of the nearest: what segment_for_point looks for among S.
FirstNearest(S, d) ==
  {n \in S : \A m \in S : /\ ~Closer(d[m], d[n])
                          /\ m < n => Closer(d[n], d[m])}

\* There is one, and one only.
LEMMA FirstNearestExists ==
  ASSUME NEW S \in SUBSET Nat, IsFiniteSet(S), S # {}, NEW d,
         \A n \in S : d[n].num \in Int /\ d[n].den \in Nat \ {0}
  PROVE  \E n \in S : FirstNearest(S, d) = {n}
<1>. DEFINE Before(x, y) == ~Closer(d[y], d[x]) /\ (y < x => Closer(d[x], d[y]))
            R == {p \in S \X S : Before(p[1], p[2])}
<1>1. \A x, y \in S : <<x, y>> \in R <=> Before(x, y)
  OBVIOUS
<1>. HIDE DEF R
<1>2. ASSUME NEW x \in S, NEW y \in S PROVE Before(x, y) \/ Before(y, x)
  <2>1. ~(Closer(d[x], d[y]) /\ Closer(d[y], d[x]))
    <3>. DEFINE l == d[x].num * d[y].den
                r == d[y].num * d[x].den
    <3>1. l \in Int /\ r \in Int
      OBVIOUS
    <3>2. Closer(d[x], d[y]) <=> l < r
      BY DEF Closer
    <3>3. Closer(d[y], d[x]) <=> r < l
      BY DEF Closer
    <3>. HIDE DEF l, r
    <3>4. QED
      BY <3>1, <3>2, <3>3
  <2>2. x \in Nat /\ y \in Nat
    OBVIOUS
  <2>3. x < y \/ y < x \/ x = y
    BY <2>2
  <2>4. ~(x < y /\ y < x)
    BY <2>2
  <2>5. QED
    BY <2>1, <2>3, <2>4
<1>3. ASSUME NEW x \in S, NEW y \in S, NEW z \in S, Before(x, y), Before(y, z)
      PROVE  Before(x, z)
  <2>1. \A f \in {d[x], d[y], d[z]} : f.num \in Int /\ f.den \in Nat \ {0}
    OBVIOUS
  <2>2. ~Closer(d[y], d[x]) /\ ~Closer(d[z], d[y])
    BY <1>3
  <2>3. /\ ~Closer(d[z], d[x])
        /\ Closer(d[x], d[y]) \/ Closer(d[y], d[z]) => Closer(d[x], d[z])
    BY <2>1, <2>2, CloserIsAnOrder
  <2>4. x \in Nat /\ y \in Nat /\ z \in Nat
    OBVIOUS
  <2>5. z < x => y < x \/ z < y
    BY <2>4
  <2>6. QED
    BY <1>3, <2>3, <2>5
<1>. HIDE DEF Before
<1>4. PICK n \in S : \A m \in S : <<n, m>> \in R
  <2>1. \A x, y \in S : <<x, y>> \in R \/ <<y, x>> \in R
    BY <1>1, <1>2
  <2>2. \A x, y, z \in S : <<x, y>> \in R /\ <<y, z>> \in R => <<x, z>> \in R
    BY <1>1, <1>3
  <2>3. QED
    BY <2>1, <2>2, BestOf
<1>5. \A m \in S : Before(n, m)
  BY <1>1, <1>4
<1>6. n \in FirstNearest(S, d)
  BY <1>5 DEF FirstNearest, Before
<1>7. ASSUME NEW m \in FirstNearest(S, d) PROVE m = n
  <2>1. m \in S /\ n \in S /\ m \in Nat /\ n \in Nat
    BY DEF FirstNearest
  <2>2. ~(m < n)
    BY <1>6, <2>1 DEF FirstNearest
  <2>3. ~(n < m)
    BY <1>6, <2>1 DEF FirstNearest
  <2>4. QED
    BY <2>1, <2>2, <2>3
<1>8. QED
  BY <1>6, <1>7

\* If no segment of S is closer than s, no point of any segment of S is closer
\* than some point of s.
LEMMA NearestOnGrid ==
  ASSUME NEW p \in Plane, NEW g \in Nat \ {0},
         NEW s, s.start \in Plane, s.end \in Plane, GridFits(s, g)
  PROVE  \E k \in 0..g : \A u :
           u.start \in Plane /\ u.end \in Plane =>
             /\ ~Closer(DistanceSq(p, u), DistanceSq(p, s)) =>
                  \A j \in 0..g : GridSq(p, s, k, g) <= GridSq(p, u, j, g)
             /\ Closer(DistanceSq(p, s), DistanceSq(p, u)) =>
                  \A j \in 0..g : GridSq(p, s, k, g) < GridSq(p, u, j, g)
<1>1. DistanceSq(p, s).num \in Int /\ DistanceSq(p, s).den \in Nat \ {0}
  BY DistanceOnGrid
<1>2. PICK k \in 0..g : /\ GridSq(p, s, k, g) \in Int
                        /\ GridSq(p, s, k, g) * DistanceSq(p, s).den
                             = g * g * DistanceSq(p, s).num
  BY DistanceOnGrid
<1>3. SUFFICES ASSUME NEW u, u.start \in Plane, u.end \in Plane, NEW j \in 0..g
               PROVE  /\ ~Closer(DistanceSq(p, u), DistanceSq(p, s)) =>
                           GridSq(p, s, k, g) <= GridSq(p, u, j, g)
                      /\ Closer(DistanceSq(p, s), DistanceSq(p, u)) =>
                           GridSq(p, s, k, g) < GridSq(p, u, j, g)
  OBVIOUS
<1>. DEFINE a == DistanceSq(p, s).num
            b == DistanceSq(p, u).num
            v == DistanceSq(p, s).den
            w == DistanceSq(p, u).den
            x == GridSq(p, s, k, g)
            y == GridSq(p, u, j, g)
            h == g * g
<1>4. a \in Int /\ v \in Nat \ {0} /\ x \in Int /\ x * v = h * a
  BY <1>1, <1>2
<1>5. b \in Int /\ w \in Nat \ {0} /\ y \in Int /\ h * b <= y * w
  BY <1>3, DistanceOnGrid
<1>6. h \in Nat \ {0}
  BY ProductIsNat
<1>7. /\ Closer(DistanceSq(p, u), DistanceSq(p, s)) <=> b * v < a * w
      /\ Closer(DistanceSq(p, s), DistanceSq(p, u)) <=> a * w < b * v
  BY DEF Closer
<1>. HIDE DEF a, b, v, w, x, y, h
<1>8. /\ a * w \in Int /\ b * v \in Int /\ v * w \in Nat \ {0}
      /\ h * b \in Int /\ y * w \in Int
  BY <1>4, <1>5, <1>6, ProductIsNat
<1>9. /\ a * w <= b * v <=> (a * w) * h <= (b * v) * h
      /\ b * v <= a * w <=> (b * v) * h <= (a * w) * h
      /\ h * b <= y * w <=> (h * b) * v <= (y * w) * v
      /\ x <= y <=> x * (v * w) <= y * (v * w)
      /\ y <= x <=> y * (v * w) <= x * (v * w)
  BY <1>4, <1>5, <1>6, <1>8, ProductsInOrder
<1>10. /\ (h * b) * v = (b * v) * h /\ (y * w) * v = y * (v * w)
  BY <1>4, <1>5, <1>6
<1>11. x * (v * w) = (a * w) * h
  <2>1. x * (v * w) = (x * v) * w
    BY <1>4, <1>5
  <2>2. (h * a) * w = (a * w) * h
    BY <1>4, <1>5, <1>6
  <2>3. QED
    BY <1>4, <2>1, <2>2
<1>12. (b * v) * h \in Int /\ (a * w) * h \in Int /\ y * (v * w) \in Int
  BY <1>4, <1>5, <1>6, <1>8
<1>13. (b * v) * h <= y * (v * w)
  BY <1>5, <1>9, <1>10
<1>14. a * w <= b * v => x <= y
  BY <1>9, <1>11, <1>12, <1>13
<1>15. a * w < b * v => x < y
  BY <1>4, <1>5, <1>8, <1>9, <1>11, <1>12, <1>13
<1>16. QED
  BY <1>7, <1>8, <1>14, <1>15 DEF x, y
=============================================================================
