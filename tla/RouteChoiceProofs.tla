------------------------- MODULE RouteChoiceProofs -------------------------
(***************************************************************************)
(* Proofs about RouteChoice, for any events, requests, weights, categories *)
(* and depth: its type invariant and its safety invariants.                *)
(***************************************************************************)
EXTENDS RouteChoice, DataLemmas

-----------------------------------------------------------------------------
(* Types of constants, and the operators of Scoring.                       *)

\* Dominant categories, and that there is none.
Labels == Category \cup {NoCategory}

\* Candidate routes.
RouteType == [id : RouteId, segs : Seq(Segment), length : Nat, match : BOOLEAN]

\* The weights of the parameters.
WeightsType == [geometry : Nat, semantic : Nat, risk : Nat, decay : BOOLEAN]

\* segment_risk gives a risk, and '' or a category that was recorded.
ReadingType == [seg : Segment, risk : Nat, cat : Labels]

\* What a version is made of; a torn read changes the factors and nothing else.
LEMMA TornFields ==
  ASSUME NEW e \in Event, NEW f \in Event
  PROVE  /\ Torn(e, f) \in Version
         /\ Torn(e, f).id = e.id /\ Torn(e, f).seg = e.seg /\ Torn(e, f).ts = e.ts
         /\ Torn(e, f).confidence = e.confidence /\ Torn(e, f).factors = f.factors
<1>1. PICK i, s : e \in [id : {i}, seg : {s}, ts : Int, confidence : Nat,
                        factors : Seq([cat : Category, severity : Nat]) \ {<<>>}]
  BY EventAssumption
<1>2. Torn(e, f) = [id |-> e.id, seg |-> e.seg, ts |-> e.ts,
                    confidence |-> e.confidence, factors |-> f.factors]
  BY <1>1 DEF Torn
<1>3. Torn(e, f) \in Version
  BY DEF Version
<1>4. QED
  BY <1>2, <1>3

\* What every version has.
LEMMA VersionFields ==
  ASSUME NEW v \in Version
  PROVE  /\ v.factors \in Seq([cat : Category, severity : Nat]) \ {<<>>}
         /\ v.confidence \in Nat /\ v.ts \in Int
<1>1. PICK e \in Event, f \in Event : v = Torn(e, f)
  BY DEF Version
<1>2. /\ v.ts = e.ts /\ v.confidence = e.confidence /\ v.factors = f.factors
  BY <1>1, TornFields
<1>3. /\ e.ts \in Int /\ e.confidence \in Nat
      /\ f.factors \in Seq([cat : Category, severity : Nat]) \ {<<>>}
  BY EventAssumption
<1>4. QED
  BY <1>2, <1>3

\* A read that no recording interrupts is not torn.
LEMMA WholeRead ==
  ASSUME NEW e \in Event
  PROVE  Torn(e, e) = e /\ e \in Version
<1>1. PICK i, s : e \in [id : {i}, seg : {s}, ts : Int, confidence : Nat,
                        factors : Seq([cat : Category, severity : Nat]) \ {<<>>}]
  BY EventAssumption
<1>2. Torn(e, e) = e
  BY <1>1 DEF Torn
<1>3. QED
  BY <1>2, TornFields

\* A row may be torn again, by yet another recording.
LEMMA TornAgain ==
  ASSUME NEW v \in Version, NEW e \in Event
  PROVE  Torn(v, e) \in Version /\ Torn(v, e).id = v.id /\ Torn(v, e).seg = v.seg
<1>1. PICK a \in Event, b \in Event : v = Torn(a, b)
  BY DEF Version
<1>2. PICK i, s : a \in [id : {i}, seg : {s}, ts : Int, confidence : Nat,
                        factors : Seq([cat : Category, severity : Nat]) \ {<<>>}]
  BY EventAssumption
<1>3. Torn(v, e) = Torn(a, e)
  BY <1>1, <1>2 DEF Torn
<1>4. QED
  BY <1>1, <1>3, TornFields

\* The severity of an event is a number: it has at least one factor.
LEMMA AggregateSeverityType ==
  ASSUME NEW e \in Version
  PROVE  AggregateSeverity(e) \in Nat
<1>. DEFINE fs == e.factors
            sevs == {fs[n].severity : n \in DOMAIN fs}
<1>1. /\ fs \in Seq([cat : Category, severity : Nat]) /\ fs # <<>>
      /\ e.confidence \in Nat
  BY VersionFields
<1>. HIDE DEF fs
<1>2. Len(fs) \in Nat /\ DOMAIN fs = 1..Len(fs) /\ Len(fs) # 0
  BY <1>1, LenProperties, EmptySeq
<1>3. \A n \in DOMAIN fs : fs[n] \in [cat : Category, severity : Nat]
  BY <1>1, <1>2, ElementOfSeq
<1>4. sevs \in SUBSET Nat /\ sevs \in SUBSET Int
  BY <1>3
<1>5. sevs # {}
  <2>1. fs[1].severity \in sevs
    BY <1>2
  <2>2. QED
    BY <2>1
<1>6. IsFiniteSet(sevs)
  <2>1. IsFiniteSet(DOMAIN fs)
    BY <1>2, FS_Interval
  <2>. DEFINE sevOf == [n \in DOMAIN fs |-> fs[n].severity]
  <2>2. sevOf \in Surjection(DOMAIN fs, sevs)
    BY DEF Surjection
  <2>3. QED
    BY <2>1, <2>2, FS_Surjection
<1>. HIDE DEF sevs
<1>7. Max(sevs) \in sevs
  BY <1>4, <1>5, <1>6, MaxOfFinite
<1>8. Max(sevs) \in Nat
  BY <1>4, <1>7
<1>9. AggregateSeverity(e) = Max(sevs) * e.confidence
  BY DEF AggregateSeverity, sevs, fs
<1>10. QED
  BY <1>1, <1>8, <1>9

\* What age leaves of a severity is a natural number, whichever way the clocks
\* of the robot and the planner differ.
LEMMA WeightType ==
  ASSUME NEW e \in Version, NEW t \in Int, NEW decay
  PROVE  Weight(e, t, decay) \in Nat
<1>1. e.ts \in Int /\ Horizon \in Nat
  BY VersionFields, ScoringAssumption
<1>2. Age(e, t) \in Nat
  <2>1. t - e.ts \in Int
    BY <1>1
  <2>2. Max({0, t - e.ts}) = IF 0 >= t - e.ts THEN 0 ELSE t - e.ts
    BY <2>1, MaxOfTwo
  <2>3. QED
    BY <2>1, <2>2 DEF Age
<1>3. 2 ^ Horizon \in Nat
  BY <1>1, PowerOfTwo
<1>4. CASE Age(e, t) > Horizon
  BY <1>3, <1>4 DEF Weight
<1>5. CASE ~(Age(e, t) > Horizon)
  <2>1. Horizon - Age(e, t) \in Nat
    BY <1>1, <1>2, <1>5
  <2>2. 2 ^ (Horizon - Age(e, t)) \in Nat
    BY <2>1, PowerOfTwo
  <2>3. QED
    BY <1>3, <1>5, <2>2 DEF Weight
<1>6. QED
  BY <1>4, <1>5

\* What each event adds to the risk of its segment.
Contribution(t, decay) ==
  [e \in Version |-> AggregateSeverity(e) * Weight(e, t, decay)]

\* The risk of a segment is the sum of the contributions of its events.
LEMMA RiskIsSum ==
  ASSUME NEW l \in SUBSET Version, NEW s, NEW t, NEW decay
  PROVE  RiskOf(l, s, t, decay) = SumOf(Contribution(t, decay), OnSegment(l, s))
<1>. DEFINE S == OnSegment(l, s)
            f == Contribution(t, decay)
            term(e) == AggregateSeverity(e) * Weight(e, t, decay)
            Step(g, r) == IF r = {} THEN 0
                          ELSE LET x == CHOOSE y \in r : TRUE
                               IN  term(x) + g[r \ {x}]
            P(g) == g = [r \in SUBSET S |-> Step(g, r)]
<1>1. RiskOf(l, s, t, decay) = (CHOOSE g : P(g))[S]
  BY DEF RiskOf, MapThenSumSet, MapThenFoldSet
<1>2. \A x \in S : f[x] = term(x)
  BY DEF Contribution, OnSegment
<1>. HIDE DEF S, f, term
<1>3. ASSUME NEW g PROVE P(g) <=> IsSum(g, f, S)
  <2>1. \A r \in SUBSET S :
          Step(g, r) = IF r = {} THEN 0 ELSE LET x == CHOOSE y \in r : TRUE
                                             IN  f[x] + g[r \ {x}]
    BY <1>2
  <2>. HIDE DEF Step
  <2>2. [r \in SUBSET S |-> Step(g, r)]
          = [r \in SUBSET S |->
               IF r = {} THEN 0 ELSE LET x == CHOOSE y \in r : TRUE
                                     IN  f[x] + g[r \ {x}]]
    BY <2>1
  <2>3. QED
    BY <2>2 DEF IsSum
<1>. HIDE DEF P
<1>4. (CHOOSE g : P(g)) = (CHOOSE g : IsSum(g, f, S))
  BY <1>3, Zenon
<1>5. QED
  BY <1>1, <1>4 DEF SumOf, S, f

\* It is a sum of natural numbers.
LEMMA ContributionsSummable ==
  ASSUME NEW l \in SUBSET Version, IsFiniteSet(l), NEW s, NEW t \in Int, NEW decay
  PROVE  Summable(Contribution(t, decay), OnSegment(l, s))
<1>1. OnSegment(l, s) \subseteq l /\ OnSegment(l, s) \subseteq Version
  BY DEF OnSegment
<1>2. IsFiniteSet(OnSegment(l, s))
  BY <1>1, FS_Subset
<1>3. \A e \in Version : Contribution(t, decay)[e] \in Nat
  <2>1. \A e \in Version : AggregateSeverity(e) \in Nat /\ Weight(e, t, decay) \in Nat
    BY AggregateSeverityType, WeightType
  <2>2. \A a, b \in Nat : a * b \in Nat
    OBVIOUS
  <2>3. QED
    BY <2>1, <2>2 DEF Contribution
<1>4. QED
  BY <1>1, <1>2, <1>3 DEF Summable

\* More events on a segment are never less of a risk.
LEMMA RiskGrows ==
  ASSUME NEW l \in SUBSET Version, IsFiniteSet(l),
         NEW m \in SUBSET Version, IsFiniteSet(m),
         NEW s, OnSegment(l, s) \subseteq OnSegment(m, s), NEW t \in Int, NEW decay
  PROVE  /\ RiskOf(l, s, t, decay) \in Nat
         /\ RiskOf(m, s, t, decay) \in Nat
         /\ RiskOf(l, s, t, decay) <= RiskOf(m, s, t, decay)
<1>. DEFINE f == Contribution(t, decay)
<1>1. Summable(f, OnSegment(l, s)) /\ Summable(f, OnSegment(m, s))
  BY ContributionsSummable
<1>. HIDE DEF f
<1>2. \A x \in OnSegment(l, s) : f[x] <= f[x]
  BY <1>1 DEF Summable
<1>3. SumOf(f, OnSegment(l, s)) <= SumOf(f, OnSegment(m, s))
  BY <1>1, <1>2, SumMonotone
<1>4. SumOf(f, OnSegment(l, s)) \in Nat /\ SumOf(f, OnSegment(m, s)) \in Nat
  BY <1>1, SumType
<1>5. QED
  BY <1>3, <1>4, RiskIsSum DEF f

\* A segment with a risk has an event with a severity.
LEMMA RiskHasCause ==
  ASSUME NEW l \in SUBSET Version, IsFiniteSet(l), NEW s, NEW t \in Int, NEW decay,
         RiskOf(l, s, t, decay) > 0
  PROVE  \E e \in OnSegment(l, s) : AggregateSeverity(e) > 0
<1>. DEFINE f == Contribution(t, decay)
<1>1. Summable(f, OnSegment(l, s))
  BY ContributionsSummable
<1>2. SumOf(f, OnSegment(l, s)) > 0
  BY RiskIsSum
<1>. HIDE DEF f
<1>3. PICK e \in OnSegment(l, s) : f[e] > 0
  BY <1>1, <1>2, SumPositive
<1>4. e \in Version
  BY DEF OnSegment
<1>5. f[e] = AggregateSeverity(e) * Weight(e, t, decay)
  BY <1>4 DEF f, Contribution
<1>6. AggregateSeverity(e) \in Nat /\ Weight(e, t, decay) \in Nat
  BY <1>4, AggregateSeverityType, WeightType
<1>7. \A w \in Nat : 0 * w = 0
  OBVIOUS
<1>8. AggregateSeverity(e) # 0
  BY <1>3, <1>5, <1>6, <1>7
<1>9. QED
  BY <1>6, <1>8

\* The category of a reading is one that was recorded on the segment, or '' if
\* nothing was.
LEMMA DominantIsRecorded ==
  ASSUME NEW l \in SUBSET Version, NEW s, NEW t, NEW decay,
         NEW c \in DominantCategories(l, s, t, decay)
  PROVE  /\ c \in Labels
         /\ OnSegment(l, s) # {} => \E e \in OnSegment(l, s) : c \in Categories(e)
<1>. DEFINE found == OnSegment(l, s)
            share(k) == CategoryShare(l, s, k, t, decay)
            present == UNION {Categories(e) : e \in found}
            largest == {k \in present : \A d \in present : share(d) <= share(k)}
            having == {e \in found : Categories(e) \cap largest # {}}
            earliest == {e \in having : \A f \in having : e.ts <= f.ts}
<1>1. CASE found = {}
  <2>1. c = NoCategory
    BY <1>1 DEF DominantCategories
  <2>2. QED
    BY <1>1, <2>1 DEF Labels
<1>2. CASE found # {}
  <2>1. PICK e \in earliest : c = FirstOf(e, largest)
    BY <1>2 DEF DominantCategories
  <2>2. e \in found /\ e \in Version /\ Categories(e) \cap largest # {}
    BY <2>1 DEF OnSegment
  <2>. HIDE DEF found, largest, having, earliest
  <2>. DEFINE D == {n \in DOMAIN e.factors : e.factors[n].cat \in largest}
  <2>3. /\ e.factors \in Seq([cat : Category, severity : Nat])
    BY <2>2, VersionFields
  <2>4. DOMAIN e.factors = 1..Len(e.factors) /\ Len(e.factors) \in Nat
    BY <2>3, LenProperties
  <2>5. D \in SUBSET Nat /\ D # {}
    <3>1. PICK n \in DOMAIN e.factors : e.factors[n].cat \in largest
      BY <2>2 DEF Categories
    <3>2. n \in D
      BY <3>1
    <3>3. QED
      BY <2>4, <3>2
  <2>6. Min(D) \in D
    BY <2>5, MinOfNats
  <2>7. c = e.factors[Min(D)].cat
    BY <2>1 DEF FirstOf
  <2>8. Min(D) \in DOMAIN e.factors
    BY <2>6
  <2>. HIDE DEF D
  <2>9. c \in Categories(e)
    BY <2>7, <2>8 DEF Categories
  <2>10. c \in Category
    <3>1. e.factors[Min(D)] \in [cat : Category, severity : Nat]
      BY <2>3, <2>4, <2>8, ElementOfSeq
    <3>2. QED
      BY <2>7, <3>1
  <2>11. QED
    BY <2>2, <2>9, <2>10 DEF found, Labels
<1>3. QED
  BY <1>1, <1>2

\* The evidence for a segment is at most MaxEvidence of its events, one with a
\* severity if there is one.
LEMMA EvidenceProperties ==
  ASSUME NEW l \in SUBSET Version, IsFiniteSet(l), NEW s, NEW chosen \in Evidence(l, s)
  PROVE  /\ chosen \subseteq OnSegment(l, s)
         /\ Cardinality(chosen) <= MaxEvidence
         /\ (\E e \in OnSegment(l, s) : AggregateSeverity(e) > 0) =>
              \E e \in chosen : AggregateSeverity(e) > 0
<1>. DEFINE found == OnSegment(l, s)
            before(e, f) ==
              \/ AggregateSeverity(e) > AggregateSeverity(f)
              \/ AggregateSeverity(e) = AggregateSeverity(f) /\ e.ts <= f.ts
<1>1. /\ chosen \subseteq found
      /\ Cardinality(chosen) = Min({MaxEvidence, Cardinality(found)})
      /\ \A e \in chosen, f \in found \ chosen : before(e, f)
  BY DEF Evidence
<1>2. found \subseteq l /\ found \subseteq Version
  BY DEF OnSegment
<1>. HIDE DEF before
<1>. HIDE DEF found
<1>3. IsFiniteSet(found) /\ IsFiniteSet(chosen)
  BY <1>1, <1>2, FS_Subset
<1>4. Cardinality(found) \in Nat /\ MaxEvidence \in Nat \ {0}
  BY <1>3, FS_CardinalityType, ScoringAssumption
<1>5. Cardinality(chosen) = IF MaxEvidence <= Cardinality(found) THEN MaxEvidence
                            ELSE Cardinality(found)
  BY <1>1, <1>4, MinOfTwo
<1>6. ASSUME NEW f \in found, AggregateSeverity(f) > 0
      PROVE  \E d \in chosen : AggregateSeverity(d) > 0
  <2>1. Cardinality(found) # 0
    BY <1>3, <1>6, FS_EmptySet
  <2>2. Cardinality(chosen) # 0
    BY <1>4, <1>5, <2>1
  <2>3. PICK e \in chosen : TRUE
    BY <1>3, <2>2, FS_EmptySet
  <2>4. CASE f \in chosen
    BY <1>6, <2>4
  <2>5. CASE f \notin chosen
    <3>1. before(e, f)
      BY <1>1, <2>3, <2>5
    <3>2. AggregateSeverity(e) \in Nat /\ AggregateSeverity(f) \in Nat
      BY <1>1, <1>2, AggregateSeverityType
    <3>3. AggregateSeverity(e) >= AggregateSeverity(f)
      BY <3>1, <3>2 DEF before
    <3>4. AggregateSeverity(e) > 0
      BY <1>6, <3>2, <3>3
    <3>5. QED
      BY <3>4
  <2>6. QED
    BY <2>4, <2>5
<1>7. QED
  BY <1>1, <1>4, <1>5, <1>6 DEF found

-----------------------------------------------------------------------------
(* The score of a route.                                                   *)

\* Readings are a sequence whose risks are numbers.
IsReadings(rs, n) ==
  n \in Nat /\ DOMAIN rs = 1..n /\ \A k \in 1..n : rs[k].risk \in Nat

\* The risks that were read, in order.
Risks(rs) == [k \in DOMAIN rs |-> rs[k].risk]

\* What score_routes sums over the segments of a route.
RouteRisk(rs) == MapThenSumSet(LAMBDA n : rs[n].risk, DOMAIN rs)

\* The risk of a route is the sum of its readings.
LEMMA RouteRiskIsSum ==
  ASSUME NEW rs
  PROVE  RouteRisk(rs) = SumOf(Risks(rs), DOMAIN rs)
<1>. DEFINE S == DOMAIN rs
            f == Risks(rs)
            term(k) == rs[k].risk
            Step(g, r) == IF r = {} THEN 0
                          ELSE LET x == CHOOSE y \in r : TRUE
                               IN  term(x) + g[r \ {x}]
            P(g) == g = [r \in SUBSET S |-> Step(g, r)]
<1>1. RouteRisk(rs) = (CHOOSE g : P(g))[S]
  BY DEF RouteRisk, MapThenSumSet, MapThenFoldSet
<1>2. \A x \in S : f[x] = term(x)
  BY DEF Risks
<1>. HIDE DEF S, f, term
<1>3. ASSUME NEW g PROVE P(g) <=> IsSum(g, f, S)
  <2>1. \A r \in SUBSET S :
          Step(g, r) = IF r = {} THEN 0 ELSE LET x == CHOOSE y \in r : TRUE
                                             IN  f[x] + g[r \ {x}]
    BY <1>2
  <2>. HIDE DEF Step
  <2>2. [r \in SUBSET S |-> Step(g, r)]
          = [r \in SUBSET S |->
               IF r = {} THEN 0 ELSE LET x == CHOOSE y \in r : TRUE
                                     IN  f[x] + g[r \ {x}]]
    BY <2>1
  <2>3. QED
    BY <2>2 DEF IsSum
<1>. HIDE DEF P
<1>4. (CHOOSE g : P(g)) = (CHOOSE g : IsSum(g, f, S))
  BY <1>3, Zenon
<1>5. QED
  BY <1>1, <1>4 DEF SumOf, S, f

\* The readings of a route can be added up.
LEMMA ReadingsSummable ==
  ASSUME NEW rs, NEW n, IsReadings(rs, n)
  PROVE  Summable(Risks(rs), DOMAIN rs)
<1>1. IsFiniteSet(1..n)
  BY FS_Interval DEF IsReadings
<1>2. QED
  BY <1>1 DEF Summable, Risks, IsReadings

\* Greater readings give no smaller sum.
LEMMA RouteRiskMonotone ==
  ASSUME NEW rs, NEW qs, NEW n, IsReadings(rs, n), IsReadings(qs, n),
         \A k \in 1..n : rs[k].risk <= qs[k].risk
  PROVE  /\ RouteRisk(rs) \in Nat /\ RouteRisk(qs) \in Nat
         /\ RouteRisk(rs) <= RouteRisk(qs)
<1>1. DOMAIN rs = 1..n /\ DOMAIN qs = 1..n
  BY DEF IsReadings
<1>2. Summable(Risks(rs), 1..n) /\ Summable(Risks(qs), 1..n)
  BY <1>1, ReadingsSummable
<1>3. \A k \in 1..n : Risks(rs)[k] <= Risks(qs)[k]
  BY <1>1 DEF Risks
<1>4. /\ SumOf(Risks(rs), 1..n) <= SumOf(Risks(qs), 1..n)
      /\ SumOf(Risks(rs), 1..n) \in Nat /\ SumOf(Risks(qs), 1..n) \in Nat
  BY <1>2, <1>3, SumMonotone, SumType
<1>5. QED
  BY <1>1, <1>4, RouteRiskIsSum

\* Dropping repeats keeps the first element in its place.
LEMMA FirstIsKept ==
  ASSUME NEW C, NEW s \in Seq(C), s # <<>>
  PROVE  WithoutRepeats(s)[1] = s[1]
<1>. DEFINE n == Len(s)
            D == 1..n
            V == Seq(C)
            Take(found, x) == IF Contains(found, x) THEN found ELSE Append(found, x)
            Step(g, r) == IF r = {} THEN <<>>
                          ELSE LET x == Max(r) IN Take(g[r \ {x}], s[x])
            P(g) == g = [r \in SUBSET D |-> Step(g, r)]
            pick == [r \in SUBSET D |-> Max(r)]
            step == [p \in D \X V |-> Take(p[2], s[p[1]])]
<1>1. n \in Nat \ {0} /\ DOMAIN s = D /\ \A k \in D : s[k] \in C
  BY LenProperties, EmptySeq, ElementOfSeq
<1>2. WithoutRepeats(s) = (CHOOSE g : P(g))[D]
  BY <1>1 DEF WithoutRepeats, FoldLeft, MapThenFoldSet
<1>3. \A v \in V, c \in C : Take(v, c) \in V
  BY AppendProperties
<1>4. \A r \in SUBSET D : r # {} => Max(r) \in r
  BY <1>1, MaxIsNext
<1>5. <<>> \in V
  BY EmptySeq
<1>. HIDE DEF Take, V
<1>6. \A r \in SUBSET D : pick[r] = Max(r)
  OBVIOUS
<1>7. \A k \in D, v \in V : step[<<k, v>>] = Take(v, s[k])
  OBVIOUS
<1>8. IsFiniteSet(D)
  BY <1>1, FS_Interval
<1>. HIDE DEF pick, step, D
<1>9. Foldable(D, V, <<>>, pick, step)
  BY <1>1, <1>3, <1>4, <1>5, <1>6, <1>7, <1>8 DEF Foldable
<1>10. PICK g \in [SUBSET D -> V] : IsFold(g, D, <<>>, pick, step)
  BY <1>9, FoldExists
<1>11. P(g)
  <2>1. ASSUME NEW r \in SUBSET D PROVE g[r] = Step(g, r)
    <3>1. CASE r = {}
      BY <1>10, <3>1 DEF IsFold
    <3>2. CASE r # {}
      <4>1. Max(r) \in D /\ g[r \ {Max(r)}] \in V
        BY <1>4, <3>2
      <4>2. g[r] = Take(g[r \ {Max(r)}], s[Max(r)])
        BY <1>6, <1>7, <1>10, <3>2, <4>1 DEF IsFold
      <4>3. QED
        BY <3>2, <4>2
    <3>3. QED
      BY <3>1, <3>2
  <2>2. QED
    BY <2>1
<1>12. PICK h : h = (CHOOSE k : P(k))
  OBVIOUS
<1>13. P(h)
  BY <1>11, <1>12
<1>14. \A k \in 1..n : h[1..k] = Take(h[1..(k - 1)], s[k])
  <2>1. ASSUME NEW k \in 1..n PROVE h[1..k] = Take(h[1..(k - 1)], s[k])
    <3>1. Max(1..k) = k /\ (1..k) \ {k} = 1..(k - 1) /\ 1..k # {}
      BY <1>1, <2>1, LastOfPrefix
    <3>2. 1..k \in SUBSET D
      BY <1>1 DEF D
    <3>3. h[1..k] = Step(h, 1..k)
      BY <1>13, <3>2
    <3>4. QED
      BY <3>1, <3>3
  <2>2. QED
    BY <2>1
<1>15. h[1..0] = <<>>
  <2>1. {} \in SUBSET D /\ 1..0 = {}
    OBVIOUS
  <2>2. QED
    BY <1>13, <2>1
<1>16. \A k \in 1..n : s[k] \in C
  BY <1>1 DEF D
<1>. DEFINE G == {k \in 0..n : k > 0 => /\ h[1..k] \in Seq(C) /\ Len(h[1..k]) > 0
                                        /\ h[1..k][1] = s[1]}
<1>17. 0 \in G
  BY <1>1
<1>18. ASSUME NEW k \in 0..(n - 1), k \in G PROVE k + 1 \in G
  <2>. HIDE DEF P
  <2>1. k + 1 \in 1..n /\ (k + 1) - 1 = k /\ s[k + 1] \in C
    BY <1>1, <1>16
  <2>2. h[1..(k + 1)] = Take(h[1..k], s[k + 1])
    BY <1>14, <2>1
  <2>. DEFINE u == h[1..(k + 1)]
  <2>. HIDE DEF u
  <2>3. SUFFICES u \in Seq(C) /\ Len(u) > 0 /\ u[1] = s[1]
    BY <2>1 DEF u
  <2>4. CASE k = 0
    <3>1. h[1..(k + 1)] = Take(<<>>, s[1])
      BY <1>15, <2>2, <2>4
    <3>2. ~Contains(<<>>, s[1])
      BY DEF Contains
    <3>3. Take(<<>>, s[1]) = <<s[1]>>
      BY <3>2 DEF Take
    <3>4. /\ <<s[1]>> \in Seq(C) /\ Len(<<s[1]>>) = 1 /\ <<s[1]>>[1] = s[1]
      BY <2>1, <2>4
    <3>5. u = <<s[1]>>
      BY <3>1, <3>3 DEF u
    <3>6. QED
      BY <3>4, <3>5
  <2>5. CASE k # 0
    <3>. DEFINE v == h[1..k]
    <3>1. v \in Seq(C) /\ Len(v) > 0 /\ v[1] = s[1]
      BY <1>18, <2>5
    <3>. HIDE DEF v
    <3>2. CASE Contains(v, s[k + 1])
      BY <2>2, <3>1, <3>2 DEF Take, u, v
    <3>3. CASE ~Contains(v, s[k + 1])
      <4>1. Take(v, s[k + 1]) = Append(v, s[k + 1])
        BY <3>3 DEF Take
      <4>2. Len(v) \in Nat /\ 1 \in 1..Len(v)
        BY <3>1, LenProperties
      <4>3. /\ Append(v, s[k + 1]) \in Seq(C)
            /\ Len(Append(v, s[k + 1])) = Len(v) + 1
            /\ Append(v, s[k + 1])[1] = v[1]
        BY <2>1, <3>1, <4>2, AppendProperties
      <4>4. h[1..(k + 1)] = Append(v, s[k + 1])
        BY <2>2, <4>1 DEF v
      <4>5. Len(v) + 1 > 0
        BY <4>2
      <4>6. QED
        BY <3>1, <4>3, <4>4, <4>5 DEF u
    <3>4. QED
      BY <3>2, <3>3
  <2>6. QED
    BY <2>4, <2>5
<1>19. 0..n \subseteq G
  <2>. HIDE DEF G
  <2>1. QED
    BY <1>1, <1>17, <1>18, CountingUp
<1>20. n \in 0..n
  BY <1>1
<1>21. h[1..n][1] = s[1]
  BY <1>1, <1>19, <1>20
<1>22. QED
  BY <1>2, <1>12, <1>21 DEF D

\* "before" of Ranked: riskier, or met earlier.
Outranks(rs, m, n) ==
  \/ rs[m].risk > rs[n].risk
  \/ rs[m].risk = rs[n].risk /\ m < n

\* The first that a score names, if it names any, is a segment of the route
\* with a risk.
LEMMA FirstRanked ==
  ASSUME NEW rs, NEW n, IsReadings(rs, n)
  PROVE  LET ranked == Ranked(rs)
         IN  \E d \in Nat :
               /\ DOMAIN ranked = 1..d
               /\ d > 0 => \E k \in 1..n : rs[k].risk > 0 /\ ranked[1] = rs[k]
<1>. DEFINE risky == {k \in DOMAIN rs : rs[k].risk > 0}
            rank(k) == Cardinality({m \in risky : Outranks(rs, m, k)}) + 1
            d == Min({MaxDominant, Cardinality(risky)})
<1>1. Ranked(rs) = [k \in 1..d |-> rs[CHOOSE m \in risky : rank(m) = k]]
  BY DEF Ranked, Outranks
<1>2. /\ DOMAIN rs = 1..n /\ n \in Nat /\ risky \subseteq 1..n
      /\ \A k \in 1..n : rs[k].risk \in Nat
  BY DEF IsReadings
<1>3. IsFiniteSet(risky)
  <2>1. IsFiniteSet(1..n)
    BY <1>2, FS_Interval
  <2>2. QED
    BY <1>2, <2>1, FS_Subset
<1>. HIDE DEF risky
<1>4. Cardinality(risky) \in Nat /\ (Cardinality(risky) = 0 => risky = {})
  BY <1>3, FS_CardinalityType, FS_EmptySet
<1>5. MaxDominant \in Nat
  BY ScoringAssumption
<1>6. d = IF MaxDominant <= Cardinality(risky) THEN MaxDominant ELSE Cardinality(risky)
  BY <1>4, <1>5, MinOfTwo
<1>7. d \in Nat /\ (d > 0 => Cardinality(risky) # 0)
  BY <1>4, <1>5, <1>6
<1>8. ASSUME d > 0
      PROVE  \E k \in 1..n : rs[k].risk > 0 /\ Ranked(rs)[1] = rs[k]
  <2>1. risky # {}
    BY <1>4, <1>7, <1>8, FS_EmptySet
  <2>. DEFINE R == {p \in risky \X risky : ~Outranks(rs, p[2], p[1])}
  <2>2. \A x, y \in risky : <<x, y>> \in R <=> ~Outranks(rs, y, x)
    OBVIOUS
  <2>. HIDE DEF R
  <2>3. \A x \in risky : rs[x].risk \in Nat /\ x \in Nat
    BY <1>2
  <2>4. \A x, y \in risky : <<x, y>> \in R \/ <<y, x>> \in R
    <3>1. \A x, y \in risky : ~(Outranks(rs, y, x) /\ Outranks(rs, x, y))
      BY <2>3 DEF Outranks
    <3>2. QED
      BY <2>2, <3>1
  <2>5. \A x, y, z \in risky : <<x, y>> \in R /\ <<y, z>> \in R => <<x, z>> \in R
    BY <2>2, <2>3 DEF Outranks
  <2>6. PICK k \in risky : \A y \in risky : <<k, y>> \in R
    BY <1>3, <2>1, <2>4, <2>5, BestOf
  <2>7. {m \in risky : Outranks(rs, m, k)} = {}
    BY <2>2, <2>6
  <2>8. rank(k) = 1
    BY <2>7, FS_EmptySet
  <2>. HIDE DEF rank
  <2>9. PICK j : j = CHOOSE m \in risky : rank(m) = 1
    OBVIOUS
  <2>10. j \in risky
    BY <2>8, <2>9
  <2>11. 1 \in 1..d
    BY <1>7, <1>8
  <2>12. Ranked(rs)[1] = rs[j]
    <3>. HIDE DEF d
    <3>1. QED
      BY <1>1, <2>9, <2>11
  <2>13. QED
    BY <1>2, <2>10, <2>12 DEF risky
<1>9. DOMAIN Ranked(rs) = 1..d
  <2>. HIDE DEF d, rank
  <2>1. QED
    BY <1>1
<1>10. QED
  <2>. HIDE DEF d
  <2>1. QED
    BY <1>7, <1>8, <1>9

\* What a label costs.
SemanticCost(route, w, objective) ==
  w.semantic * SemanticPenalty(route, objective) * 2 ^ Horizon

\* What length costs.
GeometryCost(route, w) == w.geometry * route.length * 2 ^ Horizon

\* A score is made of three costs; its first dominant segment, if it names
\* any, is one that was read with a risk, with the category that was read.
LEMMA ScoreProperties ==
  ASSUME NEW route \in RouteType, NEW rs, NEW n, IsReadings(rs, n),
         NEW w \in WeightsType, NEW objective \in BOOLEAN
  PROVE  LET score == ScoreOf(route, rs, w, objective)
         IN  /\ score.id = route.id
             /\ score.semantic = SemanticCost(route, w, objective)
             /\ score.risk = w.risk * RouteRisk(rs)
             /\ score.total = GeometryCost(route, w) + score.semantic + score.risk
             /\ score.total \in Nat /\ score.risk \in Nat /\ score.semantic \in Nat
             /\ GeometryCost(route, w) \in Nat
             /\ score.segs # <<>> =>
                  \E k \in 1..n : /\ rs[k].risk > 0
                                  /\ score.segs[1] = rs[k].seg
                                  /\ score.cats[1] = rs[k].cat
<1>. DEFINE score == ScoreOf(route, rs, w, objective)
            ranked == Ranked(rs)
            segs == [k \in DOMAIN ranked |-> ranked[k].seg]
            cats == [k \in DOMAIN ranked |-> ranked[k].cat]
<1>1. /\ score.id = route.id
      /\ score.semantic = SemanticCost(route, w, objective)
      /\ score.risk = w.risk * RouteRisk(rs)
      /\ score.total = GeometryCost(route, w) + score.semantic + score.risk
      /\ score.segs = segs /\ score.cats = WithoutRepeats(cats)
  BY DEF ScoreOf, SemanticCost, GeometryCost, RouteRisk
<1>2. 2 ^ Horizon \in Nat
  BY ScoringAssumption, PowerOfTwo
<1>3. RouteRisk(rs) \in Nat
  <2>1. \A k \in 1..n : rs[k].risk <= rs[k].risk
    BY DEF IsReadings
  <2>2. QED
    BY <2>1, RouteRiskMonotone
<1>4. \A a, b, c \in Nat : a * b \in Nat /\ a * b * c \in Nat /\ a + b + c \in Nat
  OBVIOUS
<1>5. /\ w.geometry \in Nat /\ w.semantic \in Nat /\ w.risk \in Nat
      /\ route.length \in Nat /\ SemanticPenalty(route, objective) \in Nat
  BY DEF RouteType, WeightsType, SemanticPenalty
<1>6. /\ GeometryCost(route, w) \in Nat /\ SemanticCost(route, w, objective) \in Nat
      /\ w.risk * RouteRisk(rs) \in Nat
  BY <1>2, <1>3, <1>4, <1>5 DEF GeometryCost, SemanticCost
<1>. HIDE DEF score
<1>7. score.total \in Nat /\ score.risk \in Nat /\ score.semantic \in Nat
  BY <1>1, <1>4, <1>6
<1>8. PICK d \in Nat :
        /\ DOMAIN ranked = 1..d
        /\ d > 0 => \E k \in 1..n : rs[k].risk > 0 /\ ranked[1] = rs[k]
  BY FirstRanked
<1>. HIDE DEF ranked
<1>9. ASSUME score.segs # <<>>
      PROVE  \E k \in 1..n : /\ rs[k].risk > 0
                             /\ score.segs[1] = rs[k].seg
                             /\ score.cats[1] = rs[k].cat
  <2>1. d # 0
    <3>1. d = 0 => segs = <<>>
      BY <1>8
    <3>2. QED
      BY <1>1, <1>9, <3>1
  <2>2. 1 \in DOMAIN ranked
    BY <1>8, <2>1
  <2>3. PICK k \in 1..n : rs[k].risk > 0 /\ ranked[1] = rs[k]
    BY <1>8, <2>1
  <2>. DEFINE C == {ranked[i].cat : i \in DOMAIN ranked}
  <2>4. cats \in Seq(C) /\ cats # <<>>
    <3>1. \A i \in 1..d : cats[i] \in C
      BY <1>8
    <3>2. cats = [i \in 1..d |-> cats[i]]
      BY <1>8
    <3>. HIDE DEF cats, C
    <3>3. cats \in Seq(C) /\ Len(cats) = d
      BY <3>1, <3>2, IsASeq
    <3>4. QED
      BY <2>1, <3>3, EmptySeq
  <2>5. WithoutRepeats(cats)[1] = cats[1]
    BY <2>4, FirstIsKept
  <2>6. score.segs[1] = rs[k].seg /\ cats[1] = rs[k].cat
    BY <1>1, <2>2, <2>3
  <2>7. QED
    BY <1>1, <2>3, <2>5, <2>6
<1>10. QED
  BY <1>1, <1>6, <1>7, <1>9 DEF score

\* Greater readings give no smaller score.
LEMMA ScoreMonotone ==
  ASSUME NEW route \in RouteType, NEW rs, NEW qs, NEW n,
         IsReadings(rs, n), IsReadings(qs, n),
         \A k \in 1..n : rs[k].risk <= qs[k].risk,
         NEW w \in WeightsType, NEW objective \in BOOLEAN
  PROVE  ScoreOf(route, rs, w, objective).total <= ScoreOf(route, qs, w, objective).total
<1>. DEFINE a == ScoreOf(route, rs, w, objective)
            b == ScoreOf(route, qs, w, objective)
<1>1. /\ RouteRisk(rs) \in Nat /\ RouteRisk(qs) \in Nat
      /\ RouteRisk(rs) <= RouteRisk(qs)
  BY RouteRiskMonotone
<1>2. w.risk \in Nat
  BY DEF WeightsType
<1>3. \A x, y, z \in Nat : x <= y => z * x <= z * y
  OBVIOUS
<1>4. w.risk * RouteRisk(rs) <= w.risk * RouteRisk(qs)
  BY <1>1, <1>2, <1>3
<1>5. /\ a.semantic = b.semantic /\ a.semantic \in Nat
      /\ GeometryCost(route, w) \in Nat
      /\ a.risk \in Nat /\ b.risk \in Nat
      /\ a.total = GeometryCost(route, w) + a.semantic + a.risk
      /\ b.total = GeometryCost(route, w) + b.semantic + b.risk
      /\ a.risk = w.risk * RouteRisk(rs) /\ b.risk = w.risk * RouteRisk(qs)
  BY ScoreProperties
<1>. HIDE DEF a, b
<1>6. a.risk <= b.risk
  BY <1>4, <1>5
<1>7. a.total <= b.total
  BY <1>5, <1>6
<1>8. QED
  BY <1>7 DEF a, b

\* There is a cheapest route, if there is a route.
LEMMA CheapestExists ==
  ASSUME NEW ss, NEW n \in Nat, DOMAIN ss = 1..n, n # 0,
         \A k \in 1..n : ss[k].total \in Nat
  PROVE  /\ Cheapest(ss) \in 1..n
         /\ \A k \in 1..n : ss[Cheapest(ss)].total <= ss[k].total
<1>. DEFINE Before(k, m) == \/ ss[k].total < ss[m].total
                            \/ ss[k].total = ss[m].total /\ k <= m
            R == {p \in (1..n) \X (1..n) : Before(p[1], p[2])}
<1>1. \A x, y \in 1..n : <<x, y>> \in R <=> Before(x, y)
  OBVIOUS
<1>. HIDE DEF R
<1>2. /\ \A x, y \in 1..n : Before(x, y) \/ Before(y, x)
      /\ \A x, y, z \in 1..n : Before(x, y) /\ Before(y, z) => Before(x, z)
  OBVIOUS
<1>3. IsFiniteSet(1..n) /\ 1..n # {}
  <2>1. IsFiniteSet(1..n)
    BY FS_Interval
  <2>2. 1 \in 1..n
    OBVIOUS
  <2>3. QED
    BY <2>1, <2>2
<1>. HIDE DEF Before
<1>4. /\ \A x, y \in 1..n : <<x, y>> \in R \/ <<y, x>> \in R
      /\ \A x, y, z \in 1..n : <<x, y>> \in R /\ <<y, z>> \in R => <<x, z>> \in R
  BY <1>1, <1>2
<1>5. \E x \in 1..n : \A y \in 1..n : Before(x, y)
  <2>1. \E x \in 1..n : \A y \in 1..n : <<x, y>> \in R
    BY <1>3, <1>4, BestOf
  <2>2. QED
    BY <1>1, <2>1
<1>6. Cheapest(ss) = CHOOSE k \in 1..n : \A m \in 1..n : Before(k, m)
  BY DEF Cheapest, Before
<1>7. Cheapest(ss) \in 1..n /\ \A m \in 1..n : Before(Cheapest(ss), m)
  BY <1>5, <1>6
<1>8. QED
  BY <1>7 DEF Before

\* There is a first route with the id of the cheapest.
LEMMA ChosenExists ==
  ASSUME NEW ss, NEW n \in Nat, DOMAIN ss = 1..n, n # 0,
         \A k \in 1..n : ss[k].total \in Nat
  PROVE  /\ Chosen(ss) \in 1..n
         /\ ss[Chosen(ss)].id = ss[Cheapest(ss)].id
<1>. DEFINE S == {k \in 1..n : ss[k].id = ss[Cheapest(ss)].id}
            R == {p \in S \X S : p[1] <= p[2]}
<1>1. Cheapest(ss) \in 1..n
  BY CheapestExists
<1>2. IsFiniteSet(S) /\ S # {}
  <2>1. IsFiniteSet(1..n) /\ S \subseteq 1..n
    BY FS_Interval
  <2>2. Cheapest(ss) \in S
    BY <1>1
  <2>3. QED
    BY <2>1, <2>2, FS_Subset
<1>3. S \subseteq Int
  OBVIOUS
<1>4. \A x, y \in S : <<x, y>> \in R <=> x <= y
  OBVIOUS
<1>. HIDE DEF R, S
<1>5. /\ \A x, y \in S : <<x, y>> \in R \/ <<y, x>> \in R
      /\ \A x, y, z \in S : <<x, y>> \in R /\ <<y, z>> \in R => <<x, z>> \in R
  BY <1>3, <1>4
<1>6. \E x \in S : \A y \in S : x <= y
  <2>1. \E x \in S : \A y \in S : <<x, y>> \in R
    BY <1>2, <1>5, BestOf
  <2>2. QED
    BY <1>4, <2>1
<1>7. \E x \in 1..n : /\ ss[x].id = ss[Cheapest(ss)].id
                      /\ \A y \in 1..n : ss[y].id = ss[Cheapest(ss)].id => x <= y
  BY <1>6 DEF S
<1>8. QED
  BY <1>7 DEF Chosen

\* There is a riskiest alternative, if there is an alternative.
LEMMA WorstOtherExists ==
  ASSUME NEW ss, NEW n \in Nat, DOMAIN ss = 1..n, NEW c, Others(ss, c) # {},
         \A k \in 1..n : ss[k].risk \in Nat
  PROVE  WorstOther(ss, c) \in Others(ss, c)
<1>. DEFINE S == Others(ss, c)
            Before(k, m) == \/ ss[k].risk > ss[m].risk
                            \/ ss[k].risk = ss[m].risk /\ k <= m
            R == {p \in S \X S : Before(p[1], p[2])}
<1>0. S \subseteq 1..n
  BY DEF Others
<1>1. \A x, y \in S : <<x, y>> \in R <=> Before(x, y)
  OBVIOUS
<1>. HIDE DEF R, S
<1>2. /\ \A x, y \in S : Before(x, y) \/ Before(y, x)
      /\ \A x, y, z \in S : Before(x, y) /\ Before(y, z) => Before(x, z)
  BY <1>0
<1>3. IsFiniteSet(S) /\ S # {}
  <2>1. IsFiniteSet(1..n)
    BY FS_Interval
  <2>2. IsFiniteSet(S)
    BY <1>0, <2>1, FS_Subset
  <2>3. QED
    BY <2>2 DEF S
<1>4. WorstOther(ss, c) = CHOOSE k \in S : \A m \in S : Before(k, m)
  BY DEF WorstOther, S
<1>. HIDE DEF Before
<1>5. /\ \A x, y \in S : <<x, y>> \in R \/ <<y, x>> \in R
      /\ \A x, y, z \in S : <<x, y>> \in R /\ <<y, z>> \in R => <<x, z>> \in R
  BY <1>1, <1>2
<1>6. \E x \in S : \A y \in S : Before(x, y)
  <2>1. \E x \in S : \A y \in S : <<x, y>> \in R
    BY <1>3, <1>5, BestOf
  <2>2. QED
    BY <1>1, <2>1
<1>7. WorstOther(ss, c) \in S
  BY <1>4, <1>6
<1>8. QED
  BY <1>7 DEF S

-----------------------------------------------------------------------------
(* The store, and reads of it while it is written.                         *)

\* One event is stored under each id.
OneEach(l) == \A e, f \in l : e.id = f.id => e = f

\* What may have been read is, under its id, in the log still.
Tracks(l, seen) ==
  /\ l \subseteq seen
  /\ \A v \in seen : \E g \in l : g.id = v.id

\* Completed, for a log that is given.
CompletedIn(l, rs) == {Torn(r, CHOOSE e \in l : e.id = r.id) : r \in rs}

\* The rows of a read under way, and what the rest of it would make of them
\* now, are among what was seen, on the segment.
ReadOf(l, rs, seen, s) ==
  /\ rs \subseteq Event /\ IsFiniteSet(rs)
  /\ \A r \in rs : /\ r.seg = s /\ r \in seen
                   /\ Torn(r, CHOOSE e \in l : e.id = r.id) \in seen

\* The rows show a severity, unless an id was recorded again.
Shows(rs, seen, s) ==
  Rerecorded(seen, s) \/ \E e \in rs : AggregateSeverity(e) > 0

\* RecordEvent's log.
Recorded(l, e) == {f \in l : f.id # e.id} \cup {e}

\* The event that is stored under an id is found by it.
LEMMA FoundById ==
  ASSUME NEW l, OneEach(l), NEW e \in l, NEW i, e.id = i
  PROVE  (CHOOSE g \in l : g.id = i) = e
BY DEF OneEach

\* Recording an event keeps the log a log of what was seen.
LEMMA RecordKeepsLog ==
  ASSUME NEW l \in SUBSET Event, IsFiniteSet(l), OneEach(l),
         NEW seen \in SUBSET Version, IsFiniteSet(seen), Tracks(l, seen),
         NEW e \in Event
  PROVE  /\ Recorded(l, e) \in SUBSET Event /\ IsFiniteSet(Recorded(l, e))
         /\ OneEach(Recorded(l, e))
         /\ WithVersion(seen, e) \in SUBSET Version
         /\ IsFiniteSet(WithVersion(seen, e))
         /\ Tracks(Recorded(l, e), WithVersion(seen, e))
<1>. DEFINE old == {g \in seen : g.id = e.id}
            torn == {Torn(f, e) : f \in old}
<1>1. IsFiniteSet(Recorded(l, e)) /\ Recorded(l, e) \in SUBSET Event
  <2>1. IsFiniteSet({f \in l : f.id # e.id})
    BY FS_Subset
  <2>2. QED
    BY <2>1, FS_AddElement DEF Recorded
<1>2. OneEach(Recorded(l, e))
  BY DEF OneEach, Recorded
<1>3. IsFiniteSet(old)
  BY FS_Subset
<1>4. IsFiniteSet(torn)
  <2>. DEFINE tear == [f \in old |-> Torn(f, e)]
  <2>1. tear \in Surjection(old, torn)
    BY DEF Surjection
  <2>2. QED
    BY <1>3, <2>1, FS_Surjection
<1>5. WithVersion(seen, e) = (seen \cup torn) \cup {e}
  BY DEF WithVersion
<1>6. \A v \in torn : v \in Version /\ v.id = e.id
  BY TornAgain
<1>7. e \in Version
  BY WholeRead
<1>. HIDE DEF torn
<1>8. IsFiniteSet(WithVersion(seen, e))
  <2>1. IsFiniteSet(seen \cup torn)
    BY <1>4, FS_Union
  <2>2. QED
    BY <1>5, <2>1, FS_AddElement
<1>9. WithVersion(seen, e) \in SUBSET Version
  BY <1>5, <1>6, <1>7
<1>10. Tracks(Recorded(l, e), WithVersion(seen, e))
  <2>1. Recorded(l, e) \subseteq WithVersion(seen, e)
    BY <1>5 DEF Recorded, Tracks
  <2>2. ASSUME NEW v \in WithVersion(seen, e)
        PROVE  \E g \in Recorded(l, e) : g.id = v.id
    <3>1. CASE v.id = e.id
      BY <3>1 DEF Recorded
    <3>2. CASE v.id # e.id
      <4>1. v \in seen
        BY <1>5, <1>6, <3>2
      <4>2. PICK g \in l : g.id = v.id
        BY <4>1 DEF Tracks
      <4>3. QED
        BY <3>2, <4>2 DEF Recorded
    <3>3. QED
      BY <3>1, <3>2
  <2>3. QED
    BY <2>1, <2>2 DEF Tracks
<1>11. QED
  BY <1>1, <1>2, <1>8, <1>9, <1>10

\* More seen does not undo that an id was recorded again.
LEMMA ShowsStill ==
  ASSUME NEW seen, NEW more, seen \subseteq more, NEW rs, NEW s
  PROVE  /\ Rerecorded(seen, s) => Rerecorded(more, s)
         /\ Shows(rs, seen, s) => Shows(rs, more, s)
BY DEF Rerecorded, Shows

\* A read under way stays one while an event is recorded: the rows of its id
\* are now torn.
LEMMA RecordKeepsRead ==
  ASSUME NEW l \in SUBSET Event, OneEach(l), NEW e \in Event, OneEach(Recorded(l, e)),
         NEW seen, Tracks(l, seen),
         NEW rs, NEW s, ReadOf(l, rs, seen, s)
  PROVE  ReadOf(Recorded(l, e), rs, WithVersion(seen, e), s)
<1>1. ASSUME NEW r \in rs
      PROVE  Torn(r, CHOOSE f \in Recorded(l, e) : f.id = r.id) \in WithVersion(seen, e)
  <2>1. r \in seen /\ Torn(r, CHOOSE f \in l : f.id = r.id) \in seen
    BY <1>1 DEF ReadOf
  <2>2. PICK g \in l : g.id = r.id
    BY <2>1 DEF Tracks
  <2>3. CASE r.id = e.id
    <3>1. e \in Recorded(l, e)
      BY DEF Recorded
    <3>2. (CHOOSE f \in Recorded(l, e) : f.id = r.id) = e
      BY <2>3, <3>1, FoundById
    <3>3. QED
      BY <2>1, <2>3, <3>2 DEF WithVersion
  <2>4. CASE r.id # e.id
    <3>1. g \in Recorded(l, e)
      BY <2>2, <2>4 DEF Recorded
    <3>2. (CHOOSE f \in Recorded(l, e) : f.id = r.id) = g
      BY <2>2, <3>1, FoundById
    <3>3. (CHOOSE f \in l : f.id = r.id) = g
      BY <2>2, FoundById
    <3>4. QED
      BY <2>1, <3>2, <3>3 DEF WithVersion
  <2>5. QED
    BY <2>3, <2>4
<1>2. QED
  BY <1>1 DEF ReadOf, WithVersion

\* A read begins with the rows of the log.
LEMMA ReadBegins ==
  ASSUME NEW l \in SUBSET Event, IsFiniteSet(l), OneEach(l), NEW seen,
         Tracks(l, seen), NEW s
  PROVE  ReadOf(l, OnSegment(l, s), seen, s)
<1>1. ASSUME NEW r \in OnSegment(l, s)
      PROVE  r.seg = s /\ r \in seen /\ Torn(r, CHOOSE e \in l : e.id = r.id) \in seen
  <2>1. r \in l /\ r.seg = s
    BY DEF OnSegment
  <2>2. (CHOOSE e \in l : e.id = r.id) = r
    BY <2>1, FoundById
  <2>3. Torn(r, r) = r
    BY <2>1, WholeRead
  <2>4. QED
    BY <2>1, <2>2, <2>3 DEF Tracks
<1>2. IsFiniteSet(OnSegment(l, s))
  BY FS_Subset DEF OnSegment
<1>3. QED
  BY <1>1, <1>2 DEF ReadOf, OnSegment

\* If what was seen on a segment shows a severity, so do the rows a read
\* begins with, unless an id was recorded again.
LEMMA ReadShows ==
  ASSUME NEW l, NEW seen, Tracks(l, seen), NEW s,
         \E e \in OnSegment(seen, s) : AggregateSeverity(e) > 0
  PROVE  Shows(OnSegment(l, s), seen, s)
<1>1. PICK e \in seen : e.seg = s /\ AggregateSeverity(e) > 0
  BY DEF OnSegment
<1>2. PICK g \in l : g.id = e.id
  BY DEF Tracks
<1>3. g \in seen
  BY <1>2 DEF Tracks
<1>4. CASE g = e
  BY <1>1, <1>2, <1>4 DEF Shows, OnSegment
<1>5. CASE g # e
  BY <1>1, <1>2, <1>3, <1>5 DEF Shows, Rerecorded
<1>6. QED
  BY <1>4, <1>5

\* What a read returns was seen, and is of its segment.
LEMMA ReadEnds ==
  ASSUME NEW l \in SUBSET Event, NEW seen \in SUBSET Version, NEW rs, NEW s,
         Tracks(l, seen), ReadOf(l, rs, seen, s)
  PROVE  /\ CompletedIn(l, rs) \in SUBSET Version /\ IsFiniteSet(CompletedIn(l, rs))
         /\ CompletedIn(l, rs) \subseteq OnSegment(seen, s)
         /\ OnSegment(CompletedIn(l, rs), s) = CompletedIn(l, rs)
<1>. DEFINE complete == [r \in rs |-> Torn(r, CHOOSE e \in l : e.id = r.id)]
            found == CompletedIn(l, rs)
<1>1. \A r \in rs : complete[r] \in seen /\ complete[r].seg = s
  <2>1. SUFFICES ASSUME NEW r \in rs
                 PROVE  complete[r] \in seen /\ complete[r].seg = s
    OBVIOUS
  <2>2. /\ r \in Event /\ r \in seen /\ r.seg = s /\ complete[r] \in seen
    BY DEF ReadOf
  <2>3. PICK g \in l : g.id = r.id
    BY <2>2 DEF Tracks
  <2>4. (CHOOSE e \in l : e.id = r.id) \in Event
    BY <2>3
  <2>5. Torn(r, CHOOSE e \in l : e.id = r.id).seg = s
    BY <2>2, <2>4, TornFields
  <2>6. QED
    BY <2>2, <2>5
<1>2. found = {complete[r] : r \in rs}
  BY DEF CompletedIn
<1>3. complete \in Surjection(rs, found)
  BY <1>2 DEF Surjection
<1>4. IsFiniteSet(found)
  BY <1>3, FS_Surjection DEF ReadOf
<1>. HIDE DEF complete, found
<1>5. \A v \in found : v \in seen /\ v.seg = s
  BY <1>1, <1>2
<1>6. QED
  BY <1>4, <1>5 DEF OnSegment, found

\* The evidence that a read yields supports what it is cited for.
LEMMA ReadCites ==
  ASSUME NEW l \in SUBSET Event, OneEach(l), NEW seen \in SUBSET Version,
         NEW rs, NEW s, Tracks(l, seen), ReadOf(l, rs, seen, s), Shows(rs, seen, s),
         NEW chosen \in Evidence(CompletedIn(l, rs), s)
  PROVE  Supports(chosen, seen, s)
<1>. DEFINE found == CompletedIn(l, rs)
<1>1. /\ found \in SUBSET Version /\ IsFiniteSet(found)
      /\ found \subseteq OnSegment(seen, s) /\ OnSegment(found, s) = found
  BY ReadEnds
<1>2. /\ chosen \subseteq found /\ Cardinality(chosen) <= MaxEvidence
      /\ (\E e \in found : AggregateSeverity(e) > 0) =>
           \E e \in chosen : AggregateSeverity(e) > 0
  BY <1>1, EvidenceProperties
<1>3. ASSUME ~Rerecorded(seen, s)
      PROVE  \E e \in found : AggregateSeverity(e) > 0
  <2>1. PICK r \in rs : AggregateSeverity(r) > 0
    BY <1>3 DEF Shows
  <2>2. r \in Event /\ r \in seen /\ r.seg = s
    BY <2>1 DEF ReadOf
  <2>3. PICK g \in l : g.id = r.id
    BY <2>2 DEF Tracks
  <2>4. g \in seen
    BY <2>3 DEF Tracks
  <2>5. g = r
    BY <1>3, <2>2, <2>3, <2>4 DEF Rerecorded
  <2>6. (CHOOSE e \in l : e.id = r.id) = r
    BY <2>3, <2>5, FoundById
  <2>7. Torn(r, r) = r
    BY <2>2, WholeRead
  <2>8. r \in found
    <3>1. Torn(r, CHOOSE e \in l : e.id = r.id) \in found
      BY <2>1 DEF CompletedIn
    <3>. HIDE DEF found
    <3>2. QED
      BY <2>6, <2>7, <3>1
  <2>9. QED
    BY <2>1, <2>8
<1>. HIDE DEF found
<1>4. QED
  BY <1>1, <1>2, <1>3 DEF Supports

-----------------------------------------------------------------------------
(* The inductive invariant.                                                *)

\* A request with the weights it is served with and the time it came.
InHand == [routes : Seq(RouteType), objective : BOOLEAN, weights : Weights,
           at : 0..MaxTime]

\* FrozenScore's total, for a request that is given.
FrozenTotal(l, route, req) ==
  ScoreOf(route,
          [n \in DOMAIN route.segs |->
             [seg |-> route.segs[n],
              risk |-> RiskOf(l, route.segs[n], req.at, req.weights.decay),
              cat |-> NoCategory]],
          req.weights, req.objective).total

\* What was seen has a reason for a risk on a segment, and for the category.
EvidencedOn(l, s, c) ==
  /\ \E e \in OnSegment(l, s) : c \in Categories(e)
  /\ \E e \in OnSegment(l, s) : AggregateSeverity(e) > 0

\* A sequence, of whatever it holds.
IsSeq(q) == q \in Seq({q[n] : n \in DOMAIN q})

\* The log is what was stored last under each id that was ever seen; while a
\* request is in hand, so it is of what was seen since.
LogInv ==
  /\ now \in 0..MaxTime
  /\ log \subseteq Event /\ IsFiniteSet(log) /\ OneEach(log)
  /\ ever \subseteq Version /\ IsFiniteSet(ever) /\ Tracks(log, ever)
  /\ held \subseteq ever
  /\ atStart \subseteq Event /\ IsFiniteSet(atStart)
  /\ InRequest => Tracks(log, held) /\ atStart \subseteq held
  /\ up \in BOOLEAN /\ store \in BOOLEAN

\* Without a request there is nothing to score or to answer; nothing is
\* answered before everything is scored.
RequestInv ==
  /\ pc \in {"down", "idle", "scoring", "reading"}
  /\ request = None =>
       ~InRequest /\ readings = <<>> /\ scores = <<>> /\ answer = None
  /\ request # None =>
       /\ request \in InHand
       /\ [routes |-> request.routes, objective |-> request.objective] \in Request
  /\ answer # None => ~InRequest

\* What the planner reads is the next segment of the next route, where the
\* events that were there all the time are found, or the evidence.
RowsInv ==
  /\ rows \subseteq Event
  /\ pc = "reading" /\ ~Scored =>
       /\ Len(readings) < Len(Route.segs)
       /\ ReadOf(log, rows, held, NextSegment)
       /\ OnSegment(Steady, NextSegment) \subseteq rows
  /\ pc = "reading" /\ Scored =>
       /\ scores # <<>> /\ AvoidsRisk(scores, Chosen(scores))
       /\ ReadOf(log, rows, held, Avoided.segs[1])
       /\ Shows(rows, held, Avoided.segs[1])

\* A reading is of its segment, between the risk that was there all the time
\* and all that was seen, and has a cause if there is a risk.
ReadingInv(r, s) ==
  /\ r.seg = s
  /\ RiskOf(Steady, s, request.at, request.weights.decay) <= r.risk
  /\ r.risk <= RiskOf(held, s, request.at, request.weights.decay)
  /\ r.risk > 0 => EvidencedOn(held, s, r.cat)

\* Segments read so far have their reasons.
ReadingsInv ==
  /\ readings \in Seq(ReadingType)
  /\ readings # <<>> =>
       /\ InRequest /\ Len(scores) < Len(request.routes)
       /\ Len(readings) <= Len(Route.segs)
  /\ \A n \in 1..Len(readings) : ReadingInv(readings[n], Route.segs[n])

\* What every score says: a segment it names has a cause.
GoodScore(l, score) ==
  /\ score.total \in Nat /\ score.semantic \in Nat /\ score.risk \in Nat
  /\ score.segs # <<>> => EvidencedOn(l, score.segs[1], score.cats[1])

\* What the score of a route says of the route.
ScoreInv(score, route) ==
  /\ GoodScore(held, score)
  /\ score.id = route.id
  /\ score.semantic = SemanticCost(route, request.weights, request.objective)
  /\ score.total = GeometryCost(route, request.weights) + score.semantic + score.risk
  /\ score.segs # <<>> => Contains(route.segs, score.segs[1])
  /\ FrozenTotal(Steady, route, request) <= score.total
  /\ score.total <= FrozenTotal(held, route, request)

\* Every score is of its route and has its reasons, and there are none but
\* while a request is in hand.
ScoresInv ==
  /\ IsSeq(scores)
  /\ scores # <<>> => InRequest
  /\ request # None => Len(scores) <= Len(request.routes)
  /\ \A n \in 1..Len(scores) : ScoreInv(scores[n], request.routes[n])

\* The explainer may name what the array says first.
GoodArray(l, array) ==
  array.scored /\ array.segs # <<>> => EvidencedOn(l, array.segs[1], array.cats[1])

\* Every score array that waits for the explainer is a good one.
TopicInv ==
  /\ IsSeq(topic) /\ Len(topic) <= Depth
  /\ \A n \in 1..Len(topic) : GoodArray(ever, topic[n])

\* Does length cost anything?
LengthCosts == \A w \in Weights : w.geometry > 0

\* What an answer promises, until the next request.
AnswerInv ==
  /\ answer # None => answer.template \in Templates /\ answer.evidence \subseteq Version
  /\ ChoiceIsJustified
  /\ AvoidanceIsEvidenced
  /\ LengthCosts => ShorterIsShorter

\* A stopped explainer says nothing; one that reads has a reason to.
ExplainerInv ==
  /\ fetched \subseteq Event
  /\ ~up => naming = None /\ said = None
  /\ said # None => said.evidence \subseteq Version
  /\ naming # None =>
       /\ store
       /\ EvidencedOn(ever, naming.seg, naming.cat)
       /\ ReadOf(log, fetched, ever, naming.seg)
       /\ Shows(fetched, ever, naming.seg)
  /\ RemainingRiskIsEvidenced

\* The inductive invariant: what each part of the state says of the log and of
\* the request.
Inv ==
  /\ LogInv /\ RequestInv /\ RowsInv /\ ReadingsInv /\ ScoresInv /\ TopicInv
  /\ AnswerInv /\ ExplainerInv

\* A sequence over any set is one over its own elements.
LEMMA SeqIsSeq ==
  ASSUME NEW S, NEW q \in Seq(S)
  PROVE  IsSeq(q) /\ Len(q) \in Nat /\ DOMAIN q = 1..Len(q)
<1>. DEFINE E == {q[n] : n \in DOMAIN q}
<1>1. Len(q) \in Nat /\ DOMAIN q = 1..Len(q) /\ q \in [1..Len(q) -> S]
  BY LenProperties
<1>2. \A n \in 1..Len(q) : q[n] \in E
  BY <1>1
<1>3. q = [n \in 1..Len(q) |-> q[n]]
  BY <1>1
<1>. HIDE DEF E
<1>4. [n \in 1..Len(q) |-> q[n]] \in Seq(E)
  BY <1>1, <1>2, IsASeq
<1>5. QED
  BY <1>1, <1>3, <1>4 DEF IsSeq, E

-----------------------------------------------------------------------------
(* What more to see keeps.                                                 *)

\* A cause of a risk stays one.
LEMMA EvidenceGrows ==
  ASSUME NEW l, NEW m, l \subseteq m, NEW s, NEW c, EvidencedOn(l, s, c)
  PROVE  EvidencedOn(m, s, c)
BY DEF EvidencedOn, OnSegment

\* What was true of a score stays true of more.
LEMMA GoodScoreGrows ==
  ASSUME NEW l, NEW m, l \subseteq m, NEW score, GoodScore(l, score)
  PROVE  GoodScore(m, score)
BY EvidenceGrows DEF GoodScore

\* So does what was true of an array of them.
LEMMA GoodArrayGrows ==
  ASSUME NEW l, NEW m, l \subseteq m, NEW array, GoodArray(l, array)
  PROVE  GoodArray(m, array)
BY EvidenceGrows DEF GoodArray

\* A request in hand has the types of its parts.
LEMMA InHandTypes ==
  ASSUME NEW req \in InHand
  PROVE  /\ req.routes \in Seq(RouteType) /\ req.objective \in BOOLEAN
         /\ req.weights \in WeightsType /\ req.at \in Int
         /\ \A n \in 1..Len(req.routes) : req.routes[n] \in RouteType
<1>1. req.routes \in Seq(RouteType) /\ req.objective \in BOOLEAN
      /\ req.weights \in Weights /\ req.at \in 0..MaxTime
  BY DEF InHand
<1>2. req.weights \in WeightsType
  BY <1>1, RequestAssumption DEF WeightsType
<1>3. req.at \in Int
  BY <1>1, RequestAssumption
<1>4. QED
  BY <1>1, <1>2, <1>3, ElementOfSeq

\* The segments of a route, read all at once.
LEMMA FrozenReadings ==
  ASSUME NEW l \in SUBSET Version, IsFiniteSet(l), NEW req \in InHand,
         NEW route \in RouteType
  PROVE  IsReadings([n \in DOMAIN route.segs |->
                       [seg |-> route.segs[n],
                        risk |-> RiskOf(l, route.segs[n], req.at, req.weights.decay),
                        cat |-> NoCategory]], Len(route.segs))
<1>1. route.segs \in Seq(Segment)
  BY DEF RouteType
<1>2. Len(route.segs) \in Nat /\ DOMAIN route.segs = 1..Len(route.segs)
  BY <1>1, LenProperties
<1>3. \A s : RiskOf(l, s, req.at, req.weights.decay) \in Nat
  <2>1. \A s : OnSegment(l, s) \subseteq OnSegment(l, s)
    OBVIOUS
  <2>2. QED
    BY <2>1, InHandTypes, RiskGrows
<1>4. QED
  BY <1>2, <1>3 DEF IsReadings

\* What a route deserves grows with the events.
LEMMA FrozenGrows ==
  ASSUME NEW m \in SUBSET Version, IsFiniteSet(m), NEW l \in SUBSET m,
         NEW req \in InHand, NEW route \in RouteType
  PROVE  /\ FrozenTotal(l, route, req) \in Nat
         /\ FrozenTotal(m, route, req) \in Nat
         /\ FrozenTotal(l, route, req) <= FrozenTotal(m, route, req)
<1>. DEFINE read1(x) == [n \in DOMAIN route.segs |->
              [seg |-> route.segs[n],
               risk |-> RiskOf(x, route.segs[n], req.at, req.weights.decay),
               cat |-> NoCategory]]
            len == Len(route.segs)
<1>1. IsFiniteSet(l) /\ l \in SUBSET Version
  BY FS_Subset
<1>2. IsReadings(read1(l), len) /\ IsReadings(read1(m), len)
  BY <1>1, FrozenReadings
<1>3. DOMAIN route.segs = 1..len
  BY <1>2 DEF IsReadings
<1>4. \A s : RiskOf(l, s, req.at, req.weights.decay)
               <= RiskOf(m, s, req.at, req.weights.decay)
  <2>1. \A s : OnSegment(l, s) \subseteq OnSegment(m, s)
    BY DEF OnSegment
  <2>2. QED
    BY <1>1, <2>1, InHandTypes, RiskGrows
<1>5. \A n \in 1..len : read1(l)[n].risk <= read1(m)[n].risk
  BY <1>3, <1>4
<1>6. req.weights \in WeightsType /\ req.objective \in BOOLEAN
  BY InHandTypes
<1>7. /\ FrozenTotal(l, route, req)
           = ScoreOf(route, read1(l), req.weights, req.objective).total
      /\ FrozenTotal(m, route, req)
           = ScoreOf(route, read1(m), req.weights, req.objective).total
  BY DEF FrozenTotal
<1>. HIDE DEF read1, len
<1>8. ScoreOf(route, read1(l), req.weights, req.objective).total
        <= ScoreOf(route, read1(m), req.weights, req.objective).total
  BY <1>2, <1>5, <1>6, ScoreMonotone
<1>9. /\ ScoreOf(route, read1(l), req.weights, req.objective).total \in Nat
      /\ ScoreOf(route, read1(m), req.weights, req.objective).total \in Nat
  BY <1>2, <1>6, ScoreProperties
<1>10. QED
  BY <1>7, <1>8, <1>9

\* What is appended to a sequence is its last element.
LEMMA AppendedLast ==
  ASSUME NEW q, IsSeq(q), NEW x
  PROVE  /\ IsSeq(Append(q, x))
         /\ Len(q) \in Nat /\ Len(Append(q, x)) = Len(q) + 1
         /\ \A n \in 1..Len(q) : Append(q, x)[n] = q[n]
         /\ Append(q, x)[Len(q) + 1] = x
<1>. DEFINE S == {q[n] : n \in DOMAIN q}
            T == S \cup {x}
            p == Append(q, x)
<1>1. q \in Seq(S)
  BY DEF IsSeq
<1>. HIDE DEF S
<1>2. q \in Seq(T)
  BY <1>1, SeqMonotonic
<1>3. /\ p \in Seq(T) /\ Len(q) \in Nat /\ Len(p) = Len(q) + 1
      /\ \A n \in 1..Len(q) : p[n] = q[n]
      /\ p[Len(q) + 1] = x
  BY <1>2, AppendProperties, LenProperties
<1>4. IsSeq(p)
  BY <1>3, SeqIsSeq
<1>5. QED
  BY <1>3, <1>4

-----------------------------------------------------------------------------
(* Every step keeps the invariant, one part after the other.               *)

\* A step goes on with the request, if there is one, seeing no less of the
\* store, or it leaves nothing that is said of it.
Continues ==
  \/ atStart' = atStart /\ held \subseteq held'
  \/ readings' = <<>> /\ scores' = <<>> /\ answer' = None

\* The events that are there all the time grow fewer.
LEMMA SteadyShrinks ==
  ASSUME atStart' = atStart, held \subseteq held'
  PROVE  Steady' \subseteq Steady
BY DEF Steady

\* They are in the log, and are in all that was seen.
LEMMA SteadyIsStored ==
  ASSUME LogInv, InRequest
  PROVE  Steady \subseteq log /\ Steady \subseteq held
<1>1. ASSUME NEW e \in Steady PROVE e \in log /\ e \in held
  <2>1. e \in held
    BY DEF Steady, LogInv
  <2>2. PICK g \in log : g.id = e.id
    BY <2>1 DEF LogInv, Tracks
  <2>3. g \in held
    BY <2>2 DEF LogInv, Tracks
  <2>4. QED
    BY <2>1, <2>2, <2>3 DEF Steady
<1>2. QED
  BY <1>1

\* Versions are finitely many, whichever way they are collected.
LEMMA SeenTypes ==
  ASSUME LogInv
  PROVE  /\ held \in SUBSET Version /\ IsFiniteSet(held)
         /\ ever \in SUBSET Version /\ IsFiniteSet(ever)
         /\ Steady \in SUBSET Version /\ IsFiniteSet(Steady)
<1>1. IsFiniteSet(held) /\ IsFiniteSet(Steady)
  BY FS_Subset DEF LogInv, Steady
<1>2. Steady \subseteq Version
  BY WholeRead DEF LogInv, Steady
<1>3. QED
  BY <1>1, <1>2 DEF LogInv

\* The log changes by an event that is recorded, and what was seen with it.
LEMMA RecordStep ==
  ASSUME LogInv, NEW e \in Event, RecordEvent(e)
  PROVE  /\ LogInv' /\ ever \subseteq ever' /\ held \subseteq held'
         /\ log' = Recorded(log, e) /\ ever' = WithVersion(ever, e)
         /\ InRequest => held' = WithVersion(held, e)
<1>1. /\ log' = Recorded(log, e) /\ ever' = WithVersion(ever, e)
      /\ held' = IF InRequest THEN WithVersion(held, e) ELSE held
      /\ UNCHANGED <<now, pc, atStart, up, store>>
  BY DEF RecordEvent, Recorded, planner, explainer
<1>2. /\ Recorded(log, e) \in SUBSET Event /\ IsFiniteSet(Recorded(log, e))
      /\ OneEach(Recorded(log, e))
      /\ WithVersion(ever, e) \in SUBSET Version /\ IsFiniteSet(WithVersion(ever, e))
      /\ Tracks(Recorded(log, e), WithVersion(ever, e))
  BY RecordKeepsLog DEF LogInv
<1>3. InRequest => Tracks(Recorded(log, e), WithVersion(held, e))
  BY SeenTypes, RecordKeepsLog DEF LogInv
<1>4. held \subseteq ever
  BY DEF LogInv
<1>5. /\ ever \subseteq WithVersion(ever, e) /\ held \subseteq WithVersion(held, e)
      /\ WithVersion(held, e) \subseteq WithVersion(ever, e)
  BY <1>4 DEF WithVersion
<1>6. held' \subseteq ever' /\ held \subseteq held'
  BY <1>1, <1>4, <1>5
<1>7. InRequest' <=> InRequest
  BY <1>1 DEF InRequest
<1>8. InRequest' => Tracks(log', held') /\ atStart' \subseteq held'
  BY <1>1, <1>3, <1>6, <1>7 DEF LogInv
<1>9. LogInv'
  BY <1>1, <1>2, <1>6, <1>8 DEF LogInv
<1>10. QED
  BY <1>1, <1>5, <1>6, <1>9

\* A step that records nothing leaves the log and all that was ever seen.
LEMMA LogStep ==
  ASSUME LogInv, RequestInv, [Next]_vars
  PROVE  LogInv' /\ ever \subseteq ever' /\ Continues
<1>1. CASE UNCHANGED <<now, log, held, ever, atStart, up, store>> /\ (InRequest' => InRequest)
  BY <1>1 DEF LogInv, Continues
<1>2. CASE Tick
  <2>1. /\ now' \in 0..MaxTime
        /\ UNCHANGED <<log, held, ever, pc, atStart, up, store>>
    BY <1>2, RequestAssumption DEF Tick, stored, planner, explainer, LogInv
  <2>2. QED
    BY <2>1 DEF LogInv, InRequest, Continues
<1>3. ASSUME NEW e \in Event, RecordEvent(e)
      PROVE  LogInv' /\ ever \subseteq ever' /\ Continues
  <2>1. atStart' = atStart
    BY <1>3 DEF RecordEvent, planner
  <2>2. QED
    BY <1>3, <2>1, RecordStep DEF Continues
<1>4. CASE StartPlanner
  BY <1>1, <1>4 DEF StartPlanner, explainer, stored, InRequest
<1>5. CASE CrashPlanner
  <2>1. /\ UNCHANGED <<now, log, ever, up, store>> /\ ~InRequest'
        /\ atStart' = {} /\ held' = {} /\ IsFiniteSet({})
        /\ readings' = <<>> /\ scores' = <<>> /\ answer' = None
    BY <1>5, FS_EmptySet DEF CrashPlanner, explainer, InRequest
  <2>2. QED
    BY <2>1 DEF LogInv, Continues
<1>6. ASSUME NEW r \in Request, NEW w \in Weights, OnScore(r, w)
      PROVE  LogInv' /\ ever \subseteq ever' /\ Continues
  <2>1. /\ UNCHANGED <<now, log, ever, up, store>>
        /\ atStart' = log /\ held' = log
        /\ readings' = <<>> /\ scores' = <<>> /\ answer' = None
    BY <1>6 DEF OnScore, explainer
  <2>2. log \subseteq ever /\ Tracks(log, log)
    BY DEF LogInv, Tracks
  <2>3. QED
    BY <2>1, <2>2 DEF LogInv, Continues
<1>7. CASE SelectSegmentRows \/ SelectEvidenceRows
  <2>1. UNCHANGED <<now, log, held, ever, atStart, up, store>> /\ InRequest
    BY <1>7 DEF SelectSegmentRows, SelectEvidenceRows, SelectRows, stored,
                explainer, InRequest
  <2>2. QED
    BY <1>1, <2>1
<1>8. CASE ReadSegment \/ ScoreRoute
  <2>1. UNCHANGED <<now, log, held, ever, atStart, up, store>> /\ InRequest
    BY <1>8 DEF ReadSegment, ScoreRoute, stored, explainer, InRequest
  <2>2. QED
    BY <1>1, <2>1
<1>9. CASE RespondToNoCandidates \/ RespondAvoiding \/ RespondOtherwise
  <2>1. UNCHANGED <<now, log, held, ever, atStart, up, store>> /\ ~InRequest'
    BY <1>9 DEF RespondToNoCandidates, RespondAvoiding, RespondOtherwise,
                Respond, stored, explainer, InRequest
  <2>2. QED
    BY <1>1, <2>1
<1>10. CASE StartExplainer \/ CrashExplainer \/ OnScores \/ SayWithEvidence
  <2>1. /\ UNCHANGED <<now, log, held, ever, pc, atStart>>
        /\ up' \in BOOLEAN /\ store' \in BOOLEAN
    BY <1>10 DEF StartExplainer, CrashExplainer, OnScores, SayWithEvidence,
                 stored, planner, LogInv
  <2>2. QED
    BY <2>1 DEF LogInv, InRequest, Continues
<1>11. CASE UNCHANGED vars
  BY <1>1, <1>11 DEF vars, stored, planner, explainer, InRequest
<1>12. QED
  BY <1>2, <1>3, <1>4, <1>5, <1>6, <1>7, <1>8, <1>9, <1>10, <1>11
  DEF Next, PlannerStep

\* The same of the next state.
LEMMA SeenTypesNext ==
  ASSUME LogInv'
  PROVE  /\ held' \in SUBSET Version /\ IsFiniteSet(held')
         /\ Steady' \in SUBSET Version /\ IsFiniteSet(Steady')
<1>1. IsFiniteSet(held') /\ IsFiniteSet(Steady')
  BY FS_Subset DEF LogInv, Steady
<1>2. Steady' \subseteq Version
  BY WholeRead DEF LogInv, Steady
<1>3. QED
  BY <1>1, <1>2 DEF LogInv

\* A request is typed, and is answered after it was scored.
LEMMA RequestStep ==
  ASSUME LogInv, RequestInv, [Next]_vars
  PROVE  RequestInv'
<1>. USE DEF RequestInv, InRequest
<1>1. CASE UNCHANGED <<pc, request, readings, scores, answer>>
  BY <1>1
<1>2. CASE StartPlanner
  BY <1>2 DEF StartPlanner
<1>3. CASE CrashPlanner
  BY <1>3 DEF CrashPlanner
<1>4. ASSUME NEW r \in Request, NEW w \in Weights, OnScore(r, w)
      PROVE  RequestInv'
  <2>1. r \in [routes : Seq(RouteType), objective : BOOLEAN]
    BY RequestAssumption DEF RouteType
  <2>2. request' = NewRequest(r, w) /\ pc' = "scoring" /\ answer' = None
    BY <1>4 DEF OnScore
  <2>3. NewRequest(r, w) \in InHand
    BY <2>1 DEF InHand, NewRequest, LogInv
  <2>4. None \notin InHand
    BY RequestAssumption DEF InHand, RouteType
  <2>5. r = [routes |-> NewRequest(r, w).routes, objective |-> NewRequest(r, w).objective]
    BY <2>1 DEF NewRequest
  <2>6. QED
    BY <2>2, <2>3, <2>4, <2>5
<1>5. CASE SelectSegmentRows \/ SelectEvidenceRows
  <2>1. UNCHANGED <<request, readings, scores, answer>> /\ pc = "scoring" /\ pc' = "reading"
    BY <1>5 DEF SelectSegmentRows, SelectEvidenceRows, SelectRows
  <2>2. QED
    BY <2>1
<1>6. CASE ReadSegment
  <2>1. UNCHANGED <<request, scores, answer>> /\ pc = "reading" /\ pc' = "scoring"
    BY <1>6 DEF ReadSegment
  <2>2. QED
    BY <2>1
<1>7. CASE ScoreRoute
  <2>1. UNCHANGED <<pc, request, answer>> /\ pc = "scoring"
    BY <1>7 DEF ScoreRoute
  <2>2. QED
    BY <2>1
<1>8. CASE RespondToNoCandidates \/ RespondAvoiding \/ RespondOtherwise
  <2>1. UNCHANGED <<request, readings>> /\ InRequest /\ pc' = "idle" /\ scores' = <<>>
    BY <1>8 DEF RespondToNoCandidates, RespondAvoiding, RespondOtherwise, Respond
  <2>2. QED
    BY <2>1
<1>9. CASE Tick \/ (\E e \in Event : RecordEvent(e))
  <2>1. UNCHANGED planner
    BY <1>9 DEF Tick, RecordEvent
  <2>2. QED
    BY <1>1, <2>1 DEF planner
<1>10. CASE StartExplainer \/ CrashExplainer \/ OnScores \/ SayWithEvidence
            \/ UNCHANGED vars
  <2>1. UNCHANGED planner
    BY <1>10 DEF StartExplainer, CrashExplainer, OnScores, SayWithEvidence, vars
  <2>2. QED
    BY <1>1, <2>1 DEF planner
<1>11. QED
  BY <1>2, <1>3, <1>4, <1>5, <1>6, <1>7, <1>8, <1>9, <1>10 DEF Next, PlannerStep

\* Steps that are not the planner's leave it alone.
LEMMA OthersKeepPlanner ==
  ASSUME \/ Tick \/ (\E e \in Event : RecordEvent(e)) \/ StartExplainer
         \/ CrashExplainer \/ OnScores \/ SayWithEvidence \/ UNCHANGED vars
  PROVE  UNCHANGED <<pc, request, rows, readings, scores, answer, atStart>>
<1>1. UNCHANGED planner
  BY DEF Tick, RecordEvent, StartExplainer, CrashExplainer, OnScores,
         SayWithEvidence, vars
<1>2. QED
  BY <1>1 DEF planner

\* While the planner scores, there is a next route, of the request in hand.
LEMMA NextRoute ==
  ASSUME RequestInv, ScoresInv, InRequest, ~Scored
  PROVE  /\ request \in InHand
         /\ Len(scores) \in Nat /\ Len(request.routes) \in Nat
         /\ Len(scores) < Len(request.routes)
         /\ Route \in RouteType
         /\ Route.segs \in Seq(Segment) /\ Len(Route.segs) \in Nat
         /\ DOMAIN Route.segs = 1..Len(Route.segs)
<1>1. request \in InHand /\ Len(scores) <= Len(request.routes)
  BY DEF RequestInv, ScoresInv
<1>2. Len(scores) \in Nat
  BY SeqIsSeq DEF ScoresInv, IsSeq
<1>3. /\ request.routes \in Seq(RouteType)
      /\ \A n \in 1..Len(request.routes) : request.routes[n] \in RouteType
  BY <1>1, InHandTypes
<1>4. Len(request.routes) \in Nat
  BY <1>3, LenProperties
<1>5. Len(scores) + 1 \in 1..Len(request.routes)
  BY <1>1, <1>2, <1>4 DEF Scored
<1>6. Route \in RouteType
  BY <1>3, <1>5 DEF Route
<1>7. Route.segs \in Seq(Segment)
  BY <1>6 DEF RouteType
<1>8. QED
  BY <1>1, <1>2, <1>4, <1>5, <1>6, <1>7, LenProperties

\* Once everything is scored, the cheapest route is one of those requested.
LEMMA CheapestScored ==
  ASSUME ScoresInv, scores # <<>>
  PROVE  /\ Len(scores) \in Nat /\ DOMAIN scores = 1..Len(scores)
         /\ Cheapest(scores) \in 1..Len(scores)
         /\ \A k \in 1..Len(scores) :
              scores[Cheapest(scores)].total <= scores[k].total
         /\ Chosen(scores) \in 1..Len(scores)
         /\ scores[Chosen(scores)].id = scores[Cheapest(scores)].id
<1>1. /\ Len(scores) \in Nat /\ DOMAIN scores = 1..Len(scores)
      /\ scores \in Seq({scores[n] : n \in DOMAIN scores})
  BY SeqIsSeq DEF ScoresInv, IsSeq
<1>2. Len(scores) # 0
  BY <1>1, EmptySeq
<1>3. \A k \in 1..Len(scores) : scores[k].total \in Nat
  BY DEF ScoresInv, ScoreInv, GoodScore
<1>4. QED
  BY <1>1, <1>2, <1>3, CheapestExists, ChosenExists

\* The route said to be avoided is an alternative, and its first dominant
\* segment has a cause.
LEMMA AvoidedProperties ==
  ASSUME RequestInv, ScoresInv, InRequest, Scored, scores # <<>>,
         AvoidsRisk(scores, Chosen(scores))
  PROVE  /\ EvidencedOn(held, Avoided.segs[1], Avoided.cats[1])
         /\ \E n \in DOMAIN request.routes \ Called(ChosenId) :
              Contains(request.routes[n].segs, Avoided.segs[1])
<1>. DEFINE c == Chosen(scores)
            k == WorstOther(scores, c)
<1>1. /\ Len(scores) \in Nat /\ DOMAIN scores = 1..Len(scores)
      /\ c \in 1..Len(scores)
  BY CheapestScored
<1>2. Others(scores, c) # {} /\ scores[k].segs # <<>>
  BY DEF AvoidsRisk
<1>3. k \in 1..Len(scores) /\ scores[k].id # ChosenId
  <2>1. \A n \in 1..Len(scores) : scores[n].risk \in Nat
    BY DEF ScoresInv, ScoreInv, GoodScore
  <2>. HIDE DEF c
  <2>2. QED
    <3>1. k \in Others(scores, c)
      BY <1>1, <1>2, <2>1, WorstOtherExists
    <3>2. QED
      BY <1>1, <3>1 DEF Others, ChosenId, c
<1>. HIDE DEF k
<1>4. ScoreInv(scores[k], request.routes[k])
  BY <1>3 DEF ScoresInv
<1>5. /\ EvidencedOn(held, scores[k].segs[1], scores[k].cats[1])
      /\ Contains(request.routes[k].segs, scores[k].segs[1])
  BY <1>2, <1>4 DEF ScoreInv, GoodScore
<1>6. request.routes \in Seq(RouteType)
  BY InHandTypes DEF RequestInv
<1>7. DOMAIN request.routes = 1..Len(scores)
  BY <1>6, LenProperties DEF Scored
<1>8. Avoided = scores[k]
  BY DEF Avoided, k
<1>9. k \in DOMAIN request.routes \ Called(ChosenId)
  <2>1. request.routes[k].id # ChosenId
    BY <1>3, <1>4 DEF ScoreInv
  <2>2. QED
    BY <1>3, <1>7, <2>1 DEF Called
<1>10. QED
  BY <1>5, <1>8, <1>9

\* The rows of a segment are the log's.
LEMMA SelectSegmentReads ==
  ASSUME LogInv, RequestInv, ScoresInv, SelectSegmentRows
  PROVE  RowsInv'
<1>1. /\ rows' = OnSegment(log, NextSegment)
      /\ UNCHANGED <<log, held, request, readings, scores, atStart>>
      /\ Len(readings) < Len(Route.segs) /\ ~Scored /\ InRequest
  BY DEF SelectSegmentRows, SelectRows, stored, InRequest
<1>2. Tracks(log, held)
  BY <1>1 DEF LogInv
<1>3. ReadOf(log, rows', held, NextSegment)
  BY <1>1, <1>2, ReadBegins DEF LogInv
<1>4. OnSegment(Steady, NextSegment) \subseteq rows'
  BY <1>1, SteadyIsStored DEF OnSegment
<1>5. rows' \subseteq Event
  BY <1>1 DEF OnSegment, LogInv
<1>6. /\ Scored' = Scored /\ Route' = Route /\ NextSegment' = NextSegment
      /\ Steady' = Steady
  BY <1>1 DEF Scored, Route, NextSegment, Steady
<1>7. QED
  BY <1>1, <1>3, <1>4, <1>5, <1>6 DEF RowsInv

\* So are those of the segment to cite events of.
LEMMA SelectEvidenceReads ==
  ASSUME LogInv, RequestInv, ScoresInv, SelectEvidenceRows
  PROVE  RowsInv'
<1>. DEFINE s == Avoided.segs[1]
<1>1. /\ rows' = OnSegment(log, s)
      /\ UNCHANGED <<log, held, request, scores>>
      /\ Scored /\ InRequest /\ scores # <<>> /\ AvoidsRisk(scores, Chosen(scores))
  BY DEF SelectEvidenceRows, SelectRows, stored, InRequest
<1>2. Tracks(log, held)
  BY <1>1 DEF LogInv
<1>3. ReadOf(log, rows', held, s)
  BY <1>1, <1>2, ReadBegins DEF LogInv
<1>4. \E e \in OnSegment(held, s) : AggregateSeverity(e) > 0
  BY <1>1, AvoidedProperties DEF EvidencedOn
<1>5. Shows(rows', held, s)
  BY <1>1, <1>2, <1>4, ReadShows
<1>6. rows' \subseteq Event
  BY <1>1 DEF OnSegment, LogInv
<1>7. Scored' = Scored /\ Avoided' = Avoided
  BY <1>1 DEF Scored, Avoided
<1>8. QED
  BY <1>1, <1>3, <1>5, <1>6, <1>7 DEF RowsInv

\* A recorded event leaves the read under way a read.
LEMMA RecordKeepsRows ==
  ASSUME LogInv, RowsInv, NEW e \in Event, RecordEvent(e)
  PROVE  RowsInv'
<1>1. /\ UNCHANGED <<pc, request, rows, readings, scores, atStart>>
  BY DEF RecordEvent, planner
<1>2. /\ LogInv' /\ held \subseteq held' /\ log' = Recorded(log, e)
      /\ InRequest => held' = WithVersion(held, e)
  BY RecordStep
<1>3. /\ Scored' = Scored /\ Route' = Route /\ NextSegment' = NextSegment
      /\ Avoided' = Avoided
  BY <1>1 DEF Scored, Route, NextSegment, Avoided
<1>4. ASSUME NEW s, InRequest, ReadOf(log, rows, held, s)
      PROVE  ReadOf(log', rows, held', s)
  <2>1. Tracks(log, held) /\ OneEach(log) /\ OneEach(log')
    BY <1>2, <1>4 DEF LogInv
  <2>2. ReadOf(Recorded(log, e), rows, WithVersion(held, e), s)
    BY <1>2, <1>4, <2>1, RecordKeepsRead DEF LogInv
  <2>3. QED
    BY <1>2, <1>4, <2>2
<1>5. \A s : OnSegment(Steady, s) \subseteq rows => OnSegment(Steady', s) \subseteq rows
  BY <1>1, <1>2, SteadyShrinks DEF OnSegment
<1>6. \A s : Shows(rows, held, s) => Shows(rows, held', s)
  BY <1>2, ShowsStill
<1>7. pc = "reading" => InRequest
  BY DEF InRequest
<1>8. QED
  BY <1>1, <1>3, <1>4, <1>5, <1>6, <1>7 DEF RowsInv

\* Every step keeps the rows what they should be.
LEMMA RowsStep ==
  ASSUME LogInv, RequestInv, RowsInv, ScoresInv, [Next]_vars
  PROVE  RowsInv'
<1>1. CASE pc' # "reading" /\ rows' \in {rows, {}}
  BY <1>1 DEF RowsInv
<1>2. CASE UNCHANGED <<log, held, pc, request, rows, readings, scores, atStart>>
  <2>1. /\ Scored' = Scored /\ Route' = Route /\ NextSegment' = NextSegment
        /\ Avoided' = Avoided /\ Steady' = Steady
    BY <1>2 DEF Scored, Route, NextSegment, Avoided, Steady
  <2>2. QED
    BY <1>2, <2>1 DEF RowsInv
<1>3. CASE Tick \/ StartExplainer \/ CrashExplainer \/ OnScores \/ SayWithEvidence
           \/ UNCHANGED vars
  <2>1. UNCHANGED <<pc, request, rows, readings, scores, answer, atStart>>
    BY <1>3, OthersKeepPlanner
  <2>2. UNCHANGED <<log, held>>
    BY <1>3 DEF Tick, StartExplainer, CrashExplainer, OnScores, SayWithEvidence,
                vars, stored
  <2>3. QED
    BY <1>2, <2>1, <2>2
<1>4. ASSUME NEW e \in Event, RecordEvent(e) PROVE RowsInv'
  BY <1>4, RecordKeepsRows
<1>5. CASE StartPlanner
  BY <1>1, <1>5 DEF StartPlanner
<1>6. CASE CrashPlanner
  BY <1>1, <1>6 DEF CrashPlanner
<1>7. ASSUME NEW r \in Request, NEW w \in Weights, OnScore(r, w)
      PROVE  RowsInv'
  BY <1>1, <1>7 DEF OnScore
<1>8. CASE SelectSegmentRows
  BY <1>8, SelectSegmentReads
<1>9. CASE SelectEvidenceRows
  BY <1>9, SelectEvidenceReads
<1>10. CASE ReadSegment
  BY <1>1, <1>10 DEF ReadSegment
<1>11. CASE ScoreRoute
  BY <1>1, <1>11 DEF ScoreRoute
<1>12. CASE RespondToNoCandidates \/ RespondAvoiding \/ RespondOtherwise
  <2>1. pc' = "idle" /\ rows' = {}
    BY <1>12 DEF RespondToNoCandidates, RespondAvoiding, RespondOtherwise, Respond
  <2>2. QED
    BY <1>1, <2>1
<1>13. QED
  BY <1>3, <1>4, <1>5, <1>6, <1>7, <1>8, <1>9, <1>10, <1>11, <1>12
  DEF Next, PlannerStep

\* What was read stays between the events that are there all the time and all
\* that is seen.
LEMMA ReadingsKept ==
  ASSUME LogInv, LogInv', held \subseteq held', RequestInv, ReadingsInv,
         InRequest' <=> InRequest, UNCHANGED <<request, readings, scores, atStart>>
  PROVE  ReadingsInv'
<1>1. readings # <<>> => request \in InHand
  BY DEF RequestInv
<1>2. Steady' \subseteq Steady
  BY SteadyShrinks
<1>3. ASSUME NEW n \in 1..Len(readings), request \in InHand
      PROVE  ReadingInv(readings[n], Route.segs[n])'
  <2>. DEFINE s == Route.segs[n]
              r == readings[n]
              decay == request.weights.decay
              at == request.at
  <2>1. ReadingInv(r, s)
    BY <1>3 DEF ReadingsInv
  <2>2. s' = s /\ r' = r /\ decay' = decay /\ at' = at
    BY DEF Route
  <2>3. at \in Int
    BY <1>3, InHandTypes
  <2>4. /\ OnSegment(Steady', s) \subseteq OnSegment(Steady, s)
        /\ OnSegment(held, s) \subseteq OnSegment(held', s)
    BY <1>2 DEF OnSegment
  <2>. HIDE DEF s, r, decay, at
  <2>5. /\ RiskOf(Steady', s, at, decay) \in Nat /\ RiskOf(Steady, s, at, decay) \in Nat
        /\ RiskOf(Steady', s, at, decay) <= RiskOf(Steady, s, at, decay)
    BY <2>3, <2>4, SeenTypes, SeenTypesNext, RiskGrows
  <2>6. /\ RiskOf(held, s, at, decay) \in Nat /\ RiskOf(held', s, at, decay) \in Nat
        /\ RiskOf(held, s, at, decay) <= RiskOf(held', s, at, decay)
    BY <2>3, <2>4, SeenTypes, SeenTypesNext, RiskGrows
  <2>7. r.risk \in Nat
    <3>1. r \in ReadingType
      BY <1>3, ElementOfSeq DEF ReadingsInv, r
    <3>2. QED
      BY <3>1 DEF ReadingType
  <2>8. /\ r.seg = s /\ RiskOf(Steady, s, at, decay) <= r.risk
        /\ r.risk <= RiskOf(held, s, at, decay)
        /\ r.risk > 0 => EvidencedOn(held, s, r.cat)
    BY <2>1 DEF ReadingInv, at, decay
  <2>9. /\ RiskOf(Steady', s, at, decay) <= r.risk
        /\ r.risk <= RiskOf(held', s, at, decay)
    BY <2>5, <2>6, <2>7, <2>8
  <2>10. r.risk > 0 => EvidencedOn(held', s, r.cat)
    BY <2>8, EvidenceGrows
  <2>11. ReadingInv(r, s)'
    BY <2>2, <2>8, <2>9, <2>10 DEF ReadingInv, at, decay
  <2>12. QED
    BY <2>11 DEF s, r
<1>4. \A n \in 1..Len(readings) : ReadingInv(readings[n], Route.segs[n])'
  <2>1. CASE readings = <<>>
    BY <2>1
  <2>2. CASE readings # <<>>
    BY <1>1, <1>3, <2>2
  <2>3. QED
    BY <2>1, <2>2
<1>5. QED
  BY <1>4 DEF ReadingsInv, Route

\* What a read makes of a segment has the events that are there all the time,
\* and nothing that was not seen.
LEMMA ReadSegmentReadings ==
  ASSUME LogInv, RequestInv, RowsInv, ReadingsInv, ScoresInv, ReadSegment
  PROVE  ReadingsInv'
<1>. DEFINE s == NextSegment
            decay == request.weights.decay
            at == request.at
            found == Completed(rows)
<1>1. pc = "reading" /\ InRequest /\ ~Scored
  BY DEF ReadSegment, InRequest
<1>2. /\ request \in InHand /\ Len(scores) < Len(request.routes)
      /\ Route.segs \in Seq(Segment) /\ Len(Route.segs) \in Nat
  BY <1>1, NextRoute
<1>3. /\ readings \in Seq(ReadingType) /\ Len(readings) \in Nat
      /\ \A n \in 1..Len(readings) : readings[n] \in ReadingType
  BY LenProperties, ElementOfSeq DEF ReadingsInv
<1>4. /\ Len(readings) < Len(Route.segs)
      /\ ReadOf(log, rows, held, s) /\ OnSegment(Steady, s) \subseteq rows
  BY <1>1 DEF RowsInv
<1>5. s \in Segment
  <2>1. Len(readings) + 1 \in 1..Len(Route.segs)
    BY <1>2, <1>3, <1>4
  <2>2. QED
    BY <1>2, <2>1, ElementOfSeq DEF NextSegment
<1>6. UNCHANGED <<request, scores, atStart, log, held>> /\ pc' = "scoring"
  BY DEF ReadSegment, stored
<1>7. PICK c \in DominantCategories(found, s, at, decay) :
        readings' = Append(readings,
          [seg |-> s, risk |-> RiskOf(found, s, at, decay), cat |-> c])
  BY DEF ReadSegment
<1>. DEFINE r == [seg |-> s, risk |-> RiskOf(found, s, at, decay), cat |-> c]
<1>8. at \in Int
  BY <1>2, InHandTypes
<1>9. found = CompletedIn(log, rows)
  BY DEF Completed, Stored, CompletedIn
<1>10. log \in SUBSET Event /\ OneEach(log) /\ Tracks(log, held)
  BY <1>1 DEF LogInv
<1>11. /\ held \in SUBSET Version /\ IsFiniteSet(held)
       /\ Steady \in SUBSET Version /\ IsFiniteSet(Steady)
  BY SeenTypes
<1>. HIDE DEF found, s, decay, at
<1>12. /\ found \in SUBSET Version /\ IsFiniteSet(found)
       /\ found \subseteq OnSegment(held, s) /\ OnSegment(found, s) = found
  BY <1>4, <1>9, <1>10, <1>11, ReadEnds
<1>13. OnSegment(Steady, s) \subseteq OnSegment(found, s)
  <2>1. SUFFICES ASSUME NEW e \in OnSegment(Steady, s) PROVE e \in found
    BY <1>12
  <2>2. e \in rows /\ e \in log
    BY <1>1, <1>4, SteadyIsStored DEF OnSegment
  <2>3. (CHOOSE g \in log : g.id = e.id) = e
    BY <1>10, <2>2, FoundById
  <2>4. Torn(e, e) = e
    BY <1>10, <2>2, WholeRead
  <2>5. Torn(e, CHOOSE g \in log : g.id = e.id) \in found
    <3>1. Torn(e, CHOOSE g \in log : g.id = e.id) \in CompletedIn(log, rows)
      BY <2>2 DEF CompletedIn
    <3>2. QED
      BY <1>9, <3>1
  <2>6. QED
    BY <2>3, <2>4, <2>5
<1>14. OnSegment(found, s) \subseteq OnSegment(held, s)
  BY <1>12
<1>15. /\ RiskOf(found, s, at, decay) \in Nat
       /\ RiskOf(Steady, s, at, decay) <= RiskOf(found, s, at, decay)
       /\ RiskOf(found, s, at, decay) <= RiskOf(held, s, at, decay)
  BY <1>8, <1>11, <1>12, <1>13, <1>14, RiskGrows
<1>16. /\ c \in Labels
       /\ found # {} => \E e \in found : c \in Categories(e)
  BY <1>7, <1>12, DominantIsRecorded
<1>17. RiskOf(found, s, at, decay) > 0 => EvidencedOn(held, s, c)
  <2>1. SUFFICES ASSUME RiskOf(found, s, at, decay) > 0
                 PROVE  EvidencedOn(held, s, c)
    OBVIOUS
  <2>2. \E e \in found : AggregateSeverity(e) > 0
    BY <1>8, <1>12, <2>1, RiskHasCause
  <2>3. QED
    BY <1>12, <1>16, <2>2 DEF EvidencedOn
<1>18. r \in ReadingType
  BY <1>5, <1>15, <1>16 DEF ReadingType
<1>19. r.seg = s /\ r.risk = RiskOf(found, s, at, decay) /\ r.cat = c
  OBVIOUS
<1>. HIDE DEF r
<1>20. ReadingInv(r, s)
  BY <1>15, <1>17, <1>19 DEF ReadingInv, at, decay
<1>21. readings' = Append(readings, r)
  BY <1>7 DEF r
<1>22. /\ readings' \in Seq(ReadingType) /\ Len(readings') = Len(readings) + 1
       /\ \A n \in 1..Len(readings) : readings'[n] = readings[n]
       /\ readings'[Len(readings) + 1] = r
  BY <1>3, <1>18, <1>21, AppendProperties
<1>23. Route' = Route /\ Steady' = Steady
  BY <1>6 DEF Route, Steady
<1>24. ASSUME NEW n \in 1..Len(readings')
       PROVE  ReadingInv(readings[n], Route.segs[n])'
  <2>1. CASE n \in 1..Len(readings)
    <3>1. ReadingInv(readings[n], Route.segs[n])
      BY <2>1 DEF ReadingsInv
    <3>2. readings'[n] = readings[n]
      BY <1>22, <2>1
    <3>3. QED
      BY <1>6, <1>23, <3>1, <3>2 DEF ReadingInv
  <2>2. CASE n = Len(readings) + 1
    <3>1. readings'[n] = r /\ Route'.segs[n] = s
      BY <1>22, <1>23, <2>2 DEF s, NextSegment
    <3>2. QED
      BY <1>6, <1>20, <1>23, <3>1 DEF ReadingInv
  <2>3. QED
    BY <1>3, <1>22, <2>1, <2>2
<1>25. Len(readings') <= Len(Route'.segs)
  BY <1>2, <1>3, <1>4, <1>22, <1>23
<1>26. QED
  BY <1>2, <1>6, <1>22, <1>24, <1>25 DEF ReadingsInv, InRequest

\* Every step keeps the readings what they should be.
LEMMA ReadingsStep ==
  ASSUME LogInv, LogInv', Continues, RequestInv, RowsInv, ReadingsInv, ScoresInv,
         [Next]_vars
  PROVE  ReadingsInv'
<1>1. readings' = <<>> => ReadingsInv'
  <2>1. <<>> \in Seq(ReadingType) /\ 1..Len(<<>>) = {}
    BY EmptySeq
  <2>2. QED
    BY <2>1 DEF ReadingsInv
<1>2. CASE (InRequest' <=> InRequest) /\ UNCHANGED <<request, readings, scores, atStart>>
  BY <1>1, <1>2, ReadingsKept DEF Continues
<1>3. CASE \/ Tick \/ (\E e \in Event : RecordEvent(e)) \/ StartExplainer
           \/ CrashExplainer \/ OnScores \/ SayWithEvidence \/ UNCHANGED vars
  <2>1. UNCHANGED <<pc, request, rows, readings, scores, answer, atStart>>
    BY <1>3, OthersKeepPlanner
  <2>2. QED
    BY <1>2, <2>1 DEF InRequest
<1>4. CASE SelectSegmentRows \/ SelectEvidenceRows
  <2>1. UNCHANGED <<request, readings, scores, atStart>> /\ InRequest /\ InRequest'
    BY <1>4 DEF SelectSegmentRows, SelectEvidenceRows, SelectRows, InRequest
  <2>2. QED
    BY <1>2, <2>1
<1>5. CASE StartPlanner
  <2>1. readings' = <<>>
    BY <1>5 DEF StartPlanner, ReadingsInv, InRequest
  <2>2. QED
    BY <1>1, <2>1
<1>6. CASE CrashPlanner \/ ScoreRoute
  <2>1. readings' = <<>>
    BY <1>6 DEF CrashPlanner, ScoreRoute
  <2>2. QED
    BY <1>1, <2>1
<1>7. ASSUME NEW r \in Request, NEW w \in Weights, OnScore(r, w)
      PROVE  ReadingsInv'
  <2>1. readings' = <<>>
    BY <1>7 DEF OnScore
  <2>2. QED
    BY <1>1, <2>1
<1>8. CASE ReadSegment
  BY <1>8, ReadSegmentReadings
<1>9. CASE RespondToNoCandidates \/ RespondAvoiding \/ RespondOtherwise
  <2>1. Scored /\ readings' = readings
    BY <1>9 DEF RespondToNoCandidates, RespondAvoiding, RespondOtherwise, Respond
  <2>2. readings = <<>>
    <3>1. Len(scores) \in Nat
      BY SeqIsSeq DEF ScoresInv, IsSeq
    <3>2. ~(Len(scores) < Len(request.routes))
      BY <2>1, <3>1 DEF Scored
    <3>3. QED
      BY <3>2 DEF ReadingsInv
  <2>3. QED
    BY <1>1, <2>1, <2>2
<1>10. QED
  BY <1>3, <1>4, <1>5, <1>6, <1>7, <1>8, <1>9 DEF Next, PlannerStep

\* A score stays between what its route deserves for the events that are there
\* all the time and for all that is seen.
LEMMA ScoresKept ==
  ASSUME LogInv, LogInv', held \subseteq held', RequestInv, ScoresInv,
         InRequest' <=> InRequest, UNCHANGED <<request, scores, atStart>>
  PROVE  ScoresInv'
<1>1. Steady' \subseteq Steady
  BY SteadyShrinks
<1>2. ASSUME NEW n \in 1..Len(scores)
      PROVE  ScoreInv(scores[n], request.routes[n])'
  <2>. DEFINE score == scores[n]
              route == request.routes[n]
  <2>1. Len(scores) \in Nat
    BY SeqIsSeq DEF ScoresInv, IsSeq
  <2>2. scores # <<>>
    BY <1>2, <2>1
  <2>3. request \in InHand /\ Len(scores) <= Len(request.routes)
    BY <2>2 DEF RequestInv, ScoresInv
  <2>4. request.routes \in Seq(RouteType) /\ Len(request.routes) \in Nat
    BY <2>3, InHandTypes, LenProperties
  <2>5. n \in 1..Len(request.routes)
    BY <1>2, <2>1, <2>3, <2>4
  <2>6. route \in RouteType
    BY <2>3, <2>5, InHandTypes
  <2>7. ScoreInv(score, route)
    BY <1>2 DEF ScoresInv
  <2>8. score' = score /\ route' = route
    OBVIOUS
  <2>. HIDE DEF score, route
  <2>9. GoodScore(held', score)
    BY <2>7, GoodScoreGrows DEF ScoreInv
  <2>10. /\ FrozenTotal(held, route, request) \in Nat
         /\ FrozenTotal(held', route, request) \in Nat
         /\ FrozenTotal(held, route, request) <= FrozenTotal(held', route, request)
    BY <2>3, <2>6, SeenTypesNext, FrozenGrows
  <2>11. /\ FrozenTotal(Steady', route, request) \in Nat
         /\ FrozenTotal(Steady, route, request) \in Nat
         /\ FrozenTotal(Steady', route, request) <= FrozenTotal(Steady, route, request)
    BY <1>1, <2>3, <2>6, SeenTypes, FrozenGrows
  <2>12. /\ score.total \in Nat /\ score.total <= FrozenTotal(held, route, request)
         /\ FrozenTotal(Steady, route, request) <= score.total
    BY <2>7 DEF ScoreInv, GoodScore
  <2>13. /\ FrozenTotal(Steady', route, request) <= score.total
         /\ score.total <= FrozenTotal(held', route, request)
    BY <2>10, <2>11, <2>12
  <2>14. ScoreInv(score, route)'
    BY <2>7, <2>8, <2>9, <2>13 DEF ScoreInv
  <2>15. QED
    BY <2>14 DEF score, route
<1>3. QED
  BY <1>2 DEF ScoresInv

\* The planner scores a route by readings that lie between the two risks of
\* their segments.
LEMMA ScoreRouteScores ==
  ASSUME LogInv, RequestInv, ReadingsInv, ScoresInv, ScoreRoute
  PROVE  ScoresInv'
<1>. DEFINE len == Len(Route.segs)
            w == request.weights
            score == ScoreOf(Route, readings, w, request.objective)
            frozen(l) == [n \in DOMAIN Route.segs |->
                            [seg |-> Route.segs[n],
                             risk |-> RiskOf(l, Route.segs[n], request.at, w.decay),
                             cat |-> NoCategory]]
<1>1. /\ request \in InHand /\ Len(scores) < Len(request.routes)
      /\ Len(scores) \in Nat /\ Len(request.routes) \in Nat
      /\ Route \in RouteType /\ len \in Nat /\ DOMAIN Route.segs = 1..len
  BY NextRoute DEF ScoreRoute, InRequest
<1>2. w \in WeightsType /\ request.objective \in BOOLEAN /\ request.at \in Int
  BY <1>1, InHandTypes
<1>3. /\ UNCHANGED <<pc, held, request, atStart>> /\ Len(readings) = len
      /\ scores' = Append(scores, score) /\ Steady' = Steady
      /\ InRequest /\ InRequest'
  BY DEF ScoreRoute, stored, Steady, InRequest
<1>4. DOMAIN readings = 1..len /\ \A n \in 1..len : readings[n] \in ReadingType
  BY <1>3, LenProperties, ElementOfSeq DEF ReadingsInv
<1>5. \A n \in 1..len : ReadingInv(readings[n], Route.segs[n])
  BY <1>3 DEF ReadingsInv
<1>6. IsReadings(readings, len)
  BY <1>1, <1>4 DEF IsReadings, ReadingType
<1>7. /\ held \in SUBSET Version /\ IsFiniteSet(held)
      /\ Steady \in SUBSET Version /\ IsFiniteSet(Steady)
  BY SeenTypes
<1>8. IsReadings(frozen(Steady), len) /\ IsReadings(frozen(held), len)
  BY <1>1, <1>7, FrozenReadings
<1>9. \A n \in 1..len : /\ frozen(Steady)[n].risk <= readings[n].risk
                        /\ readings[n].risk <= frozen(held)[n].risk
  BY <1>1, <1>5 DEF ReadingInv
<1>10. /\ FrozenTotal(Steady, Route, request)
            = ScoreOf(Route, frozen(Steady), w, request.objective).total
       /\ FrozenTotal(held, Route, request)
            = ScoreOf(Route, frozen(held), w, request.objective).total
  BY DEF FrozenTotal
<1>. HIDE DEF frozen
<1>11. /\ FrozenTotal(Steady, Route, request) <= score.total
       /\ score.total <= FrozenTotal(held, Route, request)
  BY <1>1, <1>2, <1>6, <1>8, <1>9, <1>10, ScoreMonotone
<1>12. /\ score.id = Route.id
       /\ score.semantic = SemanticCost(Route, w, request.objective)
       /\ score.total = GeometryCost(Route, w) + score.semantic + score.risk
       /\ score.total \in Nat /\ score.risk \in Nat /\ score.semantic \in Nat
       /\ score.segs # <<>> =>
            \E k \in 1..len : /\ readings[k].risk > 0
                              /\ score.segs[1] = readings[k].seg
                              /\ score.cats[1] = readings[k].cat
  BY <1>1, <1>2, <1>6, ScoreProperties
<1>. HIDE DEF score, w
<1>13. score.segs # <<>> => /\ EvidencedOn(held, score.segs[1], score.cats[1])
                            /\ Contains(Route.segs, score.segs[1])
  <2>1. SUFFICES ASSUME score.segs # <<>>
                 PROVE  /\ EvidencedOn(held, score.segs[1], score.cats[1])
                        /\ Contains(Route.segs, score.segs[1])
    OBVIOUS
  <2>2. PICK k \in 1..len : /\ readings[k].risk > 0
                            /\ score.segs[1] = readings[k].seg
                            /\ score.cats[1] = readings[k].cat
    BY <1>12, <2>1
  <2>3. ReadingInv(readings[k], Route.segs[k])
    BY <1>5
  <2>4. readings[k].seg = Route.segs[k]
    BY <2>3 DEF ReadingInv
  <2>5. EvidencedOn(held, Route.segs[k], readings[k].cat)
    BY <2>2, <2>3 DEF ReadingInv
  <2>6. QED
    BY <2>2, <2>4, <2>5 DEF Contains
<1>14. ScoreInv(score, Route)
  BY <1>11, <1>12, <1>13 DEF ScoreInv, GoodScore, w
<1>15. IsSeq(scores)
  BY DEF ScoresInv
<1>16. /\ IsSeq(scores') /\ Len(scores') = Len(scores) + 1
       /\ \A n \in 1..Len(scores) : scores'[n] = scores[n]
       /\ scores'[Len(scores) + 1] = score
  BY <1>3, <1>15, AppendedLast
<1>17. ASSUME NEW n \in 1..Len(scores')
       PROVE  ScoreInv(scores[n], request.routes[n])'
  <2>1. CASE n \in 1..Len(scores)
    <3>1. ScoreInv(scores[n], request.routes[n])
      BY <2>1 DEF ScoresInv
    <3>2. scores'[n] = scores[n]
      BY <1>16, <2>1
    <3>3. QED
      BY <1>3, <3>1, <3>2 DEF ScoreInv
  <2>2. CASE n = Len(scores) + 1
    <3>1. scores'[n] = score /\ request.routes[n] = Route
      BY <1>16, <2>2 DEF Route
    <3>2. QED
      BY <1>3, <1>14, <3>1 DEF ScoreInv
  <2>3. QED
    BY <1>1, <1>16, <2>1, <2>2
<1>18. Len(scores') <= Len(request.routes)
  BY <1>1, <1>16
<1>19. QED
  BY <1>3, <1>16, <1>17, <1>18 DEF ScoresInv

\* Every step keeps the scores what they should be.
LEMMA ScoresStep ==
  ASSUME LogInv, LogInv', Continues, RequestInv, RequestInv', ReadingsInv, ScoresInv,
         [Next]_vars
  PROVE  ScoresInv'
<1>1. CASE scores' = <<>>
  <2>1. IsSeq(scores') /\ Len(scores') = 0
    <3>1. <<>> \in Seq({}) /\ Len(<<>>) = 0
      BY EmptySeq
    <3>2. QED
      BY <1>1, <3>1, SeqIsSeq
  <2>2. request' # None => Len(request'.routes) \in Nat
    <3>1. request' # None => request' \in InHand
      BY DEF RequestInv
    <3>2. QED
      BY <3>1, InHandTypes, LenProperties
  <2>3. 1..Len(scores') = {}
    BY <2>1
  <2>4. QED
    BY <1>1, <2>1, <2>2, <2>3 DEF ScoresInv
<1>2. CASE (InRequest' <=> InRequest) /\ UNCHANGED <<request, scores, atStart>>
  BY <1>1, <1>2, ScoresKept DEF Continues
<1>3. CASE \/ Tick \/ (\E e \in Event : RecordEvent(e)) \/ StartExplainer
           \/ CrashExplainer \/ OnScores \/ SayWithEvidence \/ UNCHANGED vars
  <2>1. UNCHANGED <<pc, request, rows, readings, scores, answer, atStart>>
    BY <1>3, OthersKeepPlanner
  <2>2. QED
    BY <1>2, <2>1 DEF InRequest
<1>4. CASE SelectSegmentRows \/ SelectEvidenceRows \/ ReadSegment
  <2>1. UNCHANGED <<request, scores, atStart>> /\ InRequest /\ InRequest'
    BY <1>4 DEF SelectSegmentRows, SelectEvidenceRows, SelectRows, ReadSegment, InRequest
  <2>2. QED
    BY <1>2, <2>1
<1>5. CASE StartPlanner
  BY <1>1, <1>5 DEF StartPlanner, ScoresInv, InRequest
<1>6. CASE CrashPlanner
  BY <1>1, <1>6 DEF CrashPlanner
<1>7. ASSUME NEW r \in Request, NEW w \in Weights, OnScore(r, w)
      PROVE  ScoresInv'
  BY <1>1, <1>7 DEF OnScore
<1>8. CASE ScoreRoute
  BY <1>8, ScoreRouteScores
<1>9. CASE RespondToNoCandidates \/ RespondAvoiding \/ RespondOtherwise
  <2>1. scores' = <<>>
    BY <1>9 DEF RespondToNoCandidates, RespondAvoiding, RespondOtherwise, Respond
  <2>2. QED
    BY <1>1, <2>1
<1>10. QED
  BY <1>3, <1>4, <1>5, <1>6, <1>7, <1>8, <1>9 DEF Next, PlannerStep

\* An answer stays what it is while its request and what was seen do.
LEMMA AnswerKept ==
  ASSUME AnswerInv, UNCHANGED <<request, answer, atStart, held>>
  PROVE  AnswerInv'
<1>1. ChoiceIsJustified'
  <2>1. Steady' = Steady /\ Called(answer.chosen)' = Called(answer.chosen)
    BY DEF Steady, Called
  <2>2. QED
    BY <2>1 DEF AnswerInv, ChoiceIsJustified, FrozenScore, Reading
<1>2. AvoidanceIsEvidenced'
  BY DEF AnswerInv, AvoidanceIsEvidenced, Called, Supports, Rerecorded
<1>3. LengthCosts => ShorterIsShorter'
  BY DEF AnswerInv, ShorterIsShorter, DistinctIds, Called
<1>4. QED
  BY <1>1, <1>2, <1>3 DEF AnswerInv, LengthCosts

\* Without an answer there is nothing to justify.
LEMMA NoAnswer ==
  ASSUME answer' = None
  PROVE  AnswerInv'
BY DEF AnswerInv, ChoiceIsJustified, AvoidanceIsEvidenced, ShorterIsShorter

\* Once everything is scored, every route has a score, and the cheapest one is
\* below what any other deserves for all that was seen.
LEMMA CheapestJustified ==
  ASSUME LogInv, RequestInv, ScoresInv, InRequest, Scored, scores # <<>>
  PROVE  /\ request \in InHand /\ DOMAIN request.routes = 1..Len(scores)
         /\ \A n \in 1..Len(scores) : /\ request.routes[n] \in RouteType
                                      /\ ScoreInv(scores[n], request.routes[n])
         /\ \A n \in DOMAIN request.routes :
              FrozenTotal(Steady, request.routes[Cheapest(scores)], request)
                <= FrozenTotal(held, request.routes[n], request)
<1>1. /\ request \in InHand
  BY DEF RequestInv
<1>2. /\ request.routes \in Seq(RouteType)
      /\ \A n \in 1..Len(request.routes) : request.routes[n] \in RouteType
  BY <1>1, InHandTypes
<1>3. DOMAIN request.routes = 1..Len(scores) /\ Len(request.routes) = Len(scores)
  BY <1>2, LenProperties DEF Scored
<1>4. \A n \in 1..Len(scores) : ScoreInv(scores[n], request.routes[n])
  BY DEF ScoresInv
<1>5. ASSUME NEW n \in 1..Len(scores)
      PROVE  FrozenTotal(Steady, request.routes[Cheapest(scores)], request)
               <= FrozenTotal(held, request.routes[n], request)
  <2>. DEFINE c == Cheapest(scores)
              low == FrozenTotal(Steady, request.routes[c], request)
              high == FrozenTotal(held, request.routes[n], request)
  <2>1. c \in 1..Len(scores) /\ scores[c].total <= scores[n].total
    BY <1>5, CheapestScored
  <2>2. /\ ScoreInv(scores[c], request.routes[c])
        /\ ScoreInv(scores[n], request.routes[n])
    BY <1>4, <1>5, <2>1
  <2>3. request.routes[c] \in RouteType /\ request.routes[n] \in RouteType
    BY <1>2, <1>3, <1>5, <2>1
  <2>4. low \in Nat /\ high \in Nat
    BY <1>1, <2>3, SeenTypes, FrozenGrows
  <2>5. /\ low <= scores[c].total /\ scores[n].total <= high
        /\ scores[c].total \in Nat /\ scores[n].total \in Nat
    BY <2>2 DEF ScoreInv, GoodScore
  <2>. HIDE DEF c, low, high
  <2>6. low <= high
    BY <2>1, <2>4, <2>5
  <2>7. QED
    BY <2>6 DEF c, low, high
<1>6. QED
  BY <1>1, <1>2, <1>3, <1>4, <1>5

\* A response with the id of the cheapest route is justified.
LEMMA ResponseJustified ==
  ASSUME LogInv, RequestInv, ScoresInv, InRequest, Scored, scores # <<>>,
         NEW template, NEW seg, NEW cat, NEW found,
         Respond(ChosenId, template, seg, cat, found)
  PROVE  /\ ChoiceIsJustified'
         /\ answer'.chosen = ChosenId /\ answer'.template = template
         /\ answer'.seg = seg /\ answer'.cat = cat /\ answer'.evidence = found
         /\ UNCHANGED <<request, held>>
<1>. DEFINE c == Cheapest(scores)
<1>1. /\ answer' = [chosen |-> ChosenId, template |-> template, seg |-> seg,
                    cat |-> cat, evidence |-> found]
      /\ UNCHANGED <<request, atStart, held>>
  BY DEF Respond, stored
<1>2. Steady' = Steady
  BY <1>1 DEF Steady
<1>3. \A n \in DOMAIN request.routes :
        FrozenTotal(Steady, request.routes[c], request)
          <= FrozenTotal(held, request.routes[n], request)
  BY CheapestJustified
<1>4. answer'.chosen = ChosenId
  BY <1>1
<1>5. c \in Called(ChosenId)
  <2>1. c \in 1..Len(scores) /\ scores[c].id = ChosenId
    BY CheapestScored DEF ChosenId
  <2>2. /\ DOMAIN request.routes = 1..Len(scores)
        /\ ScoreInv(scores[c], request.routes[c])
    BY <2>1, CheapestJustified
  <2>. HIDE DEF c
  <2>3. QED
    BY <2>1, <2>2 DEF ScoreInv, Called
<1>. HIDE DEF c
<1>6. ChoiceIsJustified'
  BY <1>1, <1>2, <1>3, <1>4, <1>5
     DEF ChoiceIsJustified, FrozenScore, Reading, FrozenTotal, Called
<1>7. QED
  BY <1>1, <1>4, <1>6

\* A factor that is positive may be cancelled.
LEMMA CancelFactor ==
  ASSUME NEW a \in Nat, NEW b \in Nat, NEW c \in Nat \ {0}, c * a <= c * b
  PROVE  a <= b
<1>1. SUFFICES ASSUME b + 1 <= a PROVE FALSE
  OBVIOUS
<1>2. PICK d \in Nat : a = b + 1 + d
  <2>1. a - b - 1 \in Nat /\ a = b + 1 + (a - b - 1)
    BY <1>1
  <2>2. QED
    BY <2>1
<1>3. c * a = c * b + c + c * d
  BY <1>2
<1>4. c * b \in Nat /\ c * d \in Nat
  OBVIOUS
<1>5. QED
  BY <1>3, <1>4

\* If no two routes have one id, the cheapest is the one that is chosen.
LEMMA ChosenIsCheapest ==
  ASSUME LogInv, RequestInv, ScoresInv, InRequest, Scored, scores # <<>>, DistinctIds
  PROVE  /\ Chosen(scores) = Cheapest(scores)
         /\ Called(ChosenId) = {Cheapest(scores)}
<1>. DEFINE c == Cheapest(scores)
            k == Chosen(scores)
<1>1. c \in 1..Len(scores) /\ k \in 1..Len(scores) /\ scores[k].id = scores[c].id
  BY CheapestScored
<1>2. /\ DOMAIN request.routes = 1..Len(scores)
      /\ ScoreInv(scores[c], request.routes[c])
      /\ ScoreInv(scores[k], request.routes[k])
  BY <1>1, CheapestJustified
<1>. HIDE DEF c, k
<1>3. request.routes[k].id = scores[k].id /\ request.routes[c].id = scores[k].id
  BY <1>1, <1>2 DEF ScoreInv
<1>4. k = c
  BY <1>1, <1>2, <1>3 DEF DistinctIds
<1>5. Called(scores[k].id) = {c}
  BY <1>1, <1>2, <1>3 DEF Called, DistinctIds
<1>6. QED
  BY <1>4, <1>5 DEF ChosenId, c, k

\* A route that is cheapest where no route has a risk, and no label tells the
\* routes apart in favour of another, is the shortest.
LEMMA CheapestIsShortest ==
  ASSUME LogInv, RequestInv, ScoresInv, InRequest, Scored, scores # <<>>, LengthCosts,
         NoRiskAnywhere(scores), DistinctIds,
         ~MatchesObjective(scores, Chosen(scores), request.objective),
         NEW n \in DOMAIN request.routes
  PROVE  request.routes[Cheapest(scores)].length <= request.routes[n].length
<1>. DEFINE c == Cheapest(scores)
            w == request.weights
            a == request.routes[c]
            b == request.routes[n]
            p == 2 ^ Horizon
<1>1. /\ c \in 1..Len(scores) /\ n \in 1..Len(scores) /\ DOMAIN scores = 1..Len(scores)
      /\ scores[c].total <= scores[n].total
  BY CheapestScored, CheapestJustified
<1>2. /\ request \in InHand /\ a \in RouteType /\ b \in RouteType
      /\ ScoreInv(scores[c], a) /\ ScoreInv(scores[n], b)
      /\ DOMAIN scores = 1..Len(scores)
  BY <1>1, CheapestJustified
<1>3. /\ NoRiskAnywhere(scores)
      /\ ~MatchesObjective(scores, c, request.objective)
  BY ChosenIsCheapest
<1>4. /\ w \in WeightsType /\ request.objective \in BOOLEAN /\ w.geometry > 0
  BY <1>2, InHandTypes DEF InHand, LengthCosts
<1>5. p \in Nat \ {0}
  BY ScoringAssumption, PowerOfTwo
<1>6. scores[c].risk = 0 /\ scores[n].risk = 0
  BY <1>1, <1>2, <1>3 DEF NoRiskAnywhere
<1>7. /\ scores[c].semantic = SemanticCost(a, w, request.objective)
      /\ scores[n].semantic = SemanticCost(b, w, request.objective)
      /\ scores[c].semantic \in Nat /\ scores[n].semantic \in Nat
      /\ scores[c].total = GeometryCost(a, w) + scores[c].semantic + scores[c].risk
      /\ scores[n].total = GeometryCost(b, w) + scores[n].semantic + scores[n].risk
  BY <1>2 DEF ScoreInv, GoodScore
<1>8. scores[n].semantic <= scores[c].semantic
  <2>1. CASE ~request.objective
    BY <1>7, <2>1 DEF SemanticCost, SemanticPenalty
  <2>2. CASE request.objective /\ scores[c].semantic = 0
    <3>1. CASE n = c
      BY <1>7, <3>1
    <3>2. CASE n # c
      <4>0. n \in Others(scores, c)
        <5>1. scores[n].id = b.id /\ scores[c].id = a.id
          BY <1>2 DEF ScoreInv
        <5>2. c \in DOMAIN request.routes
          BY <1>1, CheapestJustified
        <5>. HIDE DEF c
        <5>3. a.id # b.id
          BY <3>2, <5>2 DEF DistinctIds
        <5>4. QED
          BY <1>1, <5>1, <5>3 DEF Others
      <4>1. ~(scores[n].semantic > 0)
        BY <1>3, <2>2, <4>0 DEF MatchesObjective
      <4>2. QED
        BY <1>7, <4>1
    <3>3. QED
      BY <3>1, <3>2
  <2>3. CASE request.objective /\ scores[c].semantic # 0
    <3>1. w.semantic \in Nat
      BY <1>4 DEF WeightsType
    <3>2. SemanticPenalty(a, request.objective) \in {0, 1}
          /\ SemanticPenalty(b, request.objective) \in {0, 1}
      BY DEF SemanticPenalty
    <3>3. \A x, y \in Nat : x * 0 * y = 0 /\ x * 1 * y \in Nat
      OBVIOUS
    <3>. HIDE DEF p
    <3>4. /\ scores[c].semantic = w.semantic * SemanticPenalty(a, request.objective) * p
          /\ scores[n].semantic = w.semantic * SemanticPenalty(b, request.objective) * p
      BY <1>7 DEF SemanticCost, p
    <3>5. SemanticPenalty(a, request.objective) = 1
      BY <1>5, <2>3, <3>1, <3>2, <3>3, <3>4
    <3>6. scores[n].semantic = 0 \/ scores[n].semantic = scores[c].semantic
      BY <1>5, <3>1, <3>2, <3>3, <3>4, <3>5
    <3>7. QED
      BY <1>7, <3>6
  <2>4. QED
    BY <1>4, <2>1, <2>2, <2>3
<1>9. w.geometry \in Nat \ {0} /\ a.length \in Nat /\ b.length \in Nat
  BY <1>2, <1>4 DEF WeightsType, RouteType
<1>10. GeometryCost(a, w) \in Nat /\ GeometryCost(b, w) \in Nat
  <2>1. \A x, y, z \in Nat : x * y * z \in Nat
    OBVIOUS
  <2>2. QED
    BY <1>5, <1>9, <2>1 DEF GeometryCost
<1>11. GeometryCost(a, w) <= GeometryCost(b, w)
  BY <1>1, <1>6, <1>7, <1>8, <1>10
<1>. DEFINE q == w.geometry * p
<1>12. q \in Nat \ {0}
  <2>1. \A x, y \in Nat \ {0} : x * y \in Nat \ {0}
    OBVIOUS
  <2>2. QED
    BY <1>5, <1>9, <2>1
<1>13. GeometryCost(a, w) = q * a.length /\ GeometryCost(b, w) = q * b.length
  <2>1. \A x, y, z \in Nat : x * y * z = (x * z) * y
    OBVIOUS
  <2>2. QED
    BY <1>5, <1>9, <2>1 DEF GeometryCost
<1>. HIDE DEF q
<1>14. a.length <= b.length
  BY <1>9, <1>11, <1>12, <1>13, CancelFactor
<1>15. QED
  BY <1>14

\* The answer that nothing was avoided.
LEMMA RespondOtherwiseAnswers ==
  ASSUME LogInv, RequestInv, ScoresInv, RespondOtherwise
  PROVE  AnswerInv'
<1>. DEFINE c == Chosen(scores)
            t == Template(scores, c, request.objective)
<1>1. /\ Respond(ChosenId, t, None, NoCategory, {}) /\ InRequest
      /\ Scored /\ scores # <<>> /\ ~AvoidsRisk(scores, c)
  BY DEF RespondOtherwise, InRequest
<1>2. /\ t \in {"semantic_match", "shorter_clean", "fallback"}
      /\ t = "shorter_clean" =>
           NoRiskAnywhere(scores) /\ ~MatchesObjective(scores, c, request.objective)
  BY <1>1 DEF Template
<1>3. /\ ChoiceIsJustified' /\ answer'.chosen = ChosenId /\ answer'.template = t
      /\ answer'.evidence = {} /\ UNCHANGED <<request, held>>
  BY <1>1, ResponseJustified
<1>4. LengthCosts => ShorterIsShorter'
  <2>1. ASSUME LengthCosts, t = "shorter_clean", DistinctIds,
               NEW d \in Called(ChosenId), NEW n \in DOMAIN request.routes
        PROVE  request.routes[d].length <= request.routes[n].length
    <3>1. d = Cheapest(scores)
      BY <1>1, <2>1, ChosenIsCheapest
    <3>2. NoRiskAnywhere(scores) /\ ~MatchesObjective(scores, Chosen(scores), request.objective)
      BY <1>2, <2>1
    <3>3. request.routes[Cheapest(scores)].length <= request.routes[n].length
      BY <1>1, <2>1, <3>2, CheapestIsShortest
    <3>4. QED
      BY <3>1, <3>3
  <2>. HIDE DEF t
  <2>2. QED
    BY <1>3, <2>1 DEF ShorterIsShorter, DistinctIds, Called
<1>. HIDE DEF c, t
<1>5. /\ answer'.template \in Templates /\ answer'.template # "avoid_risky"
      /\ answer'.evidence \subseteq Version
  BY <1>2, <1>3 DEF Templates
<1>6. AvoidanceIsEvidenced'
  BY <1>5 DEF AvoidanceIsEvidenced
<1>7. QED
  BY <1>3, <1>4, <1>5, <1>6 DEF AnswerInv, LengthCosts

\* The answer that an alternative was avoided: what its evidence is read from
\* shows a severity, or was recorded again.
LEMMA RespondAvoidingAnswers ==
  ASSUME LogInv, RequestInv, RowsInv, ScoresInv, RespondAvoiding
  PROVE  AnswerInv'
<1>. DEFINE c == Chosen(scores)
            s == Avoided.segs[1]
<1>1. pc = "reading" /\ Scored /\ InRequest
  BY DEF RespondAvoiding, InRequest
<1>2. /\ scores # <<>> /\ AvoidsRisk(scores, c)
      /\ ReadOf(log, rows, held, s) /\ Shows(rows, held, s)
  BY <1>1 DEF RowsInv
<1>3. PICK found \in Evidence(Completed(rows), s) :
        Respond(ChosenId, "avoid_risky", s, Avoided.cats[1], found)
  BY DEF RespondAvoiding
<1>4. found \in Evidence(CompletedIn(log, rows), s)
  BY <1>3 DEF Completed, Stored, CompletedIn
<1>5. /\ ChoiceIsJustified' /\ answer'.chosen = ChosenId /\ answer'.template = "avoid_risky"
      /\ answer'.seg = s /\ answer'.cat = Avoided.cats[1] /\ answer'.evidence = found
      /\ UNCHANGED <<request, held>>
  BY <1>1, <1>2, <1>3, ResponseJustified
<1>6. /\ EvidencedOn(held, s, Avoided.cats[1])
      /\ \E n \in DOMAIN request.routes \ Called(ChosenId) : Contains(request.routes[n].segs, s)
  BY <1>1, <1>2, AvoidedProperties
<1>. HIDE DEF c, s
<1>7. Supports(found, held, s)
  <2>1. /\ log \in SUBSET Event /\ OneEach(log) /\ Tracks(log, held)
        /\ held \in SUBSET Version
    BY <1>1, SeenTypes DEF LogInv
  <2>2. QED
    BY <1>2, <1>4, <2>1, ReadCites
<1>8. found \subseteq Version
  BY <1>7, SeenTypes DEF Supports, OnSegment
<1>9. AvoidanceIsEvidenced'
  <2>1. \E e \in OnSegment(held, s) : Avoided.cats[1] \in Categories(e)
    BY <1>6 DEF EvidencedOn
  <2>2. Supports(answer'.evidence, held', answer'.seg)
    BY <1>5, <1>7
  <2>3. QED
    BY <1>5, <1>6, <2>1, <2>2 DEF AvoidanceIsEvidenced, Called
<1>10. /\ answer'.template \in Templates /\ answer'.template # "shorter_clean"
  BY <1>5 DEF Templates
<1>11. QED
  BY <1>5, <1>8, <1>9, <1>10 DEF AnswerInv, ShorterIsShorter

\* Every step keeps the answer what it promises.
LEMMA AnswerStep ==
  ASSUME LogInv, RequestInv, RowsInv, ScoresInv, AnswerInv, [Next]_vars
  PROVE  AnswerInv'
<1>1. CASE \/ Tick \/ StartExplainer \/ CrashExplainer \/ OnScores
           \/ SayWithEvidence \/ UNCHANGED vars
  <2>1. UNCHANGED <<pc, request, rows, readings, scores, answer, atStart>>
    BY <1>1, OthersKeepPlanner
  <2>2. held' = held
    BY <1>1 DEF Tick, StartExplainer, CrashExplainer, OnScores, SayWithEvidence,
                vars, stored
  <2>3. QED
    BY <2>1, <2>2, AnswerKept
<1>2. ASSUME NEW e \in Event, RecordEvent(e) PROVE AnswerInv'
  <2>1. UNCHANGED <<request, answer, atStart>> /\ (held' = held \/ InRequest)
    BY <1>2 DEF RecordEvent, planner
  <2>2. InRequest => answer = None
    BY DEF RequestInv
  <2>3. QED
    BY <2>1, <2>2, AnswerKept, NoAnswer
<1>3. CASE StartPlanner
  BY <1>3, AnswerKept DEF StartPlanner, stored
<1>4. CASE CrashPlanner
  BY <1>4, NoAnswer DEF CrashPlanner
<1>5. ASSUME NEW r \in Request, NEW w \in Weights, OnScore(r, w)
      PROVE  AnswerInv'
  BY <1>5, NoAnswer DEF OnScore
<1>6. CASE SelectSegmentRows \/ SelectEvidenceRows \/ ReadSegment \/ ScoreRoute
  <2>1. answer' = answer /\ InRequest
    BY <1>6 DEF SelectSegmentRows, SelectEvidenceRows, SelectRows, ReadSegment,
                ScoreRoute, InRequest
  <2>2. answer = None
    BY <2>1 DEF RequestInv
  <2>3. QED
    BY <2>1, <2>2, NoAnswer
<1>7. CASE RespondToNoCandidates
  <2>1. answer' = [chosen |-> None, template |-> "no_candidates", seg |-> None,
                   cat |-> NoCategory, evidence |-> {}]
    BY <1>7 DEF RespondToNoCandidates, Respond
  <2>2. answer'.chosen = None /\ answer'.template = "no_candidates"
        /\ answer'.evidence = {}
    BY <2>1
  <2>3. QED
    BY <2>2 DEF AnswerInv, ChoiceIsJustified, AvoidanceIsEvidenced,
                ShorterIsShorter, Templates
<1>8. CASE RespondAvoiding
  BY <1>8, RespondAvoidingAnswers
<1>9. CASE RespondOtherwise
  BY <1>9, RespondOtherwiseAnswers
<1>10. QED
  BY <1>1, <1>2, <1>3, <1>4, <1>5, <1>6, <1>7, <1>8, <1>9 DEF Next, PlannerStep

\* What the explainer has yet to take is a score array with its choice.
LEMMA TopicKept ==
  ASSUME TopicInv, ever \subseteq ever', topic' \in {topic, <<>>}
  PROVE  TopicInv'
<1>1. CASE topic' = topic
  BY <1>1, GoodArrayGrows DEF TopicInv
<1>2. CASE topic' = <<>>
  <2>1. IsSeq(topic') /\ Len(topic') = 0
    <3>1. <<>> \in Seq({}) /\ Len(<<>>) = 0
      BY EmptySeq
    <3>2. QED
      BY <1>2, <3>1, SeqIsSeq
  <2>2. 1..Len(topic') = {} /\ Depth \in Nat
    BY <2>1, RequestAssumption
  <2>3. QED
    BY <2>1, <2>2 DEF TopicInv
<1>3. QED
  BY <1>1, <1>2

\* The planner announces the score of the route it chooses.
LEMMA RespondPublishes ==
  ASSUME LogInv, ScoresInv, TopicInv,
         NEW id, NEW template, NEW seg, NEW cat, NEW found,
         Respond(id, template, seg, cat, found)
  PROVE  TopicInv'
<1>. DEFINE array == Announcement
            chosen == Chosen(scores)
<1>1. /\ ever' = ever
      /\ topic' = topic \/ topic' = KeepLast(topic, array, Depth)
  BY DEF Respond, stored
<1>2. GoodArray(ever, array)
  <2>1. CASE scores = <<>>
    BY <2>1 DEF GoodArray, Announcement
  <2>2. CASE scores # <<>>
    <3>1. chosen \in 1..Len(scores)
      BY <2>2, CheapestScored
    <3>2. GoodScore(held, scores[chosen])
      BY <3>1 DEF ScoresInv, ScoreInv
    <3>3. array.segs = scores[chosen].segs /\ array.cats = scores[chosen].cats
      BY <2>2 DEF Announcement
    <3>4. array.segs # <<>> => EvidencedOn(held, array.segs[1], array.cats[1])
      BY <3>2, <3>3 DEF GoodScore
    <3>5. held \subseteq ever
      BY DEF LogInv
    <3>. HIDE DEF array, chosen
    <3>6. QED
      BY <3>4, <3>5, EvidenceGrows DEF GoodArray
  <2>3. QED
    BY <2>1, <2>2
<1>. HIDE DEF array, chosen
<1>3. CASE topic' = topic
  BY <1>1, <1>3, TopicKept
<1>4. CASE topic' = KeepLast(topic, array, Depth)
  <2>. DEFINE S == {topic[n] : n \in DOMAIN topic}
              T == S \cup {array}
  <2>1. topic \in Seq(S)
    BY DEF TopicInv, IsSeq
  <2>2. Depth \in Nat \ {0} /\ Len(topic) <= Depth
    BY RequestAssumption DEF TopicInv
  <2>. HIDE DEF S
  <2>3. topic \in Seq(T) /\ array \in T
    BY <2>1, SeqMonotonic
  <2>. HIDE DEF T
  <2>4. topic' \in Seq(T) /\ Len(topic') <= Depth
    BY <1>4, <2>2, <2>3, KeepLastShifts
  <2>5. \A n \in 1..Len(topic') :
          topic'[n] = array \/ \E k \in 1..Len(topic) : topic'[n] = topic[k]
    BY <1>4, <2>2, <2>3, KeepLastProperties
  <2>6. \A n \in 1..Len(topic') : GoodArray(ever, topic'[n])
    BY <1>2, <2>5 DEF TopicInv
  <2>7. IsSeq(topic')
    BY <2>4, SeqIsSeq
  <2>8. QED
    BY <1>1, <2>4, <2>6, <2>7 DEF TopicInv
<1>5. QED
  BY <1>1, <1>3, <1>4

\* The array that the explainer takes.
LEMMA TakenArray ==
  ASSUME TopicInv, topic # <<>>
  PROVE  /\ GoodArray(ever, Head(topic))
         /\ ever' = ever /\ topic' = Tail(topic) => TopicInv'
<1>1. topic \in Seq({topic[n] : n \in DOMAIN topic})
  BY DEF TopicInv, IsSeq
<1>2. PICK S : S = {topic[n] : n \in DOMAIN topic}
  OBVIOUS
<1>3. topic \in Seq(S)
  BY <1>1, <1>2
<1>4. /\ Head(topic) = topic[1] /\ Tail(topic) \in Seq(S)
      /\ Len(topic) \in Nat \ {0} /\ Len(Tail(topic)) = Len(topic) - 1
      /\ \A n \in 1..Len(Tail(topic)) : Tail(topic)[n] = topic[n + 1]
  BY <1>3, DequeueShifts
<1>5. GoodArray(ever, Head(topic))
  <2>1. 1 \in 1..Len(topic)
    BY <1>4
  <2>2. QED
    BY <1>4, <2>1 DEF TopicInv
<1>6. ASSUME ever' = ever, topic' = Tail(topic) PROVE TopicInv'
  <2>1. \A n \in 1..Len(Tail(topic)) : n + 1 \in 1..Len(topic)
    BY <1>4
  <2>2. \A n \in 1..Len(topic') : GoodArray(ever', topic'[n])
    BY <1>4, <1>6, <2>1 DEF TopicInv
  <2>3. IsSeq(topic')
    BY <1>4, <1>6, SeqIsSeq
  <2>4. Len(topic) <= Depth /\ Depth \in Nat
    BY RequestAssumption DEF TopicInv
  <2>5. Len(topic') <= Depth
    BY <1>4, <1>6, <2>4
  <2>6. QED
    BY <2>2, <2>3, <2>5 DEF TopicInv
<1>7. QED
  BY <1>5, <1>6

\* Every step keeps the topic what it should be.
LEMMA TopicStep ==
  ASSUME LogInv, ever \subseteq ever', RowsInv, ScoresInv, TopicInv, [Next]_vars
  PROVE  TopicInv'
<1>1. CASE \/ Tick \/ (\E e \in Event : RecordEvent(e)) \/ StartPlanner
           \/ CrashPlanner \/ SelectSegmentRows \/ SelectEvidenceRows
           \/ ReadSegment \/ ScoreRoute \/ StartExplainer
           \/ CrashExplainer \/ SayWithEvidence \/ UNCHANGED vars
  <2>1. topic' \in {topic, <<>>}
    BY <1>1 DEF Tick, RecordEvent, StartPlanner, CrashPlanner, SelectSegmentRows,
                SelectEvidenceRows, SelectRows, ReadSegment, ScoreRoute,
                StartExplainer, CrashExplainer, SayWithEvidence, vars
  <2>2. QED
    BY <2>1, TopicKept
<1>2. ASSUME NEW r \in Request, NEW w \in Weights, OnScore(r, w)
      PROVE  TopicInv'
  BY <1>2, TopicKept DEF OnScore
<1>3. CASE RespondToNoCandidates
  BY <1>3, RespondPublishes DEF RespondToNoCandidates
<1>4. CASE RespondAvoiding
  <2>1. PICK found : Respond(ChosenId, "avoid_risky", Avoided.segs[1],
                             Avoided.cats[1], found)
    BY <1>4 DEF RespondAvoiding
  <2>2. QED
    BY <2>1, RespondPublishes
<1>5. CASE RespondOtherwise
  <2>1. Respond(ChosenId, Template(scores, Chosen(scores), request.objective),
                None, NoCategory, {})
    BY <1>5 DEF RespondOtherwise
  <2>2. QED
    BY <2>1, RespondPublishes
<1>6. CASE OnScores
  <2>1. topic # <<>> /\ topic' = Tail(topic) /\ ever' = ever
    BY <1>6 DEF OnScores, stored
  <2>2. QED
    BY <2>1, TakenArray
<1>7. QED
  BY <1>1, <1>2, <1>3, <1>4, <1>5, <1>6 DEF Next, PlannerStep

\* What was said stays true as more is seen.
LEMMA SaidKept ==
  ASSUME ever \subseteq ever', RemainingRiskIsEvidenced,
         UNCHANGED <<said, store>> \/ said' = None
  PROVE  RemainingRiskIsEvidenced'
<1>1. \A s : OnSegment(ever, s) \subseteq OnSegment(ever', s)
  BY DEF OnSegment
<1>2. \A x, s : Supports(x, ever, s) => Supports(x, ever', s)
  BY <1>1, ShowsStill DEF Supports
<1>3. CASE UNCHANGED <<said, store>>
  BY <1>1, <1>2, <1>3 DEF RemainingRiskIsEvidenced
<1>4. CASE said' = None
  BY <1>4 DEF RemainingRiskIsEvidenced
<1>5. QED
  BY <1>3, <1>4

\* A recorded event leaves the explainer's read a read.
LEMMA RecordKeepsExplainer ==
  ASSUME LogInv, ExplainerInv, NEW e \in Event, RecordEvent(e)
  PROVE  ExplainerInv'
<1>1. UNCHANGED <<up, store, naming, fetched, said>>
  BY DEF RecordEvent, explainer
<1>2. /\ LogInv' /\ ever \subseteq ever' /\ log' = Recorded(log, e)
      /\ ever' = WithVersion(ever, e)
  BY RecordStep
<1>3. ASSUME NEW s, ReadOf(log, fetched, ever, s)
      PROVE  ReadOf(log', fetched, ever', s)
  <2>1. Tracks(log, ever) /\ OneEach(log) /\ OneEach(log')
    BY <1>2 DEF LogInv
  <2>2. ReadOf(Recorded(log, e), fetched, WithVersion(ever, e), s)
    BY <1>2, <1>3, <2>1, RecordKeepsRead DEF LogInv
  <2>3. QED
    BY <1>2, <2>2
<1>4. \A s : Shows(fetched, ever, s) => Shows(fetched, ever', s)
  BY <1>2, ShowsStill
<1>5. \A s, c : EvidencedOn(ever, s, c) => EvidencedOn(ever', s, c)
  BY <1>2, EvidenceGrows
<1>6. RemainingRiskIsEvidenced'
  BY <1>1, <1>2, SaidKept DEF ExplainerInv
<1>7. QED
  BY <1>1, <1>3, <1>4, <1>5, <1>6 DEF ExplainerInv

\* Taking an array, the explainer names a risk that has a cause, and begins to
\* read, or has no store to read.
LEMMA OnScoresExplains ==
  ASSUME LogInv, TopicInv, ExplainerInv, OnScores
  PROVE  ExplainerInv'
<1>. DEFINE a == Head(topic)
            s == a.segs[1]
            c == a.cats[1]
<1>1. UNCHANGED <<log, held, ever, up, store>> /\ up /\ naming = None /\ topic # <<>>
  BY DEF OnScores, stored
<1>2. GoodArray(ever, a)
  BY <1>1, TakenArray
<1>3. CASE UNCHANGED <<naming, fetched, said>>
  BY <1>1, <1>3 DEF ExplainerInv, RemainingRiskIsEvidenced
<1>4. ASSUME a.scored, Explain(a) PROVE ExplainerInv'
  <2>1. RemainingRisk(a) => EvidencedOn(ever, s, c)
    BY <1>2, <1>4 DEF GoodArray, RemainingRisk
  <2>. HIDE DEF a, s, c
  <2>2. ASSUME RemainingRisk(a), store, naming' = [seg |-> s, cat |-> c],
               fetched' = OnSegment(log, s), said' = said
        PROVE  ExplainerInv'
    <3>1. naming'.seg = s /\ naming'.cat = c
      BY <2>2
    <3>2. ReadOf(log, OnSegment(log, s), ever, s)
      BY ReadBegins DEF LogInv
    <3>3. Shows(OnSegment(log, s), ever, s)
      BY <2>1, <2>2, ReadShows DEF LogInv, EvidencedOn
    <3>4. fetched' \subseteq Event
      BY <2>2 DEF OnSegment, LogInv
    <3>5. RemainingRiskIsEvidenced'
      BY <1>1, <2>2, SaidKept DEF ExplainerInv
    <3>6. QED
      BY <1>1, <2>1, <2>2, <3>1, <3>2, <3>3, <3>4, <3>5 DEF ExplainerInv
  <2>3. ASSUME RemainingRisk(a), ~store, Say(s, c, {})
        PROVE  ExplainerInv'
    <3>1. /\ said'.seg = s /\ said'.cat = c /\ said'.evidence = {}
          /\ naming' = None /\ fetched' = {}
      BY <2>3 DEF Say
    <3>2. RemainingRiskIsEvidenced'
      BY <1>1, <2>1, <2>3, <3>1 DEF RemainingRiskIsEvidenced, EvidencedOn
    <3>3. QED
      BY <1>1, <3>1, <3>2 DEF ExplainerInv
  <2>4. ASSUME Say(None, NoCategory, {}) PROVE ExplainerInv'
    <3>1. /\ said'.seg = None /\ said'.evidence = {}
          /\ naming' = None /\ fetched' = {}
      BY <2>4 DEF Say
    <3>2. RemainingRiskIsEvidenced'
      BY <3>1 DEF RemainingRiskIsEvidenced
    <3>3. QED
      BY <1>1, <3>1, <3>2 DEF ExplainerInv
  <2>5. \/ RemainingRisk(a) /\ store /\ naming' = [seg |-> s, cat |-> c]
             /\ fetched' = OnSegment(log, s) /\ said' = said
        \/ RemainingRisk(a) /\ ~store /\ Say(s, c, {})
        \/ Say(None, NoCategory, {})
    BY <1>4 DEF Explain, a, s, c
  <2>6. QED
    BY <2>2, <2>3, <2>4, <2>5
<1>5. QED
  BY <1>3, <1>4 DEF OnScores

\* What the explainer reads supports what it says.
LEMMA EvidenceSaid ==
  ASSUME LogInv, ExplainerInv, SayWithEvidence
  PROVE  ExplainerInv'
<1>1. PICK found \in Evidence(Completed(fetched), naming.seg) :
        Say(naming.seg, naming.cat, found)
  BY DEF SayWithEvidence
<1>2. UNCHANGED <<log, held, ever, up, store>> /\ up /\ naming # None
  BY DEF SayWithEvidence, stored
<1>3. /\ said'.seg = naming.seg /\ said'.cat = naming.cat /\ said'.evidence = found
      /\ naming' = None /\ fetched' = {}
  BY <1>1 DEF Say
<1>4. /\ store /\ EvidencedOn(ever, naming.seg, naming.cat)
      /\ ReadOf(log, fetched, ever, naming.seg) /\ Shows(fetched, ever, naming.seg)
  BY <1>2 DEF ExplainerInv
<1>5. found \in Evidence(CompletedIn(log, fetched), naming.seg)
  BY <1>1 DEF Completed, Stored, CompletedIn
<1>6. Supports(found, ever, naming.seg)
  <2>1. /\ log \in SUBSET Event /\ OneEach(log) /\ Tracks(log, ever)
        /\ ever \in SUBSET Version
    BY DEF LogInv
  <2>2. QED
    BY <1>4, <1>5, <2>1, ReadCites
<1>7. found \subseteq Version
  BY <1>6 DEF Supports, OnSegment, LogInv
<1>8. RemainingRiskIsEvidenced'
  <2>1. \E e \in OnSegment(ever, naming.seg) : naming.cat \in Categories(e)
    BY <1>4 DEF EvidencedOn
  <2>2. Supports(said'.evidence, ever', said'.seg)
    BY <1>2, <1>3, <1>6
  <2>3. QED
    BY <1>2, <1>3, <1>4, <2>1, <2>2 DEF RemainingRiskIsEvidenced
<1>9. QED
  BY <1>2, <1>3, <1>7, <1>8 DEF ExplainerInv

\* Every step keeps what the explainer says evidenced.
LEMMA ExplainerStep ==
  ASSUME LogInv, TopicInv, ExplainerInv, [Next]_vars
  PROVE  ExplainerInv'
<1>1. CASE StartExplainer
  <2>1. /\ UNCHANGED <<log, ever, naming, fetched, said>> /\ naming = None /\ said = None
    BY <1>1 DEF StartExplainer, stored, ExplainerInv
  <2>2. QED
    BY <2>1 DEF ExplainerInv, RemainingRiskIsEvidenced
<1>2. CASE CrashExplainer
  <2>1. naming' = None /\ said' = None /\ fetched' = {}
    BY <1>2 DEF CrashExplainer
  <2>2. QED
    BY <2>1 DEF ExplainerInv, RemainingRiskIsEvidenced
<1>3. CASE OnScores
  BY <1>3, OnScoresExplains
<1>4. CASE SayWithEvidence
  BY <1>4, EvidenceSaid
<1>5. ASSUME NEW e \in Event, RecordEvent(e) PROVE ExplainerInv'
  BY <1>5, RecordKeepsExplainer
<1>6. CASE UNCHANGED <<log, ever, up, store, naming, fetched, said>>
  BY <1>6 DEF ExplainerInv, RemainingRiskIsEvidenced
<1>7. CASE Tick \/ StartPlanner \/ CrashPlanner \/ UNCHANGED vars
  <2>1. UNCHANGED <<log, ever, up, store, naming, fetched, said>>
    BY <1>7 DEF Tick, StartPlanner, CrashPlanner, explainer, stored, vars
  <2>2. QED
    BY <1>6, <2>1
<1>8. ASSUME NEW r \in Request, NEW w \in Weights, OnScore(r, w)
      PROVE  ExplainerInv'
  <2>1. UNCHANGED <<log, ever, up, store, naming, fetched, said>>
    BY <1>8 DEF OnScore, explainer
  <2>2. QED
    BY <1>6, <2>1
<1>9. CASE SelectSegmentRows \/ SelectEvidenceRows \/ ReadSegment \/ ScoreRoute
  <2>1. UNCHANGED <<log, ever, up, store, naming, fetched, said>>
    BY <1>9 DEF SelectSegmentRows, SelectEvidenceRows, SelectRows, ReadSegment,
                ScoreRoute, explainer, stored
  <2>2. QED
    BY <1>6, <2>1
<1>10. CASE RespondToNoCandidates \/ RespondAvoiding \/ RespondOtherwise
  <2>1. UNCHANGED <<log, ever, up, store, naming, fetched, said>>
    BY <1>10 DEF RespondToNoCandidates, RespondAvoiding, RespondOtherwise, Respond,
                 explainer, stored
  <2>2. QED
    BY <1>6, <2>1
<1>11. QED
  BY <1>1, <1>2, <1>3, <1>4, <1>5, <1>7, <1>8, <1>9, <1>10 DEF Next, PlannerStep

-----------------------------------------------------------------------------
(* The invariant, and what follows.                                        *)

\* The invariant holds when nothing has happened.
LEMMA InitInv == Init => Inv
<1>. SUFFICES ASSUME Init PROVE Inv
  OBVIOUS
<1>. USE DEF Init
<1>1. LogInv
  <2>1. 0 \in 0..MaxTime
    BY RequestAssumption
  <2>2. IsFiniteSet({})
    BY FS_EmptySet
  <2>3. QED
    BY <2>1, <2>2 DEF LogInv, OneEach, Tracks, InRequest
<1>2. RequestInv /\ RowsInv
  BY DEF RequestInv, RowsInv, InRequest
<1>3. \A S : <<>> \in Seq(S) /\ Len(<<>>) = 0
  BY EmptySeq
<1>4. IsSeq(<<>>) /\ 1..Len(<<>>) = {}
  <2>1. <<>> \in Seq({}) /\ Len(<<>>) = 0
    BY <1>3
  <2>2. IsSeq(<<>>)
    BY <2>1, SeqIsSeq
  <2>3. 1..0 = {}
    OBVIOUS
  <2>4. QED
    BY <2>1, <2>2, <2>3
<1>5. ReadingsInv
  BY <1>3, <1>4 DEF ReadingsInv
<1>6. ScoresInv
  BY <1>4 DEF ScoresInv
<1>7. TopicInv
  BY <1>3, <1>4, RequestAssumption DEF TopicInv
<1>8. AnswerInv
  BY DEF AnswerInv, ChoiceIsJustified, AvoidanceIsEvidenced, ShorterIsShorter
<1>9. ExplainerInv
  BY DEF ExplainerInv, RemainingRiskIsEvidenced
<1>10. QED
  BY <1>1, <1>2, <1>5, <1>6, <1>7, <1>8, <1>9 DEF Inv

\* Every step keeps it.
LEMMA NextInv == Inv /\ [Next]_vars => Inv'
<1>. SUFFICES ASSUME Inv, [Next]_vars PROVE Inv'
  OBVIOUS
<1>1. /\ LogInv /\ RequestInv /\ RowsInv /\ ReadingsInv /\ ScoresInv /\ TopicInv
      /\ AnswerInv /\ ExplainerInv
  BY DEF Inv
<1>2. LogInv' /\ ever \subseteq ever' /\ Continues
  BY <1>1, LogStep
<1>3. RequestInv'
  BY <1>1, RequestStep
<1>4. RowsInv'
  BY <1>1, RowsStep
<1>5. ReadingsInv' /\ ScoresInv'
  BY <1>1, <1>2, <1>3, ReadingsStep, ScoresStep
<1>6. TopicInv'
  BY <1>1, <1>2, TopicStep
<1>7. AnswerInv'
  BY <1>1, AnswerStep
<1>8. ExplainerInv'
  BY <1>1, ExplainerStep
<1>9. QED
  BY <1>2, <1>3, <1>4, <1>5, <1>6, <1>7, <1>8 DEF Inv

\* Every behaviour keeps the inductive invariant.
THEOREM Invariance == Spec => []Inv
BY InitInv, NextInv, PTL DEF Spec

\* Types: requests, readings and scores in hand, answers and explanations are
\* what their consumers expect, and the topic stays within its depth.
THEOREM TypeCorrect == Spec => []TypeOK
<1>1. Inv => TypeOK
  <2>. SUFFICES ASSUME Inv PROVE TypeOK
    OBVIOUS
  <2>. USE DEF Inv
  <2>1. /\ now \in 0..MaxTime /\ log \subseteq Event
        /\ pc \in {"down", "idle", "scoring", "reading"}
        /\ up \in BOOLEAN /\ store \in BOOLEAN
        /\ atStart \subseteq Event /\ held \subseteq Version /\ ever \subseteq Version
        /\ Len(topic) <= Depth
    BY DEF LogInv, RequestInv, TopicInv
  <2>2. /\ request # None => [routes |-> request.routes,
                              objective |-> request.objective] \in Request
        /\ pc \in {"scoring", "reading"} =>
             request # None /\ Len(scores) <= Len(request.routes)
    BY DEF RequestInv, ScoresInv, InRequest
  <2>3. \A n \in DOMAIN readings :
          readings[n].risk \in Nat /\ readings[n].cat \in Category \cup {NoCategory}
    <3>1. DOMAIN readings = 1..Len(readings)
          /\ \A n \in 1..Len(readings) : readings[n] \in ReadingType
      BY LenProperties, ElementOfSeq DEF ReadingsInv
    <3>2. QED
      BY <3>1 DEF ReadingType, Labels
  <2>4. \A n \in DOMAIN scores : scores[n].total \in Nat /\ scores[n].risk \in Nat
    <3>1. DOMAIN scores = 1..Len(scores)
      BY SeqIsSeq DEF ScoresInv, IsSeq
    <3>2. QED
      BY <3>1 DEF ScoresInv, ScoreInv, GoodScore
  <2>5. /\ answer # None => answer.template \in Templates
                            /\ answer.evidence \subseteq Version
        /\ said # None => said.evidence \subseteq Version
        /\ rows \subseteq Event /\ fetched \subseteq Event
    BY DEF AnswerInv, ExplainerInv, RowsInv
  <2>6. QED
    BY <2>1, <2>2, <2>3, <2>4, <2>5 DEF TypeOK
<1>2. QED
  BY <1>1, Invariance, PTL

\* A score is no less than what its route deserves for the events that were
\* stored, unchanged, all through the request, and no more than what it deserves
\* for all that a read may have met: events that came, went, changed, or were
\* read while they changed.
THEOREM ScoresBracketed == Spec => []ScoresAreBracketed
<1>1. Inv => ScoresAreBracketed
  <2>1. SUFFICES ASSUME Inv, NEW n \in DOMAIN scores
                 PROVE  /\ FrozenScore(Steady, request.routes[n]).total <= scores[n].total
                        /\ scores[n].total <= FrozenScore(held, request.routes[n]).total
    BY DEF ScoresAreBracketed
  <2>2. n \in 1..Len(scores)
    BY <2>1, SeqIsSeq DEF Inv, ScoresInv, IsSeq
  <2>3. ScoreInv(scores[n], request.routes[n])
    BY <2>1, <2>2 DEF Inv, ScoresInv
  <2>4. \A l, r : FrozenScore(l, r).total = FrozenTotal(l, r, request)
    BY DEF FrozenScore, Reading, FrozenTotal
  <2>5. QED
    BY <2>3, <2>4 DEF ScoreInv
<1>2. QED
  BY <1>1, Invariance, PTL

\* What the chosen route costs for the events that were there all through the
\* request is no more than what any other costs for all that a read may have met.
THEOREM ChoiceJustified == Spec => []ChoiceIsJustified
<1>1. Inv => ChoiceIsJustified
  BY DEF Inv, AnswerInv
<1>2. QED
  BY <1>1, Invariance, PTL

\* An avoided segment is on an alternative; the category was recorded there; and
\* the answer cites events of it, one of them with a severity, unless an id of
\* the segment was recorded again since the request came.
THEOREM AvoidanceEvidenced == Spec => []AvoidanceIsEvidenced
<1>1. Inv => AvoidanceIsEvidenced
  BY DEF Inv, AnswerInv
<1>2. QED
  BY <1>1, Invariance, PTL

\* A remaining risk that the explainer names was recorded, and is cited if the
\* explainer has a store and no id of the segment was ever recorded again.
THEOREM RemainingRiskEvidenced == Spec => []RemainingRiskIsEvidenced
<1>1. Inv => RemainingRiskIsEvidenced
  BY DEF Inv, ExplainerInv
<1>2. QED
  BY <1>1, Invariance, PTL

\* "The shorter option" is the shorter option, if length costs anything.
THEOREM ShorterShorter ==
  ASSUME LengthCosts
  PROVE  Spec => []ShorterIsShorter
<1>1. Inv => ShorterIsShorter
  BY DEF Inv, AnswerInv
<1>2. QED
  BY <1>1, Invariance, PTL
=============================================================================
