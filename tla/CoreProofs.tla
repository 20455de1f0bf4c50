----------------------------- MODULE CoreProofs -----------------------------
(***************************************************************************)
(* Proofs about the operators of Segments and SegmentSeed, on the points   *)
(* and files that MCCore drives them with.                                 *)
(***************************************************************************)
EXTENDS MCCore, DataLemmas

-----------------------------------------------------------------------------
(* The search.                                                             *)

\* The ends of the segments that are registered are places, or not finite.
SegsInv ==
  /\ point \in End
  /\ segs \in Seq([id : Nat, start : End, end : End])

\* Every behaviour keeps that.
LEMMA SegsInvariance == Spec => []SegsInv
<1>1. Init => SegsInv
  BY EmptySeq DEF Init, SegsInv
<1>2. SegsInv /\ [Next]_vars => SegsInv'
  <2>1. SUFFICES ASSUME SegsInv, [Next]_vars PROVE SegsInv'
    OBVIOUS
  <2>2. ASSUME NEW a \in End, NEW b \in End, RegisterSegment(a, b)
        PROVE  SegsInv'
    <3>. DEFINE T == [id : Nat, start : End, end : End]
                s == [id |-> Len(segs), start |-> a, end |-> b]
    <3>1. segs \in Seq(T) /\ point \in End
      BY <2>1 DEF SegsInv
    <3>2. Len(segs) \in Nat
      BY <3>1, LenProperties
    <3>3. s \in T
      BY <2>2, <3>2
    <3>4. segs' = Append(segs, s) /\ point' = point
      BY <2>2 DEF RegisterSegment
    <3>. HIDE DEF s, T
    <3>5. segs' \in Seq(T)
      BY <3>1, <3>3, <3>4, AppendProperties
    <3>6. QED
      BY <3>1, <3>4, <3>5 DEF SegsInv, T
  <2>3. CASE UNCHANGED vars
    BY <2>1, <2>3 DEF vars, SegsInv
  <2>4. ASSUME NEW frame \in Frame, WriteFile(frame)
        PROVE  SegsInv'
    BY <2>1, <2>4 DEF WriteFile, SegsInv
  <2>5. ASSUME NEW s \in FileSegment, WriteEntry(s)
        PROVE  SegsInv'
    BY <2>1, <2>5 DEF WriteEntry, SegsInv
  <2>6. QED
    BY <2>1, <2>2, <2>3, <2>4, <2>5 DEF Next
<1>3. QED
  BY <1>1, <1>2, PTL DEF Spec

\* Points of the instance are points of the plane.
LEMMA PointsArePlane == Point \subseteq Plane
BY CoreAssumption DEF Point, Plane

\* segment_for_point returns the nearest segment that has a place, and of several
\* the first that was registered, wherever the point is and however many
\* segments there are, with or without a place.
THEOREM SearchIsExact == Spec => []FindsTheNearest
<1>1. ASSUME SegsInv PROVE FindsTheNearest
  <2>. DEFINE S == Comparable(segs, point)
              d == [n \in S |-> DistanceSq(point, segs[n])]
  <2>1. CASE S = {}
    BY <2>1 DEF FindsTheNearest, SegmentForPoint
  <2>2. CASE S # {}
    <3>1. point \in Plane
      BY <1>1, <2>2, PointsArePlane DEF Comparable, SegsInv, End
    <3>2. /\ Len(segs) \in Nat /\ DOMAIN segs = 1..Len(segs)
          /\ \A n \in DOMAIN segs : segs[n] \in [id : Nat, start : End, end : End]
      BY <1>1, LenProperties, ElementOfSeq DEF SegsInv
    <3>3. S \subseteq 1..Len(segs)
      BY <3>2 DEF Comparable, Placed
    <3>4. S \in SUBSET Nat /\ IsFiniteSet(S)
      <4>1. IsFiniteSet(1..Len(segs)) /\ 1..Len(segs) \subseteq Nat
        BY <3>2, FS_Interval
      <4>. HIDE DEF S
      <4>2. QED
        BY <3>3, <4>1, FS_Subset
    <3>5. \A n \in S : segs[n].start \in Point /\ segs[n].end \in Point
      <4>1. \A n \in S : segs[n].start # NotFinite /\ segs[n].end # NotFinite
        BY DEF Comparable, Placed
      <4>2. QED
        BY <3>2, <3>3, <4>1 DEF End
    <3>6. \A n \in S : /\ segs[n].start \in Plane /\ segs[n].end \in Plane
                       /\ GridFits(segs[n], Grid)
      <4>1. ASSUME NEW n \in S PROVE GridFits(segs[n], Grid)
        <5>1. GridFits([start |-> segs[n].start, end |-> segs[n].end], Grid)
          BY <3>5, GridAssumption
        <5>2. QED
          BY <5>1 DEF GridFits
      <4>2. QED
        BY <3>5, <4>1, PointsArePlane
    <3>7. Grid \in Nat \ {0}
      BY CoreAssumption
    <3>8. \A n \in S : d[n] = DistanceSq(point, segs[n])
      OBVIOUS
    <3>9. SegmentForPoint(segs, point) =
            LET near == {n \in S : \A m \in S :
                   /\ ~Closer(DistanceSq(point, segs[m]), DistanceSq(point, segs[n]))
                   /\ m < n => Closer(DistanceSq(point, segs[n]), DistanceSq(point, segs[m]))}
            IN  IF near = {} THEN NoSegment ELSE segs[CHOOSE n \in near : TRUE]
      BY DEF SegmentForPoint
    <3>10. FindsTheNearest <=>
             \E n \in S :
               /\ SegmentForPoint(segs, point) = segs[n]
               /\ IsNearest(segs, point, segs[n], Grid)
               /\ \A m \in S : m < n => ~IsNearest(segs, point, segs[m], Grid)
      BY <2>2 DEF FindsTheNearest
    <3>. DEFINE Nearest(s) ==
                  \E k \in 0..Grid : \A n \in S : \A j \in 0..Grid :
                    GridSq(point, s, k, Grid) <= GridSq(point, segs[n], j, Grid)
    <3>11. \A n : IsNearest(segs, point, segs[n], Grid) <=> Nearest(segs[n])
      BY DEF IsNearest
    <3>. HIDE DEF S, d
    <3>12. \A n \in S : d[n].num \in Int /\ d[n].den \in Nat \ {0}
      BY <3>1, <3>6, <3>7, <3>8, DistanceOnGrid
    <3>13. {n \in S : \A m \in S :
              /\ ~Closer(DistanceSq(point, segs[m]), DistanceSq(point, segs[n]))
              /\ m < n => Closer(DistanceSq(point, segs[n]), DistanceSq(point, segs[m]))}
             = FirstNearest(S, d)
      BY <3>8 DEF FirstNearest
    <3>14. PICK n \in S : FirstNearest(S, d) = {n}
      BY <2>2, <3>4, <3>12, FirstNearestExists
    <3>15. SegmentForPoint(segs, point) = segs[n]
      BY <3>9, <3>13, <3>14
    <3>16. \A m \in S :
             /\ ~Closer(DistanceSq(point, segs[m]), DistanceSq(point, segs[n]))
             /\ m < n => Closer(DistanceSq(point, segs[n]), DistanceSq(point, segs[m]))
      BY <3>13, <3>14
    <3>17. PICK k \in 0..Grid : \A u :
             u.start \in Plane /\ u.end \in Plane =>
               /\ ~Closer(DistanceSq(point, u), DistanceSq(point, segs[n])) =>
                    \A j \in 0..Grid :
                      GridSq(point, segs[n], k, Grid) <= GridSq(point, u, j, Grid)
               /\ Closer(DistanceSq(point, segs[n]), DistanceSq(point, u)) =>
                    \A j \in 0..Grid :
                      GridSq(point, segs[n], k, Grid) < GridSq(point, u, j, Grid)
      BY <3>1, <3>6, <3>7, NearestOnGrid
    <3>18. Nearest(segs[n])
      BY <3>6, <3>16, <3>17
    <3>19. ASSUME NEW m \in S, m < n, Nearest(segs[m]) PROVE FALSE
      <4>1. PICK j \in 0..Grid :
              GridSq(point, segs[m], j, Grid) <= GridSq(point, segs[n], k, Grid)
        BY <3>19
      <4>2. GridSq(point, segs[n], k, Grid) < GridSq(point, segs[m], j, Grid)
        BY <3>6, <3>16, <3>17, <3>19
      <4>3. /\ GridSq(point, segs[n], k, Grid) \in Int
            /\ GridSq(point, segs[m], j, Grid) \in Int
        BY <3>1, <3>6, <3>7, DistanceOnGrid
      <4>4. QED
        BY <4>1, <4>2, <4>3
    <3>20. QED
      BY <3>10, <3>11, <3>15, <3>18, <3>19
  <2>3. QED
    BY <2>1, <2>2
<1>2. QED
  BY <1>1, SegsInvariance, PTL

-----------------------------------------------------------------------------
(* The merging of seeds.  Each file's list is stripped of what a later     *)
(* entry of the file replaces; putting a stripped list into any list gives *)
(* what putting the whole list gives (PutLastWins).                        *)

-----------------------------------------------------------------------------
(* The merging of seeds.                                                   *)

\* The lists of F without what is replaced anyway.
Stripped(F) == [n \in 1..Len(F) |-> LastWins(F[n])]

\* Stripping goes list by list.
LEMMA StrippedAppend ==
  ASSUME NEW C, NEW F \in Seq(Seq(C)), NEW t \in Seq(C)
  PROVE  /\ Stripped(F) \in Seq(Seq(C)) /\ Len(Stripped(F)) = Len(F)
         /\ Stripped(Append(F, t)) = Append(Stripped(F), LastWins(t))
<1>. DEFINE S == Seq(C)
<1>1. \A u \in S : LastWins(u) \in S
  BY LastWinsRecursion
<1>. HIDE DEF S
<1>2. ASSUME NEW H \in Seq(S)
      PROVE  /\ Stripped(H) \in Seq(S) /\ Len(Stripped(H)) = Len(H)
             /\ Len(H) \in Nat
             /\ \A n \in 1..Len(H) : Stripped(H)[n] = LastWins(H[n])
  <2>1. Len(H) \in Nat /\ \A n \in 1..Len(H) : H[n] \in S
    BY LenProperties, ElementOfSeq
  <2>2. \A n \in 1..Len(H) : LastWins(H[n]) \in S
    BY <1>1, <2>1
  <2>3. Stripped(H) \in Seq(S)
    BY <2>1, <2>2, IsASeq DEF Stripped
  <2>4. Len(Stripped(H)) = Len(H)
    <3>1. Stripped(H) \in [1..Len(H) -> S]
      BY <2>2 DEF Stripped
    <3>2. QED
      BY <2>1, <3>1
  <2>5. QED
    BY <2>1, <2>3, <2>4 DEF Stripped
<1>3. F \in Seq(S) /\ t \in S
  BY DEF S
<1>. DEFINE N == Len(F)
            H == Append(F, t)
            R == Append(Stripped(F), LastWins(t))
<1>4. /\ H \in Seq(S) /\ Len(H) = N + 1 /\ N \in Nat
      /\ H[N + 1] = t /\ \A n \in 1..N : H[n] = F[n]
  BY <1>3, AppendProperties, LenProperties
<1>5. /\ Stripped(F) \in Seq(S) /\ Len(Stripped(F)) = N
      /\ \A n \in 1..N : Stripped(F)[n] = LastWins(F[n])
  BY <1>2, <1>3
<1>6. /\ R \in Seq(S) /\ Len(R) = N + 1
      /\ R[N + 1] = LastWins(t) /\ \A n \in 1..N : R[n] = LastWins(F[n])
  <2>1. LastWins(t) \in S
    BY <1>1, <1>3
  <2>2. QED
    BY <1>5, <2>1, AppendProperties
<1>. HIDE DEF H, R, N
<1>7. /\ Stripped(H) \in Seq(S) /\ Len(Stripped(H)) = N + 1
      /\ \A n \in 1..(N + 1) : Stripped(H)[n] = LastWins(H[n])
  BY <1>2, <1>4
<1>8. \A n \in 1..(N + 1) : Stripped(H)[n] = R[n]
  <2>1. \A n \in 1..(N + 1) : n \in 1..N \/ n = N + 1
    BY <1>4
  <2>2. QED
    BY <1>4, <1>6, <1>7, <2>1
<1>9. Stripped(H) = R
  BY <1>6, <1>7, <1>8, SeqEqual
<1>10. QED
  BY <1>5, <1>9 DEF S, H, R, N

\* Of all lists together the same is left whether or not each was stripped.
LEMMA MergedSegments ==
  ASSUME NEW C, NEW F \in Seq(Seq(C))
  PROVE  LastWins(FlattenSeq(Stripped(F))) = LastWins(FlattenSeq(F))
<1>. DEFINE Good(H) == LastWins(FlattenSeq(Stripped(H))) = LastWins(FlattenSeq(H))
            G == {H \in Seq(Seq(C)) : Good(H)}
<1>1. <<>> \in G
  <2>1. <<>> \in Seq(Seq(C)) /\ Len(<<>>) = 0
    BY EmptySeq
  <2>2. ASSUME NEW H \in Seq(Seq(C)), Len(H) = 0 PROVE Stripped(H) = H
    <3>1. Stripped(H) \in Seq(Seq(C)) /\ Len(Stripped(H)) = 0
      <4>1. <<>> \in Seq(C)
        BY EmptySeq
      <4>2. QED
        BY <2>2, <4>1, StrippedAppend
    <3>2. \A T \in Seq(Seq(C)) : Len(T) = 0 => T = <<>>
      BY EmptySeq
    <3>3. QED
      BY <2>2, <3>1, <3>2
  <2>3. QED
    BY <2>1, <2>2
<1>2. ASSUME NEW H \in Seq(Seq(C)), NEW t \in Seq(C), H \in G
      PROVE  Append(H, t) \in G
  <2>. DEFINE a == FlattenSeq(Stripped(H))
              b == FlattenSeq(H)
              l == LastWins(t)
  <2>1. Stripped(H) \in Seq(Seq(C)) /\ Stripped(Append(H, t)) = Append(Stripped(H), l)
    BY StrippedAppend
  <2>2. l \in Seq(C)
    BY LastWinsRecursion
  <2>3. a \in Seq(C) /\ b \in Seq(C)
    BY <2>1, FlattenRecursion
  <2>4. FlattenSeq(Append(Stripped(H), l)) = a \o l
    <3>. HIDE DEF l
    <3>1. QED
      BY <2>1, <2>2, FlattenRecursion
  <2>5. FlattenSeq(Append(H, t)) = b \o t
    BY FlattenRecursion
  <2>6. \A u \in Seq(C) : LastWins(u) = PutAll(<<>>, u)
    BY LastWinsRecursion
  <2>7. LastWins(a) = LastWins(b)
    BY <1>2
  <2>8. a \o l \in Seq(C) /\ b \o t \in Seq(C)
    <3>. HIDE DEF a, b, l
    <3>1. QED
      BY <2>2, <2>3, ConcatProperties
  <2>9. Append(H, t) \in Seq(Seq(C))
    BY AppendProperties
  <2>. HIDE DEF a, b
  <2>10. ASSUME NEW u \in Seq(C), u = <<>>
         PROVE  PutAll(u, a \o l) = PutAll(u, b \o t)
    <3>1. PutAll(u, a) = PutAll(u, b)
      BY <2>3, <2>6, <2>7, <2>10
    <3>2. PutAll(u, b) \in Seq(C)
      BY <2>3, PutAllRecursion
    <3>3. PutAll(u, b \o t) = PutAll(PutAll(u, b), t)
      BY <2>3, PutConcatenated
    <3>4. PutAll(u, a \o l) = PutAll(PutAll(u, a), l)
      <4>. HIDE DEF l
      <4>1. QED
        BY <2>2, <2>3, PutConcatenated
    <3>5. PutAll(PutAll(u, b), l) = PutAll(PutAll(u, b), t)
      <4>. DEFINE w == PutAll(u, b)
      <4>1. w \in Seq(C)
        BY <3>2
      <4>. HIDE DEF w
      <4>2. PutAll(w, l) = PutAll(w, t)
        BY <4>1, PutLastWins
      <4>3. QED
        BY <4>2 DEF w
    <3>6. QED
      BY <3>1, <3>3, <3>4, <3>5
  <2>11. <<>> \in Seq(C)
    BY EmptySeq
  <2>12. LastWins(a \o l) = LastWins(b \o t)
    <3>. HIDE DEF l
    <3>1. PutAll(<<>>, a \o l) = PutAll(<<>>, b \o t)
      BY <2>10, <2>11
    <3>2. LastWins(a \o l) = PutAll(<<>>, a \o l) /\ LastWins(b \o t) = PutAll(<<>>, b \o t)
      BY <2>6, <2>8
    <3>3. QED
      BY <3>1, <3>2
  <2>13. QED
    BY <2>1, <2>4, <2>5, <2>9, <2>12
<1>3. Seq(Seq(C)) \subseteq G
  <2>. HIDE DEF G
  <2>1. QED
    BY <1>1, <1>2, Appending
<1>4. QED
  BY <1>3

\* Collisions goes through the seeds one by one.
LEMMA CollisionsSteps ==
  ASSUME NEW n \in Nat, NEW seeds, DOMAIN seeds = 1..n,
         \A k \in 1..n : Len(seeds[k].dups) \in Nat
  PROVE  \E f \in [0..n -> Nat] :
           /\ f[0] = 0 /\ f[n] = Collisions(seeds)
           /\ \A k \in 1..n : f[k] = f[k - 1] + Len(seeds[k].dups)
<1>. DEFINE D == 1..n
            Add(v, k) == v + Len(seeds[k].dups)
            step == [p \in D \X Nat |-> Add(p[2], p[1])]
            Value(g, r) == IF r = {} THEN 0
                           ELSE LET x == Max(r) IN Add(g[r \ {x}], x)
            P(g) == g = [r \in SUBSET D |-> Value(g, r)]
<1>1. Collisions(seeds) = (CHOOSE g : P(g))[D]
  BY DEF Collisions, FoldLeft, MapThenFoldSet
<1>2. \A k \in D, v \in Nat : Add(v, k) \in Nat
  OBVIOUS
<1>. HIDE DEF Add
<1>3. \A k \in D, v \in Nat : step[<<k, v>>] = Add(v, k) /\ step[<<k, v>>] \in Nat
  BY <1>2
<1>. HIDE DEF step
<1>4. Closed(step, n, Nat)
  BY <1>3 DEF Closed
<1>5. PICK g \in [SUBSET (1..n) -> Nat] : g[{}] = 0 /\ FoldsUp(g, n, Nat, step)
  BY <1>4, FoldOfPositions
<1>6. \A r \in SUBSET D : r # {} => Max(r) \in D
  BY MaxIsNext
<1>7. P(g)
  <2>1. ASSUME NEW r \in SUBSET D PROVE g[r] = Value(g, r)
    <3>1. CASE r = {}
      BY <1>5, <3>1
    <3>2. CASE r # {}
      <4>1. Max(r) \in D /\ g[r \ {Max(r)}] \in Nat
        BY <1>6, <3>2
      <4>2. QED
        BY <1>3, <1>5, <3>2, <4>1 DEF FoldsUp
    <3>3. QED
      BY <3>1, <3>2
  <2>2. QED
    BY <2>1
<1>8. PICK h : h = (CHOOSE k : P(k))
  OBVIOUS
<1>9. P(h)
  BY <1>7, <1>8
<1>10. h[{}] = 0
  BY <1>9
<1>11. FoldsUp(h, n, Nat, step)
  <2>1. ASSUME NEW r \in SUBSET D, r # {}, h[r \ {Max(r)}] \in Nat
        PROVE  h[r] = step[<<Max(r), h[r \ {Max(r)}]>>]
    <3>1. h[r] = Add(h[r \ {Max(r)}], Max(r))
      BY <1>9, <2>1
    <3>2. QED
      BY <1>3, <1>6, <2>1, <3>1
  <2>2. QED
    BY <2>1 DEF FoldsUp
<1>. HIDE DEF P
<1>12. PICK f \in [0..n -> Nat] : f[n] = h[1..n] /\ Along(f, n, 0, step)
  <2>1. 0 \in Nat
    OBVIOUS
  <2>2. ASSUME NEW V, V = Nat
        PROVE  \E f \in [0..n -> V] : f[n] = h[1..n] /\ Along(f, n, 0, step)
    <3>1. 0 \in V /\ Closed(step, n, V) /\ FoldsUp(h, n, V, step)
      BY <1>4, <1>11, <2>1, <2>2
    <3>2. QED
      BY <1>10, <3>1, FoldAlongPrefixes
  <2>3. QED
    BY <2>2
<1>13. \A k \in 1..n : f[k] = Add(f[k - 1], k)
  <2>1. \A k \in 1..n : k - 1 \in 0..n
    OBVIOUS
  <2>2. QED
    BY <1>3, <1>12, <2>1 DEF Along
<1>14. f[n] = Collisions(seeds)
  BY <1>1, <1>8, <1>12
<1>15. QED
  BY <1>12, <1>13, <1>14 DEF Add, Along

\* The frame that seeds of one frame are merged under.
LEMMA MergedFrameOfOne ==
  ASSUME NEW n \in Nat \ {0}, NEW seeds, DOMAIN seeds = 1..n,
         NEW e, \A k \in 1..n : seeds[k].frame = e
  PROVE  MergedFrame(seeds) = e
<1>. DEFINE D == 1..n
            V == {DefaultFrame, e}
            Take(v, k) == IF seeds[k].frame = DefaultFrame THEN v ELSE seeds[k].frame
            step == [p \in D \X V |-> Take(p[2], p[1])]
            Value(g, r) == IF r = {} THEN DefaultFrame
                           ELSE LET x == Max(r) IN Take(g[r \ {x}], x)
            P(g) == g = [r \in SUBSET D |-> Value(g, r)]
<1>1. MergedFrame(seeds) = (CHOOSE g : P(g))[D]
  BY DEF MergedFrame, FoldLeft, MapThenFoldSet
<1>2. \A k \in D, v \in V : Take(v, k) \in V /\ (Take(v, k) = e \/ e = DefaultFrame)
  OBVIOUS
<1>3. DefaultFrame \in V
  OBVIOUS
<1>4. \A v \in V : e = DefaultFrame => v = e
  OBVIOUS
<1>. HIDE DEF Take, V
<1>5. \A k \in D, v \in V : step[<<k, v>>] = Take(v, k) /\ step[<<k, v>>] \in V
  BY <1>2
<1>. HIDE DEF step
<1>6. Closed(step, n, V)
  BY <1>5 DEF Closed
<1>7. PICK g \in [SUBSET (1..n) -> V] : g[{}] = DefaultFrame /\ FoldsUp(g, n, V, step)
  BY <1>3, <1>6, FoldOfPositions
<1>8. \A r \in SUBSET D : r # {} => Max(r) \in D
  BY MaxIsNext
<1>9. P(g)
  <2>1. ASSUME NEW r \in SUBSET D PROVE g[r] = Value(g, r)
    <3>1. CASE r = {}
      BY <1>7, <3>1
    <3>2. CASE r # {}
      <4>1. Max(r) \in D /\ g[r \ {Max(r)}] \in V
        BY <1>8, <3>2
      <4>2. QED
        BY <1>5, <1>7, <3>2, <4>1 DEF FoldsUp
    <3>3. QED
      BY <3>1, <3>2
  <2>2. QED
    BY <2>1
<1>10. PICK h : h = (CHOOSE k : P(k))
  OBVIOUS
<1>11. P(h)
  BY <1>9, <1>10
<1>12. h[{}] = DefaultFrame
  BY <1>11
<1>13. FoldsUp(h, n, V, step)
  <2>1. ASSUME NEW r \in SUBSET D, r # {}, h[r \ {Max(r)}] \in V
        PROVE  h[r] = step[<<Max(r), h[r \ {Max(r)}]>>]
    <3>1. h[r] = Take(h[r \ {Max(r)}], Max(r))
      BY <1>11, <2>1
    <3>2. QED
      BY <1>5, <1>8, <2>1, <3>1
  <2>2. QED
    BY <2>1 DEF FoldsUp
<1>. HIDE DEF P
<1>14. PICK f \in [0..n -> V] : f[n] = h[1..n] /\ Along(f, n, DefaultFrame, step)
  BY <1>3, <1>6, <1>12, <1>13, FoldAlongPrefixes
<1>15. f[n] = Take(f[n - 1], n) /\ f[n - 1] \in V
  <2>1. n - 1 \in 0..n /\ n \in 1..n
    OBVIOUS
  <2>2. QED
    BY <1>5, <1>14, <2>1 DEF Along
<1>16. f[n] = e
  <2>1. n \in D
    OBVIOUS
  <2>2. f[n] \in V /\ (f[n] = e \/ e = DefaultFrame)
    BY <1>2, <1>15, <2>1
  <2>3. QED
    BY <1>4, <2>2
<1>17. f[n] = MergedFrame(seeds)
  BY <1>1, <1>10, <1>14
<1>18. QED
  BY <1>16, <1>17

\* What was stripped is what collided.
LEMMA CollisionsCount ==
  ASSUME NEW C, NEW F \in Seq(Seq(C)), NEW seeds, DOMAIN seeds = 1..Len(F),
         \A k \in 1..Len(F) : seeds[k].dups = Duplicates(F[k])
  PROVE  /\ Collisions(seeds) \in Nat
         /\ Len(FlattenSeq(Stripped(F))) \in Nat
         /\ Len(FlattenSeq(Stripped(F))) + Collisions(seeds) = Len(FlattenSeq(F))
<1>. DEFINE n == Len(F)
            d == [k \in 1..n |-> Len(seeds[k].dups)]
            S == Stripped(F)
<1>1. n \in Nat /\ \A k \in 1..n : F[k] \in Seq(C)
  BY LenProperties, ElementOfSeq
<1>2. S \in Seq(Seq(C)) /\ Len(S) = n /\ \A k \in 1..n : S[k] = LastWins(F[k])
  <2>1. <<>> \in Seq(C)
    BY EmptySeq
  <2>2. S \in Seq(Seq(C)) /\ Len(S) = n
    BY <2>1, StrippedAppend
  <2>3. QED
    BY <2>2 DEF Stripped
<1>3. \A k \in 1..n : /\ d[k] \in Nat /\ d[k] = Len(seeds[k].dups)
                      /\ S[k] \in Seq(C) /\ Len(S[k]) \in Nat /\ Len(F[k]) \in Nat
                      /\ d[k] + Len(S[k]) = Len(F[k])
  <2>1. ASSUME NEW k \in 1..n
        PROVE  /\ Len(Duplicates(F[k])) \in Nat /\ Len(LastWins(F[k])) \in Nat
               /\ Len(Duplicates(F[k])) + Len(LastWins(F[k])) = Len(F[k])
               /\ Len(F[k]) \in Nat /\ LastWins(F[k]) \in Seq(C)
    <3>. DEFINE s == F[k]
    <3>1. s \in Seq(C)
      BY <1>1
    <3>. HIDE DEF s
    <3>2. /\ Len(Duplicates(s)) \in Nat /\ Len(LastWins(s)) \in Nat
          /\ Len(Duplicates(s)) + Len(LastWins(s)) = Len(s)
      BY <3>1, DuplicatesCount
    <3>3. Len(s) \in Nat /\ LastWins(s) \in Seq(C)
      BY <3>1, LastWinsRecursion, LenProperties
    <3>4. QED
      BY <3>2, <3>3 DEF s
  <2>2. QED
    BY <1>2, <2>1
<1>4. PICK c \in [0..n -> Nat] :
        /\ c[0] = 0 /\ c[n] = Collisions(seeds)
        /\ \A k \in 1..n : c[k] = c[k - 1] + Len(seeds[k].dups)
  <2>1. DOMAIN seeds = 1..n /\ \A k \in 1..n : Len(seeds[k].dups) \in Nat
    BY <1>3
  <2>. HIDE DEF n
  <2>2. QED
    BY <1>1, <2>1, CollisionsSteps
<1>5. PICK a \in [0..n -> Seq(C)] :
        /\ a[0] = <<>> /\ a[n] = FlattenSeq(F)
        /\ \A k \in 1..n : a[k] = a[k - 1] \o F[k]
  BY FlattenSteps
<1>. HIDE DEF S, d
<1>6. PICK b \in [0..n -> Seq(C)] :
        /\ b[0] = <<>> /\ b[n] = FlattenSeq(S)
        /\ \A k \in 1..n : b[k] = b[k - 1] \o S[k]
  <2>1. S \in Seq(Seq(C)) /\ Len(S) = n
    BY <1>2
  <2>2. \E h \in [0..Len(S) -> Seq(C)] :
          /\ h[0] = <<>> /\ h[Len(S)] = FlattenSeq(S)
          /\ \A k \in 1..Len(S) : h[k] = h[k - 1] \o S[k]
    BY <2>1, FlattenSteps
  <2>. HIDE DEF n
  <2>3. QED
    BY <2>1, <2>2
<1>. DEFINE Good(k) == /\ Len(a[k]) \in Nat /\ Len(b[k]) \in Nat
                       /\ Len(b[k]) + c[k] = Len(a[k])
            G == {k \in 0..n : Good(k)}
<1>. HIDE DEF n
<1>7. 0 \in G
  <2>1. Len(a[0]) = 0 /\ Len(b[0]) = 0
    BY <1>5, <1>6, EmptySeq
  <2>2. c[0] = 0 /\ 0 \in 0..n
    BY <1>1, <1>4
  <2>3. Good(0)
    BY <2>1, <2>2
  <2>4. QED
    BY <2>2, <2>3
<1>8. ASSUME NEW k \in 0..(n - 1), k \in G PROVE k + 1 \in G
  <2>1. k \in 0..n /\ k + 1 \in 1..n /\ (k + 1) - 1 = k /\ k + 1 \in 0..n
    BY <1>1
  <2>. DEFINE f == F[k + 1]
              s == S[k + 1]
  <2>2. a[k] \in Seq(C) /\ b[k] \in Seq(C) /\ f \in Seq(C) /\ s \in Seq(C) /\ c[k] \in Nat
    BY <1>1, <1>3, <2>1
  <2>3. /\ d[k + 1] \in Nat /\ Len(s) \in Nat /\ Len(f) \in Nat
        /\ d[k + 1] + Len(s) = Len(f)
    BY <1>3, <2>1
  <2>4. /\ c[k + 1] = c[k] + d[k + 1]
        /\ a[k + 1] = a[k] \o f /\ b[k + 1] = b[k] \o s
    BY <1>3, <1>4, <1>5, <1>6, <2>1
  <2>. HIDE DEF f, s
  <2>5. Len(a[k] \o f) = Len(a[k]) + Len(f) /\ Len(b[k] \o s) = Len(b[k]) + Len(s)
    BY <2>2, ConcatProperties
  <2>6. Good(k)
    BY <1>8
  <2>7. Len(a[k + 1]) = Len(a[k]) + Len(f) /\ Len(b[k + 1]) = Len(b[k]) + Len(s)
    BY <2>4, <2>5
  <2>8. Good(k + 1)
    <3>1. \A p, q, v, e, lf, ls \in Nat :
            q + v = p /\ e + ls = lf =>
              p + lf \in Nat /\ q + ls \in Nat /\ (q + ls) + (v + e) = p + lf
      OBVIOUS
    <3>2. c[k] \in Nat /\ d[k + 1] \in Nat
      BY <2>2, <2>3
    <3>. DEFINE p == Len(a[k])
                q == Len(b[k])
                v == c[k]
                e == d[k + 1]
                lf == Len(f)
                ls == Len(s)
    <3>3. /\ p \in Nat /\ q \in Nat /\ v \in Nat /\ e \in Nat /\ lf \in Nat /\ ls \in Nat
          /\ q + v = p /\ e + ls = lf
      BY <2>3, <2>6, <3>2
    <3>4. /\ Len(a[k + 1]) = p + lf /\ Len(b[k + 1]) = q + ls
          /\ c[k + 1] = v + e
      BY <2>4, <2>7
    <3>. HIDE DEF p, q, v, e, lf, ls
    <3>5. p + lf \in Nat /\ q + ls \in Nat /\ (q + ls) + (v + e) = p + lf
      BY <3>1, <3>3
    <3>6. QED
      BY <3>4, <3>5
  <2>9. QED
    BY <2>1, <2>8
<1>9. 0..n \subseteq G
  <2>. HIDE DEF G
  <2>1. QED
    BY <1>1, <1>7, <1>8, CountingUp
<1>10. n \in 0..n
  BY <1>1
<1>11. Good(n) /\ c[n] \in Nat
  BY <1>9, <1>10
<1>12. QED
  BY <1>4, <1>5, <1>6, <1>11 DEF S

\* What a line of a file is.
Entry == [is : {"good"}, seg : FileSegment]

\* What a file is.
Document == [shape : {"good"}, frame : Frame, entries : Seq(Entry)]

\* The invariant of the behaviours that write files.
FilesInv == files \in Seq(Document)

\* The segments of a file's lines.
Listed(entries) == [n \in DOMAIN entries |-> entries[n].seg]

\* Each file's lines.
Written == [n \in DOMAIN files |-> files[n].entries]

\* Each file's segments.
FileLists == [n \in DOMAIN files |-> Listed(files[n].entries)]

\* Files are only begun and added to.
LEMMA FilesInvariance == Spec => []FilesInv
<1>1. Init => FilesInv
  BY EmptySeq DEF Init, FilesInv
<1>2. FilesInv /\ [Next]_vars => FilesInv'
  <2>. SUFFICES ASSUME FilesInv, [Next]_vars PROVE FilesInv'
    OBVIOUS
  <2>1. ASSUME NEW a \in End, NEW b \in End, RegisterSegment(a, b) PROVE FilesInv'
    BY <2>1 DEF RegisterSegment, FilesInv
  <2>2. ASSUME NEW frame \in Frame, WriteFile(frame) PROVE FilesInv'
    <3>. DEFINE doc == [shape |-> "good", frame |-> frame, entries |-> <<>>]
    <3>1. doc \in Document
      BY EmptySeq DEF Document
    <3>2. files' = Append(files, doc)
      BY <2>2 DEF WriteFile
    <3>. HIDE DEF doc
    <3>3. QED
      BY <3>1, <3>2, AppendProperties DEF FilesInv
  <2>3. ASSUME NEW s \in FileSegment, WriteEntry(s) PROVE FilesInv'
    <3>. DEFINE k == Len(files)
                line == [is |-> "good", seg |-> s]
                more == Append(files[k].entries, line)
                doc == [files[k] EXCEPT !.entries = more]
    <3>1. k \in 1..Len(files) /\ files[k] \in Document
      <4>1. files \in Seq(Document) /\ files # <<>>
        BY <2>3 DEF FilesInv, WriteEntry
      <4>2. Len(files) \in Nat /\ Len(files) # 0
        BY <4>1, EmptySeq, LenProperties
      <4>3. k \in 1..Len(files)
        BY <4>2
      <4>4. QED
        BY <4>1, <4>3, ElementOfSeq
    <3>2. line \in Entry /\ files[k].entries \in Seq(Entry)
      BY <3>1 DEF Entry, Document
    <3>3. files' = [files EXCEPT ![k] = doc]
      BY <2>3 DEF WriteEntry
    <3>4. more \in Seq(Entry)
      <4>. HIDE DEF line
      <4>1. QED
        BY <3>2, AppendProperties
    <3>5. doc \in Document
      <4>. HIDE DEF more
      <4>1. QED
        BY <3>1, <3>4 DEF Document
    <3>. HIDE DEF doc, k
    <3>6. [files EXCEPT ![k] = doc] \in Seq(Document)
      BY <3>1, <3>5, ExceptSeq DEF FilesInv
    <3>7. QED
      BY <3>3, <3>6 DEF FilesInv
  <2>4. CASE UNCHANGED vars
    BY <2>4 DEF vars, FilesInv
  <2>5. QED
    BY <2>1, <2>2, <2>3, <2>4 DEF Next
<1>3. QED
  BY <1>1, <1>2, PTL DEF Spec

\* A list of lines lists segments.
LEMMA ListedType ==
  ASSUME NEW s \in Seq(Entry)
  PROVE  /\ Listed(s) \in Seq(FileSegment) /\ Len(Listed(s)) = Len(s) /\ Len(s) \in Nat
         /\ \A n \in 1..Len(s) : Listed(s)[n] = s[n].seg
<1>1. DOMAIN s = 1..Len(s) /\ Len(s) \in Nat /\ \A n \in 1..Len(s) : s[n] \in Entry
  BY LenProperties, ElementOfSeq
<1>2. \A n \in 1..Len(s) : s[n].seg \in FileSegment
  BY <1>1 DEF Entry
<1>3. /\ Listed(s) = [n \in 1..Len(s) |-> s[n].seg]
      /\ \A n \in 1..Len(s) : Listed(s)[n] = s[n].seg
  BY <1>1 DEF Listed
<1>4. Listed(s) \in [1..Len(s) -> FileSegment]
  BY <1>2, <1>3
<1>5. Listed(s) \in Seq(FileSegment) /\ Len(Listed(s)) = Len(s)
  BY <1>1, <1>4, IsASeq, LenProperties
<1>6. QED
  BY <1>1, <1>3, <1>5

\* First the one's segments, then the other's.
LEMMA ListedConcatenated ==
  ASSUME NEW s \in Seq(Entry), NEW t \in Seq(Entry)
  PROVE  Listed(s \o t) = Listed(s) \o Listed(t)
<1>. DEFINE l == Listed(s)
            m == Listed(t)
            c == s \o t
            p == Len(s)
            q == Len(t)
<1>1. /\ c \in Seq(Entry) /\ Len(c) = p + q
      /\ \A n \in 1..(p + q) : c[n] = IF n <= p THEN s[n] ELSE t[n - p]
  BY ConcatProperties
<1>2. /\ l \in Seq(FileSegment) /\ Len(l) = p /\ p \in Nat
      /\ \A n \in 1..p : l[n] = s[n].seg
  BY ListedType
<1>3. /\ m \in Seq(FileSegment) /\ Len(m) = q /\ q \in Nat
      /\ \A n \in 1..q : m[n] = t[n].seg
  BY ListedType
<1>. HIDE DEF l, m, c
<1>4. /\ l \o m \in Seq(FileSegment) /\ Len(l \o m) = p + q
      /\ \A n \in 1..(p + q) : (l \o m)[n] = IF n <= p THEN l[n] ELSE m[n - p]
  <2>1. l \in Seq(FileSegment) /\ m \in Seq(FileSegment)
    BY <1>2, <1>3
  <2>2. /\ l \o m \in Seq(FileSegment) /\ Len(l \o m) = Len(l) + Len(m)
        /\ \A n \in 1..(Len(l) + Len(m)) :
             (l \o m)[n] = IF n <= Len(l) THEN l[n] ELSE m[n - Len(l)]
    BY <2>1, ConcatProperties
  <2>. HIDE DEF p, q
  <2>3. QED
    BY <1>2, <1>3, <2>2
<1>5. /\ Listed(c) \in Seq(FileSegment) /\ Len(Listed(c)) = p + q
      /\ \A n \in 1..(p + q) : Listed(c)[n] = c[n].seg
  BY <1>1, ListedType
<1>. HIDE DEF p, q
<1>6. ASSUME NEW n \in 1..(p + q) PROVE Listed(c)[n] = (l \o m)[n]
  <2>1. CASE n <= p
    <3>1. n \in 1..p
      BY <1>2, <1>3, <2>1
    <3>2. QED
      BY <1>1, <1>2, <1>4, <1>5, <2>1, <3>1
  <2>2. CASE ~(n <= p)
    <3>1. n - p \in 1..q
      BY <1>2, <1>3, <2>2
    <3>2. QED
      BY <1>1, <1>3, <1>4, <1>5, <2>2, <3>1
  <2>3. QED
    BY <2>1, <2>2
<1>7. Listed(c) = l \o m
  <2>. DEFINE x == Listed(c)
              y == l \o m
  <2>1. /\ x \in Seq(FileSegment) /\ y \in Seq(FileSegment) /\ Len(x) = Len(y)
        /\ \A n \in 1..Len(x) : x[n] = y[n]
    BY <1>4, <1>5, <1>6
  <2>. HIDE DEF x, y
  <2>2. x = y
    BY <2>1, SeqEqual
  <2>3. QED
    BY <2>2 DEF x, y
<1>8. QED
  BY <1>7 DEF c, l, m

\* The segments of all files' lines are all files' segments.
LEMMA ListedFlattened ==
  ASSUME NEW E \in Seq(Seq(Entry)), NEW F \in Seq(Seq(FileSegment)), Len(F) = Len(E),
         \A n \in 1..Len(E) : F[n] = Listed(E[n])
  PROVE  Listed(FlattenSeq(E)) = FlattenSeq(F)
<1>. DEFINE n == Len(E)
<1>1. n \in Nat /\ \A k \in 1..n : E[k] \in Seq(Entry)
  BY LenProperties, ElementOfSeq
<1>2. PICK f \in [0..n -> Seq(Entry)] :
        /\ f[0] = <<>> /\ f[n] = FlattenSeq(E)
        /\ \A k \in 1..n : f[k] = f[k - 1] \o E[k]
  BY FlattenSteps
<1>3. PICK h \in [0..n -> Seq(FileSegment)] :
        /\ h[0] = <<>> /\ h[n] = FlattenSeq(F)
        /\ \A k \in 1..n : h[k] = h[k - 1] \o F[k]
  <2>1. \E h \in [0..Len(F) -> Seq(FileSegment)] :
          /\ h[0] = <<>> /\ h[Len(F)] = FlattenSeq(F)
          /\ \A k \in 1..Len(F) : h[k] = h[k - 1] \o F[k]
    BY FlattenSteps
  <2>2. Len(F) = n
    OBVIOUS
  <2>. HIDE DEF n
  <2>3. QED
    BY <2>1, <2>2
<1>. DEFINE G == {k \in 0..n : Listed(f[k]) = h[k]}
<1>4. \A k \in 1..n : F[k] = Listed(E[k])
  OBVIOUS
<1>. HIDE DEF n
<1>5. 0 \in G
  <2>1. ASSUME NEW s \in Seq(Entry), Len(s) = 0 PROVE Listed(s) = <<>>
    <3>1. Listed(s) \in Seq(FileSegment) /\ Len(Listed(s)) = 0
      BY <2>1, ListedType
    <3>. DEFINE l == Listed(s)
    <3>. HIDE DEF l
    <3>2. l \in Seq(FileSegment) /\ Len(l) = 0
      BY <3>1 DEF l
    <3>3. l = <<>>
      BY <3>2, EmptySeq
    <3>4. QED
      BY <3>3 DEF l
  <2>2. 0 \in 0..n
    BY <1>1
  <2>3. f[0] \in Seq(Entry) /\ Len(f[0]) = 0
    BY <1>2, <2>2, EmptySeq
  <2>4. QED
    BY <1>3, <2>1, <2>2, <2>3
<1>6. ASSUME NEW k \in 0..(n - 1), k \in G PROVE k + 1 \in G
  <2>1. k \in 0..n /\ k + 1 \in 1..n /\ k + 1 \in 0..n /\ (k + 1) - 1 = k
    BY <1>1
  <2>2. f[k] \in Seq(Entry) /\ E[k + 1] \in Seq(Entry) /\ Listed(f[k]) = h[k]
    BY <1>1, <1>6, <2>1
  <2>3. f[k + 1] = f[k] \o E[k + 1] /\ h[k + 1] = h[k] \o Listed(E[k + 1])
    BY <1>2, <1>3, <1>4, <2>1
  <2>4. Listed(f[k] \o E[k + 1]) = Listed(f[k]) \o Listed(E[k + 1])
    BY <2>2, ListedConcatenated
  <2>5. QED
    BY <2>1, <2>2, <2>3, <2>4
<1>7. 0..n \subseteq G
  <2>. HIDE DEF G
  <2>1. QED
    BY <1>1, <1>5, <1>6, CountingUp
<1>8. n \in 0..n
  BY <1>1
<1>9. QED
  BY <1>2, <1>3, <1>7, <1>8

\* Every file that is written loads.
LEMMA FilesLoad ==
  ASSUME NEW doc \in Document
  PROVE  ParseSeed(doc) =
           Loaded(LastWins(Listed(doc.entries)), Duplicates(Listed(doc.entries)),
                  IF doc.frame = NoFrame THEN DefaultFrame ELSE doc.frame)
<1>1. doc.shape = "good" /\ doc.entries \in Seq(Entry)
  BY DEF Document
<1>2. \A n \in DOMAIN doc.entries : doc.entries[n].is = "good"
  <2>. DEFINE s == doc.entries
  <2>1. s \in Seq(Entry)
    BY <1>1
  <2>. HIDE DEF s
  <2>2. \A n \in DOMAIN s : s[n] \in Entry
    BY <2>1, LenProperties, ElementOfSeq
  <2>3. QED
    BY <2>2 DEF Entry, s
<1>3. {n \in DOMAIN doc.entries : doc.entries[n].is # "good"} = {}
  BY <1>2
<1>4. FirstFault(doc.entries) = "none"
  BY <1>3 DEF FirstFault
<1>5. QED
  BY <1>1, <1>4 DEF ParseSeed, Listed

\* What the seeds and the lines are, file by file.
LEMMA SeedsOfFiles ==
  ASSUME FilesInv
  PROVE  /\ Len(files) \in Nat
         /\ DOMAIN Seeds = 1..Len(files)
         /\ FileLists \in Seq(Seq(FileSegment)) /\ Len(FileLists) = Len(files)
         /\ Lines \in Seq(Entry) /\ Listed(Lines) = FlattenSeq(FileLists)
         /\ \A n \in 1..Len(files) :
              Seeds[n] = Loaded(LastWins(FileLists[n]), Duplicates(FileLists[n]),
                                IF files[n].frame = NoFrame THEN DefaultFrame
                                ELSE files[n].frame)
<1>. DEFINE N == Len(files)
<1>1. N \in Nat /\ DOMAIN files = 1..N /\ \A n \in 1..N : files[n] \in Document
  BY LenProperties, ElementOfSeq DEF FilesInv
<1>. HIDE DEF N
<1>2. \A n \in 1..N : files[n].entries \in Seq(Entry)
  BY <1>1 DEF Document
<1>3. /\ Written = [n \in 1..N |-> files[n].entries]
      /\ FileLists = [n \in 1..N |-> Listed(files[n].entries)]
      /\ Seeds = [n \in 1..N |-> ParseSeed(files[n])]
  BY <1>1 DEF Written, FileLists, Seeds
<1>4. /\ Written \in Seq(Seq(Entry)) /\ Len(Written) = N
      /\ \A n \in 1..N : Written[n] = files[n].entries
  <2>. DEFINE S == Seq(Entry)
  <2>1. \A n \in 1..N : files[n].entries \in S
    BY <1>2
  <2>. HIDE DEF S
  <2>2. Written \in [1..N -> S]
    BY <1>3, <2>1
  <2>3. Written \in Seq(S) /\ Len(Written) = N
    BY <1>1, <2>2, IsASeq, LenProperties
  <2>4. QED
    BY <1>3, <2>3 DEF S
<1>5. /\ FileLists \in Seq(Seq(FileSegment)) /\ Len(FileLists) = N
      /\ \A n \in 1..N : FileLists[n] = Listed(files[n].entries)
  <2>. DEFINE S == Seq(FileSegment)
  <2>1. \A n \in 1..N : Listed(files[n].entries) \in S
    BY <1>2, ListedType
  <2>. HIDE DEF S
  <2>2. FileLists \in [1..N -> S]
    BY <1>3, <2>1
  <2>3. FileLists \in Seq(S) /\ Len(FileLists) = N
    BY <1>1, <2>2, IsASeq, LenProperties
  <2>4. QED
    BY <1>3, <2>3 DEF S
<1>6. Lines \in Seq(Entry)
  BY <1>4, FlattenRecursion DEF Lines, Written
<1>7. Listed(FlattenSeq(Written)) = FlattenSeq(FileLists)
  <2>1. Len(FileLists) = Len(Written)
    BY <1>4, <1>5
  <2>2. \A n \in 1..Len(Written) : FileLists[n] = Listed(Written[n])
    BY <1>4, <1>5
  <2>3. Written \in Seq(Seq(Entry)) /\ FileLists \in Seq(Seq(FileSegment))
    BY <1>4, <1>5
  <2>4. QED
    BY <2>1, <2>2, <2>3, ListedFlattened
<1>8. ASSUME NEW n \in 1..N
      PROVE  Seeds[n] = Loaded(LastWins(FileLists[n]), Duplicates(FileLists[n]),
                               IF files[n].frame = NoFrame THEN DefaultFrame
                               ELSE files[n].frame)
  <2>1. Seeds[n] = ParseSeed(files[n]) /\ FileLists[n] = Listed(files[n].entries)
    BY <1>3, <1>5
  <2>2. files[n] \in Document
    BY <1>1
  <2>3. ParseSeed(files[n]) =
          Loaded(LastWins(Listed(files[n].entries)), Duplicates(Listed(files[n].entries)),
                 IF files[n].frame = NoFrame THEN DefaultFrame ELSE files[n].frame)
    BY <2>2, FilesLoad
  <2>4. QED
    BY <2>1, <2>3
<1>9. DOMAIN Seeds = 1..N
  BY <1>3
<1>10. QED
  BY <1>1, <1>5, <1>6, <1>7, <1>8, <1>9 DEF N, Lines, Written

\* Merging takes every file's list without its duplicates: the same
\* segments are left as if the lists had been one, the frame is the files' own
\* if they have one, and every duplicate is either among the seeds' or found
\* when they are merged.
THEOREM MergingIsOneFile == Spec => []MergeIsOneFile
<1>1. FilesInv => MergeIsOneFile
  <2>. SUFFICES ASSUME FilesInv, files # <<>> PROVE MergeIsOneFile
    BY DEF MergeIsOneFile
  <2>. DEFINE n == Len(files)
              F == FileLists
              frame == files[1].frame
              e == IF frame = NoFrame THEN DefaultFrame ELSE frame
              doc == [shape |-> "good", frame |-> frame, entries |-> Lines]
              merged == MergeSeeds(Seeds)
              whole == ParseSeed(doc)
  <2>1. /\ n \in Nat /\ DOMAIN Seeds = 1..n
        /\ F \in Seq(Seq(FileSegment)) /\ Len(F) = n
        /\ Lines \in Seq(Entry) /\ Listed(Lines) = FlattenSeq(F)
        /\ \A k \in 1..n : Seeds[k] = Loaded(LastWins(F[k]), Duplicates(F[k]),
                             IF files[k].frame = NoFrame THEN DefaultFrame
                             ELSE files[k].frame)
    BY SeedsOfFiles
  <2>2. n # 0 /\ frame \in Frame
    <3>1. files \in Seq(Document)
      BY DEF FilesInv
    <3>2. n # 0
      BY <3>1, EmptySeq
    <3>3. 1 \in 1..n
      BY <2>1, <3>2
    <3>4. files[1] \in Document
      BY <3>1, <3>3, ElementOfSeq
    <3>5. QED
      BY <3>2, <3>4 DEF Document
  <2>3. whole = Loaded(LastWins(FlattenSeq(F)), Duplicates(FlattenSeq(F)), e)
    <3>1. doc \in Document
      BY <2>1, <2>2 DEF Document
    <3>2. doc.entries = Lines /\ doc.frame = frame
      OBVIOUS
    <3>. HIDE DEF doc
    <3>3. whole = Loaded(LastWins(Listed(doc.entries)), Duplicates(Listed(doc.entries)),
                         IF doc.frame = NoFrame THEN DefaultFrame ELSE doc.frame)
      BY <3>1, FilesLoad
    <3>4. QED
      BY <2>1, <3>2, <3>3
  <2>. HIDE DEF doc, n, F
  <2>4. [k \in DOMAIN Seeds |-> Seeds[k].segs] = Stripped(F)
    <3>1. \A k \in 1..n : Seeds[k].segs = LastWins(F[k])
      BY <2>1 DEF Loaded
    <3>2. QED
      BY <2>1, <3>1 DEF Stripped
  <2>5. merged = Loaded(LastWins(FlattenSeq(Stripped(F))),
                        Duplicates(FlattenSeq(Stripped(F))), MergedFrame(Seeds))
    BY <2>4 DEF MergeSeeds
  <2>6. LastWins(FlattenSeq(Stripped(F))) = LastWins(FlattenSeq(F))
    BY <2>1, MergedSegments
  <2>7. /\ Collisions(Seeds) \in Nat
        /\ Len(FlattenSeq(Stripped(F))) \in Nat
        /\ Len(FlattenSeq(Stripped(F))) + Collisions(Seeds) = Len(FlattenSeq(F))
    <3>1. \A k \in 1..Len(F) : Seeds[k].dups = Duplicates(F[k])
      <4>1. ASSUME NEW k \in 1..n PROVE Seeds[k].dups = Duplicates(F[k])
        <5>1. Seeds[k] = Loaded(LastWins(F[k]), Duplicates(F[k]),
                                IF files[k].frame = NoFrame THEN DefaultFrame
                                ELSE files[k].frame)
          BY <2>1
        <5>2. QED
          BY <5>1 DEF Loaded
      <4>2. Len(F) = n
        BY <2>1
      <4>3. QED
        BY <4>1, <4>2
    <3>2. DOMAIN Seeds = 1..Len(F)
      BY <2>1
    <3>. DEFINE seeds == Seeds
    <3>3. DOMAIN seeds = 1..Len(F) /\ \A k \in 1..Len(F) : seeds[k].dups = Duplicates(F[k])
      BY <3>1, <3>2
    <3>. HIDE DEF seeds
    <3>4. /\ Collisions(seeds) \in Nat
          /\ Len(FlattenSeq(Stripped(F))) \in Nat
          /\ Len(FlattenSeq(Stripped(F))) + Collisions(seeds) = Len(FlattenSeq(F))
      BY <2>1, <3>3, CollisionsCount
    <3>5. QED
      BY <3>4 DEF seeds
  <2>8. FlattenSeq(F) \in Seq(FileSegment) /\ FlattenSeq(Stripped(F)) \in Seq(FileSegment)
    <3>1. <<>> \in Seq(FileSegment)
      BY EmptySeq
    <3>2. Stripped(F) \in Seq(Seq(FileSegment))
      BY <2>1, <3>1, StrippedAppend
    <3>3. QED
      BY <2>1, <3>2, FlattenRecursion
  <2>9. Len(merged.dups) + Collisions(Seeds) = Len(whole.dups)
    <3>. DEFINE s == FlattenSeq(Stripped(F))
                t == FlattenSeq(F)
    <3>1. s \in Seq(FileSegment) /\ t \in Seq(FileSegment)
      BY <2>8
    <3>2. LastWins(s) = LastWins(t)
      BY <2>6
    <3>. HIDE DEF s, t
    <3>3. /\ Len(Duplicates(s)) \in Nat /\ Len(LastWins(s)) \in Nat
          /\ Len(Duplicates(s)) + Len(LastWins(s)) = Len(s)
      BY <3>1, DuplicatesCount
    <3>4. /\ Len(Duplicates(t)) \in Nat /\ Len(LastWins(t)) \in Nat
          /\ Len(Duplicates(t)) + Len(LastWins(t)) = Len(t)
      BY <3>1, DuplicatesCount
    <3>. DEFINE ds == Len(Duplicates(s))
                dt == Len(Duplicates(t))
                l == Len(LastWins(s))
                ls == Len(s)
                lt == Len(t)
                c == Collisions(Seeds)
    <3>5. /\ ds \in Nat /\ dt \in Nat /\ l \in Nat /\ ls \in Nat /\ c \in Nat
          /\ ds + l = ls /\ dt + l = lt /\ ls + c = lt
      BY <2>7, <3>2, <3>3, <3>4 DEF s, t
    <3>. HIDE DEF ds, dt, l, ls, lt, c
    <3>6. ds + c = dt
      BY <3>5
    <3>7. merged.dups = Duplicates(s) /\ whole.dups = Duplicates(t)
      BY <2>3, <2>5 DEF Loaded, s, t
    <3>8. QED
      BY <3>6, <3>7 DEF ds, dt, c
  <2>10. ASSUME \A k \in DOMAIN files : files[k].frame = frame
         PROVE  merged.frame = whole.frame
    <3>1. DOMAIN files = 1..n
      BY LenProperties DEF FilesInv, n
    <3>2. \A k \in 1..n : Seeds[k].frame = e
      <4>1. ASSUME NEW k \in 1..n PROVE Seeds[k].frame = e
        <5>1. Seeds[k] = Loaded(LastWins(F[k]), Duplicates(F[k]),
                                IF files[k].frame = NoFrame THEN DefaultFrame
                                ELSE files[k].frame)
          BY <2>1
        <5>2. files[k].frame = frame
          BY <2>10, <3>1
        <5>3. QED
          BY <5>1, <5>2 DEF Loaded
      <4>2. QED
        BY <4>1
    <3>. DEFINE seeds == Seeds
    <3>3. DOMAIN seeds = 1..n /\ \A k \in 1..n : seeds[k].frame = e
      BY <2>1, <3>2
    <3>4. n \in Nat \ {0}
      BY <2>1, <2>2
    <3>. HIDE DEF seeds, e
    <3>5. MergedFrame(seeds) = e
      BY <3>3, <3>4, MergedFrameOfOne
    <3>6. QED
      BY <2>3, <2>5, <3>5 DEF Loaded, seeds
  <2>11. merged.segs = whole.segs
    BY <2>3, <2>5, <2>6 DEF Loaded
  <2>12. QED
    BY <2>9, <2>10, <2>11 DEF MergeIsOneFile, doc
<1>2. QED
  BY <1>1, FilesInvariance, PTL
=============================================================================
