-------------------------- MODULE MemoryNodeProofs --------------------------
(***************************************************************************)
(* Proofs about MemoryNode, for any messages, seeds, ids and restarts, and *)
(* any depth of the queue: what a record is bound to, and what the counter *)
(* of the joins counts.                                                    *)
(***************************************************************************)
EXTENDS MemoryNode, DataLemmas

-----------------------------------------------------------------------------
(* Seeds.                                                                  *)

\* What a seed file leads to.
LEMMA LoadedSegments ==
  ASSUME NEW f \in SeedFile, LoadSeed(f).outcome = "loaded"
  PROVE  LoadSeed(f).segs \in Seq(SeedSegment) /\ Distinct(LoadSeed(f).segs)
<1>. DEFINE entries == f.doc.entries
            segs == [n \in DOMAIN entries |-> entries[n].seg]
<1>1. /\ f.is \in {"absent", "unreadable", "malformed", "no_yaml", "not_utf8",
                   "blank", "decoded"}
      /\ entries \in Seq([is : {"good", "bad", "overflow"}, seg : SegmentType])
  BY SeedAssumption
<1>2. segs \in Seq(SeedSegment)
  <2>1. Len(entries) \in Nat /\ DOMAIN entries = 1..Len(entries)
    BY <1>1, LenProperties
  <2>2. \A n \in DOMAIN entries : entries[n].seg \in SeedSegment
    BY DEF SeedSegment
  <2>. HIDE DEF entries
  <2>3. segs = [n \in 1..Len(entries) |-> entries[n].seg]
    BY <2>1
  <2>4. QED
    BY <2>1, <2>2, <2>3, IsASeq
<1>3. CASE f.is = "blank"
  <2>1. LoadSeed(f).segs = <<>>
    BY <1>3 DEF LoadSeed, Loaded
  <2>2. <<>> \in Seq(SeedSegment) /\ DOMAIN <<>> = {}
    BY EmptySeq
  <2>3. QED
    BY <2>1, <2>2 DEF Distinct
<1>4. CASE f.is = "decoded"
  <2>1. LoadSeed(f) = ParseSeed(f.doc)
    BY <1>4 DEF LoadSeed
  <2>2. ParseSeed(f.doc).segs = LastWins(segs)
    BY <2>1 DEF ParseSeed, Rejected, Escapes, Loaded
  <2>3. QED
    BY <1>2, <2>1, <2>2, LastWinsRecursion
<1>5. CASE f.is = "not_utf8"
  BY <1>5 DEF LoadSeed, Escapes
<1>6. CASE f.is \in {"absent", "unreadable", "malformed", "no_yaml"}
  BY <1>6 DEF LoadSeed, Rejected
<1>7. QED
  BY <1>1, <1>3, <1>4, <1>5, <1>6

-----------------------------------------------------------------------------
(* The search.                                                             *)

\* A segment of a seed that has a place.
LEMMA PlacedSegments ==
  ASSUME NEW segs \in Seq(SeedSegment)
  PROVE  /\ Placed(segs) \in SUBSET Nat /\ IsFiniteSet(Placed(segs))
         /\ \A n \in DOMAIN segs : segs[n] \in SegmentType /\ segs[n] # NoSegment
         /\ \A n \in Placed(segs) : /\ segs[n].id \in SegId
                                    /\ segs[n].start \in Plane /\ segs[n].end \in Plane
                                    /\ GridFits(segs[n], Grid)
<1>1. /\ Len(segs) \in Nat /\ DOMAIN segs = 1..Len(segs)
      /\ \A n \in 1..Len(segs) : segs[n] \in SeedSegment
  BY LenProperties, ElementOfSeq
<1>2. SeedSegment \subseteq SegmentType
  <2>1. SUFFICES ASSUME NEW f \in SeedFile, NEW n \in DOMAIN f.doc.entries
                 PROVE  f.doc.entries[n].seg \in SegmentType
    BY DEF SeedSegment
  <2>2. f.doc.entries \in Seq([is : {"good", "bad", "overflow"}, seg : SegmentType])
    BY SeedAssumption
  <2>3. f.doc.entries[n] \in [is : {"good", "bad", "overflow"}, seg : SegmentType]
    BY <2>2, LenProperties, ElementOfSeq
  <2>4. QED
    BY <2>3
<1>3. Placed(segs) \subseteq 1..Len(segs) /\ IsFiniteSet(1..Len(segs))
  BY <1>1, FS_Interval DEF Placed
<1>4. \A n \in DOMAIN segs : segs[n] \in SegmentType /\ segs[n] # NoSegment
  BY <1>1, <1>2, SeedAssumption
<1>5. ASSUME NEW n \in Placed(segs)
      PROVE  /\ segs[n].id \in SegId
             /\ segs[n].start \in Plane /\ segs[n].end \in Plane
             /\ GridFits(segs[n], Grid)
  <2>1. segs[n] \in SegmentType /\ segs[n] \in SeedSegment
    BY <1>1, <1>3, <1>4
  <2>2. NotFinite \notin {segs[n].start, segs[n].end}
    BY DEF Placed
  <2>3. GridFits(segs[n], Grid)
    BY <2>1, <2>2, GridAssumption
  <2>4. QED
    BY <2>1, <2>2, <2>3 DEF SegmentType
<1>6. QED
  BY <1>1, <1>3, <1>4, <1>5, FS_Subset

\* segment_for_point finds a segment that no other is closer than, if the point
\* and any segment have a place.
LEMMA SearchFinds ==
  ASSUME NEW segs \in Seq(SeedSegment), NEW p \in Plane, Placed(segs) # {}
  PROVE  \E n \in Placed(segs) :
           /\ SegmentForPoint(segs, p) = segs[n]
           /\ \A m \in Placed(segs) :
                ~Closer(DistanceSq(p, segs[m]), DistanceSq(p, segs[n]))
<1>. DEFINE S == Placed(segs)
            d == [n \in S |-> DistanceSq(p, segs[n])]
<1>1. S \in SUBSET Nat /\ IsFiniteSet(S)
  BY PlacedSegments
<1>2. \A n \in S : d[n] = DistanceSq(p, segs[n])
  OBVIOUS
<1>3. \A n \in S : d[n].num \in Int /\ d[n].den \in Nat \ {0}
  <2>1. Grid \in Nat \ {0}
    BY NodeAssumption
  <2>2. ASSUME NEW n \in S
        PROVE  DistanceSq(p, segs[n]).num \in Int /\ DistanceSq(p, segs[n]).den \in Nat \ {0}
    <3>1. segs[n].start \in Plane /\ segs[n].end \in Plane
      BY PlacedSegments
    <3>2. QED
      BY <2>1, <3>1, DistanceOnGrid
  <2>3. QED
    BY <1>2, <2>2
<1>4. p # NotFinite
  BY SeedAssumption
<1>5. SegmentForPoint(segs, p) =
        LET near == {n \in S : \A m \in S :
                       /\ ~Closer(DistanceSq(p, segs[m]), DistanceSq(p, segs[n]))
                       /\ m < n => Closer(DistanceSq(p, segs[n]), DistanceSq(p, segs[m]))}
        IN  IF near = {} THEN NoSegment ELSE segs[CHOOSE n \in near : TRUE]
  BY <1>4 DEF SegmentForPoint, Comparable
<1>6. {n \in S : \A m \in S :
         /\ ~Closer(DistanceSq(p, segs[m]), DistanceSq(p, segs[n]))
         /\ m < n => Closer(DistanceSq(p, segs[n]), DistanceSq(p, segs[m]))}
        = FirstNearest(S, d)
  BY <1>2 DEF FirstNearest
<1>. HIDE DEF S, d
<1>7. PICK n \in S : FirstNearest(S, d) = {n}
  BY <1>1, <1>3, FirstNearestExists DEF S
<1>8. SegmentForPoint(segs, p) = segs[n]
  BY <1>5, <1>6, <1>7
<1>9. \A m \in S : ~Closer(d[m], d[n])
  BY <1>7 DEF FirstNearest
<1>10. QED
  BY <1>2, <1>8, <1>9 DEF S

\* Without a place there is nothing to find.
LEMMA SearchFindsNothing ==
  ASSUME NEW segs, NEW p, p = NotFinite \/ Placed(segs) = {}
  PROVE  SegmentForPoint(segs, p) = NoSegment
<1>1. Comparable(segs, p) = {}
  BY DEF Comparable
<1>2. QED
  BY <1>1 DEF SegmentForPoint

-----------------------------------------------------------------------------
(* Types, and what a record says of its seed.                              *)

\* The segment of a record is the nearest of the seed that was in force, and it
\* is blank for a cause.
RecordInv(r) ==
  /\ r.seg \in SegId \cup {Blank} /\ r.by \in {"join", "emitter", "none"}
  /\ r.seed.segs \in Seq(SeedSegment)
  /\ r.by = "join" =>
       /\ r.frame = r.seed.frame /\ r.frame # Blank
       /\ r.pos \in Plane
       /\ \E n \in Placed(r.seed.segs) :
            /\ r.seed.segs[n].id = r.seg
            /\ \A m \in Placed(r.seed.segs) :
                 ~Closer(DistanceSq(r.pos, r.seed.segs[m]),
                         DistanceSq(r.pos, r.seed.segs[n]))
  /\ r.seg = Blank /\ Placed(r.seed.segs) # {} =>
       r.frame = Blank \/ r.frame # r.seed.frame \/ r.pos = Infinite

\* The node by itself.
NodeInv ==
  /\ state \in {"down", "up", "died"}
  /\ joined \in Nat /\ unposed \in Nat /\ mismatch \in Nat
  /\ run \in 0..MaxRuns

\* What waits.
QueueInv ==
  /\ inbox \in Seq(Message) /\ Len(inbox) <= Depth
  /\ sent \in 0..MaxMessages

\* The seed in force.
SeedInv == seed.segs \in Seq(SeedSegment) /\ Distinct(seed.segs)

\* Every record.
StoredInv ==
  /\ DOMAIN stored = EventId \cup FreshId
  /\ \A i \in DOMAIN stored : stored[i] # None => RecordInv(stored[i])

\* The inductive invariant.
BindingInv == NodeInv /\ QueueInv /\ SeedInv /\ StoredInv

\* A seed without segments is one.
LEMMA NoSeedIsASeed ==
  /\ NoSeed.segs = <<>>
  /\ NoSeed.segs \in Seq(SeedSegment) /\ Distinct(NoSeed.segs)
<1>1. <<>> \in Seq(SeedSegment) /\ DOMAIN <<>> = {}
  BY EmptySeq
<1>2. QED
  BY <1>1 DEF NoSeed, Distinct

\* record_event stores an event that is bound as it must be, or nothing.
LEMMA PersistKeepsRecords ==
  ASSUME StoredInv, NEW m, NEW seg, NEW binding, Persist(m, seg, binding),
         m.pos # NaN => RecordInv(Stored(m, seg, binding))
  PROVE  StoredInv'
<1>1. CASE UNCHANGED stored
  BY <1>1 DEF StoredInv, RecordInv
<1>2. CASE /\ m.pos # NaN
           /\ stored' = [stored EXCEPT ![AssignedId(m)] = Stored(m, seg, binding)]
  <2>. DEFINE id == AssignedId(m)
              new == Stored(m, seg, binding)
  <2>1. RecordInv(new)
    BY <1>2
  <2>. HIDE DEF id, new
  <2>2. /\ DOMAIN stored' = DOMAIN stored
        /\ \A i \in DOMAIN stored : stored'[i] = IF i = id THEN new ELSE stored[i]
    BY <1>2 DEF id, new, StoredInv
  <2>3. \A i \in DOMAIN stored' : stored'[i] # None => RecordInv(stored'[i])
    BY <2>1, <2>2 DEF StoredInv
  <2>4. QED
    BY <2>2, <2>3 DEF StoredInv
<1>3. QED
  BY <1>1, <1>2 DEF Persist

\* The message that the callback takes has the type of one; taking it leaves
\* the rest of the queue.
LEMMA TakenMessage ==
  ASSUME QueueInv, NEW m \in Message, Receive(m)
  PROVE  QueueInv'
<1>1. inbox \in Seq(Message) /\ inbox # <<>> /\ inbox' = Tail(inbox) /\ sent' = sent
  BY DEF QueueInv, Receive
<1>2. /\ Tail(inbox) \in Seq(Message) /\ Len(inbox) \in Nat
      /\ Len(Tail(inbox)) = Len(inbox) - 1
  BY <1>1, DequeueShifts
<1>3. Depth \in Nat /\ Len(inbox) <= Depth /\ sent \in 0..MaxMessages
  BY NodeAssumption DEF QueueInv
<1>4. QED
  BY <1>1, <1>2, <1>3 DEF QueueInv

\* An event without a join: stamped by its emitter, without a frame, with
\* another frame, or of a node without segments.
LEMMA UnjoinedRecord ==
  ASSUME SeedInv, NEW m \in Message, NEW seg, NEW binding,
         binding \in {"emitter", "none"},
         \/ seg = m.seg /\ (m.seg # Blank \/ seed.segs = <<>>)
         \/ seg = Blank /\ (m.frame = Blank \/ m.frame # seed.frame)
  PROVE  RecordInv(Stored(m, seg, binding))
<1>. DEFINE r == Stored(m, seg, binding)
<1>1. /\ r.seg = seg /\ r.by = binding /\ r.seed = seed /\ r.frame = m.frame
  BY DEF Stored
<1>. HIDE DEF r
<1>2. seg \in SegId \cup {Blank}
  BY MessageAssumption
<1>3. seed.segs = <<>> => Placed(seed.segs) = {}
  BY DEF Placed
<1>4. r.seg = Blank /\ Placed(r.seed.segs) # {} =>
        r.frame = Blank \/ r.frame # r.seed.frame
  BY <1>1, <1>3
<1>5. QED
  BY <1>1, <1>2, <1>4 DEF RecordInv, SeedInv, r

\* An event that was joined, or that there was nothing to join to.
LEMMA JoinedRecord ==
  ASSUME SeedInv, NEW m \in Message, m.frame # Blank, m.frame = seed.frame
  PROVE  LET near == SegmentForPoint(seed.segs, Finite(m.pos))
         IN  IF near = NoSegment
             THEN m.pos # NaN => RecordInv(Stored(m, Blank, "none"))
             ELSE RecordInv(Stored(m, near.id, "join"))
<1>. DEFINE near == SegmentForPoint(seed.segs, Finite(m.pos))
<1>1. seed.segs \in Seq(SeedSegment)
  BY DEF SeedInv
<1>2. m.pos \in Plane \cup {NaN, Infinite}
  BY MessageAssumption
<1>3. CASE m.pos \in {NaN, Infinite}
  <2>1. near = NoSegment
    BY <1>3, SearchFindsNothing DEF Finite
  <2>2. ASSUME m.pos # NaN PROVE RecordInv(Stored(m, Blank, "none"))
    <3>. DEFINE r == Stored(m, Blank, "none")
    <3>1. r.seg = Blank /\ r.by = "none" /\ r.seed = seed /\ r.pos = Infinite
      BY <1>3, <2>2 DEF Stored
    <3>. HIDE DEF r
    <3>2. QED
      BY <1>1, <3>1 DEF RecordInv, r
  <2>3. QED
    BY <2>1, <2>2
<1>4. CASE m.pos \notin {NaN, Infinite} /\ Placed(seed.segs) = {}
  <2>1. near = NoSegment
    BY <1>4, SearchFindsNothing
  <2>2. RecordInv(Stored(m, Blank, "none"))
    <3>. DEFINE r == Stored(m, Blank, "none")
    <3>1. r.seg = Blank /\ r.by = "none" /\ r.seed = seed
      BY DEF Stored
    <3>. HIDE DEF r
    <3>2. QED
      BY <1>1, <1>4, <3>1 DEF RecordInv, r
  <2>3. QED
    BY <2>1, <2>2
<1>5. CASE m.pos \notin {NaN, Infinite} /\ Placed(seed.segs) # {}
  <2>1. m.pos \in Plane /\ Finite(m.pos) = m.pos
    BY <1>2, <1>5 DEF Finite
  <2>2. PICK n \in Placed(seed.segs) :
          /\ near = seed.segs[n]
          /\ \A k \in Placed(seed.segs) :
               ~Closer(DistanceSq(m.pos, seed.segs[k]), DistanceSq(m.pos, seed.segs[n]))
    BY <1>1, <1>5, <2>1, SearchFinds
  <2>3. n \in DOMAIN seed.segs
    BY DEF Placed
  <2>4. near # NoSegment /\ near.id \in SegId
    BY <1>1, <2>2, <2>3, PlacedSegments
  <2>. HIDE DEF near
  <2>5. RecordInv(Stored(m, near.id, "join"))
    <3>. DEFINE r == Stored(m, near.id, "join")
    <3>1. /\ r.seg = near.id /\ r.by = "join" /\ r.seed = seed
          /\ r.frame = m.frame /\ r.pos = m.pos
      BY DEF Stored
    <3>. HIDE DEF r
    <3>2. near.id # Blank
      BY <2>4, NodeAssumption
    <3>3. QED
      BY <1>1, <2>1, <2>2, <2>4, <3>1, <3>2 DEF RecordInv, r
  <2>6. QED
    BY <2>4, <2>5 DEF near
<1>6. QED
  BY <1>3, <1>4, <1>5

\* The callback.
LEMMA OnEventBinds ==
  ASSUME BindingInv, OnEvent
  PROVE  BindingInv'
<1>0. NodeInv /\ QueueInv /\ SeedInv /\ StoredInv
  BY DEF BindingInv
<1>1. ASSUME NEW m \in Message, Receive(m),
             joined' \in Nat, unposed' \in Nat, mismatch' \in Nat, StoredInv'
      PROVE  BindingInv'
  <2>1. UNCHANGED <<state, seed, run>>
    BY <1>1 DEF Receive
  <2>2. QueueInv'
    BY <1>0, <1>1, TakenMessage
  <2>3. QED
    BY <1>0, <1>1, <2>1, <2>2 DEF BindingInv, NodeInv, SeedInv
<1>2. joined \in Nat /\ unposed \in Nat /\ mismatch \in Nat
  BY <1>0 DEF NodeInv
<1>3. CASE DropMalformed
  <2>1. PICK m \in Message : Receive(m) /\ UNCHANGED <<counters, stored>>
    BY <1>3 DEF DropMalformed
  <2>2. StoredInv'
    BY <1>0, <2>1 DEF StoredInv, RecordInv
  <2>3. QED
    BY <1>1, <1>2, <2>1, <2>2 DEF counters
<1>4. CASE StoreAsStamped
  <2>1. PICK m \in Message :
          /\ Receive(m)
          /\ m.seg # Blank \/ seed.segs = <<>>
          /\ Persist(m, m.seg, IF m.seg # Blank THEN "emitter" ELSE "none")
          /\ UNCHANGED counters
    BY <1>4 DEF StoreAsStamped
  <2>2. RecordInv(Stored(m, m.seg, IF m.seg # Blank THEN "emitter" ELSE "none"))
    BY <1>0, <2>1, UnjoinedRecord
  <2>3. StoredInv'
    BY <1>0, <2>1, <2>2, PersistKeepsRecords
  <2>4. QED
    BY <1>1, <1>2, <2>1, <2>3 DEF counters
<1>5. CASE StoreUnposed
  <2>1. PICK m \in Message :
          /\ Receive(m) /\ m.frame = Blank
          /\ unposed' = unposed + 1 /\ UNCHANGED <<joined, mismatch>>
          /\ Persist(m, Blank, "none")
    BY <1>5 DEF StoreUnposed
  <2>2. RecordInv(Stored(m, Blank, "none"))
    BY <1>0, <2>1, UnjoinedRecord
  <2>3. StoredInv'
    BY <1>0, <2>1, <2>2, PersistKeepsRecords
  <2>4. QED
    BY <1>1, <1>2, <2>1, <2>3
<1>6. CASE StoreMismatched
  <2>1. PICK m \in Message :
          /\ Receive(m) /\ m.frame # seed.frame
          /\ mismatch' = mismatch + 1 /\ UNCHANGED <<joined, unposed>>
          /\ Persist(m, Blank, "none")
    BY <1>6 DEF StoreMismatched
  <2>2. RecordInv(Stored(m, Blank, "none"))
    BY <1>0, <2>1, UnjoinedRecord
  <2>3. StoredInv'
    BY <1>0, <2>1, <2>2, PersistKeepsRecords
  <2>4. QED
    BY <1>1, <1>2, <2>1, <2>3
<1>7. CASE StoreJoined
  <2>1. PICK m \in Message :
          /\ Receive(m) /\ m.frame # Blank /\ m.frame = seed.frame
          /\ LET near == SegmentForPoint(seed.segs, Finite(m.pos))
             IN  IF near = NoSegment
                 THEN Persist(m, Blank, "none") /\ joined' = joined
                 ELSE Persist(m, near.id, "join") /\ joined' = joined + 1
          /\ UNCHANGED <<unposed, mismatch>>
    BY <1>7 DEF StoreJoined
  <2>. DEFINE near == SegmentForPoint(seed.segs, Finite(m.pos))
  <2>2. IF near = NoSegment
        THEN m.pos # NaN => RecordInv(Stored(m, Blank, "none"))
        ELSE RecordInv(Stored(m, near.id, "join"))
    BY <1>0, <2>1, JoinedRecord
  <2>3. IF near = NoSegment
        THEN Persist(m, Blank, "none") /\ joined' = joined
        ELSE Persist(m, near.id, "join") /\ joined' = joined + 1
    BY <2>1
  <2>. HIDE DEF near
  <2>4. StoredInv'
    BY <1>0, <2>2, <2>3, PersistKeepsRecords
  <2>5. joined' \in Nat /\ unposed' \in Nat /\ mismatch' \in Nat
    BY <1>2, <2>1, <2>3
  <2>6. QED
    BY <1>1, <2>1, <2>4, <2>5
<1>8. QED
  BY <1>3, <1>4, <1>5, <1>6, <1>7 DEF OnEvent

\* A start leaves the log alone, and puts a seed in force.
LEMMA StartsKeepRecords ==
  ASSUME BindingInv, NEW newState \in {"up", "died"}, NEW newSeed,
         newSeed.segs \in Seq(SeedSegment), Distinct(newSeed.segs),
         Startup(newState, newSeed)
  PROVE  BindingInv'
<1>1. /\ state' = newState /\ seed' = newSeed
      /\ joined' = 0 /\ unposed' = 0 /\ mismatch' = 0
      /\ run < MaxRuns /\ run' = run + 1
      /\ UNCHANGED <<inbox, stored, sent>>
  BY DEF Startup
<1>2. NodeInv'
  BY <1>1, NodeAssumption DEF BindingInv, NodeInv
<1>3. QueueInv' /\ SeedInv' /\ StoredInv'
  BY <1>1 DEF BindingInv, QueueInv, SeedInv, StoredInv, RecordInv
<1>4. QED
  BY <1>2, <1>3 DEF BindingInv

\* Every behaviour keeps the inductive invariant.
THEOREM BindingInvariance == Spec => []BindingInv
<1>1. Init => BindingInv
  <2>1. SUFFICES ASSUME Init PROVE BindingInv
    OBVIOUS
  <2>2. NodeInv
    BY <2>1, NodeAssumption DEF Init, NodeInv
  <2>3. QueueInv
    <3>1. <<>> \in Seq(Message) /\ Len(<<>>) = 0
      BY EmptySeq
    <3>2. QED
      BY <2>1, <3>1, NodeAssumption DEF Init, QueueInv
  <2>4. SeedInv /\ StoredInv
    BY <2>1, NoSeedIsASeed DEF Init, SeedInv, StoredInv
  <2>5. QED
    BY <2>2, <2>3, <2>4 DEF BindingInv
<1>2. BindingInv /\ [Next]_vars => BindingInv'
  <2>1. SUFFICES ASSUME BindingInv, [Next]_vars PROVE BindingInv'
    OBVIOUS
  <2>2. CASE UNCHANGED vars
    BY <2>1, <2>2 DEF vars, counters, BindingInv, NodeInv, QueueInv, SeedInv, StoredInv, RecordInv
  <2>3. CASE StartWithoutSeed
    BY <2>1, <2>3, NoSeedIsASeed, StartsKeepRecords DEF StartWithoutSeed
  <2>4. ASSUME NEW f \in SeedFile, StartWithSeed(f)
        PROVE  BindingInv'
    <3>. DEFINE loaded == [segs |-> LoadSeed(f).segs, frame |-> LoadSeed(f).frame]
    <3>1. LoadSeed(f).outcome = "loaded" /\ Startup("up", loaded)
      BY <2>4 DEF StartWithSeed
    <3>2. loaded.segs \in Seq(SeedSegment) /\ Distinct(loaded.segs)
      BY <3>1, LoadedSegments
    <3>. HIDE DEF loaded
    <3>3. QED
      BY <2>1, <3>1, <3>2, StartsKeepRecords
  <2>5. ASSUME NEW f \in SeedFile, StartWithRejectedSeed(f) \/ DieOfSeed(f)
        PROVE  BindingInv'
    BY <2>1, <2>5, NoSeedIsASeed, StartsKeepRecords DEF StartWithRejectedSeed, DieOfSeed
  <2>6. CASE Stop
    <3>1. /\ state' = "down" /\ seed' = NoSeed
          /\ joined' = 0 /\ unposed' = 0 /\ mismatch' = 0
          /\ inbox' = <<>> /\ UNCHANGED <<stored, sent, run>>
      BY <2>6 DEF Stop
    <3>2. <<>> \in Seq(Message) /\ Len(<<>>) = 0
      BY EmptySeq
    <3>3. NodeInv' /\ StoredInv'
      BY <2>1, <3>1 DEF BindingInv, NodeInv, StoredInv, RecordInv
    <3>4. QueueInv'
      BY <2>1, <3>1, <3>2, NodeAssumption DEF BindingInv, QueueInv
    <3>5. SeedInv'
      BY <3>1, NoSeedIsASeed DEF SeedInv
    <3>6. QED
      BY <3>3, <3>4, <3>5 DEF BindingInv
  <2>7. ASSUME NEW m \in Message, Publish(m)
        PROVE  BindingInv'
    <3>1. /\ sent < MaxMessages /\ sent' = sent + 1
          /\ inbox' = KeepLast(inbox, m, Depth)
          /\ UNCHANGED <<state, seed, joined, unposed, mismatch, stored, run>>
      BY <2>7 DEF Publish, counters
    <3>2. NodeInv' /\ SeedInv' /\ StoredInv'
      BY <2>1, <3>1 DEF BindingInv, NodeInv, SeedInv, StoredInv, RecordInv
    <3>3. QueueInv'
      <4>1. inbox \in Seq(Message) /\ Len(inbox) <= Depth /\ Depth \in Nat \ {0}
        BY <2>1, NodeAssumption DEF BindingInv, QueueInv
      <4>2. inbox' \in Seq(Message) /\ Len(inbox') <= Depth
        BY <3>1, <4>1, KeepLastShifts
      <4>3. sent' \in 0..MaxMessages
        BY <2>1, <3>1, NodeAssumption DEF BindingInv, QueueInv
      <4>4. QED
        BY <4>2, <4>3 DEF QueueInv
    <3>4. QED
      BY <3>2, <3>3 DEF BindingInv
  <2>8. CASE OnEvent
    BY <2>1, <2>8, OnEventBinds
  <2>9. QED
    BY <2>1, <2>2, <2>3, <2>4, <2>5, <2>6, <2>7, <2>8 DEF Next
<1>3. QED
  BY <1>1, <1>2, PTL DEF Spec

\* Types: the seed in force has no id twice, the queue is within its depth, and
\* a record is bound to a known segment or to none.
THEOREM TypeCorrect == Spec => []TypeOK
<1>1. BindingInv => TypeOK
  <2>1. SUFFICES ASSUME BindingInv PROVE TypeOK
    OBVIOUS
  <2>2. NodeInv /\ QueueInv /\ SeedInv /\ StoredInv
    BY <2>1 DEF BindingInv
  <2>3. \A n \in DOMAIN seed.segs : seed.segs[n].id \in SegId
    BY <2>2, PlacedSegments DEF SeedInv, SegmentType
  <2>4. \A i \in DOMAIN stored : stored[i] # None =>
          stored[i].seg \in SegId \cup {Blank} /\ stored[i].by \in {"join", "emitter", "none"}
    BY <2>2 DEF StoredInv, RecordInv
  <2>5. QED
    BY <2>2, <2>3, <2>4 DEF TypeOK, NodeInv, QueueInv, SeedInv, Distinct, StoredInv
<1>2. QED
  BY <1>1, BindingInvariance, PTL

\* Every record is bound as it must be.
LEMMA RecordsAreBound ==
  ASSUME BindingInv, NEW r \in Records
  PROVE  RecordInv(r)
BY DEF BindingInv, StoredInv, Records

\* The holes in the map are honest: a node with segments leaves an event unbound
\* only if it has no frame, that of another map, or a coordinate that is infinite.
THEOREM HolesAreHonest == Spec => []UnboundForCause
<1>1. BindingInv => UnboundForCause
  BY RecordsAreBound DEF UnboundForCause, RecordInv
<1>2. QED
  BY <1>1, BindingInvariance, PTL

\* A join is in the frame of the seed that was in force, of an event that has a
\* place, and no point of any segment of that seed is nearer than some point of
\* the segment it names: for any seeds, messages, restarts and failures.
THEOREM JoinsNearest == Spec => []JoinsAreNearest
<1>1. ASSUME BindingInv, NEW r \in Records, r.by = "join"
      PROVE  /\ r.frame = r.seed.frame /\ r.frame # Blank
             /\ r.pos \notin {NaN, Infinite}
             /\ \E n \in DOMAIN r.seed.segs :
                  /\ r.seed.segs[n].id = r.seg
                  /\ IsNearest(r.seed.segs, r.pos, r.seed.segs[n], Grid)
  <2>. DEFINE segs == r.seed.segs
  <2>1. /\ segs \in Seq(SeedSegment)
        /\ r.frame = r.seed.frame /\ r.frame # Blank
        /\ r.pos \in Plane
        /\ \E n \in Placed(segs) :
             /\ segs[n].id = r.seg
             /\ \A m \in Placed(segs) :
                  ~Closer(DistanceSq(r.pos, segs[m]), DistanceSq(r.pos, segs[n]))
    BY <1>1, RecordsAreBound DEF RecordInv
  <2>. HIDE DEF segs
  <2>2. PICK n \in Placed(segs) :
          /\ segs[n].id = r.seg
          /\ \A m \in Placed(segs) :
               ~Closer(DistanceSq(r.pos, segs[m]), DistanceSq(r.pos, segs[n]))
    BY <2>1
  <2>3. \A m \in Placed(segs) : segs[m].start \in Plane /\ segs[m].end \in Plane
    BY <2>1, PlacedSegments
  <2>4. GridFits(segs[n], Grid) /\ Grid \in Nat \ {0}
    BY <2>1, PlacedSegments, NodeAssumption
  <2>5. PICK k \in 0..Grid : \A u :
          u.start \in Plane /\ u.end \in Plane =>
            (~Closer(DistanceSq(r.pos, u), DistanceSq(r.pos, segs[n])) =>
               \A j \in 0..Grid : GridSq(r.pos, segs[n], k, Grid) <= GridSq(r.pos, u, j, Grid))
    BY <2>1, <2>3, <2>4, NearestOnGrid
  <2>6. \A m \in Placed(segs) : \A j \in 0..Grid :
          GridSq(r.pos, segs[n], k, Grid) <= GridSq(r.pos, segs[m], j, Grid)
    BY <2>2, <2>3, <2>5
  <2>7. Comparable(segs, r.pos) \subseteq Placed(segs)
    BY DEF Comparable
  <2>8. IsNearest(segs, r.pos, segs[n], Grid)
    BY <2>6, <2>7 DEF IsNearest
  <2>9. r.pos \notin {NaN, Infinite}
    BY <2>1, MessageAssumption
  <2>10. n \in DOMAIN segs
    BY DEF Placed
  <2>11. QED
    BY <2>1, <2>2, <2>8, <2>9, <2>10 DEF segs
<1>2. BindingInv => JoinsAreNearest
  BY <1>1 DEF JoinsAreNearest
<1>3. QED
  BY <1>2, BindingInvariance, PTL

-----------------------------------------------------------------------------
(* The counter of the joins.                                               *)

\* The ids under which the log holds joins of this run.
JoinedNow == {i \in DOMAIN stored : /\ stored[i] # None
                                    /\ stored[i].by = "join"
                                    /\ stored[i].run = run}

\* The counters of a node that is not up are 0, and no record is of a run to
\* come; so a run starts with a counter of 0 and without joins.
CountIInv ==
  /\ joined \in Nat /\ run \in Nat
  /\ DOMAIN stored = EventId \cup FreshId
  /\ \A i \in DOMAIN stored : stored[i] # None => stored[i].run \in 0..run
  /\ state = "up" => Cardinality(JoinedNow) <= joined

\* The ids of the log are finitely many.
LEMMA JoinsAreFinite ==
  ASSUME CountIInv
  PROVE  IsFiniteSet(JoinedNow) /\ Cardinality(JoinedNow) \in Nat
<1>1. IsFiniteSet(EventId \cup FreshId)
  BY FS_Union, IdsAreFinite
<1>2. JoinedNow \subseteq EventId \cup FreshId
  BY DEF CountIInv, JoinedNow
<1>3. QED
  BY <1>1, <1>2, FS_Subset, FS_CardinalityType

\* A step that records nothing, in the same run, and does not count down.
LEMMA QuietStepsCover ==
  ASSUME CountIInv, UNCHANGED <<stored, run>>,
         joined' \in Nat, joined <= joined', state = "up"
  PROVE  CountIInv'
<1>1. JoinedNow' = JoinedNow
  BY DEF JoinedNow
<1>2. Cardinality(JoinedNow) \in Nat
  BY JoinsAreFinite
<1>3. Cardinality(JoinedNow)' <= joined'
  BY <1>1, <1>2 DEF CountIInv
<1>4. QED
  BY <1>3 DEF CountIInv

\* A start: the log holds no join of the run that begins.
LEMMA StartsCover ==
  ASSUME CountIInv, NEW newState, NEW newSeed, Startup(newState, newSeed)
  PROVE  CountIInv'
<1>1. stored' = stored /\ run' = run + 1 /\ joined' = 0
  BY DEF Startup
<1>2. JoinedNow' = {}
  BY <1>1 DEF JoinedNow, CountIInv
<1>3. Cardinality(JoinedNow)' = 0
  BY <1>2, FS_EmptySet
<1>4. \A i \in DOMAIN stored' : stored'[i] # None => stored'[i].run \in 0..run'
  BY <1>1 DEF CountIInv
<1>5. QED
  BY <1>1, <1>3, <1>4 DEF CountIInv

\* What record_event leaves in the log.
LEMMA PersistRecordsOne ==
  ASSUME CountIInv, NEW m, NEW seg, NEW binding, Persist(m, seg, binding), run' = run
  PROVE  /\ DOMAIN stored' = DOMAIN stored
         /\ \A i \in DOMAIN stored' : stored'[i] # None => stored'[i].run \in 0..run'
         /\ JoinedNow' \subseteq JoinedNow \cup {AssignedId(m)}
         /\ binding # "join" => JoinedNow' \subseteq JoinedNow
<1>1. CASE UNCHANGED stored
  BY <1>1 DEF JoinedNow, CountIInv
<1>2. CASE stored' = [stored EXCEPT ![AssignedId(m)] = Stored(m, seg, binding)]
  <2> DEFINE id == AssignedId(m)
             new == Stored(m, seg, binding)
  <2>1. new.run = run /\ new.by = binding
    BY DEF Stored
  <2> HIDE DEF id, new
  <2>2. /\ DOMAIN stored' = DOMAIN stored
        /\ \A i \in DOMAIN stored : stored'[i] = IF i = id THEN new ELSE stored[i]
    BY <1>2 DEF id, new, CountIInv
  <2>3. run \in 0..run
    BY DEF CountIInv
  <2>4. \A i \in DOMAIN stored' : stored'[i] # None => stored'[i].run \in 0..run'
    BY <2>1, <2>2, <2>3 DEF CountIInv
  <2>5. \A i \in JoinedNow' : i = id \/ i \in JoinedNow
    BY <2>2 DEF JoinedNow
  <2>6. binding # "join" => id \notin JoinedNow'
    BY <2>1, <2>2 DEF JoinedNow
  <2>7. QED
    BY <2>2, <2>4, <2>5, <2>6 DEF id
<1>3. QED
  BY <1>1, <1>2 DEF Persist

\* A record that is no join.
LEMMA UnjoinedRecordsCover ==
  ASSUME CountIInv, NEW m, NEW seg, NEW binding, Persist(m, seg, binding),
         binding # "join", run' = run, joined' = joined, state = "up"
  PROVE  CountIInv'
<1>1. JoinedNow' \subseteq JoinedNow
  BY PersistRecordsOne
<1>2. /\ IsFiniteSet(JoinedNow)
      /\ Cardinality(JoinedNow) \in Nat
  BY JoinsAreFinite
<1>3. /\ Cardinality(JoinedNow') \in Nat
      /\ Cardinality(JoinedNow') <= Cardinality(JoinedNow)
  BY <1>1, <1>2, FS_Subset, FS_CardinalityType
<1>4. Cardinality(JoinedNow)' <= joined'
  BY <1>2, <1>3 DEF CountIInv
<1>5. QED
  BY <1>4, PersistRecordsOne DEF CountIInv

\* A join is counted before it is recorded.
LEMMA JoinedRecordsCover ==
  ASSUME CountIInv, NEW m, NEW seg, Persist(m, seg, "join"),
         run' = run, joined' = joined + 1, state = "up"
  PROVE  CountIInv'
<1> DEFINE wider == JoinedNow \cup {AssignedId(m)}
<1>1. JoinedNow' \subseteq wider
  BY PersistRecordsOne
<1>2. /\ IsFiniteSet(JoinedNow)
      /\ Cardinality(JoinedNow) \in Nat
  BY JoinsAreFinite
<1>3. /\ IsFiniteSet(wider)
      /\ Cardinality(wider) \in Nat
      /\ Cardinality(wider) <= Cardinality(JoinedNow) + 1
  <2>1. /\ IsFiniteSet(wider)
        /\ Cardinality(wider) =
             IF AssignedId(m) \in JoinedNow THEN Cardinality(JoinedNow)
             ELSE Cardinality(JoinedNow) + 1
    BY <1>2, FS_AddElement
  <2>2. QED
    BY <1>2, <2>1
<1> HIDE DEF wider
<1>4. /\ Cardinality(JoinedNow') \in Nat
      /\ Cardinality(JoinedNow') <= Cardinality(wider)
  BY <1>1, <1>3, FS_Subset, FS_CardinalityType
<1>5. joined \in Nat /\ Cardinality(JoinedNow) <= joined
  BY DEF CountIInv
<1>6. joined' \in Nat /\ Cardinality(JoinedNow)' <= joined'
  BY <1>2, <1>3, <1>4, <1>5
<1>7. QED
  BY <1>6, PersistRecordsOne DEF CountIInv

\* The callback.
LEMMA OnEventCovers ==
  ASSUME CountIInv, OnEvent
  PROVE  CountIInv'
<1>1. ASSUME NEW m \in Message, Receive(m)
      PROVE  state = "up" /\ run' = run
  BY <1>1 DEF Receive
<1>2. CASE DropMalformed
  <2>1. state = "up" /\ UNCHANGED <<stored, run, joined>>
    BY <1>1, <1>2 DEF DropMalformed, counters
  <2>2. QED
    BY <2>1, QuietStepsCover DEF CountIInv
<1>3. CASE StoreAsStamped
  <2>1. PICK m \in Message :
          /\ Receive(m)
          /\ Persist(m, m.seg, IF m.seg # Blank THEN "emitter" ELSE "none")
          /\ UNCHANGED counters
    BY <1>3 DEF StoreAsStamped
  <2>2. joined' = joined
    BY <2>1 DEF counters
  <2>3. (IF m.seg # Blank THEN "emitter" ELSE "none") # "join"
    OBVIOUS
  <2>4. QED
    BY <1>1, <2>1, <2>2, <2>3, UnjoinedRecordsCover
<1>4. CASE StoreUnposed
  <2>1. PICK m \in Message :
          Receive(m) /\ Persist(m, Blank, "none") /\ joined' = joined
    BY <1>4 DEF StoreUnposed
  <2>2. QED
    BY <1>1, <2>1, UnjoinedRecordsCover
<1>5. CASE StoreMismatched
  <2>1. PICK m \in Message :
          Receive(m) /\ Persist(m, Blank, "none") /\ joined' = joined
    BY <1>5 DEF StoreMismatched
  <2>2. QED
    BY <1>1, <2>1, UnjoinedRecordsCover
<1>6. CASE StoreJoined
  <2>1. PICK m \in Message :
          /\ Receive(m)
          /\ \/ Persist(m, Blank, "none") /\ joined' = joined
             \/ /\ Persist(m, SegmentForPoint(seed.segs, Finite(m.pos)).id, "join")
                /\ joined' = joined + 1
    BY <1>6 DEF StoreJoined
  <2>2. QED
    BY <1>1, <2>1, UnjoinedRecordsCover, JoinedRecordsCover
<1>7. QED
  BY <1>2, <1>3, <1>4, <1>5, <1>6 DEF OnEvent

\* joined_event_count covers the joins of the run, for any number of ids,
\* messages and restarts: through records that fail, ids that are recorded
\* again and queues that overflow.
THEOREM CounterCoversJoins == Spec => []JoinedCountCovers
<1>1. Init => CountIInv
  BY DEF Init, CountIInv
<1>2. CountIInv /\ [Next]_vars => CountIInv'
  <2> SUFFICES ASSUME CountIInv, [Next]_vars PROVE CountIInv'
    OBVIOUS
  <2>1. CASE UNCHANGED vars
    <3>1. UNCHANGED <<state, stored, run, joined>>
      BY <2>1 DEF vars, counters
    <3>2. QED
      BY <3>1 DEF CountIInv, JoinedNow
  <2>2. CASE StartWithoutSeed
    BY <2>2, StartsCover DEF StartWithoutSeed
  <2>3. ASSUME NEW f \in SeedFile,
               StartWithSeed(f) \/ StartWithRejectedSeed(f) \/ DieOfSeed(f)
        PROVE  CountIInv'
    BY <2>3, StartsCover DEF StartWithSeed, StartWithRejectedSeed, DieOfSeed
  <2>4. CASE Stop
    <3>1. state' = "down" /\ joined' = 0 /\ UNCHANGED <<stored, run>>
      BY <2>4 DEF Stop
    <3>2. QED
      BY <3>1 DEF CountIInv
  <2>5. ASSUME NEW m \in Message, Publish(m)
        PROVE  CountIInv'
    <3>1. state = "up" /\ UNCHANGED <<stored, run, joined>>
      BY <2>5 DEF Publish, counters
    <3>2. QED
      BY <3>1, QuietStepsCover DEF CountIInv
  <2>6. CASE OnEvent
    BY <2>6, OnEventCovers
  <2>7. QED
    BY <2>1, <2>2, <2>3, <2>4, <2>5, <2>6 DEF Next
<1>3. CountIInv => JoinedCountCovers
  BY DEF CountIInv, JoinedCountCovers, JoinedNow
<1>4. QED
  BY <1>1, <1>2, <1>3, PTL DEF Spec
=============================================================================
