----------------------------- MODULE MemoryNode -----------------------------
(***************************************************************************)
(* The memory node of riskgraph_memory: it loads the segment seed when it  *)
(* starts, takes RiskEvents from a RELIABLE KEEP_LAST queue, binds those   *)
(* that no emitter stamped with a segment to the nearest seeded one, and   *)
(* records each in the store.                                              *)
(*                                                                         *)
(* The store is what RiskLog promises: record_event takes effect or        *)
(* raises.  It outlives the node, the counters do not, and the operator    *)
(* may have edited the seed between two runs.  Queries do not change       *)
(* anything and are not part of this module.                               *)
(***************************************************************************)
EXTENDS SegmentSeed, Topic

CONSTANTS
  Message,       \* RiskEvents that may arrive: [good, id, seg, frame, pos, ts]
  SeedFile,      \* what the seed path may lead to
  EventId,       \* ids that emitters assign
  FreshId,       \* ids that uuid4 may return
  SegId,         \* segment ids
  Blank,         \* a blank event_id, segment_id or frame_id
  NaN,           \* a position with a NaN
  Infinite,      \* a position with an infinity and no NaN
  None,          \* nothing is recorded under an id
  Grid,          \* see IsNearest
  Depth,         \* KEEP_LAST depth of the subscription
  MaxMessages,   \* bound: messages in all
  MaxRuns        \* bound: times the node is started

ASSUME NodeAssumption ==
  /\ Depth \in Nat \ {0}
  /\ MaxMessages \in Nat /\ MaxRuns \in Nat /\ Grid \in Nat \ {0}
  /\ EventId \cap FreshId = {} /\ Blank \notin EventId \cup FreshId \cup SegId

\* Segments as parse_segment_seed makes them: coordinates are any floats.
SegmentType == [id : SegId, start : Plane \cup {NotFinite}, end : Plane \cup {NotFinite}]

\* The segments that the seed files hold.
SeedSegment ==
  UNION {{f.doc.entries[n].seg : n \in DOMAIN f.doc.entries} : f \in SeedFile}

ASSUME SeedAssumption ==
  /\ NotFinite \notin Plane /\ NoSegment \notin SegmentType
  /\ \A f \in SeedFile :
       /\ f.is \in {"absent", "unreadable", "malformed", "no_yaml", "not_utf8",
                   "blank", "decoded"}
       /\ f.doc.entries \in Seq([is : {"good", "bad", "overflow"}, seg : SegmentType])

\* What IsNearest needs to be exact.
ASSUME GridAssumption ==
  \A s \in SeedSegment : NotFinite \notin {s.start, s.end} => GridFits(s, Grid)

ASSUME MessageAssumption ==
  /\ NaN \notin Plane /\ Infinite \notin Plane
  /\ \A m \in Message :
       m.seg \in SegId \cup {Blank} /\ m.pos \in Plane \cup {NaN, Infinite}

\* A log has room for finitely many events.
ASSUME IdsAreFinite == IsFiniteSet(EventId) /\ IsFiniteSet(FreshId)

VARIABLES
  state,     \* "down", "up", or "died" of the seed
  seed,      \* _segment_seed: its segments and its frame
  joined, unposed, mismatch,  \* the join counters
  inbox,     \* messages that wait for _on_event
  stored,    \* the event under each id, with what it was bound by
  sent,      \* messages so far
  run        \* starts so far

counters == <<joined, unposed, mismatch>>
vars == <<state, seed, counters, inbox, stored, sent, run>>

NoSeed == [segs |-> <<>>, frame |-> DefaultFrame]

\* An event as it is stored; "by" is history: the join or the emitter, in
\* which run, under which seed.
Stored(m, seg, binding) ==
  [frame |-> m.frame, pos |-> m.pos, ts |-> m.ts, seg |-> seg,
   by |-> binding, run |-> run, seed |-> seed]

TypeOK ==
  /\ state \in {"down", "up", "died"}
  /\ \A n \in DOMAIN seed.segs : seed.segs[n].id \in SegId
  /\ \A n, k \in DOMAIN seed.segs : seed.segs[n].id = seed.segs[k].id => n = k
  /\ joined \in Nat /\ unposed \in Nat /\ mismatch \in Nat
  /\ inbox \in Seq(Message) /\ Len(inbox) <= Depth
  /\ DOMAIN stored = EventId \cup FreshId
  /\ \A i \in DOMAIN stored : stored[i] # None =>
       stored[i].seg \in SegId \cup {Blank} /\ stored[i].by \in {"join", "emitter", "none"}
  /\ sent \in 0..MaxMessages /\ run \in 0..MaxRuns

Init ==
  /\ state = "down"
  /\ seed = NoSeed
  /\ joined = 0 /\ unposed = 0 /\ mismatch = 0
  /\ inbox = <<>>
  /\ stored = [i \in EventId \cup FreshId |-> None]
  /\ sent = 0 /\ run = 0

-----------------------------------------------------------------------------
(* Starting and stopping.                                                  *)

Startup(newState, newSeed) ==
  /\ state # "up"
  /\ run < MaxRuns
  /\ state' = newState
  /\ seed' = newSeed
  /\ joined' = 0 /\ unposed' = 0 /\ mismatch' = 0
  /\ run' = run + 1
  /\ UNCHANGED <<inbox, stored, sent>>

StartWithoutSeed == Startup("up", NoSeed)

StartWithSeed(file) ==
  LET load == LoadSeed(file)
  IN  /\ load.outcome = "loaded"
      /\ Startup("up", [segs |-> load.segs, frame |-> load.frame])

\* SegmentSeedError is logged, and the node runs without segments.
StartWithRejectedSeed(file) ==
  /\ Startup("up", NoSeed)
  /\ LoadSeed(file).outcome = "rejected"

\* Any other exception leaves __init__ and ends the process.
DieOfSeed(file) ==
  /\ Startup("died", NoSeed)
  /\ LoadSeed(file).outcome = "escapes"

Stop ==
  /\ state = "up"
  /\ state' = "down"
  /\ seed' = NoSeed
  /\ joined' = 0 /\ unposed' = 0 /\ mismatch' = 0
  /\ inbox' = <<>>
  /\ UNCHANGED <<stored, sent, run>>

-----------------------------------------------------------------------------
(* Events.                                                                 *)

Publish(m) ==
  /\ state = "up"
  /\ sent < MaxMessages
  /\ sent' = sent + 1
  /\ inbox' = KeepLast(inbox, m, Depth)
  /\ UNCHANGED <<state, seed, counters, stored, run>>

Receive(m) ==
  /\ state = "up"
  /\ inbox # <<>>
  /\ m = Head(inbox)
  /\ inbox' = Tail(inbox)
  /\ UNCHANGED <<state, seed, sent, run>>

\* core_event_from_msg raises: no factors.
DropMalformed ==
  \E m \in Message :
    /\ Receive(m)
    /\ ~m.good
    /\ UNCHANGED <<counters, stored>>

\* A blank event_id gets one that nobody has.
AssignedId(m) ==
  IF m.id # Blank THEN m.id
  ELSE CHOOSE i \in FreshId : stored[i] = None

Finite(pos) == IF pos \in {NaN, Infinite} THEN NotFinite ELSE pos

\* A NaN would be NULL in a column that is NOT NULL; any record may fail.
Persist(m, seg, binding) ==
  \/ /\ m.pos # NaN
     /\ stored' = [stored EXCEPT ![AssignedId(m)] = Stored(m, seg, binding)]
  \/ UNCHANGED stored

\* The emitter stamped a segment, or there are none to join to.
StoreAsStamped ==
  \E m \in Message :
    /\ Receive(m)
    /\ m.good
    /\ m.seg # Blank \/ seed.segs = <<>>
    /\ Persist(m, m.seg, IF m.seg # Blank THEN "emitter" ELSE "none")
    /\ UNCHANGED counters

NeedsJoin(m) == m.good /\ m.seg = Blank /\ seed.segs # <<>>

StoreUnposed ==
  \E m \in Message :
    /\ Receive(m)
    /\ NeedsJoin(m)
    /\ m.frame = Blank
    /\ unposed' = unposed + 1
    /\ Persist(m, Blank, "none")
    /\ UNCHANGED <<joined, mismatch>>

StoreMismatched ==
  \E m \in Message :
    /\ Receive(m)
    /\ NeedsJoin(m)
    /\ m.frame # Blank /\ m.frame # seed.frame
    /\ mismatch' = mismatch + 1
    /\ Persist(m, Blank, "none")
    /\ UNCHANGED <<joined, unposed>>

\* Mutant: frames are not compared.
StoreJoinedAcrossFrames ==
  \E m \in Message :
    /\ Receive(m)
    /\ NeedsJoin(m)
    /\ m.frame # Blank
    /\ LET near == SegmentForPoint(seed.segs, Finite(m.pos))
       IN  /\ near # NoSegment
           /\ Persist(m, near.id, "join")
           /\ joined' = joined + 1
    /\ UNCHANGED <<unposed, mismatch>>

\* Mutant: the segment found is not written to the event.
StoreJoinedUnbound ==
  \E m \in Message :
    /\ Receive(m)
    /\ NeedsJoin(m)
    /\ m.frame # Blank /\ m.frame = seed.frame
    /\ Persist(m, Blank, "none")
    /\ joined' = joined + 1
    /\ UNCHANGED <<unposed, mismatch>>

\* Mutant: joins are not counted.
StoreJoinedUncounted ==
  \E m \in Message :
    /\ Receive(m)
    /\ NeedsJoin(m)
    /\ m.frame # Blank /\ m.frame = seed.frame
    /\ LET near == SegmentForPoint(seed.segs, Finite(m.pos))
       IN  IF near = NoSegment
           THEN Persist(m, Blank, "none")
           ELSE Persist(m, near.id, "join")
    /\ UNCHANGED counters

StoreJoined ==
  \E m \in Message :
    /\ Receive(m)
    /\ NeedsJoin(m)
    /\ m.frame # Blank /\ m.frame = seed.frame
    /\ LET near == SegmentForPoint(seed.segs, Finite(m.pos))
       IN  IF near = NoSegment
           THEN /\ Persist(m, Blank, "none")
                /\ UNCHANGED joined
           ELSE /\ Persist(m, near.id, "join")
                /\ joined' = joined + 1
    /\ UNCHANGED <<unposed, mismatch>>

OnEvent ==
  DropMalformed \/ StoreAsStamped \/ StoreUnposed \/ StoreMismatched \/ StoreJoined

Next ==
  \/ StartWithoutSeed
  \/ \E f \in SeedFile : StartWithSeed(f) \/ StartWithRejectedSeed(f) \/ DieOfSeed(f)
  \/ Stop
  \/ \E m \in Message : Publish(m)
  \/ OnEvent

Spec == Init /\ [][Next]_vars

-----------------------------------------------------------------------------
(* Safety.                                                                 *)

Records == {stored[i] : i \in {j \in DOMAIN stored : stored[j] # None}}

\* A join never crosses frames, never uses a position that was not measured,
\* and never picks a segment when another one of the seed that was in force
\* is nearer: whatever was loaded before or since.
JoinsAreNearest ==
  \A r \in Records : r.by = "join" =>
    /\ r.frame = r.seed.frame /\ r.frame # Blank
    /\ r.pos \notin {NaN, Infinite}
    /\ \E n \in DOMAIN r.seed.segs :
         /\ r.seed.segs[n].id = r.seg
         /\ IsNearest(r.seed.segs, r.pos, r.seed.segs[n], Grid)

\* The holes in the map are honest: an event is left unbound by a node with
\* segments only if it has no pose, or one that cannot be compared.
UnboundForCause ==
  \A r \in Records : r.seg = Blank /\ Placed(r.seed.segs) # {} =>
    r.frame = Blank \/ r.frame # r.seed.frame \/ r.pos = Infinite

\* joined_event_count never misses an event this run has bound: after a
\* restart, a failed record or a second record of an id it still bounds what
\* the log holds of the run's joins.
JoinedCountCovers ==
  state = "up" =>
    Cardinality({i \in DOMAIN stored : /\ stored[i] # None
                                       /\ stored[i].by = "join"
                                       /\ stored[i].run = run}) <= joined

-----------------------------------------------------------------------------
(* What the documents say and the code does not do.                        *)

\* "Seed misconfig is loud but non-fatal: the node still runs".
SeedIsNotFatal == state # "died"
=============================================================================
