-------------------------- MODULE RiskStoreProofs --------------------------
(***************************************************************************)
(* Proofs about RiskStore, for any connections, ids, segments, factors and *)
(* events.                                                                 *)
(***************************************************************************)
EXTENDS RiskStore, SequenceTheorems, TLAPS

\* The committed database is a database, and so are the copies a transaction
\* makes of it.
LEMMA DatabaseOps ==
  ASSUME NEW db \in Database, NEW e \in Event
  PROVE  /\ e.id \in Id /\ e.row \in Row /\ e.factors \in Seq(Factor)
         /\ e.factors # <<>>
         /\ ReplaceRow(db, e) \in Database
         /\ DeleteFactors(db, e) \in Database
         /\ Len(db.factors[e.id]) < Len(e.factors) =>
              InsertFactor(db, e) \in Database
<1>1. /\ e.id \in Id /\ e.row \in Row /\ e.factors \in Seq(Factor)
      /\ e.factors # <<>>
  BY EventAssumption
<1>2. /\ db.row \in [Id -> Row \cup {None}]
      /\ db.factors \in [Id -> Seq(Factor)]
      /\ db = [row |-> db.row, factors |-> db.factors]
  BY DEF Database
<1>3. ReplaceRow(db, e) \in Database
  BY <1>1, <1>2 DEF Database, ReplaceRow
<1>4. DeleteFactors(db, e) \in Database
  BY <1>1, <1>2, EmptySeq DEF Database, DeleteFactors, SetFactors
<1>5. ASSUME Len(db.factors[e.id]) < Len(e.factors)
      PROVE  InsertFactor(db, e) \in Database
  <2>1. e.factors[Len(db.factors[e.id]) + 1] \in Factor
    BY <1>1, <1>2, <1>5
  <2>2. Append(db.factors[e.id], e.factors[Len(db.factors[e.id]) + 1]) \in Seq(Factor)
    BY <1>1, <1>2, <2>1
  <2>3. QED
    BY <1>1, <1>2, <2>2 DEF Database, InsertFactor, SetFactors
<1>6. QED
  BY <1>1, <1>3, <1>4, <1>5

\* A store whose schema was just created is a database.
LEMMA EmptyIsDatabase == EmptyDatabase \in Database
BY DEF EmptyDatabase, Database

\* The row SELECT of events_for_segment returns typed rows.
LEMMA RowsOfType ==
  ASSUME NEW db \in Database, NEW s
  PROVE  RowsOf(db, s) \in SUBSET [id : Id, row : Row]
BY DEF RowsOf, Database

\* Completing a fetched row with its factors gives a typed event list.
LEMMA AssembleType ==
  ASSUME NEW db \in Database, NEW r \in [id : Id, row : Row],
         NEW events \in Seq([id : Id, row : Row, factors : Seq(Factor)])
  PROVE  Assemble(events, r, db.factors[r.id])
           \in Seq([id : Id, row : Row, factors : Seq(Factor)])
<1>1. [id |-> r.id, row |-> r.row, factors |-> db.factors[r.id]]
         \in [id : Id, row : Row, factors : Seq(Factor)]
  BY DEF Database
<1>2. QED
  BY <1>1, AppendProperties DEF Assemble

-----------------------------------------------------------------------------

\* Every reachable state has the types TypeOK gives.
THEOREM TypeCorrect == Spec => []TypeOK
<1>1. Init => TypeOK
  BY EmptyIsDatabase DEF Init, TypeOK, WritePc, ReadPc
<1>2. TypeOK /\ [Next]_vars => TypeOK'
  <2> SUFFICES ASSUME TypeOK, [Next]_vars
               PROVE  TypeOK'
    OBVIOUS
  <2> USE DEF TypeOK, WritePc, ReadPc, Goto, Leave
  <2>0. Committed \in Database
    BY DEF Committed
  <2>v. \A c \in Conn : Visible(c) \in Database
    BY <2>0 DEF Visible
  <2>t. ASSUME NEW c \in Conn, EndTransaction(c)
        PROVE  /\ lock' \in Conn \cup {None}
               /\ txn' \in Database
               /\ left' \in [Conn -> Id \cup {None}]
    BY <2>t, EmptyIsDatabase DEF EndTransaction
  <2>r. ASSUME NEW c \in Conn, out' = [out EXCEPT ![c] = <<>>],
               asOf' = [asOf EXCEPT ![c] = EmptyDatabase]
        PROVE  /\ out' \in [Conn -> Seq([id : Id, row : Row, factors : Seq(Factor)])]
               /\ asOf' \in [Conn -> Database]
    BY <2>r, EmptySeq, EmptyIsDatabase
  <2>1. ASSUME NEW c \in Conn, Open(c)  PROVE TypeOK'
    BY <2>1 DEF Open
  <2>2. ASSUME NEW c \in Conn, Close(c)  PROVE TypeOK'
    <3>1. hist' \in Seq(Database) /\ Len(hist') > 0
      BY <2>2 DEF Close
    <3>2. EndTransaction(c) /\ torn' \subseteq Id
      BY <2>2 DEF Close
    <3>3. QED
      BY <2>2, <2>t, <3>1, <3>2 DEF Close
  <2>3. ASSUME NEW c \in Conn, Crash(c)  PROVE TypeOK'
    <3>1. /\ out' \in [Conn -> Seq([id : Id, row : Row, factors : Seq(Factor)])]
          /\ asOf' \in [Conn -> Database]
          /\ EndTransaction(c)
      BY <2>3, <2>r DEF Crash
    <3>2. todo' \in [Conn -> SUBSET [id : Id, row : Row]]
      BY <2>3 DEF Crash
    <3>3. QED
      BY <2>3, <2>t, <3>1, <3>2 DEF Crash
  <2>4. ASSUME NEW c \in Conn, NEW e \in Event, RecordEvent(c, e)  PROVE TypeOK'
    BY <2>4 DEF RecordEvent
  <2>5. ASSUME NEW c \in Conn, NEW s \in Segment, EventsForSegment(c, s)  PROVE TypeOK'
    BY <2>5 DEF EventsForSegment
  <2>6. ASSUME NEW c \in Conn, BeginImmediate(c)  PROVE TypeOK'
    BY <2>6, <2>0 DEF BeginImmediate
  <2>7. ASSUME NEW c \in Conn, BeginRefused(c)  PROVE TypeOK'
    BY <2>7 DEF BeginRefused
  <2>8. ASSUME NEW c \in Conn, InsertOrReplaceRow(c)  PROVE TypeOK'
    BY <2>8, DatabaseOps DEF InsertOrReplaceRow
  <2>9. ASSUME NEW c \in Conn, DeleteOldFactors(c)  PROVE TypeOK'
    BY <2>9, DatabaseOps DEF DeleteOldFactors
  <2>10. ASSUME NEW c \in Conn, InsertNextFactor(c)  PROVE TypeOK'
    <3>1. op[c] \in Event
      BY <2>10 DEF InsertNextFactor
    <3>2. Len(txn.factors[op[c].id]) < Len(op[c].factors)
      BY <2>10, <3>1, DatabaseOps DEF InsertNextFactor, AllInserted, Database
    <3>3. QED
      BY <2>10, <3>1, <3>2, DatabaseOps DEF InsertNextFactor
  <2>11. ASSUME NEW c \in Conn, Commit(c)  PROVE TypeOK'
    <3>1. hist' \in Seq(Database) /\ Len(hist') > 0 /\ EndTransaction(c)
      BY <2>11 DEF Commit
    <3>2. QED
      BY <2>11, <2>t, <3>1 DEF Commit
  <2>12. ASSUME NEW c \in Conn, StatementFails(c)  PROVE TypeOK'
    BY <2>12 DEF StatementFails
  <2>13. ASSUME NEW c \in Conn, Rollback(c)  PROVE TypeOK'
    BY <2>13, <2>t DEF Rollback
  <2>14. ASSUME NEW c \in Conn, ReturnFromRecord(c)  PROVE TypeOK'
    BY <2>14 DEF ReturnFromRecord
  <2>15. ASSUME NEW c \in Conn, SelectRows(c)  PROVE TypeOK'
    <3>1. out' \in [Conn -> Seq([id : Id, row : Row, factors : Seq(Factor)])]
      BY <2>15, EmptySeq DEF SelectRows
    <3>2. todo' \in [Conn -> SUBSET [id : Id, row : Row]]
      BY <2>15, <2>v, RowsOfType DEF SelectRows
    <3>3. asOf' \in [Conn -> Database]
      BY <2>15, <2>v DEF SelectRows
    <3>4. QED
      BY <2>15, <3>1, <3>2, <3>3 DEF SelectRows
  <2>16. ASSUME NEW c \in Conn, NEW r \in todo[c], SelectFactors(c, r)  PROVE TypeOK'
    <3>1. Assemble(out[c], r, Visible(c).factors[r.id])
             \in Seq([id : Id, row : Row, factors : Seq(Factor)])
      BY <2>v, AssembleType
    <3>2. QED
      BY <2>16, <3>1 DEF SelectFactors
  <2>17. ASSUME NEW c \in Conn, RowsDone(c)  PROVE TypeOK'
    BY <2>17 DEF RowsDone
  <2>18. ASSUME NEW c \in Conn, ReturnEvents(c)  PROVE TypeOK'
    BY <2>18, <2>r DEF ReturnEvents
  <2>19. ASSUME NEW c \in Conn, Escape(c)  PROVE TypeOK'
    <3>1. left' \in [Conn -> Id \cup {None}]
      <4>1. pc[c] \in WritePc => op[c].id \in Id
        BY <2>19, DatabaseOps DEF Escape
      <4>2. QED
        BY <2>19, <4>1 DEF Escape
    <3>2. todo' \in [Conn -> SUBSET [id : Id, row : Row]]
      BY <2>19 DEF Escape
    <3>3. QED
      BY <2>19, <2>r, <3>1, <3>2 DEF Escape
  <2>20. ASSUME Checkpoint  PROVE TypeOK'
    <3>1. hist' \in Seq(Database) /\ Len(hist') > 0
      BY <2>20, <2>0 DEF Checkpoint
    <3>2. QED
      BY <2>20, <3>1 DEF Checkpoint
  <2>21. ASSUME PowerLoss  PROVE TypeOK'
    BY <2>21, EmptyIsDatabase DEF PowerLoss
  <2>22. CASE UNCHANGED vars
    BY <2>22 DEF vars
  <2>23. QED
    BY <2>1, <2>2, <2>3, <2>4, <2>5, <2>6, <2>7, <2>8, <2>9, <2>10, <2>11, <2>12,
       <2>13, <2>14, <2>15, <2>16, <2>17, <2>18, <2>19, <2>20, <2>21, <2>22
       DEF Next, WriteStep, ReadStep
<1>3. QED
  BY <1>1, <1>2, PTL DEF Spec

-----------------------------------------------------------------------------

\* Only the connection inside a transaction holds the write lock, or one whose
\* recording an exception broke off that store.py:94 does not catch; every
\* other path out of a transaction commits or rolls back.
THEOREM LockIsDisciplined == Spec => []LockDiscipline
<1>1. Init => LockDiscipline
  BY NoneAssumption DEF Init, LockDiscipline, InTransaction
<1>2. TypeOK /\ LockDiscipline /\ [Next]_vars => LockDiscipline'
  <2> SUFFICES ASSUME TypeOK, LockDiscipline, [Next]_vars
               PROVE  LockDiscipline'
    OBVIOUS
  <2>0. /\ pc \in [Conn -> {"down", "idle"} \cup WritePc \cup ReadPc]
        /\ left \in [Conn -> Id \cup {None}]
        /\ None \notin Conn /\ None \notin Id
        /\ \A c \in Conn : pc[c] \in WritePc => op[c].id \in Id
    BY NoneAssumption, DatabaseOps DEF TypeOK
  <2> USE <2>0 DEF LockDiscipline, InTransaction, Goto, Leave
  <2>1. ASSUME NEW c \in Conn, Open(c)  PROVE LockDiscipline'
    BY <2>1 DEF Open
  <2>2. ASSUME NEW c \in Conn, Close(c)  PROVE LockDiscipline'
    BY <2>2 DEF Close, EndTransaction
  <2>3. ASSUME NEW c \in Conn, Crash(c)  PROVE LockDiscipline'
    BY <2>3 DEF Crash, EndTransaction
  <2>4. ASSUME NEW c \in Conn, BeginImmediate(c)  PROVE LockDiscipline'
    BY <2>4 DEF BeginImmediate
  <2>5. ASSUME NEW c \in Conn, BeginRefused(c)  PROVE LockDiscipline'
    BY <2>5 DEF BeginRefused
  <2>6. ASSUME NEW c \in Conn, InsertOrReplaceRow(c)  PROVE LockDiscipline'
    BY <2>6 DEF InsertOrReplaceRow
  <2>7. ASSUME NEW c \in Conn, DeleteOldFactors(c)  PROVE LockDiscipline'
    BY <2>7 DEF DeleteOldFactors
  <2>8. ASSUME NEW c \in Conn, InsertNextFactor(c)  PROVE LockDiscipline'
    BY <2>8 DEF InsertNextFactor
  <2>9. ASSUME NEW c \in Conn, Commit(c)  PROVE LockDiscipline'
    BY <2>9 DEF Commit, EndTransaction
  <2>10. ASSUME NEW c \in Conn, StatementFails(c)  PROVE LockDiscipline'
    BY <2>10 DEF StatementFails
  <2>11. ASSUME NEW c \in Conn, Rollback(c)  PROVE LockDiscipline'
    BY <2>11 DEF Rollback, EndTransaction
  <2>12. ASSUME NEW c \in Conn, ReturnFromRecord(c)  PROVE LockDiscipline'
    BY <2>12 DEF ReturnFromRecord
  <2>13. ASSUME NEW c \in Conn, SelectRows(c)  PROVE LockDiscipline'
    BY <2>13 DEF SelectRows
  <2>14. ASSUME NEW c \in Conn, RowsDone(c)  PROVE LockDiscipline'
    BY <2>14 DEF RowsDone
  <2>15. ASSUME NEW c \in Conn, ReturnEvents(c)  PROVE LockDiscipline'
    BY <2>15 DEF ReturnEvents
  <2>16. ASSUME NEW c \in Conn, NEW e \in Event, RecordEvent(c, e)  PROVE LockDiscipline'
    BY <2>16 DEF RecordEvent
  <2>17. ASSUME NEW c \in Conn, NEW s \in Segment, EventsForSegment(c, s)
        PROVE LockDiscipline'
    BY <2>17 DEF EventsForSegment
  <2>18. ASSUME NEW c \in Conn, NEW r \in todo[c], SelectFactors(c, r)  PROVE LockDiscipline'
    BY <2>18 DEF SelectFactors
  <2>19. ASSUME NEW c \in Conn, Escape(c)  PROVE LockDiscipline'
    <3>1. /\ lock' = lock /\ pc' = [pc EXCEPT ![c] = "idle"]
          /\ left' = [left EXCEPT ![c] = IF lock = c /\ pc[c] \in WritePc /\ left[c] = None
                                         THEN op[c].id ELSE left[c]]
      BY <2>19 DEF Escape
    <3>2. lock = c => left'[c] # None
      BY <3>1 DEF WritePc
    <3>3. left[c] # None \/ lock # c => left' = left
      BY <3>1
    <3>4. QED
      BY <3>1, <3>2, <3>3
  <2>20. ASSUME Checkpoint  PROVE LockDiscipline'
    BY <2>20 DEF Checkpoint
  <2>21. ASSUME PowerLoss  PROVE LockDiscipline'
    BY <2>21 DEF PowerLoss
  <2>22. CASE UNCHANGED vars
    BY <2>22 DEF vars
  <2>23. QED
    BY <2>1, <2>2, <2>3, <2>4, <2>5, <2>6, <2>7, <2>8, <2>9, <2>10, <2>11, <2>12,
       <2>13, <2>14, <2>15, <2>16, <2>17, <2>18, <2>19, <2>20, <2>21, <2>22
       DEF Next, WriteStep, ReadStep
<1>3. QED
  BY <1>1, <1>2, TypeCorrect, PTL DEF Spec

-----------------------------------------------------------------------------

\* executemany inserts the next factor: a prefix of the list stays one.
LEMMA PrefixGrows ==
  ASSUME NEW S, NEW s \in Seq(S), NEW t \in Seq(S),
         IsPrefixOf(s, t), Len(s) < Len(t)
  PROVE  IsPrefixOf(Append(s, t[Len(s) + 1]), t)
<1>1. t[Len(s) + 1] \in S
  OBVIOUS
<1>2. QED
  BY <1>1, AppendProperties DEF IsPrefixOf

\* A prefix that is as long as the list is the list.
LEMMA PrefixFull ==
  ASSUME NEW S, NEW s \in Seq(S), NEW t \in Seq(S),
         IsPrefixOf(s, t), Len(s) >= Len(t)
  PROVE  s = t
BY SeqEqual DEF IsPrefixOf

\* A step of a transaction other than its end.
WritingStep(c) ==
  \/ BeginImmediate(c) \/ InsertOrReplaceRow(c) \/ DeleteOldFactors(c)
  \/ InsertNextFactor(c)

\* close() publishes what an abandoned recording has written.
ClosingStep(c) == Close(c) /\ lock = c

\* A step that neither writes inside a transaction nor publishes or discards
\* committed states; it may end a transaction, or abandon one as it stands.
Quiet ==
  /\ hist' = hist /\ torn' = torn
  /\ lock' # lock => lock' = None /\ \A c \in Conn : lock = c => pc'[c] \in {"idle", "down"}
  /\ \A d \in Conn : lock' = d =>
       /\ lock = d /\ txn' = txn
       /\ InTransaction(d)' => /\ InTransaction(d)
                               /\ pc'[d] = pc[d] /\ op'[d] = op[d]
       /\ ~InTransaction(d)' => WrittenId(d)' = WrittenId(d)

\* Every step writes inside a transaction, commits one, closes on an abandoned
\* one, is quiet about the database, or is a checkpoint or a power loss.
LEMMA StepKinds ==
  ASSUME TypeOK, LockDiscipline, [Next]_vars
  PROVE  \/ \E c \in Conn : WritingStep(c) \/ Commit(c) \/ ClosingStep(c)
         \/ Quiet \/ Checkpoint \/ PowerLoss
<1>0. /\ pc \in [Conn -> {"down", "idle"} \cup WritePc \cup ReadPc]
      /\ op \in [Conn -> Event \cup Segment \cup {None}]
      /\ left \in [Conn -> Id \cup {None}]
      /\ None \notin Conn /\ None \notin Id
      /\ \A c \in Conn : pc[c] \in WritePc => op[c].id \in Id
  BY NoneAssumption, DatabaseOps DEF TypeOK
<1> USE <1>0 DEF Quiet, InTransaction, WrittenId, Goto, Leave, LockDiscipline
<1>1. ASSUME NEW c \in Conn, Close(c), lock # c  PROVE Quiet
  BY <1>1 DEF Close, EndTransaction
<1>2. ASSUME NEW c \in Conn, NEW e \in Event, RecordEvent(c, e)  PROVE Quiet
  BY <1>2 DEF RecordEvent
<1>3. ASSUME NEW c \in Conn, NEW s \in Segment, EventsForSegment(c, s)  PROVE Quiet
  BY <1>3 DEF EventsForSegment
<1>4. ASSUME NEW c \in Conn, NEW r \in todo[c], SelectFactors(c, r)  PROVE Quiet
  BY <1>4 DEF SelectFactors
<1>5. CASE UNCHANGED vars
  BY <1>5 DEF vars
<1>6. ASSUME NEW c \in Conn, Open(c)  PROVE Quiet
  BY <1>6 DEF Open
<1>7. ASSUME NEW c \in Conn, Crash(c)  PROVE Quiet
  BY <1>7 DEF Crash, EndTransaction
<1>8. ASSUME NEW c \in Conn, BeginRefused(c)  PROVE Quiet
  BY <1>8 DEF BeginRefused
<1>9. ASSUME NEW c \in Conn, StatementFails(c)  PROVE Quiet
  BY <1>9 DEF StatementFails
<1>10. ASSUME NEW c \in Conn, Rollback(c)  PROVE Quiet
  BY <1>10 DEF Rollback, EndTransaction
<1>11. ASSUME NEW c \in Conn, ReturnFromRecord(c)  PROVE Quiet
  BY <1>11 DEF ReturnFromRecord
<1>12. ASSUME NEW c \in Conn, SelectRows(c)  PROVE Quiet
  BY <1>12 DEF SelectRows
<1>13. ASSUME NEW c \in Conn, RowsDone(c)  PROVE Quiet
  BY <1>13 DEF RowsDone
<1>14. ASSUME NEW c \in Conn, ReturnEvents(c)  PROVE Quiet
  BY <1>14 DEF ReturnEvents
<1>15. ASSUME NEW c \in Conn, Escape(c)  PROVE Quiet
  <2>1. /\ hist' = hist /\ torn' = torn /\ lock' = lock /\ txn' = txn
        /\ pc' = [pc EXCEPT ![c] = "idle"] /\ op' = [op EXCEPT ![c] = None]
        /\ left' = [left EXCEPT ![c] = IF lock = c /\ pc[c] \in WritePc /\ left[c] = None
                                       THEN op[c].id ELSE left[c]]
    BY <1>15 DEF Escape
  <2>2. lock = c => WrittenId(c)' = WrittenId(c)
    <3>1. CASE left[c] = None
      BY <2>1, <3>1 DEF WritePc
    <3>2. CASE left[c] # None
      BY <2>1, <3>2
    <3>3. QED
      BY <3>1, <3>2
  <2>3. ASSUME NEW d \in Conn, lock = d
        PROVE  /\ InTransaction(d)' => /\ InTransaction(d)
                                       /\ pc'[d] = pc[d] /\ op'[d] = op[d]
               /\ ~InTransaction(d)' => WrittenId(d)' = WrittenId(d)
    BY <2>1, <2>2, <2>3
  <2>4. QED
    BY <2>1, <2>3
<1>16. QED
  BY <1>1, <1>2, <1>3, <1>4, <1>5, <1>6, <1>7, <1>8, <1>9, <1>10, <1>11, <1>12, <1>13,
     <1>14, <1>15
     DEF Next, WriteStep, ReadStep, WritingStep, ClosingStep

\* What a transaction may leave under the id it writes when it is abandoned:
\* the event, nothing, or a part.
LEMMA IsolatedIsContained ==
  ASSUME TypeOK, NEW c \in Conn, InTransaction(c), left[c] = None,
         IsolatedFrom(c, Committed), HoldsEvents(Committed, torn)
  PROVE  Contained(c, Committed)
<1> DEFINE w == op[c].id
<1>1. /\ op[c] \in Event /\ w \in Id /\ op[c].row \in Row /\ op[c].row # None
      /\ op[c].factors \in Seq(Factor)
      /\ txn \in Database /\ Committed \in Database
      /\ pc[c] \in {"replace", "delete", "insert"}
  BY EventAssumption, NoneAssumption DEF TypeOK, InTransaction, WritePc, Committed
<1>2. WrittenId(c) = w
  BY DEF WrittenId
<1>3. HoldsEvent(txn, w) \/ HoldsPart(txn, w)
  <2>1. CASE pc[c] = "replace"
    <3>1. txn = Committed
      BY <2>1 DEF IsolatedFrom
    <3>2. QED
      BY <1>1, <3>1 DEF HoldsEvents
  <2>2. CASE pc[c] = "delete"
    <3>1. txn.row[w] = op[c].row /\ txn.factors[w] = Committed.factors[w]
      BY <2>2 DEF IsolatedFrom
    <3>2. \E f \in Event : f.id = w /\ IsPrefixOf(txn.factors[w], f.factors)
      <4>1. CASE Committed.factors[w] = <<>>
        BY <1>1, <3>1, <4>1 DEF IsPrefixOf
      <4>2. CASE [id |-> w, row |-> Committed.row[w], factors |-> Committed.factors[w]]
                   \in Event
        <5> DEFINE f == [id |-> w, row |-> Committed.row[w], factors |-> Committed.factors[w]]
        <5>1. f \in Event /\ f.id = w /\ f.factors = Committed.factors[w]
          BY <4>2
        <5>2. f.factors \in Seq(Factor)
          BY <5>1, EventAssumption
        <5> HIDE DEF f
        <5>3. IsPrefixOf(f.factors, f.factors)
          BY <5>2, LenProperties DEF IsPrefixOf
        <5>4. QED
          BY <3>1, <5>1, <5>3
      <4>3. CASE HoldsPart(Committed, w)
        BY <3>1, <4>3 DEF HoldsPart
      <4>4. QED
        BY <1>1, <4>1, <4>2, <4>3 DEF HoldsEvents, HoldsEvent
    <3>3. QED
      BY <1>1, <3>1, <3>2 DEF HoldsPart
  <2>3. CASE pc[c] = "insert"
    BY <1>1, <2>3 DEF IsolatedFrom, HoldsPart
  <2>4. QED
    BY <1>1, <2>1, <2>2, <2>3
<1>4. txn.row[w] # None \/ txn = Committed
  BY <1>1 DEF IsolatedFrom
<1>5. QED
  BY <1>2, <1>3, <1>4 DEF Contained, IsolatedFrom

\* The committed database is one of the recoverable states.
LEMMA CommittedIsWhole ==
  ASSUME TypeOK, RecoverableStatesAreWhole
  PROVE  Committed \in Database /\ HoldsEvents(Committed, torn)
BY DEF TypeOK, RecoverableStatesAreWhole, Committed

\* While a transaction is open nobody else changes the committed database and
\* the transaction changes only its own event.
LEMMA IsolationStep ==
  ASSUME TypeOK, LockDiscipline, LockDiscipline', TransactionIsolated,
         RecoverableStatesAreWhole, [Next]_vars
  PROVE  TransactionIsolated'
<1> SUFFICES ASSUME NEW d \in Conn, lock' = d
             PROVE  /\ InTransaction(d)' => IsolatedFrom(d, Committed)'
                    /\ ~InTransaction(d)' => Contained(d, Committed)'
  BY DEF TransactionIsolated, LockDiscipline
<1>0. /\ pc \in [Conn -> {"down", "idle"} \cup WritePc \cup ReadPc]
      /\ op \in [Conn -> Event \cup Segment \cup {None}]
      /\ Committed \in Database /\ txn \in Database
      /\ None \notin Conn
  BY NoneAssumption DEF TypeOK, Committed
<1>1. ASSUME NEW c \in Conn, c # d, WritingStep(c)
      PROVE  FALSE
  <2>1. InTransaction(c)' /\ lock' = c
    BY <1>0, <1>1 DEF WritingStep, InTransaction, BeginImmediate, InsertOrReplaceRow,
         DeleteOldFactors, InsertNextFactor, Goto, LockDiscipline
  <2>2. QED
    BY <1>1, <2>1
<1>2. CASE BeginImmediate(d)
  BY <1>0, <1>2 DEF BeginImmediate, IsolatedFrom, InTransaction, Committed, Goto
<1>3. CASE InsertOrReplaceRow(d)
  <2>1. op[d] \in Event /\ InTransaction(d)
    BY <1>3 DEF TypeOK, InsertOrReplaceRow, WritePc, InTransaction
  <2>2. IsolatedFrom(d, Committed) /\ op[d].id \in Id /\ pc[d] = "replace"
    BY <1>3, <2>1, EventAssumption DEF TransactionIsolated, InsertOrReplaceRow
  <2>3. QED
    BY <1>0, <1>3, <2>2 DEF InsertOrReplaceRow, ReplaceRow, IsolatedFrom, InTransaction,
         Committed, Goto, Database
<1>4. CASE DeleteOldFactors(d)
  <2>1. op[d] \in Event /\ InTransaction(d)
    BY <1>4 DEF TypeOK, DeleteOldFactors, WritePc, InTransaction
  <2>2. IsolatedFrom(d, Committed) /\ op[d].id \in Id /\ op[d].factors \in Seq(Factor)
    BY <2>1, EventAssumption DEF TransactionIsolated
  <2>3. IsPrefixOf(<<>>, op[d].factors)
    BY <2>2, LenProperties DEF IsPrefixOf
  <2>4. QED
    BY <1>0, <1>4, <2>2, <2>3 DEF DeleteOldFactors, DeleteFactors, SetFactors,
         IsolatedFrom, InTransaction, Committed, Goto, Database
<1>5. CASE InsertNextFactor(d)
  <2>1. op[d] \in Event /\ InTransaction(d)
    BY <1>5 DEF TypeOK, InsertNextFactor, WritePc, InTransaction
  <2>2. IsolatedFrom(d, Committed) /\ op[d].id \in Id /\ op[d].factors \in Seq(Factor)
    BY <2>1, EventAssumption DEF TransactionIsolated
  <2> DEFINE stored == txn.factors[op[d].id]
  <2>3. stored \in Seq(Factor) /\ IsPrefixOf(stored, op[d].factors)
    BY <1>0, <1>5, <2>2 DEF InsertNextFactor, IsolatedFrom, Database
  <2>4. Len(stored) < Len(op[d].factors)
    BY <1>5, <2>2, <2>3 DEF InsertNextFactor, AllInserted
  <2>5. IsPrefixOf(Append(stored, op[d].factors[Len(stored) + 1]), op[d].factors)
    BY <2>2, <2>3, <2>4, PrefixGrows
  <2>6. QED
    BY <1>0, <1>5, <2>2, <2>5 DEF InsertNextFactor, InsertFactor, SetFactors,
         IsolatedFrom, InTransaction, Committed, Goto, Database
<1>6. ASSUME NEW c \in Conn, Commit(c) \/ ClosingStep(c)
      PROVE  FALSE
  <2>1. lock = c
    BY <1>6 DEF Commit, ClosingStep, LockDiscipline, InTransaction
  <2>2. lock' = None
    BY <1>6, <2>1 DEF Commit, ClosingStep, Close, EndTransaction
  <2>3. QED
    BY <1>0, <2>2
<1>7. CASE Quiet
  <2>1. /\ Committed' = Committed /\ lock = d /\ txn' = txn
        /\ InTransaction(d)' => /\ InTransaction(d)
                                /\ pc'[d] = pc[d] /\ op'[d] = op[d]
        /\ ~InTransaction(d)' => WrittenId(d)' = WrittenId(d)
    BY <1>7 DEF Quiet, Committed
  <2>2. InTransaction(d)' => IsolatedFrom(d, Committed)'
    BY <2>1 DEF TransactionIsolated, IsolatedFrom
  <2>3. Contained(d, Committed)
    <3>1. CASE InTransaction(d)
      <4>1. left[d] = None
        BY <3>1 DEF LockDiscipline
      <4>2. QED
        BY <3>1, <4>1, IsolatedIsContained, CommittedIsWhole DEF TransactionIsolated
    <3>2. CASE ~InTransaction(d)
      BY <2>1, <3>2 DEF TransactionIsolated
    <3>3. QED
      BY <3>1, <3>2
  <2>4. ~InTransaction(d)' => Contained(d, Committed)'
    BY <2>1, <2>3 DEF Contained, HoldsEvent, HoldsPart
  <2>5. QED
    BY <2>2, <2>4
<1>8. CASE Checkpoint
  <2>1. Committed' = Committed /\ lock = d /\ UNCHANGED <<txn, pc, op, left>>
    BY <1>8 DEF Checkpoint, Committed
  <2>2. QED
    BY <2>1 DEF TransactionIsolated, IsolatedFrom, Contained, InTransaction, WrittenId,
       HoldsEvent, HoldsPart
<1>9. ~PowerLoss
  BY <1>0 DEF PowerLoss
<1>10. QED
  BY <1>1, <1>2, <1>3, <1>4, <1>5, <1>6, <1>7, <1>8, <1>9, StepKinds DEF WritingStep

-----------------------------------------------------------------------------

\* A transaction that inserted its last factor holds the event it records, and
\* otherwise what was committed.
LEMMA FinishedTransaction ==
  ASSUME TypeOK, TransactionIsolated, NEW c \in Conn, Commit(c)
  PROVE  /\ op[c] \in Event /\ op[c].id \in Id
         /\ txn.row[op[c].id] = op[c].row
         /\ txn.factors[op[c].id] = op[c].factors
         /\ \A i \in Id \ {op[c].id} : /\ txn.row[i] = Committed.row[i]
                                       /\ txn.factors[i] = Committed.factors[i]
<1>1. pc[c] = "insert" /\ AllInserted(c) /\ op[c] \in Event
  BY DEF Commit, TypeOK, WritePc
<1>2. op[c].id \in Id /\ op[c].factors \in Seq(Factor) /\ txn \in Database
  BY <1>1, EventAssumption DEF TypeOK
<1>3. IsolatedFrom(c, Committed)
  BY <1>1 DEF TransactionIsolated, InTransaction
<1>4. txn.factors[op[c].id] = op[c].factors
  BY <1>1, <1>2, <1>3, PrefixFull DEF IsolatedFrom, AllInserted, Database
<1>5. QED
  BY <1>1, <1>2, <1>3, <1>4 DEF IsolatedFrom

\* An abandoned transaction is that of the connection that closes, and holds a
\* part of one event and otherwise what was committed.
LEMMA ClosedTransaction ==
  ASSUME TypeOK, LockDiscipline, TransactionIsolated, NEW c \in Conn, ClosingStep(c)
  PROVE  /\ left[c] \in Id /\ torn' = torn \cup {left[c]}
         /\ hist' = Append(hist, txn)
         /\ HoldsEvent(txn, left[c]) \/ HoldsPart(txn, left[c])
         /\ Committed.row[left[c]] # None => txn.row[left[c]] # None
         /\ \A i \in Id \ {left[c]} : /\ txn.row[i] = Committed.row[i]
                                      /\ txn.factors[i] = Committed.factors[i]
<1>1. pc[c] = "idle" /\ lock = c
  BY DEF ClosingStep, Close
<1>2. left[c] # None /\ ~InTransaction(c)
  BY <1>1 DEF LockDiscipline, InTransaction
<1>3. WrittenId(c) = left[c] /\ Contained(c, Committed)
  BY <1>1, <1>2 DEF WrittenId, TransactionIsolated
<1>4. left[c] \in Id
  BY <1>2 DEF TypeOK
<1>5. torn' = torn \cup {left[c]} /\ hist' = Append(hist, txn)
  BY <1>1, <1>2 DEF ClosingStep, Close
<1>6. QED
  BY <1>3, <1>4, <1>5 DEF Contained

\* More suspects, fewer claims.
LEMMA HoldsMore ==
  ASSUME NEW db, NEW P, NEW Q, P \subseteq Q, HoldsEvents(db, P)
  PROVE  HoldsEvents(db, Q)
BY DEF HoldsEvents

\* Only a COMMIT, a close() on an abandoned recording, a checkpoint and a power
\* loss change what can be recovered; all of them leave it whole but for the
\* ids that were torn.
LEMMA RecoveryStep ==
  ASSUME TypeOK, LockDiscipline, TransactionIsolated, RecoverableStatesAreWhole,
         [Next]_vars
  PROVE  RecoverableStatesAreWhole'
<1>0. hist \in Seq(Database) /\ Len(hist) \in Nat /\ Len(hist) > 0 /\ txn \in Database
  BY DEF TypeOK
<1>1. HoldsEvents(Committed, torn) /\ \A n \in 1..Len(hist) : HoldsEvents(hist[n], torn)
  BY CommittedIsWhole DEF RecoverableStatesAreWhole
<1>a. ASSUME hist' = Append(hist, txn), HoldsEvents(txn, torn'), torn \subseteq torn'
      PROVE  RecoverableStatesAreWhole'
  <2>1. /\ Len(hist') = Len(hist) + 1
        /\ \A n \in 1..Len(hist) : hist'[n] = hist[n]
        /\ hist'[Len(hist) + 1] = txn
    BY <1>0, <1>a, AppendProperties
  <2>2. \A n \in 1..Len(hist) : HoldsEvents(hist[n], torn')
    BY <1>1, <1>a, HoldsMore
  <2>3. ASSUME NEW n \in 1..Len(hist')
        PROVE  HoldsEvents(hist'[n], torn')
    BY <1>0, <1>a, <2>1, <2>2, <2>3
  <2>4. QED
    BY <2>3 DEF RecoverableStatesAreWhole, HoldsEvents, HoldsEvent, HoldsPart
<1>2. ASSUME NEW c \in Conn, Commit(c)
      PROVE  RecoverableStatesAreWhole'
  <2>1. op[c] = [id |-> op[c].id, row |-> op[c].row, factors |-> op[c].factors]
    BY <1>2, FinishedTransaction, EventAssumption
  <2>2. HoldsEvent(txn, op[c].id)
    BY <1>2, <2>1, FinishedTransaction DEF HoldsEvent
  <2>3. ASSUME NEW i \in Id \ {op[c].id}
        PROVE  HoldsEvent(txn, i) \/ (i \in torn /\ HoldsPart(txn, i))
    BY <1>1, <1>2, FinishedTransaction DEF HoldsEvents, HoldsEvent, HoldsPart
  <2>4. HoldsEvents(txn, torn)
    BY <2>2, <2>3 DEF HoldsEvents
  <2>5. hist' = Append(hist, txn) /\ torn' = torn
    BY <1>2 DEF Commit
  <2>6. QED
    BY <1>a, <2>4, <2>5
<1>3. ASSUME NEW c \in Conn, ClosingStep(c)
      PROVE  RecoverableStatesAreWhole'
  <2>1. ASSUME NEW i \in Id \ {left[c]}
        PROVE  HoldsEvent(txn, i) \/ (i \in torn /\ HoldsPart(txn, i))
    <3>1. txn.row[i] = Committed.row[i] /\ txn.factors[i] = Committed.factors[i]
      BY <1>3, ClosedTransaction
    <3>2. HoldsEvent(Committed, i) \/ (i \in torn /\ HoldsPart(Committed, i))
      BY <1>1 DEF HoldsEvents
    <3>3. QED
      BY <3>1, <3>2 DEF HoldsEvent, HoldsPart
  <2>2. HoldsEvents(txn, torn \cup {left[c]})
    BY <1>3, <2>1, ClosedTransaction DEF HoldsEvents
  <2>3. QED
    BY <1>3, <1>a, <2>2, ClosedTransaction
<1>4. ASSUME NEW c \in Conn, WritingStep(c)
      PROVE  RecoverableStatesAreWhole'
  <2>1. hist' = hist /\ torn' = torn
    BY <1>4 DEF WritingStep, BeginImmediate, InsertOrReplaceRow, DeleteOldFactors,
         InsertNextFactor
  <2>2. QED
    BY <2>1 DEF RecoverableStatesAreWhole, HoldsEvents, HoldsEvent, HoldsPart
<1>5. CASE Quiet
  BY <1>5 DEF Quiet, RecoverableStatesAreWhole, HoldsEvents, HoldsEvent, HoldsPart
<1>6. CASE Checkpoint
  BY <1>6, <1>1 DEF Checkpoint, RecoverableStatesAreWhole, HoldsEvents, HoldsEvent, HoldsPart
<1>7. CASE PowerLoss
  <2>1. PICK n \in 1..Len(hist) : hist' = SubSeq(hist, 1, n)
    BY <1>7 DEF PowerLoss
  <2>2. Len(hist') = n /\ (\A m \in 1..n : hist'[m] = hist[m]) /\ torn' = torn
    BY <1>0, <1>7, <2>1 DEF PowerLoss
  <2>3. ASSUME NEW m \in 1..Len(hist')
        PROVE  HoldsEvents(hist'[m], torn')
    BY <1>0, <1>1, <2>2, <2>3
  <2>4. QED
    BY <2>3 DEF RecoverableStatesAreWhole, HoldsEvents, HoldsEvent, HoldsPart
<1>8. QED
  BY <1>2, <1>3, <1>4, <1>5, <1>6, <1>7, StepKinds

\* Isolation and wholeness hold together: what a transaction leaves when it is
\* abandoned depends on what was committed, and the other way round.
LEMMA WholeAndIsolated == Spec => [](TransactionIsolated /\ RecoverableStatesAreWhole)
<1> DEFINE Inv == TransactionIsolated /\ RecoverableStatesAreWhole
<1>1. Init => Inv
  <2> SUFFICES ASSUME Init  PROVE Inv
    OBVIOUS
  <2>1. TransactionIsolated
    BY NoneAssumption DEF Init, TransactionIsolated, InTransaction
  <2>2. HoldsEvents(EmptyDatabase, torn)
    BY DEF HoldsEvents, HoldsEvent, EmptyDatabase
  <2>3. RecoverableStatesAreWhole
    BY <2>2 DEF Init, RecoverableStatesAreWhole
  <2>4. QED
    BY <2>1, <2>3
<1>2. TypeOK /\ LockDiscipline /\ LockDiscipline' /\ Inv /\ [Next]_vars => Inv'
  BY IsolationStep, RecoveryStep
<1>3. QED
  BY <1>1, <1>2, TypeCorrect, LockIsDisciplined, PTL DEF Spec

\* While a transaction is open nobody else changes the committed database and
\* the transaction changes only its own event, so COMMIT loses no other
\* writer's work; nor does a close() that commits an abandoned one.
THEOREM TransactionsAreIsolated == Spec => []TransactionIsolated
BY WholeAndIsolated, PTL

\* Every database a power loss or a reader may see holds whole events
\* (store.py:64-99: the row and all its factors in one transaction), except
\* under the ids whose abandoned recording close() committed (store.py:191).
THEOREM StatesAreWhole == Spec => []RecoverableStatesAreWhole
BY WholeAndIsolated, PTL

-----------------------------------------------------------------------------

\* No step takes an id off the torn ones.
LEMMA TornGrows ==
  ASSUME TypeOK, LockDiscipline, TransactionIsolated, [Next]_vars
  PROVE  torn \subseteq torn'
<1>1. ASSUME NEW c \in Conn, WritingStep(c) \/ Commit(c) \/ ClosingStep(c)
      PROVE  torn \subseteq torn'
  BY <1>1 DEF WritingStep, BeginImmediate, InsertOrReplaceRow, DeleteOldFactors,
       InsertNextFactor, Commit, ClosingStep, Close
<1>2. QED
  BY <1>1, StepKinds DEF Quiet, Checkpoint, PowerLoss

\* Short of a power loss, an id that has a row keeps one, for a reader of the
\* committed database and for one that sees a transaction it abandoned.
LEMMA RowsStay ==
  ASSUME TypeOK, LockDiscipline, TransactionIsolated, [Next]_vars, ~PowerLoss,
         NEW d \in Conn, pc[d] \in ReadPc, pc'[d] \in ReadPc,
         NEW i \in Id, Visible(d).row[i] # None
  PROVE  Visible(d)'.row[i] # None
<1>0. /\ hist \in Seq(Database) /\ Len(hist) \in Nat /\ Len(hist) > 0
      /\ txn \in Database /\ None \notin Conn
      /\ pc \in [Conn -> {"down", "idle"} \cup WritePc \cup ReadPc]
  BY NoneAssumption DEF TypeOK
<1>1. CASE lock = d
  <2>1. ASSUME NEW c \in Conn, WritingStep(c) \/ Commit(c) \/ ClosingStep(c)
        PROVE  FALSE
    <3>1. lock = None \/ lock = c
      BY <2>1 DEF WritingStep, BeginImmediate, InsertOrReplaceRow, DeleteOldFactors,
           InsertNextFactor, Commit, ClosingStep, LockDiscipline, InTransaction
    <3>2. c = d /\ ~BeginImmediate(c)
      BY <1>0, <1>1, <3>1 DEF BeginImmediate
    <3>3. QED
      BY <2>1, <3>2 DEF WritingStep, InsertOrReplaceRow, DeleteOldFactors,
           InsertNextFactor, Commit, ClosingStep, Close, ReadPc
  <2>2. ASSUME Quiet
        PROVE  lock' = d /\ txn' = txn
    BY <1>1, <2>2 DEF Quiet, ReadPc
  <2>3. lock' = d /\ txn' = txn
    BY <1>1, <2>1, <2>2, StepKinds DEF Checkpoint
  <2>4. QED
    BY <1>1, <2>3 DEF Visible
<1>2. CASE lock # d
  <2>1. Committed.row[i] # None
    BY <1>2 DEF Visible
  <2>2. ASSUME NEW c \in Conn, Commit(c)
        PROVE  Committed'.row[i] # None /\ lock' # d
    <3>1. Committed' = txn
      BY <1>0, <2>2, AppendProperties DEF Commit, Committed
    <3>2. op[c].row # None
      BY <2>2, FinishedTransaction, EventAssumption, NoneAssumption
    <3>3. txn.row[i] # None
      BY <2>1, <2>2, <3>2, FinishedTransaction
    <3>4. QED
      BY <1>0, <1>2, <2>2, <3>1, <3>3 DEF Commit, EndTransaction
  <2>3. ASSUME NEW c \in Conn, ClosingStep(c)
        PROVE  Committed'.row[i] # None /\ lock' # d
    <3>1. Committed' = txn
      BY <1>0, <2>3, ClosedTransaction, AppendProperties DEF Committed
    <3>2. txn.row[i] # None
      BY <2>1, <2>3, ClosedTransaction
    <3>3. QED
      BY <1>0, <1>2, <2>3, <3>1, <3>2 DEF ClosingStep, Close, EndTransaction
  <2>4. ASSUME NEW c \in Conn, WritingStep(c)
        PROVE  Committed' = Committed /\ lock' # d
    BY <1>0, <1>2, <2>4 DEF WritingStep, BeginImmediate, InsertOrReplaceRow,
         DeleteOldFactors, InsertNextFactor, Committed, ReadPc
  <2>5. CASE Quiet
    BY <1>2, <2>1, <2>5 DEF Quiet, Committed, Visible
  <2>6. CASE Checkpoint
    BY <1>2, <2>1, <2>6 DEF Checkpoint, Committed, Visible
  <2>7. QED
    BY <2>1, <2>2, <2>3, <2>4, <2>5, <2>6, StepKinds DEF Visible
<1>3. QED
  BY <1>1, <1>2

\* What a database holds under an id that has a row and is above suspicion.
LEMMA WholeHasFactors ==
  ASSUME NEW db \in Database, NEW P, HoldsEvents(db, P), NEW i \in Id, i \notin P,
         db.row[i] # None
  PROVE  /\ db.factors[i] # <<>>
         /\ \E e \in Event : e.id = i /\ e.factors = db.factors[i]
BY EventAssumption DEF HoldsEvents, HoldsEvent

\* What a reader's statements see holds whole events, except under the ids it
\* has to suspect.
LEMMA VisibleIsWhole ==
  ASSUME TypeOK, LockDiscipline, TransactionIsolated, RecoverableStatesAreWhole,
         NEW d \in Conn, pc[d] \in ReadPc
  PROVE  Visible(d) \in Database /\ HoldsEvents(Visible(d), Suspect(d))
<1>1. /\ Committed \in Database /\ txn \in Database
      /\ HoldsEvents(Committed, torn) /\ torn \subseteq Suspect(d)
  BY CommittedIsWhole DEF TypeOK, Suspect
<1>2. CASE lock # d
  BY <1>1, <1>2, HoldsMore DEF Visible
<1>3. CASE lock = d
  <2>1. left[d] # None /\ ~InTransaction(d)
    BY <1>3 DEF LockDiscipline, InTransaction, ReadPc
  <2>2. Contained(d, Committed) /\ WrittenId(d) = left[d] /\ left[d] \in Suspect(d)
    BY <1>3, <2>1 DEF TransactionIsolated, WrittenId, Suspect
  <2>3. HoldsEvent(txn, left[d]) \/ (left[d] \in Suspect(d) /\ HoldsPart(txn, left[d]))
    BY <2>2 DEF Contained
  <2>4. ASSUME NEW i \in Id \ {left[d]}
        PROVE  HoldsEvent(txn, i) \/ (i \in Suspect(d) /\ HoldsPart(txn, i))
    <3>1. txn.row[i] = Committed.row[i] /\ txn.factors[i] = Committed.factors[i]
      BY <2>2 DEF Contained
    <3>2. HoldsEvent(Committed, i) \/ (i \in Suspect(d) /\ HoldsPart(Committed, i))
      BY <1>1 DEF HoldsEvents
    <3>3. QED
      BY <3>1, <3>2 DEF HoldsEvent, HoldsPart
  <2>5. QED
    BY <1>1, <1>3, <2>3, <2>4 DEF Visible, HoldsEvents
<1>4. QED
  BY <1>2, <1>3

\* A reader that has fetched rows and completes them one by one finds the
\* factors of each, in full, however many events are written meanwhile; of the
\* ids whose recording was abandoned it may find less.
THEOREM ReadsProgress == Spec => []ReadsInProgress
<1>1. Init => ReadsInProgress
  BY DEF Init, ReadsInProgress, ReadInProgress
<1>2. TypeOK /\ LockDiscipline /\ TransactionIsolated /\ RecoverableStatesAreWhole
      /\ ReadsInProgress /\ [Next]_vars => ReadsInProgress'
  <2> SUFFICES ASSUME TypeOK, LockDiscipline, TransactionIsolated,
                      RecoverableStatesAreWhole, ReadsInProgress, [Next]_vars,
                      NEW d \in Conn
               PROVE  ReadInProgress(d)'
    BY DEF ReadsInProgress
  <2>0. ReadInProgress(d)
    BY DEF ReadsInProgress
  <2>a. /\ pc \in [Conn -> {"down", "idle"} \cup WritePc \cup ReadPc]
        /\ op \in [Conn -> Event \cup Segment \cup {None}]
        /\ todo \in [Conn -> SUBSET [id : Id, row : Row]]
        /\ out \in [Conn -> Seq([id : Id, row : Row, factors : Seq(Factor)])]
        /\ asOf \in [Conn -> Database]
        /\ left \in [Conn -> Id \cup {None}]
    BY DEF TypeOK
  <2>c. pc[d] \in ReadPc => /\ Visible(d) \in Database
                            /\ HoldsEvents(Visible(d), Suspect(d))
    BY VisibleIsWhole
  <2>d. ASSUME ~PowerLoss, pc[d] \in ReadPc, pc'[d] \in ReadPc, todo'[d] \subseteq todo[d]
        PROVE  \A r \in todo'[d] : Visible(d)'.row[r.id] # None
    <3> SUFFICES ASSUME NEW r \in todo'[d]
                 PROVE  Visible(d)'.row[r.id] # None
      OBVIOUS
    <3>1. r \in todo[d]
      BY <2>d
    <3>2. r.id \in Id /\ Visible(d).row[r.id] # None
      BY <2>0, <2>a, <3>1 DEF ReadInProgress
    <3>3. QED
      BY <2>d, <3>2, RowsStay
  <2>t. torn \subseteq torn'
    BY TornGrows
  <2> DEFINE Busy == {"factors", "fetched"}
             SameRead == /\ todo'[d] = todo[d] /\ out'[d] = out[d] /\ asOf'[d] = asOf[d]
                         /\ \/ pc'[d] = pc[d] /\ op'[d] = op[d] /\ left'[d] = left[d]
                            \/ pc[d] \notin Busy /\ pc'[d] \notin Busy
  <2>1. ASSUME SameRead, ~PowerLoss
        PROVE  ReadInProgress(d)'
    <3>1. CASE pc'[d] \notin Busy
      <4>1. todo[d] = {}
        BY <2>0, <2>1, <3>1 DEF ReadInProgress
      <4>2. QED
        BY <2>1, <3>1, <4>1 DEF ReadInProgress
    <3>2. CASE pc'[d] \in Busy
      <4>1. pc'[d] = pc[d] /\ op'[d] = op[d] /\ left'[d] = left[d] /\ pc[d] \in ReadPc
        BY <2>1, <3>2 DEF ReadPc
      <4>2. Suspect(d) \subseteq Suspect(d)'
        BY <2>t, <4>1 DEF Suspect
      <4>3. \A r \in todo'[d] : Visible(d)'.row[r.id] # None
        BY <2>1, <2>d, <4>1
      <4>4. /\ HoldsEvents(asOf[d], Suspect(d))
            /\ Accounted(d, RowsOut(d) \cup todo[d])
            /\ OutWhole(d)
        BY <2>0, <3>2, <4>1 DEF ReadInProgress
      <4>5. HoldsEvents(asOf[d], Suspect(d))'
        <5>1. HoldsEvents(asOf[d], Suspect(d)')
          BY <4>2, <4>4, HoldsMore
        <5>2. QED
          BY <2>1, <5>1 DEF HoldsEvents, HoldsEvent, HoldsPart
      <4>6. OutWhole(d)'
        BY <2>1, <4>2, <4>4 DEF OutWhole
      <4>7. Accounted(d, RowsOut(d) \cup todo[d])'
        <5>1. RowsOut(d)' = RowsOut(d) /\ RowsOf(asOf[d], op[d])' = RowsOf(asOf[d], op[d])
          BY <2>1, <4>1 DEF RowsOut, RowsOf
        <5>2. QED
          BY <2>1, <4>2, <4>4, <5>1 DEF Accounted
      <4>8. (pc[d] # "factors" => todo[d] = {})'
        BY <2>0, <2>1, <4>1 DEF ReadInProgress
      <4>9. QED
        BY <4>3, <4>5, <4>6, <4>7, <4>8 DEF ReadInProgress
    <3>3. QED
      BY <3>1, <3>2
  <2>2. CASE SelectRows(d)
    <3>1. todo'[d] = RowsOf(Visible(d), op[d]) /\ out'[d] = <<>> /\ asOf'[d] = Visible(d)
      BY <2>2, <2>a DEF SelectRows
    <3>2. Visible(d)' = Visible(d) /\ op' = op /\ pc'[d] = "factors" /\ Suspect(d)' = Suspect(d)
      BY <2>2, <2>a DEF SelectRows, Visible, Committed, Goto, Suspect
    <3>3. \A r \in todo'[d] : Visible(d)'.row[r.id] # None
      BY <3>1, <3>2 DEF RowsOf
    <3>4. RowsOut(d)' = {} /\ OutWhole(d)'
      BY <3>1 DEF RowsOut, OutWhole
    <3>5. Accounted(d, RowsOut(d) \cup todo[d])'
      BY <3>1, <3>2, <3>4 DEF RowsOf, Accounted
    <3>6. HoldsEvents(asOf[d], Suspect(d))'
      <4>1. HoldsEvents(Visible(d), Suspect(d))
        BY <2>2, <2>c DEF SelectRows, ReadPc
      <4>2. QED
        BY <3>1, <3>2, <4>1 DEF HoldsEvents, HoldsEvent, HoldsPart
    <3>7. QED
      BY <3>2, <3>3, <3>4, <3>5, <3>6 DEF ReadInProgress
  <2>3. ASSUME NEW r \in todo[d], SelectFactors(d, r)
        PROVE  ReadInProgress(d)'
    <3> DEFINE found == Visible(d).factors[r.id]
               new == [id |-> r.id, row |-> r.row, factors |-> found]
    <3>0. pc[d] = "factors" /\ pc[d] \in ReadPc
      BY <2>3 DEF SelectFactors, ReadPc
    <3>1. r \in [id : Id, row : Row] /\ Visible(d).row[r.id] # None
      BY <2>0, <2>a DEF ReadInProgress
    <3>2. r.id \notin Suspect(d) =>
            found # <<>> /\ \E e \in Event : e.id = r.id /\ e.factors = found
      BY <2>c, <3>0, <3>1, WholeHasFactors
    <3>3. /\ todo'[d] = todo[d] \ {r} /\ pc'[d] = pc[d]
          /\ out'[d] = Assemble(out[d], r, found)
          /\ asOf' = asOf /\ op' = op /\ left' = left /\ torn' = torn
      BY <2>3, <2>a DEF SelectFactors
    <3>4. Suspect(d)' = Suspect(d)
      BY <3>3 DEF Suspect
    <3>5. /\ RowsOut(d)' = RowsOut(d) \/ RowsOut(d)' = RowsOut(d) \cup {r}
          /\ r.id \notin Suspect(d) => RowsOut(d)' = RowsOut(d) \cup {r}
          /\ OutWhole(d)'
      <4>1. CASE found = <<>>
        <5>1. out'[d] = out[d]
          BY <3>3, <4>1 DEF Assemble
        <5>2. OutWhole(d)
          BY <2>0, <3>0 DEF ReadInProgress
        <5>3. QED
          BY <3>2, <3>4, <4>1, <5>1, <5>2 DEF RowsOut, OutWhole
      <4>2. CASE found # <<>>
        <5>1. out'[d] = Append(out[d], new)
          BY <3>3, <4>2 DEF Assemble
        <5>2. new \in [id : Id, row : Row, factors : Seq(Factor)]
          BY <2>c, <3>0, <3>1 DEF Database
        <5>3. /\ Len(out'[d]) = Len(out[d]) + 1
              /\ \A n \in 1..Len(out[d]) : out'[d][n] = out[d][n]
              /\ out'[d][Len(out[d]) + 1] = new
              /\ Len(out[d]) \in Nat
          BY <5>1, <5>2, <2>a, AppendProperties, LenProperties
        <5>4. RowsOut(d)' = RowsOut(d) \cup {r}
          <6>1. [id |-> new.id, row |-> new.row] = r
            BY <3>1
          <6>2. QED
            BY <5>3, <6>1 DEF RowsOut
        <5>5. OutWhole(d)
          BY <2>0, <3>0 DEF ReadInProgress
        <5>6. new.id = r.id /\ new.factors = found
          OBVIOUS
        <5> HIDE DEF new, found
        <5>7. ASSUME NEW n \in 1..Len(out'[d]), out'[d][n].id \notin Suspect(d)
              PROVE  \E e \in Event : e.id = out'[d][n].id /\ e.factors = out'[d][n].factors
          <6>1. CASE n \in 1..Len(out[d])
            BY <5>3, <5>5, <5>7, <6>1 DEF OutWhole
          <6>2. CASE n = Len(out[d]) + 1
            BY <3>2, <5>3, <5>6, <5>7, <6>2
          <6>3. QED
            BY <5>3, <6>1, <6>2
        <5>8. QED
          BY <3>4, <5>4, <5>7 DEF OutWhole
      <4>3. QED
        BY <4>1, <4>2
    <3>6. Accounted(d, RowsOut(d) \cup todo[d])'
      <4>1. Accounted(d, RowsOut(d) \cup todo[d])
        BY <2>0, <3>0 DEF ReadInProgress
      <4>2. RowsOf(asOf[d], op[d])' = RowsOf(asOf[d], op[d])
        BY <3>3 DEF RowsOf
      <4>3. QED
        BY <3>3, <3>4, <3>5, <4>1, <4>2 DEF Accounted
    <3>7. ~PowerLoss
      BY <3>0, <3>3, <2>a DEF PowerLoss
    <3>8. \A q \in todo'[d] : Visible(d)'.row[q.id] # None
      BY <2>d, <3>0, <3>3, <3>7
    <3>9. HoldsEvents(asOf[d], Suspect(d))'
      BY <2>0, <3>0, <3>3, <3>4 DEF ReadInProgress, HoldsEvents, HoldsEvent, HoldsPart
    <3>10. QED
      BY <3>0, <3>3, <3>5, <3>6, <3>8, <3>9 DEF ReadInProgress
  <2>4. CASE RowsDone(d)
    <3>1. /\ todo'[d] = todo[d] /\ out' = out /\ asOf' = asOf /\ op' = op
          /\ left' = left /\ torn' = torn
          /\ pc[d] = "factors" /\ todo[d] = {}
      BY <2>4 DEF RowsDone
    <3>2. QED
      BY <2>0, <3>1 DEF ReadInProgress, RowsOut, OutWhole, RowsOf, Accounted, Suspect,
         HoldsEvents, HoldsEvent, HoldsPart
  <2>5. CASE ReturnEvents(d) \/ Crash(d) \/ Escape(d) \/ PowerLoss
    <3>1. todo'[d] = {} /\ pc'[d] \in {"idle", "down"}
      BY <2>0, <2>5, <2>a DEF ReturnEvents, Crash, Escape, PowerLoss, Goto, Leave,
           ReadInProgress
    <3>2. QED
      BY <3>1 DEF ReadInProgress
  <2>6. ASSUME NEW c \in Conn, c # d,
               SelectRows(c) \/ (\E r \in todo[c] : SelectFactors(c, r))
                 \/ RowsDone(c) \/ ReturnEvents(c) \/ Crash(c) \/ Escape(c)
        PROVE  SameRead
    BY <2>6, <2>a DEF SelectRows, SelectFactors, RowsDone, ReturnEvents, Crash, Escape,
         EndTransaction, Goto, Leave
  <2>7. ASSUME NEW c \in Conn, Open(c)  PROVE SameRead
    BY <2>7, <2>a DEF Open, Goto
  <2>8. ASSUME NEW c \in Conn, Close(c)  PROVE SameRead
    BY <2>8, <2>a DEF Close, EndTransaction, Goto
  <2>9. ASSUME NEW c \in Conn, BeginImmediate(c)  PROVE SameRead
    BY <2>9, <2>a DEF BeginImmediate, Goto
  <2>10. ASSUME NEW c \in Conn, BeginRefused(c)  PROVE SameRead
    BY <2>10, <2>a DEF BeginRefused, Goto
  <2>11. ASSUME NEW c \in Conn, InsertOrReplaceRow(c)  PROVE SameRead
    BY <2>11, <2>a DEF InsertOrReplaceRow, Goto
  <2>12. ASSUME NEW c \in Conn, DeleteOldFactors(c)  PROVE SameRead
    BY <2>12, <2>a DEF DeleteOldFactors, Goto
  <2>13. ASSUME NEW c \in Conn, InsertNextFactor(c)  PROVE SameRead
    BY <2>13, <2>a DEF InsertNextFactor, Goto
  <2>14. ASSUME NEW c \in Conn, Commit(c)  PROVE SameRead
    BY <2>14, <2>a DEF Commit, EndTransaction, Goto
  <2>15. ASSUME NEW c \in Conn, StatementFails(c)  PROVE SameRead
    BY <2>15, <2>a DEF StatementFails, Goto
  <2>16. ASSUME NEW c \in Conn, Rollback(c)  PROVE SameRead
    BY <2>16, <2>a DEF Rollback, EndTransaction, Goto, Leave
  <2>17. ASSUME NEW c \in Conn, ReturnFromRecord(c)  PROVE SameRead
    BY <2>17, <2>a DEF ReturnFromRecord, Goto, Leave
  <2>18. ASSUME NEW c \in Conn, NEW e \in Event, RecordEvent(c, e)  PROVE SameRead
    BY <2>18, <2>a DEF RecordEvent, Goto
  <2>19. ASSUME NEW c \in Conn, NEW s \in Segment, EventsForSegment(c, s)  PROVE SameRead
    BY <2>19, <2>a DEF EventsForSegment, Goto
  <2>20. ASSUME Checkpoint \/ UNCHANGED vars  PROVE SameRead
    BY <2>20 DEF Checkpoint, vars
  <2> HIDE DEF SameRead
  <2>21. QED
    BY <2>1, <2>2, <2>3, <2>4, <2>5, <2>6, <2>7, <2>8, <2>9, <2>10, <2>11, <2>12, <2>13,
       <2>14, <2>15, <2>16, <2>17, <2>18, <2>19, <2>20
       DEF Next, WriteStep, ReadStep
<1>3. QED
  BY <1>1, <1>2, TypeCorrect, LockIsDisciplined, WholeAndIsolated, PTL DEF Spec

-----------------------------------------------------------------------------

\* What is left of the promise of store.py:65-67: a reader meets an event row
\* whose factors are missing, and drops it, only under an id whose recording
\* was abandoned.
THEOREM NoReadIsFactorless == Spec => []NoFactorlessRead
<1>1. TypeOK /\ LockDiscipline /\ TransactionIsolated /\ RecoverableStatesAreWhole
      /\ ReadsInProgress => NoFactorlessRead
  <2> SUFFICES ASSUME TypeOK, LockDiscipline, TransactionIsolated,
                      RecoverableStatesAreWhole, ReadsInProgress,
                      NEW c \in Conn, NEW r \in todo[c], r.id \notin Suspect(c)
               PROVE  Visible(c).factors[r.id] # <<>>
    BY DEF NoFactorlessRead
  <2>0. /\ todo[c] \in SUBSET [id : Id, row : Row]
        /\ ReadInProgress(c)
    BY DEF ReadsInProgress, TypeOK
  <2>1. r.id \in Id /\ Visible(c).row[r.id] # None /\ pc[c] = "factors"
    BY <2>0 DEF ReadInProgress
  <2>a. pc[c] \in ReadPc
    BY <2>1 DEF ReadPc
  <2>2. QED
    BY <2>1, <2>a, VisibleIsWhole, WholeHasFactors
<1>2. QED
  BY <1>1, TypeCorrect, LockIsDisciplined, WholeAndIsolated, ReadsProgress, PTL

\* events_for_segment returns every row its first SELECT found, each with the
\* complete factor list of some recorded event, abandoned recordings excepted.
THEOREM ReadsAreWhole == Spec => []EveryRowReturnedWhole
<1>1. ReadsInProgress => EveryRowReturnedWhole
  <2> SUFFICES ASSUME ReadsInProgress, NEW c \in Conn, Ended(c)
               PROVE  Accounted(c, RowsOut(c)) /\ OutWhole(c)
    BY DEF EveryRowReturnedWhole
  <2>1. todo[c] = {} /\ Accounted(c, RowsOut(c) \cup todo[c]) /\ OutWhole(c)
    BY DEF ReadsInProgress, ReadInProgress, Ended
  <2>2. RowsOut(c) \cup todo[c] = RowsOut(c)
    BY <2>1
  <2>3. QED
    BY <2>1, <2>2
<1>2. QED
  BY <1>1, ReadsProgress, PTL

\* As far as ids go that have one content and whose recording was not
\* abandoned, events_for_segment returns the events of the segment as they
\* stood when it ran its first SELECT.
THEOREM ReadsAreSnapshots == Spec => []ReadIsSnapshot
<1>1. TypeOK /\ ReadsInProgress => ReadIsSnapshot
  <2> SUFFICES ASSUME TypeOK, ReadsInProgress,
                      NEW c \in Conn, Ended(c)
               PROVE  {out[c][n] : n \in {m \in 1..Len(out[c]) : out[c][m].id \in Settled(c)}} =
                        {[id |-> i, row |-> asOf[c].row[i],
                          factors |-> asOf[c].factors[i]] :
                           i \in {j \in Settled(c) : asOf[c].row[j] # None
                                                       /\ asOf[c].row[j].seg = op[c]}}
    BY DEF ReadIsSnapshot
  <2> DEFINE Stored(i) == [id |-> i, row |-> asOf[c].row[i], factors |-> asOf[c].factors[i]]
             Bound == {j \in Settled(c) : asOf[c].row[j] # None /\ asOf[c].row[j].seg = op[c]}
             Places == {m \in 1..Len(out[c]) : out[c][m].id \in Settled(c)}
  <2>1. /\ out[c] \in Seq([id : Id, row : Row, factors : Seq(Factor)])
        /\ Accounted(c, RowsOut(c) \cup todo[c]) /\ todo[c] = {}
        /\ OutWhole(c) /\ HoldsEvents(asOf[c], Suspect(c))
    BY DEF TypeOK, ReadsInProgress, ReadInProgress, Ended
  <2>2. ASSUME NEW n \in Places
        PROVE  out[c][n].id \in Bound /\ out[c][n] = Stored(out[c][n].id)
    <3>1. out[c][n] \in [id : Id, row : Row, factors : Seq(Factor)]
      BY <2>1, ElementOfSeq
    <3>2. [id |-> out[c][n].id, row |-> out[c][n].row] \in RowsOf(asOf[c], op[c])
      BY <2>1 DEF RowsOut, Accounted
    <3>3. /\ out[c][n].id \in Id
          /\ out[c][n].row = asOf[c].row[out[c][n].id]
          /\ asOf[c].row[out[c][n].id] # None
          /\ asOf[c].row[out[c][n].id].seg = op[c]
      BY <3>2 DEF RowsOf
    <3>4. out[c][n].id \in Settled(c)
      OBVIOUS
    <3>5. OneContent(out[c][n].id) /\ out[c][n].id \notin Suspect(c)
      BY <3>4 DEF Settled
    <3>6. PICK e \in Event : e.id = out[c][n].id /\ e.factors = out[c][n].factors
      BY <2>1, <3>5 DEF OutWhole
    <3>7. Stored(out[c][n].id) \in Event
      BY <2>1, <3>3, <3>5 DEF HoldsEvents, HoldsEvent
    <3>8. Stored(out[c][n].id) = e
      BY <3>5, <3>6, <3>7 DEF OneContent
    <3>9. out[c][n].factors = asOf[c].factors[out[c][n].id]
      BY <3>6, <3>8
    <3>10. QED
      BY <3>1, <3>3, <3>4, <3>9
  <2>3. ASSUME NEW i \in Bound
        PROVE  \E n \in Places : out[c][n] = Stored(i)
    <3>1. i \in Settled(c) /\ i \in Id /\ i \notin Suspect(c)
      BY DEF Settled
    <3>2. [id |-> i, row |-> asOf[c].row[i]] \in RowsOf(asOf[c], op[c])
      BY <3>1 DEF RowsOf
    <3>3. [id |-> i, row |-> asOf[c].row[i]] \in RowsOut(c)
      BY <2>1, <3>1, <3>2 DEF Accounted
    <3>4. PICK n \in 1..Len(out[c]) :
            [id |-> out[c][n].id, row |-> out[c][n].row] = [id |-> i, row |-> asOf[c].row[i]]
      BY <3>3 DEF RowsOut
    <3>5. out[c][n].id = i
      BY <3>4
    <3>6. n \in Places
      BY <3>1, <3>5
    <3>7. out[c][n] = Stored(i)
      BY <2>2, <3>5, <3>6
    <3>8. QED
      BY <3>6, <3>7
  <2>4. {out[c][n] : n \in Places} = {Stored(i) : i \in Bound}
    <3> HIDE DEF Stored, Bound, Places
    <3> QED
      BY <2>2, <2>3
  <2>5. QED
    BY <2>4
<1>2. QED
  BY <1>1, TypeCorrect, ReadsProgress, PTL

\* The mapped log follows the database history: Mapped(hist) is statesBar.
Mapped(h) == [n \in 1..Len(h) |-> EventsIn(h[n])]

\* A history of databases maps to a history of logs of the same length.
LEMMA MappedType ==
  ASSUME NEW h \in Seq(Database)
  PROVE  /\ Mapped(h) \in Seq({EventsIn(db) : db \in Database})
         /\ Len(Mapped(h)) = Len(h)
         /\ \A n \in 1..Len(h) : Mapped(h)[n] = EventsIn(h[n])
<1> DEFINE S == {EventsIn(db) : db \in Database}
<1>1. Len(h) \in Nat /\ \A n \in 1..Len(h) : EventsIn(h[n]) \in S
  OBVIOUS
<1>2. Mapped(h) \in Seq(S)
  <2> HIDE DEF S
  <2> QED
    BY <1>1, IsASeq DEF Mapped
<1>3. DOMAIN Mapped(h) = 1..Len(h)
  BY DEF Mapped
<1>4. Len(Mapped(h)) = Len(h)
  <2> HIDE DEF S
  <2> QED
    BY <1>1, <1>2, <1>3, LenProperties
<1>5. QED
  BY <1>2, <1>4 DEF Mapped

\* A COMMIT appends to the log history what it appends to the database history.
LEMMA MappedAppend ==
  ASSUME NEW h \in Seq(Database), NEW db \in Database
  PROVE  Mapped(Append(h, db)) = Append(Mapped(h), EventsIn(db))
<1> DEFINE S == {EventsIn(x) : x \in Database}
           new == Append(h, db)
           bar == Append(Mapped(h), EventsIn(db))
<1>1. /\ new \in Seq(Database) /\ Len(new) = Len(h) + 1 /\ Len(h) \in Nat
      /\ \A n \in 1..Len(h) : new[n] = h[n]
      /\ new[Len(h) + 1] = db
  BY AppendProperties
<1>2. EventsIn(db) \in S
  OBVIOUS
<1> HIDE DEF S, new
<1>3. /\ bar \in Seq(S) /\ Len(bar) = Len(h) + 1
      /\ \A n \in 1..Len(h) : bar[n] = EventsIn(h[n])
      /\ bar[Len(h) + 1] = EventsIn(db)
  <2>1. /\ Mapped(h) \in Seq(S) /\ Len(Mapped(h)) = Len(h)
        /\ \A n \in 1..Len(h) : Mapped(h)[n] = EventsIn(h[n])
    BY MappedType DEF S
  <2>2. QED
    BY <1>1, <1>2, <2>1, AppendProperties
<1>4. /\ Mapped(new) \in Seq(S) /\ Len(Mapped(new)) = Len(h) + 1
      /\ \A n \in 1..Len(h) + 1 : Mapped(new)[n] = EventsIn(new[n])
  BY <1>1, MappedType DEF S
<1>5. \A n \in 1..Len(h) + 1 : Mapped(new)[n] = bar[n]
  BY <1>1, <1>3, <1>4
<1> HIDE DEF bar
<1>6. Mapped(new) = bar
  BY <1>3, <1>4, <1>5, SeqEqual
<1>7. QED
  BY <1>6 DEF bar, new

\* A power loss falls back to the same point of both histories.
LEMMA MappedSubSeq ==
  ASSUME NEW h \in Seq(Database), NEW k \in 1..Len(h)
  PROVE  Mapped(SubSeq(h, 1, k)) = SubSeq(Mapped(h), 1, k)
<1> DEFINE S == {EventsIn(x) : x \in Database}
           new == SubSeq(h, 1, k)
           bar == SubSeq(Mapped(h), 1, k)
<1>1. k \in Nat /\ Len(h) \in Nat /\ k <= Len(h)
  OBVIOUS
<1>2. /\ new \in Seq(Database) /\ Len(new) = k
      /\ \A n \in 1..k : new[n] = h[n]
  BY <1>1
<1> HIDE DEF S, new
<1>3. Mapped(h) \in Seq(S) /\ Len(Mapped(h)) = Len(h)
      /\ \A n \in 1..Len(h) : Mapped(h)[n] = EventsIn(h[n])
  BY MappedType DEF S
<1>4. /\ bar \in Seq(S) /\ Len(bar) = k
      /\ \A n \in 1..k : bar[n] = EventsIn(h[n])
  BY <1>1, <1>3
<1>5. /\ Mapped(new) \in Seq(S) /\ Len(Mapped(new)) = k
      /\ \A n \in 1..k : Mapped(new)[n] = EventsIn(new[n])
  BY <1>2, MappedType DEF S
<1>6. \A n \in 1..k : Mapped(new)[n] = bar[n]
  BY <1>2, <1>4, <1>5
<1> HIDE DEF bar
<1>7. Mapped(new) = bar
  BY <1>4, <1>5, <1>6, SeqEqual
<1>8. QED
  BY <1>7 DEF bar, new

\* The current log is the committed database.
LEMMA MappedCurrent ==
  ASSUME TypeOK
  PROVE  Log!Current = EventsIn(Committed) /\ Len(statesBar) = Len(hist)
BY MappedType DEF TypeOK, Mapped, statesBar, Log!Current, Committed

\* What the caller of record_event sees, as a case on the statement to come.
LEMMA MappedCall ==
  ASSUME TypeOK, NEW c \in Conn
  PROVE  callBar[c] = IF pc[c] = "down" THEN Log!Down
                      ELSE IF pc[c] = "committed" THEN Log!Applied(op[c])
                      ELSE IF pc[c] \in WritePc THEN Log!Pending(op[c])
                      ELSE Log!Idle
BY DEF callBar, WritePc, Log!Down, Log!Applied, Log!Pending, Log!Idle

\* What the caller of a connection sees changes only with pc and op.
LEMMA MappedCallStep ==
  ASSUME TypeOK, TypeOK', NEW c \in Conn, NEW st, callBar'[c] = st,
         \A d \in Conn \ {c} : pc'[d] = pc[d] /\ op'[d] = op[d]
  PROVE  callBar' = [callBar EXCEPT ![c] = st]
<1>1. \A d \in Conn \ {c} : callBar'[d] = callBar[d]
  BY MappedCall DEF callBar
<1>2. /\ callBar = [d \in Conn |-> callBar[d]]
      /\ callBar' = [d \in Conn |-> callBar'[d]]
  BY DEF callBar
<1>3. QED
  BY <1>1, <1>2

\* EventsIn turns the write of one event's row and factors into one update.
LEMMA MappedCommit ==
  ASSUME TypeOK, TransactionIsolated, NEW c \in Conn, Commit(c)
  PROVE  EventsIn(txn) = [EventsIn(Committed) EXCEPT ![op[c].id] = op[c]]
<1>1. op[c] = [id |-> op[c].id, row |-> op[c].row, factors |-> op[c].factors]
      /\ op[c].row # None
  BY FinishedTransaction, EventAssumption, NoneAssumption
<1>2. EventsIn(txn)[op[c].id] = op[c]
  BY <1>1, FinishedTransaction DEF EventsIn
<1>3. \A i \in Id \ {op[c].id} : EventsIn(txn)[i] = EventsIn(Committed)[i]
  BY FinishedTransaction DEF EventsIn
<1>4. /\ EventsIn(txn) = [i \in Id |-> EventsIn(txn)[i]]
      /\ EventsIn(Committed) = [i \in Id |-> EventsIn(Committed)[i]]
  BY DEF EventsIn
<1>5. QED
  BY <1>2, <1>3, <1>4

\* close() on an abandoned recording is one update too, under the id of that
\* recording.
LEMMA MappedTear ==
  ASSUME TypeOK, LockDiscipline, TransactionIsolated, NEW c \in Conn, ClosingStep(c)
  PROVE  /\ left[c] \in Id /\ torn' = torn \cup {left[c]}
         /\ hist' = Append(hist, txn)
         /\ EventsIn(txn) = [EventsIn(Committed) EXCEPT ![left[c]] = EventsIn(txn)[left[c]]]
<1>1. /\ left[c] \in Id /\ torn' = torn \cup {left[c]} /\ hist' = Append(hist, txn)
      /\ \A i \in Id \ {left[c]} : /\ txn.row[i] = Committed.row[i]
                                  /\ txn.factors[i] = Committed.factors[i]
  BY ClosedTransaction
<1>2. \A i \in Id \ {left[c]} : EventsIn(txn)[i] = EventsIn(Committed)[i]
  BY <1>1 DEF EventsIn
<1>3. /\ EventsIn(txn) = [i \in Id |-> EventsIn(txn)[i]]
      /\ EventsIn(Committed) = [i \in Id |-> EventsIn(Committed)[i]]
  BY DEF EventsIn
<1>4. QED
  BY <1>1, <1>2, <1>3

\* What callers of record_event see is what the abstract log promises: each
\* call takes effect at one instant, its COMMIT, or not at all; one that an
\* uncaught exception breaks off (store.py:94) takes none, unless its client
\* closes the store first, and then only under its own id (store.py:191).
THEOREM StoreImplementsLog == Spec => ImplementsRiskLog
<1>1. Init => Log!LogInit
  <2> SUFFICES ASSUME Init  PROVE Log!LogInit
    OBVIOUS
  <2>1. callBar = [c \in Conn |-> Log!Down]
    <3>1. \A c \in Conn : pc[c] = "down"
      BY DEF Init
    <3>2. \A c \in Conn : callBar[c] = Log!Down
      BY <3>1 DEF callBar, Log!Down, WritePc
    <3>3. callBar = [c \in Conn |-> callBar[c]]
      BY DEF callBar
    <3>4. QED
      BY <3>2, <3>3
  <2>2. EventsIn(EmptyDatabase) = Log!Empty
    BY DEF EventsIn, EmptyDatabase, Log!Empty
  <2>3. statesBar = <<Log!Empty>>
    <3>1. Len(hist) = 1 /\ hist[1] = EmptyDatabase
      BY DEF Init
    <3>2. statesBar = [n \in 1..1 |-> Log!Empty]
      BY <3>1, <2>2 DEF statesBar
    <3>3. QED
      BY <3>2
  <2>4. QED
    BY <2>1, <2>3 DEF Log!LogInit, Init
<1>2. TypeOK /\ TypeOK' /\ LockDiscipline /\ TransactionIsolated /\ [Next]_vars
        => [Log!LogNext]_(Log!logVars)
  <2> DEFINE Stutters == /\ statesBar' = statesBar /\ callBar' = callBar
                         /\ left' = left /\ torn' = torn
  <2> SUFFICES ASSUME TypeOK, TypeOK', LockDiscipline, TransactionIsolated, [Next]_vars
               PROVE  Log!LogNext \/ Stutters
    BY DEF Log!logVars
  <2>0. /\ pc \in [Conn -> {"down", "idle"} \cup WritePc \cup ReadPc]
        /\ op \in [Conn -> Event \cup Segment \cup {None}]
        /\ \A c \in Conn : pc[c] \in WritePc => op[c] \in Event
        /\ \A c \in Conn : callBar[c] =
              IF pc[c] = "down" THEN Log!Down
              ELSE IF pc[c] = "committed" THEN Log!Applied(op[c])
              ELSE IF pc[c] \in WritePc THEN Log!Pending(op[c]) ELSE Log!Idle
        /\ \A c \in Conn : callBar'[c] =
              IF pc'[c] = "down" THEN Log!Down
              ELSE IF pc'[c] = "committed" THEN Log!Applied(op'[c])
              ELSE IF pc'[c] \in WritePc THEN Log!Pending(op'[c]) ELSE Log!Idle
    BY MappedCall DEF TypeOK, callBar, WritePc, Log!Down, Log!Applied, Log!Pending, Log!Idle
  <2>00. callBar = [c \in Conn |-> callBar[c]] /\ callBar' = [c \in Conn |-> callBar'[c]]
    BY DEF callBar
  <2>a. ASSUME hist' = hist  PROVE statesBar' = statesBar
    BY <2>a DEF statesBar, EventsIn
  <2>1. ASSUME NEW c \in Conn, Open(c)  PROVE Log!Start(c)
    <3>1. callBar[c] = Log!Down /\ callBar'[c] = Log!Idle /\ hist' = hist
      BY <2>1, <2>0 DEF Open, Goto, WritePc
    <3>2. \A d \in Conn \ {c} : pc'[d] = pc[d] /\ op'[d] = op[d]
      BY <2>1, <2>0 DEF Open, Goto
    <3>3. QED
      BY <2>1, <3>1, <3>2, <2>a, MappedCallStep DEF Log!Start, Open
  <2>b. ASSUME NEW c \in Conn, lock # c  PROVE left[c] = None
    BY <2>b DEF LockDiscipline
  <2>2. ASSUME NEW c \in Conn, (Close(c) /\ ~ClosingStep(c)) \/ Crash(c)  PROVE Log!Stop(c)
    <3>1. callBar'[c] = Log!Down /\ hist' = hist /\ torn' = torn
      BY <2>2, <2>0, <2>b DEF Close, ClosingStep, Crash, Goto
    <3>2. \A d \in Conn \ {c} : pc'[d] = pc[d] /\ op'[d] = op[d]
      BY <2>2, <2>0 DEF Close, Crash, Goto
    <3>3. left' = [left EXCEPT ![c] = None]
      BY <2>2 DEF Close, Crash, EndTransaction
    <3>4. QED
      BY <3>1, <3>2, <3>3, <2>a, MappedCallStep DEF Log!Stop
  <2>2a. ASSUME NEW c \in Conn, ClosingStep(c)  PROVE Log!StopTorn(c)
    <3>1. callBar[c] = Log!Idle /\ callBar'[c] = Log!Down
      BY <2>2a, <2>0 DEF ClosingStep, Close, Goto, WritePc
    <3>2. \A d \in Conn \ {c} : pc'[d] = pc[d] /\ op'[d] = op[d]
      BY <2>2a, <2>0 DEF ClosingStep, Close, Goto
    <3>3. callBar' = [callBar EXCEPT ![c] = Log!Down]
      BY <3>1, <3>2, MappedCallStep
    <3>4. left' = [left EXCEPT ![c] = None] /\ left[c] # None
          /\ torn' = torn \cup {left[c]}
      BY <2>2a, MappedTear, NoneAssumption DEF ClosingStep, Close, EndTransaction
    <3>5. /\ Len(statesBar') = Len(statesBar) + 1
          /\ statesBar' = Append(statesBar, EventsIn(txn))
          /\ statesBar'[Len(statesBar) + 1] = EventsIn(txn)
      <4>1. hist \in Seq(Database) /\ txn \in Database /\ hist' = Append(hist, txn)
        BY <2>2a, MappedTear DEF TypeOK
      <4>2. statesBar = Mapped(hist) /\ statesBar' = Mapped(hist')
        BY DEF statesBar, Mapped, EventsIn
      <4>3. statesBar' = Append(statesBar, EventsIn(txn))
        BY <4>1, <4>2, MappedAppend
      <4>4. hist' \in Seq(Database) /\ Len(hist') = Len(hist) + 1 /\ hist'[Len(hist) + 1] = txn
            /\ Len(hist) \in Nat
        BY <4>1
      <4>5. Len(statesBar') = Len(hist') /\ Len(statesBar) = Len(hist)
            /\ \A n \in 1..Len(hist') : statesBar'[n] = EventsIn(hist'[n])
        BY <4>1, <4>2, <4>4, MappedType
      <4>6. QED
        BY <4>3, <4>4, <4>5
    <3>6. EventsIn(txn) = [Log!Current EXCEPT ![left[c]] = EventsIn(txn)[left[c]]]
      BY <2>2a, MappedTear, MappedCurrent
    <3> DEFINE new == EventsIn(txn)
    <3> HIDE DEF new
    <3>7. /\ statesBar' = Append(statesBar, new) /\ statesBar'[Len(statesBar) + 1] = new
          /\ new = [Log!Current EXCEPT ![left[c]] = new[left[c]]]
      BY <3>5, <3>6 DEF new
    <3>8. statesBar' = Append(statesBar, [Log!Current EXCEPT ![left[c]] =
                                          statesBar'[Len(statesBar) + 1][left[c]]])
      BY <3>7
    <3>9. QED
      BY <3>1, <3>3, <3>4, <3>5, <3>8 DEF Log!StopTorn
  <2>3. ASSUME NEW c \in Conn, NEW e \in Event, RecordEvent(c, e)  PROVE Log!Record(c, e)
    <3>1. callBar[c] = Log!Idle /\ callBar'[c] = Log!Pending(e) /\ hist' = hist
      BY <2>3, <2>0 DEF RecordEvent, Goto, WritePc
    <3>2. \A d \in Conn \ {c} : pc'[d] = pc[d] /\ op'[d] = op[d]
      BY <2>3, <2>0 DEF RecordEvent, Goto
    <3>3. QED
      BY <2>3, <3>1, <3>2, <2>a, MappedCallStep DEF Log!Record, RecordEvent
  <2>4. ASSUME NEW c \in Conn, Commit(c)  PROVE Log!TakeEffect(c, op[c]) /\ op[c] \in Event
    <3>1. op[c] \in Event /\ callBar[c] = Log!Pending(op[c]) /\ callBar'[c] = Log!Applied(op[c])
      BY <2>4, <2>0 DEF Commit, Goto, WritePc
    <3>2. \A d \in Conn \ {c} : pc'[d] = pc[d] /\ op'[d] = op[d]
      BY <2>4, <2>0 DEF Commit, Goto
    <3>3. callBar' = [callBar EXCEPT ![c] = Log!Applied(op[c])]
      BY <3>1, <3>2, MappedCallStep
    <3>4. statesBar' = Append(statesBar, [Log!Current EXCEPT ![op[c].id] = op[c]])
      <4>1. hist \in Seq(Database) /\ txn \in Database /\ hist' = Append(hist, txn)
        BY <2>4 DEF TypeOK, Commit
      <4>2. statesBar = Mapped(hist) /\ statesBar' = Mapped(hist')
        BY DEF statesBar, Mapped, EventsIn
      <4>3. QED
        BY <2>4, <4>1, <4>2, MappedAppend, MappedCommit, MappedCurrent
    <3>5. left[c] = None /\ left' = left /\ torn' = torn
      <4>1. left[c] = None /\ left \in [Conn -> Id \cup {None}]
        BY <2>4 DEF Commit, LockDiscipline, InTransaction, TypeOK
      <4>2. QED
        BY <2>4, <4>1 DEF Commit, EndTransaction
    <3>6. QED
      BY <3>1, <3>3, <3>4, <3>5 DEF Log!TakeEffect
  <2>5. ASSUME NEW c \in Conn, ReturnFromRecord(c)
        PROVE  Log!Return(c, op[c]) /\ op[c] \in Event
    <3>1. op[c] \in Event /\ callBar[c] = Log!Applied(op[c]) /\ callBar'[c] = Log!Idle
          /\ hist' = hist
      BY <2>5, <2>0 DEF ReturnFromRecord, Leave, Goto, WritePc
    <3>2. \A d \in Conn \ {c} : pc'[d] = pc[d] /\ op'[d] = op[d]
      BY <2>5, <2>0 DEF ReturnFromRecord, Leave, Goto
    <3>3. QED
      BY <2>5, <3>1, <3>2, <2>a, MappedCallStep DEF Log!Return, ReturnFromRecord
  <2>6. ASSUME NEW c \in Conn, Rollback(c)
        PROVE  Log!Raise(c, op[c]) /\ op[c] \in Event
    <3>1. op[c] \in Event /\ callBar[c] = Log!Pending(op[c]) /\ callBar'[c] = Log!Idle
          /\ hist' = hist
      BY <2>6, <2>0 DEF Rollback, Leave, Goto, WritePc
    <3>2. \A d \in Conn \ {c} : pc'[d] = pc[d] /\ op'[d] = op[d]
      BY <2>6, <2>0 DEF Rollback, Leave, Goto
    <3>3. QED
      BY <2>6, <3>1, <3>2, <2>a, MappedCallStep DEF Log!Raise, Rollback, EndTransaction
  <2>7. ASSUME NEW c \in Conn,
               \/ BeginImmediate(c) \/ BeginRefused(c) \/ InsertOrReplaceRow(c)
               \/ DeleteOldFactors(c) \/ InsertNextFactor(c) \/ StatementFails(c)
        PROVE  Stutters
    <3>1. /\ hist' = hist /\ op' = op
          /\ {pc[c], pc'[c]} \subseteq WritePc \ {"committed"}
          /\ \A d \in Conn \ {c} : pc'[d] = pc[d]
      BY <2>7, <2>0 DEF BeginImmediate, BeginRefused, InsertOrReplaceRow, DeleteOldFactors,
           InsertNextFactor, StatementFails, Goto, WritePc
    <3>2. \A d \in Conn : callBar'[d] = callBar[d]
      BY <3>1, <2>0 DEF WritePc
    <3>3. left' = left /\ torn' = torn
      BY <2>7 DEF BeginImmediate, BeginRefused, InsertOrReplaceRow, DeleteOldFactors,
           InsertNextFactor, StatementFails
    <3>4. QED
      BY <2>00, <2>a, <3>1, <3>2, <3>3
  <2>8. ASSUME NEW c \in Conn,
               \/ SelectRows(c) \/ (\E r \in todo[c] : SelectFactors(c, r))
               \/ RowsDone(c) \/ ReturnEvents(c)
               \/ (\E s \in Segment : EventsForSegment(c, s))
        PROVE  Stutters
    <3>1. /\ hist' = hist
          /\ {pc[c], pc'[c]} \subseteq ReadPc \cup {"idle"}
          /\ \A d \in Conn \ {c} : pc'[d] = pc[d] /\ op'[d] = op[d]
      BY <2>8, <2>0 DEF SelectRows, SelectFactors, RowsDone, ReturnEvents, Leave,
           EventsForSegment, Goto, ReadPc
    <3>2. \A d \in Conn : callBar'[d] = callBar[d]
      BY <3>1, <2>0 DEF WritePc, ReadPc
    <3>3. left' = left /\ torn' = torn
      BY <2>8 DEF SelectRows, SelectFactors, RowsDone, ReturnEvents, EventsForSegment
    <3>4. QED
      BY <2>00, <2>a, <3>1, <3>2, <3>3
  <2>8a. ASSUME NEW c \in Conn, Escape(c), pc[c] \in ReadPc  PROVE Stutters
    <3>1. /\ hist' = hist /\ torn' = torn /\ pc[c] \notin WritePc
          /\ {pc[c], pc'[c]} \subseteq ReadPc \cup {"idle"}
          /\ \A d \in Conn \ {c} : pc'[d] = pc[d] /\ op'[d] = op[d]
      BY <2>8a, <2>0 DEF Escape, Leave, Goto, ReadPc, WritePc
    <3>2. left' = left
      <4>1. left \in [Conn -> Id \cup {None}] /\ left' = [left EXCEPT ![c] = left[c]]
        BY <2>8a, <3>1 DEF Escape, TypeOK
      <4>2. QED
        BY <4>1
    <3>3. \A d \in Conn : callBar'[d] = callBar[d]
      BY <3>1, <2>0 DEF WritePc, ReadPc
    <3>4. QED
      BY <2>00, <2>a, <3>1, <3>2, <3>3
  <2>8b. ASSUME NEW c \in Conn, Escape(c), pc[c] \notin ReadPc
         PROVE  Log!BreakOff(c, op[c]) /\ op[c] \in Event
    <3>1. /\ pc[c] \in WritePc /\ op[c] \in Event
          /\ callBar[c] \in {Log!Pending(op[c]), Log!Applied(op[c])}
          /\ callBar'[c] = Log!Idle /\ hist' = hist /\ torn' = torn
      BY <2>8b, <2>0 DEF Escape, Leave, Goto, WritePc
    <3>2. \A d \in Conn \ {c} : pc'[d] = pc[d] /\ op'[d] = op[d]
      BY <2>8b, <2>0 DEF Escape, Leave, Goto
    <3>3. \/ left' = left
          \/ /\ callBar[c] = Log!Pending(op[c]) /\ left[c] = None
             /\ left' = [left EXCEPT ![c] = op[c].id]
      <4>0. left \in [Conn -> Id \cup {None}]
        BY DEF TypeOK
      <4>1. CASE lock = c /\ left[c] = None
        <5>1. pc[c] # "committed"
          BY <4>1 DEF LockDiscipline, InTransaction
        <5>2. callBar[c] = Log!Pending(op[c])
          BY <2>0, <3>1, <5>1 DEF WritePc
        <5>3. left' = [left EXCEPT ![c] = op[c].id]
          BY <2>8b, <3>1, <4>1 DEF Escape
        <5>4. QED
          BY <4>1, <5>2, <5>3
      <4>2. CASE ~(lock = c /\ left[c] = None)
        <5>1. left' = [left EXCEPT ![c] = left[c]]
          BY <2>8b, <4>2 DEF Escape
        <5>2. QED
          BY <4>0, <5>1
      <4>3. QED
        BY <4>1, <4>2
    <3>4. QED
      BY <3>1, <3>2, <3>3, <2>a, MappedCallStep DEF Log!BreakOff
  <2>9. CASE Checkpoint
    <3>1. pc' = pc /\ op' = op /\ left' = left /\ torn' = torn
      BY <2>9 DEF Checkpoint
    <3>2. callBar' = callBar
      BY <3>1 DEF callBar
    <3>3. statesBar' = <<Log!Current>>
      <4>1. Len(hist') = 1 /\ hist'[1] = Committed
        BY <2>9 DEF Checkpoint
      <4>2. statesBar' = [n \in 1..1 |-> Log!Current]
        BY <4>1, MappedCurrent DEF statesBar, EventsIn
      <4>3. QED
        BY <4>2
    <3>4. QED
      BY <3>1, <3>2, <3>3 DEF Log!LogNext, Log!MakeDurable
  <2>10. CASE PowerLoss
    <3>1. callBar' = [c \in Conn |-> Log!Down]
      BY <2>10, <2>0, <2>00 DEF PowerLoss
    <3>2. \E n \in 1..Len(statesBar) : statesBar' = SubSeq(statesBar, 1, n)
      <4>1. PICK n \in 1..Len(hist) : hist' = SubSeq(hist, 1, n)
        BY <2>10 DEF PowerLoss
      <4>2. statesBar = Mapped(hist) /\ statesBar' = Mapped(hist')
        BY DEF statesBar, Mapped, EventsIn
      <4>3. hist \in Seq(Database)
        BY DEF TypeOK
      <4>4. statesBar' = SubSeq(statesBar, 1, n)
        BY <4>1, <4>2, <4>3, MappedSubSeq
      <4>5. n \in 1..Len(statesBar)
        BY MappedCurrent
      <4>6. QED
        BY <4>4, <4>5
    <3>3. Log!LosePower
      BY <2>10, <3>1, <3>2 DEF Log!LosePower, PowerLoss
    <3>4. QED
      BY <3>3 DEF Log!LogNext
  <2>11. CASE UNCHANGED vars
    BY <2>11 DEF vars, statesBar, callBar, EventsIn
  <2>12. ASSUME NEW c \in Conn,
                \/ Open(c) \/ Close(c) \/ Crash(c) \/ Commit(c) \/ Rollback(c)
                \/ ReturnFromRecord(c) \/ (\E e \in Event : RecordEvent(c, e))
                \/ (Escape(c) /\ pc[c] \notin ReadPc)
         PROVE  Log!LogNext
    BY <2>1, <2>2, <2>2a, <2>3, <2>4, <2>5, <2>6, <2>8b, <2>12, Zenon DEF Log!LogNext
  <2> HIDE DEF Stutters
  <2>13. QED
    BY <2>7, <2>8, <2>8a, <2>9, <2>10, <2>11, <2>12 DEF Next, WriteStep, ReadStep
<1>3. QED
  BY <1>1, <1>2, TypeCorrect, LockIsDisciplined, TransactionsAreIsolated, PTL
     DEF Spec, ImplementsRiskLog, Log!LogSpec

-----------------------------------------------------------------------------
(* What the log promises, the store keeps.                                 *)

\* What one effect, or one call that was broken off, makes of a log state; T is
\* the set of torn ids.
Apart(u, v, T) ==
  \/ \E e \in Event : v = [u EXCEPT ![e.id] = e]
  \/ \E i \in T : \A j \in Id \ {i} : v[j] = u[j]

\* Consecutive states of a history are one effect apart.
Stepwise(s, T) == \A n \in 1..(Len(s) - 1) : Apart(s[n], s[n + 1], T)

\* An id stays torn.
LEMMA StepwiseGrows ==
  ASSUME NEW s, NEW T, NEW U, T \subseteq U, Stepwise(s, T)
  PROVE  Stepwise(s, U)
BY DEF Stepwise, Apart

\* One more effect leaves a history stepwise.
LEMMA StepwiseAppend ==
  ASSUME NEW S, NEW s \in Seq(S), NEW v \in S, NEW T, Len(s) > 0, Stepwise(s, T),
         Apart(s[Len(s)], v, T)
  PROVE  /\ Stepwise(Append(s, v), T)
         /\ Append(s, v)[Len(Append(s, v))] = v
<1> DEFINE N == Len(s)
           t == Append(s, v)
<1>1. /\ N \in Nat /\ N # 0
      /\ t \in Seq(S) /\ Len(t) = N + 1 /\ t[N + 1] = v
      /\ \A n \in 1..N : t[n] = s[n]
  BY AppendProperties
<1>2. Apart(s[N], v, T) /\ \A n \in 1..(N - 1) : Apart(s[n], s[n + 1], T)
  BY DEF Stepwise
<1> HIDE DEF t, N
<1>3. ASSUME NEW n \in 1..((N + 1) - 1)  PROVE Apart(t[n], t[n + 1], T)
  <2>1. CASE n = N
    <3>1. t[n] = s[N] /\ t[n + 1] = v
      BY <1>1, <2>1
    <3>2. QED
      BY <1>2, <3>1
  <2>2. CASE n # N
    <3>1. n \in 1..(N - 1) /\ n \in 1..N /\ n + 1 \in 1..N
      BY <1>1, <2>2
    <3>2. t[n] = s[n] /\ t[n + 1] = s[n + 1] /\ Apart(s[n], s[n + 1], T)
      BY <1>1, <1>2, <3>1
    <3>3. QED
      BY <3>2
  <2>3. QED
    BY <2>1, <2>2
<1>4. Stepwise(t, T)
  BY <1>1, <1>3 DEF Stepwise
<1>5. QED
  BY <1>1, <1>4 DEF t

\* A checkpoint and a power loss leave a history stepwise.
LEMMA StepwiseCut ==
  ASSUME NEW S, NEW s \in Seq(S), NEW T, Len(s) > 0, Stepwise(s, T)
  PROVE  /\ Stepwise(<<s[Len(s)]>>, T)
         /\ \A k \in 1..Len(s) : Stepwise(SubSeq(s, 1, k), T)
<1>1. Stepwise(<<s[Len(s)]>>, T)
  BY DEF Stepwise
<1>2. ASSUME NEW k \in 1..Len(s)
      PROVE  Stepwise(SubSeq(s, 1, k), T)
  <2> DEFINE t == SubSeq(s, 1, k)
  <2>1. /\ t \in Seq(S) /\ Len(t) = k /\ Len(s) \in Nat
        /\ \A n \in 1..k : t[n] = s[n]
    BY SubSeqProperties
  <2> HIDE DEF t
  <2>2. ASSUME NEW n \in 1..(k - 1)
        PROVE  Apart(t[n], t[n + 1], T)
    <3>1. n \in 1..(Len(s) - 1) /\ n \in 1..k /\ n + 1 \in 1..k
      BY <2>1
    <3>2. Apart(s[n], s[n + 1], T) /\ t[n] = s[n] /\ t[n + 1] = s[n + 1]
      BY <2>1, <3>1 DEF Stepwise
    <3>3. QED
      BY <3>2
  <2>3. QED
    BY <2>1, <2>2 DEF Stepwise, t
<1>3. QED
  BY <1>1, <1>2

\* A call that took effect left an event under its id, if that was not torn.
Kept(called, current, T) ==
  \A c \in Conn, e \in Event : called[c] = Log!Applied(e) =>
    \/ e.id \in T
    \/ current[e.id] \in Event /\ current[e.id].id = e.id

\* Calls that have not taken effect leave what was kept.
LEMMA KeptStays ==
  ASSUME NEW c \in Conn, NEW x, NEW current, NEW called, NEW T, DOMAIN called = Conn,
         Kept(called, current, T), \A e \in Event : x # Log!Applied(e)
  PROVE  Kept([called EXCEPT ![c] = x], current, T)
BY DEF Kept

\* The invariant of the abstract log.
LogIInv ==
  /\ Stepwise(statesBar, torn)
  /\ Kept(callBar, Log!Current, torn)

\* Every step of the log keeps its invariant.
LEMMA LogIInvStep ==
  ASSUME NEW S, statesBar \in Seq(S), statesBar' \in Seq(S), Len(statesBar) > 0,
         \A v \in S : v = [i \in Id |-> v[i]],
         LogIInv, [Log!LogNext]_(Log!logVars)
  PROVE  LogIInv'
<1> DEFINE s == statesBar
           last == s[Len(s)]
<1>0. DOMAIN callBar = Conn
  BY DEF callBar
<1>1. /\ s \in Seq(S) /\ s' \in Seq(S) /\ Len(s) > 0 /\ Len(s) \in Nat
      /\ last \in S /\ Log!Current = last /\ Stepwise(s, torn)
      /\ Kept(callBar, last, torn)
  BY LenProperties, ElementOfSeq DEF LogIInv, Log!Current
<1>2. ASSUME s' = s, torn' = torn, NEW c \in Conn, NEW x,
             callBar' = [callBar EXCEPT ![c] = x], \A e \in Event : x # Log!Applied(e)
      PROVE  LogIInv'
  <2>1. Kept([callBar EXCEPT ![c] = x], last, torn)
    <3> DEFINE called == callBar
    <3>1. DOMAIN called = Conn /\ Kept(called, last, torn)
      BY <1>0, <1>1
    <3> HIDE DEF called, last
    <3>2. Kept([called EXCEPT ![c] = x], last, torn)
      BY <1>2, <3>1, KeptStays
    <3>3. QED
      BY <3>2 DEF called
  <2>2. Stepwise(s', torn') /\ Log!Current' = last
    BY <1>1, <1>2 DEF Log!Current
  <2> HIDE DEF s, last
  <2>3. Kept(callBar', Log!Current', torn')
    BY <1>2, <2>1, <2>2
  <2>4. QED
    BY <2>2, <2>3 DEF LogIInv, s
<1>a. \A e \in Event, x \in {Log!Idle, Log!Down} : x # Log!Applied(e)
  BY DEF Log!Idle, Log!Down, Log!Applied
<1>b. \A e, f \in Event : Log!Pending(e) # Log!Applied(f)
  BY DEF Log!Pending, Log!Applied
<1>3. ASSUME NEW c \in Conn, Log!Start(c) \/ Log!Stop(c)  PROVE LogIInv'
  <2>1. \E x \in {Log!Idle, Log!Down} :
          callBar' = [callBar EXCEPT ![c] = x] /\ s' = s /\ torn' = torn
    BY <1>3 DEF Log!Start, Log!Stop
  <2>2. QED
    BY <1>2, <1>a, <2>1
<1>4. ASSUME NEW c \in Conn, NEW e \in Event,
             Log!Record(c, e) \/ Log!Return(c, e) \/ Log!Raise(c, e) \/ Log!BreakOff(c, e)
      PROVE  LogIInv'
  <2>1. \E x \in {Log!Idle, Log!Pending(e)} :
          callBar' = [callBar EXCEPT ![c] = x] /\ s' = s /\ torn' = torn
    BY <1>4 DEF Log!Record, Log!Return, Log!Raise, Log!BreakOff
  <2>2. QED
    BY <1>2, <1>a, <1>b, <2>1
<1>5. ASSUME NEW c \in Conn, NEW e \in Event, Log!TakeEffect(c, e)  PROVE LogIInv'
  <2> DEFINE v == [last EXCEPT ![e.id] = e]
  <2>1. s' = Append(s, v) /\ callBar' = [callBar EXCEPT ![c] = Log!Applied(e)] /\ torn' = torn
    BY <1>1, <1>5 DEF Log!TakeEffect
  <2>2. e.id \in Id /\ v[e.id] = e /\ \A i \in Id \ {e.id} : v[i] = last[i]
    BY <1>1, EventAssumption
  <2>3. Apart(last, v, torn)
    BY DEF Apart
  <2> HIDE DEF v, last
  <2>4. v \in S
    <3>1. Len(s') = Len(s) + 1 /\ s'[Len(s) + 1] = v
      <4> HIDE DEF s
      <4>1. s \in Seq(S \cup {v}) /\ v \in S \cup {v}
        BY <1>1
      <4>2. QED
        BY <2>1, <4>1, AppendProperties
    <3> HIDE DEF s
    <3>2. QED
      BY <1>1, <3>1, ElementOfSeq
  <2>5. Stepwise(s', torn) /\ s'[Len(s')] = v
    <3> HIDE DEF s
    <3>1. s[Len(s)] = last
      BY DEF last
    <3>2. QED
      BY <1>1, <2>1, <2>3, <2>4, <3>1, StepwiseAppend
  <2>6. ASSUME NEW d \in Conn, NEW f \in Event, callBar'[d] = Log!Applied(f)
        PROVE  f.id \in torn \/ (v[f.id] \in Event /\ v[f.id].id = f.id)
    <3>1. f.id \in Id
      BY EventAssumption
    <3>2. CASE f.id = e.id
      BY <2>2, <3>2
    <3>3. CASE f.id # e.id
      <4>1. ASSUME d = c PROVE FALSE
        <5>1. callBar'[d] = Log!Applied(e)
          BY <1>0, <2>1, <4>1
        <5>2. QED
          BY <2>6, <3>3, <5>1 DEF Log!Applied
      <4>2. callBar[d] = Log!Applied(f)
        BY <1>0, <2>1, <2>6, <4>1
      <4>3. f.id \in torn \/ (last[f.id] \in Event /\ last[f.id].id = f.id)
        BY <1>1, <4>2 DEF Kept
      <4>4. QED
        BY <2>2, <3>1, <3>3, <4>3
    <3>4. QED
      BY <3>2, <3>3
  <2>7. Kept(callBar', v, torn)
    BY <2>6 DEF Kept
  <2>8. QED
    BY <2>1, <2>5, <2>7 DEF LogIInv, Log!Current
<1>6. ASSUME NEW c \in Conn, Log!StopTorn(c)  PROVE LogIInv'
  <2> DEFINE w == left[c]
             v == [last EXCEPT ![w] = s'[Len(s) + 1][w]]
  <2>1. s' = Append(s, v) /\ callBar' = [callBar EXCEPT ![c] = Log!Down] /\ torn' = torn \cup {w}
    BY <1>1, <1>6 DEF Log!StopTorn
  <2>2. \A i \in Id \ {w} : v[i] = last[i]
    BY <1>1
  <2> HIDE DEF v, last, w
  <2>3. Apart(last, v, torn')
    BY <2>1, <2>2 DEF Apart
  <2>4. v \in S
    <3>1. Len(s') = Len(s) + 1 /\ s'[Len(s) + 1] = v
      <4> HIDE DEF s
      <4>1. s \in Seq(S \cup {v}) /\ v \in S \cup {v}
        BY <1>1
      <4>2. QED
        BY <2>1, <4>1, AppendProperties
    <3> HIDE DEF s
    <3>2. QED
      BY <1>1, <3>1, ElementOfSeq
  <2>5. Stepwise(s', torn') /\ s'[Len(s')] = v
    <3>0. Stepwise(s, torn')
      BY <1>1, <2>1, StepwiseGrows
    <3> HIDE DEF s
    <3>1. s[Len(s)] = last
      BY DEF last
    <3>2. QED
      BY <1>1, <2>1, <2>3, <2>4, <3>0, <3>1, StepwiseAppend
  <2>6. ASSUME NEW d \in Conn, NEW f \in Event, callBar'[d] = Log!Applied(f)
        PROVE  f.id \in torn' \/ (v[f.id] \in Event /\ v[f.id].id = f.id)
    <3>1. f.id \in Id
      BY EventAssumption
    <3>2. callBar[d] = Log!Applied(f)
      BY <1>0, <1>a, <2>1, <2>6
    <3>3. f.id \in torn \/ (last[f.id] \in Event /\ last[f.id].id = f.id)
      BY <1>1, <3>2 DEF Kept
    <3>4. QED
      BY <2>1, <2>2, <3>1, <3>3
  <2>7. Kept(callBar', v, torn')
    BY <2>6 DEF Kept
  <2>8. QED
    BY <2>5, <2>7 DEF LogIInv, Log!Current
<1>7. CASE Log!MakeDurable
  <2>1. s' = <<last>> /\ callBar' = callBar /\ torn' = torn
    BY <1>1, <1>7 DEF Log!MakeDurable
  <2>2. Stepwise(<<last>>, torn)
    <3> HIDE DEF s
    <3>1. QED
      BY <1>1, StepwiseCut DEF last
  <2> HIDE DEF last, s
  <2>3. Stepwise(s', torn') /\ s'[Len(s')] = last
    BY <2>1, <2>2
  <2>4. QED
    BY <1>1, <2>1, <2>3 DEF LogIInv, Log!Current, s
<1>8. CASE Log!LosePower
  <2>1. PICK n \in 1..Len(s) : s' = SubSeq(s, 1, n)
    BY <1>8 DEF Log!LosePower
  <2>2. Stepwise(s', torn')
    <3>1. torn' = torn
      BY <1>8 DEF Log!LosePower
    <3> HIDE DEF s
    <3>2. QED
      BY <1>1, <2>1, <3>1, StepwiseCut
  <2>3. \A c \in Conn : callBar'[c] = Log!Down
    BY <1>8 DEF Log!LosePower
  <2>4. Kept(callBar', Log!Current', torn')
    BY <2>3, <1>a DEF Kept
  <2>5. QED
    BY <2>2, <2>4 DEF LogIInv
<1>9. CASE UNCHANGED Log!logVars
  BY <1>9 DEF Log!logVars, LogIInv, Log!Current
<1>10. QED
  BY <1>3, <1>4, <1>5, <1>6, <1>7, <1>8, <1>9 DEF Log!LogNext

\* The store keeps the invariant of the log.
LEMMA LogIInvariance == Spec => []LogIInv
<1>1. TypeOK /\ Log!LogInit => LogIInv
  <2> SUFFICES ASSUME Log!LogInit  PROVE LogIInv
    OBVIOUS
  <2>1. statesBar = <<Log!Empty>> /\ \A c \in Conn : callBar[c] = Log!Down
    BY DEF Log!LogInit
  <2>2. Stepwise(statesBar, torn)
    BY <2>1 DEF Stepwise
  <2>3. Kept(callBar, Log!Current, torn)
    BY <2>1 DEF Kept, Log!Down, Log!Applied
  <2>4. QED
    BY <2>2, <2>3 DEF LogIInv
<1>2. TypeOK /\ TypeOK' /\ LogIInv /\ [Log!LogNext]_(Log!logVars) => LogIInv'
  <2> SUFFICES ASSUME TypeOK, TypeOK', LogIInv, [Log!LogNext]_(Log!logVars)
               PROVE  LogIInv'
    OBVIOUS
  <2> DEFINE S == {EventsIn(db) : db \in Database}
  <2>1. /\ hist \in Seq(Database) /\ hist' \in Seq(Database) /\ Len(hist) > 0
        /\ statesBar = Mapped(hist) /\ statesBar' = Mapped(hist')
    BY DEF TypeOK, statesBar, Mapped, EventsIn
  <2>2. statesBar \in Seq(S) /\ statesBar' \in Seq(S) /\ Len(statesBar) > 0
    BY <2>1, MappedType
  <2>3. \A v \in S : v = [i \in Id |-> v[i]]
    BY DEF EventsIn
  <2> HIDE DEF S
  <2>4. QED
    BY <2>2, <2>3, LogIInvStep
<1>3. QED
  BY <1>1, <1>2, TypeCorrect, StoreImplementsLog, PTL DEF ImplementsRiskLog, Log!LogSpec

\* What a power loss leaves is the database that some of the calls, the first
\* ones since the last checkpoint, led to one by one; no commit changes more
\* than the event it records (store.py:71-93), and close() on an abandoned
\* recording (store.py:191) no more than that recording's id.
THEOREM HistoryIsStepwise == Spec => []Log!OneEffectApart
<1>1. LogIInv => Log!OneEffectApart
  BY DEF LogIInv, Stepwise, Apart, Log!OneEffectApart
<1>2. QED
  BY <1>1, LogIInvariance, PTL

\* When record_event returns, its event is in the log, or another one under the
\* same id, and readers find it whole (StatesAreWhole), unless a recording of
\* that id was abandoned and committed by close().
THEOREM ReturnedMeansRecorded == Spec => []Log!ReturnedIsRecorded
<1>1. LogIInv => Log!ReturnedIsRecorded
  BY DEF LogIInv, Kept, Log!ReturnedIsRecorded
<1>2. QED
  BY <1>1, LogIInvariance, PTL
=============================================================================
