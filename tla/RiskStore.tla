----------------------------- MODULE RiskStore -----------------------------
(***************************************************************************)
(* riskgraph_core.store.RiskStore: one SQLite file in WAL mode, shared by  *)
(* the processes of the system, each through a connection of its own.      *)
(*                                                                         *)
(* A connection runs one method at a time (every node spins on a           *)
(* single-threaded executor); the statements of different connections      *)
(* interleave.  record_event is one transaction of several statements.     *)
(* events_for_segment, the read under segment_risk and                     *)
(* evidence_for_segment, is NOT one: its SELECT on risk_event and each of  *)
(* its SELECTs on risk_factor sees the database as last committed when     *)
(* that statement runs.                                                    *)
(*                                                                         *)
(* SQLite is external: a transaction works on a private copy that COMMIT   *)
(* publishes and ROLLBACK, or the death of the process, throws away; one   *)
(* write lock; a BEGIN IMMEDIATE that meets the lock waits for at most the *)
(* busy timeout and then fails.  A statement of the connection that has a  *)
(* transaction open sees what it has written.  With synchronous=NORMAL a   *)
(* commit reaches the WAL file but is not synced, so a power loss may fall *)
(* back to any state committed since the last checkpoint.                  *)
(***************************************************************************)
EXTENDS Naturals, Sequences, FiniteSets

CONSTANTS
  Conn,       \* connections: memory node, planner, explainer, offline tools
  Id,         \* event ids
  Segment,    \* route segment ids
  NoSegment,  \* segment_id NULL or '': an event bound to no segment
  Factor,     \* a factor row: category, severity, source, detail
  Event,      \* the RiskEvents callers may record
  None,       \* no lock holder, no row, no event
  MaxStates,  \* bound: commits that may await a checkpoint
  MaxTorn     \* bound: ids whose abandoned recording may be committed

\* The columns of risk_event that the properties tell apart.
Row == [seg : Segment \cup {NoSegment}, ts : Nat]

\* RiskEvent.__post_init__ refuses an event without factors.
ASSUME EventAssumption ==
  Event \subseteq [id : Id, row : Row, factors : Seq(Factor) \ {<<>>}]

ASSUME NoneAssumption ==
  /\ None \notin Conn
  /\ None \notin Row
  /\ None \notin Event
  /\ None \notin Id

ASSUME BoundAssumption == MaxStates \in Nat /\ MaxTorn \in Nat

VARIABLES
  hist,   \* database states since the last checkpoint; the last is committed
  lock,   \* the connection that holds the write lock, or None
  txn,    \* the lock holder's uncommitted copy of the database
  pc,     \* the statement each connection is about to execute
  op,     \* the event a connection records, or the segment it reads
  todo,   \* rows fetched by events_for_segment whose factors are still unread
  out,    \* the events events_for_segment has assembled so far
  asOf,   \* history: the database the row SELECT saw
  left,   \* history: the id a connection's abandoned transaction is about
  torn    \* history: the ids of abandoned transactions that close() committed

vars == <<hist, lock, txn, pc, op, todo, out, asOf, left, torn>>

-----------------------------------------------------------------------------
(* The database: tables risk_event (by primary key) and risk_factor (the   *)
(* rows of an id in insertion order, which is the order a SELECT by id     *)
(* returns them in).                                                       *)

Database == [row : [Id -> Row \cup {None}], factors : [Id -> Seq(Factor)]]

EmptyDatabase == [row |-> [id \in Id |-> None], factors |-> [id \in Id |-> <<>>]]

Committed == hist[Len(hist)]

ReplaceRow(db, e) ==
  [row |-> [db.row EXCEPT ![e.id] = e.row], factors |-> db.factors]

SetFactors(db, e, fs) ==
  [row |-> db.row, factors |-> [db.factors EXCEPT ![e.id] = fs]]

\* Mutant: DELETE FROM risk_factor without its WHERE clause.
DeleteAllFactors(db, e) ==
  [row |-> db.row, factors |-> [i \in Id |-> <<>>]]

DeleteFactors(db, e) == SetFactors(db, e, <<>>)

InsertFactor(db, e) ==
  LET stored == db.factors[e.id]
  IN  SetFactors(db, e, Append(stored, e.factors[Len(stored) + 1]))

RowsOf(db, s) ==
  {[id |-> i, row |-> db.row[i]] : i \in {j \in Id : db.row[j] # None
                                                      /\ db.row[j].seg = s}}

WritePc == {"begin", "replace", "delete", "insert", "rollback", "committed"}
ReadPc == {"rows", "factors", "fetched"}

TypeOK ==
  /\ hist \in Seq(Database) /\ Len(hist) > 0
  /\ lock \in Conn \cup {None}
  /\ txn \in Database
  /\ pc \in [Conn -> {"down", "idle"} \cup WritePc \cup ReadPc]
  /\ op \in [Conn -> Event \cup Segment \cup {None}]
  /\ \A c \in Conn : /\ pc[c] \in WritePc => op[c] \in Event
                     /\ pc[c] \in ReadPc => op[c] \in Segment
  /\ todo \in [Conn -> SUBSET [id : Id, row : Row]]
  /\ out \in [Conn -> Seq([id : Id, row : Row, factors : Seq(Factor)])]
  /\ asOf \in [Conn -> Database]
  /\ left \in [Conn -> Id \cup {None}]
  /\ torn \subseteq Id

Init ==
  /\ hist = <<EmptyDatabase>>
  /\ lock = None
  /\ txn = EmptyDatabase
  /\ pc = [c \in Conn |-> "down"]
  /\ op = [c \in Conn |-> None]
  /\ todo = [c \in Conn |-> {}]
  /\ out = [c \in Conn |-> <<>>]
  /\ asOf = [c \in Conn |-> EmptyDatabase]
  /\ left = [c \in Conn |-> None]
  /\ torn = {}

Goto(c, label) == pc' = [pc EXCEPT ![c] = label]

\* The end of a method: back to its caller.
Leave(c) ==
  /\ Goto(c, "idle")
  /\ op' = [op EXCEPT ![c] = None]

\* Whatever transaction the connection has open is over.
EndTransaction(c) ==
  /\ lock' = IF lock = c THEN None ELSE lock
  /\ txn' = IF lock = c THEN EmptyDatabase ELSE txn
  /\ left' = [left EXCEPT ![c] = None]

-----------------------------------------------------------------------------
(* Opening and closing a store.                                            *)

Open(c) ==
  /\ pc[c] = "down"
  /\ Goto(c, "idle")
  /\ UNCHANGED <<hist, lock, txn, op, todo, out, asOf, left, torn>>

\* close() commits whatever transaction the connection has open.
Close(c) ==
  /\ pc[c] = "idle"
  /\ hist' = IF lock = c THEN Append(hist, txn) ELSE hist
  /\ torn' = IF left[c] # None THEN torn \cup {left[c]} ELSE torn
  /\ EndTransaction(c)
  /\ Goto(c, "down")
  /\ UNCHANGED <<op, todo, out, asOf>>

-----------------------------------------------------------------------------
(* record_event.                                                           *)

RecordEvent(c, e) ==
  /\ pc[c] = "idle"
  /\ Len(hist) < MaxStates
  /\ op' = [op EXCEPT ![c] = e]
  /\ Goto(c, "begin")
  /\ UNCHANGED <<hist, lock, txn, todo, out, asOf, left, torn>>

BeginImmediate(c) ==
  /\ pc[c] = "begin"
  /\ lock = None
  /\ lock' = c
  /\ txn' = Committed
  /\ Goto(c, "replace")
  /\ UNCHANGED <<hist, op, todo, out, asOf, left, torn>>

\* Mutant: no busy timeout, so BEGIN waits for as long as it takes.
BeginNeverRefused(c) == FALSE

\* The busy timeout ran out, or this connection already has a transaction.
BeginRefused(c) ==
  /\ pc[c] = "begin"
  /\ lock # None
  /\ Goto(c, "rollback")
  /\ UNCHANGED <<hist, lock, txn, op, todo, out, asOf, left, torn>>

InsertOrReplaceRow(c) ==
  /\ pc[c] = "replace"
  /\ txn' = ReplaceRow(txn, op[c])
  /\ Goto(c, "delete")
  /\ UNCHANGED <<hist, lock, op, todo, out, asOf, left, torn>>

DeleteOldFactors(c) ==
  /\ pc[c] = "delete"
  /\ txn' = DeleteFactors(txn, op[c])
  /\ Goto(c, "insert")
  /\ UNCHANGED <<hist, lock, op, todo, out, asOf, left, torn>>

AllInserted(c) == Len(txn.factors[op[c].id]) >= Len(op[c].factors)

\* One execution of executemany's statement.
InsertNextFactor(c) ==
  /\ pc[c] = "insert"
  /\ ~AllInserted(c)
  /\ txn' = InsertFactor(txn, op[c])
  /\ UNCHANGED <<hist, lock, pc, op, todo, out, asOf, left, torn>>

\* Mutant: every statement commits what is written so far.
CommitEarly(c) ==
  /\ pc[c] = "insert"
  /\ hist' = Append(hist, txn)
  /\ EndTransaction(c)
  /\ Goto(c, "committed")
  /\ UNCHANGED <<op, todo, out, asOf, torn>>

Commit(c) ==
  /\ pc[c] = "insert"
  /\ AllInserted(c)
  /\ hist' = Append(hist, txn)
  /\ EndTransaction(c)
  /\ Goto(c, "committed")
  /\ UNCHANGED <<op, todo, out, asOf, torn>>

\* Mutant: no except clause around the transaction.
StatementFailsUncaught(c) ==
  /\ pc[c] \in {"replace", "delete", "insert"}
  /\ Leave(c)
  /\ UNCHANGED <<hist, lock, txn, todo, out, asOf, left, torn>>

\* sqlite3.Error from a statement of the open transaction: a NULL in a NOT
\* NULL column (a NaN in the event), a full disk, an I/O error.
StatementFails(c) ==
  /\ pc[c] \in {"replace", "delete", "insert"}
  /\ Goto(c, "rollback")
  /\ UNCHANGED <<hist, lock, txn, op, todo, out, asOf, left, torn>>

\* Mutant: the except clause does not re-raise.
RollbackSwallowed(c) ==
  /\ pc[c] = "rollback"
  /\ EndTransaction(c)
  /\ Goto(c, "committed")
  /\ UNCHANGED <<hist, op, todo, out, asOf, torn>>

\* Mutant: the except clause re-raises without rolling back.
RollbackForgotten(c) ==
  /\ pc[c] = "rollback"
  /\ Leave(c)
  /\ UNCHANGED <<hist, lock, txn, todo, out, asOf, left, torn>>

\* The except clause: roll back what this connection has open, re-raise.
Rollback(c) ==
  /\ pc[c] = "rollback"
  /\ EndTransaction(c)
  /\ Leave(c)
  /\ UNCHANGED <<hist, todo, out, asOf, torn>>

ReturnFromRecord(c) ==
  /\ pc[c] = "committed"
  /\ Leave(c)
  /\ UNCHANGED <<hist, lock, txn, todo, out, asOf, left, torn>>

\* An exception that is no sqlite3.Error (Ctrl-C, no memory), or one from the
\* roll back itself, leaves the method where it is: nothing is rolled back.
Escape(c) ==
  /\ pc[c] \in WritePc \cup ReadPc
  /\ lock = c => Cardinality(torn) < MaxTorn
  /\ Leave(c)
  /\ left' = [left EXCEPT ![c] = IF lock = c /\ pc[c] \in WritePc /\ @ = None
                                 THEN op[c].id ELSE @]
  /\ todo' = [todo EXCEPT ![c] = {}]
  /\ out' = [out EXCEPT ![c] = <<>>]
  /\ asOf' = [asOf EXCEPT ![c] = EmptyDatabase]
  /\ UNCHANGED <<hist, lock, txn, torn>>

-----------------------------------------------------------------------------
(* events_for_segment.                                                     *)

\* What a statement of the connection sees.
Visible(c) == IF lock = c THEN txn ELSE Committed

\* Mutant: the argument of the call before is read again.
EventsForStaleSegment(c, s) ==
  /\ pc[c] = "idle"
  /\ Goto(c, "rows")
  /\ UNCHANGED <<hist, lock, txn, op, todo, out, asOf, left, torn>>

EventsForSegment(c, s) ==
  /\ pc[c] = "idle"
  /\ op' = [op EXCEPT ![c] = s]
  /\ Goto(c, "rows")
  /\ UNCHANGED <<hist, lock, txn, todo, out, asOf, left, torn>>

\* Mutant: the rows come from the transaction that is open.
SelectRowsUncommitted(c) ==
  /\ pc[c] = "rows"
  /\ todo' = [todo EXCEPT ![c] = RowsOf(txn, op[c])]
  /\ out' = [out EXCEPT ![c] = <<>>]
  /\ asOf' = [asOf EXCEPT ![c] = Committed]
  /\ Goto(c, "factors")
  /\ UNCHANGED <<hist, lock, txn, op, left, torn>>

SelectRows(c) ==
  /\ pc[c] = "rows"
  /\ todo' = [todo EXCEPT ![c] = RowsOf(Visible(c), op[c])]
  /\ out' = [out EXCEPT ![c] = <<>>]
  /\ asOf' = [asOf EXCEPT ![c] = Visible(c)]
  /\ Goto(c, "factors")
  /\ UNCHANGED <<hist, lock, txn, op, left, torn>>

\* Mutant: fetchone() where fetchall() is meant.
AssembleFirst(events, r, found) ==
  IF found = <<>> THEN events
  ELSE Append(events, [id |-> r.id, row |-> r.row, factors |-> <<found[1]>>])

\* A row without factors is skipped.
Assemble(events, r, found) ==
  IF found = <<>> THEN events
  ELSE Append(events, [id |-> r.id, row |-> r.row, factors |-> found])

\* Mutant: one event per timestamp.
SelectFactorsByTime(c, r) ==
  /\ pc[c] = "factors"
  /\ r \in todo[c]
  /\ \A q \in todo[c] : r.row.ts <= q.row.ts
  /\ todo' = [todo EXCEPT ![c] = {q \in @ : q.row.ts # r.row.ts}]
  /\ out' = [out EXCEPT ![c] = Assemble(@, r, Visible(c).factors[r.id])]
  /\ UNCHANGED <<hist, lock, txn, pc, op, asOf, left, torn>>

\* The rows come ORDER BY timestamp; SQLite fixes no order among equal ones.
SelectFactors(c, r) ==
  /\ pc[c] = "factors"
  /\ r \in todo[c]
  /\ \A q \in todo[c] : r.row.ts <= q.row.ts
  /\ todo' = [todo EXCEPT ![c] = @ \ {r}]
  /\ out' = [out EXCEPT ![c] = Assemble(@, r, Visible(c).factors[r.id])]
  /\ UNCHANGED <<hist, lock, txn, pc, op, asOf, left, torn>>

\* Mutant: the loop ends before its last row.
RowsDoneEarly(c) ==
  /\ pc[c] = "factors"
  /\ todo[c] = {} \/ \E r \in todo[c] : todo[c] = {r}
  /\ todo' = [todo EXCEPT ![c] = {}]
  /\ Goto(c, "fetched")
  /\ UNCHANGED <<hist, lock, txn, op, out, asOf, left, torn>>

RowsDone(c) ==
  /\ pc[c] = "factors"
  /\ todo[c] = {}
  /\ Goto(c, "fetched")
  /\ UNCHANGED <<hist, lock, txn, op, todo, out, asOf, left, torn>>

\* The events go to segment_risk or evidence_for_segment.
ReturnEvents(c) ==
  /\ pc[c] = "fetched"
  /\ Leave(c)
  /\ out' = [out EXCEPT ![c] = <<>>]
  /\ asOf' = [asOf EXCEPT ![c] = EmptyDatabase]
  /\ UNCHANGED <<hist, lock, txn, todo, left, torn>>

-----------------------------------------------------------------------------
(* Failures, and SQLite's own checkpoint.                                  *)

Crash(c) ==
  /\ pc[c] # "down"
  /\ EndTransaction(c)
  /\ Goto(c, "down")
  /\ op' = [op EXCEPT ![c] = None]
  /\ todo' = [todo EXCEPT ![c] = {}]
  /\ out' = [out EXCEPT ![c] = <<>>]
  /\ asOf' = [asOf EXCEPT ![c] = EmptyDatabase]
  /\ UNCHANGED <<hist, torn>>

Checkpoint ==
  /\ Len(hist) > 1
  /\ hist' = <<Committed>>
  /\ UNCHANGED <<lock, txn, pc, op, todo, out, asOf, left, torn>>

PowerLoss ==
  /\ \E n \in 1..Len(hist) : hist' = SubSeq(hist, 1, n)
  /\ lock' = None
  /\ txn' = EmptyDatabase
  /\ left' = [c \in Conn |-> None]
  /\ pc' = [c \in Conn |-> "down"]
  /\ op' = [c \in Conn |-> None]
  /\ todo' = [c \in Conn |-> {}]
  /\ out' = [c \in Conn |-> <<>>]
  /\ asOf' = [c \in Conn |-> EmptyDatabase]
  /\ UNCHANGED torn

-----------------------------------------------------------------------------

WriteStep(c) ==
  \/ BeginImmediate(c) \/ BeginRefused(c)
  \/ InsertOrReplaceRow(c) \/ DeleteOldFactors(c) \/ InsertNextFactor(c)
  \/ Commit(c) \/ Rollback(c) \/ ReturnFromRecord(c)

ReadStep(c) ==
  \/ SelectRows(c)
  \/ \E r \in todo[c] : SelectFactors(c, r)
  \/ RowsDone(c) \/ ReturnEvents(c)

Next ==
  \/ \E c \in Conn :
       \/ Open(c) \/ Close(c) \/ Crash(c)
       \/ \E e \in Event : RecordEvent(c, e)
       \/ \E s \in Segment : EventsForSegment(c, s)
       \/ WriteStep(c) \/ StatementFails(c) \/ Escape(c)
       \/ ReadStep(c)
  \/ Checkpoint
  \/ PowerLoss

Spec == Init /\ [][Next]_vars

\* A method that was called keeps executing statements, and SQLite answers
\* each of them: BEGIN within the busy timeout, the others at once.
Fairness == \A c \in Conn : WF_vars(WriteStep(c)) /\ WF_vars(ReadStep(c))

FairSpec == Spec /\ Fairness

-----------------------------------------------------------------------------
(* Safety.                                                                 *)

InTransaction(c) == pc[c] \in {"replace", "delete", "insert"}

\* The write lock belongs to exactly the connection that is between BEGIN and
\* COMMIT or ROLLBACK.  No method returns or raises with a transaction open,
\* except by an exception that the clause for sqlite3.Error does not catch;
\* until the connection next records, or closes, that transaction is the only
\* one, and nothing more is written in it.
LockDiscipline ==
  \A c \in Conn :
    /\ InTransaction(c) => lock = c
    /\ lock = c => \/ InTransaction(c) \/ pc[c] = "rollback"
                   \/ left[c] # None
    /\ left[c] # None => lock = c /\ ~InTransaction(c)

\* What a database holds under an id: nothing at all, one whole event, or
\* what an abandoned transaction has written of it: the row, and of the
\* factors those it had come to, or those of an earlier recording.
IsPrefixOf(s, t) == Len(s) <= Len(t) /\ \A n \in 1..Len(s) : s[n] = t[n]

HoldsEvent(db, i) ==
  \/ db.row[i] = None /\ db.factors[i] = <<>>
  \/ [id |-> i, row |-> db.row[i], factors |-> db.factors[i]] \in Event

HoldsPart(db, i) ==
  \E e, f \in Event : /\ e.id = i /\ db.row[i] = e.row
                      /\ f.id = i /\ IsPrefixOf(db.factors[i], f.factors)

HoldsEvents(db, parts) ==
  \A i \in Id : HoldsEvent(db, i) \/ (i \in parts /\ HoldsPart(db, i))

\* An open transaction differs from the committed database in the one event
\* it records, by as much of it as has been written: no other writer's commit
\* can be lost by publishing it.  An abandoned one, whenever close() publishes
\* it, still differs in that one id, and never removes its row.
IsolatedFrom(c, db) ==
  /\ \A i \in Id \ {op[c].id} : /\ txn.row[i] = db.row[i]
                                /\ txn.factors[i] = db.factors[i]
  /\ pc[c] = "replace" => txn = db
  /\ pc[c] = "delete" => /\ txn.row[op[c].id] = op[c].row
                         /\ txn.factors[op[c].id] = db.factors[op[c].id]
  /\ pc[c] = "insert" => /\ txn.row[op[c].id] = op[c].row
                         /\ IsPrefixOf(txn.factors[op[c].id], op[c].factors)

WrittenId(c) == IF left[c] = None THEN op[c].id ELSE left[c]

Contained(c, db) ==
  LET w == WrittenId(c)
  IN  /\ \A i \in Id \ {w} : /\ txn.row[i] = db.row[i]
                             /\ txn.factors[i] = db.factors[i]
      /\ HoldsEvent(txn, w) \/ HoldsPart(txn, w)
      /\ db.row[w] # None => txn.row[w] # None

TransactionIsolated ==
  \A c \in Conn :
    /\ InTransaction(c) => IsolatedFrom(c, Committed)
    /\ lock = c /\ ~InTransaction(c) => Contained(c, Committed)

\* Every state a power loss may fall back to holds whole events, except that
\* under an id whose recording was abandoned and then committed by close() it
\* may hold a part of one.
RecoverableStatesAreWhole ==
  \A n \in 1..Len(hist) : HoldsEvents(hist[n], torn)

\* The ids under which a connection may find a part of an event: those close()
\* tore, and the one it left open itself.
Suspect(c) == torn \cup ({left[c]} \ {None})

\* Every row that an events_for_segment in progress still has to complete has
\* its factors in the database, whatever was written since its SELECT, unless
\* the recording of its id was abandoned.
NoFactorlessRead ==
  \A c \in Conn : \A r \in todo[c] :
    r.id \notin Suspect(c) => Visible(c).factors[r.id] # <<>>

\* store.py:65: "Wrap the event + factor writes in a single transaction so a
\* concurrent reader can't observe an event row with no factors", with no
\* exception: close() commits the row of an abandoned recording.
NoBareRow ==
  \A c \in Conn : \A r \in todo[c] :
    lock # c => Committed.factors[r.id] # <<>>

\* The rows assembled and the rows still to complete are together those the
\* row SELECT returned, each assembled one with a factor list that some event
\* recorded under its id had in full; abandoned recordings excepted.
RowsOut(c) == {[id |-> out[c][n].id, row |-> out[c][n].row] : n \in 1..Len(out[c])}

OutWhole(c) ==
  \A n \in 1..Len(out[c]) :
    out[c][n].id \notin Suspect(c) =>
      \E e \in Event : e.id = out[c][n].id /\ e.factors = out[c][n].factors

Accounted(c, rows) ==
  LET selected == RowsOf(asOf[c], op[c])
  IN  rows \subseteq selected /\ \A r \in selected \ rows : r.id \in Suspect(c)

ReadInProgress(c) ==
  /\ pc[c] # "factors" => todo[c] = {}
  /\ \A r \in todo[c] : Visible(c).row[r.id] # None
  /\ pc[c] \in {"factors", "fetched"} =>
       /\ HoldsEvents(asOf[c], Suspect(c))
       /\ Accounted(c, RowsOut(c) \cup todo[c])
       /\ OutWhole(c)

ReadsInProgress == \A c \in Conn : ReadInProgress(c)

\* What a read that ended returns: exactly the rows of its row SELECT, none
\* of them dropped for want of factors or completed with half a factor list,
\* unless the recording of its id was abandoned.
Ended(c) == pc[c] = "fetched"

EveryRowReturnedWhole ==
  \A c \in Conn : Ended(c) => Accounted(c, RowsOut(c)) /\ OutWhole(c)

\* As far as ids are concerned that are never recorded with two different
\* contents nor abandoned, the read is as good as atomic: it returns the
\* segment's events as they stood when its row SELECT ran.
OneContent(i) == \A e, f \in Event : e.id = i /\ f.id = i => e = f

Settled(c) == {i \in Id : OneContent(i) /\ i \notin Suspect(c)}

ReadIsSnapshot ==
  \A c \in Conn : Ended(c) =>
    {out[c][n] : n \in {m \in 1..Len(out[c]) : out[c][m].id \in Settled(c)}} =
      {[id |-> i, row |-> asOf[c].row[i], factors |-> asOf[c].factors[i]] :
         i \in {j \in Settled(c) : asOf[c].row[j] # None
                                    /\ asOf[c].row[j].seg = op[c]}}

\* Every event a read returns is one that somebody recorded.
ReadsRecordedEvents ==
  \A c \in Conn : Ended(c) => \A n \in 1..Len(out[c]) : out[c][n] \in Event

-----------------------------------------------------------------------------
(* Liveness.                                                               *)

\* No writer keeps the others out for ever: a lock that is taken is given up,
\* unless the recording that took it was abandoned.
LockIsReleased == \A c \in Conn : (lock = c) ~> (lock # c \/ left[c] # None)

\* Every method that is called ends, even when writers contend for the lock
\* or an abandoned recording still holds it.
InMethod(c) == pc[c] \in WritePc \cup ReadPc

EveryCallEnds == \A c \in Conn : InMethod(c) ~> ~InMethod(c)

-----------------------------------------------------------------------------
(* The store implements the abstract log.                                  *)

EventsIn(db) ==
  [i \in Id |-> IF db.row[i] = None
                THEN None
                ELSE [id |-> i, row |-> db.row[i], factors |-> db.factors[i]]]

statesBar == [n \in 1..Len(hist) |-> EventsIn(hist[n])]

callBar ==
  [c \in Conn |->
     CASE pc[c] = "down" -> [st |-> "down"]
       [] pc[c] = "committed" -> [st |-> "applied", event |-> op[c]]
       [] pc[c] \in WritePc \ {"committed"} -> [st |-> "pending", event |-> op[c]]
       [] OTHER -> [st |-> "idle"]]

Log == INSTANCE RiskLog WITH
  Client <- Conn, NoEvent <- None, states <- statesBar, call <- callBar

\* record_event is atomic, returns only when it took effect and raises only
\* when it did not, unless it is abandoned; a crash loses nothing that was
\* committed.
ImplementsRiskLog == Log!LogSpec
=============================================================================
