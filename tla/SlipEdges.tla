----------------------------- MODULE SlipEdges -----------------------------
(***************************************************************************)
(* How many events one slip becomes: the tactile adapter of                *)
(* riskgraph_memory sees a flag that the sensor publishes whenever it      *)
(* changes and in between, high while the foot slips, and reports the      *)
(* leading edges of what it sees.  Messages wait in a KEEP_LAST queue and  *)
(* the oldest is lost when it is full; the adapter may die and be started  *)
(* again.                                                                  *)
(*                                                                         *)
(* Slips are numbered.  The number of a message is history: it is not in   *)
(* the message, and no decision of the adapter depends on it.              *)
(***************************************************************************)
EXTENDS Topic

CONSTANTS
  Depth,     \* KEEP_LAST depth of the adapter's subscription
  MaxSlips,  \* bound: slips in all
  MaxRuns    \* bound: times the adapter is started

ASSUME EdgeAssumption ==
  Depth \in Nat \ {0} /\ MaxSlips \in Nat /\ MaxRuns \in Nat

VARIABLES
  flag,     \* does the sensor feel a slip
  slip,     \* which one, or the last one
  inbox,    \* flag messages that wait for _on_slip
  up,       \* is the adapter running
  run,      \* starts so far
  prev,     \* _prev
  seen,     \* the slips of which this run has received a high flag
  cleared,  \* the slips after which this run has received a low flag
  reports   \* the RiskEvents published: of which slip, by which run

sensor == <<flag, slip>>
adapter == <<up, run, prev, seen, cleared, reports>>
vars == <<sensor, inbox, adapter>>

Slip == 0..MaxSlips
Run == 0..MaxRuns
Flag == [data : BOOLEAN, slip : Slip]

TypeOK ==
  /\ flag \in BOOLEAN /\ slip \in Slip
  /\ inbox \in Seq(Flag) /\ Len(inbox) <= Depth
  /\ up \in BOOLEAN /\ prev \in BOOLEAN /\ run \in Run
  /\ seen \subseteq Slip /\ cleared \subseteq Slip
  /\ reports \in Seq([slip : Slip, run : Run])

Init ==
  /\ flag = FALSE /\ slip = 0
  /\ inbox = <<>>
  /\ up = FALSE /\ run = 0
  /\ prev = FALSE
  /\ seen = {} /\ cleared = {}
  /\ reports = <<>>

-----------------------------------------------------------------------------
(* The sensor.                                                             *)

\* The topic is volatile: what is published while the adapter is down is gone.
Publish(data, n) ==
  inbox' = IF up THEN KeepLast(inbox, [data |-> data, slip |-> n], Depth) ELSE inbox

StartSlipping ==
  /\ ~flag
  /\ slip < MaxSlips
  /\ flag' = TRUE
  /\ slip' = slip + 1
  /\ Publish(TRUE, slip + 1)
  /\ UNCHANGED adapter

StopSlipping ==
  /\ flag
  /\ flag' = FALSE
  /\ Publish(FALSE, slip)
  /\ UNCHANGED <<slip, adapter>>

\* The flag is published again while it does not change.
RepeatFlag ==
  /\ up
  /\ Publish(flag, slip)
  /\ UNCHANGED <<sensor, adapter>>

-----------------------------------------------------------------------------
(* The adapter.                                                            *)

StartAdapter ==
  /\ ~up
  /\ run < MaxRuns
  /\ up' = TRUE
  /\ run' = run + 1
  /\ prev' = FALSE
  /\ seen' = {} /\ cleared' = {}
  /\ UNCHANGED <<sensor, inbox, reports>>

Crash ==
  /\ up
  /\ up' = FALSE
  /\ inbox' = <<>>
  /\ UNCHANGED <<sensor, run, prev, seen, cleared, reports>>

\* Mutant: every high flag is reported.
IsLevel(m) == m.data

\* Mutant: the trailing edge is reported.
IsTrailingEdge(m) == ~m.data /\ prev

IsLeadingEdge(m) == m.data /\ ~prev

\* Mutant: a low flag is not remembered.
PrevIfHigh(m) == m.data \/ prev

NextPrev(m) == m.data

OnSlip ==
  /\ up
  /\ inbox # <<>>
  /\ LET m == Head(inbox)
     IN  /\ reports' = IF IsLeadingEdge(m)
                       THEN Append(reports, [slip |-> m.slip, run |-> run])
                       ELSE reports
         /\ prev' = NextPrev(m)
         /\ seen' = IF m.data THEN seen \cup {m.slip} ELSE seen
         /\ cleared' = IF m.data THEN cleared ELSE cleared \cup {m.slip}
  /\ inbox' = Tail(inbox)
  /\ UNCHANGED <<sensor, up, run>>

Next ==
  \/ StartSlipping \/ StopSlipping \/ RepeatFlag
  \/ StartAdapter \/ Crash \/ OnSlip

\* The sensor publishes at a fixed rate, and the executor of a node that runs
\* handles what waits.
Spec == Init /\ [][Next]_vars /\ WF_vars(RepeatFlag) /\ WF_vars(OnSlip)

-----------------------------------------------------------------------------
(* Safety.                                                                 *)

Reported(s) == \E k \in DOMAIN reports : reports[k].slip = s /\ reports[k].run = run

\* One run never reports a slip twice, however often its flag is published and
\* whatever the queue loses, and never reports an older slip after a newer one;
\* only another run may report it once more.  So slips and restarts bound the
\* events that reach the memory node.
ReportedInOrder ==
  \A k, n \in DOMAIN reports : k < n =>
    /\ reports[k].slip <= reports[n].slip
    /\ reports[k].slip = reports[n].slip => reports[k].run < reports[n].run

\* A slip that a run has received and not reported is one that the run could
\* not tell from an earlier slip: no low flag came in between.
MissedForCause ==
  \A s \in seen : ~Reported(s) =>
    \E r \in seen : r < s /\ Reported(r) /\ cleared \cap r..(s - 1) = {}

-----------------------------------------------------------------------------
(* Liveness.                                                               *)

\* The adapter runs, has last received a low flag, nothing older is in its
\* queue, and slip s lasts.
Held(s) ==
  /\ up /\ ~prev
  /\ flag /\ slip = s
  /\ \A n \in DOMAIN inbox : inbox[n].data => inbox[n].slip = s

\* Then it is reported, unless it ends or the adapter dies first.
HeldSlipIsReported ==
  \A s \in 1..MaxSlips : Held(s) ~> (Reported(s) \/ ~flag \/ ~up)

-----------------------------------------------------------------------------
(* What the documents say and the code does not do.                        *)

\* "Emits a single RiskEvent per leading edge": the rising flag of a slip that
\* this run of the adapter has received has become an event.
ReceivedSlipIsReported == \A s \in seen : Reported(s)
=============================================================================
