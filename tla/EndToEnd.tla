------------------------------ MODULE EndToEnd ------------------------------
(***************************************************************************)
(* scripts/ros_end_to_end_check.py: it deletes the shared store, runs the  *)
(* memory node and the planner on a thread of its own, publishes events,   *)
(* sleeps, calls score_routes, polls for the response until a deadline and *)
(* ends with an exit code.  It is the only emitter.  How long a sleep is   *)
(* to the other thread is open, so a sleep is no step.                     *)
(***************************************************************************)
EXTENDS ScoringService

CONSTANT MaxChecks  \* bound: times the script is run

VARIABLES
  pc,     \* "publish", "service", "call", "poll", "exit"
  check,  \* runs of the script, and the number of its one call
  sent,   \* events published by this run
  code    \* exit code of the run that ended

script == <<pc, check, sent, code>>
vars == <<service, script>>

Init ==
  /\ ServiceInit
  /\ seeded = FALSE
  /\ pc = "exit" /\ check = 0 /\ sent = 0 /\ code = 0

\* Mutant: the store of the last run is kept.
KeepStore == store

\* SHARED_DB is unlinked.
ResetStore == EmptyStore

\* Mutant: register_segments is not called.
NotRegistered == FALSE

\* memory.register_segments
Registered == TRUE

StartCheck ==
  /\ pc = "exit"
  /\ check < MaxChecks /\ launch < MaxLaunches
  /\ check' = check + 1
  /\ store' = ResetStore
  /\ up' = TRUE /\ launch' = launch + 1
  /\ seeded' = Registered
  /\ pc' = "publish" /\ sent' = 0
  /\ answers' = {}
  /\ UNCHANGED <<traffic, code>>

PublishNext ==
  /\ pc = "publish"
  /\ sent < MaxEvents
  /\ Send(sent + 1, check)
  /\ sent' = sent + 1
  /\ UNCHANGED <<stack, matched, requests, store, answers, pc, check, code>>

PublishedAll ==
  /\ pc = "publish"
  /\ sent = MaxEvents
  /\ pc' = "service"
  /\ UNCHANGED <<service, check, sent, code>>

\* A service whose thread has died is still advertised.
ServiceFound ==
  /\ pc = "service"
  /\ pc' = "call"
  /\ UNCHANGED <<service, check, sent, code>>

\* The nodes are destroyed, or die with the process.
Exit(c) ==
  /\ pc' = "exit"
  /\ code' = c
  /\ StackGone
  /\ UNCHANGED <<launch, seeded, store, answers, check, sent>>

\* wait_for_service gives up after 3 s.
ServiceMissing ==
  /\ pc = "service"
  /\ Exit(2)

CallService ==
  /\ pc = "call"
  /\ requests' = IF up THEN requests \cup {check} ELSE requests
  /\ pc' = "poll"
  /\ UNCHANGED <<stack, matched, inbox, store, answers, check, sent, code>>

Verdict(a) == a.chosen = "safe" /\ a.evidence # {}

TakeAnswer ==
  /\ pc = "poll"
  /\ Answered(check)
  /\ Exit(IF Verdict(AnswerTo(check)) THEN 0 ELSE 1)

\* Mutant: the response is waited for without a deadline.
WaitForever == FALSE /\ UNCHANGED vars

\* Five seconds are over.
Deadline ==
  /\ pc = "poll"
  /\ ~Answered(check)
  /\ Exit(3)

\* A callback raises, which ends the thread both nodes run on.
ExecutorDies ==
  /\ up
  /\ StackGone
  /\ UNCHANGED <<launch, seeded, store, answers, script>>

Main ==
  \/ PublishNext \/ PublishedAll
  \/ ServiceFound \/ ServiceMissing
  \/ CallService \/ TakeAnswer \/ Deadline

Node == (Discover \/ OnEvent \/ OnScore) /\ UNCHANGED script

Next == StartCheck \/ Main \/ Node \/ ExecutorDies

\* Nothing in main() waits but for a time.
Fairness == WF_vars(Main)

Spec == Init /\ [][Next]_vars /\ Fairness

-----------------------------------------------------------------------------

\* PASS proves the wiring: an event that this very run published went through
\* the topic, the memory node and the join into the store the planner reads,
\* whatever earlier runs left in the file.
PassProvesWiring ==
  pc = "exit" /\ check > 0 /\ code = 0 =>
    LET a == AnswerTo(check)
    IN  /\ a.evidence # {}
        /\ \A i \in a.evidence : store[i] # None /\ store[i].check = check

\* FAIL is not about the risk model: it means that nothing had been recorded
\* when the planner answered.
FailIsForDelivery ==
  pc = "exit" /\ code = 1 => AnswerTo(check).recorded = {}
=============================================================================
