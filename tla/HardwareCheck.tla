---------------------------- MODULE HardwareCheck ----------------------------
(***************************************************************************)
(* tests/hw/scenario_glossy_loop.py: phase one publishes slip events and   *)
(* asks for the safer arm, phase two asks again after a restart of the     *)
(* stack.  The operator brings the stack up and down in another terminal,  *)
(* whenever that may be; the store is a file that lives on.  The launch    *)
(* runs the adapters too, which report what they see while the script      *)
(* runs and before.  How long a sleep is to the other processes is open,   *)
(* so a sleep is no step.  The verdict of a phase is modelled, the exit    *)
(* code that sums them up is not.                                          *)
(***************************************************************************)
EXTENDS ScoringService

CONSTANT MaxChecks  \* bound: times the script is run

VARIABLES
  pc,      \* "publish", "service", "call", "poll", "prompt", "exit"
  check,   \* runs of the script
  arg,     \* --phase of this run: "one", "two" or "both"
  tty,     \* is there somebody at the prompt
  phase,   \* the phase that runs, 1 or 2
  sent,    \* events published by this run
  since,   \* launches of the stack when the phase began
  results  \* of each phase of this run: the answer judged, or NoAnswer

script == <<pc, check, arg, tty, phase, sent, since, results>>
vars == <<service, script>>

NoAnswer == [call |-> 0, chosen |-> "none", evidence |-> {}, recorded |-> {}, launch |-> 0]

NoResults == [p \in 1..2 |-> NoAnswer]

\* Each phase makes one call.
Call == 2 * check + phase

\* assert_chosen
Passed(a) == a.chosen = "safe" /\ a.evidence # {}

NotStarted == arg = "both" /\ tty = FALSE /\ phase = 1 /\ since = 0 /\ results = NoResults

Init ==
  /\ ServiceInit
  /\ seeded \in BOOLEAN
  /\ pc = "exit" /\ check = 0 /\ sent = 0
  /\ NotStarted

-----------------------------------------------------------------------------
(* The operator.                                                           *)

\* Mutant: the store is in memory.
StoreInMemory == EmptyStore

\* The same store_path at every launch.
StoreOnDisk == store

BringUp ==
  /\ ~up
  /\ launch < MaxLaunches
  /\ up' = TRUE /\ launch' = launch + 1
  /\ store' = StoreOnDisk
  /\ UNCHANGED <<seeded, traffic, answers, script>>

TakeDown ==
  /\ up
  /\ StackGone
  /\ UNCHANGED <<launch, seeded, store, answers, script>>

\* A new process: calls of an earlier one are answered to nobody.
StartScript ==
  /\ pc = "exit"
  /\ check < MaxChecks
  /\ check' = check + 1
  /\ arg' \in {"one", "two", "both"} /\ tty' \in BOOLEAN
  /\ phase' = IF arg' = "two" THEN 2 ELSE 1
  /\ pc' = IF arg' = "two" THEN "service" ELSE "publish"
  /\ sent' = 0 /\ since' = launch
  /\ results' = NoResults
  /\ matched' = FALSE
  /\ requests' = {} /\ answers' = {}
  /\ UNCHANGED <<stack, inbox, store>>

-----------------------------------------------------------------------------
(* The script.                                                             *)

PublishNext ==
  /\ pc = "publish"
  /\ sent < MaxEvents
  /\ Send(sent + 1, check)
  /\ sent' = sent + 1
  /\ UNCHANGED <<stack, matched, requests, store, answers>>
  /\ UNCHANGED <<pc, check, arg, tty, phase, since, results>>

PublishedAll ==
  /\ pc = "publish"
  /\ sent = MaxEvents
  /\ pc' = "service"
  /\ UNCHANGED <<service, check, arg, tty, phase, sent, since, results>>

ServiceFound ==
  /\ pc = "service"
  /\ up
  /\ pc' = "call"
  /\ UNCHANGED <<service, check, arg, tty, phase, sent, since, results>>

CallService ==
  /\ pc = "call"
  /\ requests' = IF up THEN requests \cup {Call} ELSE requests
  /\ pc' = "poll"
  /\ UNCHANGED <<stack, matched, inbox, store, answers>>
  /\ UNCHANGED <<check, arg, tty, phase, sent, since, results>>

\* The phase is over, passed or not.
EndPhase(a) ==
  /\ results' = [results EXCEPT ![phase] = a]
  /\ pc' = IF phase = 1 /\ arg = "both" THEN "prompt" ELSE "exit"
  /\ UNCHANGED <<service, check, arg, tty, phase, sent, since>>

\* wait_for_service gives up after 3 s.
ServiceMissing ==
  /\ pc = "service"
  /\ EndPhase(NoAnswer)

\* Mutant: whatever response has come.
TakeAnyAnswer ==
  /\ pc = "poll"
  /\ \E a \in answers : EndPhase(a)

TakeAnswer ==
  /\ pc = "poll"
  /\ Answered(Call)
  /\ EndPhase(AnswerTo(Call))

\* Mutant: the response is waited for without a deadline.
WaitForever == FALSE /\ UNCHANGED vars

\* Ten seconds are over; the answer may still come.
Deadline ==
  /\ pc = "poll"
  /\ ~Answered(Call)
  /\ EndPhase(NoAnswer)

BeginPhaseTwo ==
  /\ pc = "prompt"
  /\ phase' = 2 /\ since' = launch
  /\ pc' = "service"
  /\ UNCHANGED <<service, check, arg, tty, sent, results>>

PressEnter == tty /\ BeginPhaseTwo

\* input() raises EOFError, and the script sleeps for 10 s.
NobodyThere == ~tty /\ BeginPhaseTwo

Main ==
  \/ PublishNext \/ PublishedAll
  \/ ServiceFound \/ ServiceMissing
  \/ CallService \/ TakeAnswer \/ Deadline
  \/ NobodyThere

Node == (Discover \/ LiveEvent \/ OnEvent \/ OnScore) /\ UNCHANGED script

Next == BringUp \/ TakeDown \/ StartScript \/ PressEnter \/ Main \/ Node

\* The script waits for nothing but a time, except at the prompt.
Fairness == WF_vars(Main)

Spec == Init /\ [][Next]_vars /\ Fairness

-----------------------------------------------------------------------------

Done == {p \in 1..2 : results[p].launch > 0}

\* A phase is judged by an answer to its own call from a planner that ran when
\* the phase began or later: never by a late answer to an earlier call, though
\* calls that were given up stay with the planner.
AnswersAreOwn ==
  \A p \in Done : results[p].call = 2 * check + p /\ (p = phase => results[p].launch >= since)

\* What passed phase one passes phase two, however often and whenever the stack
\* was killed in between, and though live events may crowd out those that phase
\* one cited: an answer of phase two fails it only if the safe arm has some risk.
CrossRunHolds ==
  {1, 2} \subseteq Done /\ Passed(results[1]) /\ OnArm("safe") = {} => Passed(results[2])

-----------------------------------------------------------------------------
(* What the documents say and the code does not do.                        *)

\* "The verdict here proves the SQLite file persisted across the kill/restart":
\* when both phases pass, the planner was restarted in between.
PassProvesPersistence ==
  {1, 2} \subseteq Done /\ Passed(results[1]) /\ Passed(results[2]) =>
    results[1].launch < results[2].launch

\* "phase-1 (live event)": what passes phase one is an event of this run.  But
\* an alert of an adapter will do, or an event of an earlier run in the store.
PassProvesLiveEvent ==
  1 \in Done /\ Passed(results[1]) =>
    \E i \in results[1].evidence : store[i] # None /\ store[i].check = check

\* "The segments are pre-tagged via RiskEvent.segment_id in the synthetic
\* events": whatever the memory node knows, a scripted event is bound.
ScriptedEventsAreBound ==
  \A i \in 1..MaxEvents : store[i] # None => store[i].arm = "risky"
=============================================================================
