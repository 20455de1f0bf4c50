------------------------------- MODULE Scripts -------------------------------
(***************************************************************************)
(* The programs that play events into the stack: the end-to-end script,    *)
(* the hardware scenario and the replay of a demo scenario.  A behaviour   *)
(* is of one of them, drawn at the start; they share the topic, the queue  *)
(* of the memory node and the store, and the rest of the others' state     *)
(* stands still.                                                           *)
(***************************************************************************)
EXTENDS ScoringService

CONSTANTS
  MaxChecks,  \* bound: times a script is run
  Scenario,   \* the demo fixture: a sequence of [id, age]
  DemoDepth,  \* KEEP_LAST depth of the demo's publisher and subscription
  MaxDemos,   \* bound: times the demo is launched
  Period      \* time between two launches

\* KEEP_LAST has room for the scenario.
ASSUME ReplayAssumption ==
  /\ Scenario \in Seq([id : STRING, age : Nat])
  /\ DemoDepth \in Nat \ {0} /\ Len(Scenario) <= DemoDepth
  /\ MaxChecks \in Nat /\ MaxDemos \in Nat /\ Period \in Nat \ {0}

VARIABLES
  script,                                      \* "e2e", "hw" or "replay"
  pc, check, sent,                             \* of both scripts
  code,                                        \* of the end-to-end script
  arg, tty, phase, since, results,             \* of the hardware scenario
  demo, pub, mem, early, failed, idx, timer, recorded  \* of the replay

scriptVars == <<pc, check, sent>>
hwVars == <<arg, tty, phase, since, results>>
replayVars == <<demo, pub, mem, early, failed, idx, timer, recorded>>
vars == <<service, script, scriptVars, code, hwVars, replayVars>>

E == INSTANCE EndToEnd
H == INSTANCE HardwareCheck
R == INSTANCE Replay WITH Depth <- DemoDepth

Init ==
  \/ script = "e2e" /\ E!Init /\ H!NotStarted /\ R!NotLaunched
  \/ script = "hw" /\ H!Init /\ code = 0 /\ R!NotLaunched
  \/ /\ script = "replay"
     /\ R!Init
     /\ up = FALSE /\ launch = 0 /\ seeded = FALSE /\ requests = {} /\ answers = {}
     /\ pc = "exit" /\ check = 0 /\ sent = 0 /\ code = 0
     /\ H!NotStarted

InEndToEnd == script = "e2e" /\ UNCHANGED <<script, hwVars, replayVars>>

InHardware == script = "hw" /\ UNCHANGED <<script, code, replayVars>>

InReplay ==
  /\ script = "replay"
  /\ UNCHANGED <<script, stack, requests, answers, scriptVars, code, hwVars>>

Next ==
  \/ E!Next /\ InEndToEnd
  \/ H!Next /\ InHardware
  \/ R!Next /\ InReplay

\* What is fair in each of them.
Fairness ==
  /\ WF_vars(E!Main /\ InEndToEnd)
  /\ WF_vars(H!Main /\ InHardware)
  /\ WF_vars((R!Tick \/ R!LastTick) /\ InReplay)
  /\ WF_vars(R!OnEvent /\ InReplay)

Spec == Init /\ [][Next]_vars /\ Fairness

-----------------------------------------------------------------------------
(* What each of them shows; the properties are stated where it is.         *)

\* A PASS of the end-to-end script is about an event of that very run.
PassProvesWiring == script = "e2e" => E!PassProvesWiring

\* A FAIL of the end-to-end script is about delivery, not about the risk model.
FailIsForDelivery == script = "e2e" => E!FailIsForDelivery

\* A phase of the hardware scenario is never judged by an answer to another.
AnswersAreOwn == script = "hw" => H!AnswersAreOwn

\* What passed phase one passes phase two, unless the safe arm has some risk.
CrossRunHolds == script = "hw" => H!CrossRunHolds

\* A launch of the demo records the scenario in its order, never twice.
RecordedInOrder == script = "replay" => R!RecordedInOrder

\* A replay that was connected in time, and lost no record, ends in the store
\* of the offline demo.
LiveIsOffline == script = "replay" => R!LiveIsOffline

\* A run of either script comes to its verdict, or stays at the prompt with
\* somebody there, though the stack it calls may die at any time.
EveryRunEnds == pc # "exit" ~> (pc = "exit" \/ (pc = "prompt" /\ tty))
=============================================================================
