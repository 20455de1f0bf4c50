--------------------------- MODULE ScriptsProofs ---------------------------
(***************************************************************************)
(* Proofs about Scripts, for any number of events, runs and launches, any  *)
(* scenario, and any depth of the queues.                                  *)
(***************************************************************************)
EXTENDS Scripts, DataLemmas

-----------------------------------------------------------------------------
(* The end-to-end script.                                                  *)

\* An answer cites some of the log as it was; what it saw is there still.
AnswerIsOfLog(a) ==
  /\ a.evidence \subseteq a.recorded
  /\ a.recorded # {} => a.chosen = "safe" /\ a.evidence # {}
  /\ \A i \in a.recorded : i \in E!Id /\ store[i] # None

\* Between two runs nothing is up, so nothing is left over; within a run, the
\* queue and the log hold events of this run only, all on the risky arm.
WiringIInv ==
  /\ check \in Nat /\ launch \in Nat /\ sent \in Nat /\ seeded \in BOOLEAN
  /\ inbox \in Seq([id : 1..MaxEvents, check : {check}])
  /\ DOMAIN store = E!Id
  /\ \A i \in E!Id : store[i] # None => store[i].check = check /\ store[i].arm = "risky"
  /\ check > 0 => seeded
  /\ check = 0 => pc = "exit" /\ code = 0
  /\ up => check > 0
  /\ requests \subseteq {check}
  /\ \A a \in answers : a.call \in 0..check /\ (a.call = check => AnswerIsOfLog(a))
  /\ pc = "exit" => ~up /\ inbox = <<>> /\ requests = {}
  /\ pc = "exit" /\ check > 0 /\ code \in {0, 1} =>
       E!Answered(check) /\ (code = 0 <=> E!Verdict(E!AnswerTo(check)))

\* The answer to a call, once there is one.
LEMMA AnswerToIsAnswer ==
  ASSUME NEW c, E!Answered(c)
  PROVE  E!AnswerTo(c) \in answers /\ E!AnswerTo(c).call = c
BY DEF E!Answered, E!AnswerTo

\* At the start there is no answer.
LEMMA WiringHoldsAtStart ==
  ASSUME script = "e2e", Init
  PROVE  WiringIInv
<1>1. E!Init
  BY DEF Init
<1>2. inbox = <<>> /\ <<>> \in Seq([id : 1..MaxEvents, check : {check}])
  BY <1>1, EmptySeq DEF E!Init, E!ServiceInit
<1>3. /\ check = 0 /\ launch = 0 /\ sent = 0 /\ seeded = FALSE /\ up = FALSE
      /\ store = [i \in E!Id |-> None]
      /\ requests = {} /\ answers = {}
      /\ pc = "exit" /\ code = 0
  BY <1>1 DEF E!Init, E!ServiceInit, E!EmptyStore
<1>4. ~(check > 0)
  BY <1>3
<1>5. QED
  BY <1>2, <1>3, <1>4 DEF WiringIInv

\* A run starts on an empty store.
LEMMA StartCheckKeepsWiring ==
  ASSUME WiringIInv, E!StartCheck
  PROVE  WiringIInv'
<1>1. /\ check' = check + 1 /\ launch' = launch + 1 /\ seeded' = TRUE
      /\ inbox' = <<>> /\ requests' = {} /\ answers' = {}
      /\ store' = [i \in E!Id |-> None]
      /\ pc' = "publish" /\ sent' = 0
  BY DEF WiringIInv, E!StartCheck, E!Registered, E!ResetStore, E!EmptyStore, E!traffic
<1>2. inbox' \in Seq([id : 1..MaxEvents, check : {check'}])
  BY <1>1, EmptySeq
<1>3. check' \in Nat /\ check' > check /\ launch' \in Nat
  BY <1>1 DEF WiringIInv
<1>4. QED
  BY <1>1, <1>2, <1>3 DEF WiringIInv

\* What the script sends is of its run.
LEMMA SendKeepsInbox ==
  ASSUME NEW i \in 1..MaxEvents, E!Send(i, check),
         inbox \in Seq([id : 1..MaxEvents, check : {check}])
  PROVE  inbox' \in Seq([id : 1..MaxEvents, check : {check}])
<1> DEFINE m == [id |-> i, check |-> check]
           S == [id : 1..MaxEvents, check : {check}]
<1>1. m \in S
  OBVIOUS
<1>2. E!KeepLast(inbox, m, Depth) = KeepLast(inbox, m, Depth)
  BY DEF E!KeepLast, KeepLast
<1> HIDE DEF m, S
<1>3. KeepLast(inbox, m, Depth) \in Seq(S)
  BY <1>1, KeepLastShifts, ServiceAssumption DEF S
<1>4. QED
  BY <1>2, <1>3 DEF E!Send, E!Enqueue, m, S

\* The script's own steps but the last leave the stack alone.
LEMMA ScriptStepsKeepWiring ==
  ASSUME WiringIInv,
         \/ E!PublishNext \/ E!PublishedAll \/ E!ServiceFound \/ E!CallService
  PROVE  WiringIInv'
<1>1. UNCHANGED <<up, launch, seeded, store, answers, check>> /\ pc # "exit" /\ pc' # "exit"
  BY DEF E!PublishNext, E!PublishedAll, E!ServiceFound, E!CallService, E!service, E!stack
<1>2. inbox' \in Seq([id : 1..MaxEvents, check : {check}])
  <2>1. CASE E!PublishNext
    <3>1. sent + 1 \in 1..MaxEvents /\ E!Send(sent + 1, check)
      BY <2>1, ServiceAssumption DEF E!PublishNext, WiringIInv
    <3>2. QED
      BY <3>1, SendKeepsInbox DEF WiringIInv
  <2>2. QED
    BY <2>1 DEF WiringIInv, E!PublishedAll, E!ServiceFound, E!CallService, E!service, E!traffic
<1>3. requests' \subseteq {check}
  BY DEF WiringIInv, E!PublishNext, E!PublishedAll, E!ServiceFound, E!CallService, E!service, E!traffic
<1>4. sent' \in Nat
  BY DEF WiringIInv, E!PublishNext, E!PublishedAll, E!ServiceFound, E!CallService
<1>5. QED
  BY <1>1, <1>2, <1>3, <1>4 DEF WiringIInv, AnswerIsOfLog

\* The end of a run, with the code that its verdict calls for.
LEMMA ExitKeepsWiring ==
  ASSUME WiringIInv, E!TakeAnswer \/ E!Deadline \/ E!ServiceMissing
  PROVE  WiringIInv'
<1>1. /\ UNCHANGED <<launch, seeded, store, answers, check, sent>>
      /\ up' = FALSE /\ inbox' = <<>> /\ requests' = {} /\ pc # "exit" /\ pc' = "exit"
  BY DEF E!TakeAnswer, E!Deadline, E!ServiceMissing, E!Exit, E!StackGone
<1>2. inbox' \in Seq([id : 1..MaxEvents, check : {check'}])
  BY <1>1, EmptySeq
<1>3. code' \in {0, 1} =>
        E!Answered(check) /\ (code' = 0 <=> E!Verdict(E!AnswerTo(check)))
  BY DEF E!TakeAnswer, E!Deadline, E!ServiceMissing, E!Exit
<1>4. (E!Answered(check) <=> E!Answered(check)') /\ E!AnswerTo(check)' = E!AnswerTo(check)
  BY <1>1 DEF E!Answered, E!AnswerTo
<1>5. E!Verdict(E!AnswerTo(check))' <=> E!Verdict(E!AnswerTo(check))
  BY <1>4 DEF E!Verdict
<1>6. QED
  BY <1>1, <1>2, <1>3, <1>4, <1>5 DEF WiringIInv, AnswerIsOfLog

\* The memory node records what waits, bound to the arm, or fails to.
LEMMA OnEventKeepsWiring ==
  ASSUME WiringIInv, E!OnEvent /\ UNCHANGED E!script
  PROVE  WiringIInv'
<1> DEFINE m == Head(inbox)
           e == [arm |-> E!ArmOf(m.id), check |-> m.check]
<1>1. /\ up /\ inbox # <<>> /\ inbox' = Tail(inbox)
      /\ UNCHANGED <<up, launch, seeded, requests, answers, pc, check, sent, code>>
      /\ store' = store \/ store' = [store EXCEPT ![m.id] = e]
  BY DEF E!OnEvent, E!script, E!stack
<1>2. /\ m \in [id : 1..MaxEvents, check : {check}]
      /\ inbox' \in Seq([id : 1..MaxEvents, check : {check}])
  BY <1>1, DequeueShifts DEF WiringIInv
<1>3. m.id \in 1..MaxEvents /\ m.check = check /\ m.id \in E!Id
  BY <1>2 DEF E!Id
<1>4. e # None /\ e.check = check /\ e.arm = "risky"
  <2>1. seeded = TRUE /\ check \in Nat
    BY <1>1 DEF WiringIInv
  <2>2. E!ArmOf(m.id) = "risky"
    BY <1>3, <2>1, ServiceAssumption DEF E!ArmOf, E!Live
  <2>3. e.check = check /\ e.arm = "risky"
    BY <1>3, <2>2
  <2>4. e \in Recorded
    BY <1>3, <2>1, <2>2 DEF Recorded, Arms
  <2>5. QED
    BY <2>3, <2>4, NoneAssumption
<1>5. pc # "exit"
  BY <1>1 DEF WiringIInv
<1> HIDE DEF m, e
<1>6. /\ DOMAIN store' = E!Id
      /\ \A i \in E!Id : store'[i] = store[i] \/ store'[i] = e
  BY <1>1, <1>3 DEF WiringIInv
<1>7. \A i \in E!Id : store'[i] # None => store'[i].check = check /\ store'[i].arm = "risky"
  BY <1>4, <1>6 DEF WiringIInv
<1>8. \A a : AnswerIsOfLog(a) => AnswerIsOfLog(a)'
  BY <1>4, <1>6 DEF AnswerIsOfLog, E!Id, E!Live
<1>9. QED
  BY <1>1, <1>2, <1>5, <1>6, <1>7, <1>8 DEF WiringIInv, E!Id, E!Live

\* The planner answers from the log.
LEMMA OnScoreKeepsWiring ==
  ASSUME WiringIInv, E!OnScore /\ UNCHANGED E!script
  PROVE  WiringIInv'
<1> DEFINE Answer(c, chosen, evidence) ==
             [call |-> c, chosen |-> chosen, evidence |-> evidence,
              recorded |-> {i \in E!Id : store[i] # None}, launch |-> launch]
<1>1. PICK c \in requests, chosen \in {"risky", "safe"}, evidence \in SUBSET E!Id :
        /\ E!Weighs(chosen, evidence)
        /\ answers' = answers \cup {Answer(c, chosen, evidence)}
        /\ requests' = requests \ {c}
  BY DEF E!OnScore
<1>2. /\ up
      /\ UNCHANGED <<up, launch, seeded, inbox, store, pc, check, sent, code>>
  BY DEF E!OnScore, E!script, E!stack
<1>3. E!OnArm("safe") = {} /\ E!OnArm("risky") = {i \in E!Id : store[i] # None}
  BY DEF E!OnArm, WiringIInv
<1>4. c = check /\ Answer(c, chosen, evidence).call = check
  BY <1>1 DEF WiringIInv
<1>5. AnswerIsOfLog(Answer(c, chosen, evidence))
  <2>1. /\ evidence \subseteq E!OnArm("risky")
        /\ E!OnArm("risky") # {} => chosen = "safe" /\ evidence # {}
    BY <1>1, <1>3 DEF E!Weighs, E!Evidence
  <2>2. QED
    BY <1>3, <2>1 DEF AnswerIsOfLog
<1> HIDE DEF Answer
<1>6. pc # "exit"
  BY <1>2 DEF WiringIInv
<1>7. \A a : AnswerIsOfLog(a) => AnswerIsOfLog(a)'
  BY <1>2 DEF AnswerIsOfLog, E!Id, E!Live
<1>8. \A a \in answers' : a.call \in 0..check /\ (a.call = check => AnswerIsOfLog(a)')
  BY <1>1, <1>4, <1>5, <1>7 DEF WiringIInv
<1>9. QED
  BY <1>1, <1>2, <1>6, <1>8 DEF WiringIInv, E!Id, E!Live

\* Every step of the end-to-end script and of the nodes it runs.
LEMMA EndToEndKeepsWiring ==
  ASSUME WiringIInv, E!Next
  PROVE  WiringIInv'
<1>1. CASE E!StartCheck
  BY <1>1, StartCheckKeepsWiring
<1>2. CASE E!Main
  BY <1>2, ScriptStepsKeepWiring, ExitKeepsWiring DEF E!Main
<1>3. CASE E!Discover /\ UNCHANGED E!script
  BY <1>3 DEF E!Discover, E!script, E!stack, WiringIInv, AnswerIsOfLog
<1>4. CASE (E!OnEvent \/ E!OnScore) /\ UNCHANGED E!script
  BY <1>4, OnEventKeepsWiring, OnScoreKeepsWiring
<1>5. CASE E!ExecutorDies
  <2>1. /\ UNCHANGED <<launch, seeded, store, answers, pc, check, sent, code>>
        /\ up' = FALSE /\ inbox' = <<>> /\ requests' = {}
        /\ pc # "exit"
    BY <1>5 DEF E!ExecutorDies, E!StackGone, E!script, WiringIInv
  <2>2. inbox' \in Seq([id : 1..MaxEvents, check : {check'}])
    BY <2>1, EmptySeq
  <2>3. QED
    BY <2>1, <2>2 DEF WiringIInv, AnswerIsOfLog
<1>6. QED
  BY <1>1, <1>2, <1>3, <1>4, <1>5 DEF E!Next, E!Node

\* A verdict is about the events of the run that gives it.
LEMMA WiringImpliesVerdicts ==
  ASSUME WiringIInv
  PROVE  E!PassProvesWiring /\ E!FailIsForDelivery
<1>1. ASSUME pc = "exit", check > 0, code \in {0, 1}
      PROVE  LET a == E!AnswerTo(check)
             IN  /\ a \in answers /\ a.call = check
                 /\ AnswerIsOfLog(a)
                 /\ code = 0 <=> E!Verdict(a)
  <2>1. E!Answered(check) /\ (code = 0 <=> E!Verdict(E!AnswerTo(check)))
    BY <1>1 DEF WiringIInv
  <2>2. QED
    BY <2>1, AnswerToIsAnswer DEF WiringIInv
<1>2. E!PassProvesWiring
  <2>1. SUFFICES ASSUME pc = "exit", check > 0, code = 0
                 PROVE  LET a == E!AnswerTo(check)
                        IN  /\ a.evidence # {}
                            /\ \A i \in a.evidence : store[i] # None /\ store[i].check = check
    BY DEF E!PassProvesWiring
  <2>2. QED
    BY <1>1, <2>1 DEF E!Verdict, AnswerIsOfLog, WiringIInv
<1>3. E!FailIsForDelivery
  <2>1. SUFFICES ASSUME pc = "exit", code = 1, check > 0
                 PROVE  E!AnswerTo(check).recorded = {}
    BY DEF E!FailIsForDelivery, WiringIInv
  <2>2. QED
    BY <1>1, <2>1 DEF E!Verdict, AnswerIsOfLog
<1>4. QED
  BY <1>2, <1>3

-----------------------------------------------------------------------------
(* The hardware scenario.                                                  *)

\* The log only grows, and an event keeps its arm: so where an answer saw risk
\* there is some still.  An answer to the phase's own call was given after the
\* phase began, by when the risky arm had the risk that phase one passed on.
JudgingIInv ==
  /\ check \in Nat /\ launch \in Nat /\ sent \in Nat /\ seeded \in BOOLEAN
  /\ since \in Nat /\ since <= launch
  /\ phase \in 1..2
  /\ inbox \in Seq([id : H!Id, check : 0..check])
  /\ DOMAIN store = H!Id
  /\ \A i \in H!Id : store[i] # None => store[i].arm = H!ArmOf(i)
  /\ \A c \in requests : c \in Nat /\ c <= H!Call
  /\ \A a \in answers :
       /\ a.call \in Nat /\ a.call <= H!Call
       /\ a.call = H!Call => a.launch >= since
       /\ a.chosen = "safe" => H!OnArm("risky") # {}
  /\ DOMAIN results = 1..2
  /\ \A p \in 1..2 :
       results[p] = H!NoAnswer \/ (results[p] \in answers /\ results[p].call = 2 * check + p)
  /\ phase = 1 => results[2] = H!NoAnswer
  /\ phase = 2 /\ H!Passed(results[1]) =>
       \A a \in answers : a.call = H!Call => H!Passed(a) \/ H!OnArm("safe") # {}
  /\ pc = "prompt" => phase = 1
  /\ pc # "exit" => check > 0

\* At the start there is no answer.
LEMMA JudgingHoldsAtStart ==
  ASSUME script = "hw", Init
  PROVE  JudgingIInv
<1>1. H!Init
  BY DEF Init
<1>2. inbox = <<>> /\ <<>> \in Seq([id : H!Id, check : 0..check])
  BY <1>1, EmptySeq DEF H!Init, H!ServiceInit
<1>3. /\ check = 0 /\ launch = 0 /\ sent = 0 /\ seeded \in BOOLEAN /\ since = 0 /\ phase = 1
      /\ store = [i \in H!Id |-> None]
      /\ requests = {} /\ answers = {}
      /\ results = [p \in 1..2 |-> H!NoAnswer]
      /\ pc = "exit"
  BY <1>1 DEF H!Init, H!NotStarted, H!NoResults, H!ServiceInit, H!EmptyStore
<1>4. QED
  BY <1>2, <1>3 DEF JudgingIInv

\* Of a larger number of runs, the queue is a queue still.
LEMMA InboxOfMoreRuns ==
  ASSUME NEW k \in Nat, NEW l \in Nat, k <= l,
         NEW q \in Seq([id : H!Id, check : 0..k])
  PROVE  q \in Seq([id : H!Id, check : 0..l])
<1>1. [id : H!Id, check : 0..k] \subseteq [id : H!Id, check : 0..l]
  OBVIOUS
<1>2. QED
  BY <1>1, SeqMonotonic

\* An event lies on the same arm, and the log holds the same on an arm, as long
\* as seed and store are the same.
LEMMA ArmsUnchanged ==
  ASSUME UNCHANGED <<seeded, store>>
  PROVE  /\ H!Id' = H!Id
         /\ \A i : H!ArmOf(i)' = H!ArmOf(i)
         /\ \A arm : H!OnArm(arm)' = H!OnArm(arm)
BY DEF H!Id, H!Live, H!ArmOf, H!OnArm

\* The arm of an event is an arm.
LEMMA ArmOfIsArm ==
  ASSUME NEW i \in H!Id
  PROVE  H!ArmOf(i) \in Arms
<1>1. CASE i \in H!Live
  <2>1. i - MaxEvents \in 1..Len(LiveArm)
    BY <1>1, ServiceAssumption, LenProperties DEF H!Live
  <2>2. LiveArm[i - MaxEvents] \in Arms
    BY <2>1, ServiceAssumption, ElementOfSeq
  <2>3. QED
    BY <1>1, <2>2 DEF H!ArmOf, Arms
<1>2. CASE i \notin H!Live
  BY <1>2 DEF H!ArmOf, Arms
<1>3. QED
  BY <1>1, <1>2

\* The operator's steps.
LEMMA OperatorKeepsJudging ==
  ASSUME JudgingIInv, H!BringUp \/ H!TakeDown
  PROVE  JudgingIInv'
<1>1. /\ UNCHANGED <<seeded, store, answers, pc, check, phase, sent, since, results>>
      /\ launch' = launch \/ launch' = launch + 1
      /\ (UNCHANGED <<inbox, requests>>) \/ (inbox' = <<>> /\ requests' = {})
  BY DEF H!BringUp, H!TakeDown, H!StoreOnDisk, H!StackGone, H!script, H!traffic
<1>2. inbox' \in Seq([id : H!Id, check : 0..check'])
  BY <1>1, EmptySeq DEF JudgingIInv
<1>3. launch' \in Nat /\ since' <= launch'
  BY <1>1 DEF JudgingIInv
<1>4. H!Call' = H!Call /\ \A a : H!Passed(a)' = H!Passed(a)
  BY <1>1 DEF H!Call, H!Passed
<1>5. QED
  BY <1>1, <1>2, <1>3, <1>4, ArmsUnchanged DEF JudgingIInv

\* A run, and phase two of it, begin with a call that nobody has answered.
LEMMA BeginningsKeepJudging ==
  ASSUME JudgingIInv, H!StartScript \/ H!BeginPhaseTwo
  PROVE  JudgingIInv'
<1>1. UNCHANGED <<launch, seeded, inbox, store>> /\ since' = launch
  BY DEF H!StartScript, H!BeginPhaseTwo, H!service, H!stack, H!traffic
<1>2. CASE H!StartScript
  <2>1. /\ check' = check + 1 /\ phase' \in 1..2 /\ sent' = 0
        /\ pc' \in {"publish", "service"}
        /\ results' = [p \in 1..2 |-> H!NoAnswer]
        /\ requests' = {} /\ answers' = {}
    BY <1>2 DEF H!StartScript, H!NoResults
  <2>2. check \in Nat /\ check' \in Nat /\ check <= check' /\ check' > 0
    BY <2>1 DEF JudgingIInv
  <2>3. inbox' \in Seq([id : H!Id, check : 0..check'])
    BY <1>1, <2>2, InboxOfMoreRuns DEF JudgingIInv
  <2>4. H!NoAnswer' = H!NoAnswer
    BY DEF H!NoAnswer
  <2>5. QED
    BY <1>1, <2>1, <2>2, <2>3, <2>4, ArmsUnchanged DEF JudgingIInv
<1>3. CASE H!BeginPhaseTwo
  <2>1. /\ UNCHANGED <<check, sent, results, requests, answers>> /\ pc = "prompt"
        /\ phase' = 2 /\ pc' = "service"
    BY <1>3 DEF H!BeginPhaseTwo, H!service, H!traffic
  <2>2. phase = 1 /\ check > 0
    BY <2>1 DEF JudgingIInv
  <2>3. H!Call \in Nat /\ H!Call' \in Nat /\ H!Call < H!Call'
    BY <2>1, <2>2 DEF JudgingIInv, H!Call
  <2>4. \A a \in answers' : a.call \in Nat /\ a.call <= H!Call' /\ a.call # H!Call'
    BY <2>1, <2>3 DEF JudgingIInv
  <2>5. \A c \in requests' : c \in Nat /\ c <= H!Call'
    BY <2>1, <2>3 DEF JudgingIInv
  <2>6. QED
    BY <1>1, <2>1, <2>2, <2>4, <2>5, ArmsUnchanged DEF JudgingIInv
<1>4. QED
  BY <1>2, <1>3

\* An event that waits is of a known id and of this run or an earlier one.
LEMMA EnqueueKeepsInbox ==
  ASSUME JudgingIInv, NEW i \in H!Id, NEW c \in 0..check, H!Enqueue(i, c)
  PROVE  inbox' \in Seq([id : H!Id, check : 0..check])
<1> DEFINE m == [id |-> i, check |-> c]
           S == [id : H!Id, check : 0..check]
<1>1. m \in S
  OBVIOUS
<1>2. inbox' = KeepLast(inbox, m, Depth)
  BY DEF H!Enqueue, H!KeepLast, KeepLast
<1> HIDE DEF m
<1>3. KeepLast(inbox, m, Depth) \in Seq(S)
  BY <1>1, KeepLastShifts, ServiceAssumption DEF JudgingIInv
<1>4. QED
  BY <1>2, <1>3

\* Steps of the script within a phase, and of discovery and the adapters.
LEMMA PhaseStepsKeepJudging ==
  ASSUME JudgingIInv,
         \/ H!PublishNext \/ H!PublishedAll \/ H!ServiceFound \/ H!CallService
         \/ (H!Discover \/ H!LiveEvent) /\ UNCHANGED H!script
  PROVE  JudgingIInv'
<1>1. /\ UNCHANGED <<launch, seeded, store, answers, check, phase, since, results>>
      /\ pc' = pc \/ (pc # "exit" /\ pc' \notin {"exit", "prompt"})
  BY DEF H!PublishNext, H!PublishedAll, H!ServiceFound, H!CallService,
         H!Discover, H!LiveEvent, H!service, H!stack, H!script
<1>2. inbox' \in Seq([id : H!Id, check : 0..check])
  <2>1. CASE H!PublishNext
    <3>1. sent + 1 \in H!Id /\ check \in 0..check
      BY <2>1, ServiceAssumption DEF H!PublishNext, JudgingIInv, H!Id
    <3>2. inbox' = inbox \/ H!Enqueue(sent + 1, check)
      BY <2>1 DEF H!PublishNext, H!Send
    <3>3. QED
      BY <3>1, <3>2, EnqueueKeepsInbox DEF JudgingIInv
  <2>2. CASE H!LiveEvent
    <3>1. PICK i \in H!Live : H!Enqueue(i, 0)
      BY <2>2 DEF H!LiveEvent
    <3>2. i \in H!Id /\ 0 \in 0..check
      BY <3>1 DEF H!Id, JudgingIInv
    <3>3. QED
      BY <3>1, <3>2, EnqueueKeepsInbox
  <2>3. CASE H!PublishedAll \/ H!ServiceFound \/ H!CallService \/ H!Discover
    BY <2>3 DEF JudgingIInv, H!PublishedAll, H!ServiceFound, H!CallService, H!Discover,
                H!service, H!traffic
  <2>4. QED
    BY <2>1, <2>2, <2>3
<1>3. requests' \subseteq requests \cup {H!Call}
  BY DEF H!PublishNext, H!PublishedAll, H!ServiceFound, H!CallService, H!Discover, H!LiveEvent,
         H!service, H!traffic
<1>4. H!Call \in Nat /\ H!Call' = H!Call
  BY <1>1 DEF JudgingIInv, H!Call
<1>5. sent' \in Nat
  BY DEF JudgingIInv, H!PublishNext, H!PublishedAll, H!ServiceFound, H!CallService, H!script
<1>6. \A c \in requests' : c \in Nat /\ c <= H!Call'
  BY <1>3, <1>4 DEF JudgingIInv
<1>7. QED
  BY <1>1, <1>2, <1>4, <1>5, <1>6, ArmsUnchanged DEF JudgingIInv

\* The end of a phase.
LEMMA EndsKeepJudging ==
  ASSUME JudgingIInv, H!ServiceMissing \/ H!TakeAnswer \/ H!Deadline
  PROVE  JudgingIInv'
<1>1. PICK a : H!EndPhase(a) /\ (a = H!NoAnswer \/ (a \in answers /\ a.call = H!Call))
  BY DEF H!ServiceMissing, H!TakeAnswer, H!Deadline, H!Answered, H!AnswerTo
<1>2. /\ UNCHANGED <<launch, seeded, inbox, store, requests, answers, check, phase, sent, since>>
      /\ results' = [results EXCEPT ![phase] = a]
      /\ pc' \in {"prompt", "exit"} /\ (pc' = "prompt" => phase = 1)
      /\ pc # "exit"
  BY <1>1 DEF H!EndPhase, H!ServiceMissing, H!TakeAnswer, H!Deadline, H!service, H!stack, H!traffic
<1>3. H!Call' = H!Call /\ H!Call = 2 * check + phase
  BY <1>2 DEF H!Call
<1>4. /\ DOMAIN results' = 1..2 /\ results'[phase] = a
      /\ \A p \in 1..2 : p # phase => results'[p] = results[p]
  BY <1>2 DEF JudgingIInv
<1>5. \A p \in 1..2 :
        results'[p] = H!NoAnswer \/ (results'[p] \in answers /\ results'[p].call = 2 * check + p)
  BY <1>1, <1>3, <1>4 DEF JudgingIInv
<1>6. phase = 1 => results'[2] = H!NoAnswer
  BY <1>4 DEF JudgingIInv
<1>7. phase = 2 => results'[1] = results[1]
  BY <1>4 DEF JudgingIInv
<1>8. QED
  BY <1>2, <1>3, <1>4, <1>5, <1>6, <1>7, ArmsUnchanged DEF JudgingIInv

\* The memory node records what waits, on the arm where it lies, or fails to.
LEMMA OnEventKeepsJudging ==
  ASSUME JudgingIInv, H!OnEvent /\ UNCHANGED H!script
  PROVE  JudgingIInv'
<1> DEFINE m == Head(inbox)
           e == [arm |-> H!ArmOf(m.id), check |-> m.check]
<1>1. /\ inbox # <<>> /\ inbox' = Tail(inbox)
      /\ UNCHANGED <<up, launch, seeded, requests, answers, pc, check, phase, sent, since, results>>
      /\ store' = store \/ store' = [store EXCEPT ![m.id] = e]
  BY DEF H!OnEvent, H!script, H!stack
<1>2. /\ m \in [id : H!Id, check : 0..check]
      /\ inbox' \in Seq([id : H!Id, check : 0..check])
  BY <1>1, DequeueShifts DEF JudgingIInv
<1>3. m.id \in H!Id /\ m.check \in 0..check /\ check \in Nat
  BY <1>2 DEF JudgingIInv
<1>4. e # None /\ e.arm = H!ArmOf(m.id)
  <2>1. e \in Recorded
    BY <1>3, ArmOfIsArm DEF Recorded
  <2>2. QED
    BY <2>1, NoneAssumption
<1> HIDE DEF m, e
<1>5. /\ DOMAIN store' = H!Id
      /\ \A i \in H!Id : store'[i] = store[i] \/ (i = m.id /\ store'[i] = e)
  BY <1>1, <1>3 DEF JudgingIInv
<1>6. H!Id' = H!Id /\ \A i : H!ArmOf(i)' = H!ArmOf(i)
  BY <1>1 DEF H!Id, H!Live, H!ArmOf
<1>7. \A i \in H!Id : store'[i] # None => store'[i].arm = H!ArmOf(i)
  BY <1>4, <1>5 DEF JudgingIInv
<1>8. \A arm : H!OnArm(arm) \subseteq H!OnArm(arm)'
  <2>1. ASSUME NEW arm, NEW i \in H!OnArm(arm)
        PROVE  i \in H!Id /\ store'[i] # None /\ store'[i].arm = arm
    <3>1. i \in H!Id /\ store[i] # None /\ store[i].arm = arm
      BY <2>1 DEF H!OnArm
    <3>2. H!ArmOf(i) = arm
      BY <3>1 DEF JudgingIInv
    <3>3. QED
      BY <1>4, <1>5, <3>1, <3>2
  <2>2. \A arm : H!OnArm(arm)' = {i \in H!Id : store'[i] # None /\ store'[i].arm = arm}
    BY <1>6 DEF H!OnArm
  <2>3. QED
    BY <2>1, <2>2
<1>9. H!Call' = H!Call /\ \A a : H!Passed(a)' = H!Passed(a)
  BY <1>1 DEF H!Call, H!Passed
<1>10. \A a \in answers' : a.chosen = "safe" => H!OnArm("risky")' # {}
  BY <1>1, <1>8 DEF JudgingIInv
<1>11. phase = 2 /\ H!Passed(results[1]) =>
         \A a \in answers : a.call = H!Call => H!Passed(a) \/ H!OnArm("safe")' # {}
  BY <1>8 DEF JudgingIInv
<1>12. QED
  BY <1>1, <1>2, <1>5, <1>6, <1>7, <1>9, <1>10, <1>11 DEF JudgingIInv

\* The planner answers from the log, to this call or an earlier one.
LEMMA OnScoreKeepsJudging ==
  ASSUME JudgingIInv, H!OnScore /\ UNCHANGED H!script
  PROVE  JudgingIInv'
<1> DEFINE Answer(c, chosen, evidence) ==
             [call |-> c, chosen |-> chosen, evidence |-> evidence,
              recorded |-> {i \in H!Id : store[i] # None}, launch |-> launch]
<1>1. PICK c \in requests, chosen \in {"risky", "safe"}, evidence \in SUBSET H!Id :
        /\ H!Weighs(chosen, evidence)
        /\ answers' = answers \cup {Answer(c, chosen, evidence)}
        /\ requests' = requests \ {c}
  BY DEF H!OnScore
<1>2. UNCHANGED <<launch, seeded, inbox, store, pc, check, phase, sent, since, results>>
  BY DEF H!OnScore, H!script, H!stack
<1> DEFINE new == Answer(c, chosen, evidence)
<1>3. /\ new.call = c /\ c \in Nat /\ c <= H!Call
      /\ new.launch = launch /\ launch >= since
      /\ new.chosen = chosen /\ new.evidence = evidence
  BY <1>1 DEF JudgingIInv
<1>4. chosen = "safe" => H!OnArm("risky") # {}
  BY <1>1 DEF H!Weighs, H!Evidence
<1>5. H!OnArm("risky") # {} => H!Passed(new) \/ H!OnArm("safe") # {}
  BY <1>1, <1>3 DEF H!Weighs, H!Evidence, H!Passed
<1>6. answers' = answers \cup {new}
  BY <1>1
<1> HIDE DEF new
<1>7. H!Call' = H!Call
  BY <1>2 DEF H!Call
<1>8. \A a \in answers' :
        /\ a.call \in Nat /\ a.call <= H!Call
        /\ a.call = H!Call => a.launch >= since
        /\ a.chosen = "safe" => H!OnArm("risky") # {}
  BY <1>3, <1>4, <1>6 DEF JudgingIInv
<1>9. H!Passed(results[1]) => H!OnArm("risky") # {}
  <2>1. ~H!Passed(H!NoAnswer)
    BY DEF H!Passed, H!NoAnswer
  <2>2. H!Passed(results[1]) => results[1] \in answers /\ results[1].chosen = "safe"
    BY <2>1 DEF JudgingIInv, H!Passed
  <2>3. QED
    BY <2>2 DEF JudgingIInv
<1>10. phase = 2 /\ H!Passed(results[1]) =>
         \A a \in answers' : a.call = H!Call => H!Passed(a) \/ H!OnArm("safe") # {}
  BY <1>5, <1>6, <1>9 DEF JudgingIInv
<1>11. \A p \in 1..2 :
        results[p] = H!NoAnswer \/ (results[p] \in answers' /\ results[p].call = 2 * check + p)
  BY <1>6 DEF JudgingIInv
<1>12. \A k \in requests' : k \in Nat /\ k <= H!Call
  BY <1>1 DEF JudgingIInv
<1>13. QED
  BY <1>2, <1>7, <1>8, <1>10, <1>11, <1>12, ArmsUnchanged DEF JudgingIInv

\* Every step of the scenario, its operator and the stack.
LEMMA HardwareKeepsJudging ==
  ASSUME JudgingIInv, H!Next
  PROVE  JudgingIInv'
<1>1. CASE H!BringUp \/ H!TakeDown
  BY <1>1, OperatorKeepsJudging
<1>2. CASE H!StartScript \/ H!PressEnter \/ H!NobodyThere
  BY <1>2, BeginningsKeepJudging DEF H!PressEnter, H!NobodyThere
<1>3. CASE \/ H!PublishNext \/ H!PublishedAll \/ H!ServiceFound \/ H!CallService
           \/ (H!Discover \/ H!LiveEvent) /\ UNCHANGED H!script
  BY <1>3, PhaseStepsKeepJudging
<1>4. CASE H!ServiceMissing \/ H!TakeAnswer \/ H!Deadline
  BY <1>4, EndsKeepJudging
<1>5. CASE (H!OnEvent \/ H!OnScore) /\ UNCHANGED H!script
  BY <1>5, OnEventKeepsJudging, OnScoreKeepsJudging
<1>6. QED
  BY <1>1, <1>2, <1>3, <1>4, <1>5 DEF H!Next, H!Main, H!Node

\* What the verdicts of a phase rest on.
LEMMA JudgingImpliesVerdicts ==
  ASSUME JudgingIInv
  PROVE  H!AnswersAreOwn /\ H!CrossRunHolds
<1>1. H!NoAnswer.launch = 0
  BY DEF H!NoAnswer
<1>2. \A p \in H!Done : /\ p \in 1..2 /\ results[p] # H!NoAnswer
                        /\ results[p] \in answers /\ results[p].call = 2 * check + p
  <2>1. ASSUME NEW p \in H!Done PROVE p \in 1..2 /\ results[p] # H!NoAnswer
    <3>1. p \in 1..2 /\ results[p].launch > 0
      BY DEF H!Done
    <3>2. QED
      BY <1>1, <3>1
  <2>2. QED
    BY <2>1 DEF JudgingIInv
<1>3. H!AnswersAreOwn
  <2>1. ASSUME NEW p \in H!Done, p = phase
        PROVE  results[p].launch >= since
    <3>1. results[p] \in answers /\ results[p].call = H!Call
      BY <1>2, <2>1 DEF H!Call
    <3>2. QED
      BY <3>1 DEF JudgingIInv
  <2>2. QED
    BY <1>2, <2>1 DEF H!AnswersAreOwn
<1>4. H!CrossRunHolds
  <2>1. SUFFICES ASSUME {1, 2} \subseteq H!Done, H!Passed(results[1])
                 PROVE  H!Passed(results[2]) \/ H!OnArm("safe") # {}
    BY DEF H!CrossRunHolds
  <2>2. /\ results[2] # H!NoAnswer
        /\ results[2] \in answers /\ results[2].call = 2 * check + 2
    BY <1>2, <2>1
  <2>3. phase = 2
    BY <2>2 DEF JudgingIInv
  <2>4. QED
    BY <2>1, <2>2, <2>3 DEF JudgingIInv, H!Call
<1>5. QED
  BY <1>3, <1>4

-----------------------------------------------------------------------------
(* The replay.                                                             *)

\* The events of all launches, as the publisher sends them.
Sent == {R!LoadScenario(d)[n] : d \in Nat, n \in DOMAIN Scenario}

\* What waits is of this launch and in order; what was recorded is in order and
\* comes before all that waits and all that is to be published.
OrderIInv ==
  /\ demo \in Nat /\ idx \in Nat
  /\ inbox \in Seq(Sent) /\ recorded \in Seq(Nat \X Nat)
  /\ \A k \in 1..Len(inbox) : inbox[k].demo = demo /\ inbox[k].n <= idx
  /\ \A k \in 1..(Len(inbox) - 1) : inbox[k].n < inbox[k + 1].n
  /\ R!RecordedInOrder
  /\ Len(recorded) > 0 =>
       LET last == recorded[Len(recorded)]
       IN  /\ last[1] <= demo
           /\ last[1] = demo =>
                last[2] <= idx /\ (Len(inbox) > 0 => last[2] < inbox[1].n)
  /\ ~pub => inbox = <<>>

\* An event that is sent knows its launch and its place.
LEMMA SentIsPlaced ==
  ASSUME NEW d \in Nat, NEW n \in DOMAIN Scenario
  PROVE  /\ R!LoadScenario(d)[n] \in Sent
         /\ R!LoadScenario(d)[n].demo = d /\ R!LoadScenario(d)[n].n = n
BY DEF Sent, R!LoadScenario

\* Launch and place are numbers.
LEMMA PlacesAreNumbers ==
  ASSUME NEW m \in Sent
  PROVE  m.demo \in Nat /\ m.n \in Nat
<1>1. DOMAIN Scenario \subseteq Nat
  BY ReplayAssumption, LenProperties
<1>2. PICK d \in Nat, n \in DOMAIN Scenario : m = R!LoadScenario(d)[n]
  BY DEF Sent
<1>3. m.demo = d /\ m.n = n
  BY <1>2, SentIsPlaced
<1>4. QED
  BY <1>1, <1>2, <1>3

\* At the start nothing was sent or recorded.
LEMMA OrderHoldsAtStart ==
  ASSUME script = "replay", Init
  PROVE  OrderIInv
<1>1. demo = 0 /\ idx = 0 /\ inbox = <<>> /\ recorded = <<>>
  BY DEF Init, R!Init, R!NotLaunched
<1>2. /\ inbox \in Seq(Sent) /\ recorded \in Seq(Nat \X Nat)
      /\ Len(inbox) = 0 /\ Len(recorded) = 0
  BY <1>1, EmptySeq
<1>3. R!RecordedInOrder
  BY <1>2 DEF R!RecordedInOrder
<1>4. QED
  BY <1>1, <1>2, <1>3 DEF OrderIInv

\* A tick sends the next event, which comes after all that were sent.
LEMMA TickKeepsOrder ==
  ASSUME OrderIInv, R!Tick
  PROVE  OrderIInv'
<1> DEFINE m == R!LoadScenario(demo)[idx + 1]
           q == KeepLast(inbox, m, DemoDepth)
<1>1. /\ pub /\ pub' = pub /\ idx' = idx + 1 /\ demo' = demo /\ recorded' = recorded
      /\ inbox' = inbox \/ inbox' = q
      /\ idx < Len(Scenario)
  BY DEF R!Tick, R!NextIndex, R!KeepLast, KeepLast
<1>2. idx + 1 \in DOMAIN Scenario /\ idx \in Nat /\ demo \in Nat
  BY <1>1, ReplayAssumption, LenProperties DEF OrderIInv
<1>3. m \in Sent /\ m.demo = demo /\ m.n = idx + 1
  BY <1>2, SentIsPlaced
<1> HIDE DEF m
<1>4. R!RecordedInOrder'
  BY <1>1 DEF OrderIInv, R!RecordedInOrder
<1>5. CASE inbox' = inbox
  BY <1>1, <1>4, <1>5, PlacesAreNumbers, ElementOfSeq DEF OrderIInv
<1>6. CASE inbox' = q
  <2>1. /\ q \in Seq(Sent) /\ q[Len(q)] = m
        /\ \E d \in {0, 1} :
             /\ Len(q) = Len(inbox) - d + 1
             /\ d = 1 => Len(inbox) > 0
             /\ \A n \in 1..(Len(inbox) - d) : q[n] = inbox[n + d]
    <3>1. inbox \in Seq(Sent) /\ DemoDepth \in Nat \ {0}
      BY ReplayAssumption DEF OrderIInv
    <3>2. QED
      BY <1>3, <3>1, KeepLastShifts
  <2> HIDE DEF q
  <2>2. PICK d \in {0, 1} :
          /\ Len(q) = Len(inbox) - d + 1
          /\ d = 1 => Len(inbox) > 0
          /\ \A n \in 1..(Len(inbox) - d) : q[n] = inbox[n + d]
    BY <2>1
  <2>3. /\ Len(inbox) \in Nat /\ Len(q) \in Nat /\ Len(q) >= 1 /\ d \in Nat
        /\ Len(q) - 1 = Len(inbox) - d
    BY <2>2, LenProperties DEF OrderIInv
  <2>4. \A k \in 1..Len(inbox) : inbox[k].n \in Nat
    BY ElementOfSeq, PlacesAreNumbers DEF OrderIInv
  <2>5. \A k \in 1..(Len(q) - 1) : q[k] = inbox[k + d] /\ k + d \in 1..Len(inbox)
    BY <2>2, <2>3
  <2>6. \A k \in 1..Len(q) : q[k].demo = demo /\ q[k].n <= idx + 1
    <3>1. ASSUME NEW k \in 1..Len(q), k # Len(q)
          PROVE  q[k].demo = demo /\ q[k].n <= idx + 1
      <4>1. k \in 1..(Len(q) - 1)
        BY <3>1, <2>3
      <4>2. q[k] = inbox[k + d] /\ k + d \in 1..Len(inbox)
        BY <4>1, <2>5
      <4>3. q[k].demo = demo /\ q[k].n <= idx /\ q[k].n \in Nat
        BY <4>2, <2>4 DEF OrderIInv
      <4>4. QED
        BY <4>3, <1>2
    <3>2. QED
      BY <1>2, <1>3, <2>1, <3>1
  <2>7. \A k \in 1..(Len(q) - 1) : q[k].n < q[k + 1].n
    <3>1. ASSUME NEW k \in 1..(Len(q) - 1)
          PROVE  q[k].n < q[k + 1].n
      <4>1. q[k] = inbox[k + d] /\ k + d \in 1..Len(inbox)
        BY <2>5
      <4>2. CASE k + 1 = Len(q)
        <5>1. q[k].n \in Nat /\ q[k].n <= idx
          BY <4>1, <2>4 DEF OrderIInv
        <5>2. QED
          BY <5>1, <4>2, <2>1, <1>2, <1>3
      <4>3. CASE k + 1 # Len(q)
        <5>1. k + 1 \in 1..(Len(q) - 1) /\ k + d \in 1..(Len(inbox) - 1)
              /\ (k + 1) + d = (k + d) + 1
          BY <4>3, <2>3
        <5>2. q[k + 1] = inbox[(k + d) + 1]
          BY <5>1, <2>5
        <5>3. QED
          BY <4>1, <5>1, <5>2 DEF OrderIInv
      <4>4. QED
        BY <4>2, <4>3
    <3>2. QED
      BY <3>1
  <2>8. ASSUME Len(recorded) > 0, recorded[Len(recorded)][1] = demo
        PROVE  recorded[Len(recorded)][2] < q[1].n
    <3>1. recorded[Len(recorded)] \in Nat \X Nat
      BY <2>8, ElementOfSeq, LenProperties DEF OrderIInv
    <3>2. CASE Len(q) = 1
      <4>1. q[1].n = idx + 1
        BY <1>3, <2>1, <3>2
      <4>2. recorded[Len(recorded)][2] \in Nat /\ recorded[Len(recorded)][2] <= idx
        BY <2>8, <3>1 DEF OrderIInv
      <4>3. QED
        BY <1>2, <4>1, <4>2
    <3>3. CASE Len(q) # 1
      <4>1. q[1] = inbox[1 + d] /\ 1 + d \in 1..Len(inbox)
        <5>1. \A n \in Nat : n >= 1 /\ n # 1 => 1 \in 1..(n - 1)
          OBVIOUS
        <5>2. 1 \in 1..(Len(q) - 1)
          BY <3>3, <2>3, <5>1
        <5>3. QED
          BY <5>2, <2>5
      <4>2. recorded[Len(recorded)][2] < inbox[1].n /\ 1 \in 1..Len(inbox)
        BY <2>3, <2>8, <4>1 DEF OrderIInv
      <4>3. CASE d = 0
        BY <4>1, <4>2, <4>3
      <4>4. CASE d = 1
        <5>1. 1 \in 1..(Len(inbox) - 1)
          BY <2>3, <4>1, <4>4
        <5>2. inbox[1].n < inbox[2].n
          BY <5>1 DEF OrderIInv
        <5>3. QED
          BY <2>4, <3>1, <4>1, <4>2, <4>4, <5>2
      <4>5. QED
        BY <4>3, <4>4
    <3>4. QED
      BY <3>2, <3>3
  <2>9. Len(recorded) > 0 =>
          LET last == recorded[Len(recorded)]
          IN  /\ last[1] <= demo
              /\ last[1] = demo => last[2] <= idx + 1 /\ last[2] < q[1].n
    <3>1. SUFFICES ASSUME Len(recorded) > 0
                   PROVE  LET last == recorded[Len(recorded)]
                          IN  /\ last[1] <= demo
                              /\ last[1] = demo => last[2] <= idx + 1 /\ last[2] < q[1].n
      OBVIOUS
    <3>2. recorded[Len(recorded)] \in Nat \X Nat
      BY <3>1, ElementOfSeq, LenProperties DEF OrderIInv
    <3>3. QED
      BY <1>2, <2>8, <3>1, <3>2 DEF OrderIInv
  <2>10. QED
    BY <1>1, <1>2, <1>4, <1>6, <2>1, <2>6, <2>7, <2>9 DEF OrderIInv
<1>7. QED
  BY <1>1, <1>5, <1>6

\* What waits first, as the memory node takes it.
LEMMA FirstInLine ==
  ASSUME OrderIInv, inbox # <<>>
  PROVE  LET m == Head(inbox)
         IN  /\ Tail(inbox) \in Seq(Sent) /\ Len(Tail(inbox)) = Len(inbox) - 1
             /\ Len(inbox) \in Nat \ {0}
             /\ m = inbox[1] /\ m \in Sent
             /\ m.demo = demo /\ m.n <= idx /\ m.n \in Nat
             /\ \A k \in 1..Len(Tail(inbox)) : Tail(inbox)[k] = inbox[k + 1]
<1> DEFINE m == Head(inbox)
<1>1. /\ Tail(inbox) \in Seq(Sent) /\ Len(Tail(inbox)) = Len(inbox) - 1
      /\ Len(inbox) \in Nat \ {0}
      /\ m = inbox[1] /\ m \in Sent
      /\ \A k \in 1..Len(Tail(inbox)) : Tail(inbox)[k] = inbox[k + 1]
  <2>1. inbox \in Seq(Sent)
    BY DEF OrderIInv
  <2>2. QED
    BY <2>1, DequeueShifts
<1>2. m.demo = demo /\ m.n <= idx /\ m.n \in Nat
  BY <1>1, PlacesAreNumbers DEF OrderIInv
<1>3. QED
  BY <1>1, <1>2

\* Recorded after all that was, what waits first is in order.
LEMMA AppendingKeepsRecordedInOrder ==
  ASSUME OrderIInv, inbox # <<>>,
         recorded' = Append(recorded, <<Head(inbox).demo, Head(inbox).n>>)
  PROVE  /\ recorded' \in Seq(Nat \X Nat)
         /\ Len(recorded') \in Nat \ {0}
         /\ recorded'[Len(recorded')] = <<Head(inbox).demo, Head(inbox).n>>
         /\ R!RecordedInOrder'
<1> DEFINE m == Head(inbox)
           place == <<m.demo, m.n>>
<1>1. recorded' = Append(recorded, place)
  OBVIOUS
<1>2. m = inbox[1] /\ Len(inbox) \in Nat \ {0} /\ m.demo = demo /\ m.n \in Nat /\ demo \in Nat
  BY FirstInLine DEF OrderIInv
<1>3. place \in Nat \X Nat /\ place[1] = demo /\ place[2] = m.n
  BY <1>2
<1> HIDE DEF m, place
<1>4. /\ recorded' \in Seq(Nat \X Nat)
      /\ Len(recorded') = Len(recorded) + 1 /\ Len(recorded) \in Nat
      /\ recorded'[Len(recorded')] = place
      /\ \A k \in 1..Len(recorded) : recorded'[k] = recorded[k]
  <2>1. recorded \in Seq(Nat \X Nat)
    BY DEF OrderIInv
  <2>2. QED
    BY <1>1, <1>3, <2>1, AppendProperties, LenProperties
<1>5. ASSUME NEW k \in 1..Len(recorded)
      PROVE  LET a == recorded'[k]
                 b == recorded'[k + 1]
             IN  a[1] < b[1] \/ (a[1] = b[1] /\ a[2] < b[2])
  <2>1. CASE k = Len(recorded)
    <3>1. recorded'[k] = recorded[Len(recorded)] /\ recorded'[k + 1] = place
      BY <1>4, <2>1
    <3>2. recorded[Len(recorded)] \in Nat \X Nat
      BY <2>1, ElementOfSeq DEF OrderIInv
    <3>3. /\ recorded[Len(recorded)][1] <= demo
          /\ recorded[Len(recorded)][1] = demo => recorded[Len(recorded)][2] < inbox[1].n
      BY <1>2, <1>4, <2>1 DEF OrderIInv
    <3>4. QED
      BY <1>2, <1>3, <3>1, <3>2, <3>3
  <2>2. CASE k # Len(recorded)
    <3>1. k \in 1..(Len(recorded) - 1) /\ k + 1 \in 1..Len(recorded)
      BY <1>4, <2>2
    <3>2. recorded'[k] = recorded[k] /\ recorded'[k + 1] = recorded[k + 1]
      BY <1>4, <3>1
    <3>3. QED
      BY <3>1, <3>2 DEF OrderIInv, R!RecordedInOrder
  <2>3. QED
    BY <2>1, <2>2
<1>6. \A k \in 1..(Len(recorded') - 1) : k \in 1..Len(recorded)
  BY <1>4
<1>7. R!RecordedInOrder'
  BY <1>5, <1>6 DEF R!RecordedInOrder
<1>8. QED
  BY <1>4, <1>7 DEF m, place

\* The memory node records the first of what waits, or fails to.
LEMMA RecordingKeepsOrder ==
  ASSUME OrderIInv, R!OnEvent
  PROVE  OrderIInv'
<1> DEFINE m == Head(inbox)
<1>1. /\ inbox # <<>> /\ inbox' = Tail(inbox)
      /\ recorded' = recorded \/ recorded' = Append(recorded, <<m.demo, m.n>>)
      /\ UNCHANGED <<demo, pub, idx>>
  BY DEF R!OnEvent
<1>2. /\ Tail(inbox) \in Seq(Sent) /\ Len(Tail(inbox)) = Len(inbox) - 1
      /\ Len(inbox) \in Nat \ {0}
      /\ m = inbox[1]
      /\ \A k \in 1..Len(Tail(inbox)) : Tail(inbox)[k] = inbox[k + 1]
      /\ m.demo = demo /\ m.n <= idx /\ m.n \in Nat /\ demo \in Nat /\ idx \in Nat
  BY <1>1, FirstInLine DEF OrderIInv
<1>3. pub
  BY <1>1 DEF OrderIInv
<1>4. recorded' # recorded =>
        /\ recorded' \in Seq(Nat \X Nat)
        /\ Len(recorded') \in Nat \ {0}
        /\ recorded'[Len(recorded')] = <<m.demo, m.n>>
        /\ R!RecordedInOrder'
  BY <1>1, AppendingKeepsRecordedInOrder
<1> HIDE DEF m
<1>5. \A k \in 1..Len(inbox') :
        inbox'[k] = inbox[k + 1] /\ k + 1 \in 1..Len(inbox)
  BY <1>1, <1>2
<1>6. \A k \in 1..Len(inbox') : inbox'[k].demo = demo /\ inbox'[k].n <= idx
  BY <1>5 DEF OrderIInv
<1>7. \A k \in 1..(Len(inbox') - 1) : inbox'[k].n < inbox'[k + 1].n
  <2>1. ASSUME NEW k \in 1..(Len(inbox') - 1)
        PROVE  inbox'[k].n < inbox'[k + 1].n
    <3>1. /\ inbox'[k] = inbox[k + 1] /\ inbox'[k + 1] = inbox[(k + 1) + 1]
          /\ k + 1 \in 1..(Len(inbox) - 1)
      BY <1>1, <1>2, <1>5
    <3>2. QED
      BY <3>1 DEF OrderIInv
  <2>2. QED
    BY <2>1
<1>8. Len(inbox') > 0 => inbox'[1] = inbox[1 + 1] /\ m.n < inbox'[1].n
  <2>1. SUFFICES ASSUME Len(inbox') > 0 PROVE inbox'[1] = inbox[1 + 1] /\ m.n < inbox'[1].n
    OBVIOUS
  <2>2. 1 \in 1..(Len(inbox) - 1) /\ inbox'[1] = inbox[1 + 1]
    BY <1>1, <1>2, <1>5, <2>1
  <2>3. inbox[1].n < inbox[1 + 1].n
    BY <2>2 DEF OrderIInv
  <2>4. QED
    BY <1>2, <2>2, <2>3
<1>9. CASE recorded' = recorded
  <2>1. R!RecordedInOrder'
    BY <1>9 DEF OrderIInv, R!RecordedInOrder
  <2>2. ASSUME Len(recorded) > 0, recorded[Len(recorded)][1] = demo, Len(inbox') > 0
        PROVE  recorded[Len(recorded)][2] < inbox'[1].n
    <3>1. recorded[Len(recorded)] \in Nat \X Nat
      BY <2>2, ElementOfSeq, LenProperties DEF OrderIInv
    <3>2. recorded[Len(recorded)][2] < m.n
      BY <1>2, <2>2 DEF OrderIInv
    <3>3. inbox'[1].n \in Nat
      <4>1. inbox'[1] \in Sent
        BY <1>1, <1>2, <2>2, ElementOfSeq, LenProperties
      <4>2. QED
        BY <4>1, PlacesAreNumbers
    <3>4. QED
      BY <1>2, <1>8, <2>2, <3>1, <3>2, <3>3
  <2>3. QED
    BY <1>1, <1>2, <1>3, <1>6, <1>7, <1>9, <2>1, <2>2 DEF OrderIInv
<1>10. CASE recorded' # recorded
  <2>1. LET last == recorded'[Len(recorded')]
        IN  /\ last[1] <= demo /\ last[2] <= idx
            /\ Len(inbox') > 0 => last[2] < inbox'[1].n
    <3>1. recorded'[Len(recorded')][1] = demo /\ recorded'[Len(recorded')][2] = m.n
      BY <1>2, <1>4, <1>10
    <3>2. QED
      BY <1>2, <1>8, <3>1
  <2>2. recorded' \in Seq(Nat \X Nat) /\ R!RecordedInOrder' /\ inbox' \in Seq(Sent)
    BY <1>1, <1>2, <1>4, <1>10
  <2>3. QED
    BY <1>1, <1>2, <1>3, <1>6, <1>7, <2>1, <2>2 DEF OrderIInv
<1>11. QED
  BY <1>9, <1>10

\* Steps that send and record nothing: a launch begins a new count, with
\* nothing waiting, and the end of one leaves nothing behind.
LEMMA OthersKeepOrder ==
  ASSUME OrderIInv,
         \/ R!Launch \/ R!ShutDown \/ R!MemoryStarts \/ R!MemoryDies \/ R!Discover \/ R!LastTick
  PROVE  OrderIInv'
<1>1. R!RecordedInOrder' /\ recorded' = recorded
  BY DEF OrderIInv, R!RecordedInOrder,
         R!Launch, R!ShutDown, R!MemoryStarts, R!MemoryDies, R!Discover, R!LastTick
<1>2. CASE R!Launch
  <2>1. inbox = <<>> /\ inbox' = inbox /\ demo' = demo + 1 /\ idx' = 0
    BY <1>2 DEF OrderIInv, R!Launch
  <2>2. Len(inbox) = 0
    BY <2>1, EmptySeq
  <2>3. Len(recorded) > 0 => recorded[Len(recorded)] \in Nat \X Nat
    BY ElementOfSeq, LenProperties DEF OrderIInv
  <2>4. Len(recorded) > 0 =>
          recorded[Len(recorded)][1] <= demo' /\ recorded[Len(recorded)][1] # demo'
    BY <2>1, <2>3 DEF OrderIInv
  <2>5. QED
    BY <1>1, <2>1, <2>2, <2>4 DEF OrderIInv
<1>3. CASE R!ShutDown \/ R!MemoryDies
  <2>1. inbox' = <<>> /\ inbox' \in Seq(Sent) /\ Len(inbox') = 0 /\ UNCHANGED <<demo, idx>>
    BY <1>3, EmptySeq DEF R!ShutDown, R!MemoryDies
  <2>2. QED
    BY <1>1, <2>1 DEF OrderIInv
<1>4. CASE R!MemoryStarts \/ R!Discover \/ R!LastTick
  <2>1. UNCHANGED <<inbox, demo, idx>> /\ pub /\ pub' = pub
    BY <1>4 DEF R!MemoryStarts, R!Discover, R!LastTick
  <2>2. QED
    BY <1>1, <2>1 DEF OrderIInv
<1>5. QED
  BY <1>2, <1>3, <1>4

-----------------------------------------------------------------------------

\* A behaviour is of one program.
IInv ==
  /\ script \in {"e2e", "hw", "replay"}
  /\ script = "e2e" => WiringIInv
  /\ script = "hw" => JudgingIInv
  /\ script = "replay" => OrderIInv

\* The inductive invariant of whichever it is.
LEMMA Inductive == Spec => []IInv
<1>1. Init => IInv
  BY WiringHoldsAtStart, JudgingHoldsAtStart, OrderHoldsAtStart DEF Init, IInv
<1>2. IInv /\ [Next]_vars => IInv'
  <2> SUFFICES ASSUME IInv, [Next]_vars PROVE IInv'
    OBVIOUS
  <2>1. CASE UNCHANGED vars
    <3> USE <2>1 DEF vars, service, stack, traffic, scriptVars, hwVars, replayVars
    <3>1. WiringIInv => WiringIInv'
      BY DEF WiringIInv, AnswerIsOfLog, E!Answered, E!AnswerTo, E!Verdict, E!Id, E!Live
    <3>2. JudgingIInv => JudgingIInv'
      BY ArmsUnchanged DEF JudgingIInv, H!Call, H!Passed
    <3>3. OrderIInv => OrderIInv'
      BY DEF OrderIInv, R!RecordedInOrder
    <3>4. QED
      BY <3>1, <3>2, <3>3 DEF IInv
  <2>2. CASE E!Next /\ InEndToEnd
    BY <2>2, EndToEndKeepsWiring DEF IInv, InEndToEnd
  <2>3. CASE H!Next /\ InHardware
    BY <2>3, HardwareKeepsJudging DEF IInv, InHardware
  <2>4. CASE R!Next /\ InReplay
    BY <2>4, TickKeepsOrder, RecordingKeepsOrder, OthersKeepOrder DEF IInv, InReplay, R!Next
  <2>5. QED
    BY <2>1, <2>2, <2>3, <2>4 DEF Next
<1>3. QED
  BY <1>1, <1>2, PTL DEF Spec

\* A PASS of ros_end_to_end_check.py is about events of that very run, whatever
\* an earlier run left and however many events get lost.
THEOREM PassIsOfThisRun == Spec => []PassProvesWiring
<1>1. IInv => PassProvesWiring
  BY WiringImpliesVerdicts DEF IInv, PassProvesWiring
<1>2. QED
  BY <1>1, Inductive, PTL

\* A FAIL of ros_end_to_end_check.py says that nothing had been recorded.
THEOREM FailIsOfDelivery == Spec => []FailIsForDelivery
<1>1. IInv => FailIsForDelivery
  BY WiringImpliesVerdicts DEF IInv, FailIsForDelivery
<1>2. QED
  BY <1>1, Inductive, PTL

\* scenario_glossy_loop.py judges a phase by an answer to that phase's call,
\* given after the phase began, however late earlier answers come.
THEOREM PhasesJudgeTheirOwn == Spec => []AnswersAreOwn
<1>1. IInv => AnswersAreOwn
  BY JudgingImpliesVerdicts DEF IInv, AnswersAreOwn
<1>2. QED
  BY <1>1, Inductive, PTL

\* What passed phase one passes phase two if it is answered, through any number
\* of restarts and whatever live events come, unless the safe arm has some risk.
THEOREM PhaseTwoRemembers == Spec => []CrossRunHolds
<1>1. IInv => CrossRunHolds
  BY JudgingImpliesVerdicts DEF IInv, CrossRunHolds
<1>2. QED
  BY <1>1, Inductive, PTL

\* The log has the events of a replay in the order of the scenario, never twice
\* in a launch, though queues overflow and launches end early.
THEOREM ReplayIsInOrder == Spec => []RecordedInOrder
<1>1. IInv => RecordedInOrder
  BY DEF IInv, OrderIInv, RecordedInOrder
<1>2. QED
  BY <1>1, Inductive, PTL
=============================================================================
