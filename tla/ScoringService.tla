--------------------------- MODULE ScoringService ---------------------------
(***************************************************************************)
(* The stack as a script sees it that publishes slip events on one arm of  *)
(* a fork and asks which arm to take: the memory node, the store and the   *)
(* planner, which are brought up together.  MemoryNode, RiskStore and      *)
(* RouteChoice model each of them; here an event is bound to an arm or to  *)
(* none.  The scripted events lie on the risky arm; what other emitters    *)
(* report of themselves meanwhile may lie anywhere.  No event moves to     *)
(* another arm when it is recorded again, so the reads of a request, which *)
(* RouteChoice takes apart, are one step here.                             *)
(***************************************************************************)
EXTENDS Topic, FiniteSets

CONSTANTS
  MaxEvents,    \* events that a script publishes
  LiveArm,      \* bound: events of other emitters; the arm on which each lies
  MaxEvidence,  \* events that an explanation cites at most
  Depth,        \* KEEP_LAST depth of the memory node's subscription
  MaxLaunches,  \* bound: times the stack is brought up
  None          \* nothing is recorded under an id

Arms == {"risky", "safe", "none"}

ASSUME ServiceAssumption ==
  /\ MaxEvents \in Nat /\ MaxEvidence \in Nat \ {0}
  /\ Depth \in Nat \ {0} /\ MaxLaunches \in Nat
  /\ LiveArm \in Seq(Arms)

\* What is recorded of an event; check is history, 0 for a live event.
Recorded == [arm : Arms, check : Nat]

ASSUME NoneAssumption == None \notin Recorded

VARIABLES
  up,        \* does the stack run
  launch,    \* times it was brought up
  seeded,    \* do the memory node's segments include the risky arm
  matched,   \* has discovery connected the script's publisher to the memory node
  inbox,     \* events that wait for _on_event: [id, check]
  store,     \* what is recorded under each id
  requests,  \* calls of score_routes that wait for the planner
  answers    \* its responses

stack == <<up, launch, seeded>>
traffic == <<matched, inbox, requests>>
service == <<stack, traffic, store, answers>>

\* The memory node gives an event without an id one of its own.
Live == (MaxEvents + 1)..(MaxEvents + Len(LiveArm))

\* Ids are fixed in the scripts, so a later check records them again.
Id == 1..MaxEvents \cup Live

\* The spatial join of an event, if the arm on which it lies is a known segment.
ArmOf(i) ==
  LET arm == IF i \in Live THEN LiveArm[i - MaxEvents] ELSE "risky"
  IN  IF arm = "risky" /\ ~seeded THEN "none" ELSE arm

EmptyStore == [i \in Id |-> None]

ServiceInit ==
  /\ up = FALSE /\ launch = 0
  /\ matched = FALSE
  /\ inbox = <<>>
  /\ store = EmptyStore
  /\ requests = {} /\ answers = {}

\* Nothing that waits in a process outlives it.
StackGone ==
  /\ up' = FALSE
  /\ matched' = FALSE
  /\ inbox' = <<>>
  /\ requests' = {}

Discover ==
  /\ up /\ ~matched
  /\ matched' = TRUE
  /\ UNCHANGED <<stack, inbox, requests, store, answers>>

Enqueue(i, check) == inbox' = KeepLast(inbox, [id |-> i, check |-> check], Depth)

\* The topic is volatile: what is published before discovery is lost.
Send(i, check) == IF matched THEN Enqueue(i, check) ELSE UNCHANGED inbox

\* An adapter of the same launch reports something, connected for itself.
LiveEvent ==
  /\ up
  /\ \E i \in Live :
       /\ store[i] = None /\ \A k \in DOMAIN inbox : inbox[k].id # i
       /\ Enqueue(i, 0)
  /\ UNCHANGED <<stack, matched, requests, store, answers>>

\* The record may fail, which is logged.
OnEvent ==
  /\ up
  /\ inbox # <<>>
  /\ LET m == Head(inbox)
     IN  \/ store' = [store EXCEPT ![m.id] =
                        [arm |-> ArmOf(m.id), check |-> m.check]]
         \/ UNCHANGED store
  /\ inbox' = Tail(inbox)
  /\ UNCHANGED <<stack, matched, requests, answers>>

OnArm(arm) == {i \in Id : store[i] # None /\ store[i].arm = arm}

\* The most severe events on an arm, whichever they are.
Evidence(arm) ==
  {S \in SUBSET OnArm(arm) :
     LET n == Cardinality(OnArm(arm))
     IN  Cardinality(S) = IF n <= MaxEvidence THEN n ELSE MaxEvidence}

\* Of two arms of one length the one with less risk is chosen, for the events
\* on the other; if they have the same, the first, for its length.
Weighs(chosen, evidence) ==
  \/ chosen = "safe" /\ evidence \in Evidence("risky") /\ evidence # {}
  \/ chosen = "risky" /\ evidence \in Evidence("safe") /\ evidence # {}
  \/ chosen = "risky" /\ evidence = {} /\ (OnArm("risky") = {} <=> OnArm("safe") = {})

\* _on_score
OnScore ==
  /\ up
  /\ \E c \in requests, chosen \in {"risky", "safe"}, evidence \in SUBSET Id :
       /\ Weighs(chosen, evidence)
       /\ answers' = answers \cup
            {[call |-> c, chosen |-> chosen, evidence |-> evidence,
              recorded |-> {i \in Id : store[i] # None}, launch |-> launch]}
       /\ requests' = requests \ {c}
  /\ UNCHANGED <<stack, matched, inbox, store>>

Answered(call) == \E a \in answers : a.call = call

AnswerTo(call) == CHOOSE a \in answers : a.call = call
=============================================================================
