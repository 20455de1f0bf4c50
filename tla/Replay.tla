------------------------------- MODULE Replay -------------------------------
(***************************************************************************)
(* The two ways to play a scenario of riskgraph_demo: offline_demo records *)
(* its events one after the other, and demo_offline.launch.py starts a     *)
(* node that publishes one at every tick of a timer, next to the memory    *)
(* node, which discovery connects at some time.  The store of the launch   *)
(* is a file, and the operator may end the demo and launch it again.       *)
(*                                                                         *)
(* Scenario events are stamped with a segment, so the memory node stores   *)
(* them as they come (StoreAsStamped of MemoryNode) or fails to.  On their *)
(* way severities and confidences are rounded to 32 bits and stamps cut to *)
(* nanoseconds; that two stores are the same is meant up to that.          *)
(***************************************************************************)
EXTENDS Topic, SequencesExt

CONSTANTS
  Scenario,  \* the fixture: a sequence of [id, age]
  Depth,     \* KEEP_LAST depth of publisher and subscription
  MaxDemos,  \* bound: times the demo is launched
  Period     \* time between two launches

VARIABLES
  demo,      \* launches so far
  pub,       \* is the publisher up
  mem,       \* is the memory node up
  matched,   \* has discovery connected the two
  early,     \* did it before the first tick
  failed,    \* has a record of this launch failed
  idx,       \* _idx
  timer,     \* is the timer armed
  inbox,     \* events that wait for _on_event
  store,     \* the timestamp under each id, or 0
  recorded   \* the events recorded, in order: the launch and the place in the scenario

vars == <<demo, pub, mem, matched, early, failed, idx, timer, inbox, store, recorded>>

Ids == {Scenario[n].id : n \in DOMAIN Scenario}

\* The loader stamps the events by their age, from now on backwards.
LoadScenario(d) ==
  [n \in DOMAIN Scenario |-> [id |-> Scenario[n].id, ts |-> d * Period - Scenario[n].age,
                              demo |-> d, n |-> n]]

\* Mutant: INSERT OR IGNORE.
KeepFirst(db, e) == IF db[e.id] # 0 THEN db ELSE [db EXCEPT ![e.id] = e.ts]

RecordEvent(db, e) == [db EXCEPT ![e.id] = e.ts]

EmptyStore == [i \in Ids |-> 0]

\* What offline_demo scores.
OfflineStore(d) == FoldLeft(RecordEvent, EmptyStore, LoadScenario(d))

NotLaunched ==
  /\ demo = 0
  /\ pub = FALSE /\ mem = FALSE /\ early = FALSE /\ failed = FALSE
  /\ idx = 0 /\ timer = FALSE
  /\ recorded = <<>>

Init ==
  /\ NotLaunched
  /\ matched = FALSE
  /\ inbox = <<>>
  /\ store = EmptyStore

-----------------------------------------------------------------------------

Launch ==
  /\ ~pub
  /\ demo < MaxDemos
  /\ demo' = demo + 1
  /\ pub' = TRUE /\ idx' = 0 /\ timer' = TRUE /\ failed' = FALSE
  /\ UNCHANGED <<mem, matched, early, inbox, store, recorded>>

MemoryStarts ==
  /\ pub /\ ~mem
  /\ mem' = TRUE
  /\ UNCHANGED <<demo, pub, matched, early, failed, idx, timer, inbox, store, recorded>>

Discover ==
  /\ pub /\ mem /\ ~matched
  /\ matched' = TRUE
  /\ early' = (idx = 0)
  /\ UNCHANGED <<demo, pub, mem, failed, idx, timer, inbox, store, recorded>>

\* Ctrl-C ends every node of the launch.
ShutDown ==
  /\ pub
  /\ pub' = FALSE /\ timer' = FALSE
  /\ mem' = FALSE /\ matched' = FALSE /\ early' = FALSE
  /\ inbox' = <<>>
  /\ UNCHANGED <<demo, failed, idx, store, recorded>>

\* Mutant: the index is not advanced.
SameIndex == idx

NextIndex == idx + 1

Tick ==
  /\ pub /\ timer
  /\ idx < Len(Scenario)
  /\ idx' = NextIndex
  /\ inbox' = IF matched THEN KeepLast(inbox, LoadScenario(demo)[idx + 1], Depth) ELSE inbox
  /\ UNCHANGED <<demo, pub, mem, matched, early, failed, timer, store, recorded>>

\* The tick after the last event cancels the timer; the node spins on.
LastTick ==
  /\ pub /\ timer
  /\ idx >= Len(Scenario)
  /\ timer' = FALSE
  /\ UNCHANGED <<demo, pub, mem, matched, early, failed, idx, inbox, store, recorded>>

\* The memory node alone dies, and what waits for it.
MemoryDies ==
  /\ mem
  /\ mem' = FALSE /\ matched' = FALSE /\ early' = FALSE
  /\ inbox' = <<>>
  /\ UNCHANGED <<demo, pub, failed, idx, timer, store, recorded>>

\* The record may fail, which is logged.
OnEvent ==
  /\ mem
  /\ inbox # <<>>
  /\ LET e == Head(inbox)
     IN  \/ /\ store' = RecordEvent(store, e)
            /\ recorded' = Append(recorded, <<e.demo, e.n>>)
            /\ UNCHANGED failed
         \/ /\ failed' = TRUE
            /\ UNCHANGED <<store, recorded>>
  /\ inbox' = Tail(inbox)
  /\ UNCHANGED <<demo, pub, mem, matched, early, idx, timer>>

Next ==
  \/ Launch \/ ShutDown
  \/ MemoryStarts \/ MemoryDies \/ Discover
  \/ Tick \/ LastTick
  \/ OnEvent

\* Executors serve their timers and subscriptions.
Fairness == WF_vars(Tick \/ LastTick) /\ WF_vars(OnEvent)

Spec == Init /\ [][Next]_vars /\ Fairness

-----------------------------------------------------------------------------

\* The launches record the events of the scenario in its order, each at most
\* once per launch, whatever is lost.
RecordedInOrder ==
  \A k \in 1..(Len(recorded) - 1) :
    LET a == recorded[k]
        b == recorded[k + 1]
    IN  a[1] < b[1] \/ (a[1] = b[1] /\ a[2] < b[2])

\* If discovery is done before the first tick, the live store ends as the
\* offline demo's, unless a record fails or a node is shut down: not even ids
\* that repeat, or a store that an earlier launch has left, make a difference.
LiveIsOffline ==
  [](early => <>(~early \/ failed \/ (~timer /\ inbox = <<>> /\ store = OfflineStore(demo))))

-----------------------------------------------------------------------------
(* What the documents say and the code does not do.                        *)

\* "The synthetic publisher exits after replaying all events."
PublisherExits == timer ~> ~pub

\* "So the same scenarios are exercised in both paths": a replay that is over
\* leaves what the offline demo scores.
SameInBothPaths ==
  pub /\ ~timer /\ mem /\ inbox = <<>> => store = OfflineStore(demo)
=============================================================================
