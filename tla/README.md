# A verification project for riskgraph-go2

RiskGraph gives a Go2 robot a memory of where things went wrong: adapters turn
safety alerts, component faults and slips into risk events, a memory node binds
them to route segments and stores them in SQLite, a planner scores candidate
routes with them, and an explainer says why. This directory holds TLA+
modules translated from that code, TLC configurations that check them on
small instances, and TLAPS proofs of what matters most.

All paths below are relative to the repository (`src/` in `PROJECT.json`).
Packages live in `src/riskgraph_*`.

## 1. The system

| Part | Code | State | Operations |
|---|---|---|---|
| Risk store | `riskgraph_core/store.py` | a SQLite file (`risk_event`, `risk_factor`) in WAL mode, shared by processes | open, `record_event`, `events_for_segment` and the two reads above it, `close` |
| Event model, segment risk | `events.py`, `store.py` | none | severity, decay, dominant category, evidence |
| Route scoring, explanations | `scoring.py`, `explainer.py` | none | `score_routes`, `explain_choice` |
| Segment geometry | `segments.py` | none | `segment_for_point` |
| Segment seeds | `seed.py` | none | load, parse, merge |
| Memory node | `riskgraph_memory/memory_node.py` | store, seed segments and frame, counters, subscription queue | start, `_on_event`, `_on_query` |
| Odometry cache, pose tagging | `pose_source.py`, `adapters/pose_tagging.py` | last pose, counters | `update`, `pose_at`, `_on_odom`, `stamp_pose` |
| Adapters | `adapters/*_adapter.py` | the slip flag last seen (tactile) | one callback each |
| Planner node | `riskgraph_planner/planner_node.py` | store | service `score_routes`, publishes the scores |
| Explainer node | `riskgraph_explainer/explainer_node.py` | store or none | callback on the scores |
| Configuration, launch files, interfaces | `config.py`, `riskgraph_bringup`, `riskgraph_msgs` | none | declarative |
| Synthetic publisher, offline demo | `riskgraph_demo/` | the index into a scenario, a timer | `_tick`; `run_demo` |
| End-to-end script | `scripts/ros_end_to_end_check.py` | a store file of its own, a spin thread, an exit code | one run |
| Hardware scenario | `tests/hw/scenario_glossy_loop.py`, `tests/hw/lib/scenario_runner.py` | results of two phases | one run, with a restart of the stack in between |

How they interact:

    upstream topics --> adapters --/riskgraph/risk_events--> memory node --\
    odometry ---------> (cache)                                             SQLite
    route server --service score_routes--> planner <-- reads --------------/
                                             |                            /
                                  /riskgraph/route_scores --> explainer <-

Every node is a process of its own on a single-threaded executor: a callback
runs to its end, and messages wait in bounded queues meanwhile. Processes meet
in two places only, the topics and the database file.

What is hard about it, and what makes each part correct:

* **Store.** Writers of several processes contend for one lock; statements
  fail; processes die inside a transaction, or leave it by an exception that is
  no `sqlite3.Error`; `synchronous=NORMAL` lets a power loss take the newest
  commits; and a read is *not* a transaction: it selects the rows of a segment,
  then the factors of each row, while others commit in between. Correct: an event
  is there in full or not at all, for readers and after every crash; no commit
  undoes another's; the lock is always given up. Where the code falls short of
  that, it does so under the id of an interrupted recording only.
* **Pose tagging.** Messages and samples wait, clocks disagree, stamps are
  missing, coordinates are garbage. Correct: an event is located where the robot
  was near the event's time, or it is not located.
* **Scoring and explaining.** A request makes a dozen reads while events arrive
  and replace others, and one more after the choice was made; route ids may
  repeat. Correct: no score is below what its route deserves for the events that
  stood all through the request, nor above what it deserves for all that came
  and went, and the choice and its explanation are right to that extent.
* **Memory node.** Seeds are edited between runs, ids are recorded again,
  emitters stamp other frames, records fail. Correct: a binding is to the
  nearest segment of the seed in force, in its frame, and the counters cover it.
* **Geometry.** Ties, points beyond an end, segments without length, NaN.
* **Slip edges.** The flag is published again and again, the queue loses
  messages, the adapter restarts and takes the flag to be low. Correct: a run
  reports a slip at most once, and misses one only if no low flag reached it
  since an earlier one.
* **Scripts.** They judge nodes in other threads and processes by what comes
  back before a deadline, on a store that may hold what earlier runs left.
  Correct: a PASS of the end-to-end script is about its own run, a phase judges the
  answer to its own call, what passed phase one passes phase two, every run ends.
* **Replay.** The timer does not wait for discovery, and a scenario is replayed
  on the store of the last launch. Correct: events are recorded in their order,
  and, when discovery was in time and every record succeeds, the store ends as the
  offline demo's.

`PROJECT.json` lists 40 such hazards at their lines, with the properties that
watch each, or a note why none does.

## 2. The modules

| Module | What it is |
|---|---|
| `RiskLog` | the abstract promise of the store: an atomic map from ids to events, with crashes, power loss and calls that are broken off |
| `RiskStore`, `RiskStoreProofs` | the store, statement by statement; its invariants, and that it implements `RiskLog` |
| `Topic` | a KEEP_LAST queue |
| `PoseTagging` | an adapter node, its odometry cache, and the robot, clocks and queues around it |
| `SlipEdges`, `SlipEdgesProofs` | the tactile adapter as an edge detector over a lossy queue and restarts |
| `Geometry` | distances as fractions, and points along a segment |
| `Segments` | the nearest segment, with an independent definition of nearest (EXTENDS `Geometry`) |
| `SegmentList` | the dictionary and the lists of `seed.py`: last entry wins, first place kept |
| `SegmentSeed` | from a seed file to a segment list, and the merging of seeds (EXTENDS `Segments`, `SegmentList`) |
| `MemoryNode`, `MemoryNodeProofs` | the memory node (EXTENDS `SegmentSeed`) |
| `Ingest`, `IngestProofs` | `PoseTagging` and `MemoryNode` composed: from the robot to the log; proofs about the adapter and about the whole |
| `Scoring` | severity, risk, dominant categories, evidence, route score: operators |
| `RouteChoice`, `RouteChoiceProofs` | planner and explainer over a store that is written, and overwritten, meanwhile (EXTENDS `Scoring`) |
| `ScoringService` | memory node, store and planner as a script sees them: a topic, a file and a service |
| `EndToEnd`, `HardwareCheck` | the two scripts (EXTEND `ScoringService`) |
| `Replay` | the synthetic publisher against the offline demo |
| `DataLemmas` | lemmas about queues, folds, sums, lists of segments and distances, for all the proofs below |
| `Scripts`, `ScriptsProofs` | the last three as one specification, and proofs of what they show |
| `MC...` | the instances TLC checks; `MCCore` also drives the operators of `Segments` and `SegmentSeed`, for any points and files |
| `CoreProofs` | that the search is exact and that merging seeds is reading one file |

Definitions preceded by a comment `Mutant:` are not part of any specification.
Each is a plausible bug in the definition that follows it; `PROJECT.json` pairs it
with a property that then fails, which shows that the property depends on
that code.

### RiskStore

An action is one SQL statement. `record_event` is `RecordEvent`,
`BeginImmediate` (or, when another connection holds the lock past the busy
timeout, `BeginRefused`), `InsertOrReplaceRow`, `DeleteOldFactors`,
`InsertNextFactor` once per factor, `Commit`, `ReturnFromRecord`. Any statement
may fail with a `sqlite3.Error` (`StatementFails`), after which `Rollback` closes the
transaction and the exception leaves the method. Any other exception, Ctrl-C or lack of
memory, leaves the method at once (`Escape`), and the transaction stays open: until the
connection records again (its BEGIN is refused, which rolls back), dies, or runs
`Close`, which commits what is there. `left` is the id such a transaction is about
and `torn` the ids that were committed so; both are history. `events_for_segment` is `EventsForSegment`,
`SelectRows`, `SelectFactors` per row in order of timestamp, `RowsDone`, `ReturnEvents`;
`segment_risk` and `evidence_for_segment` call it and compute.

SQLite is external and modelled by what the code relies on: one private copy
(`txn`) that COMMIT publishes, one write lock, each SELECT outside a
transaction reads the last commit, an aborted or dead transaction vanishes.
`hist` is the list of committed states since the last checkpoint; a power loss
keeps any nonempty prefix of it. ROLLBACK is assumed to close the transaction; a roll back that
fails itself is an `Escape`.

Abstractions: a row keeps its segment and timestamp, the columns the read depends
on; a factor is an indivisible value; switching to WAL and creating the schema are one
step (`Open`).

### PoseTagging

One callback is one step. The robot's path `at` is an arbitrary function of
time. The driver publishes the present position or garbage, with no stamp or
with its clock's stamp (`Skew` off); one sample waits at most `MaxDelay` ticks, may be
lost, and is replaced by the next (BEST_EFFORT, depth 1). Upstream messages wait as
long as they like in a KEEP_LAST queue. `OnOdom`, `OnAlert`, `OnFault`, `OnSlip` and
`OnClear` are the callbacks; `PoseAt`, the cache's `pose_at`, has the age bound on both sides; a fault
whose timestamp is not finite ends the process (`int()` raises in
`helix_adapter.py`). `Crash` and `StartNode` forget the cache and the slip
flag. `NotFinite` also stands for timestamps that the field `sec` cannot hold.

The three adapters are one module here; they differ only in where an event's time comes from, and
`Kinds` says which of them an instance is (the run `PoseTagging` gives one node all kinds). How many
events a slip becomes is the subject of `SlipEdges`. The severity tables are data. The accepted and
rejected counters of the cache are left out.

### Scoring and RouteChoice

Floats are natural numbers, so sums are exact. A tick is one half life, so a
decayed weight halves per tick, and is 0 after `Horizon` of them, as the code's
float is after many more. Ties in `DominantCategories` are broken as the code does, by
order of first appearance; evidence is in the order of the stable sort.

`OnScore` takes a request and the weights (ROS parameters are read per request). A read of the store is
two steps, as in `RiskStore`: `SelectSegmentRows` takes the rows of a segment, `ReadSegment` what is
stored of their factors by then. `ScoreRoute` ends a route. `RespondToNoCandidates`, `RespondAvoiding`
and `RespondOtherwise` are the branches of `explain_choice`, the second with a late read of its own
(`SelectEvidenceRows`). The explainer likewise names a risk in `OnScores` and cites evidence in
`SayWithEvidence`. Between any two steps time may pass (`Tick`) and an event may be recorded
(`RecordEvent`): it *replaces* the one stored under its id, which may have been on another segment,
milder or older. So a read may return the row of one recording with the factors of another (`Torn`,
`Version`), risk may fall during a request, and evidence may be gone when it is read. Both processes may
die at any point. That the code chooses and looks up routes by id, the first of several that share one,
is `Chosen`, `Others` and `Called`.

`atStart`, `held` and `ever` are history, used by properties only: the log when the request came,
what its reads may have returned since, and what any read ever may have. Every
event has all its factors here; that an interrupted recording may leave less is the subject
of `RiskStore`, and not repeated.

### Geometry, Segments, SegmentList, SegmentSeed, MemoryNode

Points are pairs of integers and squared distances are fractions, so comparisons
are exact (the third coordinate is treated alike in the code). A coordinate
that is NaN or infinite makes a segment incomparable, because `d < best` is false.

`LoadSeed` follows every check of `seed.py` in order, ending in a seed,
a `SegmentSeedError`, or an exception that is not caught. `StartWithSeed`,
`StartWithRejectedSeed`, `DieOfSeed` and `StartWithoutSeed` are `__init__`;
`DropMalformed`, `StoreAsStamped`, `StoreUnposed`, `StoreMismatched` and `StoreJoined` are
the branches of `_on_event`, each with both outcomes of `record_event`.
`stored` remembers for every event by which seed and in which run it was bound;
only the properties read that. `_on_query` changes nothing and is not an action.

`LastWins` and `Duplicates` are the loop of `parse_segment_seed` (and that of
`merge_segment_seeds`, which is the same): a dictionary, the order of the first entries, and
the ids met again. `MergeSeeds` is `merge_segment_seeds`, with `MergedFrame` for the last frame
that is not the default. The path a seed came from is left out.

That a segment is nearest is said without the code's projection and clamping: `IsNearest`
compares the squared distances to `Grid` + 1 points spread evenly along each segment.
It is exact if `Grid` is a multiple of every squared length (`GridAssumption`), since then the foot of each
perpendicular is among the points.

### SlipEdges

Slips are numbered, which is history: no decision depends on the number. The
sensor publishes when the flag changes and in between (`StartSlipping`,
`StopSlipping`, `RepeatFlag`); `OnSlip` is `_on_slip` of `tactile_adapter.py`, and
`StartAdapter` sets `_prev` to `FALSE` as its constructor does. `seen`
and `cleared` are what this run has received, for the properties.

### Ingest

An instance of `MemoryNode` takes what `PoseTagging` publishes. The variables of
the two are disjoint; `Deliver` hands an event from one process to the other,
`LoseEvent` drops it when the memory node is down. Both nodes restart, the memory node with any
seed file, rejected and fatal ones included. `AdapterStep` ends with the last delivery that
the bound allows. `origin` is where on the site
the odometry frame has its origin, which no message tells.

### ScoringService, EndToEnd, HardwareCheck, Replay, Scripts

`ScoringService` is coarser than the modules above: an event lies on the risky arm of a fork, on the
safe one or on none; the planner chooses the arm with less risk, the first if they have the same, and
cites the most severe events of the other, `MaxEvidence` at most. That this is what the stack does is
the subject of `MemoryNode` and `RouteChoice`. The adapters of the launch report events of their own at
any time (`LiveEvent`), and how severe an event is is open, so any may outrank any other. Whether the
memory node has a seed does not change over restarts. `EndToEnd` brings up no adapters, so there the
script is the only emitter.

A script is a list of steps between which the other processes and threads take
any number of theirs. A sleep is no step: how much gets done in it is open. In
`EndToEnd` the nodes run on a thread of the script's own process, which may die
(`ExecutorDies`) while its service stays advertised. In `HardwareCheck` the operator
brings the stack up and takes it down at any time (`BringUp`, `TakeDown`);
`PressEnter` needs somebody at the prompt, `NobodyThere` is the `EOFError`. Requests that
were given up stay with the planner and may be answered late. The verdicts of the phases are
modelled, the exit code that sums them up is not.

In `Replay` the timer ticks whether or not discovery is done; `Launch` stamps the scenario anew, so the
same ids come with other times; the store outlives `ShutDown`. A record may fail, which the memory node
logs (`OnEvent`, `failed`), and it may die alone (`MemoryDies`). That a message rounds confidence and
severity to 32 bits (`RiskEvent.msg`, `RiskFactor.msg`) and cuts fractions of a nanosecond off a
timestamp, both of which the offline demo does not do, is left out: `LiveIsOffline` is about which
events are there and which recording of each, by the whole time units of `Period`.

`Scripts` puts the three side by side: a behaviour is of one of them, drawn
at the start. They share queue and store, so one specification serves for the runs and for
the proofs.

## 3. The runs

| Run | Shows | Bounds and why they bite |
|---|---|---|
| `RiskStore` | all safety invariants, the refinement of `RiskLog`, and under fairness `LockIsReleased`, `EveryCallEnds` | two connections (the lock and the torn read need two); one id recorded with two contents, one of them unbound, and one with one content, as the `uuid4` ids of the memory node have; an event with two factors, so that a half-written list exists; two unsynced commits; one id torn (`MaxTorn`), so that both a torn id and an intact one exist |
| `RiskStore_torn_read` | *violation* of `ReadsRecordedEvents` | the same, with no id torn, so that interruptions are not the cause |
| `RiskStore_bare_row` | *violation* of `NoBareRow` | as `RiskStore` |
| `PoseTagging` | `CacheIsHonest`, `EventsAreHonest`, `UnsetStampIsUnlocated` | the driver's clock a tick behind and samples that wait a tick, both at once; `MaxAge` 1; the clocks begin at `MaxAge` + 1, the earliest `TimeAssumption` allows, where time 0 is nearest; four instants, more than `MaxAge` plus one error, and all paths over two positions |
| `SlipEdges` | `ReportedInOrder`, `MissedForCause`, and under fairness `HeldSlipIsReported` | three slips (one reported, one merged into it, one after), three runs, a queue of two, so that it overflows between two edges |
| `Core` | `FindsTheNearest`, `MergeIsOneFile` | all points against all lists of up to two segments on a 3 by 2 grid, degenerate ones and ones with an end that is not finite included. `Grid` = 20 is a multiple of every squared length there (1, 2, 4, 5), so the foot of each perpendicular is among the points compared and the reference is exact. Every way to split up to four segments, of three ids and two places, over up to three files that name either frame or none |
| `MemoryNode` | `JoinsAreNearest`, `UnboundForCause`, `JoinedCountCovers` | three messages of eight kinds, a queue of two, so that it overflows; two starts, each with any of eight seed files or none |
| `MemoryNode_seed` | *violation* of `SeedIsNotFatal` | as `MemoryNode` |
| `Ingest` | `JoinsAreTrue` | two positions, each nearest to another segment; the clock a tick behind, samples that wait a tick, and four instants with `MaxAge` 1, so that the errors add up; the adapter restarts at will, the memory node once, with any of two seeds that have their segments swapped, one that is rejected, one that is fatal, or none; one event, which is enough for a property about single records. Once it is delivered the adapter is of no consequence, and the VIEW `WhatMatters` merges states that differ in it only |
| `RouteChoice` | `ScoresAreBracketed`, `ChoiceIsJustified`, `AvoidanceIsEvidenced`, `ShorterIsShorter`, `RemainingRiskIsEvidenced` | three ids of different age, severity and confidence, one recorded again, milder, later and on the other segment; routes that pass a segment twice, that share one, that share an id, and none at all; weights with and without decay and risk; `MaxEvidence` 1, so that the cut bites; four versions (`MaxVersions`), torn ones included |
| `RouteChoice_avoided` | *violation* of `AvoidedIsAvoided` | the default weights |
| `Scripts` | `PassProvesWiring`, `FailIsForDelivery`, `AnswersAreOwn`, `CrossRunHolds`, `RecordedInOrder`, and under fairness `LiveIsOffline`, `EveryRunEnds` | two scripted events and a live one on either arm, with `MaxEvidence` 2, so that live events crowd out scripted ones; two launches of the stack and two runs of the script, so that a run meets what the last one left; a scenario of three events with an id twice, the later one the older, over three launches |

`MemoryNode`, `Ingest`, `SlipEdges`, `Core` and `Scripts` switch the deadlock check
off: there a node may stay down, or an operator be done, when the bounds on starts, events
and launches are used up. All bounds are constants with the comment "bound"; no other
limits exist.

The properties are stated in English above their definitions. Those that
deserve a remark:

* `ImplementsRiskLog`: `record_event` takes effect at one instant between call
  and return, returns only if it did and raises only if it did not; after a
  power loss the log is an earlier state of itself, never older than the last
  checkpoint. The refinement maps a pending call to "applied" at COMMIT. A call that an
  exception past `sqlite3.Error` breaks off is the exception: if the log is closed upon it,
  it may hold anything under the id of that call (`StopTorn`), and only there.
* `RecoverableStatesAreWhole`, `NoFactorlessRead`, `EveryRowReturnedWhole` and `ReadIsSnapshot` except
  the same ids, and no others. `TransactionIsolated` says that an abandoned transaction too can damage
  its own id only. `LockDiscipline` names the one case in which a method leaves with the lock.
* `ScoresAreBracketed` and `ChoiceIsJustified`: a request is not a snapshot, and
  the obvious properties ("the score is the route's score", "the chosen route is
  the cheapest") fail. What holds is that a score lies between the score over the
  events that stood, unchanged, all through the request (`Steady`) and the score over all that a read may have
  met (`held`), torn versions included, with the age fixed at the start; and
  that the choice is right up to that difference. If nothing is written meanwhile, the two are one and the
  choice is the cheapest.
* `AvoidanceIsEvidenced` and `RemainingRiskIsEvidenced`: what is named was recorded there, and the evidence
  cited shows it, unless an id of the segment was recorded again after a read may have met it: then
  the evidence may be empty, for which `explainer.py:94` has a branch.
* `ShorterIsShorter` presumes that the ids of the candidates differ. If two routes have one, the
  explanation may speak of the other.
* `JoinedCountCovers`: the counter is an upper bound only; it is incremented before the record,
  which may fail.
* `MissedForCause`: a slip may be missed. If a falling edge is lost, the
  adapter cannot tell the next slip from the one before; that is the only cause.
* `JoinsAreTrue`: the errors add up over two processes, but no more than `MaxAge` plus the
  error of the stamps separates the place a join used from where the robot was.
* `FailIsForDelivery`: exit code 1 is never about the risk model; it says that
  the planner answered before anything was recorded. The second sleep of the script is
  all that makes it unlikely.
* `CrossRunHolds`: phase two may cite other events than phase one, as live ones rank higher, but it
  passes. It may fail if the safe arm has risk itself by then, or for want of an answer.
* `LiveIsOffline`: if discovery is done before the first tick, no record fails and no node dies, the
  live store ends as the offline demo's, whatever an earlier launch left in it.

### Findings

1. `RiskStore_torn_read` (`store.py:105`). If an id is recorded again between
   the SELECT of the rows and that of its factors, a reader gets the row of
   one recording with the factors of another: an event that nobody recorded.
   `test_store.py:157` and `docs/validation.md:14` speak of a concurrent reader that
   sees an event whole. Events whose id the memory node assigns are safe
   (`ReadIsSnapshot`); those whose id the emitter assigns are not.
2. `RiskStore_bare_row` (`store.py:94`). The transaction is rolled back for `sqlite3.Error` only. After a
   Ctrl-C between the first INSERT and the commit, `destroy_node` calls `close()`, whose `commit()`
   (`store.py:191`) publishes the row with none or some of its factors; leaving a `with` block does the
   same. "a concurrent reader can't observe an event row with no factors", says `store.py:65`.
3. `RouteChoice_avoided` (`explainer.py:85`). "The chosen one avoided it" is said of a segment that
   may be on the chosen route too.
4. `MemoryNode_seed` (`memory_node.py:84`). "Seed misconfig is loud but non-fatal" (`:86`), yet
   a file that is not UTF-8, or an integer coordinate beyond any double, raises
   an exception that nobody catches, and the node dies.

Other sentences that the code does not keep stand as definitions under "What the
documents say and the code does not do" in the modules. TLC finds each violated when it is
added to the run named; they have no run of their own because less hangs on them:

| Definition | What is said | What happens | Run |
|---|---|---|---|
| `AvoidanceCites` | "the actual RiskEvent.event_id values that drove the decision" (`explainer.py:4`) | the evidence is read after the decision, and may be gone by then | `RouteChoice` |
| `CleanIsClean` | "no prior risk events are recorded on its segments" (`explainer.py:26`) | said when the risk is 0, which an event of no confidence leaves it at | `RouteChoice` |
| `ReceivedSlipIsReported` | "a single RiskEvent per leading edge" (`tactile_adapter.py:3`) | a slip whose predecessor's falling edge was lost is not reported | `SlipEdges` |
| `JoinsShareTheOrigin` | the memory node "refuses to spatially join an event whose frame differs from the seed's" (`docs/hardware_integration.md:35`), though the origin of `odom` "is the robot's boot pose" (`:31`) | frames are compared by name, so a robot switched on elsewhere is joined to the old seed | `Ingest` with `Offset <- TwoOrigins` |
| `PassProvesPersistence` | "The verdict here proves the SQLite file persisted across the kill/restart" (`scenario_glossy_loop.py:167`) | both phases pass though nobody restarted anything | `Scripts` |
| `PassProvesLiveEvent` | "phase-1 (live event)" (`scenario_glossy_loop.py:36`) | phase one passes by an alert of an adapter, or by the events of an earlier run | `Scripts` |
| `ScriptedEventsAreBound` | "the segments are pre-tagged via `RiskEvent.segment_id`" (`docs/HW_VERIFICATION.md:193`) | the scripted events leave it blank; without a seed they are unbound | `Scripts` |
| `PublisherExits` | "The synthetic publisher exits after replaying all events" (`docs/demo.md:59`) | it cancels its timer and spins on | `Scripts` |
| `SameInBothPaths` | "the same scenarios are exercised in both paths" (`scenario.py:4`) | events that are published before discovery, or whose record fails, are lost | `Scripts` |

And two that no module states: `decay_half_life_s` of the memory node's section of
`default.yaml` (line 15) is declared (`memory_node.py:56`) and never read; and seeds in different
frames merge without complaint (`seed.py:216`), though the README has joins across frames
refused.

## 4. Fairness

* `RiskStore`, `FairSpec`: weak fairness of each connection's write steps and read steps. A
  method that was called keeps executing statements, and each gets an answer: BEGIN within
  the busy timeout that the code sets (`store.py:57`), the others at once. It does not assume
  that methods are called, that a BEGIN succeeds, that commits are checkpointed or that
  anything crashes or does not.
* `SlipEdges`: the sensor goes on publishing its flag (`RepeatFlag`), and the executor of a
  running adapter serves its queue (`OnSlip`). Neither a restart nor the end of a slip is assumed.
* `Scripts`: the main thread of a script goes on (`Main`), because every wait in it has a
  timeout, except at the prompt, where `PressEnter` is not in `Main`; a running publisher's
  timer ticks and a running memory node serves its queue. Discovery, the planner and the
  operator are not fair. `EveryRunEnds` therefore ends at the prompt if somebody is there.

The other modules state no fairness: queues drop and callers may stop calling, and no
promise of the nodes is left that does not assume progress of ROS.

## 5. The proofs

Every safety invariant that a run checks is also a theorem, and so is the refinement of `RiskLog`.
Theorems hold for every value of the constants that satisfies the named assumptions; TLC
evaluates each assumption in the runs. They are about the constants only:

* bounds are natural numbers, queues have room for one message, and special values (`None`,
  `NotFinite`, `NoSegment`, blank ids) are no ordinary ones;
* `EventAssumption`: events have factors, which `RiskEvent.__post_init__` enforces; in
  `RouteChoice`, with severities, a confidence and a time that are whole numbers of some unit, and as many
  events to an id as one likes;
* `TimeAssumption`: clocks are later than `MaxAge`, as clocks that count from 1970 are;
* `SeedAssumption` (`MemoryNode`): what `LoadSeed` finds at the seed path is one of the outcomes it
  distinguishes, its entries good, bad or beyond a double;
* `MessageAssumption`: a message has a segment id or a blank one, and a position that is
  finite, infinite or has a NaN;
* `GridAssumption`: `Grid` is fine enough for the segments at hand. It constrains the
  yardstick of the property, not the code;
* `RequestAssumption`: requests name routes of finitely many segments, with ids that may repeat, and lengths and
  weights that are natural numbers;
* `IdsAreFinite`: the memory node's log holds finitely many ids; `ServiceAssumption`: the scripts' stack
  has finitely many live events, each on an arm; `ReplayAssumption`: the scenario fits the demo's queue.

**Folds.** The code's loops are folds (`FoldLeft`, `FoldLeftDomain`, `MapThenSumSet`), which the community
modules define by CHOOSE of a recursive function. `DataLemmas` shows that such a function exists
(`FoldExists`) and that it goes along a sequence one position at a time (`FoldOfPositions`,
`FoldAlongPrefixes`), from which every other fact about a loop follows. No induction theorem with
an operator parameter is used: `SmallestOf` and `MinimalSet` give a least counterexample from the
well-foundedness of `<` and of strict inclusion, and `CountingUp` and `Appending` are
stated about sets, not operators.

**`RiskStoreProofs`.** `TypeCorrect` is inductive by itself. The safety of
reads is not: that no row is without factors needs that a commit publishes whole events,
which needs that a transaction about to commit holds its event in full and the
rest of the database as last committed, which needs that nobody commits meanwhile, which is
the lock. The inductive invariant is therefore

    TypeOK /\ LockDiscipline /\ TransactionIsolated
      /\ RecoverableStatesAreWhole /\ ReadsInProgress

proved action by action, with lemmas for what each statement does to a
database. An abandoned transaction is part of it: `LockDiscipline` has it hold the lock for its connection, so
nobody else writes; `TransactionIsolated` has it hold a whole event or a part of one under the
id in `left` (`Contained`), so that `close()` adds that id to `torn` and damages no other.
`NoFactorlessRead`, `EveryRowReturnedWhole` and `ReadIsSnapshot`
follow. `StoreImplementsLog` maps each step to a step of
`RiskLog` or a stutter: all statements but COMMIT, an interruption, checkpoint, power loss, opening, closing,
dying, calling and returning are stutters, because the private copy is not
part of `statesBar`.

Through that refinement the store inherits what is proved of the log. `HistoryIsStepwise`: each state
that a power loss may fall back to differs from the one before it by one recorded event, or under the id of one
torn recording, so what is
left after a loss is what some of the calls, the first ones, led to, and no commit ever carries
along, or undoes, a change to another event. `ReturnedMeansRecorded`: when `record_event` returns, the log
has its event or a later one of its id, unless that id is torn.

**`MemoryNodeProofs`.** `BindingInv` consists of the node (`NodeInv`), the queue (`QueueInv`), the
seed in force (`SeedInv`: no id is listed twice) and the records (`StoredInv`). A record carries the
seed it was bound under, so it stays true when the seed is edited: that is why the properties are about
`r.seed` and not about `seed`. `JoinsNearest` then needs that the search is right, below.
`CountIInv`: the joins of this run in the log are at most as many as the
counter says, and no record is of a run to come, so a restart may reset the counter.

**`CoreProofs`, the search.** `SegmentForPoint` compares fractions by cross-multiplication
and takes the first of the least. `CloserIsAnOrder` makes that comparison a total preorder, so a least exists
(`FirstNearestExists`). That the least is the nearest by the other definition rests on an
identity of integers: with `g` the grid, `l` the squared length, `t` the dot product that the code
projects by and `f` the squared distance to the segment's start,

    l * (g^2 times the squared distance to point j of the grid)
       = (g*t - j*l)^2 + g^2 * (f*l - t^2)

The second term does not depend on `j`, so the grid point with `j*l = g*t` is
nearest, and the clamped ends are nearest when `t` is out of range (`FootIsNearest`, `DistanceOnGrid`).

**`CoreProofs`, the merging.** Merging sees each file's list after the file's own duplicates were
removed; reading one file sees all lines. `PutLastWins` says that putting a stripped list into any list
gives what putting the whole list gives. It goes by appending: a segment that replaces an
earlier one inside the file (`PutReplaced`) may as well be put last (`PutInAnyOrder`, `PutAgain`).
With `PutConcatenated` this extends to any number of files (`MergedSegments`). The duplicates are
counted, not compared as lists: a list's length is its distinct ids plus its duplicates
(`DuplicatesCount`), lengths add up over files, and the distinct ids are the same on both sides.

**`IngestProofs`.** Of the adapter: the inductive invariant adds three facts to the properties: only
faults have timestamps that are not finite, a waiting sample is true and recent, and a cached stamp is
later than `MaxAge`. The honesty of an event is the triangle inequality between the event's time, the
cached stamp and the measurement. Of the whole: `MemoryIInv` carries that honesty through the queue into
the record; the past does not change, so it stays true. `BothAreComponents` shows that the composition
is one: each step of the whole is a step of `PoseTagging` or leaves it alone, and a step of `MemoryNode`
or leaves that alone.

**`RouteChoiceProofs`.** The inductive invariant `Inv` has a part for each part of the state: `LogInv`
(the log is what came last under each id that was seen), `RequestInv`, `RowsInv`, `ReadingsInv`,
`ScoresInv`, `TopicInv`, `AnswerInv`, `ExplainerInv`. That events are replaced takes away the simple
argument, that the log only grows. Two sets take its place: `Steady`, which only shrinks during a
request, and `held`, which only grows. The first step of a read finds every steady event of its segment,
and the second leaves a steady event as it is, since nobody recorded its id again, and makes of any
other row a version that `held` has (`WithVersion`). So a reading lies between the risks over the two
sets: sums over a larger set are no less (`SumMonotone`), with the age fixed at the request's start. A
score is a sum of readings, so it is bracketed in turn, and a choice that is least by the scores is
least up to the width of the brackets (`ChoiceJustified`), for some route of its id. The evidence
properties follow from what a positive sum needs, a positive term (`SumPositive`): it is of a version in
`held`, and it is still there to be cited unless its id was recorded again. `ShorterShorter` has a
hypothesis of its own, which the run's weights satisfy too: length has a positive weight. With weight 0
the scores of two routes without risk tie, and the first candidate is called shorter whatever its
length.

**`SlipEdgesProofs`.** The queue alone does not tell why a slip is missed, for the edge may
have fallen out of it. The invariant orders everything by slip: what
waits is later than what was received and no later than what the sensor feels (`QueueInOrder`,
`HistoryInOrder`); if the flag was last seen low, every slip this run has reported is over, so the next
high flag is of another (`EdgeIsNew`); if it was last seen high, some slip was reported and no
low flag has come since (`EdgeIsHidden`).

**`ScriptsProofs`** has one invariant for each script. `WiringIInv`: whatever is stored, waits
or is asked is of the present run, because the store is unlinked and the queue goes with the
process. `JudgingIInv`: calls are numbered upwards, and an answer to the present call is from a launch
no older than its phase. If phase one passed, the risky arm had risk, and it still has, because
`seeded` does not change and an event keeps its arm when it is recorded again; so an answer to
the call of phase two chooses the safe arm and cites something, or the safe arm has risk of its own.
`OrderIInv`: what waits is in the order of the scenario and later than what was recorded.

Only model-checked is liveness (`LockIsReleased`, `EveryCallEnds`, `HeldSlipIsReported`,
`LiveIsOffline`, `EveryRunEnds`): fairness means `ENABLED`, which the prover does not have.

## 6. Not modelled

* `config.py` (used by no node), launch files, message and service definitions: declarations.
* `run_scenario.sh`, the rosbag, the run directory and `verdict.json`; what the offline demo prints.
* What a message does to numbers: `RiskEvent.msg` and `RiskFactor.msg` round confidence and severity to 32 bits,
  and a stamp has no fractions of a nanosecond.
* The severity tables and texts of the adapters; field by field copies of messages; clamping of
  severities and coercion of categories, which only restrict the values.
* `query_segment_risk`: it reads, on the one thread that records, and changes nothing.
* Two processes creating a database file at once (`store.py:56`): what SQLite answers when two
  connections switch the journal mode depends on its build.
* `:memory:`, the default of `store_path`, gives each process a database of its own;
  the launch files pass a common file, and that is what is modelled.
* `register_segments` after the first event: nothing in the repository calls it then.

## 7. Plan

Done, in this order: the store with its abstract log and proofs; pose tagging
with proofs; geometry, seeds and the memory node; scoring, planner and
explainer; slip edges with proofs; the composition from robot to log with proofs; the scripts and
the replay with proofs; the merging of seeds; the proofs about folds and sums, and with them those of
`RouteChoice`, `MemoryNode`, the search and the merging; what the store inherits from the log.

Left:

1. A composition of `MemoryNode` with `RiskStore` in place of its atomic `stored`, which
   `ImplementsRiskLog` makes plausible but no run puts together.
2. A composition of `Ingest` with `RouteChoice`, from the robot to the explanation; the
   product of the two is beyond TLC without a coarser adapter.
3. That what `MemoryNodeProofs` shows of joins carries over to `Ingest` without `RecordOK`, by
   `BothAreComponents`.
