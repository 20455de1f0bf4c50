---------------------------- MODULE RouteChoice ----------------------------
(***************************************************************************)
(* The planner's score_routes service and the streaming explainer, over a  *)
(* store that the memory node keeps writing.                               *)
(*                                                                         *)
(* The planner reads the store once per segment of each candidate route,   *)
(* and once more, after the choice, for the evidence it cites.  A read is  *)
(* two steps, as RiskStore says: the rows of the segment, then what is     *)
(* stored of their factors.  The SELECTs for the factors of one read are   *)
(* one step, since recordings of different ids commute.  The memory node   *)
(* commits between any two steps, and an id that it records again replaces *)
(* the event stored under it (INSERT OR REPLACE).  The explainer takes     *)
(* score arrays from a topic and reads evidence of its own at a later time *)
(* still.                                                                  *)
(*                                                                         *)
(* Route.msg calls route_id an id within a planning round, and nothing     *)
(* checks that: several routes of a request may have one.                  *)
(*                                                                         *)
(* Every event that is stored here has all its factors.  RiskStore says    *)
(* when one has not.                                                       *)
(***************************************************************************)
EXTENDS Scoring, Topic

CONSTANTS
  Segment,   \* segment ids
  Event,     \* the events the memory node may store, several under one id
  RouteId,   \* route ids
  Request,   \* service requests: [routes, objective]
  Weights,   \* values the planner's weight parameters may have
  Depth,     \* KEEP_LAST depth of /riskgraph/route_scores
  MaxTime,   \* bound: the last tick
  MaxVersions, \* bound: what the store may come to hold, torn reads included
  None       \* no request, no choice, nothing said

ASSUME RequestAssumption ==
  /\ Depth \in Nat \ {0} /\ MaxTime \in Nat /\ MaxVersions \in Nat
  /\ Request \subseteq
       [routes : Seq([id : RouteId, segs : Seq(Segment), length : Nat, match : BOOLEAN]),
        objective : BOOLEAN]
  /\ Weights \subseteq
       [geometry : Nat, semantic : Nat, risk : Nat, decay : BOOLEAN]
  /\ None \notin [routes : Seq([id : RouteId, segs : Seq(Segment), length : Nat, match : BOOLEAN]),
                  objective : BOOLEAN, weights : Weights, at : 0..MaxTime]

\* The memory node refuses an event without factors.
ASSUME EventAssumption ==
  \A e \in Event :
    e \in [id : {e.id}, seg : {e.seg}, ts : Int, confidence : Nat,
          factors : Seq([cat : Category, severity : Nat]) \ {<<>>}]

VARIABLES
  now,       \* the time
  log,       \* the events stored, one under each id that was recorded
  pc,        \* the planner: "down", "idle", "scoring", or "reading" a segment
  request,   \* the request in hand, with the weights read for it and the time
  rows,      \* the rows of the read under way
  readings,  \* what was read for the route under way
  scores,    \* the scores of the routes before it
  answer,    \* the last response
  topic,     \* score arrays the explainer has yet to take
  up,        \* is the explainer running
  store,     \* did the explainer get its store open
  naming,    \* the segment and category of the explanation in hand
  fetched,   \* the rows of the explainer's read under way
  said,      \* the explainer's last explanation
  atStart,   \* history: the log when the request in hand arrived
  held,      \* history: what reads of the request in hand may have returned
  ever       \* history: what any read may have returned

planner == <<pc, request, rows, readings, scores, answer, atStart>>
explainer == <<up, store, naming, fetched, said>>
stored == <<log, held, ever>>
vars == <<now, stored, planner, topic, explainer>>

\* The row of one recording of an id with the factors of another.
Torn(e, f) == [e EXCEPT !.factors = f.factors]

Version == {Torn(e, f) : e, f \in Event}

NewRequest(r, w) ==
  [routes |-> r.routes, objective |-> r.objective, weights |-> w, at |-> now]

Templates == {"no_candidates", "avoid_risky", "semantic_match", "shorter_clean",
              "fallback"}

TypeOK ==
  /\ now \in 0..MaxTime
  /\ log \subseteq Event
  /\ pc \in {"down", "idle", "scoring", "reading"}
  /\ request # None => [routes |-> request.routes,
                        objective |-> request.objective] \in Request
  /\ pc \in {"scoring", "reading"} => request # None /\ Len(scores) <= Len(request.routes)
  /\ \A n \in DOMAIN readings : readings[n].risk \in Nat
                                /\ readings[n].cat \in Category \cup {NoCategory}
  /\ \A n \in DOMAIN scores : scores[n].total \in Nat /\ scores[n].risk \in Nat
  /\ answer # None => answer.template \in Templates /\ answer.evidence \subseteq Version
  /\ Len(topic) <= Depth
  /\ up \in BOOLEAN /\ store \in BOOLEAN
  /\ said # None => said.evidence \subseteq Version
  /\ rows \subseteq Event /\ fetched \subseteq Event /\ atStart \subseteq Event
  /\ held \subseteq Version /\ ever \subseteq Version

Init ==
  /\ now = 0
  /\ log = {}
  /\ pc = "down"
  /\ request = None
  /\ rows = {} /\ readings = <<>> /\ scores = <<>>
  /\ answer = None
  /\ topic = <<>>
  /\ up = FALSE /\ store = FALSE
  /\ naming = None /\ fetched = {} /\ said = None
  /\ atStart = {} /\ held = {} /\ ever = {}

-----------------------------------------------------------------------------
(* Time, and the memory node.                                              *)

Tick ==
  /\ now < MaxTime
  /\ now' = now + 1
  /\ UNCHANGED <<stored, planner, topic, explainer>>

\* What reads may return once e is stored: a read that has the row of an older
\* recording of the id gets the factors of e.
WithVersion(seen, e) ==
  seen \cup {e} \cup {Torn(f, e) : f \in {g \in seen : g.id = e.id}}

InRequest == pc \in {"scoring", "reading"}

\* An event of the same id is replaced.
RecordEvent(e) ==
  /\ e \notin log
  /\ Cardinality(ever) < MaxVersions
  /\ log' = {f \in log : f.id # e.id} \cup {e}
  /\ held' = IF InRequest THEN WithVersion(held, e) ELSE held
  /\ ever' = WithVersion(ever, e)
  /\ UNCHANGED <<now, planner, topic, explainer>>

\* What the second step of a read makes of the rows of the first.
Stored(i) == CHOOSE e \in log : e.id = i

Completed(fromRows) == {Torn(r, Stored(r.id)) : r \in fromRows}

-----------------------------------------------------------------------------
(* The planner.                                                            *)

StartPlanner ==
  /\ pc = "down"
  /\ pc' = "idle"
  /\ UNCHANGED <<now, stored, request, rows, readings, scores, answer, atStart,
                 topic, explainer>>

\* The process dies, of a store error that no handler catches among others;
\* whoever called the service gets no response.
CrashPlanner ==
  /\ pc # "down"
  /\ pc' = "down"
  /\ request' = None /\ answer' = None
  /\ rows' = {} /\ readings' = <<>> /\ scores' = <<>>
  /\ atStart' = {} /\ held' = {}
  /\ UNCHANGED <<now, log, ever, topic, explainer>>

OnScore(r, w) ==
  /\ pc = "idle"
  /\ pc' = "scoring"
  /\ request' = NewRequest(r, w)
  /\ rows' = {} /\ readings' = <<>> /\ scores' = <<>>
  /\ answer' = None
  /\ atStart' = log /\ held' = log
  /\ UNCHANGED <<now, log, ever, topic, explainer>>

Scored == Len(scores) = Len(request.routes)

Route == request.routes[Len(scores) + 1]

NextSegment == Route.segs[Len(readings) + 1]

SelectRows(s) ==
  /\ rows' = OnSegment(log, s)
  /\ pc' = "reading"
  /\ UNCHANGED <<now, stored, request, readings, scores, answer, atStart, topic,
                 explainer>>

SelectSegmentRows ==
  /\ pc = "scoring" /\ ~Scored
  /\ Len(readings) < Len(Route.segs)
  /\ SelectRows(NextSegment)

\* Mutant: segment_risk without now, which then asks the clock.
ReadSegmentAtNow ==
  /\ pc = "reading" /\ ~Scored
  /\ LET found == Completed(rows)
         decay == request.weights.decay
     IN  \E c \in DominantCategories(found, NextSegment, now, decay) :
           readings' = Append(readings,
             [seg |-> NextSegment, risk |-> RiskOf(found, NextSegment, now, decay),
              cat |-> c])
  /\ pc' = "scoring" /\ rows' = {}
  /\ UNCHANGED <<now, stored, request, scores, answer, atStart, topic, explainer>>

\* The rest of segment_risk for the next segment of the route.
ReadSegment ==
  /\ pc = "reading" /\ ~Scored
  /\ LET found == Completed(rows)
         decay == request.weights.decay
     IN  \E c \in DominantCategories(found, NextSegment, request.at, decay) :
           readings' = Append(readings,
             [seg |-> NextSegment, risk |-> RiskOf(found, NextSegment, request.at, decay),
              cat |-> c])
  /\ pc' = "scoring" /\ rows' = {}
  /\ UNCHANGED <<now, stored, request, scores, answer, atStart, topic, explainer>>

ScoreRoute ==
  /\ pc = "scoring" /\ ~Scored
  /\ Len(readings) = Len(Route.segs)
  /\ scores' = Append(scores,
                 ScoreOf(Route, readings, request.weights, request.objective))
  /\ readings' = <<>>
  /\ UNCHANGED <<now, stored, pc, request, rows, answer, atStart, topic, explainer>>

\* A score array, as far as its reader reads it: the score of the chosen route.
Announcement ==
  IF scores = <<>> THEN [scored |-> FALSE]
  ELSE LET chosen == scores[Chosen(scores)]
       IN  [scored |-> TRUE, risky |-> chosen.risk > 0,
            segs |-> chosen.segs, cats |-> chosen.cats]

\* The planner publishes the scores, to the explainer if it is there, and
\* returns.
Respond(id, template, seg, cat, evidence) ==
  /\ answer' = [chosen |-> id, template |-> template,
                seg |-> seg, cat |-> cat, evidence |-> evidence]
  /\ topic' = IF up THEN KeepLast(topic, Announcement, Depth) ELSE topic
  /\ pc' = "idle" /\ rows' = {} /\ scores' = <<>>
  /\ UNCHANGED <<now, stored, request, readings, atStart, explainer>>

RespondToNoCandidates ==
  /\ pc = "scoring" /\ Scored
  /\ scores = <<>>
  /\ Respond(None, "no_candidates", None, NoCategory, {})

ChosenId == scores[Chosen(scores)].id

Avoided == scores[WorstOther(scores, Chosen(scores))]

\* Case 1 reads the evidence, after all the scores and without decay.
SelectEvidenceRows ==
  /\ pc = "scoring" /\ Scored
  /\ scores # <<>>
  /\ AvoidsRisk(scores, Chosen(scores))
  /\ SelectRows(Avoided.segs[1])

\* There may be no evidence left.
RespondAvoiding ==
  /\ pc = "reading" /\ Scored
  /\ \E found \in Evidence(Completed(rows), Avoided.segs[1]) :
       Respond(ChosenId, "avoid_risky", Avoided.segs[1], Avoided.cats[1], found)

RespondOtherwise ==
  /\ pc = "scoring" /\ Scored
  /\ scores # <<>>
  /\ ~AvoidsRisk(scores, Chosen(scores))
  /\ Respond(ChosenId, Template(scores, Chosen(scores), request.objective),
             None, NoCategory, {})

-----------------------------------------------------------------------------
(* The explainer.                                                          *)

\* If the store cannot be opened the explainer runs without it.
StartExplainer ==
  /\ ~up
  /\ up' = TRUE
  /\ store' \in BOOLEAN
  /\ UNCHANGED <<now, stored, planner, topic, naming, fetched, said>>

CrashExplainer ==
  /\ up
  /\ up' = FALSE
  /\ store' = FALSE
  /\ naming' = None /\ fetched' = {} /\ said' = None
  /\ topic' = <<>>
  /\ UNCHANGED <<now, stored, planner>>

RemainingRisk(score) == score.segs # <<>> /\ score.risky

Say(seg, cat, evidence) ==
  /\ said' = [seg |-> seg, cat |-> cat, evidence |-> evidence]
  /\ naming' = None /\ fetched' = {}

\* Mutant: the last dominant category of the route is named.
ExplainLastCategory(score) ==
  \/ /\ RemainingRisk(score) /\ store
     /\ naming' = [seg |-> score.segs[1], cat |-> Last(score.cats)]
     /\ fetched' = OnSegment(log, score.segs[1])
     /\ UNCHANGED said
  \/ /\ RemainingRisk(score) /\ ~store
     /\ Say(score.segs[1], Last(score.cats), {})
  \/ /\ ~RemainingRisk(score)
     /\ Say(None, NoCategory, {})

\* What is left of the risk is named, with evidence if there is a store.
Explain(score) ==
  \/ /\ RemainingRisk(score) /\ store
     /\ naming' = [seg |-> score.segs[1], cat |-> score.cats[1]]
     /\ fetched' = OnSegment(log, score.segs[1])
     /\ UNCHANGED said
  \/ /\ RemainingRisk(score) /\ ~store
     /\ Say(score.segs[1], score.cats[1], {})
  \/ /\ ~RemainingRisk(score)
     /\ Say(None, NoCategory, {})

\* An array without scores is dropped.
OnScores ==
  /\ up /\ naming = None
  /\ topic # <<>>
  /\ topic' = Tail(topic)
  /\ IF Head(topic).scored THEN Explain(Head(topic))
     ELSE UNCHANGED <<naming, fetched, said>>
  /\ UNCHANGED <<now, stored, planner, up, store>>

SayWithEvidence ==
  /\ up /\ naming # None
  /\ \E found \in Evidence(Completed(fetched), naming.seg) :
       Say(naming.seg, naming.cat, found)
  /\ UNCHANGED <<now, stored, planner, topic, up, store>>

-----------------------------------------------------------------------------

PlannerStep ==
  SelectSegmentRows \/ ReadSegment \/ ScoreRoute \/ RespondToNoCandidates
    \/ SelectEvidenceRows \/ RespondAvoiding \/ RespondOtherwise

Next ==
  \/ Tick
  \/ \E e \in Event : RecordEvent(e)
  \/ StartPlanner \/ CrashPlanner
  \/ \E r \in Request, w \in Weights : OnScore(r, w)
  \/ PlannerStep
  \/ StartExplainer \/ CrashExplainer \/ OnScores \/ SayWithEvidence

Spec == Init /\ [][Next]_vars

-----------------------------------------------------------------------------
(* Safety.                                                                 *)

\* What a route would cost if the log were l and nobody wrote it.
Reading(l, s) ==
  [seg |-> s, risk |-> RiskOf(l, s, request.at, request.weights.decay),
   cat |-> NoCategory]

FrozenScore(l, route) ==
  ScoreOf(route, [n \in DOMAIN route.segs |-> Reading(l, route.segs[n])],
          request.weights, request.objective)

\* The events that were stored, unchanged, all through the request.
Steady == {e \in atStart : \A f \in held : f.id = e.id => f = e}

\* The planner reads a segment at a time while events arrive and replace
\* others.  A score is still never less than the route deserves for the events
\* that were there all the time, and never more than it deserves for all that
\* a read may have met, each with the age it had at the start.
ScoresAreBracketed ==
  \A n \in DOMAIN scores :
    /\ FrozenScore(Steady, request.routes[n]).total <= scores[n].total
    /\ scores[n].total <= FrozenScore(held, request.routes[n]).total

\* The routes an id may stand for.
Called(id) == {n \in DOMAIN request.routes : request.routes[n].id = id}

\* "Picks safer routes": what a route of the chosen id costs for the events that
\* were there all the time is no more than what any route costs for all that
\* came and went.  If nothing was written meanwhile, it is the cheapest.
ChoiceIsJustified ==
  answer # None /\ answer.template # "no_candidates" =>
    \E c \in Called(answer.chosen) : \A n \in DOMAIN request.routes :
      FrozenScore(Steady, request.routes[c]).total
        <= FrozenScore(held, request.routes[n]).total

\* Some id was recorded again after a read may have met it on the segment.
Rerecorded(seen, s) ==
  \E e, f \in seen : e.id = f.id /\ e # f /\ e.seg = s

\* The evidence lies on the segment, and if no id there was recorded again
\* it shows a severity, so that it is not empty.
Supports(evidence, seen, s) ==
  /\ Cardinality(evidence) <= MaxEvidence
  /\ evidence \subseteq OnSegment(seen, s)
  /\ \/ \E e \in evidence : AggregateSeverity(e) > 0
     \/ Rerecorded(seen, s)

\* An explanation that says an alternative was avoided names a segment of an
\* alternative and a category recorded there.  The evidence is read after the
\* scores, and may have lost what they were computed from; but if no id of the
\* segment was recorded again since the request, it is there.
AvoidanceIsEvidenced ==
  answer # None /\ answer.template = "avoid_risky" =>
    /\ \E n \in DOMAIN request.routes \ Called(answer.chosen) :
         Contains(request.routes[n].segs, answer.seg)
    /\ \E e \in OnSegment(held, answer.seg) : answer.cat \in Categories(e)
    /\ Supports(answer.evidence, held, answer.seg)

DistinctIds ==
  \A m, n \in DOMAIN request.routes :
    request.routes[m].id = request.routes[n].id => m = n

\* "It is the shorter option": no candidate is shorter than the chosen route
\* when the explanation says so, if the ids of the candidates are distinct.
ShorterIsShorter ==
  answer # None /\ answer.template = "shorter_clean" /\ DistinctIds =>
    \A c \in Called(answer.chosen), n \in DOMAIN request.routes :
      request.routes[c].length <= request.routes[n].length

\* The explainer, which reads the store long after the planner did, names a
\* risk that was recorded, and if it has a store at all it cites evidence for
\* it, unless an id of the segment was ever recorded again.
RemainingRiskIsEvidenced ==
  said # None /\ said.seg # None =>
    /\ \E e \in OnSegment(ever, said.seg) : said.cat \in Categories(e)
    /\ IF store THEN Supports(said.evidence, ever, said.seg) ELSE said.evidence = {}

-----------------------------------------------------------------------------
(* What the documents say and the code does not do.                        *)

\* "an alternative had material risk; the chosen one avoided it": the segment
\* the explanation calls avoided is not on the chosen route.
AvoidedIsAvoided ==
  answer # None /\ answer.template = "avoid_risky" =>
    \E c \in Called(answer.chosen) : ~Contains(request.routes[c].segs, answer.seg)

\* "cites the actual RiskEvent.event_id values that drove the decision": an
\* explanation that says an alternative was avoided cites some event.
AvoidanceCites ==
  answer # None /\ answer.template = "avoid_risky" => answer.evidence # {}

\* "no prior risk events are recorded on its segments": no event was stored
\* for a segment of the chosen route all through the request.
CleanIsClean ==
  answer # None /\ answer.template = "shorter_clean" =>
    \E c \in Called(answer.chosen) :
      \A e \in Steady : ~Contains(request.routes[c].segs, e.seg)
=============================================================================
