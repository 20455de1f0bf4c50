------------------------------ MODULE Scoring ------------------------------
(***************************************************************************)
(* The pure part of riskgraph_core: what a set of stored events makes of a *)
(* segment (segment_risk, evidence_for_segment), what the readings of its  *)
(* segments make of a route (score_routes), and which explanation a choice *)
(* gets (explain_choice).                                                  *)
(*                                                                         *)
(* Every number of the code is a float; here severities, confidences,      *)
(* lengths and weights are natural numbers, and one unit of time is one    *)
(* half life, so that a decayed severity is an exact multiple of           *)
(* 2^-Horizon.  Beyond Horizon half lives the weight is 0, as exp() is     *)
(* when it underflows.                                                     *)
(***************************************************************************)
EXTENDS Integers, SequencesExt

CONSTANTS
  Category,    \* factor categories
  NoCategory,  \* '': the dominant category of a segment without events
  Horizon,     \* half lives after which a decayed weight is 0
  MaxDominant, \* segments a route score names at most
  MaxEvidence  \* events an explanation cites at most

ASSUME ScoringAssumption ==
  /\ NoCategory \notin Category
  /\ Horizon \in Nat
  /\ MaxDominant \in Nat \ {0}
  /\ MaxEvidence \in Nat \ {0}

-----------------------------------------------------------------------------
(* Events: [id, seg, ts, confidence, factors], factors a nonempty sequence *)
(* of [cat, severity].                                                     *)

AggregateSeverity(e) ==
  Max({e.factors[n].severity : n \in DOMAIN e.factors}) * e.confidence

\* An event from the future counts as one of now.
Age(e, now) == Max({0, now - e.ts})

Weight(e, now, decay) ==
  IF ~decay THEN 2 ^ Horizon
  ELSE IF Age(e, now) > Horizon THEN 0 ELSE 2 ^ (Horizon - Age(e, now))

OnSegment(log, s) == {e \in log : e.seg = s}

RiskOf(log, s, now, decay) ==
  MapThenSumSet(LAMBDA e : AggregateSeverity(e) * Weight(e, now, decay),
                OnSegment(log, s))

Categories(e) == {e.factors[n].cat : n \in DOMAIN e.factors}

FactorShare(e, c) ==
  e.confidence * MapThenSumSet(LAMBDA n : e.factors[n].severity,
                               {n \in DOMAIN e.factors : e.factors[n].cat = c})

CategoryShare(log, s, c, now, decay) ==
  MapThenSumSet(LAMBDA e : FactorShare(e, c) * Weight(e, now, decay),
                OnSegment(log, s))

FirstOf(e, cats) ==
  e.factors[Min({n \in DOMAIN e.factors : e.factors[n].cat \in cats})].cat

\* Of several equal shares, max() keeps that of the category met first, in the
\* order of the rows.  SQLite fixes no order among rows with one timestamp.
DominantCategories(log, s, now, decay) ==
  LET found == OnSegment(log, s)
      share(c) == CategoryShare(log, s, c, now, decay)
      present == UNION {Categories(e) : e \in found}
      largest == {c \in present : \A d \in present : share(d) <= share(c)}
      having == {e \in found : Categories(e) \cap largest # {}}
      earliest == {e \in having : \A f \in having : e.ts <= f.ts}
  IN  IF found = {} THEN {NoCategory}
      ELSE {FirstOf(e, largest) : e \in earliest}

\* Mutant: the first events, not sorted.
EvidenceUnsorted(log, s) ==
  {chosen \in SUBSET OnSegment(log, s) :
     /\ Cardinality(chosen) = Min({MaxEvidence, Cardinality(OnSegment(log, s))})
     /\ \A e \in chosen, f \in OnSegment(log, s) \ chosen : e.ts <= f.ts}

\* What evidence_for_segment may return, as a set; its callers ask for no
\* decay.  The sort is stable: of equal severities the earlier event comes first.
Evidence(log, s) ==
  LET found == OnSegment(log, s)
      before(e, f) == \/ AggregateSeverity(e) > AggregateSeverity(f)
                      \/ AggregateSeverity(e) = AggregateSeverity(f) /\ e.ts <= f.ts
  IN  {chosen \in SUBSET found :
         /\ Cardinality(chosen) = Min({MaxEvidence, Cardinality(found)})
         /\ \A e \in chosen, f \in found \ chosen : before(e, f)}

-----------------------------------------------------------------------------
(* Routes: [segs, length, match], match when a label of the route holds    *)
(* the objective.  A reading [seg, risk, cat] is what segment_risk says of *)
(* one segment of the route, weights are [geometry, semantic, risk, decay].*)

SemanticPenalty(route, objective) == IF objective /\ ~route.match THEN 1 ELSE 0

\* The readings with a risk, riskiest first, in route order among equals.
Ranked(readings) ==
  LET risky == {n \in DOMAIN readings : readings[n].risk > 0}
      before(m, n) == \/ readings[m].risk > readings[n].risk
                      \/ readings[m].risk = readings[n].risk /\ m < n
      rank(n) == Cardinality({m \in risky : before(m, n)}) + 1
  IN  [k \in 1..Min({MaxDominant, Cardinality(risky)}) |->
         readings[CHOOSE n \in risky : rank(n) = k]]

WithoutRepeats(s) ==
  FoldLeft(LAMBDA found, x : IF Contains(found, x) THEN found ELSE Append(found, x),
           <<>>, s)

\* Costs carry the factor 2^Horizon of the weights.
ScoreOf(route, readings, weights, objective) ==
  LET geometry == weights.geometry * route.length * 2 ^ Horizon
      semantic == weights.semantic * SemanticPenalty(route, objective) * 2 ^ Horizon
      risk == weights.risk * MapThenSumSet(LAMBDA n : readings[n].risk,
                                           DOMAIN readings)
      ranked == Ranked(readings)
  IN  [id |-> route.id,
       total |-> geometry + semantic + risk,
       semantic |-> semantic,
       risk |-> risk,
       segs |-> [k \in DOMAIN ranked |-> ranked[k].seg],
       cats |-> WithoutRepeats([k \in DOMAIN ranked |-> ranked[k].cat])]

\* Mutant: the least risky route, whatever it costs.
LeastRisky(scores) ==
  CHOOSE k \in DOMAIN scores : \A n \in DOMAIN scores : scores[k].risk <= scores[n].risk

\* min() keeps the first of several cheapest routes.
Cheapest(scores) ==
  CHOOSE k \in DOMAIN scores :
    \A n \in DOMAIN scores : \/ scores[k].total < scores[n].total
                             \/ scores[k].total = scores[n].total /\ k <= n

\* A choice is an id, and whoever wants the route takes the first that has it.
Chosen(scores) ==
  LET id == scores[Cheapest(scores)].id
  IN  CHOOSE k \in DOMAIN scores :
        /\ scores[k].id = id
        /\ \A n \in DOMAIN scores : scores[n].id = id => k <= n

-----------------------------------------------------------------------------
(* explain_choice, up to its evidence.                                     *)

\* The alternatives: routes of another id.
Others(scores, chosen) == {n \in DOMAIN scores : scores[n].id # scores[chosen].id}

\* max() keeps the first of several riskiest alternatives.
WorstOther(scores, chosen) ==
  CHOOSE k \in Others(scores, chosen) :
    \A n \in Others(scores, chosen) :
      \/ scores[k].risk > scores[n].risk
      \/ scores[k].risk = scores[n].risk /\ k <= n

AvoidsRisk(scores, chosen) ==
  /\ Others(scores, chosen) # {}
  /\ LET worst == scores[WorstOther(scores, chosen)]
     IN  /\ worst.risk > 0
         /\ worst.risk > scores[chosen].risk
         /\ worst.segs # <<>>

MatchesObjective(scores, chosen, objective) ==
  /\ objective
  /\ scores[chosen].semantic = 0
  /\ \E n \in Others(scores, chosen) : scores[n].semantic > 0

NoRiskAnywhere(scores) == \A n \in DOMAIN scores : scores[n].risk = 0

\* Mutant: case 3 before case 2.
TemplateCleanFirst(scores, chosen, objective) ==
  IF AvoidsRisk(scores, chosen) THEN "avoid_risky"
  ELSE IF NoRiskAnywhere(scores) THEN "shorter_clean"
  ELSE IF MatchesObjective(scores, chosen, objective) THEN "semantic_match"
  ELSE "fallback"

\* The template explain_choice picks.
Template(scores, chosen, objective) ==
  IF AvoidsRisk(scores, chosen) THEN "avoid_risky"
  ELSE IF MatchesObjective(scores, chosen, objective) THEN "semantic_match"
  ELSE IF NoRiskAnywhere(scores) THEN "shorter_clean"
  ELSE "fallback"
=============================================================================
