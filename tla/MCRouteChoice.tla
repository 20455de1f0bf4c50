--------------------------- MODULE MCRouteChoice ---------------------------
(* Instances of RouteChoice for TLC.                                       *)
EXTENDS RouteChoice

CONSTANTS slip, fault, stairs, hall

Factor(c, sev) == [cat |-> c, severity |-> sev]

Ev(i, s, ts, conf, fs) ==
  [id |-> i, seg |-> s, ts |-> ts, confidence |-> conf, factors |-> fs]

\* Of different ages, one with two factors, one that nobody is confident of;
\* one id is recorded again, milder, elsewhere and later.
MCEvent ==
  {Ev(1, stairs, 0, 1, <<Factor(fault, 1), Factor(fault, 2)>>),
   Ev(1, hall, 1, 1, <<Factor(fault, 1)>>),
   Ev(2, stairs, -1, 0, <<Factor(fault, 2)>>),
   Ev(3, hall, 0, 1, <<Factor(slip, 1)>>)}

R(id, segs, length, match) ==
  [id |-> id, segs |-> segs, length |-> length, match |-> match]

\* A route that takes a segment twice, routes that share one, routes of one id,
\* no route at all.
MCRequest ==
  {[routes |-> <<R("a", <<stairs, stairs>>, 1, FALSE), R("b", <<hall>>, 2, TRUE)>>,
    objective |-> TRUE],
   [routes |-> <<R("a", <<stairs, hall>>, 1, FALSE), R("b", <<stairs>>, 2, FALSE)>>,
    objective |-> FALSE],
   [routes |-> <<R("a", <<stairs>>, 2, FALSE), R("a", <<>>, 2, TRUE),
                 R("b", <<hall>>, 1, FALSE)>>,
    objective |-> TRUE],
   [routes |-> <<>>, objective |-> FALSE]}

W(semantic, risk, decay) ==
  [geometry |-> 1, semantic |-> semantic, risk |-> risk, decay |-> decay]

\* A label that is worth a detour; with decay, and without the risk term.
MCWeights == {W(2, 2, TRUE), W(2, 0, FALSE)}

\* The defaults of ScoringWeights.
DefaultWeights == {W(1, 2, FALSE)}
=============================================================================
