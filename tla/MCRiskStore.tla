---------------------------- MODULE MCRiskStore ----------------------------
(* An instance of RiskStore for TLC.                                       *)
EXTENDS RiskStore

CONSTANTS c1, c2, i1, i2, s1, f1, f2

Ev(i, s, t, fs) == [id |-> i, row |-> [seg |-> s, ts |-> t], factors |-> fs]

\* One id is recorded again, unbound and with other factors; the other has
\* one content, as the ids that the memory node assigns do.
MCEvent ==
  {Ev(i1, s1, 1, <<f1, f2>>), Ev(i1, NoSegment, 2, <<f2>>),
   Ev(i2, s1, 1, <<f2, f1>>)}
=============================================================================
