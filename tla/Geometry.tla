------------------------------ MODULE Geometry ------------------------------
(***************************************************************************)
(* The distances of riskgraph_core.segments.                               *)
(*                                                                         *)
(* Points are pairs of integers (the code has a third coordinate that is   *)
(* treated alike), so a squared distance is a fraction and comparisons are *)
(* exact.                                                                  *)
(***************************************************************************)
EXTENDS Integers

Plane == Int \X Int

Minus(p, q) == <<p[1] - q[1], p[2] - q[2]>>

Dot(u, v) == u[1] * v[1] + u[2] * v[2]

NormSq(u) == Dot(u, u)

\* Mutant: the distance to the line, without clamping.
LineDistanceSq(p, s) ==
  LET ab == Minus(s.end, s.start)
      ap == Minus(p, s.start)
      lenSq == NormSq(ab)
      t == Dot(ap, ab)
  IN  IF lenSq = 0 THEN [num |-> NormSq(ap), den |-> 1]
      ELSE [num |-> NormSq(ap) * lenSq - t * t, den |-> lenSq]

\* The foot of the perpendicular from p, clamped to the segment: t / lenSq is
\* the code's t.  A segment without length is a point.
DistanceSq(p, s) ==
  LET ab == Minus(s.end, s.start)
      ap == Minus(p, s.start)
      lenSq == NormSq(ab)
      t == Dot(ap, ab)
  IN  IF lenSq = 0 \/ t <= 0 THEN [num |-> NormSq(ap), den |-> 1]
      ELSE IF t >= lenSq THEN [num |-> NormSq(Minus(p, s.end)), den |-> 1]
      ELSE [num |-> NormSq(ap) * lenSq - t * t, den |-> lenSq]

Closer(d, e) == d.num * e.den < e.num * d.den

-----------------------------------------------------------------------------
(* A definition of "nearest" without projection or clamping: the points of *)
(* a segment are taken at every multiple of 1/grid of its length.          *)

\* grid squared times the squared distance of the k-th of these points.
GridSq(p, s, k, grid) ==
  NormSq(<<grid * (p[1] - s.start[1]) - k * (s.end[1] - s.start[1]),
           grid * (p[2] - s.start[2]) - k * (s.end[2] - s.start[2])>>)

\* The foot of every perpendicular from an integer point is one of these points,
\* because grid is a multiple of the squared length.
GridFits(s, grid) ==
  LET lenSq == NormSq(Minus(s.end, s.start))
  IN  lenSq > 0 => \E q \in 1..grid : grid = q * lenSq
=============================================================================
