------------------------------ MODULE Segments ------------------------------
(***************************************************************************)
(* riskgraph_core.segments: which known segment is nearest to a point.     *)
(*                                                                         *)
(* A coordinate that is NaN or infinite makes the distance NaN or          *)
(* infinite, and neither is less than anything the search has found.       *)
(***************************************************************************)
EXTENDS Geometry, Sequences

CONSTANTS
  NotFinite,  \* a point with a NaN or an infinite coordinate
  NoSegment   \* no segment is near

Placed(segs) ==
  {n \in DOMAIN segs : NotFinite \notin {segs[n].start, segs[n].end}}

Comparable(segs, p) == IF p = NotFinite THEN {} ELSE Placed(segs)

\* The first of several nearest segments.
SegmentForPoint(segs, p) ==
  LET dist(n) == DistanceSq(p, segs[n])
      near == {n \in Comparable(segs, p) :
                 \A m \in Comparable(segs, p) :
                   /\ ~Closer(dist(m), dist(n))
                   /\ m < n => Closer(dist(n), dist(m))}
  IN  IF near = {} THEN NoSegment ELSE segs[CHOOSE n \in near : TRUE]

-----------------------------------------------------------------------------
(* What "nearest" means: no point of any segment is nearer than some point *)
(* of this one.                                                            *)

IsNearest(segs, p, s, grid) ==
  \E k \in 0..grid : \A n \in Comparable(segs, p) : \A j \in 0..grid :
    GridSq(p, s, k, grid) <= GridSq(p, segs[n], j, grid)
=============================================================================
