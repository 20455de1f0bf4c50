------------------------------- MODULE MCCore -------------------------------
(***************************************************************************)
(* The operators of Segments and SegmentSeed for TLC.  A behaviour either  *)
(* registers segments around a point, or writes seed files, of which each  *)
(* is loaded and all are merged.                                           *)
(***************************************************************************)
EXTENDS SegmentSeed

CONSTANTS
  Width, Height,  \* coordinates are up to these
  Grid,           \* see IsNearest
  MaxSegs,        \* bound: segments that are registered
  Frame,          \* frames that a file may name, NoFrame for none
  FileSegment,    \* segments that a file may list
  SegId,          \* the ids of those in the instance below
  MaxLines,       \* bound: segments in all files together
  MaxFiles        \* bound: files

VARIABLES
  point,  \* where an event happened
  segs,   \* the segments registered
  files   \* the seed documents written

vars == <<point, segs, files>>

Point == (0..Width) \X (0..Height)

\* An end as a seed file gives it: float() takes NaN and infinity too.
End == Point \cup {NotFinite}

ASSUME CoreAssumption ==
  /\ Width \in Nat /\ Height \in Nat /\ Grid \in Nat \ {0}
  /\ NotFinite \notin Point

\* What IsNearest needs to be exact.
ASSUME GridAssumption ==
  \A a, b \in Point : GridFits([start |-> a, end |-> b], Grid)

Init ==
  /\ point \in End
  /\ segs = <<>>
  /\ files = <<>>

\* register_segments, with the list of load_segment_seed
RegisterSegment(a, b) ==
  /\ files = <<>>
  /\ Len(segs) < MaxSegs
  /\ segs' = Append(segs, [id |-> Len(segs), start |-> a, end |-> b])
  /\ UNCHANGED <<point, files>>

Lines == FlattenSeq([n \in DOMAIN files |-> files[n].entries])

\* FileSegment for TLC: two segments of an id differ in their place.
TwoPlaces ==
  [id : SegId, start : {<<0, 0>>, <<2, 0>>}, end : {<<1, 1>>}]

WriteFile(frame) ==
  /\ segs = <<>> /\ point = NotFinite
  /\ Len(files) < MaxFiles
  /\ files' = Append(files, [shape |-> "good", frame |-> frame, entries |-> <<>>])
  /\ UNCHANGED <<point, segs>>

WriteEntry(s) ==
  /\ files # <<>>
  /\ Len(Lines) < MaxLines
  /\ files' = [files EXCEPT ![Len(files)].entries = Append(@, [is |-> "good", seg |-> s])]
  /\ UNCHANGED <<point, segs>>

Next ==
  \/ \E a, b \in End : RegisterSegment(a, b)
  \/ \E frame \in Frame : WriteFile(frame)
  \/ \E s \in FileSegment : WriteEntry(s)

Spec == Init /\ [][Next]_vars

-----------------------------------------------------------------------------

\* segment_for_point returns the nearest segment, as IsNearest defines it
\* without projection or clamping, and of several the first registered; none
\* if the point or every segment is out of all comparison.
FindsTheNearest ==
  LET found == SegmentForPoint(segs, point)
      placed == Comparable(segs, point)
  IN  IF placed = {} THEN found = NoSegment
      ELSE \E n \in placed :
             /\ found = segs[n]
             /\ IsNearest(segs, point, segs[n], Grid)
             /\ \A m \in placed : m < n => ~IsNearest(segs, point, segs[m], Grid)

Seeds == [n \in DOMAIN files |-> ParseSeed(files[n])]

Collisions(seeds) == FoldLeft(LAMBDA k, seed : k + Len(seed.dups), 0, seeds)

\* Merging the seeds of several files gives what one file with all their
\* entries gives, in the files' frame if they share one; and no duplicate is
\* reported less or more: what collided within a file is among the seeds' own.
MergeIsOneFile ==
  files # <<>> =>
    LET frame == files[1].frame
        merged == MergeSeeds(Seeds)
        whole == ParseSeed([shape |-> "good", frame |-> frame, entries |-> Lines])
    IN  /\ merged.segs = whole.segs
        /\ Len(merged.dups) + Collisions(Seeds) = Len(whole.dups)
        /\ (\A n \in DOMAIN files : files[n].frame = frame) => merged.frame = whole.frame
=============================================================================
