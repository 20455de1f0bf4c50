---------------------------- MODULE SegmentList ----------------------------
(***************************************************************************)
(* The dictionary and the two lists of riskgraph_core.seed: segments in    *)
(* the order of their ids' first entries, each as its last entry has it.   *)
(***************************************************************************)
EXTENDS SequencesExt

HasId(segs, id) == \E n \in DOMAIN segs : segs[n].id = id

\* Mutant: a list where the code has a dictionary.
PutDuplicate(segs, s) == Append(segs, s)

\* A later segment replaces an earlier one of its id, in the earlier's place.
PutSegment(segs, s) ==
  IF HasId(segs, s.id)
  THEN [n \in DOMAIN segs |-> IF segs[n].id = s.id THEN s ELSE segs[n]]
  ELSE Append(segs, s)

LastWins(segs) == FoldLeft(PutSegment, <<>>, segs)

\* Every id that is met again, each time it is met again.
Duplicates(segs) ==
  LET Meet(dups, n) ==
        IF HasId(SubSeq(segs, 1, n - 1), segs[n].id)
        THEN Append(dups, segs[n].id) ELSE dups
  IN  FoldLeftDomain(Meet, <<>>, segs)
=============================================================================
