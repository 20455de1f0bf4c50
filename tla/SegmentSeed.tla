---------------------------- MODULE SegmentSeed ----------------------------
(***************************************************************************)
(* riskgraph_core.seed: from a seed file to a list of segments.            *)
(*                                                                         *)
(* A file is what load_segment_seed finds at its path, up to the outcome   *)
(* of each of its checks; a document is the value it decodes.  Loading     *)
(* ends in a seed, in a SegmentSeedError ("rejected"), or in an exception  *)
(* of another type ("escapes"): open().read() of bytes that are not UTF-8  *)
(* raises UnicodeDecodeError and float() of an integer too large for a     *)
(* double raises OverflowError; neither is caught.                         *)
(***************************************************************************)
EXTENDS Segments, SegmentList

CONSTANTS
  DefaultFrame,  \* "map"
  NoFrame        \* a document without the key "frame_id"

Rejected == [outcome |-> "rejected"]
Escapes == [outcome |-> "escapes"]

Loaded(segs, dups, frame) ==
  [outcome |-> "loaded", segs |-> segs, dups |-> dups, frame |-> frame]

\* Entries are [is, seg], is "good", "bad" (not what _coerce_one wants) or
\* "overflow" (a coordinate that no double can hold).
FirstFault(entries) ==
  LET faults == {n \in DOMAIN entries : entries[n].is # "good"}
  IN  IF faults = {} THEN "none" ELSE entries[Min(faults)].is

\* Documents are [shape, frame, entries], shape "bad" when the top level, the
\* list or the frame is not what it must be.
ParseSeed(doc) ==
  LET segs == [n \in DOMAIN doc.entries |-> doc.entries[n].seg]
      fault == FirstFault(doc.entries)
  IN  IF doc.shape = "bad" \/ fault = "bad" THEN Rejected
      ELSE IF fault = "overflow" THEN Escapes
      ELSE Loaded(LastWins(segs), Duplicates(segs),
                  IF doc.frame = NoFrame THEN DefaultFrame ELSE doc.frame)

\* Files are [is, doc].
LoadSeed(file) ==
  CASE file.is \in {"absent", "unreadable", "malformed", "no_yaml"} -> Rejected
    [] file.is = "not_utf8" -> Escapes
    [] file.is = "blank" -> Loaded(<<>>, <<>>, DefaultFrame)
    [] file.is = "decoded" -> ParseSeed(file.doc)

\* Mutant: the files are put one after the other.
JoinSeeds(seeds) ==
  LET segs == FlattenSeq([n \in DOMAIN seeds |-> seeds[n].segs])
  IN  Loaded(segs, Duplicates(segs), Last(seeds).frame)

\* The last frame that is not the default, which counts as no frame.
MergedFrame(seeds) ==
  FoldLeft(LAMBDA frame, seed : IF seed.frame = DefaultFrame THEN frame ELSE seed.frame,
           DefaultFrame, seeds)

\* Loaded seeds become one.
MergeSeeds(seeds) ==
  LET segs == FlattenSeq([n \in DOMAIN seeds |-> seeds[n].segs])
  IN  Loaded(LastWins(segs), Duplicates(segs), MergedFrame(seeds))
=============================================================================
