------------------------------- MODULE Topic -------------------------------
(***************************************************************************)
(* The queue of a RELIABLE KEEP_LAST publisher or subscription, with which *)
(* every node of the system publishes and subscribes.                      *)
(***************************************************************************)
EXTENDS Integers, Sequences

\* Mutant: the queue has no depth.
KeepAll(q, m, depth) == Append(q, m)

\* A queue that is full loses its oldest message to a new one.
KeepLast(q, m, depth) ==
  Append(IF Len(q) < depth THEN q ELSE Tail(q), m)
=============================================================================
