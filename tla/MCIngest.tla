------------------------------ MODULE MCIngest ------------------------------
(* Instances of Ingest for TLC.                                            *)
EXTENDS Ingest

CONSTANTS body, site, ramp, door, u1

Here == <<0, 0>>
There == <<2, 1>>
MCPosition == {Here, There}

Seg(i, a, b) == [id |-> i, start |-> a, end |-> b]
Doc(frame, segs) ==
  [is |-> "decoded",
   doc |-> [shape |-> "good", frame |-> frame,
            entries |-> [n \in DOMAIN segs |-> [is |-> "good", seg |-> segs[n]]]]]

Bad(is) == [is |-> is, doc |-> [shape |-> "good", frame |-> body, entries |-> <<>>]]

\* The second is an edit of the first: the segments have swapped their places.
\* Of the last two one is rejected and one is fatal.
MCSeedFile ==
  {Doc(body, <<Seg(ramp, <<0, 0>>, <<1, 0>>), Seg(door, <<2, 0>>, <<2, 2>>)>>),
   Doc(body, <<Seg(door, <<0, 0>>, <<1, 0>>), Seg(ramp, <<2, 0>>, <<2, 2>>)>>),
   Bad("absent"), Bad("not_utf8")}

\* The driver's clock is behind.
Behind == -1

OneOrigin == {Here}

\* The robot is switched on at one of two places.
TwoOrigins == {Here, There}

\* What the adapter is left with when the last event is delivered changes no
\* later step and no property: such states are one.
WhatMatters ==
  <<origin, now, at, memory,
    IF delivered < MaxDelivered THEN <<odom, inbox, node, topic>> ELSE <<>>>>
=============================================================================
