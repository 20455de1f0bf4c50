---------------------------- MODULE MCMemoryNode ----------------------------
(* Instances of MemoryNode for TLC.                                        *)
EXTENDS MemoryNode

CONSTANTS odom, map, ramp, door, e1, u1, u2, u3

Seg(i, a, b) == [id |-> i, start |-> a, end |-> b]
Good(s) == [is |-> "good", seg |-> s]
Faulty(is) == [is |-> is, seg |-> Seg(ramp, NotFinite, NotFinite)]
Doc(frame, entries) ==
  [is |-> "decoded", doc |-> [shape |-> "good", frame |-> frame, entries |-> entries]]
Broken(is) == [is |-> is, doc |-> [shape |-> "bad", frame |-> NoFrame, entries |-> <<>>]]

Ramp == Seg(ramp, <<0, 0>>, <<2, 0>>)
Door == Seg(door, <<0, 2>>, <<1, 1>>)
MovedRamp == Seg(ramp, <<2, 2>>, <<2, 2>>)
Unplaced == Seg(door, NotFinite, <<1, 1>>)

\* A seed in the frame of the odometry; one in the default frame that lists
\* the ramp twice and the door without a place; seeds that are empty, that are
\* rejected, and that raise something else.
MCSeedFile ==
  {Doc(odom, <<Good(Ramp), Good(Door)>>),
   Doc(NoFrame, <<Good(Ramp), Good(Unplaced), Good(MovedRamp)>>),
   Doc(odom, <<Good(Ramp), Faulty("bad"), Faulty("overflow")>>),
   Doc(odom, <<Good(Ramp), Faulty("overflow"), Faulty("bad")>>),
   Broken("decoded"), Broken("absent"), Broken("not_utf8"), Broken("blank")}

M(good, id, seg, frame, pos) ==
  [good |-> good, id |-> id, seg |-> seg, frame |-> frame, pos |-> pos,
   ts |-> 0]

MCMessage ==
  {M(TRUE, Blank, Blank, odom, <<0, 1>>), M(TRUE, e1, Blank, odom, <<2, 1>>),
   M(TRUE, e1, Blank, map, <<1, 0>>), M(TRUE, e1, ramp, map, <<0, 2>>),
   M(TRUE, Blank, Blank, Blank, <<0, 0>>), M(TRUE, Blank, Blank, odom, NaN),
   M(TRUE, Blank, Blank, odom, Infinite), M(FALSE, e1, Blank, odom, <<0, 0>>)}
=============================================================================
