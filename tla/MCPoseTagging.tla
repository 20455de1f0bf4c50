--------------------------- MODULE MCPoseTagging ---------------------------
(* Instances of PoseTagging for TLC.                                       *)
EXTENDS PoseTagging

MCPosition == {0, 1}

MCKinds == {"alert", "fault", "slip", "clear"}

\* The driver's clock is one tick behind.
Behind == -1
=============================================================================
