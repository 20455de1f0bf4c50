------------------------------ MODULE MCScripts ------------------------------
(* An instance of Scripts for TLC.                                         *)
EXTENDS Scripts

\* An alert on either arm.
MCLiveArm == <<"risky", "safe">>

\* Two events of one id, the later of them the older one.
MCScenario == <<[id |-> "slip1", age |-> 3], [id |-> "safe1", age |-> 4],
                [id |-> "slip1", age |-> 1]>>
=============================================================================
