---------------------------- MODULE MCApprovals ----------------------------
(* Instances of Approvals small enough for TLC. *)
EXTENDS Approvals, TLC

CONSTANTS r1, r2, c1, c2, u1, m1

\* One request asks for an action, the other may supersede it or ask for content.
FourWays == {<<r1, u1, "operational">>, <<r1, m1, "operational">>,
             <<r2, u1, "operational">>, <<r2, u1, "editorial">>}
=============================================================================
