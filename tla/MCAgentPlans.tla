---------------------------- MODULE MCAgentPlans ----------------------------
(* Instances of AgentPlans small enough for TLC. *)
EXTENDS AgentPlans, TLC

CONSTANTS p1, p2, r1, r2, r3, k1, k2, d1, d2

\* One action that nothing can disturb.
OneAction   == <<0>>
\* A creation and an action that uses its ref.
TwoActions  == <<0, 1>>
\* A creation, an action that uses its ref, and an update of another campaign.
ThreeActions == <<0, 1, 0>>
LastOne     == {2}

Symmetry == Permutations(Plans) \cup Permutations(Requests) \cup Permutations(Keys)
              \cup Permutations(Drafts)
=============================================================================
