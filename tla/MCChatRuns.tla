----------------------------- MODULE MCChatRuns -----------------------------
(* Instances of ChatRuns small enough for TLC. *)
EXTENDS ChatRuns, TLC

CONSTANTS s1, s2, b1, b2

Symmetry == Permutations(Stops) \cup Permutations(Streams)
=============================================================================
