---- MODULE MCRunApprovals ----
EXTENDS RunApprovals, TLC

CONSTANTS a1, a2

Symmetry == Permutations(Answers)
====
