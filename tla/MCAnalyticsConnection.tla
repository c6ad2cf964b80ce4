------------------------ MODULE MCAnalyticsConnection ------------------------
(* A small tenant: concurrent calls, two keys and two resources.           *)
EXTENDS AnalyticsConnection, TLC

CONSTANTS c1, c2, k1, k2, r1, r2

(* The provider lists both resources, or no longer the first one.          *)
TwoListings == {{r1, r2}, {r2}}

(* Enough to authorize, select and synchronize with a retry, and to        *)
(* authorize, select, list or disconnect again meanwhile.                  *)
Calling ==
  [op \in Operations |->
     IF op \in {"authorize", "select", "sync", "connect"} THEN 2 ELSE 1]

Symmetry == Permutations(Calls) \cup Permutations(Keys)
=============================================================================
