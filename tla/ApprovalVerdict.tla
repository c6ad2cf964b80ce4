-------------------------- MODULE ApprovalVerdict --------------------------
(***************************************************************************)
(* What an approval request promises: it is given one verdict and keeps    *)
(* it, and the operational action package it freezes is settled by the     *)
(* same step, authorized by an approval and closed by anything else.       *)
(***************************************************************************)
CONSTANT Requests

VARIABLES
  verdict,      \* "absent", "pending" or the verdict of each request
  package       \* the state of its action package

vars == <<verdict, package>>

HumanVerdicts == {"approved", "rejected", "changes_requested", "cancelled"}

\* What becomes of the package of a request that gets verdict v.
Settled(v) == CASE v = "approved" -> "authorized"
                [] v = "expired"  -> "expired"
                [] OTHER          -> "invalidated"

Init == /\ verdict = [r \in Requests |-> "absent"]
        /\ package = [r \in Requests |-> "none"]

Submit(r) ==
  /\ verdict[r] = "absent"
  /\ verdict' = [verdict EXCEPT ![r] = "pending"]
  /\ \E p \in {"none", "pending_approval"} : package' = [package EXCEPT ![r] = p]

\* A batch of requests is given its verdicts together: one, by a person, or
\* several by the expiry.
Give(S, v) ==
  /\ S # {}
  /\ \A r \in S : verdict[r] = "pending"
  /\ verdict' = [r \in Requests |-> IF r \in S THEN v ELSE verdict[r]]
  /\ package' = [r \in Requests |-> IF r \in S /\ package[r] # "none"
                                      THEN Settled(v) ELSE package[r]]

Next == \/ \E r \in Requests : Submit(r)
        \/ \E r \in Requests, v \in HumanVerdicts : Give({r}, v)
        \/ \E S \in SUBSET Requests : Give(S, "expired")

Spec == Init /\ [][Next]_vars
=============================================================================
