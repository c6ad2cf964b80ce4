--------------------------- MODULE PlanLifecycle ---------------------------
(***************************************************************************)
(* What a prepared agent plan promises, with no word about transactions,   *)
(* locks, leases, retries or crashes:                                      *)
(*                                                                         *)
(*  - a chat shows at most one pending plan, and a new plan takes the      *)
(*    place of the pending one in the same step;                           *)
(*  - a pending plan is reserved under an execution key nobody else has,   *)
(*    expires, or is invalidated, and never comes back;                    *)
(*  - each action of a plan takes effect at most once, and only once the   *)
(*    plan was reserved;                                                   *)
(*  - the receipt is written once, its status is the one its outcomes add  *)
(*    up to, and it lists as completed only actions that took effect.      *)
(*                                                                         *)
(* AgentPlans is shown to implement this module.                           *)
(***************************************************************************)
EXTENDS Integers

CONSTANTS Plans, Chats, Keys, Actions, None

Unfinished == {"absent", "pending", "executing"}
Receipts   == {"completed", "partial", "failed"}
Outcomes   == {"completed", "failed", "pending"}

VARIABLES status, chat, key, receipt, done

lifecycleVars == <<status, chat, key, receipt, done>>

LifecycleInit ==
  /\ status  = [p \in Plans |-> "absent"]
  /\ chat    = [p \in Plans |-> None]
  /\ key     = [p \in Plans |-> None]
  /\ receipt = [p \in Plans |-> None]
  /\ done    = {}

\* What the outcomes of all actions add up to.
Summary(out) ==
  IF \A a \in Actions : out[a] = "completed" THEN "completed"
  ELSE IF \A a \in Actions : out[a] # "completed" THEN "failed"
  ELSE "partial"

\* A prepare call announces the chat its plan would belong to ...
Announce(p, c) ==
  /\ status[p] = "absent"
  /\ chat[p] = None
  /\ chat' = [chat EXCEPT ![p] = c]
  /\ UNCHANGED <<status, key, receipt, done>>

\* ... and the plan appears there in place of the pending one.
Prepare(p) ==
  /\ status[p] = "absent"
  /\ chat[p] \in Chats
  /\ status' = [q \in Plans |->
                  IF q = p THEN "pending"
                  ELSE IF status[q] = "pending" /\ chat[q] = chat[p] THEN "invalidated"
                  ELSE status[q]]
  /\ UNCHANGED <<chat, key, receipt, done>>

Expire(P) ==
  /\ \A p \in P : status[p] = "pending"
  /\ status' = [p \in Plans |-> IF p \in P THEN "expired" ELSE status[p]]
  /\ UNCHANGED <<chat, key, receipt, done>>

Reserve(p, k) ==
  /\ status[p] = "pending"
  /\ \A q \in Plans : key[q] # k
  /\ status' = [status EXCEPT ![p] = "executing"]
  /\ key'    = [key EXCEPT ![p] = k]
  /\ UNCHANGED <<chat, receipt, done>>

Take(p, a) ==
  /\ status[p] \in Receipts \cup {"executing"}
  /\ <<p, a>> \notin done
  /\ done' = done \cup {<<p, a>>}
  /\ UNCHANGED <<status, chat, key, receipt>>

Settle(p, out) ==
  /\ status[p] = "executing"
  /\ \A a \in Actions : out[a] = "completed" => <<p, a>> \in done
  /\ status'  = [status EXCEPT ![p] = Summary(out)]
  /\ receipt' = [receipt EXCEPT ![p] = out]
  /\ UNCHANGED <<chat, key, done>>

LifecycleNext ==
  \/ \E p \in Plans, c \in Chats : Announce(p, c)
  \/ \E p \in Plans : Prepare(p)
  \/ \E P \in SUBSET Plans : Expire(P)
  \/ \E p \in Plans, k \in Keys : Reserve(p, k)
  \/ \E p \in Plans, a \in Actions : Take(p, a)
  \/ \E p \in Plans, out \in [Actions -> Outcomes] : Settle(p, out)

LifecycleSpec == LifecycleInit /\ [][LifecycleNext]_lifecycleVars

=============================================================================
