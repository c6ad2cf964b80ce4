----------------------------- MODULE Approvals -----------------------------
(***************************************************************************)
(* The approval requests of the Marketing Ops service: a member submits a  *)
(* frozen content version or an action package, a manager decides, the     *)
(* requester cancels, and a worker expires what nobody decided in time.    *)
(*                                                                         *)
(* The table approval_requests is the functions status, version, kind,     *)
(* requestedBy, expiresAt and supersedes; package is the status of the     *)
(* action_packages row an operational request froze, decisions the rows of *)
(* approval_decisions and notices those of in_app_notifications.  A call   *)
(* is one POST of a decision or a cancellation; a retry is another call    *)
(* with the same key.                                                      *)
(*                                                                         *)
(* A transaction that takes the row lock of a request is two steps, the    *)
(* lock and the rest, because an expiry batch skips a locked row and a     *)
(* decision waits for it.  The decision's own expiry batch is a            *)
(* transaction before it.                                                  *)
(***************************************************************************)
EXTENDS Integers, Sequences, FiniteSets

CONSTANTS
  Requests,
  Calls,        \* POSTs of a decision or a cancellation
  Keys,         \* values of the Idempotency-Key header
  Users, Managers,
  Submissions,  \* the requests submitted: which, by whom, of which kind
  Asked,        \* the verdicts the calls ask for, "cancelled" for a cancellation
  Lifetimes,    \* how long after its submission a request may expire
  BatchSize,    \* limit of a batch of the expiry worker
  MaxClock,     \* bound: the clock stops here
  MaxFaults,    \* bound: transactions that lose their connection
  Worker, None

Verdicts == {"approved", "rejected", "changes_requested"}
Terminal == Verdicts \cup {"cancelled", "expired"}
Kinds    == {"editorial", "operational"}

ASSUME UsersAssumption == /\ Managers \subseteq Users
                          /\ Submissions \subseteq Requests \X Users \X Kinds
                          /\ Asked \subseteq Verdicts \cup {"cancelled"}
ASSUME NumbersAssumption == /\ Lifetimes \subseteq Nat \ {0}
                            /\ BatchSize \in Nat \ {0}
                            /\ MaxClock \in Nat
                            /\ MaxFaults \in Nat
ASSUME NamesAssumption == /\ Worker \notin Calls \cup {None}
                          /\ None \notin Requests \cup Calls \cup Users \cup Keys

Replies  == {"none", "ok", "approval_expired", "version_conflict", "approval_conflict",
             "self_approval_forbidden", "forbidden", "approval_target_changed",
             "idempotency_conflict", "constraint_violated", "connection_lost"}

VARIABLES
  clock, faults,
  status, version, kind, requestedBy, expiresAt, supersedes,
  package, decisions, notices,
  holder,       \* who holds the row lock of a request
  batch,        \* the rows the expiry worker's transaction has selected
  \* calls: control state, what was asked, when, and the answer
  pc, what, target, actor, key, seen, calledAt, reply

tableVars == <<status, version, kind, requestedBy, expiresAt, supersedes>>
logVars   == <<package, decisions, notices>>
callVars  == <<pc, what, target, actor, key, seen, calledAt, reply>>
vars == <<clock, faults, tableVars, logVars, holder, batch, callVars>>

Init ==
  /\ clock = 0 /\ faults = 0
  /\ status      = [r \in Requests |-> "absent"]
  /\ version     = [r \in Requests |-> 1]
  /\ kind        = [r \in Requests |-> "editorial"]
  /\ requestedBy = [r \in Requests |-> None]
  /\ expiresAt   = [r \in Requests |-> 0]
  /\ supersedes  = [r \in Requests |-> None]
  /\ package     = [r \in Requests |-> "none"]
  /\ decisions   = [r \in Requests |-> <<>>]
  /\ notices     = [r \in Requests |-> {}]
  /\ holder      = [r \in Requests |-> None]
  /\ batch       = {}
  /\ pc          = [c \in Calls |-> "new"]
  /\ what        = [c \in Calls |-> "none"]
  /\ target      = [c \in Calls |-> None]
  /\ actor       = [c \in Calls |-> None]
  /\ key         = [c \in Calls |-> None]
  /\ seen        = [c \in Calls |-> 0]
  /\ calledAt    = [c \in Calls |-> 0]
  /\ reply       = [c \in Calls |-> "none"]

-----------------------------------------------------------------------------
(* submitEditorialApproval, submitOperationalApproval *)

Reviewers(u, k) == IF k = "editorial" THEN Managers ELSE Managers \ {u}

\* assertValidApprovalSupersession, on the predecessor's locked row.
MaySupersede(u, k, p) ==
  /\ holder[p] = None
  /\ status[p] = "changes_requested"
  /\ kind[p] = k
  /\ requestedBy[p] = u

\* The request, the package it freezes and the reviewers' notices are one
\* transaction.
Submit(u, r, k, life, p) ==
  /\ status[r] = "absent"
  /\ p # None => MaySupersede(u, k, p)
  /\ status'      = [status EXCEPT ![r] = "pending"]
  /\ kind'        = [kind EXCEPT ![r] = k]
  /\ requestedBy' = [requestedBy EXCEPT ![r] = u]
  /\ expiresAt'   = [expiresAt EXCEPT ![r] = clock + life]
  /\ supersedes'  = [supersedes EXCEPT ![r] = p]
  /\ package'     = [package EXCEPT ![r] = IF k = "operational" THEN "pending_approval" ELSE "none"]
  /\ notices'     = [notices EXCEPT ![r] = {<<m, "review">> : m \in Reviewers(u, k)}]
  /\ UNCHANGED <<clock, faults, version, decisions, holder, batch, callVars>>

-----------------------------------------------------------------------------
(* The statements that settle a request *)

\* What becomes of a package whose request gets verdict v.
Settled(v) == CASE v = "approved" -> "authorized"
                [] v = "expired"  -> "expired"
                [] OTHER          -> "invalidated"

\* CHECK approval_decisions_comment_check: every verdict but an approval has a
\* comment.
CommentAllowed(v, commented) == v = "approved" \/ commented

\* An operational request's package must still be waiting for it.
Settleable(r) == package[r] \in {"none", "pending_approval"}

\* The decision of call c, the request, its package and the requester's notice.
Settle(S, v, who, c) ==
  /\ decisions' = [r \in Requests |-> IF r \in S
        THEN Append(decisions[r], [verdict |-> v, by |-> who, call |-> c]) ELSE decisions[r]]
  /\ status'  = [r \in Requests |-> IF r \in S THEN v ELSE status[r]]
  /\ version' = [r \in Requests |-> IF r \in S THEN version[r] + 1 ELSE version[r]]
  /\ package' = [r \in Requests |-> IF r \in S /\ package[r] # "none"
                                      THEN Settled(v) ELSE package[r]]
  /\ notices' = [r \in Requests |-> IF r \in S
        THEN notices[r] \cup {<<requestedBy[r], v>>} ELSE notices[r]]
  /\ UNCHANGED <<kind, requestedBy, expiresAt, supersedes>>

Unsettled == UNCHANGED <<tableVars, logVars>>

\* Mutant: the rows are selected without FOR UPDATE.
OverdueUnlocked(t) == {r \in Requests : status[r] = "pending" /\ expiresAt[r] <= t}

\* Mutant: the select joins the action package.
OverduePackages(t) == {r \in Requests : /\ status[r] = "pending" /\ package[r] # "none"
                                        /\ expiresAt[r] <= t /\ holder[r] = None}

\* Requests an expiry batch at time t selects: FOR UPDATE SKIP LOCKED.
Overdue(t) == {r \in Requests : status[r] = "pending" /\ expiresAt[r] <= t /\ holder[r] = None}

-----------------------------------------------------------------------------
(* decideApprovalRequest, cancelApprovalRequest *)

\* The caller has read the request and sends the version it saw.
Ask(c, u, r, v, k) ==
  /\ pc[c] = "new"
  /\ status[r] # "absent"
  /\ v # "cancelled" => u \in Managers
  /\ pc'       = [pc EXCEPT ![c] = IF v = "cancelled" THEN "begin" ELSE "expire"]
  /\ what'     = [what EXCEPT ![c] = v]
  /\ target'   = [target EXCEPT ![c] = r]
  /\ actor'    = [actor EXCEPT ![c] = u]
  /\ key'      = [key EXCEPT ![c] = k]
  /\ seen'     = [seen EXCEPT ![c] = version[r]]
  /\ calledAt' = [calledAt EXCEPT ![c] = clock]
  /\ UNCHANGED <<clock, faults, tableVars, logVars, holder, batch, reply>>

\* A client whose call went unanswered sends it again, key and all.
AskAgain(c, d) ==
  /\ pc[c] = "new"
  /\ reply[d] = "connection_lost"
  /\ pc'       = [pc EXCEPT ![c] = IF what[d] = "cancelled" THEN "begin" ELSE "expire"]
  /\ what'     = [what EXCEPT ![c] = what[d]]
  /\ target'   = [target EXCEPT ![c] = target[d]]
  /\ actor'    = [actor EXCEPT ![c] = actor[d]]
  /\ key'      = [key EXCEPT ![c] = key[d]]
  /\ seen'     = [seen EXCEPT ![c] = seen[d]]
  /\ calledAt' = [calledAt EXCEPT ![c] = clock]
  /\ UNCHANGED <<clock, faults, tableVars, logVars, holder, batch, reply>>

Answer(c, a) == /\ pc'    = [pc EXCEPT ![c] = "done"]
                /\ reply' = [reply EXCEPT ![c] = a]
                /\ UNCHANGED <<what, target, actor, key, seen, calledAt>>

GoTo(c, step) == /\ pc' = [pc EXCEPT ![c] = step]
                 /\ UNCHANGED <<what, target, actor, key, seen, calledAt, reply>>

\* A decision first expires its own request, unless somebody holds it.
ExpireFirst(c) ==
  /\ pc[c] = "expire"
  /\ IF target[c] \in Overdue(calledAt[c])
       THEN /\ Settle({target[c]}, "expired", Worker, None)
            /\ Answer(c, "approval_expired")
       ELSE Unsettled /\ GoTo(c, "begin")
  /\ UNCHANGED <<clock, faults, holder, batch>>

\* The primary key of idempotency_records: the actor, the operation and the key.
SameRecord(c, d) ==
  /\ actor[c] = actor[d] /\ target[c] = target[d] /\ key[c] = key[d]
  /\ (what[c] = "cancelled") <=> (what[d] = "cancelled")

\* Mutant: the request hash is not compared.
SamePayloadIgnored(c, d) == TRUE

SamePayload(c, d) == what[c] = what[d] /\ seen[c] = seen[d]

\* Calls whose transaction committed its record with the decision.
Recorded(c) == {d \in Calls : \E i \in DOMAIN decisions[target[c]] :
                  /\ decisions[target[c]][i].call = d
                  /\ SameRecord(c, d)}

\* The insert of the record waits for a transaction that inserted it first.
Duplicated(c) == \E d \in Calls \ {c} : pc[d] = "locked" /\ SameRecord(c, d)

\* executeIdempotentCommand finds a completed record.
Replay(c) ==
  /\ pc[c] = "begin"
  /\ ~Duplicated(c)
  /\ \E d \in Recorded(c) : Answer(c, IF SamePayload(c, d) THEN "ok" ELSE "idempotency_conflict")
  /\ Unsettled
  /\ UNCHANGED <<clock, faults, holder, batch>>

\* loadRequestForUpdate waits for the row.
LockRow(c) ==
  /\ pc[c] = "begin"
  /\ ~Duplicated(c)
  /\ Recorded(c) = {}
  /\ holder[target[c]] = None
  /\ holder' = [holder EXCEPT ![target[c]] = c]
  /\ GoTo(c, "locked")
  /\ Unsettled
  /\ UNCHANGED <<clock, faults, batch>>

\* Mutant: the expiry is left to the batch.
InTimeUnchecked(c) == TRUE

\* assertApprovalTargetCurrent compares with the time of the call.  The hash of
\* an append-only version or an immutable package is always the one frozen.
InTime(c) == calledAt[c] < expiresAt[target[c]]

\* Mutant: neither the version nor the status is looked at again.
DecideOutcomeUnchecked(c) ==
  CASE ~InTime(c)             -> "approval_expired"
    [] ~Settleable(target[c]) -> "approval_target_changed"
    [] OTHER                  -> "ok"

DecideOutcome(c) ==
  LET r == target[c]
  IN  CASE version[r] # seen[c]      -> "version_conflict"
        [] status[r] # "pending"     -> "approval_conflict"
        [] kind[r] = "operational" /\ actor[c] = requestedBy[r] -> "self_approval_forbidden"
        [] ~InTime(c)                -> "approval_expired"
        [] ~CommentAllowed(what[c], TRUE) -> "constraint_violated"
        [] ~Settleable(r)            -> "approval_target_changed"
        [] OTHER                     -> "ok"

\* The row of a cancellation is written without a comment.
CancelOutcome(c) ==
  LET r == target[c]
  IN  CASE requestedBy[r] # actor[c] -> "forbidden"
        [] status[r] # "pending"     -> "approval_conflict"
        [] version[r] # seen[c]      -> "version_conflict"
        [] ~CommentAllowed("cancelled", FALSE) -> "constraint_violated"
        [] ~Settleable(r)            -> "approval_target_changed"
        [] OTHER                     -> "ok"

Outcome(c) == IF what[c] = "cancelled" THEN CancelOutcome(c) ELSE DecideOutcome(c)

\* The rest of the transaction: everything, or nothing.
Conclude(c) ==
  /\ pc[c] = "locked"
  /\ IF Outcome(c) = "ok" THEN Settle({target[c]}, what[c], actor[c], c) ELSE Unsettled
  /\ holder' = [holder EXCEPT ![target[c]] = None]
  /\ UNCHANGED <<clock, batch>>

Commit(c) == Conclude(c) /\ Answer(c, Outcome(c)) /\ UNCHANGED faults

\* The connection is lost after the commit.
LoseAnswer(c) ==
  /\ pc[c] = "locked"
  /\ faults < MaxFaults /\ faults' = faults + 1
  /\ Outcome(c) = "ok"
  /\ Conclude(c)
  /\ Answer(c, "connection_lost")

\* The connection is lost before it: the database rolls back.
Rollback(c) ==
  /\ pc[c] = "locked"
  /\ faults < MaxFaults /\ faults' = faults + 1
  /\ holder' = [holder EXCEPT ![target[c]] = None]
  /\ Answer(c, "connection_lost")
  /\ Unsettled
  /\ UNCHANGED <<clock, batch>>

-----------------------------------------------------------------------------
(* startApprovalExpiryWorker, expire_approval_requests_batch *)

Smaller(m, n) == IF m < n THEN m ELSE n

\* The earliest overdue requests nobody holds, up to the limit of the batch.
SelectBatch ==
  /\ batch = {}
  /\ Overdue(clock) # {}
  /\ \E S \in SUBSET Overdue(clock) :
       /\ Cardinality(S) = Smaller(BatchSize, Cardinality(Overdue(clock)))
       /\ \A r \in S, q \in Overdue(clock) \ S : expiresAt[r] <= expiresAt[q]
       /\ batch' = S
       /\ holder' = [r \in Requests |-> IF r \in S THEN Worker ELSE holder[r]]
  /\ Unsettled
  /\ UNCHANGED <<clock, faults, callVars>>

Release == /\ batch' = {}
           /\ holder' = [r \in Requests |-> IF r \in batch THEN None ELSE holder[r]]

\* The batch raises an error, and rolls back, if a package does not wait for its request;
\* no pending request is without one that does.
ExpireBatch ==
  /\ batch # {}
  /\ IF \A r \in batch : Settleable(r) THEN Settle(batch, "expired", Worker, None) ELSE Unsettled
  /\ Release
  /\ UNCHANGED <<clock, faults, callVars>>

\* The worker's connection is lost: the next interval tries again.
BatchFails ==
  /\ batch # {}
  /\ faults < MaxFaults /\ faults' = faults + 1
  /\ Release
  /\ Unsettled
  /\ UNCHANGED <<clock, callVars>>

Tick == /\ clock < MaxClock
        /\ clock' = clock + 1
        /\ UNCHANGED <<faults, tableVars, logVars, holder, batch, callVars>>

CallStep(c) == ExpireFirst(c) \/ Replay(c) \/ LockRow(c) \/ Commit(c) \/ LoseAnswer(c) \/ Rollback(c)

Next ==
  \/ \E s \in Submissions, n \in Lifetimes, p \in Requests \cup {None} :
       Submit(s[2], s[1], s[3], n, p)
  \/ \E c \in Calls, u \in Users, r \in Requests, v \in Asked, k \in Keys : Ask(c, u, r, v, k)
  \/ \E c \in Calls, d \in Calls : AskAgain(c, d)
  \/ \E c \in Calls : CallStep(c)
  \/ SelectBatch \/ ExpireBatch \/ BatchFails
  \/ Tick

\* A call the service has begun is carried on, and setInterval runs the worker.
Fairness == /\ \A c \in Calls : WF_vars(CallStep(c))
            /\ WF_vars(SelectBatch)
            /\ WF_vars(ExpireBatch)

Spec     == Init /\ [][Next]_vars
FairSpec == Spec /\ Fairness

-----------------------------------------------------------------------------
(* Properties *)

TypeOK ==
  /\ clock \in 0..MaxClock /\ faults \in 0..MaxFaults
  /\ status \in [Requests -> Terminal \cup {"absent", "pending"}]
  /\ version \in [Requests -> Nat \ {0}]
  /\ kind \in [Requests -> Kinds]
  /\ requestedBy \in [Requests -> Users \cup {None}]
  /\ expiresAt \in [Requests -> Nat]
  /\ supersedes \in [Requests -> Requests \cup {None}]
  /\ package \in [Requests -> {"none", "pending_approval", "authorized", "invalidated", "expired"}]
  /\ \A r \in Requests : \A i \in DOMAIN decisions[r] :
       /\ decisions[r][i].verdict \in Terminal
       /\ decisions[r][i].by \in Users \cup {Worker}
       /\ decisions[r][i].call \in Calls \cup {None}
  /\ holder \in [Requests -> Calls \cup {Worker, None}]
  /\ batch \subseteq Requests
  /\ pc \in [Calls -> {"new", "expire", "begin", "locked", "done"}]
  /\ target \in [Calls -> Requests \cup {None}]
  /\ reply \in [Calls -> Replies]

\* A request has at most one row of approval_decisions, the one its status
\* names, whatever decisions, expiry batches and retries meet on it, and its
\* requester is notified of that verdict and of no other (approvals.ts:612,
\* 0008:246).
OneDecision ==
  \A r \in Requests :
    /\ status[r] \notin Terminal => decisions[r] = <<>>
    /\ status[r] \in Terminal =>
         /\ Len(decisions[r]) = 1
         /\ decisions[r][1].verdict = status[r]
    /\ {n \in notices[r] : n[2] # "review"} =
         IF status[r] \in Terminal THEN {<<requestedBy[r], status[r]>>} ELSE {}

\* A person's decision was asked for before the request expired, even when the
\* row was held while its own expiry batch ran, and nothing expires early
\* (approvals.ts:576, 592).
DecidedInTime ==
  \A r \in Requests : \A i \in DOMAIN decisions[r] :
    LET d == decisions[r][i]
    IN  IF d.call \in Calls THEN calledAt[d.call] < expiresAt[r] ELSE expiresAt[r] <= clock

\* A caller told of success finds its own decision on the request, even when
\* it is answered from the record of an earlier call (idempotency.ts:33).
AnswerIsDecision ==
  \A c \in Calls : reply[c] = "ok" =>
    \E i \in DOMAIN decisions[target[c]] :
      /\ decisions[target[c]][i].verdict = what[c]
      /\ decisions[target[c]][i].by = actor[c]

\* A request nobody decides is expired: the expiry worker gets to it although
\* its batches are bounded and skip locked rows (approvalExpiryWorker.ts:37).
OverdueSettles ==
  \A r \in Requests : (status[r] = "pending" /\ expiresAt[r] <= clock) ~> (status[r] \in Terminal)

\* Each request keeps the promise of ApprovalVerdict.
Verdict == INSTANCE ApprovalVerdict WITH verdict <- status
Implements == Verdict!Spec

\* The OpenAPI document: the requester of a pending request can cancel it
\* (marketing-ops.v1.yaml:921).  No cancellation breaks on the database.
CancelHonoured == \A c \in Calls : reply[c] # "constraint_violated"
=============================================================================
