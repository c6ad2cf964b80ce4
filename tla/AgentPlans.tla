----------------------------- MODULE AgentPlans -----------------------------
(***************************************************************************)
(* The prepared plans of the Marketing Ops service: the MCP tool prepares  *)
(* a plan for a chat, the product card lists it and executes it by POST,   *)
(* the service reserves it under the card's idempotency key, runs its      *)
(* actions one transaction each, and writes the receipt.                   *)
(*                                                                         *)
(* The table marketing_ops.prepared_agent_plans is the functions status,   *)
(* chat, draft, expiresAt, key, startedAt, attempts and receipt.  A        *)
(* prepare call and the plan it may insert share a name.  A request is one *)
(* POST .../execute, a call of AgentPlanService.executePlan; a retry is    *)
(* another request.  One owner is modelled: row level security hides a     *)
(* plan from everybody else, who are answered plan_not_found.              *)
(*                                                                         *)
(* A step is a transaction, except where another transaction can come      *)
(* between two statements: a prepare call (its advisory lock and the rows  *)
(* it is about to invalidate are held until it commits), the read and the  *)
(* write of getById, and the transaction of an action: it checks the       *)
(* target, inserts the idempotency record, works, and commits.             *)
(***************************************************************************)
EXTENDS Integers

CONSTANTS
  Plans,        \* prepare calls, each naming the plan it may insert
  Chats,        \* chat sessions of the owner
  Drafts,       \* the pairs of source run and plan hash
  Keys,         \* values of the Idempotency-Key header
  Requests,     \* calls of executePlan
  NumActions,   \* how many actions a plan has
  RefOf,        \* the earlier create_draft action whose ref an action uses, or 0
  Guarded,      \* actions whose command checks its target before the record
  Ttl,          \* lifetime of a pending plan, in ticks
  Lease,        \* lease of an execution, in ticks
  MaxAttempts,  \* CHECK on execution_attempts, 10 in the migration
  DbFaults,     \* whether a command or the finalization can lose the database
  MaxClock,     \* bound: the clock stops here
  MaxCrashes,   \* bound: restarts of the service
  None

Actions == 1..NumActions

ASSUME ActionsAssumption ==
  /\ NumActions \in Nat \ {0}
  /\ RefOf \in [Actions -> 0..NumActions]
  /\ \A a \in Actions : RefOf[a] < a /\ (RefOf[a] # 0 => RefOf[RefOf[a]] = 0)
  /\ Guarded \subseteq Actions
ASSUME TimeAssumption ==
  /\ Ttl \in Nat \ {0}
  /\ Lease \in Nat
  /\ MaxClock \in Nat
ASSUME BoundsAssumption ==
  /\ MaxAttempts \in Nat \ {0}
  /\ MaxCrashes \in Nat
  /\ DbFaults \in BOOLEAN
ASSUME NoneAssumption == None \notin Keys \cup Chats \cup Drafts \cup [Actions -> {"completed", "failed", "pending"}]

Terminal == {"completed", "partial", "failed", "expired", "invalidated"}
Statuses == Terminal \cup {"absent", "pending", "executing"}
Outcomes == {"completed", "failed", "pending"}
Replies  == {"none", "plan_not_found", "plan_hash_mismatch", "plan_invalidated",
             "plan_expired", "plan_not_pending", "plan_executing", "db_error",
             "replay", "executed", "plan_finalize_failed", "crashed"}

VARIABLES
  clock, crashes,
  \* the table of prepared plans
  status, chat, draft, expiresAt, key, startedAt, attempts, receipt,
  \* prepare calls: the state of each, and the rows its transaction has locked
  call, rows,
  \* domain data: times an action took effect, the idempotency records that
  \* were committed, targets that were closed
  effects, records, closed,
  \* requests: control state, parameters, lease, loop index, outcomes, answer
  pc, plan, rkey, at, outcome, reply

envVars     == <<clock, crashes>>
tableVars   == <<status, chat, draft, expiresAt, key, startedAt, attempts, receipt>>
callVars    == <<call, rows>>
domainVars  == <<effects, records, closed>>
requestVars == <<pc, plan, rkey, at, outcome, reply>>
vars == <<envVars, tableVars, callVars, domainVars, requestVars>>

NotRun == [a \in Actions |-> "todo"]

Init ==
  /\ clock = 0 /\ crashes = 0
  /\ status    = [p \in Plans |-> "absent"]
  /\ chat      = [p \in Plans |-> None]
  /\ draft     = [p \in Plans |-> None]
  /\ expiresAt = [p \in Plans |-> 0]
  /\ key       = [p \in Plans |-> None]
  /\ startedAt = [p \in Plans |-> 0]
  /\ attempts  = [p \in Plans |-> 0]
  /\ receipt   = [p \in Plans |-> None]
  /\ call      = [p \in Plans |-> "new"]
  /\ rows      = [p \in Plans |-> {}]
  /\ effects   = [p \in Plans |-> [a \in Actions |-> 0]]
  /\ records   = {}
  /\ closed    = {}
  /\ pc        = [r \in Requests |-> "new"]
  /\ plan      = [r \in Requests |-> None]
  /\ rkey      = [r \in Requests |-> None]
  /\ at        = [r \in Requests |-> 1]
  /\ outcome   = [r \in Requests |-> NotRun]
  /\ reply     = [r \in Requests |-> "none"]

Expired(p)   == status[p] = "pending" /\ expiresAt[p] <= clock
RowLocked(p) == \E t \in Plans : p \in rows[t]

-----------------------------------------------------------------------------
(* PreparedPlanRepository.prepare *)

\* Mutant: the advisory lock is not taken.
AdvisoryFreeUnlocked(c) == TRUE

\* No other transaction holds the advisory lock of chat c.
AdvisoryFree(c) == \A t \in Plans : call[t] = "holding" => chat[t] # c

SamePending(c, d) ==
  {q \in Plans : status[q] = "pending" /\ chat[q] = c /\ draft[q] = d /\ clock < expiresAt[q]}

\* Mutant: the older pending plan is left alone.
PendingInKept(c) == {q \in Plans : status[q] = "pending" /\ chat[q] # c}

PendingIn(c) == {q \in Plans : status[q] = "pending" /\ chat[q] = c}

\* The same run prepared the same actions before: the pending plan is returned.
PrepareReplay(t, c, d) ==
  /\ call[t] = "new"
  /\ AdvisoryFree(c)
  /\ SamePending(c, d) # {}
  /\ call' = [call EXCEPT ![t] = "done"]
  /\ UNCHANGED <<envVars, tableVars, rows, domainVars, requestVars>>

\* The transaction takes the advisory lock and the pending rows of the chat.
PrepareLock(t, c, d) ==
  /\ call[t] = "new"
  /\ AdvisoryFree(c)
  /\ SamePending(c, d) = {}
  /\ call'  = [call EXCEPT ![t] = "holding"]
  /\ chat'  = [chat EXCEPT ![t] = c]
  /\ draft' = [draft EXCEPT ![t] = d]
  /\ rows'  = [rows EXCEPT ![t] = PendingIn(c)]
  /\ UNCHANGED <<envVars, status, expiresAt, key, startedAt, attempts, receipt,
                 domainVars, requestVars>>

\* It commits: the locked rows are invalidated and the new plan is pending.
PrepareCommit(t) ==
  /\ call[t] = "holding"
  /\ call'      = [call EXCEPT ![t] = "done"]
  /\ status'    = [p \in Plans |-> IF p = t THEN "pending"
                                   ELSE IF p \in rows[t] THEN "invalidated"
                                   ELSE status[p]]
  /\ expiresAt' = [expiresAt EXCEPT ![t] = clock + Ttl]
  /\ rows'      = [rows EXCEPT ![t] = {}]
  /\ UNCHANGED <<envVars, chat, draft, key, startedAt, attempts, receipt,
                 domainVars, requestVars>>

(* listPending and listRecent: the opportunistic expiry of one chat *)
ListPlans(c) ==
  LET late == {p \in Plans : Expired(p) /\ chat[p] = c}
  IN /\ late # {}
     /\ \A p \in late : ~RowLocked(p)
     /\ status' = [p \in Plans |-> IF p \in late THEN "expired" ELSE status[p]]
     /\ UNCHANGED <<envVars, chat, draft, expiresAt, key, startedAt, attempts, receipt,
                    callVars, domainVars, requestVars>>

-----------------------------------------------------------------------------
(* AgentPlanService.executePlan: getById, then reserveForExecution *)

\* Request r ends with answer m.
Answer(r, m) ==
  /\ pc'    = [pc EXCEPT ![r] = "done"]
  /\ reply' = [reply EXCEPT ![r] = m]

\* getById reads the row, without a lock.
GetPlan(r, p, k) ==
  /\ pc[r] = "new"
  /\ plan' = [plan EXCEPT ![r] = p]
  /\ rkey' = [rkey EXCEPT ![r] = k]
  /\ \/ /\ status[p] = "absent"
        /\ Answer(r, "plan_not_found")
     \/ /\ Expired(p)
        /\ pc' = [pc EXCEPT ![r] = "expire"]
        /\ UNCHANGED reply
     \/ /\ status[p] # "absent" /\ ~Expired(p)
        /\ pc' = [pc EXCEPT ![r] = "reserve"]
        /\ UNCHANGED reply
  /\ UNCHANGED <<envVars, tableVars, callVars, domainVars, at, outcome>>

\* It then writes 'expired' whatever the row has become; the trigger of the
\* table rejects the write unless the row is still pending.
ExpireOnRead(r) ==
  LET p == plan[r]
  IN /\ pc[r] = "expire"
     /\ ~RowLocked(p)
     /\ \/ /\ status[p] = "pending"
           /\ status' = [status EXCEPT ![p] = "expired"]
           /\ pc' = [pc EXCEPT ![r] = "reserve"]
           /\ UNCHANGED reply
        \/ /\ status[p] # "pending"
           /\ Answer(r, "db_error")
           /\ UNCHANGED status
     /\ UNCHANGED <<envVars, chat, draft, expiresAt, key, startedAt, attempts, receipt,
                    callVars, domainVars, plan, rkey, at, outcome>>

\* The row is locked by SELECT ... FOR UPDATE for the whole of the reservation.
AtReservation(r) == pc[r] = "reserve" /\ ~RowLocked(plan[r])

LeaseExpired(p) == clock - startedAt[p] > Lease

\* Mutant: the CHECK on execution_attempts is missing.
AttemptLeftUnchecked(p) == TRUE

\* The CHECK on execution_attempts lets the row be reserved once more.
AttemptLeft(p) == attempts[p] < MaxAttempts

\* Why a reservation is refused. A refused reservation writes nothing: an
\* expired row's UPDATE is rolled back by the plan_expired error thrown after it.
Refusals(p, k) ==
  {"plan_hash_mismatch"}
  \cup (IF status[p] \in {"completed", "partial", "failed"} /\ key[p] # k
          THEN {"plan_not_pending"} ELSE {})
  \cup (IF status[p] = "invalidated" THEN {"plan_invalidated"} ELSE {})
  \cup (IF status[p] = "expired" \/ Expired(p) THEN {"plan_expired"} ELSE {})
  \cup (IF status[p] = "executing" /\ (key[p] # k \/ ~LeaseExpired(p))
          THEN {"plan_executing"} ELSE {})
  \cup (IF \/ status[p] = "executing" /\ key[p] = k /\ LeaseExpired(p) /\ ~AttemptLeft(p)
           \/ status[p] = "pending" /\ ~Expired(p) /\ \E q \in Plans : key[q] = k
          THEN {"db_error"} ELSE {})

ReserveRefuse(r) ==
  /\ AtReservation(r)
  /\ \E m \in Refusals(plan[r], rkey[r]) : Answer(r, m)
  /\ UNCHANGED <<envVars, tableVars, callVars, domainVars, plan, rkey, at, outcome>>

\* A settled plan answers its own key with the stored receipt.
ReserveReplay(r) ==
  /\ AtReservation(r)
  /\ status[plan[r]] \in {"completed", "partial", "failed"}
  /\ key[plan[r]] = rkey[r]
  /\ Answer(r, "replay")
  /\ UNCHANGED <<envVars, tableVars, callVars, domainVars, plan, rkey, at, outcome>>

\* The request got the plan: a new lease, and the executor starts from action 1.
StartExecution(r) ==
  /\ startedAt' = [startedAt EXCEPT ![plan[r]] = clock]
  /\ attempts'  = [attempts EXCEPT ![plan[r]] = @ + 1]
  /\ pc'        = [pc EXCEPT ![r] = "target"]
  /\ UNCHANGED <<envVars, chat, draft, expiresAt, receipt, callVars, domainVars,
                 plan, rkey, at, outcome, reply>>

ReservePending(r) ==
  LET p == plan[r]
  IN /\ AtReservation(r)
     /\ status[p] = "pending" /\ ~Expired(p)
     /\ \A q \in Plans : key[q] # rkey[r]
     /\ status' = [status EXCEPT ![p] = "executing"]
     /\ key'    = [key EXCEPT ![p] = rkey[r]]
     /\ StartExecution(r)

\* Mutant: any key takes a lapsed execution over.
ReserveRecoverAnyKey(r) ==
  LET p == plan[r]
  IN /\ AtReservation(r)
     /\ status[p] = "executing"
     /\ LeaseExpired(p)
     /\ AttemptLeft(p)
     /\ StartExecution(r)
     /\ UNCHANGED <<status, key>>

\* The lease ran out: the same key takes the execution over.
ReserveRecover(r) ==
  LET p == plan[r]
  IN /\ AtReservation(r)
     /\ status[p] = "executing" /\ key[p] = rkey[r]
     /\ LeaseExpired(p)
     /\ AttemptLeft(p)
     /\ StartExecution(r)
     /\ UNCHANGED <<status, key>>

-----------------------------------------------------------------------------
(* executeMarketingOpsPlan: the actions in order, one transaction each *)

\* Action at[r] ends with outcome o; the loop goes on or ends.
Record(r, o) ==
  /\ outcome' = [outcome EXCEPT ![r][at[r]] = o]
  /\ at' = [at EXCEPT ![r] = IF at[r] = NumActions THEN @ ELSE @ + 1]
  /\ pc' = [pc EXCEPT ![r] = IF at[r] = NumActions THEN "finalize" ELSE "target"]

DependencyFailed(r, a) == RefOf[a] # 0 /\ outcome[r][RefOf[a]] = "failed"

\* The action uses the ref of a creation that failed in this execution.
SkipDependent(r) ==
  /\ pc[r] = "target"
  /\ DependencyFailed(r, at[r])
  /\ Record(r, "pending")
  /\ UNCHANGED <<envVars, tableVars, callVars, domainVars, plan, rkey, reply>>

\* The ref of the action resolves to what this execution created.
Resolved(r, a) == RefOf[a] # 0 => outcome[r][RefOf[a]] = "completed"

Admitted(r, a) == a \notin Guarded \cap closed /\ Resolved(r, a)

\* The command checks its target, and only then looks for its record.
CheckTarget(r) ==
  /\ pc[r] = "target"
  /\ ~DependencyFailed(r, at[r])
  /\ \/ /\ ~Admitted(r, at[r])
        /\ Record(r, "failed")
     \/ /\ Admitted(r, at[r])
        /\ pc' = [pc EXCEPT ![r] = "command"]
        /\ UNCHANGED <<at, outcome>>
  /\ UNCHANGED <<envVars, tableVars, callVars, domainVars, plan, rkey, reply>>

(* executeIdempotentCommand, with the commit of its transaction *)

\* Mutant: the record is looked up first, which does not show what an open
\* transaction has inserted.
BeingInsertedUnseen(p, a) == FALSE

\* An open transaction has inserted the record of action a: the unique key
\* makes INSERT ... ON CONFLICT DO NOTHING wait until it commits or rolls back.
BeingInserted(p, a) == \E s \in Requests : pc[s] = "work" /\ plan[s] = p /\ at[s] = a

\* Mutant: a record that is not there yet is answered as a hit.
CommandHitBlind(r) ==
  /\ pc[r] = "command"
  /\ Record(r, "completed")
  /\ UNCHANGED <<envVars, tableVars, callVars, domainVars, plan, rkey, reply>>

\* The insert meets a committed record: the stored response is the result.
CommandHit(r) ==
  /\ pc[r] = "command"
  /\ <<plan[r], at[r]>> \in records
  /\ Record(r, "completed")
  /\ UNCHANGED <<envVars, tableVars, callVars, domainVars, plan, rkey, reply>>

\* The record is inserted, for this transaction's eyes only; the command runs.
InsertRecord(r) ==
  /\ pc[r] = "command"
  /\ ~BeingInserted(plan[r], at[r])
  /\ <<plan[r], at[r]>> \notin records
  /\ pc' = [pc EXCEPT ![r] = "work"]
  /\ UNCHANGED <<envVars, tableVars, callVars, domainVars, plan, rkey, at, outcome, reply>>

\* The insert waited for the other transaction longer than lock_timeout.
InsertTimesOut(r) ==
  /\ pc[r] = "command"
  /\ BeingInserted(plan[r], at[r])
  /\ Record(r, "failed")
  /\ UNCHANGED <<envVars, tableVars, callVars, domainVars, plan, rkey, reply>>

\* What the transaction of request r wrote becomes visible, all of it.
Commit(r) ==
  /\ effects' = [effects EXCEPT ![plan[r]][at[r]] = @ + 1]
  /\ records' = records \cup {<<plan[r], at[r]>>}

CommandCommits(r) ==
  /\ pc[r] = "work"
  /\ Commit(r)
  /\ Record(r, "completed")
  /\ UNCHANGED <<envVars, tableVars, callVars, closed, plan, rkey, reply>>

\* The domain refuses it (stale version, authority, validation): a rollback.
CommandRefused(r) ==
  /\ pc[r] = "work"
  /\ Record(r, "failed")
  /\ UNCHANGED <<envVars, tableVars, callVars, domainVars, plan, rkey, reply>>

\* The database is lost in the transaction, before its commit or after it.
CommandLost(r) ==
  /\ DbFaults
  /\ pc[r] \in {"command", "work"}
  /\ Record(r, "failed")
  /\ \/ UNCHANGED <<effects, records>>
     \/ pc[r] = "work" /\ Commit(r)
  /\ UNCHANGED <<envVars, tableVars, callVars, closed, plan, rkey, reply>>

\* Mutant: one failure makes the whole plan fail.
FinalStatusHarsh(out) ==
  IF \A a \in Actions : out[a] = "completed" THEN "completed" ELSE "failed"

FinalStatus(out) ==
  IF \A a \in Actions : out[a] = "completed" THEN "completed"
  ELSE IF \A a \in Actions : out[a] # "completed" THEN "failed"
  ELSE "partial"

\* Mutant: a settled plan is written again.
WriteReceiptTwice(r) ==
  LET p == plan[r]
  IN /\ key[p] = rkey[r]
     /\ status'  = [status EXCEPT ![p] = FinalStatus(outcome[r])]
     /\ receipt' = [receipt EXCEPT ![p] = outcome[r]]

\* Mutant: only the first reservation of a plan can settle it.
WriteReceiptFirst(r) ==
  LET p == plan[r]
  IN /\ status[p] = "executing" /\ key[p] = rkey[r] /\ attempts[p] = 1
     /\ status'  = [status EXCEPT ![p] = FinalStatus(outcome[r])]
     /\ receipt' = [receipt EXCEPT ![p] = outcome[r]]

\* The receipt is written where the plan is still executing under the key.
WriteReceipt(r) ==
  LET p == plan[r]
  IN /\ status[p] = "executing" /\ key[p] = rkey[r]
     /\ status'  = [status EXCEPT ![p] = FinalStatus(outcome[r])]
     /\ receipt' = [receipt EXCEPT ![p] = outcome[r]]

Finalize(r) ==
  /\ pc[r] = "finalize"
  /\ \/ /\ WriteReceipt(r)
        /\ Answer(r, "executed")
     \/ /\ status[plan[r]] # "executing" \/ key[plan[r]] # rkey[r]
        /\ Answer(r, "plan_finalize_failed")
        /\ UNCHANGED <<status, receipt>>
  /\ UNCHANGED <<envVars, chat, draft, expiresAt, key, startedAt, attempts,
                 callVars, domainVars, plan, rkey, at, outcome>>

\* The database is lost in finalizeExecution, before its commit or after it.
FinalizeLost(r) ==
  /\ DbFaults
  /\ pc[r] = "finalize"
  /\ Answer(r, "db_error")
  /\ (WriteReceipt(r) \/ UNCHANGED <<status, receipt>>)
  /\ UNCHANGED <<envVars, chat, draft, expiresAt, key, startedAt, attempts,
                 callVars, domainVars, plan, rkey, at, outcome>>

-----------------------------------------------------------------------------
(* The environment *)

Tick ==
  /\ clock < MaxClock
  /\ clock' = clock + 1
  /\ UNCHANGED <<crashes, tableVars, callVars, domainVars, requestVars>>

\* Somebody archives the campaign an action is aimed at.
CloseTarget(a) ==
  /\ a \in Guarded \ closed
  /\ closed' = closed \cup {a}
  /\ UNCHANGED <<envVars, tableVars, callVars, effects, records, requestVars>>

\* The service restarts: open transactions roll back, requests get no answer.
Crash ==
  /\ crashes < MaxCrashes
  /\ crashes' = crashes + 1
  /\ call'  = [t \in Plans |-> IF call[t] = "holding" THEN "done" ELSE call[t]]
  /\ rows'  = [t \in Plans |-> {}]
  /\ pc'    = [r \in Requests |-> IF pc[r] = "new" THEN "new" ELSE "done"]
  /\ reply' = [r \in Requests |-> IF pc[r] \in {"new", "done"} THEN reply[r] ELSE "crashed"]
  /\ UNCHANGED <<clock, tableVars, domainVars, plan, rkey, at, outcome>>

PrepareStep(t) ==
  \/ \E c \in Chats, d \in Drafts : PrepareReplay(t, c, d) \/ PrepareLock(t, c, d)
  \/ PrepareCommit(t)

ReserveStep(r) ==
  ExpireOnRead(r) \/ ReserveRefuse(r) \/ ReserveReplay(r) \/ ReservePending(r) \/ ReserveRecover(r)

ExecutorStep(r) ==
  \/ SkipDependent(r) \/ CheckTarget(r)
  \/ CommandHit(r) \/ InsertRecord(r) \/ InsertTimesOut(r)
  \/ CommandCommits(r) \/ CommandRefused(r) \/ CommandLost(r)
  \/ Finalize(r) \/ FinalizeLost(r)

Next ==
  \/ \E t \in Plans : PrepareStep(t)
  \/ \E c \in Chats : ListPlans(c)
  \/ \E r \in Requests, p \in Plans, k \in Keys : GetPlan(r, p, k)
  \/ \E r \in Requests : ReserveStep(r) \/ ExecutorStep(r)
  \/ Tick
  \/ \E a \in Guarded : CloseTarget(a)
  \/ Crash

Spec == Init /\ [][Next]_vars

\* An admitted request is a promise chain the event loop keeps running, and a
\* transaction that was begun goes on to its commit.
Fairness ==
  /\ \A t \in Plans : WF_vars(PrepareCommit(t))
  /\ \A r \in Requests : WF_vars(ReserveStep(r)) /\ WF_vars(ExecutorStep(r))

FairSpec == Spec /\ Fairness

-----------------------------------------------------------------------------
(* Properties *)

\* Every variable has its type.
TypeOK ==
  /\ clock \in 0..MaxClock /\ crashes \in 0..MaxCrashes
  /\ status    \in [Plans -> Statuses]
  /\ chat      \in [Plans -> Chats \cup {None}]
  /\ draft     \in [Plans -> Drafts \cup {None}]
  /\ expiresAt \in [Plans -> Nat]
  /\ key       \in [Plans -> Keys \cup {None}]
  /\ startedAt \in [Plans -> Nat]
  /\ attempts  \in [Plans -> 0..MaxAttempts]
  /\ receipt   \in [Plans -> [Actions -> Outcomes] \cup {None}]
  /\ call      \in [Plans -> {"new", "holding", "done"}]
  /\ rows      \in [Plans -> SUBSET Plans]
  /\ effects   \in [Plans -> [Actions -> Nat]]
  /\ records   \subseteq Plans \X Actions
  /\ closed    \subseteq Guarded
  /\ pc        \in [Requests -> {"new", "expire", "reserve", "target", "command", "work", "finalize", "done"}]
  /\ plan      \in [Requests -> Plans \cup {None}]
  /\ rkey      \in [Requests -> Keys \cup {None}]
  /\ at        \in [Requests -> Actions]
  /\ outcome   \in [Requests -> [Actions -> Outcomes \cup {"todo"}]]
  /\ reply     \in [Requests -> Replies]

Lifecycle == INSTANCE PlanLifecycle WITH
  done <- {pa \in Plans \X Actions : effects[pa[1]][pa[2]] > 0}

Executing(r) == pc[r] \in {"target", "command", "work", "finalize"}

\* However prepare calls of one chat interleave, the chat never shows two
\* executable plans (repository.ts: "A chat may expose at most one executable plan").
OnePendingPerChat ==
  \A p, q \in Plans : status[p] = "pending" /\ status[q] = "pending" /\ chat[p] = chat[q] => p = q

\* Two executors that come to the same action at once, retries, takeovers after
\* a lapsed lease, commits that were not answered and restarts never make an
\* action take effect twice (idempotency.ts: INSERT ... ON CONFLICT DO NOTHING).
EffectOnce == \A p \in Plans, a \in Actions : effects[p][a] <= 1

\* Whoever runs a plan's actions holds the plan: it was reserved under that
\* request's key and was neither expired nor invalidated since.
ExecutorHoldsPlan ==
  \A r \in Requests : Executing(r) =>
    /\ status[plan[r]] \in {"executing", "completed", "partial", "failed"}
    /\ key[plan[r]] = rkey[r]

\* A settled plan's receipt and status agree, and whatever the receipt lists as
\* completed took effect.
ReceiptBacked ==
  \A p \in Plans :
    /\ (receipt[p] # None) = (status[p] \in {"completed", "partial", "failed"})
    /\ receipt[p] # None =>
         /\ status[p] = Lifecycle!Summary(receipt[p])
         /\ \A a \in Actions : receipt[p][a] = "completed" => effects[p][a] > 0

\* An action that uses the ref of a creation takes effect only after it.
CreatorFirst ==
  \A p \in Plans, a \in Actions :
    effects[p][a] > 0 /\ RefOf[a] # 0 => effects[p][RefOf[a]] > 0

\* A request that was answered with a result was answered with the plan's one
\* receipt, although another executor may have finished before or after it.
AnswerIsReceipt ==
  \A r \in Requests : reply[r] = "executed" => receipt[plan[r]] = outcome[r]

\* The table keeps the promise of PlanLifecycle, step by step.
Implements == Lifecycle!LifecycleSpec

\* While the service stays up, a plan that was reserved gets its receipt.
ExecutionSettles ==
  \A p \in Plans :
    status[p] = "executing" ~> status[p] \in {"completed", "partial", "failed"} \/ crashes > 0

\* The design says of a re-execution under the same key that "o executor por
\* acao absorve o replay": an execution that comes to an action which has
\* already taken effect does not report it as failed.
ReplayAbsorbed ==
  [][\A r \in Requests :
       outcome[r][at[r]] = "todo" /\ outcome'[r][at[r]] = "failed" =>
         effects[plan[r]][at[r]] = 0]_vars

\* reserveForExecution writes 'expired' before it answers plan_expired: after
\* that answer the row is no longer pending.
ExpiryRecorded ==
  [][\A r \in Requests :
       reply[r] = "none" /\ reply'[r] = "plan_expired" => status'[plan[r]] = "expired"]_vars
=============================================================================
