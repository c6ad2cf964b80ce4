-------------------------- MODULE AgentPlansProofs --------------------------
(* What is proved of AgentPlans, for every value of its constants. *)
EXTENDS AgentPlans, TLAPS

USE ActionsAssumption, TimeAssumption, BoundsAssumption, NoneAssumption
USE DEF Actions, Outcomes

\* Where a request can be.
Controls == {"new", "expire", "reserve", "target", "command", "work", "finalize", "done"}
USE DEF Controls

-----------------------------------------------------------------------------
(* Type correctness. The bound on attempts is inductive only together with   *)
(* the fact that a plan nobody reserved has none, and the type of a receipt  *)
(* only with the fact that the loop over the actions leaves none out.        *)

\* A plan that was not reserved has no attempts and no key, and a prepare call
\* that did not commit has inserted none, so that no other has locked its row.
Unreserved ==
  \A p \in Plans :
    /\ status[p] \in {"absent", "pending"} => attempts[p] = 0 /\ key[p] = None
    /\ call[p] # "done" => status[p] = "absent"
    /\ \A q \in Plans : q \in rows[p] => call[q] = "done"

\* The loop over the actions records every action it leaves behind.
Loop ==
  \A r \in Requests :
    /\ pc[r] \in {"new", "expire", "reserve"} => at[r] = 1
    /\ pc[r] \in {"target", "command", "work"} => \A a \in Actions : a < at[r] => outcome[r][a] # "todo"
    /\ pc[r] = "finalize" => \A a \in Actions : outcome[r][a] # "todo"

\* From getById on, a request names one plan and one key.
Named ==
  \A r \in Requests : pc[r] \notin {"new", "done"} => plan[r] \in Plans /\ rkey[r] \in Keys

TypeInv == TypeOK /\ Unreserved /\ Loop /\ Named

\* The operators that several actions share keep the types of what they assign.
LEMMA AnswerType ==
  ASSUME TypeOK, NEW r \in Requests, NEW m \in Replies, Answer(r, m)
  PROVE  /\ pc' \in [Requests -> Controls]
         /\ reply' \in [Requests -> Replies]
BY DEF TypeOK, Answer

LEMMA RecordType ==
  ASSUME TypeOK, NEW r \in Requests, NEW o \in Outcomes, Record(r, o)
  PROVE  /\ pc' \in [Requests -> Controls]
         /\ at' \in [Requests -> Actions]
         /\ outcome' \in [Requests -> [Actions -> Outcomes \cup {"todo"}]]
<1>1. at[r] \in Actions
  BY DEF TypeOK
<1>2. at' \in [Requests -> Actions]
  BY <1>1 DEF TypeOK, Record
<1>3. outcome' \in [Requests -> [Actions -> Outcomes \cup {"todo"}]]
  BY <1>1 DEF TypeOK, Record
<1>4. pc' \in [Requests -> Controls]
  BY DEF TypeOK, Record
<1> QED BY <1>2, <1>3, <1>4

LEMMA TypeInit == Init => TypeInv
<1> SUFFICES ASSUME Init PROVE TypeInv
  OBVIOUS
<1>1. "absent" \in Statuses /\ "none" \in Replies
  BY DEF Statuses, Replies
<1>2. 0 \in 0..MaxClock /\ 0 \in 0..MaxCrashes /\ 0 \in 0..MaxAttempts /\ 1 \in Actions
  OBVIOUS
<1>3. TypeOK
  BY <1>1, <1>2 DEF Init, TypeOK, NotRun
<1>4. Unreserved
  BY DEF Init, Unreserved
<1>5. Loop
  BY DEF Init, Loop
<1>6. Named
  BY DEF Init, Named
<1> QED BY <1>3, <1>4, <1>5, <1>6 DEF TypeInv

\* What finalizing does to the rows: an executing plan takes a final status.
LEMMA FinalizeSettles ==
  ASSUME TypeOK, NEW r \in Requests, Finalize(r) \/ FinalizeLost(r)
  PROVE  \A p \in Plans : \/ status'[p] = status[p]
                          \/ /\ status[p] = "executing"
                             /\ status'[p] \in {"completed", "partial", "failed"}
<1>1. WriteReceipt(r) \/ UNCHANGED status
  BY DEF Finalize, FinalizeLost
<1>2. CASE WriteReceipt(r)
  <2>1. /\ status[plan[r]] = "executing"
        /\ status' = [status EXCEPT ![plan[r]] = FinalStatus(outcome[r])]
    BY <1>2 DEF WriteReceipt
  <2>2. FinalStatus(outcome[r]) \in {"completed", "partial", "failed"}
    BY DEF FinalStatus
  <2>3. DOMAIN status = Plans
    BY DEF TypeOK
  <2> QED BY <2>1, <2>2, <2>3
<1> QED BY <1>1, <1>2

LEMMA PrepareType ==
  ASSUME TypeOK, NEW t \in Plans, PrepareStep(t)
  PROVE  TypeOK'
<1>1. ASSUME NEW c \in Chats, NEW d \in Drafts, PrepareReplay(t, c, d) PROVE TypeOK'
  BY <1>1 DEF TypeOK, PrepareReplay, envVars, tableVars, domainVars, requestVars
<1>2. ASSUME NEW c \in Chats, NEW d \in Drafts, PrepareLock(t, c, d) PROVE TypeOK'
  BY <1>2 DEF TypeOK, PrepareLock, PendingIn, envVars, domainVars, requestVars
<1>3. CASE PrepareCommit(t)
  <2>1. status' \in [Plans -> Statuses]
    BY <1>3 DEF TypeOK, PrepareCommit, Statuses, Terminal
  <2>2. expiresAt' \in [Plans -> Nat]
    BY <1>3 DEF TypeOK, PrepareCommit
  <2> QED BY <1>3, <2>1, <2>2 DEF TypeOK, PrepareCommit, envVars, domainVars, requestVars
<1> QED BY <1>1, <1>2, <1>3 DEF PrepareStep

LEMMA ListType ==
  ASSUME TypeOK, NEW c \in Chats, ListPlans(c)
  PROVE  TypeOK'
<1>1. status' \in [Plans -> Statuses]
  BY DEF TypeOK, ListPlans, Statuses, Terminal
<1> QED BY <1>1 DEF TypeOK, ListPlans, envVars, callVars, domainVars, requestVars

LEMMA GetPlanType ==
  ASSUME TypeOK, NEW r \in Requests, NEW p \in Plans, NEW k \in Keys, GetPlan(r, p, k)
  PROVE  TypeOK'
<1>1. plan' \in [Requests -> Plans \cup {None}] /\ rkey' \in [Requests -> Keys \cup {None}]
  BY DEF TypeOK, GetPlan
<1>2. /\ pc' \in [Requests -> Controls]
      /\ reply' \in [Requests -> Replies]
  <2>1. CASE Answer(r, "plan_not_found")
    BY <2>1, AnswerType DEF Replies
  <2>2. CASE UNCHANGED reply /\ \E x \in {"expire", "reserve"} : pc' = [pc EXCEPT ![r] = x]
    <3>1. PICK x \in {"expire", "reserve"} : pc' = [pc EXCEPT ![r] = x]
      BY <2>2
    <3> QED BY <2>2, <3>1 DEF TypeOK
  <2> QED BY <2>1, <2>2 DEF GetPlan
<1> QED BY <1>1, <1>2 DEF TypeOK, GetPlan, envVars, tableVars, callVars, domainVars

LEMMA ReserveType ==
  ASSUME TypeInv, NEW r \in Requests, ReserveStep(r)
  PROVE  TypeOK'
<1> USE DEF TypeInv
<1>1. CASE ExpireOnRead(r)
  <2>1. /\ status' \in [Plans -> Statuses]
        /\ pc' \in [Requests -> Controls]
        /\ reply' \in [Requests -> Replies]
    <3>1. CASE Answer(r, "db_error") /\ UNCHANGED status
      BY <3>1, AnswerType DEF Replies, TypeOK
    <3>2. CASE /\ status' = [status EXCEPT ![plan[r]] = "expired"]
               /\ pc' = [pc EXCEPT ![r] = "reserve"]
               /\ UNCHANGED reply
      BY <3>2 DEF TypeOK, Statuses, Terminal
    <3> QED BY <1>1, <3>1, <3>2 DEF ExpireOnRead
  <2> QED BY <1>1, <2>1 DEF TypeOK, ExpireOnRead, envVars, callVars, domainVars
<1>2. CASE ReserveRefuse(r)
  <2>1. Refusals(plan[r], rkey[r]) \subseteq Replies
    BY DEF Refusals, Replies
  <2>2. PICK m \in Replies : Answer(r, m)
    BY <1>2, <2>1 DEF ReserveRefuse
  <2> QED BY <1>2, <2>2, AnswerType DEF TypeOK, ReserveRefuse, envVars, tableVars, callVars,
                                        domainVars
<1>3. CASE ReserveReplay(r)
  <2>1. "replay" \in Replies
    BY DEF Replies
  <2> QED BY <1>3, <2>1, AnswerType DEF TypeOK, ReserveReplay, envVars, tableVars, callVars,
                                        domainVars
<1>4. ASSUME StartExecution(r), plan[r] \in Plans => attempts[plan[r]] < MaxAttempts
      PROVE  /\ startedAt' \in [Plans -> Nat]
             /\ attempts' \in [Plans -> 0..MaxAttempts]
             /\ pc' \in [Requests -> Controls]
  <2>1. clock \in Nat
    BY DEF TypeOK
  <2>2. attempts' \in [Plans -> 0..MaxAttempts]
    <3>1. CASE plan[r] \in Plans
      <4>1. attempts[plan[r]] + 1 \in 0..MaxAttempts
        BY <1>4, <3>1, SMTT(20) DEF TypeOK
      <4>2. attempts' = [attempts EXCEPT ![plan[r]] = attempts[plan[r]] + 1]
        BY <1>4 DEF StartExecution
      <4> QED BY <4>1, <4>2 DEF TypeOK
    <3>2. CASE plan[r] \notin Plans
      BY <1>4, <3>2 DEF TypeOK, StartExecution
    <3> QED BY <3>1, <3>2
  <2> QED BY <1>4, <2>1, <2>2 DEF TypeOK, StartExecution
<1>5. CASE ReservePending(r)
  <2>1. plan[r] \in Plans => attempts[plan[r]] < MaxAttempts
    BY <1>5 DEF ReservePending, Unreserved
  <2>2. status' \in [Plans -> Statuses]
    BY <1>5 DEF TypeOK, ReservePending, Statuses, Terminal
  <2>3. key' \in [Plans -> Keys \cup {None}]
    BY <1>5 DEF TypeOK, ReservePending
  <2>4. StartExecution(r)
    BY <1>5 DEF ReservePending
  <2> QED BY <1>4, <2>1, <2>2, <2>3, <2>4 DEF TypeOK, StartExecution, envVars, callVars, domainVars
<1>6. CASE ReserveRecover(r)
  <2>1. StartExecution(r) /\ (plan[r] \in Plans => attempts[plan[r]] < MaxAttempts) /\ UNCHANGED <<status, key>>
    BY <1>6 DEF TypeOK, ReserveRecover, AttemptLeft
  <2> QED BY <1>4, <2>1 DEF TypeOK, StartExecution, envVars, callVars, domainVars
<1> QED BY <1>1, <1>2, <1>3, <1>5, <1>6 DEF ReserveStep

LEMMA ExecutorType ==
  ASSUME TypeInv, NEW r \in Requests, ExecutorStep(r)
  PROVE  TypeOK'
<1> USE DEF TypeInv
<1>1. CASE SkipDependent(r)
  BY <1>1, RecordType DEF TypeOK, SkipDependent, envVars, tableVars, callVars, domainVars
<1>2. CASE CheckTarget(r)
  <2>1. /\ pc' \in [Requests -> Controls]
        /\ at' \in [Requests -> Actions]
        /\ outcome' \in [Requests -> [Actions -> Outcomes \cup {"todo"}]]
    <3>1. CASE Record(r, "failed")
      BY <3>1, RecordType
    <3>2. CASE pc' = [pc EXCEPT ![r] = "command"] /\ UNCHANGED <<at, outcome>>
      BY <3>2 DEF TypeOK
    <3> QED BY <1>2, <3>1, <3>2 DEF CheckTarget
  <2> QED BY <1>2, <2>1 DEF TypeOK, CheckTarget, envVars, tableVars, callVars, domainVars
<1>3. CASE CommandHit(r)
  BY <1>3, RecordType DEF TypeOK, CommandHit, envVars, tableVars, callVars, domainVars
<1>11. CASE InsertRecord(r)
  BY <1>11 DEF TypeOK, InsertRecord, envVars, tableVars, callVars, domainVars
<1>12. CASE InsertTimesOut(r)
  BY <1>12, RecordType DEF TypeOK, InsertTimesOut, envVars, tableVars, callVars, domainVars
<1>4. ASSUME Commit(r), pc[r] = "work"
      PROVE  effects' \in [Plans -> [Actions -> Nat]] /\ records' \subseteq Plans \X Actions
  <2>1. plan[r] \in Plans /\ at[r] \in Actions
    BY <1>4 DEF TypeOK, Named
  <2>2. records' \subseteq Plans \X Actions
    <3>1. records' = records \cup {<<plan[r], at[r]>>} /\ records \subseteq Plans \X Actions
      BY <1>4 DEF TypeOK, Commit
    <3> QED BY <2>1, <3>1
  <2>3. effects' \in [Plans -> [Actions -> Nat]]
    <3>1. effects[plan[r]] \in [Actions -> Nat]
      BY <2>1 DEF TypeOK
    <3>2. effects[plan[r]][at[r]] + 1 \in Nat
      BY <2>1, <3>1
    <3>3. [effects[plan[r]] EXCEPT ![at[r]] = effects[plan[r]][at[r]] + 1] \in [Actions -> Nat]
      BY <3>1, <3>2
    <3> QED BY <1>4, <3>3 DEF TypeOK, Commit
  <2> QED BY <2>2, <2>3
<1>5. CASE CommandCommits(r)
  BY <1>4, <1>5, RecordType DEF TypeOK, CommandCommits, envVars, tableVars, callVars
<1>6. CASE CommandRefused(r)
  BY <1>6, RecordType DEF TypeOK, CommandRefused, envVars, tableVars, callVars, domainVars
<1>7. CASE CommandLost(r)
  <2>1. effects' \in [Plans -> [Actions -> Nat]] /\ records' \subseteq Plans \X Actions
    BY <1>4, <1>7 DEF CommandLost, TypeOK
  <2> QED BY <1>7, <2>1, RecordType DEF TypeOK, CommandLost, envVars, tableVars, callVars
<1>8. ASSUME WriteReceipt(r) \/ UNCHANGED <<status, receipt>>, pc[r] = "finalize"
      PROVE  /\ status' \in [Plans -> Statuses]
             /\ receipt' \in [Plans -> [Actions -> Outcomes] \cup {None}]
  <2>1. outcome[r] \in [Actions -> Outcomes]
    BY <1>8 DEF TypeOK, Loop
  <2>2. FinalStatus(outcome[r]) \in Statuses
    BY DEF FinalStatus, Statuses, Terminal
  <2>3. CASE WriteReceipt(r)
    <3>1. status' = [status EXCEPT ![plan[r]] = FinalStatus(outcome[r])]
      BY <2>3 DEF WriteReceipt
    <3>2. receipt' = [receipt EXCEPT ![plan[r]] = outcome[r]]
      BY <2>3 DEF WriteReceipt
    <3> QED BY <2>1, <2>2, <3>1, <3>2 DEF TypeOK
  <2>4. CASE UNCHANGED <<status, receipt>>
    BY <2>4 DEF TypeOK
  <2> QED BY <1>8, <2>3, <2>4
<1>9. CASE Finalize(r)
  <2>1. \E m \in Replies : Answer(r, m)
    BY <1>9 DEF Finalize, Replies
  <2> QED BY <1>8, <1>9, <2>1, AnswerType DEF TypeOK, Finalize, envVars, callVars, domainVars
<1>10. CASE FinalizeLost(r)
  <2>1. \E m \in Replies : Answer(r, m)
    BY <1>10 DEF FinalizeLost, Replies
  <2> QED BY <1>8, <1>10, <2>1, AnswerType DEF TypeOK, FinalizeLost, envVars, callVars, domainVars
<1> QED BY <1>1, <1>2, <1>3, <1>5, <1>6, <1>7, <1>9, <1>10, <1>11, <1>12 DEF ExecutorStep

LEMMA EnvironmentType ==
  ASSUME TypeOK, Tick \/ Crash \/ \E a \in Guarded : CloseTarget(a)
  PROVE  TypeOK'
<1>1. CASE Tick
  <2>1. clock' \in 0..MaxClock
    BY <1>1 DEF TypeOK, Tick
  <2> QED BY <1>1, <2>1 DEF TypeOK, Tick, tableVars, callVars, domainVars, requestVars
<1>2. CASE Crash
  <2>1. crashes' \in 0..MaxCrashes
    BY <1>2 DEF TypeOK, Crash
  <2>2. "crashed" \in Replies
    BY DEF Replies
  <2>3. /\ pc' \in [Requests -> Controls]
        /\ reply' \in [Requests -> Replies]
        /\ call' \in [Plans -> {"new", "holding", "done"}]
        /\ rows' \in [Plans -> SUBSET Plans]
    BY <1>2, <2>2 DEF TypeOK, Crash
  <2> QED BY <1>2, <2>1, <2>3 DEF TypeOK, Crash, tableVars, domainVars
<1>3. ASSUME NEW a \in Guarded, CloseTarget(a) PROVE TypeOK'
  BY <1>3 DEF TypeOK, CloseTarget, envVars, tableVars, callVars, requestVars
<1> QED BY <1>1, <1>2, <1>3

\* The two facts that make TypeOK inductive.
LEMMA UnreservedStep ==
  ASSUME TypeInv, Next
  PROVE  Unreserved'
<1> USE DEF TypeInv
<1>1. ASSUME NEW t \in Plans, PrepareStep(t) PROVE Unreserved'
  <2>1. CASE \E c \in Chats, d \in Drafts : PrepareReplay(t, c, d) \/ PrepareLock(t, c, d)
    <3>1. /\ UNCHANGED <<status, attempts, key>>
          /\ call[t] = "new"
          /\ \A p \in Plans : p # t => call'[p] = call[p] /\ rows'[p] = rows[p]
          /\ \A q \in Plans : q \in rows'[t] => q \in rows[t] \/ status[q] = "pending"
      BY <2>1, SMTT(20) DEF PrepareReplay, PrepareLock, PendingIn, tableVars, TypeOK
    <3>2. \A p \in Plans : call'[p] # "done" => call[p] # "done"
      BY <3>1 DEF Unreserved
    <3>3. ASSUME NEW p \in Plans, NEW q \in Plans, q \in rows'[p] PROVE call'[q] = "done"
      <4>1. call[q] = "done"
        BY <3>1, <3>3 DEF Unreserved
      <4> QED BY <3>1, <4>1
    <3> QED BY <3>1, <3>2, <3>3 DEF Unreserved
  <2>2. CASE PrepareCommit(t)
    <3>1. /\ UNCHANGED <<attempts, key>>
          /\ call' = [call EXCEPT ![t] = "done"]
          /\ status' = [p \in Plans |-> IF p = t THEN "pending"
                                        ELSE IF p \in rows[t] THEN "invalidated" ELSE status[p]]
          /\ rows' = [rows EXCEPT ![t] = {}]
      BY <2>2 DEF PrepareCommit
    <3>2. attempts[t] = 0 /\ key[t] = None
      BY <2>2 DEF Unreserved, PrepareCommit
    <3>3. /\ \A p \in Plans : status'[p] \in {"absent", "pending"} =>
                               p = t \/ status[p] \in {"absent", "pending"}
          /\ \A p \in Plans : p # t => call'[p] = call[p]
          /\ call'[t] = "done"
          /\ \A p \in Plans : rows'[p] \subseteq rows[p]
      BY <3>1 DEF TypeOK
    <3>4. ASSUME NEW p \in Plans, call'[p] # "done" PROVE status'[p] = "absent"
      <4>1. p # t /\ status[p] = "absent"
        BY <3>3, <3>4 DEF Unreserved
      <4>2. p \notin rows[t]
        BY <3>3, <3>4, <4>1 DEF Unreserved
      <4> QED BY <3>1, <4>1, <4>2
    <3>5. ASSUME NEW p \in Plans, NEW q \in Plans, q \in rows'[p] PROVE call'[q] = "done"
      BY <3>3, <3>5 DEF Unreserved
    <3> QED BY <3>1, <3>2, <3>3, <3>4, <3>5 DEF Unreserved
  <2> QED BY <1>1, <2>1, <2>2 DEF PrepareStep
<1>2. ASSUME NEW c \in Chats, ListPlans(c) PROVE Unreserved'
  BY <1>2 DEF Unreserved, ListPlans, TypeOK, Expired, callVars
<1>3. ASSUME NEW r \in Requests, NEW p \in Plans, NEW k \in Keys, GetPlan(r, p, k) PROVE Unreserved'
  BY <1>3 DEF Unreserved, GetPlan, tableVars, callVars
<1>4. ASSUME NEW r \in Requests, ReserveStep(r) PROVE Unreserved'
  <2>1. CASE ExpireOnRead(r)
    <3>1. UNCHANGED <<key, attempts, callVars>>
      BY <2>1 DEF ExpireOnRead
    <3>2. \A p \in Plans : \/ status'[p] = status[p]
                           \/ status[p] = "pending" /\ status'[p] = "expired"
      BY <2>1 DEF ExpireOnRead, TypeOK
    <3> QED BY <3>1, <3>2 DEF Unreserved, callVars
  <2>2. CASE ReserveRefuse(r) \/ ReserveReplay(r)
    BY <2>2 DEF Unreserved, ReserveRefuse, ReserveReplay, tableVars, callVars
  <2>3. CASE ReservePending(r)
    BY <2>3 DEF Unreserved, ReservePending, StartExecution, TypeOK, callVars
  <2>4. CASE ReserveRecover(r)
    BY <2>4 DEF Unreserved, ReserveRecover, StartExecution, TypeOK, callVars
  <2> QED BY <1>4, <2>1, <2>2, <2>3, <2>4 DEF ReserveStep
<1>5. ASSUME NEW r \in Requests, ExecutorStep(r) PROVE Unreserved'
  <2>1. CASE SkipDependent(r) \/ CheckTarget(r) \/ CommandHit(r) \/ InsertRecord(r)
             \/ InsertTimesOut(r) \/ CommandCommits(r) \/ CommandRefused(r) \/ CommandLost(r)
    <3>1. UNCHANGED <<tableVars, callVars>>
      BY <2>1 DEF SkipDependent, CheckTarget, CommandHit, InsertRecord, InsertTimesOut,
                  CommandCommits, CommandRefused, CommandLost
    <3> QED BY <3>1 DEF Unreserved, tableVars, callVars
  <2>2. CASE Finalize(r) \/ FinalizeLost(r)
    <3>1. UNCHANGED <<key, attempts, callVars>>
      BY <2>2 DEF Finalize, FinalizeLost
    <3>2. \A p \in Plans : status'[p] = status[p] \/
            (status[p] = "executing" /\ status'[p] \in {"completed", "partial", "failed"})
      BY <2>2, FinalizeSettles
    <3> QED BY <3>1, <3>2 DEF Unreserved, callVars
  <2> QED BY <1>5, <2>1, <2>2 DEF ExecutorStep
<1>6. CASE Tick \/ Crash \/ \E a \in Guarded : CloseTarget(a)
  <2>1. /\ UNCHANGED tableVars
        /\ \A p \in Plans : /\ call'[p] = call[p] \/ call'[p] = "done"
                            /\ rows'[p] = rows[p] \/ rows'[p] = {}
    BY <1>6 DEF Tick, Crash, CloseTarget, callVars
  <2>2. ASSUME NEW p \in Plans, NEW q \in Plans, q \in rows'[p] PROVE call'[q] = "done"
    <3>1. q \in rows[p]
      BY <2>1, <2>2
    <3> QED BY <2>1, <3>1 DEF Unreserved
  <2> QED BY <2>1, <2>2 DEF Unreserved, tableVars
<1> QED BY <1>1, <1>2, <1>3, <1>4, <1>5, <1>6 DEF Next

LEMMA LoopStep ==
  ASSUME TypeInv, Next
  PROVE  Loop'
<1> USE DEF TypeInv
<1>1. CASE UNCHANGED <<pc, at, outcome>>
  BY <1>1 DEF Loop
<1>2. CASE UNCHANGED <<at, outcome>> /\ \A r \in Requests :
             \/ pc'[r] = pc[r] \/ pc'[r] = "done"
             \/ pc'[r] \in {"expire", "reserve"} /\ pc[r] \in {"new", "expire"}
             \/ pc'[r] = "target" /\ pc[r] = "reserve"
             \/ pc'[r] = "command" /\ pc[r] = "target"
             \/ pc'[r] = "work" /\ pc[r] = "command"
  <2> SUFFICES ASSUME NEW r \in Requests
               PROVE  /\ pc'[r] \in {"new", "expire", "reserve"} => at'[r] = 1
                      /\ pc'[r] \in {"target", "command", "work"} =>
                           \A a \in Actions : a < at'[r] => outcome'[r][a] # "todo"
                      /\ pc'[r] = "finalize" => \A a \in Actions : outcome'[r][a] # "todo"
    BY DEF Loop
  <2>1. at'[r] = at[r] /\ outcome'[r] = outcome[r]
    BY <1>2
  <2>2. CASE pc'[r] = pc[r]
    BY <2>1, <2>2 DEF Loop
  <2>3. CASE pc'[r] = "target" /\ pc[r] = "reserve"
    <3>1. at[r] = 1
      BY <2>3 DEF Loop
    <3> QED BY <2>1, <2>3, <3>1
  <2>4. CASE pc'[r] = "done" \/ (pc'[r] \in {"expire", "reserve"} /\ pc[r] \in {"new", "expire"})
             \/ (pc'[r] = "command" /\ pc[r] = "target")
             \/ (pc'[r] = "work" /\ pc[r] = "command")
    BY <2>1, <2>4 DEF Loop
  <2> QED BY <1>2, <2>2, <2>3, <2>4
<1>3. ASSUME NEW r \in Requests, NEW o \in Outcomes, Record(r, o),
             pc[r] \in {"target", "command", "work"}
      PROVE  Loop'
  <2>1. at[r] \in Actions
    BY DEF TypeOK
  <2>2. o # "todo"
    OBVIOUS
  <2>3. outcome'[r] = [outcome[r] EXCEPT ![at[r]] = o]
    BY <1>3 DEF Record, TypeOK
  <2>4. \A a \in Actions : a < at[r] \/ a = at[r] => outcome'[r][a] # "todo"
    BY <1>3, <2>1, <2>2, <2>3 DEF Loop, TypeOK
  <2>5. CASE at[r] = NumActions
    <3>1. pc' = [pc EXCEPT ![r] = "finalize"]
      BY <1>3, <2>5 DEF Record
    <3>2. \A a \in Actions : outcome'[r][a] # "todo"
      BY <2>4, <2>5
    <3> QED BY <1>3, <2>5, <3>1, <3>2 DEF Loop, TypeOK, Record
  <2>6. CASE at[r] # NumActions
    <3>1. pc' = [pc EXCEPT ![r] = "target"] /\ at' = [at EXCEPT ![r] = at[r] + 1]
      BY <1>3, <2>6 DEF Record
    <3>2. \A a \in Actions : a < at'[r] => outcome'[r][a] # "todo"
      BY <2>1, <2>4, <3>1 DEF TypeOK
    <3> QED BY <1>3, <3>1, <3>2 DEF Loop, TypeOK, Record
  <2> QED BY <2>5, <2>6
<1>4. ASSUME NEW r \in Requests, ExecutorStep(r) PROVE Loop'
  <2>1. CASE \E o \in Outcomes : Record(r, o) /\ pc[r] \in {"target", "command", "work"}
    BY <1>3, <2>1
  <2>2. CASE /\ \/ pc[r] = "target" /\ pc' = [pc EXCEPT ![r] = "command"]
                \/ pc[r] = "command" /\ pc' = [pc EXCEPT ![r] = "work"]
             /\ UNCHANGED <<at, outcome>>
    BY <1>2, <2>2 DEF TypeOK
  <2>3. CASE pc' = [pc EXCEPT ![r] = "done"] /\ UNCHANGED <<at, outcome>>
    BY <1>2, <2>3 DEF TypeOK
  <2> QED BY <1>4, <2>1, <2>2, <2>3
      DEF ExecutorStep, SkipDependent, CheckTarget, CommandHit, InsertRecord, InsertTimesOut,
          CommandCommits, CommandRefused, CommandLost, Finalize, FinalizeLost, Answer
<1>5. ASSUME NEW r \in Requests, ReserveStep(r) PROVE Loop'
  BY <1>2, <1>5 DEF ReserveStep, ExpireOnRead, ReserveRefuse, ReserveReplay, ReservePending,
                    ReserveRecover, AtReservation, StartExecution, Answer, TypeOK
<1>6. ASSUME NEW r \in Requests, NEW p \in Plans, NEW k \in Keys, GetPlan(r, p, k) PROVE Loop'
  BY <1>2, <1>6 DEF GetPlan, Answer, TypeOK
<1>7. CASE Crash
  BY <1>2, <1>7 DEF Crash, TypeOK
<1>8. CASE Tick \/ (\E a \in Guarded : CloseTarget(a)) \/ (\E c \in Chats : ListPlans(c))
  BY <1>1, <1>8 DEF Tick, CloseTarget, ListPlans, requestVars
<1>9. ASSUME NEW t \in Plans, PrepareStep(t) PROVE Loop'
  BY <1>1, <1>9 DEF PrepareStep, PrepareReplay, PrepareLock, PrepareCommit, requestVars
<1> QED BY <1>4, <1>5, <1>6, <1>7, <1>8, <1>9 DEF Next

LEMMA NamedStep ==
  ASSUME TypeInv, Next
  PROVE  Named'
<1> USE DEF TypeInv
<1>1. CASE /\ UNCHANGED <<plan, rkey>>
           /\ \A r \in Requests : pc[r] = "new" => pc'[r] \in {"new", "done"}
           /\ \A r \in Requests : pc[r] = "done" => pc'[r] = "done"
  BY <1>1 DEF Named
<1>2. ASSUME NEW r \in Requests, NEW p \in Plans, NEW k \in Keys, GetPlan(r, p, k) PROVE Named'
  <2>1. /\ plan' = [plan EXCEPT ![r] = p]
        /\ rkey' = [rkey EXCEPT ![r] = k]
        /\ \A s \in Requests : s # r => pc'[s] = pc[s]
    BY <1>2 DEF GetPlan, Answer, TypeOK
  <2> QED BY <2>1 DEF Named, TypeOK
<1>3. ASSUME NEW r \in Requests, ReserveStep(r) PROVE Named'
  <2>1. UNCHANGED <<plan, rkey>> /\ pc[r] \in {"expire", "reserve"}
    BY <1>3 DEF ReserveStep, ExpireOnRead, ReserveRefuse, ReserveReplay, ReservePending,
                ReserveRecover, AtReservation, StartExecution
  <2>2. \E x : pc' = [pc EXCEPT ![r] = x]
    BY <1>3 DEF ReserveStep, ExpireOnRead, ReserveRefuse, ReserveReplay, ReservePending,
                ReserveRecover, StartExecution, Answer
  <2> QED BY <1>1, <2>1, <2>2 DEF TypeOK
<1>4. ASSUME NEW r \in Requests, ExecutorStep(r) PROVE Named'
  <2>1. UNCHANGED <<plan, rkey>> /\ pc[r] \in {"target", "command", "work", "finalize"}
    BY <1>4 DEF ExecutorStep, SkipDependent, CheckTarget, CommandHit, InsertRecord, InsertTimesOut,
                CommandCommits, CommandRefused, CommandLost, Finalize, FinalizeLost
  <2>2. \E x : pc' = [pc EXCEPT ![r] = x]
    BY <1>4 DEF ExecutorStep, SkipDependent, CheckTarget, CommandHit, InsertRecord, InsertTimesOut,
                CommandCommits, CommandRefused, CommandLost, Finalize, FinalizeLost, Record, Answer
  <2> QED BY <1>1, <2>1, <2>2 DEF TypeOK
<1>5. CASE Crash
  <2>1. UNCHANGED <<plan, rkey>> /\ \A r \in Requests : pc'[r] \in {"new", "done"}
    BY <1>5 DEF Crash
  <2> QED BY <2>1 DEF Named
<1>6. CASE Tick \/ (\E a \in Guarded : CloseTarget(a)) \/ (\E c \in Chats : ListPlans(c))
             \/ \E t \in Plans : PrepareStep(t)
  <2>1. UNCHANGED requestVars
    BY <1>6 DEF Tick, CloseTarget, ListPlans, PrepareStep, PrepareReplay, PrepareLock, PrepareCommit
  <2> QED BY <1>1, <2>1 DEF requestVars
<1> QED BY <1>2, <1>3, <1>4, <1>5, <1>6 DEF Next

LEMMA TypeStep == TypeInv /\ [Next]_vars => TypeInv'
<1> SUFFICES ASSUME TypeInv, [Next]_vars PROVE TypeInv'
  OBVIOUS
<1>1. CASE Next
  <2>1. TypeOK'
    BY <1>1, PrepareType, ListType, GetPlanType, ReserveType, ExecutorType, EnvironmentType
       DEF Next, TypeInv
  <2> QED BY <1>1, <2>1, UnreservedStep, LoopStep, NamedStep DEF TypeInv
<1>2. CASE UNCHANGED vars
  <2> USE <1>2 DEF vars, envVars, tableVars, callVars, domainVars, requestVars
  <2>1. TypeOK'
    BY DEF TypeInv, TypeOK
  <2>2. Unreserved' /\ Loop' /\ Named'
    BY DEF TypeInv, Unreserved, Loop, Named
  <2> QED BY <2>1, <2>2 DEF TypeInv
<1> QED BY <1>1, <1>2

LEMMA TypeInvariant == Spec => []TypeInv
BY TypeInit, TypeStep, PTL DEF Spec

\* Every reachable state is well typed: in particular the database CHECK on
\* execution_attempts is never what stops a first reservation, and a receipt
\* never leaves an action without an outcome.
THEOREM TypeCorrect == Spec => []TypeOK
<1>1. TypeInv => TypeOK
  BY DEF TypeInv
<1> QED BY <1>1, TypeInvariant, PTL

-----------------------------------------------------------------------------
(* One executable plan per chat. The invariant alone is not inductive: the   *)
(* commit of a prepare call keeps it because the advisory lock left no other *)
(* holder for the chat, and because the rows it locked are still exactly the *)
(* pending plans of the chat.                                                *)

Holders ==
  \A t \in Plans : call[t] = "holding" =>
    /\ \A q \in Plans : q \in rows[t] <=> status[q] = "pending" /\ chat[q] = chat[t]
    /\ \A u \in Plans : call[u] = "holding" /\ chat[u] = chat[t] => u = t

PrepareInv == TypeInv /\ OnePendingPerChat /\ Holders

\* Whatever ends pending plans that nobody has locked, and starts none, is harmless.
LEMMA EndingPlansKeepsHolders ==
  ASSUME PrepareInv,
         UNCHANGED chat,
         \A p \in Plans : call'[p] = "holding" => call[p] = "holding" /\ rows'[p] = rows[p],
         \A p \in Plans : status'[p] = "pending" => status[p] = "pending",
         \A p \in Plans : status[p] = "pending" /\ status'[p] # "pending" => ~RowLocked(p)
  PROVE  OnePendingPerChat' /\ Holders'
<1>1. OnePendingPerChat'
  BY DEF PrepareInv, OnePendingPerChat
<1>2. ASSUME NEW t \in Plans, call'[t] = "holding"
      PROVE  /\ \A q \in Plans : q \in rows'[t] <=> status'[q] = "pending" /\ chat'[q] = chat'[t]
             /\ \A u \in Plans : call'[u] = "holding" /\ chat'[u] = chat'[t] => u = t
  BY <1>2 DEF PrepareInv, Holders, RowLocked
<1>3. Holders'
  BY <1>2 DEF Holders
<1> QED BY <1>1, <1>3

LEMMA PrepareKeepsHolders ==
  ASSUME PrepareInv, NEW t \in Plans, PrepareStep(t)
  PROVE  OnePendingPerChat' /\ Holders'
<1>1. ASSUME NEW c \in Chats, NEW d \in Drafts, PrepareReplay(t, c, d)
      PROVE  OnePendingPerChat' /\ Holders'
  <2>1. UNCHANGED <<chat, status, rows>> /\ call' = [call EXCEPT ![t] = "done"]
    BY <1>1 DEF PrepareReplay, tableVars
  <2> QED BY <2>1, EndingPlansKeepsHolders DEF PrepareInv, TypeInv, TypeOK
<1>2. ASSUME NEW c \in Chats, NEW d \in Drafts, PrepareLock(t, c, d)
      PROVE  OnePendingPerChat' /\ Holders'
  <2>1. /\ UNCHANGED status
        /\ call' = [call EXCEPT ![t] = "holding"]
        /\ chat' = [chat EXCEPT ![t] = c]
        /\ rows' = [rows EXCEPT ![t] = PendingIn(c)]
        /\ \A u \in Plans : call[u] = "holding" => chat[u] # c
    BY <1>2 DEF PrepareLock, AdvisoryFree
  <2>2. call[t] = "new" /\ status[t] = "absent"
    BY <1>2 DEF PrepareLock, PrepareInv, TypeInv, Unreserved
  <2>3. chat \in [Plans -> Chats \cup {None}] /\ call \in [Plans -> {"new", "holding", "done"}]
        /\ rows \in [Plans -> SUBSET Plans]
    BY DEF PrepareInv, TypeInv, TypeOK
  <2>4. OnePendingPerChat'
    BY <2>1, <2>2, <2>3 DEF PrepareInv, OnePendingPerChat
  <2>5. ASSUME NEW u \in Plans, call'[u] = "holding"
        PROVE  /\ \A q \in Plans : q \in rows'[u] <=> status'[q] = "pending" /\ chat'[q] = chat'[u]
               /\ \A v \in Plans : call'[v] = "holding" /\ chat'[v] = chat'[u] => v = u
    <3>1. CASE u = t
      <4>1. rows'[u] = PendingIn(c) /\ chat'[u] = c
        BY <2>1, <2>3, <3>1
      <4> QED BY <2>1, <2>2, <2>3, <3>1, <4>1 DEF PendingIn
    <3>2. CASE u # t
      <4>1. call[u] = "holding" /\ rows'[u] = rows[u] /\ chat'[u] = chat[u] /\ chat[u] # c
        BY <2>1, <2>3, <2>5, <3>2
      <4> QED BY <2>1, <2>2, <2>3, <3>2, <4>1 DEF PrepareInv, Holders
    <3> QED BY <3>1, <3>2
  <2>6. Holders'
    BY <2>5 DEF Holders
  <2> QED BY <2>4, <2>6
<1>3. CASE PrepareCommit(t)
  <2>1. /\ call[t] = "holding"
        /\ call' = [call EXCEPT ![t] = "done"]
        /\ status' = [p \in Plans |-> IF p = t THEN "pending"
                                      ELSE IF p \in rows[t] THEN "invalidated" ELSE status[p]]
        /\ rows' = [rows EXCEPT ![t] = {}]
        /\ chat' = chat
    BY <1>3 DEF PrepareCommit
  <2>2. call \in [Plans -> {"new", "holding", "done"}] /\ rows \in [Plans -> SUBSET Plans]
    BY DEF PrepareInv, TypeInv, TypeOK
  <2>3. \A q \in Plans : q # t /\ status'[q] = "pending" => status[q] = "pending" /\ chat[q] # chat[t]
    BY <2>1 DEF PrepareInv, Holders
  <2>4. OnePendingPerChat'
    BY <2>1, <2>3 DEF PrepareInv, OnePendingPerChat
  <2>5. ASSUME NEW u \in Plans, call'[u] = "holding"
        PROVE  /\ \A q \in Plans : q \in rows'[u] <=> status'[q] = "pending" /\ chat'[q] = chat'[u]
               /\ \A v \in Plans : call'[v] = "holding" /\ chat'[v] = chat'[u] => v = u
    <3>1. u # t /\ call[u] = "holding" /\ rows'[u] = rows[u] /\ chat[u] # chat[t]
      BY <2>1, <2>2, <2>5 DEF PrepareInv, Holders
    <3>2. \A q \in Plans : chat[q] = chat[u] => status'[q] = status[q]
      BY <2>1, <3>1 DEF PrepareInv, Holders
    <3>3. \A q \in Plans : q \in rows[u] <=> status[q] = "pending" /\ chat[q] = chat[u]
      BY <3>1 DEF PrepareInv, Holders
    <3>4. \A q \in Plans : q \in rows'[u] <=> status'[q] = "pending" /\ chat'[q] = chat'[u]
      BY <2>1, <3>1, <3>2, <3>3
    <3>5. \A v \in Plans : call'[v] = "holding" /\ chat'[v] = chat'[u] => v = u
      BY <2>1, <2>2, <3>1 DEF PrepareInv, Holders
    <3> QED BY <3>4, <3>5
  <2>6. Holders'
    BY <2>5 DEF Holders
  <2> QED BY <2>4, <2>6
<1> QED BY <1>1, <1>2, <1>3 DEF PrepareStep

LEMMA PrepareInvStep == PrepareInv /\ [Next]_vars => PrepareInv'
<1> SUFFICES ASSUME PrepareInv, [Next]_vars PROVE PrepareInv'
  OBVIOUS
<1>1. TypeInv'
  BY TypeStep DEF PrepareInv
<1>2. OnePendingPerChat' /\ Holders'
  <2> USE DEF PrepareInv, TypeInv
  <2>1. CASE \E t \in Plans : PrepareStep(t)
    BY <2>1, PrepareKeepsHolders
  <2>2. ASSUME NEW c \in Chats, ListPlans(c) PROVE OnePendingPerChat' /\ Holders'
    <3>1. /\ UNCHANGED <<chat, callVars>>
          /\ \A p \in Plans : \/ status'[p] = status[p]
                              \/ status'[p] = "expired" /\ ~RowLocked(p)
      BY <2>2 DEF ListPlans, TypeOK
    <3> QED BY <3>1, EndingPlansKeepsHolders DEF callVars
  <2>3. ASSUME NEW r \in Requests, NEW p \in Plans, NEW k \in Keys, GetPlan(r, p, k)
        PROVE  OnePendingPerChat' /\ Holders'
    <3>1. UNCHANGED <<chat, status, callVars>>
      BY <2>3 DEF GetPlan, tableVars
    <3> QED BY <3>1, EndingPlansKeepsHolders DEF callVars
  <2>4. ASSUME NEW r \in Requests, ReserveStep(r) PROVE OnePendingPerChat' /\ Holders'
    <3>1. UNCHANGED <<chat, callVars>>
      BY <2>4 DEF ReserveStep, ExpireOnRead, ReserveRefuse, ReserveReplay, ReservePending,
                  ReserveRecover, StartExecution, tableVars
    <3>2. \A p \in Plans : \/ status'[p] = status[p]
                           \/ status'[p] \in {"expired", "executing"} /\ ~RowLocked(p)
      BY <2>4 DEF ReserveStep, ExpireOnRead, ReserveRefuse, ReserveReplay, ReservePending,
                  ReserveRecover, AtReservation, tableVars, TypeOK
    <3> QED BY <3>1, <3>2, EndingPlansKeepsHolders DEF callVars
  <2>5. ASSUME NEW r \in Requests, ExecutorStep(r) PROVE OnePendingPerChat' /\ Holders'
    <3>1. UNCHANGED <<chat, callVars>>
      BY <2>5 DEF ExecutorStep, SkipDependent, CheckTarget, CommandHit, InsertRecord,
                  InsertTimesOut, CommandCommits, CommandRefused, CommandLost, Finalize,
                  FinalizeLost, tableVars
    <3>2. \A p \in Plans : \/ status'[p] = status[p]
                           \/ status[p] = "executing" /\ status'[p] # "pending"
      <4>1. CASE Finalize(r) \/ FinalizeLost(r)
        BY <4>1, FinalizeSettles
      <4>2. CASE ~(Finalize(r) \/ FinalizeLost(r))
        BY <2>5, <4>2 DEF ExecutorStep, SkipDependent, CheckTarget, CommandHit, InsertRecord,
                          InsertTimesOut, CommandCommits, CommandRefused, CommandLost, tableVars
      <4> QED BY <4>1, <4>2
    <3> QED BY <3>1, <3>2, EndingPlansKeepsHolders DEF callVars
  <2>6. CASE Tick \/ \E a \in Guarded : CloseTarget(a)
    <3>1. UNCHANGED <<chat, status, callVars>>
      BY <2>6 DEF Tick, CloseTarget, tableVars
    <3> QED BY <3>1, EndingPlansKeepsHolders DEF callVars
  <2>7. CASE Crash
    <3>1. UNCHANGED <<chat, status>> /\ \A p \in Plans : call'[p] # "holding"
      BY <2>7 DEF Crash, tableVars
    <3> QED BY <3>1, EndingPlansKeepsHolders
  <2>8. CASE UNCHANGED vars
    BY <2>8 DEF OnePendingPerChat, Holders, vars, tableVars, callVars
  <2> QED BY <2>1, <2>2, <2>3, <2>4, <2>5, <2>6, <2>7, <2>8 DEF Next
<1> QED BY <1>1, <1>2 DEF PrepareInv

LEMMA PrepareInvariant == Spec => []PrepareInv
<1>1. Init => PrepareInv
  <2>1. Init => OnePendingPerChat /\ Holders
    BY DEF Init, OnePendingPerChat, Holders
  <2> QED BY <2>1, TypeInit DEF PrepareInv
<1> QED BY <1>1, PrepareInvStep, PTL DEF Spec

\* For any number of chats, prepare calls, listings, executions and restarts, a
\* chat never shows two executable plans.
THEOREM OnePending == Spec => []OnePendingPerChat
<1>1. PrepareInv => OnePendingPerChat
  BY DEF PrepareInv
<1> QED BY <1>1, PrepareInvariant, PTL

-----------------------------------------------------------------------------
(* Execution. That an action takes effect at most once rests on its          *)
(* idempotency record: the count of effects is one exactly where the record  *)
(* was committed, and an open transaction that has inserted a record is the  *)
(* only one, and nobody has committed it before.                             *)

Recorded ==
  \A p \in Plans, a \in Actions : effects[p][a] = IF <<p, a>> \in records THEN 1 ELSE 0

OneWorks ==
  \A r \in Requests : pc[r] = "work" =>
    /\ <<plan[r], at[r]>> \notin records
    /\ \A s \in Requests : pc[s] = "work" /\ plan[s] = plan[r] /\ at[s] = at[r] => s = r

ExecInv == PrepareInv /\ ExecutorHoldsPlan /\ Recorded /\ OneWorks

\* An executor keeps its plan through whatever moves unreserved plans only,
\* settles reserved ones, and leaves the keys alone.
LEMMA KeepsHold ==
  ASSUME TypeOK, Named, ExecutorHoldsPlan,
         UNCHANGED <<plan, rkey>>,
         \A r \in Requests : Executing(r)' => Executing(r),
         \A p \in Plans : status[p] \notin {"absent", "pending"} =>
           /\ key'[p] = key[p]
           /\ \/ status'[p] = status[p]
              \/ status'[p] \in {"executing", "completed", "partial", "failed"}
  PROVE  ExecutorHoldsPlan'
<1> SUFFICES ASSUME NEW r \in Requests, Executing(r)'
             PROVE  /\ status'[plan'[r]] \in {"executing", "completed", "partial", "failed"}
                    /\ key'[plan'[r]] = rkey'[r]
  BY DEF ExecutorHoldsPlan
<1>1. Executing(r) /\ plan'[r] = plan[r] /\ rkey'[r] = rkey[r]
  OBVIOUS
<1>2. plan[r] \in Plans
  BY <1>1 DEF Named, Executing
<1>3. status[plan[r]] \in {"executing", "completed", "partial", "failed"} /\ key[plan[r]] = rkey[r]
  BY <1>1 DEF ExecutorHoldsPlan
<1> QED BY <1>1, <1>2, <1>3

LEMMA HoldStep ==
  ASSUME PrepareInv, ExecutorHoldsPlan, Next
  PROVE  ExecutorHoldsPlan'
<1> USE DEF PrepareInv, TypeInv
<1>1. ASSUME NEW t \in Plans, PrepareStep(t) PROVE ExecutorHoldsPlan'
  <2>1. UNCHANGED <<requestVars, key>>
    BY <1>1 DEF PrepareStep, PrepareReplay, PrepareLock, PrepareCommit, tableVars
  <2>2. \A p \in Plans : status[p] \notin {"absent", "pending"} => status'[p] = status[p]
    <3>1. CASE PrepareCommit(t)
      <4>1. status[t] = "absent" /\ \A q \in Plans : q \in rows[t] => status[q] = "pending"
        BY <3>1 DEF PrepareCommit, Unreserved, Holders
      <4> QED BY <3>1, <4>1 DEF PrepareCommit
    <3>2. CASE ~PrepareCommit(t)
      BY <1>1, <3>2 DEF PrepareStep, PrepareReplay, PrepareLock, tableVars
    <3> QED BY <3>1, <3>2
  <2> QED BY <2>1, <2>2, KeepsHold DEF requestVars, Executing
<1>2. ASSUME NEW c \in Chats, ListPlans(c) PROVE ExecutorHoldsPlan'
  <2>1. /\ UNCHANGED <<requestVars, key>>
        /\ \A p \in Plans : status[p] \notin {"absent", "pending"} => status'[p] = status[p]
    BY <1>2 DEF ListPlans, Expired
  <2> QED BY <2>1, KeepsHold DEF requestVars, Executing
<1>3. ASSUME NEW r \in Requests, NEW p \in Plans, NEW k \in Keys, GetPlan(r, p, k)
      PROVE  ExecutorHoldsPlan'
  <2>1. /\ UNCHANGED <<status, key>>
        /\ pc'[r] \notin {"target", "command", "work", "finalize"}
        /\ \A s \in Requests : s # r => pc'[s] = pc[s] /\ plan'[s] = plan[s] /\ rkey'[s] = rkey[s]
    BY <1>3, SMTT(20) DEF GetPlan, Answer, tableVars, TypeOK
  <2> QED BY <2>1 DEF ExecutorHoldsPlan, Executing
<1>4. ASSUME NEW r \in Requests, ReserveStep(r) PROVE ExecutorHoldsPlan'
  <2>1. CASE ExpireOnRead(r) \/ ReserveRefuse(r) \/ ReserveReplay(r)
    <3>1. /\ UNCHANGED <<plan, rkey, key>>
          /\ \A p \in Plans : status[p] \notin {"absent", "pending"} => status'[p] = status[p]
      BY <2>1, SMTT(20) DEF ExpireOnRead, ReserveRefuse, ReserveReplay, tableVars, TypeOK
    <3>2. \E x \in {"reserve", "done"} : pc' = [pc EXCEPT ![r] = x]
      BY <2>1 DEF ExpireOnRead, ReserveRefuse, ReserveReplay, Answer
    <3>3. \A s \in Requests : Executing(s)' => Executing(s)
      BY <3>2 DEF Executing, TypeOK
    <3> QED BY <3>1, <3>3, KeepsHold
  <2>2. CASE ReservePending(r) \/ ReserveRecover(r)
    <3>1. plan[r] \in Plans /\ rkey[r] \in Keys
      BY <2>2 DEF ReservePending, ReserveRecover, AtReservation, Named
    <3>2. /\ UNCHANGED <<plan, rkey>>
          /\ pc' = [pc EXCEPT ![r] = "target"]
      BY <2>2 DEF ReservePending, ReserveRecover, StartExecution
    <3>3. /\ status'[plan[r]] = "executing" /\ key'[plan[r]] = rkey[r]
          /\ \A p \in Plans : p # plan[r] => status'[p] = status[p] /\ key'[p] = key[p]
          /\ \/ status[plan[r]] = "pending"
             \/ status[plan[r]] = "executing" /\ key[plan[r]] = rkey[r]
      <4>1. CASE ReservePending(r)
        BY <4>1, <3>1 DEF ReservePending, TypeOK
      <4>2. CASE ReserveRecover(r)
        BY <4>2, <3>1 DEF ReserveRecover
      <4> QED BY <2>2, <4>1, <4>2
    <3>4. ASSUME NEW s \in Requests, Executing(s)', s # r
          PROVE  /\ status'[plan'[s]] \in {"executing", "completed", "partial", "failed"}
                 /\ key'[plan'[s]] = rkey'[s]
      <4>1. Executing(s)
        BY <3>2, <3>4 DEF Executing, TypeOK
      <4>2. plan[s] \in Plans /\ status[plan[s]] \in {"executing", "completed", "partial", "failed"}
            /\ key[plan[s]] = rkey[s]
        BY <4>1 DEF Named, ExecutorHoldsPlan, Executing
      <4> QED BY <3>2, <3>3, <4>2
    <3> QED BY <3>2, <3>3, <3>4 DEF ExecutorHoldsPlan
  <2> QED BY <1>4, <2>1, <2>2 DEF ReserveStep
<1>5. ASSUME NEW r \in Requests, ExecutorStep(r) PROVE ExecutorHoldsPlan'
  <2>1. UNCHANGED <<plan, rkey, key>> /\ Executing(r)
    BY <1>5 DEF ExecutorStep, SkipDependent, CheckTarget, CommandHit, InsertRecord, InsertTimesOut,
                CommandCommits, CommandRefused, CommandLost, Finalize, FinalizeLost, tableVars,
                Executing
  <2>2. \A p \in Plans : \/ status'[p] = status[p]
                         \/ status'[p] \in {"completed", "partial", "failed"}
    <3>1. CASE Finalize(r) \/ FinalizeLost(r)
      BY <3>1, FinalizeSettles
    <3>2. CASE ~(Finalize(r) \/ FinalizeLost(r))
      BY <1>5, <3>2 DEF ExecutorStep, SkipDependent, CheckTarget, CommandHit, InsertRecord,
                        InsertTimesOut, CommandCommits, CommandRefused, CommandLost, tableVars
    <3> QED BY <3>1, <3>2
  <2>3. \E x : pc' = [pc EXCEPT ![r] = x]
    BY <1>5 DEF ExecutorStep, SkipDependent, CheckTarget, CommandHit, InsertRecord, InsertTimesOut,
                CommandCommits, CommandRefused, CommandLost, Finalize, FinalizeLost, Record, Answer
  <2>4. \A s \in Requests : Executing(s)' => Executing(s)
    BY <2>1, <2>3 DEF Executing, TypeOK
  <2> QED BY <2>1, <2>2, <2>4, KeepsHold
<1>6. CASE Tick \/ \E a \in Guarded : CloseTarget(a)
  <2>1. UNCHANGED <<requestVars, tableVars>>
    BY <1>6 DEF Tick, CloseTarget
  <2> QED BY <2>1, KeepsHold DEF requestVars, tableVars, Executing
<1>7. CASE Crash
  <2>1. \A r \in Requests : pc'[r] \in {"new", "done"}
    BY <1>7 DEF Crash
  <2> QED BY <2>1 DEF ExecutorHoldsPlan, Executing
<1> QED BY <1>1, <1>2, <1>3, <1>4, <1>5, <1>6, <1>7 DEF Next

\* The command of request r takes effect.
TakesEffect(r) == effects' = [effects EXCEPT ![plan[r]][at[r]] = @ + 1]

\* A command that takes effect counts one effect, and only its own.
LEMMA EffectCounted ==
  ASSUME TypeOK, NEW r \in Requests, NEW p \in Plans, NEW a \in Actions,
         TakesEffect(r)
  PROVE  effects'[p][a] = IF p = plan[r] /\ a = at[r] THEN effects[p][a] + 1 ELSE effects[p][a]
<1>1. DOMAIN effects = Plans /\ DOMAIN effects[p] = Actions
  BY DEF TypeOK
<1>2. CASE p # plan[r]
  <2>1. effects'[p] = effects[p]
    BY <1>1, <1>2 DEF TakesEffect
  <2> QED BY <1>2, <2>1
<1>3. CASE p = plan[r]
  <2>1. effects'[p] = [effects[p] EXCEPT ![at[r]] = @ + 1]
    BY <1>1, <1>3 DEF TakesEffect
  <2> QED BY <1>1, <1>3, <2>1
<1> QED BY <1>2, <1>3

\* Records and open inserts stay right through every step that commits nothing
\* and inserts nothing.
LEMMA RecordsKept ==
  ASSUME Recorded, OneWorks, UNCHANGED <<effects, records>>,
         \A r \in Requests : pc'[r] = "work" => pc[r] = "work" /\ plan'[r] = plan[r] /\ at'[r] = at[r]
  PROVE  Recorded' /\ OneWorks'
BY DEF Recorded, OneWorks

\* A commit: nobody else had inserted the record, which nobody had committed.
LEMMA CommitStep ==
  ASSUME TypeInv, Recorded, OneWorks,
         NEW r \in Requests, NEW o \in Outcomes,
         pc[r] = "work", Commit(r), Record(r, o), UNCHANGED plan
  PROVE  Recorded' /\ OneWorks'
<1> USE DEF TypeInv
<1>1. plan[r] \in Plans /\ at[r] \in Actions /\ <<plan[r], at[r]>> \notin records
  BY DEF Named, TypeOK, OneWorks
<1>2. TakesEffect(r) /\ records' = records \cup {<<plan[r], at[r]>>}
  BY DEF Commit, TakesEffect
<1>3. ASSUME NEW p \in Plans, NEW a \in Actions
      PROVE  effects'[p][a] = IF <<p, a>> \in records' THEN 1 ELSE 0
  <2>1. effects'[p][a] = IF p = plan[r] /\ a = at[r] THEN effects[p][a] + 1 ELSE effects[p][a]
    BY <1>2, EffectCounted
  <2>2. effects[p][a] = IF <<p, a>> \in records THEN 1 ELSE 0
    BY DEF Recorded
  <2>3. <<p, a>> \in records' <=> <<p, a>> \in records \/ (p = plan[r] /\ a = at[r])
    BY <1>2
  <2>4. CASE p = plan[r] /\ a = at[r]
    BY <1>1, <2>1, <2>2, <2>3, <2>4
  <2>5. CASE ~(p = plan[r] /\ a = at[r])
    BY <2>1, <2>2, <2>3, <2>5
  <2> QED BY <2>4, <2>5
<1>4. /\ pc'[r] # "work"
      /\ \A s \in Requests : s # r => pc'[s] = pc[s] /\ at'[s] = at[s]
  BY DEF Record, TypeOK
<1>5. ASSUME NEW s \in Requests, pc'[s] = "work"
      PROVE  /\ <<plan'[s], at'[s]>> \notin records'
             /\ \A t \in Requests :
                  pc'[t] = "work" /\ plan'[t] = plan'[s] /\ at'[t] = at'[s] => t = s
  <2>1. s # r /\ pc[s] = "work" /\ plan'[s] = plan[s] /\ at'[s] = at[s]
    BY <1>4, <1>5
  <2>2. <<plan[s], at[s]>> \notin records /\ ~(plan[s] = plan[r] /\ at[s] = at[r])
    BY <2>1 DEF OneWorks
  <2>3. <<plan'[s], at'[s]>> \notin records'
    BY <1>2, <2>1, <2>2
  <2>4. ASSUME NEW t \in Requests, pc'[t] = "work", plan'[t] = plan'[s], at'[t] = at'[s] PROVE t = s
    BY <1>4, <2>1, <2>4 DEF OneWorks
  <2> QED BY <2>3, <2>4
<1> QED BY <1>3, <1>5 DEF Recorded, OneWorks

\* An insert: it waited until no other transaction held the key, and found no record.
LEMMA InsertStep ==
  ASSUME TypeOK, Recorded, OneWorks, NEW r \in Requests, InsertRecord(r)
  PROVE  Recorded' /\ OneWorks'
<1>1. /\ UNCHANGED <<effects, records, plan, at>>
      /\ <<plan[r], at[r]>> \notin records
      /\ \A s \in Requests : ~(pc[s] = "work" /\ plan[s] = plan[r] /\ at[s] = at[r])
      /\ \A s \in Requests : s # r => pc'[s] = pc[s]
  BY DEF InsertRecord, BeingInserted, domainVars, TypeOK
<1> QED BY <1>1 DEF Recorded, OneWorks

LEMMA EffectStep ==
  ASSUME TypeInv, Recorded, OneWorks, Next
  PROVE  Recorded' /\ OneWorks'
<1> USE DEF TypeInv
<1>1. ASSUME NEW r \in Requests, ExecutorStep(r) PROVE Recorded' /\ OneWorks'
  <2>1. CASE InsertRecord(r)
    BY <2>1, InsertStep
  <2>2. CASE \E o \in Outcomes : pc[r] = "work" /\ Commit(r) /\ Record(r, o) /\ UNCHANGED plan
    BY <2>2, CommitStep
  <2>3. CASE UNCHANGED <<effects, records, plan>> /\ \E o \in Outcomes : Record(r, o)
    <3>1. /\ pc'[r] # "work"
          /\ \A s \in Requests : s # r => pc'[s] = pc[s] /\ at'[s] = at[s]
      BY <2>3 DEF Record, TypeOK
    <3> QED BY <2>3, <3>1, RecordsKept
  <2>4. CASE /\ UNCHANGED <<effects, records, plan, at>>
             /\ \E x \in {"command", "done"} : pc' = [pc EXCEPT ![r] = x]
    <3>1. pc'[r] # "work" /\ \A s \in Requests : s # r => pc'[s] = pc[s]
      BY <2>4 DEF TypeOK
    <3> QED BY <2>4, <3>1, RecordsKept
  <2>5. CASE SkipDependent(r) \/ CheckTarget(r) \/ CommandHit(r) \/ InsertTimesOut(r)
    BY <2>3, <2>4, <2>5 DEF SkipDependent, CheckTarget, CommandHit, InsertTimesOut, domainVars
  <2>6. CASE CommandCommits(r) \/ CommandRefused(r) \/ CommandLost(r)
    BY <2>2, <2>3, <2>6 DEF CommandCommits, CommandRefused, CommandLost, domainVars
  <2>7. CASE Finalize(r) \/ FinalizeLost(r)
    BY <2>4, <2>7 DEF Finalize, FinalizeLost, Answer, domainVars
  <2> QED BY <1>1, <2>1, <2>5, <2>6, <2>7 DEF ExecutorStep
<1>2. ASSUME NEW r \in Requests, ReserveStep(r) PROVE Recorded' /\ OneWorks'
  <2>1. /\ UNCHANGED <<effects, records, plan, at>>
        /\ \E x \in {"reserve", "target", "done"} : pc' = [pc EXCEPT ![r] = x]
    BY <1>2 DEF ReserveStep, ExpireOnRead, ReserveRefuse, ReserveReplay, ReservePending,
                ReserveRecover, StartExecution, Answer, domainVars
  <2>2. pc'[r] # "work" /\ \A s \in Requests : s # r => pc'[s] = pc[s]
    BY <2>1 DEF TypeOK
  <2> QED BY <2>1, <2>2, RecordsKept
<1>3. ASSUME NEW r \in Requests, NEW p \in Plans, NEW k \in Keys, GetPlan(r, p, k)
      PROVE  Recorded' /\ OneWorks'
  <2>1. /\ UNCHANGED <<effects, records, at>>
        /\ pc'[r] # "work"
        /\ \A s \in Requests : s # r => pc'[s] = pc[s] /\ plan'[s] = plan[s]
    BY <1>3 DEF GetPlan, Answer, domainVars, TypeOK
  <2> QED BY <2>1, RecordsKept
<1>4. CASE Crash
  <2>1. UNCHANGED <<effects, records>> /\ \A r \in Requests : pc'[r] # "work"
    BY <1>4 DEF Crash, domainVars
  <2> QED BY <2>1, RecordsKept
<1>5. CASE \/ Tick
           \/ \E a \in Guarded : CloseTarget(a)
           \/ \E c \in Chats : ListPlans(c)
           \/ \E t \in Plans : PrepareStep(t)
  <2>1. UNCHANGED <<effects, records, requestVars>>
    BY <1>5 DEF Tick, CloseTarget, ListPlans, PrepareStep, PrepareReplay, PrepareLock,
                PrepareCommit, domainVars
  <2> QED BY <2>1, RecordsKept DEF requestVars
<1> QED BY <1>1, <1>2, <1>3, <1>4, <1>5 DEF Next

LEMMA ExecInvariant == Spec => []ExecInv
<1>1. Init => ExecInv
  <2>1. Init => ExecutorHoldsPlan /\ Recorded /\ OneWorks
    BY DEF Init, ExecutorHoldsPlan, Recorded, OneWorks, Executing
  <2>2. Init => OnePendingPerChat /\ Holders
    BY DEF Init, OnePendingPerChat, Holders
  <2> QED BY <2>1, <2>2, TypeInit DEF ExecInv, PrepareInv
<1>2. ExecInv /\ [Next]_vars => ExecInv'
  <2> SUFFICES ASSUME ExecInv, [Next]_vars PROVE ExecInv'
    OBVIOUS
  <2>1. PrepareInv'
    BY PrepareInvStep DEF ExecInv
  <2>2. CASE Next
    BY <2>1, <2>2, HoldStep, EffectStep DEF ExecInv, PrepareInv
  <2>3. CASE UNCHANGED vars
    BY <2>1, <2>3 DEF ExecInv, ExecutorHoldsPlan, Recorded, OneWorks, Executing, vars, tableVars,
                      domainVars, requestVars
  <2> QED BY <2>2, <2>3
<1> QED BY <1>1, <1>2, PTL DEF Spec

\* Any number of executors may come to an action of a plan at once, be taken
\* over, lose the answer to a commit or be restarted: because only one open
\* transaction holds the record's key, and it is committed with the effect, no
\* action takes effect twice.
THEOREM EffectsOnce == Spec => []EffectOnce
<1>1. ExecInv => EffectOnce
  <2> SUFFICES ASSUME ExecInv, NEW p \in Plans, NEW a \in Actions PROVE effects[p][a] <= 1
    BY DEF EffectOnce
  <2>1. effects[p][a] = 0 \/ effects[p][a] = 1
    BY DEF ExecInv, Recorded
  <2> QED BY <2>1
<1> QED BY <1>1, ExecInvariant, PTL

\* Actions are executed only by requests that reserved the plan under its key,
\* and a reserved plan is never expired or invalidated under its executor.
THEOREM ExecutorsHoldPlan == Spec => []ExecutorHoldsPlan
<1>1. ExecInv => ExecutorHoldsPlan
  BY DEF ExecInv
<1> QED BY <1>1, ExecInvariant, PTL

-----------------------------------------------------------------------------
(* Receipts. What a request reports of an action is true when it reports it, *)
(* stays true, and is what the receipt of its plan says: the outcomes of a   *)
(* request only name effects of its own plan, a command only runs on a ref   *)
(* this request saw created, and an answer is given when the loop is over.   *)

OutcomesTrue ==
  \A r \in Requests :
    /\ pc[r] \in {"new", "expire", "reserve"} => outcome[r] = NotRun
    /\ \A a \in Actions : outcome[r][a] = "completed" => plan[r] \in Plans /\ effects[plan[r]][a] > 0
    /\ pc[r] \in {"command", "work"} => Resolved(r, at[r])

Answered ==
  \A r \in Requests :
    /\ reply[r] # "none" => pc[r] = "done"
    /\ reply[r] = "executed" =>
         /\ plan[r] \in Plans
         /\ receipt[plan[r]] # None
         /\ receipt[plan[r]] = outcome[r]

ReceiptInv == ExecInv /\ OutcomesTrue /\ CreatorFirst /\ ReceiptBacked /\ Answered

\* A step counts at most one effect, of the action whose record its request has
\* inserted.
LEMMA EffectsOfStep ==
  ASSUME TypeOK, Next
  PROVE  UNCHANGED effects \/ \E r \in Requests : pc[r] = "work" /\ TakesEffect(r)
<1>1. ASSUME NEW r \in Requests, ExecutorStep(r)
      PROVE  UNCHANGED effects \/ (pc[r] = "work" /\ TakesEffect(r))
  <2>1. CASE CommandCommits(r) \/ CommandLost(r)
    BY <2>1 DEF CommandCommits, CommandLost, Commit, TakesEffect
  <2>2. CASE ~(CommandCommits(r) \/ CommandLost(r))
    BY <1>1, <2>2 DEF ExecutorStep, SkipDependent, CheckTarget, CommandHit, InsertRecord,
                      InsertTimesOut, CommandRefused, Finalize, FinalizeLost, domainVars
  <2> QED BY <2>1, <2>2
<1>2. ASSUME NEW r \in Requests, ReserveStep(r) PROVE UNCHANGED effects
  BY <1>2 DEF ReserveStep, ExpireOnRead, ReserveRefuse, ReserveReplay, ReservePending,
              ReserveRecover, StartExecution, domainVars
<1>3. CASE \/ Tick \/ Crash
           \/ \E a \in Guarded : CloseTarget(a)
           \/ \E c \in Chats : ListPlans(c)
           \/ \E t \in Plans : PrepareStep(t)
           \/ \E r \in Requests, p \in Plans, k \in Keys : GetPlan(r, p, k)
  BY <1>3 DEF Tick, Crash, CloseTarget, ListPlans, PrepareStep, PrepareReplay, PrepareLock,
              PrepareCommit, GetPlan, domainVars
<1> QED BY <1>1, <1>2, <1>3 DEF Next

LEMMA EffectsGrow ==
  ASSUME TypeOK, Next
  PROVE  \A p \in Plans, a \in Actions : effects[p][a] > 0 => effects'[p][a] > 0
<1> SUFFICES ASSUME NEW p \in Plans, NEW a \in Actions, effects[p][a] > 0
             PROVE  effects'[p][a] > 0
  OBVIOUS
<1>1. CASE UNCHANGED effects
  BY <1>1
<1>2. ASSUME NEW r \in Requests, TakesEffect(r)
      PROVE  effects'[p][a] > 0
  <2>1. effects'[p][a] = effects[p][a] \/ effects'[p][a] = effects[p][a] + 1
    BY <1>2, EffectCounted
  <2>2. effects[p][a] \in Nat
    BY DEF TypeOK
  <2> QED BY <2>1, <2>2
<1> QED BY <1>1, <1>2, EffectsOfStep

\* Outcomes stay true through every step that reports none and starts no command.
LEMMA OutcomesKept ==
  ASSUME TypeOK, OutcomesTrue,
         \A p \in Plans, a \in Actions : effects[p][a] > 0 => effects'[p][a] > 0,
         UNCHANGED <<plan, outcome>>,
         \A r \in Requests : pc'[r] \in {"command", "work"} =>
                               pc[r] \in {"command", "work"} /\ at'[r] = at[r],
         \A r \in Requests : pc'[r] \in {"new", "expire", "reserve"} =>
                               pc[r] \in {"new", "expire", "reserve"}
  PROVE  OutcomesTrue'
<1> SUFFICES ASSUME NEW r \in Requests
             PROVE  /\ pc'[r] \in {"new", "expire", "reserve"} => outcome'[r] = NotRun
                    /\ \A a \in Actions : outcome'[r][a] = "completed" =>
                         plan'[r] \in Plans /\ effects'[plan'[r]][a] > 0
                    /\ pc'[r] \in {"command", "work"} => Resolved(r, at[r])'
  BY DEF OutcomesTrue, NotRun
<1>1. pc'[r] \in {"new", "expire", "reserve"} => outcome'[r] = NotRun
  BY DEF OutcomesTrue
<1>2. \A a \in Actions : outcome'[r][a] = "completed" => plan'[r] \in Plans /\ effects'[plan'[r]][a] > 0
  BY DEF OutcomesTrue
<1>3. pc'[r] \in {"command", "work"} => Resolved(r, at[r])'
  BY DEF OutcomesTrue, Resolved
<1> QED BY <1>1, <1>2, <1>3

\* The executor records the outcome of an action: "completed" only over its effect.
LEMMA RecordKeepsTrue ==
  ASSUME TypeOK, OutcomesTrue, Named,
         \A p \in Plans, a \in Actions : effects[p][a] > 0 => effects'[p][a] > 0,
         NEW r \in Requests, NEW o \in Outcomes, Record(r, o), UNCHANGED plan,
         pc[r] \in {"target", "command", "work"},
         o = "completed" => effects'[plan[r]][at[r]] > 0
  PROVE  OutcomesTrue'
<1>1. plan[r] \in Plans /\ at[r] \in Actions
  BY DEF Named, TypeOK
<1>2. /\ outcome' = [outcome EXCEPT ![r] = [outcome[r] EXCEPT ![at[r]] = o]]
      /\ pc'[r] \in {"target", "finalize"}
      /\ \A s \in Requests : s # r => pc'[s] = pc[s] /\ at'[s] = at[s] /\ outcome'[s] = outcome[s]
  BY DEF Record, TypeOK
<1>3. \A a \in Actions : outcome'[r][a] = "completed" => effects'[plan[r]][a] > 0
  <2> SUFFICES ASSUME NEW a \in Actions, outcome'[r][a] = "completed" PROVE effects'[plan[r]][a] > 0
    OBVIOUS
  <2>1. CASE a = at[r]
    BY <1>1, <1>2, <2>1 DEF TypeOK
  <2>2. CASE a # at[r]
    <3>1. outcome[r][a] = "completed"
      BY <1>1, <1>2, <2>2 DEF TypeOK
    <3> QED BY <1>1, <3>1 DEF OutcomesTrue
  <2> QED BY <2>1, <2>2
<1>4. ASSUME NEW s \in Requests
      PROVE  /\ pc'[s] \in {"new", "expire", "reserve"} => outcome'[s] = NotRun
             /\ \A a \in Actions : outcome'[s][a] = "completed" =>
                  plan'[s] \in Plans /\ effects'[plan'[s]][a] > 0
             /\ pc'[s] \in {"command", "work"} => Resolved(s, at[s])'
  <2>1. CASE s = r
    BY <1>1, <1>2, <1>3, <2>1
  <2>2. CASE s # r
    <3>1. pc'[s] = pc[s] /\ at'[s] = at[s] /\ outcome'[s] = outcome[s] /\ plan'[s] = plan[s]
      BY <1>2, <2>2
    <3>2. pc'[s] \in {"new", "expire", "reserve"} => outcome'[s] = NotRun
      BY <3>1 DEF OutcomesTrue
    <3>3. \A a \in Actions : outcome'[s][a] = "completed" => plan'[s] \in Plans /\ effects'[plan'[s]][a] > 0
      BY <3>1 DEF OutcomesTrue
    <3>4. pc'[s] \in {"command", "work"} => Resolved(s, at[s])'
      BY <3>1 DEF OutcomesTrue, Resolved
    <3> QED BY <3>2, <3>3, <3>4
  <2> QED BY <2>1, <2>2
<1> QED BY <1>4 DEF OutcomesTrue, NotRun

LEMMA OutcomesStep ==
  ASSUME ExecInv, OutcomesTrue, Next
  PROVE  OutcomesTrue'
<1> USE DEF ExecInv, PrepareInv, TypeInv
<1>0. \A p \in Plans, a \in Actions : effects[p][a] > 0 => effects'[p][a] > 0
  BY EffectsGrow
<1>1. CASE Tick \/ (\E a \in Guarded : CloseTarget(a)) \/ (\E c \in Chats : ListPlans(c))
             \/ \E t \in Plans : PrepareStep(t)
  <2>1. UNCHANGED requestVars
    BY <1>1 DEF Tick, CloseTarget, ListPlans, PrepareStep, PrepareReplay, PrepareLock, PrepareCommit
  <2> QED BY <1>0, <2>1, OutcomesKept DEF requestVars
<1>2. CASE Crash
  <2>1. UNCHANGED <<plan, outcome>> /\ \A r \in Requests : pc'[r] = "done" \/ (pc'[r] = "new" /\ pc[r] = "new")
    BY <1>2 DEF Crash
  <2> QED BY <1>0, <2>1, OutcomesKept
<1>3. ASSUME NEW r \in Requests, ReserveStep(r) PROVE OutcomesTrue'
  <2>1. UNCHANGED <<plan, outcome>> /\ pc[r] \in {"expire", "reserve"}
    BY <1>3 DEF ReserveStep, ExpireOnRead, ReserveRefuse, ReserveReplay, ReservePending,
                ReserveRecover, AtReservation, StartExecution
  <2>2. UNCHANGED at /\ \E x \in {"reserve", "target", "done"} : pc' = [pc EXCEPT ![r] = x]
    BY <1>3 DEF ReserveStep, ExpireOnRead, ReserveRefuse, ReserveReplay, ReservePending,
                ReserveRecover, StartExecution, Answer
  <2> QED BY <1>0, <2>1, <2>2, OutcomesKept DEF TypeOK
<1>4. ASSUME NEW r \in Requests, NEW p \in Plans, NEW k \in Keys, GetPlan(r, p, k) PROVE OutcomesTrue'
  <2>1. /\ UNCHANGED <<outcome, at, effects>>
        /\ pc[r] = "new" /\ pc'[r] \in {"expire", "reserve", "done"}
        /\ \A s \in Requests : s # r => pc'[s] = pc[s] /\ plan'[s] = plan[s]
    BY <1>4 DEF GetPlan, Answer, TypeOK, domainVars
  <2>2. outcome[r] = NotRun
    BY <2>1 DEF OutcomesTrue
  <2>3. ASSUME NEW s \in Requests
        PROVE  /\ pc'[s] \in {"new", "expire", "reserve"} => outcome'[s] = NotRun
               /\ \A a \in Actions : outcome'[s][a] = "completed" =>
                    plan'[s] \in Plans /\ effects'[plan'[s]][a] > 0
               /\ pc'[s] \in {"command", "work"} => Resolved(s, at[s])'
    <3>1. CASE s = r
      BY <2>1, <2>2, <3>1 DEF NotRun
    <3>2. CASE s # r
      <4>1. pc'[s] \in {"new", "expire", "reserve"} => outcome'[s] = NotRun
        BY <2>1, <3>2 DEF OutcomesTrue
      <4>2. \A a \in Actions : outcome'[s][a] = "completed" => plan'[s] \in Plans /\ effects'[plan'[s]][a] > 0
        BY <2>1, <3>2 DEF OutcomesTrue
      <4>3. pc'[s] \in {"command", "work"} => Resolved(s, at[s])'
        BY <2>1, <3>2 DEF OutcomesTrue, Resolved
      <4> QED BY <4>1, <4>2, <4>3
    <3> QED BY <3>1, <3>2
  <2> QED BY <2>3 DEF OutcomesTrue, NotRun
<1>5. ASSUME NEW r \in Requests, ExecutorStep(r) PROVE OutcomesTrue'
  <2>1. CASE CheckTarget(r) /\ pc' = [pc EXCEPT ![r] = "command"] /\ UNCHANGED <<at, outcome>>
                /\ Admitted(r, at[r])
    <3>1. UNCHANGED <<plan, effects>> /\ pc[r] = "target" /\ pc'[r] = "command" /\ Resolved(r, at[r])
          /\ \A s \in Requests : s # r => pc'[s] = pc[s]
      BY <2>1 DEF CheckTarget, domainVars, Admitted, TypeOK
    <3>2. ASSUME NEW s \in Requests
          PROVE  /\ pc'[s] \in {"new", "expire", "reserve"} => outcome'[s] = NotRun
                 /\ \A a \in Actions : outcome'[s][a] = "completed" =>
                      plan'[s] \in Plans /\ effects'[plan'[s]][a] > 0
                 /\ pc'[s] \in {"command", "work"} => Resolved(s, at[s])'
      <4>1. pc'[s] \in {"new", "expire", "reserve"} => outcome'[s] = NotRun
        BY <2>1, <3>1 DEF OutcomesTrue
      <4>2. \A a \in Actions : outcome'[s][a] = "completed" => plan'[s] \in Plans /\ effects'[plan'[s]][a] > 0
        BY <2>1, <3>1 DEF OutcomesTrue
      <4>3. pc'[s] \in {"command", "work"} => Resolved(s, at[s])
        BY <3>1 DEF OutcomesTrue
      <4>4. Resolved(s, at[s])' <=> Resolved(s, at[s])
        BY <2>1 DEF Resolved
      <4> QED BY <4>1, <4>2, <4>3, <4>4
    <3> QED BY <3>2 DEF OutcomesTrue, NotRun
  <2>2. CASE Finalize(r) \/ FinalizeLost(r)
    <3>1. UNCHANGED <<plan, outcome, at>> /\ pc' = [pc EXCEPT ![r] = "done"]
      BY <2>2 DEF Finalize, FinalizeLost, Answer
    <3> QED BY <1>0, <3>1, OutcomesKept DEF TypeOK
  <2>5. CASE InsertRecord(r)
    <3>1. UNCHANGED <<plan, outcome, at>> /\ pc[r] = "command" /\ pc' = [pc EXCEPT ![r] = "work"]
      BY <2>5 DEF InsertRecord
    <3> QED BY <1>0, <3>1, OutcomesKept DEF TypeOK
  <2>3. CASE SkipDependent(r) \/ (CheckTarget(r) /\ Record(r, "failed")) \/ InsertTimesOut(r)
             \/ CommandRefused(r) \/ CommandLost(r)
    <3>1. UNCHANGED plan /\ pc[r] \in {"target", "command", "work"}
          /\ \E o \in {"pending", "failed"} : Record(r, o)
      BY <2>3 DEF SkipDependent, CheckTarget, InsertTimesOut, CommandRefused, CommandLost
    <3> QED BY <1>0, <3>1, RecordKeepsTrue
  <2>4. CASE CommandHit(r) \/ CommandCommits(r)
    <3>1. UNCHANGED plan /\ pc[r] \in {"command", "work"} /\ Record(r, "completed")
      BY <2>4 DEF CommandHit, CommandCommits
    <3>2. plan[r] \in Plans /\ at[r] \in Actions
      BY <3>1 DEF Named, TypeOK
    <3>3. effects'[plan[r]][at[r]] > 0
      <4>1. CASE CommandHit(r)
        BY <4>1, <3>2 DEF CommandHit, Recorded, domainVars
      <4>2. CASE CommandCommits(r)
        <5>1. effects[plan[r]][at[r]] \in Nat
          BY <3>2 DEF TypeOK
        <5>2. effects'[plan[r]][at[r]] = effects[plan[r]][at[r]] + 1
          BY <3>2, <4>2 DEF CommandCommits, Commit, TypeOK
        <5> QED BY <5>1, <5>2
      <4> QED BY <2>4, <4>1, <4>2
    <3> QED BY <1>0, <3>1, <3>3, RecordKeepsTrue
  <2> QED BY <1>5, <2>1, <2>2, <2>3, <2>4, <2>5 DEF ExecutorStep, CheckTarget
<1> QED BY <1>1, <1>2, <1>3, <1>4, <1>5 DEF Next

\* An action recorded as completed took effect on the request's plan.
LEMMA OutcomeTook ==
  ASSUME OutcomesTrue, NEW r \in Requests, NEW a \in Actions, outcome[r][a] = "completed"
  PROVE  plan[r] \in Plans /\ effects[plan[r]][a] > 0
BY DEF OutcomesTrue

\* The action whose ref a command uses took effect before it.
LEMMA CreatorStep ==
  ASSUME ExecInv, OutcomesTrue, CreatorFirst, Next
  PROVE  CreatorFirst'
<1>0. TypeOK
  BY DEF ExecInv, PrepareInv, TypeInv
<1>1. CASE UNCHANGED effects
  BY <1>1 DEF CreatorFirst
<1>2. ASSUME NEW r \in Requests, pc[r] = "work", TakesEffect(r)
      PROVE  CreatorFirst'
  <2> SUFFICES ASSUME NEW p \in Plans, NEW a \in Actions, effects'[p][a] > 0, RefOf[a] # 0
               PROVE  effects'[p][RefOf[a]] > 0
    BY DEF CreatorFirst
  <2>1. RefOf[a] \in Actions
    OBVIOUS
  <2>2. effects[p][RefOf[a]] > 0
    <3>1. CASE p = plan[r] /\ a = at[r]
      <4>1. Resolved(r, at[r])
        BY <1>2 DEF OutcomesTrue
      <4>2. outcome[r][RefOf[a]] = "completed"
        BY <3>1, <4>1 DEF Resolved
      <4>3. effects[plan[r]][RefOf[a]] > 0
        BY <2>1, <4>2, OutcomeTook
      <4> QED BY <3>1, <4>3
    <3>2. CASE ~(p = plan[r] /\ a = at[r])
      <4>1. effects'[p][a] = effects[p][a]
        BY <1>0, <1>2, <3>2, EffectCounted
      <4> QED BY <4>1 DEF CreatorFirst
    <3> QED BY <3>1, <3>2
  <2> QED BY <1>0, <2>1, <2>2, EffectsGrow
<1> QED BY <1>0, <1>1, <1>2, EffectsOfStep

\* A receipt stays backed while it is not written and its plan is not resettled.
LEMMA ReceiptsKept ==
  ASSUME ReceiptBacked,
         UNCHANGED receipt,
         \A p \in Plans, a \in Actions : effects[p][a] > 0 => effects'[p][a] > 0,
         \A p \in Plans : \/ status'[p] = status[p]
                          \/ /\ status[p] \notin {"completed", "partial", "failed"}
                             /\ status'[p] \notin {"completed", "partial", "failed"}
  PROVE  ReceiptBacked'
<1> SUFFICES ASSUME NEW p \in Plans
             PROVE  /\ (receipt'[p] # None) = (status'[p] \in {"completed", "partial", "failed"})
                    /\ receipt'[p] # None =>
                         /\ status'[p] = Lifecycle!Summary(receipt'[p])
                         /\ \A a \in Actions : receipt'[p][a] = "completed" => effects'[p][a] > 0
  BY DEF ReceiptBacked, Lifecycle!Summary
<1>1. CASE status'[p] = status[p]
  BY <1>1 DEF ReceiptBacked
<1>2. CASE /\ status[p] \notin {"completed", "partial", "failed"}
           /\ status'[p] \notin {"completed", "partial", "failed"}
  BY <1>2 DEF ReceiptBacked
<1> QED BY <1>1, <1>2

\* Writing it: the status is what the outcomes add up to, the outcomes are true.
LEMMA ReceiptWritten ==
  ASSUME ExecInv, OutcomesTrue, ReceiptBacked, UNCHANGED effects,
         NEW r \in Requests, pc[r] = "finalize", WriteReceipt(r)
  PROVE  /\ ReceiptBacked'
         /\ plan[r] \in Plans
         /\ outcome[r] \in [Actions -> Outcomes]
         /\ outcome[r] # None
         /\ receipt[plan[r]] = None
         /\ receipt' = [receipt EXCEPT ![plan[r]] = outcome[r]]
         /\ status' = [status EXCEPT ![plan[r]] = Lifecycle!Summary(outcome[r])]
<1> USE DEF ExecInv, PrepareInv, TypeInv
<1>1. plan[r] \in Plans
  BY DEF Named
<1>2. outcome[r] \in [Actions -> Outcomes]
  BY DEF TypeOK, Loop
<1>3. outcome[r] # None
  BY <1>2
<1>4. receipt[plan[r]] = None
  BY <1>1 DEF WriteReceipt, ReceiptBacked
<1>5. FinalStatus(outcome[r]) = Lifecycle!Summary(outcome[r])
  BY DEF FinalStatus, Lifecycle!Summary
<1>6. /\ receipt' = [receipt EXCEPT ![plan[r]] = outcome[r]]
      /\ status' = [status EXCEPT ![plan[r]] = Lifecycle!Summary(outcome[r])]
  BY <1>5 DEF WriteReceipt
<1>7. Lifecycle!Summary(outcome[r]) \in {"completed", "partial", "failed"}
  BY DEF Lifecycle!Summary
<1>8. ASSUME NEW p \in Plans
      PROVE  /\ (receipt'[p] # None) = (status'[p] \in {"completed", "partial", "failed"})
             /\ receipt'[p] # None =>
                  /\ status'[p] = Lifecycle!Summary(receipt'[p])
                  /\ \A a \in Actions : receipt'[p][a] = "completed" => effects'[p][a] > 0
  <2>1. CASE p = plan[r]
    <3>1. receipt'[p] = outcome[r] /\ status'[p] = Lifecycle!Summary(outcome[r])
      BY <1>6, <2>1 DEF TypeOK
    <3>2. \A a \in Actions : outcome[r][a] = "completed" => effects'[p][a] > 0
      BY <2>1 DEF OutcomesTrue
    <3> QED BY <1>3, <1>7, <3>1, <3>2
  <2>2. CASE p # plan[r]
    <3>1. receipt'[p] = receipt[p] /\ status'[p] = status[p]
      BY <1>6, <2>2 DEF TypeOK
    <3> QED BY <3>1 DEF ReceiptBacked
  <2> QED BY <2>1, <2>2
<1> QED BY <1>1, <1>2, <1>3, <1>4, <1>6, <1>8 DEF ReceiptBacked, Lifecycle!Summary

LEMMA ReceiptStep ==
  ASSUME ExecInv, OutcomesTrue, ReceiptBacked, Next
  PROVE  ReceiptBacked'
<1> USE DEF ExecInv, PrepareInv, TypeInv
<1>0. \A p \in Plans, a \in Actions : effects[p][a] > 0 => effects'[p][a] > 0
  BY EffectsGrow
<1>1. ASSUME NEW t \in Plans, PrepareStep(t) PROVE ReceiptBacked'
  <2>1. UNCHANGED receipt
    BY <1>1 DEF PrepareStep, PrepareReplay, PrepareLock, PrepareCommit, tableVars
  <2>2. \A p \in Plans : \/ status'[p] = status[p]
                         \/ status[p] \in {"absent", "pending"} /\ status'[p] \in {"pending", "invalidated"}
    <3>1. CASE PrepareCommit(t)
      <4>1. status[t] = "absent" /\ \A q \in Plans : q \in rows[t] => status[q] = "pending"
        BY <3>1 DEF PrepareCommit, Unreserved, Holders
      <4> QED BY <3>1, <4>1 DEF PrepareCommit
    <3>2. CASE ~PrepareCommit(t)
      BY <1>1, <3>2 DEF PrepareStep, PrepareReplay, PrepareLock, tableVars
    <3> QED BY <3>1, <3>2
  <2> QED BY <1>0, <2>1, <2>2, ReceiptsKept
<1>2. ASSUME NEW c \in Chats, ListPlans(c) PROVE ReceiptBacked'
  <2>1. /\ UNCHANGED receipt
        /\ \A p \in Plans : \/ status'[p] = status[p]
                            \/ status[p] = "pending" /\ status'[p] = "expired"
    BY <1>2 DEF ListPlans, Expired
  <2> QED BY <1>0, <2>1, ReceiptsKept
<1>3. ASSUME NEW r \in Requests, ReserveStep(r) PROVE ReceiptBacked'
  <2>1. UNCHANGED receipt
    BY <1>3 DEF ReserveStep, ExpireOnRead, ReserveRefuse, ReserveReplay, ReservePending,
                ReserveRecover, StartExecution, tableVars
  <2>2. \A p \in Plans : \/ status'[p] = status[p]
                         \/ status[p] = "pending" /\ status'[p] \in {"expired", "executing"}
    BY <1>3 DEF ReserveStep, ExpireOnRead, ReserveRefuse, ReserveReplay, ReservePending,
                ReserveRecover, tableVars, TypeOK
  <2> QED BY <1>0, <2>1, <2>2, ReceiptsKept
<1>4. ASSUME NEW r \in Requests, ExecutorStep(r) PROVE ReceiptBacked'
  <2>1. CASE Finalize(r) \/ FinalizeLost(r)
    <3>1. UNCHANGED effects /\ pc[r] = "finalize" /\ (WriteReceipt(r) \/ UNCHANGED <<status, receipt>>)
      BY <2>1 DEF Finalize, FinalizeLost, domainVars
    <3> QED BY <1>0, <3>1, ReceiptWritten, ReceiptsKept
  <2>2. CASE ~(Finalize(r) \/ FinalizeLost(r))
    <3>1. UNCHANGED <<status, receipt>>
      BY <1>4, <2>2 DEF ExecutorStep, SkipDependent, CheckTarget, CommandHit, InsertRecord,
                        InsertTimesOut, CommandCommits, CommandRefused, CommandLost, tableVars
    <3> QED BY <1>0, <3>1, ReceiptsKept
  <2> QED BY <2>1, <2>2
<1>5. CASE \/ Tick \/ Crash
           \/ \E a \in Guarded : CloseTarget(a)
           \/ \E r \in Requests, p \in Plans, k \in Keys : GetPlan(r, p, k)
  <2>1. UNCHANGED <<status, receipt>>
    BY <1>5 DEF Tick, Crash, CloseTarget, GetPlan, tableVars
  <2> QED BY <1>0, <2>1, ReceiptsKept
<1> QED BY <1>1, <1>2, <1>3, <1>4, <1>5 DEF Next

\* Answers stand while answered requests rest, receipts are only added, and no
\* other request is answered with a result.
LEMMA AnswersKept ==
  ASSUME TypeOK, Answered,
         \A r \in Requests : pc[r] = "done" =>
           pc'[r] = "done" /\ reply'[r] = reply[r] /\ plan'[r] = plan[r] /\ outcome'[r] = outcome[r],
         \A r \in Requests : pc[r] # "done" =>
           reply'[r] = reply[r] \/ (pc'[r] = "done" /\ reply'[r] # "executed"),
         \A p \in Plans : receipt[p] # None => receipt'[p] = receipt[p]
  PROVE  Answered'
<1> SUFFICES ASSUME NEW r \in Requests
             PROVE  /\ reply'[r] # "none" => pc'[r] = "done"
                    /\ reply'[r] = "executed" =>
                         /\ plan'[r] \in Plans
                         /\ receipt'[plan'[r]] # None
                         /\ receipt'[plan'[r]] = outcome'[r]
  BY DEF Answered
<1>1. CASE pc[r] = "done"
  BY <1>1 DEF Answered
<1>2. CASE pc[r] # "done"
  BY <1>2 DEF Answered
<1> QED BY <1>1, <1>2

LEMMA AnswerStep ==
  ASSUME ExecInv, OutcomesTrue, ReceiptBacked, Answered, Next
  PROVE  Answered'
<1> USE DEF ExecInv, PrepareInv, TypeInv
<1>1. CASE Tick \/ (\E a \in Guarded : CloseTarget(a)) \/ (\E c \in Chats : ListPlans(c))
             \/ \E t \in Plans : PrepareStep(t)
  <2>1. UNCHANGED <<requestVars, receipt>>
    BY <1>1 DEF Tick, CloseTarget, ListPlans, PrepareStep, PrepareReplay, PrepareLock,
                PrepareCommit,
                tableVars
  <2> QED BY <2>1 DEF Answered, requestVars
<1>2. CASE Crash
  <2>1. /\ UNCHANGED <<plan, outcome, receipt>>
        /\ \A r \in Requests : pc[r] = "done" => pc'[r] = "done" /\ reply'[r] = reply[r]
        /\ \A r \in Requests : pc[r] # "done" =>
             reply'[r] = reply[r] \/ (pc'[r] = "done" /\ reply'[r] = "crashed")
    BY <1>2 DEF Crash, tableVars
  <2> QED BY <2>1, AnswersKept
<1>3. ASSUME NEW r \in Requests, NEW p \in Plans, NEW k \in Keys, GetPlan(r, p, k) PROVE Answered'
  <2>1. /\ UNCHANGED <<outcome, receipt>>
        /\ pc[r] = "new"
        /\ reply'[r] = reply[r] \/ (pc'[r] = "done" /\ reply'[r] = "plan_not_found")
        /\ \A s \in Requests : s # r => pc'[s] = pc[s] /\ plan'[s] = plan[s] /\ reply'[s] = reply[s]
    BY <1>3 DEF GetPlan, Answer, TypeOK, tableVars
  <2> QED BY <2>1, AnswersKept
<1>4. ASSUME NEW r \in Requests, ReserveStep(r) PROVE Answered'
  <2>1. UNCHANGED <<plan, outcome, receipt>> /\ pc[r] \in {"expire", "reserve"}
    BY <1>4 DEF ReserveStep, ExpireOnRead, ReserveRefuse, ReserveReplay, ReservePending,
                ReserveRecover, AtReservation, StartExecution, tableVars
  <2>2. \/ UNCHANGED reply /\ \E x : pc' = [pc EXCEPT ![r] = x]
        \/ \E m : m # "executed" /\ Answer(r, m)
    <3>1. CASE ReserveRefuse(r)
      BY <3>1 DEF ReserveRefuse, Refusals
    <3>2. CASE ~ReserveRefuse(r)
      BY <1>4, <3>2 DEF ReserveStep, ExpireOnRead, ReserveReplay, ReservePending, ReserveRecover,
                        StartExecution
    <3> QED BY <3>1, <3>2
  <2>3. /\ \A s \in Requests : s # r => pc'[s] = pc[s] /\ reply'[s] = reply[s]
        /\ reply'[r] = reply[r] \/ (pc'[r] = "done" /\ reply'[r] # "executed")
    BY <2>2 DEF Answer, TypeOK
  <2> QED BY <2>1, <2>3, AnswersKept
<1>5. ASSUME NEW r \in Requests, ExecutorStep(r) PROVE Answered'
  <2>1. CASE ~(Finalize(r) \/ FinalizeLost(r))
    <3>1. UNCHANGED <<plan, reply, receipt>> /\ pc[r] \in {"target", "command", "work"}
      BY <1>5, <2>1 DEF ExecutorStep, SkipDependent, CheckTarget, CommandHit, InsertRecord,
                        InsertTimesOut, CommandCommits, CommandRefused, CommandLost, tableVars
    <3>2. \A s \in Requests : s # r => pc'[s] = pc[s] /\ outcome'[s] = outcome[s]
      BY <1>5, <2>1 DEF ExecutorStep, SkipDependent, CheckTarget, CommandHit, InsertRecord,
                        InsertTimesOut, CommandCommits, CommandRefused, CommandLost, Record, TypeOK
    <3> QED BY <3>1, <3>2, AnswersKept
  <2>2. CASE Finalize(r) \/ FinalizeLost(r)
    <3>1. /\ UNCHANGED <<plan, outcome, effects>> /\ pc[r] = "finalize"
          /\ WriteReceipt(r) \/ UNCHANGED receipt
          /\ \E m \in Replies : Answer(r, m) /\ (m = "executed" => WriteReceipt(r))
      BY <2>2 DEF Finalize, FinalizeLost, domainVars, Replies
    <3>2. \A p \in Plans : receipt[p] # None => receipt'[p] = receipt[p]
      <4>1. CASE WriteReceipt(r)
        <5>1. receipt[plan[r]] = None /\ receipt' = [receipt EXCEPT ![plan[r]] = outcome[r]]
          BY <3>1, <4>1, ReceiptWritten
        <5>2. DOMAIN receipt = Plans
          BY DEF TypeOK
        <5> QED BY <5>1, <5>2
      <4>2. CASE UNCHANGED receipt
        BY <4>2
      <4> QED BY <3>1, <4>1, <4>2
    <3>3. pc'[r] = "done" /\ \A s \in Requests : s # r => pc'[s] = pc[s] /\ reply'[s] = reply[s]
      BY <3>1 DEF Answer, TypeOK
    <3>4. reply'[r] = "executed" =>
            plan[r] \in Plans /\ receipt'[plan[r]] # None /\ receipt'[plan[r]] = outcome[r]
      <4> SUFFICES ASSUME reply'[r] = "executed"
                   PROVE  plan[r] \in Plans /\ receipt'[plan[r]] # None /\ receipt'[plan[r]] = outcome[r]
        OBVIOUS
      <4>1. WriteReceipt(r)
        BY <3>1 DEF Answer, TypeOK
      <4>2. /\ plan[r] \in Plans /\ outcome[r] # None
            /\ receipt' = [receipt EXCEPT ![plan[r]] = outcome[r]]
        BY <3>1, <4>1, ReceiptWritten
      <4> QED BY <4>2 DEF TypeOK
    <3>5. ASSUME NEW s \in Requests
          PROVE  /\ reply'[s] # "none" => pc'[s] = "done"
                 /\ reply'[s] = "executed" =>
                      /\ plan'[s] \in Plans
                      /\ receipt'[plan'[s]] # None
                      /\ receipt'[plan'[s]] = outcome'[s]
      <4>1. CASE s = r
        BY <3>1, <3>3, <3>4, <4>1
      <4>2. CASE s # r
        BY <3>1, <3>2, <3>3, <4>2 DEF Answered
      <4> QED BY <4>1, <4>2
    <3> QED BY <3>5 DEF Answered
  <2> QED BY <2>1, <2>2
<1> QED BY <1>1, <1>2, <1>3, <1>4, <1>5 DEF Next

LEMMA ReceiptInvariant == Spec => []ReceiptInv
<1>1. Init => OutcomesTrue /\ CreatorFirst /\ ReceiptBacked /\ Answered
  BY DEF Init, OutcomesTrue, CreatorFirst, ReceiptBacked, Answered, NotRun
<1>2. ExecInv /\ ExecInv' /\ ReceiptInv /\ [Next]_vars => ReceiptInv'
  <2>1. ASSUME ExecInv', ReceiptInv, Next PROVE ReceiptInv'
    BY <2>1, OutcomesStep, CreatorStep, ReceiptStep, AnswerStep DEF ReceiptInv
  <2>2. ASSUME ExecInv', ReceiptInv, UNCHANGED vars PROVE ReceiptInv'
    BY <2>2 DEF ReceiptInv, OutcomesTrue, CreatorFirst, ReceiptBacked, Answered, NotRun, Resolved,
                Lifecycle!Summary, vars, tableVars, domainVars, requestVars
  <2> QED BY <2>1, <2>2
<1>3. Init /\ ExecInv => ReceiptInv
  BY <1>1 DEF ReceiptInv
<1> QED BY <1>2, <1>3, ExecInvariant, PTL DEF Spec

\* A settled plan has exactly one kind of receipt: its status is what the
\* outcomes add up to, and whatever it lists as completed took effect.
THEOREM ReceiptsBacked == Spec => []ReceiptBacked
<1>1. ReceiptInv => ReceiptBacked
  BY DEF ReceiptInv
<1> QED BY <1>1, ReceiptInvariant, PTL

\* An action that uses the ref of a creation takes effect only after it, also
\* when another executor, or an execution before a restart, created it.
THEOREM CreatorsFirst == Spec => []CreatorFirst
<1>1. ReceiptInv => CreatorFirst
  BY DEF ReceiptInv
<1> QED BY <1>1, ReceiptInvariant, PTL

\* A result is answered only with the receipt that stands in the table.
THEOREM AnswersAreReceipts == Spec => []AnswerIsReceipt
<1>1. ReceiptInv => AnswerIsReceipt
  BY DEF ReceiptInv, Answered, AnswerIsReceipt
<1> QED BY <1>1, ReceiptInvariant, PTL

-----------------------------------------------------------------------------
(* AgentPlans implements PlanLifecycle. A prepare call announces its chat    *)
(* when it takes the advisory lock and prepares when it commits; a listing   *)
(* or a read expires; the reservation reserves; a command that takes effect  *)
(* takes; the write of the receipt settles. Every other step is a stutter.   *)

\* A prepare call has no chat before it takes the lock, and one from there on.
Announced ==
  \A t \in Plans :
    /\ call[t] = "new" => chat[t] = None
    /\ call[t] = "holding" => chat[t] \in Chats

LEMMA AnnouncedStep ==
  ASSUME TypeOK, Announced, [Next]_vars
  PROVE  Announced'
<1>1. CASE UNCHANGED chat /\ \A t \in Plans : call'[t] = call[t] \/ call'[t] = "done"
  BY <1>1 DEF Announced
<1>2. ASSUME NEW t \in Plans, PrepareStep(t) PROVE Announced'
  <2>1. ASSUME NEW c \in Chats, NEW d \in Drafts, PrepareLock(t, c, d) PROVE Announced'
    BY <2>1 DEF PrepareLock, Announced, TypeOK
  <2>2. CASE PrepareCommit(t) \/ \E c \in Chats, d \in Drafts : PrepareReplay(t, c, d)
    BY <1>1, <2>2 DEF PrepareCommit, PrepareReplay, tableVars, TypeOK
  <2> QED BY <1>2, <2>1, <2>2 DEF PrepareStep
<1>3. ASSUME NEW r \in Requests, ReserveStep(r) PROVE Announced'
  BY <1>1, <1>3 DEF ReserveStep, ExpireOnRead, ReserveRefuse, ReserveReplay, ReservePending,
                    ReserveRecover, StartExecution, tableVars, callVars
<1>4. ASSUME NEW r \in Requests, ExecutorStep(r) PROVE Announced'
  BY <1>1, <1>4 DEF ExecutorStep, SkipDependent, CheckTarget, CommandHit, InsertRecord,
                    InsertTimesOut, CommandCommits, CommandRefused, CommandLost, Finalize,
                    FinalizeLost, tableVars, callVars
<1>5. CASE Crash
  BY <1>1, <1>5 DEF Crash, tableVars, TypeOK
<1>6. CASE \/ Tick \/ UNCHANGED vars
           \/ \E a \in Guarded : CloseTarget(a)
           \/ \E c \in Chats : ListPlans(c)
           \/ \E r \in Requests, p \in Plans, k \in Keys : GetPlan(r, p, k)
  BY <1>1, <1>6 DEF Tick, CloseTarget, ListPlans, GetPlan, tableVars, callVars, vars
<1> QED BY <1>2, <1>3, <1>4, <1>5, <1>6 DEF Next

RefineInv == ReceiptInv /\ Announced

LEMMA RefineInvariant == Spec => []RefineInv
<1>1. Init => Announced
  BY DEF Init, Announced
<1>2. ReceiptInv /\ Announced /\ [Next]_vars => Announced'
  BY AnnouncedStep DEF ReceiptInv, ExecInv, PrepareInv, TypeInv
<1> QED BY <1>1, <1>2, ReceiptInvariant, PTL DEF Spec, RefineInv

\* The actions that took effect, as PlanLifecycle sees them.
Taken == {pa \in Plans \X Actions : effects[pa[1]][pa[2]] > 0}

Stutters == UNCHANGED <<status, chat, key, receipt, effects>>

LEMMA StutterMaps ==
  ASSUME Stutters
  PROVE  UNCHANGED Lifecycle!lifecycleVars
BY DEF Stutters, Lifecycle!lifecycleVars

LEMMA PrepareMaps ==
  ASSUME RefineInv, NEW t \in Plans, PrepareStep(t)
  PROVE  [Lifecycle!LifecycleNext]_(Lifecycle!lifecycleVars)
<1> USE DEF RefineInv, ReceiptInv, ExecInv, PrepareInv, TypeInv
<1>1. ASSUME NEW c \in Chats, NEW d \in Drafts, PrepareReplay(t, c, d) PROVE Stutters
  BY <1>1 DEF PrepareReplay, Stutters, tableVars, domainVars
<1>2. ASSUME NEW c \in Chats, NEW d \in Drafts, PrepareLock(t, c, d) PROVE Lifecycle!Announce(t, c)
  <2>1. status[t] = "absent" /\ chat[t] = None
    BY <1>2 DEF PrepareLock, Unreserved, Announced
  <2>2. UNCHANGED <<status, key, receipt, effects>> /\ chat' = [chat EXCEPT ![t] = c]
    BY <1>2 DEF PrepareLock, domainVars
  <2> QED BY <2>1, <2>2 DEF Lifecycle!Announce
<1>3. CASE PrepareCommit(t)
  <2>1. status[t] = "absent" /\ chat[t] \in Chats
    BY <1>3 DEF PrepareCommit, Unreserved, Announced
  <2>2. \A q \in Plans : q \in rows[t] <=> status[q] = "pending" /\ chat[q] = chat[t]
    BY <1>3 DEF PrepareCommit, Holders
  <2>3. status' = [q \in Plans |->
                     IF q = t THEN "pending"
                     ELSE IF status[q] = "pending" /\ chat[q] = chat[t] THEN "invalidated"
                     ELSE status[q]]
    BY <1>3, <2>2 DEF PrepareCommit
  <2>4. UNCHANGED <<chat, key, receipt, effects>>
    BY <1>3 DEF PrepareCommit, domainVars
  <2>5. Lifecycle!Prepare(t)
    BY <2>1, <2>3, <2>4 DEF Lifecycle!Prepare
  <2> QED BY <2>5 DEF Lifecycle!LifecycleNext
<1> QED BY <1>1, <1>2, <1>3, StutterMaps DEF PrepareStep, Lifecycle!LifecycleNext

LEMMA ListMaps ==
  ASSUME TypeOK, NEW c \in Chats, ListPlans(c)
  PROVE  Lifecycle!LifecycleNext
<1> DEFINE late == {p \in Plans : Expired(p) /\ chat[p] = c}
<1>1. late \in SUBSET Plans /\ \A p \in late : status[p] = "pending"
  BY DEF Expired
<1>2. /\ status' = [p \in Plans |-> IF p \in late THEN "expired" ELSE status[p]]
      /\ UNCHANGED <<chat, key, receipt, effects>>
  BY DEF ListPlans, domainVars
<1>3. Lifecycle!Expire(late)
  BY <1>1, <1>2 DEF Lifecycle!Expire
<1> QED BY <1>1, <1>3 DEF Lifecycle!LifecycleNext

LEMMA ReserveMaps ==
  ASSUME RefineInv, NEW r \in Requests, ReserveStep(r)
  PROVE  [Lifecycle!LifecycleNext]_(Lifecycle!lifecycleVars)
<1> USE DEF RefineInv, ReceiptInv, ExecInv, PrepareInv, TypeInv
<1>1. plan[r] \in Plans /\ rkey[r] \in Keys
  BY DEF ReserveStep, ExpireOnRead, ReserveRefuse, ReserveReplay, ReservePending, ReserveRecover,
         AtReservation, Named
<1>2. CASE ExpireOnRead(r)
  <2>1. CASE status[plan[r]] = "pending"
    <3>1. status' = [status EXCEPT ![plan[r]] = "expired"] /\ UNCHANGED <<chat, key, receipt, effects>>
      BY <1>2, <2>1 DEF ExpireOnRead, domainVars
    <3>2. status' = [p \in Plans |-> IF p \in {plan[r]} THEN "expired" ELSE status[p]]
      BY <1>1, <3>1 DEF TypeOK
    <3>3. Lifecycle!Expire({plan[r]})
      BY <2>1, <3>1, <3>2 DEF Lifecycle!Expire
    <3> QED BY <1>1, <3>3 DEF Lifecycle!LifecycleNext
  <2>2. CASE status[plan[r]] # "pending"
    <3>1. Stutters
      BY <1>2, <2>2 DEF ExpireOnRead, Stutters, domainVars
    <3> QED BY <3>1, StutterMaps
  <2> QED BY <2>1, <2>2
<1>3. CASE ReserveRefuse(r) \/ ReserveReplay(r) \/ ReserveRecover(r)
  <2>1. Stutters
    BY <1>3 DEF ReserveRefuse, ReserveReplay, ReserveRecover, StartExecution, Stutters, tableVars,
                domainVars
  <2> QED BY <2>1, StutterMaps
<1>4. CASE ReservePending(r)
  <2>1. Lifecycle!Reserve(plan[r], rkey[r])
    BY <1>4 DEF ReservePending, StartExecution, domainVars, Lifecycle!Reserve
  <2> QED BY <1>1, <2>1 DEF Lifecycle!LifecycleNext
<1> QED BY <1>2, <1>3, <1>4 DEF ReserveStep

LEMMA ExecutorMaps ==
  ASSUME RefineInv, NEW r \in Requests, ExecutorStep(r)
  PROVE  [Lifecycle!LifecycleNext]_(Lifecycle!lifecycleVars)
<1> USE DEF RefineInv, ReceiptInv, ExecInv, PrepareInv, TypeInv
<1>1. /\ plan[r] \in Plans /\ at[r] \in Actions
      /\ status[plan[r]] \in {"executing", "completed", "partial", "failed"}
  <2>1. Executing(r)
    BY DEF ExecutorStep, SkipDependent, CheckTarget, CommandHit, InsertRecord, InsertTimesOut,
           CommandCommits, CommandRefused, CommandLost, Finalize, FinalizeLost, Executing
  <2> QED BY <2>1 DEF Named, ExecutorHoldsPlan, Executing, TypeOK
<1>2. CASE CommandCommits(r) \/ CommandLost(r)
  <2>1. UNCHANGED <<status, chat, key, receipt>>
    BY <1>2 DEF CommandCommits, CommandLost, tableVars
  <2>2. CASE UNCHANGED effects
    BY <2>1, <2>2, StutterMaps DEF Stutters
  <2>3. CASE pc[r] = "work" /\ TakesEffect(r)
    <3>1. PICK p \in Plans, a \in Actions : p = plan[r] /\ a = at[r]
      BY <1>1
    <3>2. <<p, a>> \in Plans \X Actions /\ <<p, a>> \notin Taken
      BY <2>3, <3>1 DEF Recorded, OneWorks, Taken
    <3>3. \A q \in Plans, b \in Actions :
            effects'[q][b] = IF q = p /\ b = a THEN effects[q][b] + 1 ELSE effects[q][b]
      BY <2>3, <3>1, EffectCounted
    <3>4. ASSUME NEW q \in Plans, NEW b \in Actions
          PROVE  effects'[q][b] > 0 <=> effects[q][b] > 0 \/ (q = p /\ b = a)
      <4>1. CASE q = p /\ b = a
        <5>1. effects[q][b] \in Nat
          BY DEF TypeOK
        <5>2. effects'[q][b] = effects[q][b] + 1
          BY <3>3, <4>1
        <5> QED BY <4>1, <5>1, <5>2
      <4>2. CASE ~(q = p /\ b = a)
        <5>1. effects'[q][b] = effects[q][b]
          BY <3>3, <4>2
        <5> QED BY <4>2, <5>1
      <4> QED BY <4>1, <4>2
    <3>5. Taken' = Taken \cup {<<p, a>>}
      BY <3>4 DEF Taken
    <3>6. Lifecycle!Take(p, a)
      BY <1>1, <2>1, <3>1, <3>2, <3>5 DEF Lifecycle!Take, Lifecycle!Receipts, Taken
    <3> QED BY <3>6 DEF Lifecycle!LifecycleNext
  <2> QED BY <1>2, <2>2, <2>3 DEF CommandCommits, CommandLost, Commit, TakesEffect
<1>3. CASE Finalize(r) \/ FinalizeLost(r)
  <2>1. UNCHANGED <<chat, key, effects>> /\ pc[r] = "finalize"
        /\ (WriteReceipt(r) \/ UNCHANGED <<status, receipt>>)
    BY <1>3 DEF Finalize, FinalizeLost, domainVars
  <2>2. CASE WriteReceipt(r)
    <3>1. /\ outcome[r] \in [Actions -> Outcomes]
          /\ receipt' = [receipt EXCEPT ![plan[r]] = outcome[r]]
          /\ status' = [status EXCEPT ![plan[r]] = Lifecycle!Summary(outcome[r])]
      BY <2>1, <2>2, ReceiptWritten
    <3>2. status[plan[r]] = "executing"
      BY <2>2 DEF WriteReceipt
    <3>3. \A a \in Actions : outcome[r][a] = "completed" => <<plan[r], a>> \in Taken
      BY <1>1 DEF OutcomesTrue, Taken
    <3>4. Lifecycle!Settle(plan[r], outcome[r])
      BY <2>1, <3>1, <3>2, <3>3 DEF Lifecycle!Settle, Taken
    <3> QED BY <1>1, <3>1, <3>4 DEF Lifecycle!LifecycleNext, Lifecycle!Outcomes
  <2>3. CASE UNCHANGED <<status, receipt>>
    BY <2>1, <2>3, StutterMaps DEF Stutters
  <2> QED BY <2>1, <2>2, <2>3
<1>4. CASE SkipDependent(r) \/ CheckTarget(r) \/ CommandHit(r) \/ InsertRecord(r)
           \/ InsertTimesOut(r) \/ CommandRefused(r)
  <2>1. Stutters
    BY <1>4 DEF SkipDependent, CheckTarget, CommandHit, InsertRecord, InsertTimesOut,
                CommandRefused,
                Stutters, tableVars, domainVars
  <2> QED BY <2>1, StutterMaps
<1> QED BY <1>2, <1>3, <1>4 DEF ExecutorStep

LEMMA InitMaps == Init => Lifecycle!LifecycleInit
BY DEF Init, Lifecycle!LifecycleInit

LEMMA StepMaps == RefineInv /\ [Next]_vars => [Lifecycle!LifecycleNext]_(Lifecycle!lifecycleVars)
<1> SUFFICES ASSUME RefineInv, [Next]_vars
             PROVE  [Lifecycle!LifecycleNext]_(Lifecycle!lifecycleVars)
  OBVIOUS
<1>1. CASE \E t \in Plans : PrepareStep(t)
  BY <1>1, PrepareMaps
<1>2. CASE \E c \in Chats : ListPlans(c)
  BY <1>2, ListMaps DEF RefineInv, ReceiptInv, ExecInv, PrepareInv, TypeInv
<1>3. CASE \E r \in Requests : ReserveStep(r) \/ ExecutorStep(r)
  BY <1>3, ReserveMaps, ExecutorMaps
<1>4. CASE \/ Tick \/ Crash \/ UNCHANGED vars
           \/ \E a \in Guarded : CloseTarget(a)
           \/ \E r \in Requests, p \in Plans, k \in Keys : GetPlan(r, p, k)
  <2>1. Stutters
    BY <1>4 DEF Tick, Crash, CloseTarget, GetPlan, Stutters, vars, tableVars, domainVars
  <2> QED BY <2>1, StutterMaps
<1> QED BY <1>1, <1>2, <1>3, <1>4 DEF Next

\* The table of plans, with its locks, leases, retries, two executors at once
\* and restarts, keeps what PlanLifecycle promises, step by step.
THEOREM PlansImplementLifecycle == Spec => Implements
<1>1. Spec => Lifecycle!LifecycleInit /\ [][Lifecycle!LifecycleNext]_(Lifecycle!lifecycleVars)
  BY InitMaps, StepMaps, RefineInvariant, PTL DEF Spec
<1> QED BY <1>1 DEF Implements, Lifecycle!LifecycleSpec
=============================================================================
