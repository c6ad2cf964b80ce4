---------------------------- MODULE ApprovalsProofs ----------------------------
(* What is proved of Approvals, for every value of its constants. *)
EXTENDS Approvals, SequenceTheorems, TLAPS

-----------------------------------------------------------------------------
(* The inductive invariant.                                                  *)

Rows == [verdict : Terminal, by : Users \cup {Worker}, call : Calls \cup {None}]

Typed ==
  /\ TypeOK
  /\ DOMAIN decisions = Requests /\ DOMAIN notices = Requests
  /\ \A r \in Requests : decisions[r] \in Seq(Rows)
  /\ what \in [Calls -> Verdicts \cup {"cancelled", "none"}]
  /\ calledAt \in [Calls -> Nat]
  /\ DOMAIN actor = Calls /\ DOMAIN key = Calls /\ DOMAIN seen = Calls

\* What a call asks for is known from its first step on.
Posed ==
  \A c \in Calls :
    /\ pc[c] = "new" => reply[c] = "none"
    /\ pc[c] # "new" => what[c] # "none" /\ target[c] \in Requests /\ actor[c] \in Users

\* Whoever settles a request holds its row, and the row is pending.
Held ==
  /\ \A c \in Calls : pc[c] = "locked" => holder[target[c]] = c
  /\ \A r \in batch : holder[r] = Worker /\ status[r] = "pending"

\* No call comes from the future, and a batch holds what is overdue.
Dated ==
  /\ \A c \in Calls : calledAt[c] <= clock
  /\ \A r \in batch : expiresAt[r] <= clock

\* The decision of a call is the one it asked for.
Signed ==
  \A r \in Requests : \A i \in DOMAIN decisions[r] :
    LET d == decisions[r][i]
    IN  d.call \in Calls =>
          /\ pc[d.call] = "done"
          /\ d.verdict = what[d.call] /\ d.by = actor[d.call]

ControlInv == Typed /\ Posed /\ Held /\ Dated
LogInv     == OneDecision /\ Signed /\ DecidedInTime

LEMMA ControlInit == Init => ControlInv /\ LogInv
<1> SUFFICES ASSUME Init PROVE ControlInv /\ LogInv
  OBVIOUS
<1> USE NumbersAssumption, NamesAssumption
<1>1. Typed
  BY EmptySeq DEF Init, Typed, TypeOK, Terminal, Kinds, Replies, Rows
<1>2. Posed /\ Held /\ Dated
  BY DEF Init, Posed, Held, Dated
<1>3. OneDecision
  BY DEF Init, OneDecision, Terminal, Verdicts
<1>4. \A r \in Requests : DOMAIN decisions[r] = {}
  BY EmptySeq, LenProperties DEF Init
<1> QED
  BY <1>1, <1>2, <1>3, <1>4 DEF ControlInv, LogInv, Signed, DecidedInTime

-----------------------------------------------------------------------------
(* What a step does to the tables.                                           *)

\* Call c gives its request the verdict it asked for.
Decides(c) ==
  /\ pc[c] = "locked"
  /\ target[c] \in Requests /\ status[target[c]] = "pending"
  /\ what[c] \in Verdicts /\ InTime(c)
  /\ Settle({target[c]}, what[c], actor[c], c)

\* The requests S expire.
Expires(S) ==
  /\ S \subseteq Requests
  /\ \A r \in S : status[r] = "pending" /\ expiresAt[r] <= clock
  /\ Settle(S, "expired", Worker, None)

Submits == \E s \in Submissions, n \in Lifetimes, p \in Requests \cup {None} :
             Submit(s[2], s[1], s[3], n, p)

\* An outcome is "ok" for a decision of a pending request in time only: a
\* cancellation never is.
LEMMA OkIs ==
  ASSUME ControlInv, NEW c \in Calls, pc[c] = "locked", Outcome(c) = "ok"
  PROVE  /\ target[c] \in Requests /\ status[target[c]] = "pending"
         /\ what[c] \in Verdicts /\ InTime(c)
<1>1. what[c] \in Verdicts \cup {"cancelled"} /\ target[c] \in Requests
  BY DEF ControlInv, Posed, Typed
<1>2. CASE what[c] = "cancelled"
  BY <1>2 DEF Outcome, CancelOutcome, CommentAllowed
<1>3. CASE what[c] # "cancelled"
  BY <1>1, <1>3 DEF Outcome, DecideOutcome
<1> QED
  BY <1>2, <1>3

LEMMA StepIs ==
  ASSUME ControlInv, [Next]_vars
  PROVE  \/ Unsettled
         \/ Submits
         \/ \E c \in Calls : Decides(c)
         \/ \E S \in SUBSET Requests : Expires(S)
<1>1. ASSUME NEW c \in Calls, ExpireFirst(c)
      PROVE  Unsettled \/ \E S \in SUBSET Requests : Expires(S)
  <2>1. CASE target[c] \in Overdue(calledAt[c])
    <3>1. target[c] \in Requests /\ status[target[c]] = "pending"
          /\ expiresAt[target[c]] <= calledAt[c] /\ calledAt[c] <= clock
      BY <2>1 DEF Overdue, ControlInv, Dated
    <3>2. expiresAt[target[c]] <= clock
      BY <3>1 DEF ControlInv, Typed, TypeOK
    <3>3. Settle({target[c]}, "expired", Worker, None)
      BY <1>1, <2>1 DEF ExpireFirst
    <3> QED
      BY <3>1, <3>2, <3>3 DEF Expires
  <2> QED
    BY <1>1, <2>1 DEF ExpireFirst
<1>2. ASSUME NEW c \in Calls, Commit(c) \/ LoseAnswer(c)
      PROVE  Unsettled \/ Decides(c)
  BY <1>2, OkIs DEF Commit, LoseAnswer, Conclude, Decides
<1>3. CASE ExpireBatch
  <2>1. CASE Settle(batch, "expired", Worker, None)
    BY <2>1 DEF Expires, ControlInv, Typed, TypeOK, Held, Dated
  <2> QED
    BY <1>3, <2>1 DEF ExpireBatch
<1>4. ASSUME NEW c \in Calls, CallStep(c)
      PROVE  Unsettled \/ Decides(c) \/ \E S \in SUBSET Requests : Expires(S)
  BY <1>1, <1>2, <1>4 DEF CallStep, Replay, LockRow, Rollback
<1>5. ASSUME NEW c \in Calls, NEW u, NEW r, NEW v, NEW k, Ask(c, u, r, v, k)
      PROVE  Unsettled
  BY <1>5 DEF Ask, Unsettled
<1>6. ASSUME NEW c \in Calls, NEW d \in Calls, AskAgain(c, d)
      PROVE  Unsettled
  BY <1>6 DEF AskAgain, Unsettled
<1>7. CASE SelectBatch \/ BatchFails \/ Tick
  BY <1>7 DEF SelectBatch, BatchFails, Tick, Unsettled
<1>8. CASE UNCHANGED vars
  BY <1>8 DEF vars, Unsettled
<1> QED
  BY <1>3, <1>4, <1>5, <1>6, <1>7, <1>8 DEF Next, Submits

-----------------------------------------------------------------------------
(* One decision, the one the status names.                                   *)

\* The only row of a request that is settled.
Row(v, who, c) == [verdict |-> v, by |-> who, call |-> c]

Given(S, v, who, c) ==
  /\ \A r \in S : /\ decisions'[r] = <<Row(v, who, c)>>
                  /\ status'[r] = v
                  /\ notices'[r] = notices[r] \cup {<<requestedBy[r], v>>}
  /\ \A r \in Requests \ S : /\ decisions'[r] = decisions[r]
                             /\ status'[r] = status[r]
                             /\ notices'[r] = notices[r]
  /\ requestedBy' = requestedBy /\ expiresAt' = expiresAt

LEMMA SettleIs ==
  ASSUME Typed, OneDecision,
         NEW S \in SUBSET Requests, \A r \in S : status[r] = "pending",
         NEW v, NEW who, NEW c, Settle(S, v, who, c)
  PROVE  Given(S, v, who, c)
<1>1. \A r \in S : decisions[r] = <<>>
  BY DEF OneDecision, Terminal, Verdicts
<1>2. Append(<<>>, Row(v, who, c)) = <<Row(v, who, c)>>
  OBVIOUS
<1> QED
  BY <1>1, <1>2 DEF Settle, Row, Given

LEMMA SubmitIs ==
  ASSUME Typed, NEW s \in Submissions, NEW n \in Lifetimes, NEW p, Submit(s[2], s[1], s[3], n, p)
  PROVE  /\ s[1] \in Requests /\ s[2] \in Users /\ s[3] \in Kinds
         /\ status[s[1]] = "absent" /\ status' = [status EXCEPT ![s[1]] = "pending"]
         /\ \A r \in Requests \ {s[1]} : /\ notices'[r] = notices[r]
                                         /\ requestedBy'[r] = requestedBy[r]
                                         /\ expiresAt'[r] = expiresAt[r]
         /\ \A m \in notices'[s[1]] : m[2] = "review"
         /\ decisions' = decisions
         /\ UNCHANGED <<clock, pc, what, actor, calledAt>>
<1>1. s[1] \in Requests /\ s[2] \in Users /\ s[3] \in Kinds
  BY UsersAssumption
<1> QED
  BY <1>1 DEF Submit, Typed, TypeOK, callVars

\* What a request has been given was given by the step.
OneOf(r) ==
  /\ status[r] \notin Terminal => decisions[r] = <<>>
  /\ status[r] \in Terminal => Len(decisions[r]) = 1 /\ decisions[r][1].verdict = status[r]
  /\ {n \in notices[r] : n[2] # "review"} =
       IF status[r] \in Terminal THEN {<<requestedBy[r], status[r]>>} ELSE {}

LEMMA OneDecisionSettled ==
  ASSUME Typed, OneDecision,
         NEW S \in SUBSET Requests, \A r \in S : status[r] = "pending",
         NEW v \in Terminal, NEW who, NEW c, Settle(S, v, who, c)
  PROVE  OneDecision'
<1>0. /\ \A r \in S : /\ decisions'[r] = <<Row(v, who, c)>>
                      /\ status'[r] = v
                      /\ notices'[r] = notices[r] \cup {<<requestedBy[r], v>>}
      /\ \A r \in Requests \ S : /\ decisions'[r] = decisions[r]
                                 /\ status'[r] = status[r]
                                 /\ notices'[r] = notices[r]
      /\ requestedBy' = requestedBy
  <2>1. Given(S, v, who, c)
    BY SettleIs
  <2> QED
    BY <2>1 DEF Given
<1>1. ASSUME NEW r \in Requests \ S PROVE OneOf(r)'
  <2>1. OneOf(r)
    BY DEF OneOf, OneDecision
  <2> QED
    BY <1>0, <2>1 DEF OneOf
<1>2. ASSUME NEW r \in S PROVE OneOf(r)'
  <2>1. status'[r] = v /\ decisions'[r] = <<Row(v, who, c)>> /\ requestedBy'[r] = requestedBy[r]
    BY <1>0, <1>2
  <2>2. Len(decisions'[r]) = 1 /\ decisions'[r][1].verdict = v
    BY <2>1 DEF Row
  <2>3. {n \in notices[r] : n[2] # "review"} = {}
    BY <1>2 DEF OneDecision, Terminal, Verdicts
  <2>4. v # "review"
    BY DEF Terminal, Verdicts
  <2>5. {n \in notices'[r] : n[2] # "review"} = {<<requestedBy[r], v>>}
    <3>1. notices'[r] = notices[r] \cup {<<requestedBy[r], v>>}
      BY <1>0, <1>2
    <3> QED
      BY <3>1, <2>3, <2>4
  <2> QED
    BY <2>1, <2>2, <2>5 DEF OneOf
<1> QED
  BY <1>1, <1>2 DEF OneDecision, OneOf

LEMMA OneDecisionNext ==
  ASSUME ControlInv, OneDecision, [Next]_vars
  PROVE  OneDecision'
<1>1. CASE Unsettled
  BY <1>1 DEF Unsettled, tableVars, logVars, OneDecision
<1>2. CASE Submits
  <2>1. PICK s \in Submissions, n \in Lifetimes, p \in Requests \cup {None} :
          Submit(s[2], s[1], s[3], n, p)
    BY <1>2 DEF Submits
  <2>2. ASSUME NEW r \in Requests, r # s[1] PROVE OneOf(r)'
    <3>1. /\ notices'[r] = notices[r] /\ requestedBy'[r] = requestedBy[r]
          /\ decisions'[r] = decisions[r] /\ status'[r] = status[r]
      BY <2>1, <2>2 DEF Submit, ControlInv, Typed, TypeOK
    <3>2. OneOf(r)
      BY DEF OneOf, OneDecision
    <3> QED
      BY <3>1, <3>2 DEF OneOf
  <2>3. OneOf(s[1])'
    <3>1. /\ s[1] \in Requests /\ status[s[1]] = "absent" /\ decisions' = decisions
          /\ status' = [status EXCEPT ![s[1]] = "pending"]
          /\ \A m \in notices'[s[1]] : m[2] = "review"
      BY <2>1, SubmitIs DEF ControlInv
    <3>2. status'[s[1]] = "pending"
      BY <3>1 DEF ControlInv, Typed, TypeOK
    <3>3. decisions[s[1]] = <<>>
      BY <3>1 DEF OneDecision, Terminal, Verdicts
    <3> QED
      BY <3>1, <3>2, <3>3 DEF OneOf, Terminal, Verdicts
  <2> QED
    BY <2>2, <2>3 DEF OneDecision, OneOf
<1>3. ASSUME NEW c \in Calls, Decides(c)
      PROVE  OneDecision'
  BY <1>3, OneDecisionSettled DEF Decides, ControlInv, Terminal
<1>4. ASSUME NEW S \in SUBSET Requests, Expires(S)
      PROVE  OneDecision'
  BY <1>4, OneDecisionSettled DEF Expires, ControlInv, Terminal
<1> QED
  BY StepIs, <1>1, <1>2, <1>3, <1>4

-----------------------------------------------------------------------------
(* Whose decision, and when.                                                 *)


LEMMA CallStepIs ==
  ASSUME ControlInv, NEW c \in Calls, CallStep(c)
  PROVE  /\ pc[c] \in {"expire", "begin", "locked"}
         /\ UNCHANGED <<clock, batch>>
         /\ GoTo(c, "begin") \/ GoTo(c, "locked") \/ \E a \in Replies : Answer(c, a)
<1>1. CASE ExpireFirst(c)
  BY <1>1 DEF ExpireFirst, Replies
<1>2. CASE Replay(c)
  BY <1>2 DEF Replay, Replies
<1>3. CASE LockRow(c)
  BY <1>3 DEF LockRow
<1>4. CASE Commit(c)
  <2>1. Outcome(c) \in Replies
    BY DEF Outcome, CancelOutcome, DecideOutcome, Replies
  <2> QED
    BY <1>4, <2>1 DEF Commit, Conclude
<1>5. CASE LoseAnswer(c)
  BY <1>5 DEF LoseAnswer, Conclude, Replies
<1>6. CASE Rollback(c)
  BY <1>6 DEF Rollback, Replies
<1> QED
  BY <1>1, <1>2, <1>3, <1>4, <1>5, <1>6 DEF CallStep

LEMMA CallsKept ==
  ASSUME ControlInv, [Next]_vars, NEW c \in Calls, pc[c] # "new"
  PROVE  /\ pc'[c] # "new"
         /\ pc[c] = "done" => pc'[c] = "done" /\ reply'[c] = reply[c]
         /\ what'[c] = what[c] /\ actor'[c] = actor[c] /\ target'[c] = target[c]
         /\ calledAt'[c] = calledAt[c]
<1> DEFINE Kept == /\ pc'[c] # "new"
                   /\ pc[c] = "done" => pc'[c] = "done" /\ reply'[c] = reply[c]
                   /\ what'[c] = what[c] /\ actor'[c] = actor[c] /\ target'[c] = target[c]
                   /\ calledAt'[c] = calledAt[c]
<1> USE DEF ControlInv, Typed, TypeOK
<1>1. ASSUME NEW d \in Calls, CallStep(d) PROVE Kept
  <2>1. pc[d] \in {"expire", "begin", "locked"}
    BY <1>1, CallStepIs
  <2>2. CASE GoTo(d, "begin") \/ GoTo(d, "locked")
    BY <2>1, <2>2 DEF GoTo
  <2>3. ASSUME NEW a, Answer(d, a) PROVE Kept
    BY <2>1, <2>3 DEF Answer
  <2> QED
    BY <1>1, <2>2, <2>3, CallStepIs
<1>2. ASSUME NEW d \in Calls, NEW u, NEW r, NEW v, NEW k, Ask(d, u, r, v, k) PROVE Kept
  BY <1>2 DEF Ask
<1>3. ASSUME NEW d \in Calls, NEW e \in Calls, AskAgain(d, e) PROVE Kept
  BY <1>3 DEF AskAgain
<1>4. CASE Submits
  BY <1>4 DEF Submits, Submit, callVars
<1>5. CASE SelectBatch \/ ExpireBatch \/ BatchFails \/ Tick
  BY <1>5 DEF SelectBatch, ExpireBatch, BatchFails, Tick, callVars
<1>6. CASE UNCHANGED vars
  BY <1>6 DEF vars, callVars
<1> QED
  BY <1>1, <1>2, <1>3, <1>4, <1>5, <1>6 DEF Next, Submits

LEMMA ClockGrows ==
  ASSUME ControlInv, [Next]_vars
  PROVE  clock \in Nat /\ clock' \in Nat /\ clock <= clock'
<1> USE NumbersAssumption DEF ControlInv, Typed, TypeOK
<1>1. CASE Tick
  BY <1>1 DEF Tick
<1>2. CASE clock' = clock
  BY <1>2
<1> QED
  BY <1>1, <1>2 DEF Next, vars, Submit, Ask, AskAgain, CallStep, ExpireFirst, Replay, LockRow,
     Commit, LoseAnswer, Conclude, Rollback, SelectBatch, ExpireBatch, BatchFails

-----------------------------------------------------------------------------
(* Types and control.                                                        *)

\* A settlement keeps the types of the tables.
LEMMA SettleTyped ==
  ASSUME Typed, NEW S \in SUBSET Requests, NEW v \in Terminal,
         NEW who \in Users \cup {Worker}, NEW c \in Calls \cup {None}, Settle(S, v, who, c)
  PROVE  /\ status' \in [Requests -> Terminal \cup {"absent", "pending"}]
         /\ version' \in [Requests -> Nat \ {0}]
         /\ package' \in [Requests -> {"none", "pending_approval", "authorized",
                                       "invalidated", "expired"}]
         /\ DOMAIN decisions' = Requests /\ DOMAIN notices' = Requests
         /\ \A r \in Requests : decisions'[r] \in Seq(Rows)
         /\ UNCHANGED <<kind, requestedBy, expiresAt, supersedes>>
<1>1. Row(v, who, c) \in Rows
  BY DEF Row, Rows
<1>2. ASSUME NEW r \in Requests PROVE decisions'[r] \in Seq(Rows)
  <2>1. decisions[r] \in Seq(Rows)
    BY DEF Typed
  <2>2. decisions'[r] \in {decisions[r], Append(decisions[r], Row(v, who, c))}
    BY DEF Settle, Row
  <2> QED
    BY <1>1, <2>1, <2>2, AppendProperties, SMTT(30)
<1>3. Settled(v) \in {"authorized", "invalidated", "expired"}
  BY DEF Settled
<1> QED
  BY <1>2, <1>3 DEF Settle, Typed, TypeOK

TablesTyped ==
  /\ status \in [Requests -> Terminal \cup {"absent", "pending"}]
  /\ version \in [Requests -> Nat \ {0}]
  /\ kind \in [Requests -> Kinds]
  /\ requestedBy \in [Requests -> Users \cup {None}]
  /\ expiresAt \in [Requests -> Nat]
  /\ supersedes \in [Requests -> Requests \cup {None}]
  /\ package \in [Requests -> {"none", "pending_approval", "authorized", "invalidated", "expired"}]
  /\ DOMAIN decisions = Requests /\ DOMAIN notices = Requests
  /\ \A r \in Requests : decisions[r] \in Seq(Rows)

CallsTyped ==
  /\ clock \in 0..MaxClock /\ faults \in 0..MaxFaults
  /\ holder \in [Requests -> Calls \cup {Worker, None}]
  /\ batch \subseteq Requests
  /\ pc \in [Calls -> {"new", "expire", "begin", "locked", "done"}]
  /\ target \in [Calls -> Requests \cup {None}]
  /\ reply \in [Calls -> Replies]
  /\ what \in [Calls -> Verdicts \cup {"cancelled", "none"}]
  /\ calledAt \in [Calls -> Nat]
  /\ DOMAIN actor = Calls /\ DOMAIN key = Calls /\ DOMAIN seen = Calls

LEMMA TypedIs == Typed <=> TablesTyped /\ CallsTyped
<1>1. ASSUME TablesTyped, NEW r \in Requests, NEW i \in DOMAIN decisions[r]
      PROVE  decisions[r][i] \in Rows
  <2>1. decisions[r] \in [1..Len(decisions[r]) -> Rows]
    BY <1>1, LenProperties DEF TablesTyped
  <2> QED
    BY <2>1
<1> QED
  BY <1>1 DEF Typed, TypeOK, TablesTyped, CallsTyped, Rows

LEMMA TablesNext ==
  ASSUME ControlInv, [Next]_vars
  PROVE  TablesTyped'
<1>0. Typed /\ TablesTyped
  BY TypedIs DEF ControlInv
<1>1. CASE Unsettled
  BY <1>0, <1>1 DEF Unsettled, tableVars, logVars, TablesTyped
<1>2. CASE Submits
  <2>1. PICK s \in Submissions, n \in Lifetimes, p \in Requests \cup {None} :
          Submit(s[2], s[1], s[3], n, p)
    BY <1>2 DEF Submits
  <2>2. s[1] \in Requests /\ s[2] \in Users /\ s[3] \in Kinds /\ n \in Nat /\ clock \in Nat
    BY <1>0, UsersAssumption, NumbersAssumption DEF Typed, TypeOK
  <2> QED
    BY <1>0, <2>1, <2>2, SMTT(30) DEF Submit, TablesTyped
<1>3. ASSUME NEW c \in Calls, Decides(c)
      PROVE  TablesTyped'
  <2>1. actor[c] \in Users /\ what[c] \in Terminal
    BY <1>3 DEF ControlInv, Posed, Decides, Terminal
  <2>2. target[c] \in Requests /\ Settle({target[c]}, what[c], actor[c], c)
    BY <1>3 DEF Decides
  <2> QED
    BY <1>0, <2>1, <2>2, SettleTyped DEF TablesTyped
<1>4. ASSUME NEW S \in SUBSET Requests, Expires(S)
      PROVE  TablesTyped'
  BY <1>0, <1>4, SettleTyped DEF Expires, Terminal, TablesTyped
<1> QED
  BY StepIs, <1>1, <1>2, <1>3, <1>4

LEMMA CallsNext ==
  ASSUME ControlInv, [Next]_vars
  PROVE  CallsTyped'
<1>0. CallsTyped
  BY TypedIs DEF ControlInv
<1> USE NumbersAssumption
<1>1. ASSUME NEW c \in Calls, CallStep(c) PROVE CallsTyped'
  <2>1. /\ clock' = clock /\ batch' = batch
        /\ faults' \in 0..MaxFaults
        /\ holder' \in [Requests -> Calls \cup {Worker, None}]
    BY <1>0, <1>1 DEF CallStep, ExpireFirst, Replay, LockRow, Commit, LoseAnswer, Conclude,
       Rollback, CallsTyped
  <2>2. /\ pc' \in [Calls -> {"new", "expire", "begin", "locked", "done"}]
        /\ reply' \in [Calls -> Replies]
        /\ UNCHANGED <<what, target, actor, key, seen, calledAt>>
    <3>1. CASE GoTo(c, "begin") \/ GoTo(c, "locked")
      BY <1>0, <3>1 DEF GoTo, CallsTyped
    <3>2. ASSUME NEW a \in Replies, Answer(c, a)
          PROVE  /\ pc' \in [Calls -> {"new", "expire", "begin", "locked", "done"}]
                 /\ reply' \in [Calls -> Replies]
                 /\ UNCHANGED <<what, target, actor, key, seen, calledAt>>
      BY <1>0, <3>2 DEF Answer, CallsTyped
    <3> QED
      BY <1>1, <3>1, <3>2, CallStepIs
  <2> QED
    BY <1>0, <2>1, <2>2 DEF CallsTyped
<1>2. ASSUME NEW c \in Calls, NEW u \in Users, NEW r \in Requests, NEW v \in Asked, NEW k \in Keys,
             Ask(c, u, r, v, k)
      PROVE  CallsTyped'
  BY <1>0, <1>2, UsersAssumption DEF Ask, CallsTyped
<1>3. ASSUME NEW c \in Calls, NEW d \in Calls, AskAgain(c, d) PROVE CallsTyped'
  BY <1>0, <1>3 DEF AskAgain, CallsTyped
<1>4. CASE Submits
  BY <1>0, <1>4 DEF Submits, Submit, callVars, CallsTyped
<1>5. CASE SelectBatch
  BY <1>0, <1>5 DEF SelectBatch, Overdue, callVars, CallsTyped
<1>6. CASE ExpireBatch \/ BatchFails
  BY <1>0, <1>6 DEF ExpireBatch, BatchFails, Release, callVars, CallsTyped
<1>7. CASE Tick
  BY <1>0, <1>7 DEF Tick, callVars, CallsTyped
<1>8. CASE UNCHANGED vars
  BY <1>0, <1>8 DEF vars, callVars, CallsTyped
<1> QED
  BY <1>1, <1>2, <1>3, <1>4, <1>5, <1>6, <1>7, <1>8 DEF Next, Submits

-----------------------------------------------------------------------------
LEMMA PosedNext ==
  ASSUME ControlInv, [Next]_vars
  PROVE  Posed'
<1> USE DEF ControlInv, Posed, Typed, TypeOK
<1>1. ASSUME NEW c \in Calls, CallStep(c) PROVE Posed'
  <2>1. pc[c] \in {"expire", "begin", "locked"} /\ UNCHANGED <<what, target, actor>>
    BY <1>1, CallStepIs DEF GoTo, Answer
  <2>2. CASE GoTo(c, "begin") \/ GoTo(c, "locked")
    BY <2>1, <2>2 DEF GoTo
  <2>3. ASSUME NEW a, Answer(c, a) PROVE Posed'
    BY <2>1, <2>3 DEF Answer
  <2> QED
    BY <1>1, <2>2, <2>3, CallStepIs
<1>2. ASSUME NEW c \in Calls, NEW u \in Users, NEW r \in Requests, NEW v \in Asked, NEW k \in Keys,
             Ask(c, u, r, v, k)
      PROVE  Posed'
  <2>1. v # "none"
    BY UsersAssumption DEF Verdicts
  <2> QED
    BY <1>2, <2>1 DEF Ask
<1>3. ASSUME NEW c \in Calls, NEW d \in Calls, AskAgain(c, d) PROVE Posed'
  <2>1. pc[d] # "new"
    BY <1>3 DEF AskAgain
  <2> QED
    BY <1>3, <2>1 DEF AskAgain
<1>4. CASE UNCHANGED callVars
  BY <1>4 DEF callVars
<1> QED
  BY <1>1, <1>2, <1>3, <1>4
     DEF Next, vars, Submit, SelectBatch, ExpireBatch, BatchFails, Tick

\* The row of a request in a batch is settled by the batch only.
LEMMA HeldNext ==
  ASSUME ControlInv, [Next]_vars
  PROVE  Held'
<1> USE NamesAssumption DEF ControlInv, Held, Posed, Typed, TypeOK
<1>1. ASSUME NEW c \in Calls, ExpireFirst(c) PROVE Held'
  <2>1. /\ holder' = holder /\ batch' = batch /\ target' = target
        /\ \A d \in Calls : pc'[d] = "locked" => pc[d] = "locked"
    BY <1>1 DEF ExpireFirst, Answer, GoTo
  <2>2. \A r \in batch : status'[r] = status[r]
    BY <1>1 DEF ExpireFirst, Overdue, Settle, Unsettled, tableVars
  <2> QED
    BY <2>1, <2>2
<1>2. ASSUME NEW c \in Calls, Replay(c) PROVE Held'
  BY <1>2 DEF Replay, Answer, Unsettled, tableVars
<1>3. ASSUME NEW c \in Calls, LockRow(c) PROVE Held'
  BY <1>3 DEF LockRow, GoTo, Unsettled, tableVars
<1>4. ASSUME NEW c \in Calls, NEW a, pc[c] = "locked", Conclude(c), Answer(c, a)
      PROVE  Held'
  <2>1. \A r \in batch : r # target[c] /\ status'[r] = status[r]
    BY <1>4 DEF Conclude, Settle, Unsettled, tableVars
  <2>2. \A d \in Calls \ {c} : pc[d] = "locked" => target[d] # target[c]
    <3> SUFFICES ASSUME NEW d \in Calls \ {c}, pc[d] = "locked", target[d] = target[c]
                 PROVE  FALSE
      OBVIOUS
    <3>1. holder[target[d]] = d
      OBVIOUS
    <3>2. holder[target[c]] = c
      BY <1>4
    <3> QED
      BY <3>1, <3>2
  <2> QED
    BY <1>4, <2>1, <2>2 DEF Conclude, Answer
<1>5. ASSUME NEW c \in Calls, Rollback(c) PROVE Held'
  BY <1>5 DEF Rollback, Answer, Unsettled, tableVars
<1>6. CASE Submits
  BY <1>6 DEF Submits, Submit, callVars
<1>7. CASE SelectBatch
  BY <1>7 DEF SelectBatch, Overdue, Unsettled, tableVars, callVars
<1>8. CASE ExpireBatch \/ BatchFails
  BY <1>8 DEF ExpireBatch, BatchFails, Release, callVars
<1>9. ASSUME NEW c \in Calls, NEW u, NEW r, NEW v, NEW k, Ask(c, u, r, v, k) PROVE Held'
  BY <1>9 DEF Ask, tableVars
<1>10. ASSUME NEW c \in Calls, NEW d \in Calls, AskAgain(c, d) PROVE Held'
  BY <1>10 DEF AskAgain, tableVars
<1>11. CASE Tick \/ UNCHANGED vars
  BY <1>11 DEF Tick, vars, tableVars, callVars
<1>12. ASSUME NEW c \in Calls, Commit(c) PROVE Held'
  BY <1>4, <1>12 DEF Commit, Conclude
<1>13. ASSUME NEW c \in Calls, LoseAnswer(c) PROVE Held'
  BY <1>4, <1>13 DEF LoseAnswer
<1>14. ASSUME NEW c \in Calls, CallStep(c) PROVE Held'
  BY <1>1, <1>2, <1>3, <1>5, <1>12, <1>13, <1>14 DEF CallStep
<1> HIDE DEF ControlInv, Held, Posed, Typed, TypeOK
<1> QED
  BY <1>6, <1>7, <1>8, <1>9, <1>10, <1>11, <1>14 DEF Next, Submits

LEMMA DatedNext ==
  ASSUME ControlInv, [Next]_vars
  PROVE  Dated'
<1>0. clock \in Nat /\ clock' \in Nat /\ clock <= clock'
  BY ClockGrows
<1>1. ASSUME NEW c \in Calls PROVE calledAt'[c] <= clock'
  <2>1. calledAt'[c] \in {calledAt[c], clock}
    BY CallsKept, CallStepIs
       DEF Next, vars, callVars, Submit, Ask, AskAgain, SelectBatch, ExpireBatch, BatchFails, Tick,
           GoTo, Answer, ControlInv, Typed
  <2> QED
    BY <1>0, <2>1 DEF ControlInv, Dated, Typed
<1>2. ASSUME NEW r \in batch' PROVE expiresAt'[r] <= clock'
  <2>1. CASE r \in batch
    <3>1. status[r] = "pending" /\ r \in Requests /\ expiresAt[r] <= clock
      BY <2>1 DEF ControlInv, Held, Dated, Typed, TypeOK
    <3>2. expiresAt'[r] = expiresAt[r]
      <4>1. CASE Submits
        BY <3>1, <4>1, UsersAssumption DEF Submits, Submit, ControlInv, Typed, TypeOK
      <4>2. CASE expiresAt' = expiresAt
        BY <4>2
      <4> QED
        BY StepIs, <4>1, <4>2 DEF Unsettled, tableVars, Decides, Expires, Settle
    <3> QED
      BY <1>0, <3>1, <3>2 DEF ControlInv, Typed, TypeOK
  <2>2. CASE r \notin batch
    <3>1. SelectBatch
      BY <1>2, <2>2, CallStepIs DEF Next, vars, Submit, Ask, AskAgain, ExpireBatch, BatchFails,
         Release, Tick
    <3> QED
      BY <1>2, <3>1 DEF SelectBatch, Overdue, Unsettled, tableVars
  <2> QED
    BY <2>1, <2>2
<1> QED
  BY <1>1, <1>2 DEF Dated

LEMMA ControlNext == ControlInv /\ [Next]_vars => ControlInv'
<1>1. TablesTyped' /\ CallsTyped' => Typed'
  BY TypedIs, PTL
<1> QED
  BY <1>1, TablesNext, CallsNext, PosedNext, HeldNext, DatedNext DEF ControlInv

-----------------------------------------------------------------------------
(* Whose decision the log holds, and since when.                             *)

\* One row of the log is its caller's verdict, given in time.
RowRight(r, d) ==
  /\ d.call \in Calls => /\ pc[d.call] = "done"
                         /\ d.verdict = what[d.call] /\ d.by = actor[d.call]
                         /\ calledAt[d.call] < expiresAt[r]
  /\ d.call \notin Calls => expiresAt[r] <= clock

RowsRight == \A r \in Requests : \A i \in DOMAIN decisions[r] : RowRight(r, decisions[r][i])

LEMMA RowsRightIs == RowsRight <=> Signed /\ DecidedInTime
BY DEF RowsRight, RowRight, Signed, DecidedInTime

\* A row that was right stays right, on a request that keeps its expiry.
LEMMA RowKept ==
  ASSUME ControlInv, [Next]_vars, NEW r \in Requests, NEW d, RowRight(r, d),
         expiresAt'[r] = expiresAt[r]
  PROVE  RowRight(r, d)'
<1>1. CASE d.call \in Calls
  BY <1>1, CallsKept DEF RowRight
<1>2. CASE d.call \notin Calls
  BY <1>2, ClockGrows DEF RowRight, ControlInv, Typed, TypeOK
<1> QED
  BY <1>1, <1>2

\* The rows of requests that are not settled by the step.
LEMMA RowsKept ==
  ASSUME ControlInv, RowsRight, [Next]_vars, NEW r \in Requests,
         decisions'[r] = decisions[r], expiresAt'[r] = expiresAt[r]
  PROVE  \A i \in DOMAIN decisions'[r] : RowRight(r, decisions[r][i])'
BY RowKept DEF RowsRight

LEMMA DecisionIs ==
  ASSUME ControlInv, [Next]_vars, NEW c \in Calls, Decides(c)
  PROVE  pc'[c] = "done"
<1> USE NamesAssumption
<1>1. pc[c] = "locked" /\ target[c] \in Requests /\ status'[target[c]] # status[target[c]]
      /\ status[target[c]] = "pending" /\ holder[target[c]] = c
  BY DEF Decides, Settle, ControlInv, Held, Verdicts
<1>2. ASSUME NEW d \in Calls, CallStep(d) PROVE pc'[c] = "done"
  <2>1. CASE ExpireFirst(d)
    BY <1>1, <2>1 DEF ExpireFirst, Overdue, Settle, Unsettled, tableVars, ControlInv, Typed, TypeOK
  <2>2. CASE Replay(d) \/ LockRow(d) \/ Rollback(d)
    BY <1>1, <2>2 DEF Replay, LockRow, Rollback, Unsettled, tableVars
  <2>3. CASE Commit(d) \/ LoseAnswer(d)
    <3>1. pc[d] = "locked" /\ (status' = status \/ Settle({target[d]}, what[d], actor[d], d))
      BY <2>3 DEF Commit, LoseAnswer, Conclude, Unsettled, tableVars
    <3>2. target[d] = target[c]
      BY <1>1, <3>1 DEF Settle
    <3>3. d = c
      BY <1>1, <3>1, <3>2 DEF ControlInv, Held
    <3> QED
      BY <2>3, <3>3 DEF Commit, LoseAnswer, Answer, ControlInv, Typed, TypeOK
  <2> QED
    BY <1>2, <2>1, <2>2, <2>3 DEF CallStep
<1>3. ~ExpireBatch
  <2> SUFFICES ASSUME ExpireBatch PROVE FALSE
    OBVIOUS
  <2>1. target[c] \in batch
    BY <1>1 DEF ExpireBatch, Settle, Unsettled, tableVars
  <2> QED
    BY <1>1, <2>1 DEF ControlInv, Held
<1>4. ~Submits
  BY <1>1 DEF Submits, Submit, ControlInv, Typed, TypeOK
<1> QED
  BY <1>1, <1>2, <1>3, <1>4 DEF Next, Submits, vars, tableVars, Ask, AskAgain, SelectBatch,
     BatchFails, Tick, Unsettled

LEMMA RowsNext ==
  ASSUME ControlInv, OneDecision, RowsRight, [Next]_vars
  PROVE  RowsRight'
<1>1. CASE Unsettled
  BY <1>1, RowsKept DEF Unsettled, tableVars, logVars, RowsRight
<1>2. CASE Submits
  <2>1. PICK s \in Submissions, n \in Lifetimes, p \in Requests \cup {None} :
          Submit(s[2], s[1], s[3], n, p)
    BY <1>2 DEF Submits
  <2>2. /\ s[1] \in Requests /\ status[s[1]] = "absent" /\ decisions' = decisions
        /\ \A r \in Requests \ {s[1]} : expiresAt'[r] = expiresAt[r]
    BY <2>1, SubmitIs DEF ControlInv
  <2>3. decisions[s[1]] = <<>>
    BY <2>2 DEF OneDecision, Terminal, Verdicts
  <2> QED
    BY <2>2, <2>3, RowsKept DEF RowsRight
<1>3. ASSUME NEW c \in Calls, Decides(c)
      PROVE  RowsRight'
  <2>1. PICK q \in Requests, v \in Verdicts, who \in {actor[c]} :
          q = target[c] /\ v = what[c] /\ who = actor[c]
    BY <1>3 DEF Decides
  <2>2. Settle({q}, v, who, c) /\ status[q] = "pending"
    BY <1>3, <2>1 DEF Decides
  <2>3. /\ \A r \in {q} : decisions'[r] = <<Row(v, who, c)>>
        /\ \A r \in Requests \ {q} : decisions'[r] = decisions[r]
        /\ expiresAt' = expiresAt
    <3>1. PICK S \in SUBSET Requests : S = {q}
      OBVIOUS
    <3>2. Settle(S, v, who, c) /\ \A r \in S : status[r] = "pending"
      BY <2>2, <3>1
    <3>3. Given(S, v, who, c)
      BY <3>2, SettleIs DEF ControlInv
    <3> QED
      BY <3>1, <3>3 DEF Given
  <2>4. RowRight(q, Row(v, who, c))'
    <3>1. pc'[c] = "done" /\ calledAt[c] < expiresAt[q] /\ pc[c] # "new"
      BY <1>3, <2>1, DecisionIs DEF Decides, InTime
    <3>2. what'[c] = what[c] /\ actor'[c] = actor[c] /\ calledAt'[c] = calledAt[c]
      BY <3>1, CallsKept
    <3> QED
      BY <2>1, <2>3, <3>1, <3>2 DEF RowRight, Row
  <2>5. ASSUME NEW r \in Requests, NEW i \in DOMAIN decisions'[r]
        PROVE  RowRight(r, decisions[r][i])'
    <3>1. CASE r = q
      BY <2>3, <2>4, <2>5, <3>1
    <3>2. CASE r # q
      BY <2>3, <2>5, <3>2, RowsKept
    <3> QED
      BY <3>1, <3>2
  <2> QED
    BY <2>5 DEF RowsRight
<1>4. ASSUME NEW S \in SUBSET Requests, Expires(S)
      PROVE  RowsRight'
  <2>1. /\ \A r \in S : decisions'[r] = <<Row("expired", Worker, None)>>
        /\ \A r \in Requests \ S : decisions'[r] = decisions[r]
        /\ expiresAt' = expiresAt
    <3>1. Given(S, "expired", Worker, None)
      BY <1>4, SettleIs DEF Expires, ControlInv
    <3> QED
      BY <3>1 DEF Given
  <2>2. ASSUME NEW r \in S
        PROVE  RowRight(r, Row("expired", Worker, None))'
    <3>1. expiresAt[r] <= clock /\ r \in Requests
      BY <1>4 DEF Expires
    <3> QED
      BY <2>1, <3>1, ClockGrows, NamesAssumption DEF RowRight, Row, ControlInv, Typed, TypeOK
  <2>3. ASSUME NEW r \in Requests, NEW i \in DOMAIN decisions'[r]
        PROVE  RowRight(r, decisions[r][i])'
    <3>1. CASE r \in S
      BY <2>1, <2>2, <2>3, <3>1
    <3>2. CASE r \notin S
      BY <2>1, <2>3, <3>2, RowsKept
    <3> QED
      BY <3>1, <3>2
  <2> QED
    BY <2>3 DEF RowsRight
<1> QED
  BY StepIs, <1>1, <1>2, <1>3, <1>4

-----------------------------------------------------------------------------
(* What a caller is told.                                                    *)

LEMMA NothingDecided ==
  ASSUME ControlInv, OneDecision, NEW r \in Requests, status[r] \in {"absent", "pending"}
  PROVE  DOMAIN decisions[r] = {}
<1>1. decisions[r] = <<>>
  BY DEF OneDecision, Terminal, Verdicts
<1> QED
  BY <1>1

\* The log only grows.
LEMMA LogGrows ==
  ASSUME ControlInv, OneDecision, [Next]_vars, NEW r \in Requests, NEW i \in DOMAIN decisions[r]
  PROVE  i \in DOMAIN decisions'[r] /\ decisions'[r][i] = decisions[r][i]
<1>0. status[r] \notin {"absent", "pending"}
  BY NothingDecided
<1>1. CASE Unsettled
  BY <1>1 DEF Unsettled, logVars
<1>2. CASE Submits
  BY <1>2 DEF Submits, Submit
<1>3. ASSUME NEW c \in Calls, Decides(c) PROVE decisions'[r] = decisions[r]
  BY <1>0, <1>3 DEF Decides, Settle
<1>4. ASSUME NEW S \in SUBSET Requests, Expires(S) PROVE decisions'[r] = decisions[r]
  BY <1>0, <1>4 DEF Expires, Settle
<1> QED
  BY StepIs, <1>1, <1>2, <1>3, <1>4

\* Call c finds its own decision on its request.
Found(c) == \E i \in DOMAIN decisions[target[c]] :
              /\ decisions[target[c]][i].verdict = what[c]
              /\ decisions[target[c]][i].by = actor[c]

LEMMA FoundKept ==
  ASSUME ControlInv, OneDecision, [Next]_vars, NEW c \in Calls, pc[c] # "new", Found(c)
  PROVE  Found(c)'
<1>1. PICK r \in Requests : r = target[c]
  BY DEF ControlInv, Posed
<1>2. target'[c] = r /\ what'[c] = what[c] /\ actor'[c] = actor[c]
  BY <1>1, CallsKept
<1>3. PICK i \in DOMAIN decisions[r] : /\ decisions[r][i].verdict = what[c]
                                       /\ decisions[r][i].by = actor[c]
  BY <1>1 DEF Found
<1>4. i \in DOMAIN decisions'[r] /\ decisions'[r][i] = decisions[r][i]
  BY <1>3, LogGrows
<1> QED
  BY <1>2, <1>3, <1>4 DEF Found

\* A replayed answer is that of a call that asked for the same.
LEMMA ReplayFound ==
  ASSUME ControlInv, Signed, NEW c \in Calls, NEW d \in Recorded(c), SamePayload(c, d),
         pc[c] = "begin"
  PROVE  Found(c)
<1>1. target[c] \in Requests /\ d \in Calls
  BY DEF ControlInv, Posed, Recorded
<1>2. PICK i \in DOMAIN decisions[target[c]] : decisions[target[c]][i].call = d /\ SameRecord(c, d)
  BY DEF Recorded
<1>3. /\ decisions[target[c]][i].verdict = what[d]
      /\ decisions[target[c]][i].by = actor[d]
  BY <1>1, <1>2 DEF Signed
<1>4. what[d] = what[c] /\ actor[d] = actor[c]
  BY <1>2 DEF SamePayload, SameRecord
<1> QED
  BY <1>2, <1>3, <1>4 DEF Found

LEMMA DecisionFound ==
  ASSUME ControlInv, OneDecision, [Next]_vars, NEW c \in Calls, Decides(c)
  PROVE  Found(c)'
<1>1. PICK q \in Requests, v \in Verdicts, who \in {actor[c]} : q = target[c] /\ v = what[c] /\ who = actor[c]
  BY DEF Decides
<1>2. PICK S \in SUBSET Requests : S = {q}
  OBVIOUS
<1>3. Settle(S, v, who, c) /\ \A r \in S : status[r] = "pending"
  BY <1>1, <1>2 DEF Decides
<1>4. Given(S, v, who, c)
  BY <1>3, SettleIs DEF ControlInv
<1>5. decisions'[q] = <<Row(v, who, c)>>
  BY <1>2, <1>4 DEF Given
<1>6. target'[c] = q /\ what'[c] = v /\ actor'[c] = who
  BY <1>1, CallsKept DEF Decides
<1> QED
  BY <1>5, <1>6 DEF Found, Row

LEMMA AnswerNext ==
  ASSUME ControlInv, LogInv, AnswerIsDecision, [Next]_vars
  PROVE  AnswerIsDecision'
<1> USE DEF LogInv
<1> SUFFICES ASSUME NEW c \in Calls, reply'[c] = "ok" PROVE Found(c)'
  BY DEF AnswerIsDecision, Found
<1>1. CASE reply[c] = "ok"
  <2>1. Found(c) /\ pc[c] # "new"
    BY <1>1 DEF AnswerIsDecision, Found, ControlInv, Posed
  <2> QED
    BY <2>1, FoundKept
<1>2. CASE reply[c] # "ok"
  <2>1. PICK d \in Calls : CallStep(d)
    BY <1>2 DEF Next, vars, Submit, Ask, AskAgain, SelectBatch, ExpireBatch, BatchFails, Tick,
       callVars
  <2>2. CallStep(c)
    <3>1. CASE GoTo(d, "begin") \/ GoTo(d, "locked")
      BY <1>2, <3>1 DEF GoTo
    <3>2. ASSUME NEW a, Answer(d, a) PROVE d = c
      BY <1>2, <3>2 DEF Answer, ControlInv, Typed, TypeOK
    <3> QED
      BY <2>1, <3>1, <3>2, CallStepIs
  <2>3. CASE ExpireFirst(c) \/ LockRow(c) \/ LoseAnswer(c) \/ Rollback(c)
    BY <1>2, <2>3 DEF ExpireFirst, LockRow, LoseAnswer, Rollback, Answer, GoTo, ControlInv,
       Typed, TypeOK
  <2>4. CASE Replay(c)
    <3>1. PICK b \in Recorded(c) :
            Answer(c, IF SamePayload(c, b) THEN "ok" ELSE "idempotency_conflict")
      BY <2>4 DEF Replay
    <3>2. SamePayload(c, b)
      BY <3>1 DEF Answer, ControlInv, Typed, TypeOK
    <3> QED
      BY <2>4, <3>2, ReplayFound, FoundKept DEF Replay
  <2>5. CASE Commit(c)
    <3>1. Outcome(c) = "ok" /\ pc[c] = "locked"
      BY <2>5 DEF Commit, Conclude, Answer, ControlInv, Typed, TypeOK
    <3>2. Decides(c)
      BY <2>5, <3>1, OkIs DEF Commit, Conclude, Decides
    <3> QED
      BY <3>2, DecisionFound
  <2> QED
    BY <2>2, <2>3, <2>4, <2>5 DEF CallStep
<1> QED
  BY <1>1, <1>2

-----------------------------------------------------------------------------
(* The theorems.                                                             *)

LEMMA Invariant == Spec => [](ControlInv /\ LogInv)
<1>1. Init => ControlInv /\ OneDecision /\ RowsRight
  BY ControlInit, RowsRightIs DEF LogInv
<1>2. ControlInv /\ OneDecision /\ RowsRight /\ [Next]_vars =>
        (ControlInv /\ OneDecision /\ RowsRight)'
  BY ControlNext, OneDecisionNext, RowsNext
<1>3. ControlInv /\ OneDecision /\ RowsRight => ControlInv /\ LogInv
  BY RowsRightIs DEF LogInv
<1> QED
  BY <1>1, <1>2, <1>3, PTL DEF Spec

\* Every variable keeps its type.
THEOREM TypesHold == Spec => []TypeOK
<1>1. ControlInv => TypeOK
  BY DEF ControlInv, Typed
<1> QED
  BY <1>1, Invariant, PTL

\* However decisions, expiry batches and retries meet on a request, it has at
\* most one row of approval_decisions, the one its status names, and its
\* requester is told of that verdict only (approvals.ts:612, 0008:246).
THEOREM EachDecidedOnce == Spec => []OneDecision
<1>1. LogInv => OneDecision
  BY DEF LogInv
<1> QED
  BY <1>1, Invariant, PTL

\* A person's decision was asked for before the request expired, and nothing
\* expires early (approvals.ts:576, 592).
THEOREM DecisionsInTime == Spec => []DecidedInTime
<1>1. LogInv => DecidedInTime
  BY DEF LogInv
<1> QED
  BY <1>1, Invariant, PTL

\* A caller told of success, be it from the record of an earlier call, finds its
\* own decision on the request (idempotency.ts:33).
THEOREM AnswersAreDecisions == Spec => []AnswerIsDecision
<1>1. Init => AnswerIsDecision
  BY DEF Init, AnswerIsDecision
<1>2. ControlInv /\ LogInv /\ AnswerIsDecision /\ [Next]_vars => AnswerIsDecision'
  BY AnswerNext
<1> QED
  BY <1>1, <1>2, Invariant, PTL DEF Spec

-----------------------------------------------------------------------------
(* Approvals implements ApprovalVerdict.                                     *)

LEMMA SettleGives ==
  ASSUME NEW S \in SUBSET Requests, S # {}, \A r \in S : status[r] = "pending",
         NEW v, NEW who, NEW c, Settle(S, v, who, c)
  PROVE  Verdict!Give(S, v)
BY DEF Settle, Verdict!Give, Settled, Verdict!Settled

LEMMA NextMaps ==
  ASSUME ControlInv, [Next]_vars
  PROVE  [Verdict!Next]_(Verdict!vars)
<1>1. CASE Unsettled
  BY <1>1 DEF Unsettled, tableVars, logVars, Verdict!vars
<1>2. CASE Submits
  <2>1. PICK s \in Submissions, n \in Lifetimes, p \in Requests \cup {None} :
          Submit(s[2], s[1], s[3], n, p)
    BY <1>2 DEF Submits
  <2>2. s[1] \in Requests /\ Verdict!Submit(s[1])
    BY <2>1, UsersAssumption DEF Submit, Verdict!Submit
  <2> QED
    BY <2>2 DEF Verdict!Next
<1>3. ASSUME NEW c \in Calls, Decides(c) PROVE Verdict!Next
  <2>1. PICK q \in Requests, v \in Verdicts, who \in {actor[c]} :
          q = target[c] /\ v = what[c] /\ who = actor[c]
    BY <1>3 DEF Decides
  <2>2. Verdict!Give({q}, v)
    BY <1>3, <2>1 DEF Decides, Settle, Verdict!Give, Settled, Verdict!Settled
  <2> QED
    BY <2>2 DEF Verdict!Next, Verdict!HumanVerdicts, Verdicts
<1>4. ASSUME NEW S \in SUBSET Requests, Expires(S) PROVE [Verdict!Next]_(Verdict!vars)
  <2>1. CASE S = {}
    BY <1>4, <2>1 DEF Expires, Settle, Verdict!vars, ControlInv, Typed, TypeOK
  <2>2. CASE S # {}
    BY <1>4, <2>2, SettleGives DEF Expires, Verdict!Next
  <2> QED
    BY <2>1, <2>2
<1> QED
  BY StepIs, <1>1, <1>2, <1>3, <1>4

\* Every request keeps the promise of ApprovalVerdict: one verdict for good, and
\* its action package settled by the same step.
THEOREM ApprovalsKeepVerdicts == Spec => Implements
<1>1. Init => Verdict!Init
  BY DEF Init, Verdict!Init
<1>2. ControlInv /\ [Next]_vars => [Verdict!Next]_(Verdict!vars)
  BY NextMaps
<1> QED
  BY <1>1, <1>2, Invariant, PTL DEF Spec, Implements, Verdict!Spec
=============================================================================
