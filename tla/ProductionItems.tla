-------------------------- MODULE ProductionItems --------------------------
(***************************************************************************)
(* The production items of a campaign: their status and version, the       *)
(* dependencies between them, and the commands that change them, one item  *)
(* at a time or in a batch.                                                *)
(*                                                                         *)
(* status and version are columns of campaign_items, edges the committed   *)
(* rows of item_dependencies, <<item, item it depends on>>.  A command is  *)
(* a transaction on a connection of the service's pool; a batch keeps one  *)
(* connection and a transaction for its own idempotency record, and        *)
(* updates every item in a transaction of its own on another.              *)
(*                                                                         *)
(* The database runs READ COMMITTED: a statement sees what was committed   *)
(* when it began, and a row it locks as it is once the lock is granted.    *)
(* The steps of a call end where another transaction can make a            *)
(* difference; a transaction that commits as soon as it has its lock is    *)
(* one step with it.                                                       *)
(***************************************************************************)
EXTENDS Integers, Sequences, FiniteSets

CONSTANTS
  Items,
  Calls,      \* requests to the service
  Commands,   \* what they may ask for: records [op, item, arg]
  Order,      \* the items in the order a batch takes them
  Boards,     \* the statuses and dependencies the model may start from: no cycle
              \* yet, and what is completed depends on completed items
  PoolSize    \* connections of the pool

Statuses == {"draft", "ready", "in_review", "completed", "cancelled"}
Terminal == {"completed", "cancelled"}
Edges    == Items \X Items
Ops      == {"update", "transition", "add", "remove", "batch"}
Replies  == {"none", "ok", "item_terminal", "invalid_item_transition", "item_blocked",
             "version_conflict", "dependency_terminal", "dependency_cycle",
             "dependency_exists", "dependency_not_found", "unavailable"}

\* j is reached from i along the edges of E.
Reaches(E, i, j) ==
  \A S \in SUBSET Items : (i \in S /\ \A e \in E : e[1] \in S => e[2] \in S) => j \in S

ASSUME PoolAssumption == PoolSize \in Nat \ {0}
ASSUME CommandsAssumption ==
  \A m \in Commands : /\ m.op \in Ops /\ m.item \in Items
                      /\ m.op \in {"add", "remove"} => m.arg \in Items \ {m.item}
                      /\ m.op = "transition" => m.arg \in Statuses
ASSUME OrderAssumption == Order \in Seq(Items)
ASSUME BoardsAssumption ==
  \A b \in Boards :
    /\ b.status \in [Items -> Statuses] /\ b.edges \subseteq Edges
    /\ \A e \in b.edges : b.status[e[1]] = "completed" => b.status[e[2]] = "completed"
    /\ \A e \in b.edges : ~Reaches(b.edges, e[2], e[1])

VARIABLES
  status, version, edges,
  saw,        \* history: the edges the trigger of an edge's insertion could read
  pc, cmd, seen, key, reply,
  blocked,    \* has_incomplete_dependency, as the locking statement read it
  results,    \* what a batch's update of each item answered
  recorded    \* the items the updates of a batch key have committed a record for

itemVars == <<status, version, edges, saw>>
callVars == <<pc, cmd, seen, key, reply, blocked, results>>
vars     == <<itemVars, callVars, recorded>>

NoCommand == [op |-> "none"]
Allowed == {<<"draft", "ready">>, <<"draft", "cancelled">>, <<"ready", "draft">>,
            <<"ready", "in_review">>, <<"ready", "cancelled">>, <<"in_review", "ready">>,
            <<"in_review", "completed">>, <<"in_review", "cancelled">>}

Init ==
  /\ \E b \in Boards : status = b.status /\ edges = b.edges
  /\ version  = [i \in Items |-> 1]
  /\ saw      = [e \in Edges |-> {}]
  /\ pc       = [c \in Calls |-> "new"]
  /\ cmd      = [c \in Calls |-> NoCommand]
  /\ seen     = [c \in Calls |-> [i \in Items |-> 0]]
  /\ key      = [c \in Calls |-> c]
  /\ reply    = [c \in Calls |-> "none"]
  /\ blocked  = [c \in Calls |-> FALSE]
  /\ results  = [c \in Calls |-> [i \in Items |-> "none"]]
  /\ recorded = [c \in Calls |-> {}]

-----------------------------------------------------------------------------
(* Requests, the connections of the pool, answers *)

\* The items a command names.
Named(m) == IF m.op = "batch" THEN {Order[n] : n \in DOMAIN Order} ELSE {m.item}

\* The client sends the versions it last read.
Ask(c, m) ==
  /\ pc[c] = "new"
  /\ pc'   = [pc EXCEPT ![c] = "connect"]
  /\ cmd'  = [cmd EXCEPT ![c] = m]
  /\ seen' = [seen EXCEPT ![c] = [i \in Items |-> IF i \in Named(m) THEN version[i] ELSE 0]]
  /\ UNCHANGED <<itemVars, key, reply, blocked, results, recorded>>

\* A batch the service could not finish is sent again with its key.
AskAgain(c, d) ==
  /\ pc[c] = "new"
  /\ cmd[d].op = "batch" /\ reply[d] = "unavailable"
  /\ pc'   = [pc EXCEPT ![c] = "connect"]
  /\ cmd'  = [cmd EXCEPT ![c] = cmd[d]]
  /\ seen' = [seen EXCEPT ![c] = seen[d]]
  /\ key'  = [key EXCEPT ![c] = key[d]]
  /\ UNCHANGED <<itemVars, reply, blocked, results, recorded>>

IsBatch(c) == cmd[c].op = "batch"
Connected  == {c \in Calls : pc[c] \notin {"new", "connect", "done"}}

\* Batches that hold a second connection, for the update of an item.
Updating   == {c \in Connected : IsBatch(c) /\ pc[c] \notin {"record", "batch"}}

Free == Cardinality(Connected) + Cardinality(Updating) < PoolSize

\* The items a batch has not come to.
Left(c)   == {n \in DOMAIN Order : results[c][Order[n]] = "none"}

\* The item a call works on: a batch takes them in order.
Target(c) == IF IsBatch(c) THEN Order[CHOOSE n \in Left(c) : \A k \in Left(c) : n <= k]
                           ELSE cmd[c].item

Step(c, step) == pc' = [pc EXCEPT ![c] = step] /\ UNCHANGED <<cmd, seen, key, reply, results>>

\* The transaction of an item ends.  An AppError of a batch's update is that
\* item's result, and the batch goes on.
End(c, answer) ==
  /\ IF IsBatch(c)
       THEN /\ results' = [results EXCEPT ![c][Target(c)] = answer]
            /\ pc'      = [pc EXCEPT ![c] = "batch"]
            /\ UNCHANGED reply
       ELSE /\ reply' = [reply EXCEPT ![c] = answer]
            /\ pc'    = [pc EXCEPT ![c] = "done"]
            /\ UNCHANGED results
  /\ UNCHANGED <<cmd, seen, key>>

Connect(c) ==
  /\ Free
  /\ \/ pc[c] = "connect" /\ Step(c, IF IsBatch(c) THEN "record" ELSE "begin")
     \/ pc[c] = "batch" /\ Left(c) # {} /\ Step(c, "begin")
  /\ UNCHANGED <<itemVars, blocked, recorded>>

\* Mutant: a batch waits for the connection of its updates without a limit.
ConnectTimeoutOuter(c) ==
  /\ ~Free
  /\ pc[c] = "connect"
  /\ pc'    = [pc EXCEPT ![c] = "done"]
  /\ reply' = [reply EXCEPT ![c] = "unavailable"]
  /\ UNCHANGED <<itemVars, cmd, seen, key, blocked, results, recorded>>

\* connectionTimeoutMillis.  The error is no AppError: it ends a batch and
\* rolls its own transaction back, not those of the items it has updated.
ConnectTimeout(c) ==
  /\ ~Free
  /\ pc[c] = "connect" \/ (pc[c] = "batch" /\ Left(c) # {})
  /\ pc'    = [pc EXCEPT ![c] = "done"]
  /\ reply' = [reply EXCEPT ![c] = "unavailable"]
  /\ UNCHANGED <<itemVars, cmd, seen, key, blocked, results, recorded>>

\* Batches whose open transaction has inserted the record of their key.
Holding(c) == IsBatch(c) /\ c \in Connected /\ pc[c] # "record"

\* A batch with the key of c has committed its record.
Finished(c, d) == IsBatch(d) /\ reply[d] = "ok" /\ key[d] = key[c]

\* INSERT ... ON CONFLICT DO NOTHING waits for an open transaction with the same
\* key.  A record that is there answers with the results it keeps.
RecordBatch(c) ==
  /\ pc[c] = "record"
  /\ \A d \in Calls : Holding(d) => key[d] # key[c]
  /\ \/ (\A d \in Calls : ~Finished(c, d)) /\ Step(c, "batch")
     \/ \E d \in Calls : /\ Finished(c, d)
                        /\ pc'      = [pc EXCEPT ![c] = "done"]
                        /\ reply'   = [reply EXCEPT ![c] = "ok"]
                        /\ results' = [results EXCEPT ![c] = results[d]]
                        /\ UNCHANGED <<cmd, seen, key>>
  /\ UNCHANGED <<itemVars, blocked, recorded>>

-----------------------------------------------------------------------------
(* Locks and what is read of the dependencies *)

\* The edge an uncommitted insertion holds: the two items are locked FOR KEY
\* SHARE by its foreign keys.
Inserting(c) == pc[c] = "inserted"
EdgeOf(c)    == <<cmd[c].item, cmd[c].arg>>
Shared(i)    == \E c \in Calls : Inserting(c) /\ i \in {cmd[c].item, cmd[c].arg}

Incomplete(i) == \E e \in edges : e[1] = i /\ status[e[2]] # "completed"

-----------------------------------------------------------------------------
(* updateItemCommand, transitionProductionItem *)

\* Mutant: the updates of a batch have keys of their own every time.
PreflightAnew(c) ==
  /\ pc[c] = "begin" /\ cmd[c].op \in {"update", "transition", "batch"}
  /\ LET i == Target(c)
     IN  IF cmd[c].op = "transition" /\ <<status[i], cmd[c].arg>> \notin Allowed
           THEN End(c, "invalid_item_transition")
         ELSE IF status[i] \in Terminal THEN End(c, "item_terminal")
         ELSE Step(c, "read")
  /\ UNCHANGED <<itemVars, blocked, recorded>>

\* What is checked without a lock.  The key of a batch's update is made of the
\* batch's key, the item and its version: it finds the record of an earlier
\* attempt.
Preflight(c) ==
  /\ pc[c] = "begin" /\ cmd[c].op \in {"update", "transition", "batch"}
  /\ LET i == Target(c)
     IN  IF IsBatch(c) /\ i \in recorded[key[c]] THEN End(c, "ok")
         ELSE IF cmd[c].op = "transition" /\ <<status[i], cmd[c].arg>> \notin Allowed
           THEN End(c, "invalid_item_transition")
         ELSE IF status[i] \in Terminal THEN End(c, "item_terminal")
         ELSE Step(c, "read")
  /\ UNCHANGED <<itemVars, blocked, recorded>>

\* The SELECT ... FOR UPDATE begins: its subqueries read the dependencies as
\* they are now, even if it waits for the row.
Read(c) ==
  /\ pc[c] = "read"
  /\ blocked' = [blocked EXCEPT ![c] = Incomplete(Target(c))]
  /\ Step(c, "lock")
  /\ UNCHANGED <<itemVars, recorded>>

\* Mutant: the version is not compared.
CurrentIgnored(c) == TRUE

Current(c) == version[Target(c)] = seen[c][Target(c)]

\* The row is granted: the rest of the transaction follows.
Write(c) ==
  LET i == Target(c)
  IN  /\ pc[c] = "lock"
      /\ ~Shared(i)
      /\ IF ~Current(c) THEN End(c, "version_conflict") /\ UNCHANGED <<itemVars, recorded>>
         ELSE IF cmd[c].op = "transition" /\ cmd[c].arg = "completed" /\ blocked[c]
           THEN End(c, "item_blocked") /\ UNCHANGED <<itemVars, recorded>>
         ELSE /\ End(c, "ok")
              /\ version' = [version EXCEPT ![i] = @ + 1]
              /\ status'  = [status EXCEPT ![i] = IF cmd[c].op = "transition" THEN cmd[c].arg ELSE @]
              /\ recorded' = [recorded EXCEPT ![key[c]] = IF IsBatch(c) THEN @ \cup {i} ELSE @]
              /\ UNCHANGED <<edges, saw>>
      /\ blocked' = [blocked EXCEPT ![c] = FALSE]

\* Every item has its result: the batch commits its own record.
CommitBatch(c) ==
  /\ pc[c] = "batch" /\ Left(c) = {}
  /\ pc'    = [pc EXCEPT ![c] = "done"]
  /\ reply' = [reply EXCEPT ![c] = "ok"]
  /\ UNCHANGED <<itemVars, cmd, seen, key, blocked, results, recorded>>

-----------------------------------------------------------------------------
(* addItemDependency, removeItemDependency *)

LoadPair(c) ==
  /\ pc[c] = "begin" /\ cmd[c].op \in {"add", "remove"}
  /\ IF status[cmd[c].item] \in Terminal THEN End(c, "item_terminal")
     ELSE IF cmd[c].op = "add" /\ status[cmd[c].arg] \in Terminal THEN End(c, "dependency_terminal")
     ELSE Step(c, IF cmd[c].op = "add" THEN "trigger" ELSE "delete")
  /\ UNCHANGED <<itemVars, blocked, recorded>>

\* Mutant: only the dependencies of the predecessor itself are looked at.
ClosesCycleDirect(e) == <<e[2], e[1]>> \in edges

\* enforce_dependency_graph, BEFORE INSERT, on the committed edges.
ClosesCycle(e) == Reaches(edges, e[2], e[1])

Trigger(c) ==
  /\ pc[c] = "trigger"
  /\ IF ClosesCycle(EdgeOf(c))
       THEN End(c, "dependency_cycle") /\ UNCHANGED saw
       ELSE Step(c, "insert") /\ saw' = [saw EXCEPT ![EdgeOf(c)] = edges]
  /\ UNCHANGED <<status, version, edges, blocked, recorded>>

\* The primary key waits for a transaction that inserts the same edge.
Insert(c) ==
  /\ pc[c] = "insert"
  /\ \A d \in Calls : Inserting(d) => EdgeOf(d) # EdgeOf(c)
  /\ IF EdgeOf(c) \in edges THEN End(c, "dependency_exists") ELSE Step(c, "inserted")
  /\ UNCHANGED <<itemVars, blocked, recorded>>

\* Mutant: the version is bumped whatever it is.
BumpRefusedNever(c) == FALSE

\* bumpItemVersion finds another version or a terminal item.
BumpRefused(c) == ~Current(c) \/ status[cmd[c].item] \in Terminal
Refusal(c)     == IF status[cmd[c].item] \in Terminal THEN "item_terminal" ELSE "version_conflict"

Bumped(c) == version' = [version EXCEPT ![cmd[c].item] = @ + 1]

CommitAdd(c) ==
  /\ Inserting(c)
  /\ IF BumpRefused(c) THEN End(c, Refusal(c)) /\ UNCHANGED <<version, edges>>
     ELSE End(c, "ok") /\ Bumped(c) /\ edges' = edges \cup {EdgeOf(c)}
  /\ UNCHANGED <<status, saw, blocked, recorded>>

CommitRemove(c) ==
  /\ pc[c] = "delete"
  /\ IF EdgeOf(c) \notin edges THEN End(c, "dependency_not_found") /\ UNCHANGED <<version, edges, saw>>
     ELSE IF BumpRefused(c) THEN End(c, Refusal(c)) /\ UNCHANGED <<version, edges, saw>>
     ELSE /\ End(c, "ok")
          /\ Bumped(c)
          /\ edges' = edges \ {EdgeOf(c)}
          /\ saw'   = [e \in Edges |-> saw[e] \ {EdgeOf(c)}]
  /\ UNCHANGED <<status, blocked, recorded>>

-----------------------------------------------------------------------------
CallStep(c) == \/ Connect(c) \/ ConnectTimeout(c) \/ RecordBatch(c) \/ CommitBatch(c)
               \/ Preflight(c) \/ Read(c) \/ Write(c)
               \/ LoadPair(c) \/ Trigger(c) \/ Insert(c) \/ CommitAdd(c) \/ CommitRemove(c)

Next == \/ \E c \in Calls, m \in Commands : Ask(c, m)
        \/ \E c \in Calls, d \in Calls : AskAgain(c, d)
        \/ \E c \in Calls : CallStep(c)

\* A call the service has taken is carried on.
Fairness == \A c \in Calls : WF_vars(CallStep(c))

Spec     == Init /\ [][Next]_vars
FairSpec == Spec /\ Fairness

-----------------------------------------------------------------------------
(* Properties *)

TypeOK ==
  /\ status \in [Items -> Statuses]
  /\ version \in [Items -> Nat \ {0}]
  /\ edges \subseteq Edges
  /\ saw \in [Edges -> SUBSET Edges]
  /\ pc \in [Calls -> {"new", "connect", "record", "batch", "begin", "read", "lock", "trigger",
                       "insert", "inserted", "delete", "done"}]
  /\ cmd \in [Calls -> Commands \cup {NoCommand}]
  /\ seen \in [Calls -> [Items -> Nat]]
  /\ key \in [Calls -> Calls]
  /\ reply \in [Calls -> Replies]
  /\ blocked \in [Calls -> BOOLEAN]
  /\ results \in [Calls -> [Items -> Replies]]
  /\ recorded \in [Calls -> SUBSET Items]

\* A completed item depends on completed items only, although the dependencies
\* are read before the row is locked and an edge may be on its way
\* (items.ts:220, 325; dependencies.ts:136).
CompletedAfterDependencies ==
  \A e \in edges : status[e[1]] = "completed" => status[e[2]] = "completed"

\* The trigger refuses every cycle it can see: one that exists runs through two
\* edges whose transactions were open at once, so that the trigger of neither
\* saw the other (0014:63).
CyclesAreBlind ==
  LET Cyclic == {e \in edges : Reaches(edges, e[2], e[1])}
  IN  Cyclic # {} => \E e, f \in Cyclic : e # f /\ e \notin saw[f] /\ f \notin saw[e]

\* Changes of an item the call made: itself or, for a batch, its key.
Changed(c, i) == \/ reply[c] = "ok" /\ ~IsBatch(c) /\ cmd[c].item = i
                 \/ i \in recorded[c]

\* No two changes of an item rest on the same version of it: none is lost under
\* another (items.ts:497, dependencies.ts:142).
NoLostUpdate ==
  \A c, d \in Calls, i \in Items :
    c # d /\ Changed(c, i) /\ Changed(d, i) => seen[c][i] # seen[d][i]

\* A batch's answer tells which items it changed, even when part of it was
\* committed by an earlier attempt that failed (batch.ts:93).
BatchAnswerIsTrue ==
  \A c \in Calls : IsBatch(c) /\ reply[c] = "ok" =>
    \A i \in Named(cmd[c]) : results[c][i] = "ok" <=> i \in recorded[key[c]]

\* Every call is answered, even when the batches hold all connections and each
\* of them needs one more (pool.ts:22, batch.ts:138).
Answered == \A c \in Calls : (pc[c] = "connect") ~> (pc[c] = "done")
=============================================================================
