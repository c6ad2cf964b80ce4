----------------------- MODULE ProductionItemsProofs ------------------------
(* What is proved of ProductionItems, for every value of its constants.      *)
EXTENDS ProductionItems, WellFoundedInduction, TLAPS

-----------------------------------------------------------------------------
(* Dependencies: what the trigger's recursive query finds.                   *)

\* The edges of E that lie on a cycle of E.
Cyclic(E) == {e \in E : Reaches(E, e[2], e[1])}

LEMMA ReachesMore ==
  ASSUME NEW E, NEW F, E \subseteq F, NEW i, NEW j, Reaches(E, i, j)
  PROVE  Reaches(F, i, j)
BY DEF Reaches

LEMMA ReachesOn ==
  ASSUME NEW E, NEW i, NEW j, NEW k, Reaches(E, i, j), Reaches(E, j, k)
  PROVE  Reaches(E, i, k)
BY DEF Reaches

LEMMA ReachesNext ==
  ASSUME NEW E, NEW e \in E
  PROVE  Reaches(E, e[1], e[2])
BY DEF Reaches

\* A cycle through e closes over the other edges that lie on cycles.
LEMMA CycleWithout ==
  ASSUME NEW E \in SUBSET Edges, NEW e \in Cyclic(E)
  PROVE  Reaches(Cyclic(E) \ {e}, e[2], e[1])
<1> SUFFICES ASSUME NEW S \in SUBSET Items, e[2] \in S,
                    \A f \in Cyclic(E) \ {e} : f[1] \in S => f[2] \in S
             PROVE  e[1] \in S
  BY DEF Reaches
<1> DEFINE T == {x \in Items : Reaches(E, e[2], x) /\ (Reaches(E, x, e[1]) => x \in S)}
<1>0. e \in E /\ e[1] \in Items /\ e[2] \in Items /\ Reaches(E, e[2], e[1])
  BY DEF Cyclic, Edges
<1>1. SUFFICES ASSUME e[1] \notin S PROVE FALSE
  OBVIOUS
<1>2. e[2] \in T
  BY <1>0 DEF Reaches
<1>3. ASSUME NEW f \in E, f[1] \in T PROVE f[2] \in T
  <2>0. f[2] \in Items
    BY DEF Edges
  <2>1. Reaches(E, e[2], f[2])
    BY <1>3, ReachesNext, ReachesOn
  <2>2. ASSUME Reaches(E, f[2], e[1]) PROVE f[2] \in S
    <3>1. Reaches(E, f[1], e[1])
      BY <2>2, ReachesNext, ReachesOn
    <3>2. f[1] \in S
      BY <1>3, <3>1
    <3>3. Reaches(E, f[2], f[1])
      <4>1. Reaches(E, e[1], e[2])
        BY <1>0, ReachesNext
      <4>2. Reaches(E, f[2], e[2])
        BY <2>2, <4>1, ReachesOn
      <4>3. Reaches(E, e[2], f[1])
        BY <1>3
      <4> QED
        BY <4>2, <4>3, ReachesOn
    <3>4. f \in Cyclic(E) \ {e}
      BY <1>1, <3>2, <3>3 DEF Cyclic
    <3> QED
      BY <3>2, <3>4
  <2> QED
    BY <2>0, <2>1, <2>2
<1>4. e[1] \in T
  <2>1. T \in SUBSET Items
    OBVIOUS
  <2> HIDE DEF T
  <2> QED
    BY <1>0, <1>2, <1>3, <2>1 DEF Reaches
<1>5. Reaches(E, e[1], e[1])
  BY DEF Reaches
<1> QED
  BY <1>1, <1>4, <1>5

\* An edge on no cycle can be taken away: the cycles stay.
LEMMA CyclicWithout ==
  ASSUME NEW E \in SUBSET Edges, NEW e, e \notin Cyclic(E)
  PROVE  Cyclic(E) = Cyclic(E \ {e})
<1>1. Cyclic(E \ {e}) \subseteq Cyclic(E)
  BY ReachesMore DEF Cyclic
<1>2. ASSUME NEW f \in Cyclic(E) PROVE f \in Cyclic(E \ {e})
  <2>1. Reaches(Cyclic(E) \ {f}, f[2], f[1])
    BY CycleWithout
  <2>2. Cyclic(E) \ {f} \subseteq E \ {e}
    BY DEF Cyclic
  <2>3. Reaches(E \ {e}, f[2], f[1])
    BY <2>1, <2>2, ReachesMore
  <2> QED
    BY <2>3 DEF Cyclic
<1> QED
  BY <1>1, <1>2

\* The trigger refuses what would close a cycle with edges it sees.
LEMMA CycleUnseen ==
  ASSUME NEW E \in SUBSET Edges, NEW e \in Cyclic(E), NEW F,
         ~Reaches(F, e[2], e[1])
  PROVE  \E f \in Cyclic(E) : f # e /\ f \notin F
<1> SUFFICES ASSUME Cyclic(E) \ {e} \subseteq F PROVE FALSE
  OBVIOUS
<1> QED
  BY CycleWithout, ReachesMore

-----------------------------------------------------------------------------
(* The inductive invariant.                                                  *)

\* The attempts of one batch key ask for the same, with the same versions; a
\* call has no results before it has its record.
Asked ==
  \A c \in Calls :
    /\ pc[c] = "new" => key[c] = c /\ recorded[c] = {}
    /\ pc[c] # "new" => /\ cmd[c] \in Commands
                        /\ pc[key[c]] # "new"
                        /\ cmd[c] = cmd[key[c]] /\ seen[c] = seen[key[c]]
                        /\ \A i \in Items : seen[c][i] <= version[i]
    /\ pc[c] # "done" => reply[c] = "none"
    /\ pc[c] \in {"new", "connect", "record"} => \A i \in Items : results[c][i] = "none"
    /\ ~IsBatch(c) => key[c] = c

\* Where a call of each kind can be; a batch in an update has that one left.
Placed ==
  \A c \in Calls :
    /\ pc[c] \in {"record", "batch"} => IsBatch(c)
    /\ pc[c] \in {"read", "lock"} => cmd[c].op \in {"update", "transition", "batch"}
    /\ pc[c] \in {"trigger", "insert", "inserted"} => cmd[c].op = "add"
    /\ pc[c] = "delete" => cmd[c].op = "remove"
    /\ IsBatch(c) /\ pc[c] = "begin" => Left(c) # {}
    /\ IsBatch(c) /\ pc[c] \in {"read", "lock"} => Left(c) # {}

\* One attempt has the record of a batch key, and none once it is committed.
Keyed ==
  \A c \in Calls : Holding(c) =>
    \A d \in Calls : key[d] = key[c] => ~Finished(c, d) /\ (Holding(d) => d = c)

\* What a call found without a lock holds as long as the version does: the
\* status allows the change ...
Sound ==
  \A c \in Calls : pc[c] \in {"read", "lock"} /\ Current(c) =>
    /\ status[Target(c)] \notin Terminal
    /\ cmd[c].op = "transition" => <<status[Target(c)], cmd[c].arg>> \in Allowed

\* ... and, as the locking statement read it, the item waits for nothing.
Unblocked ==
  \A c \in Calls : pc[c] = "lock" /\ Current(c) /\ ~blocked[c] => ~Incomplete(Target(c))

\* A change leaves the version it rests on behind.
Moved == \A c \in Calls, i \in Items : Changed(c, i) => seen[c][i] < version[i]

\* The results of a batch say what its key has recorded.
Told ==
  \A c \in Calls : IsBatch(c) =>
    /\ Holding(c) \/ reply[c] = "ok" =>
         \A i \in Items : results[c][i] # "none" => (results[c][i] = "ok" <=> i \in recorded[key[c]])
    /\ reply[c] = "ok" => \A i \in Named(cmd[c]) : results[c][i] # "none"
    /\ pc[c] \in {"read", "lock"} => Target(c) \notin recorded[key[c]]

\* What the triggers saw: none of the edges there, or about to be, closed a
\* cycle then.
Seen ==
  /\ \A e \in Edges : saw[e] \subseteq edges
  /\ \A e \in edges : ~Reaches(saw[e], e[2], e[1])
  /\ \A c \in Calls : pc[c] \in {"insert", "inserted"} =>
       ~Reaches(saw[EdgeOf(c)], EdgeOf(c)[2], EdgeOf(c)[1])
  /\ \A c \in Calls : Inserting(c) =>
       /\ EdgeOf(c) \notin edges
       /\ \A d \in Calls : Inserting(d) /\ EdgeOf(d) = EdgeOf(c) => d = c

\* Every cycle, also one that others hide, has two edges blind to each other.
Blind ==
  \A E \in SUBSET edges : Cyclic(E) # {} =>
    \E e, f \in Cyclic(E) : e # f /\ e \notin saw[f] /\ f \notin saw[e]

-----------------------------------------------------------------------------
(* What a step is.                                                           *)

AtItem == {"begin", "read", "lock", "trigger", "insert", "inserted", "delete"}

\* The library states it of relations.
LEMMA LeastOf ==
  ASSUME NEW T \in SUBSET Nat, T # {}
  PROVE  \E n \in T : \A k \in T : n <= k
<1> DEFINE R == {ss \in Nat \X Nat : ss[1] < ss[2]}
<1>1. IsWellFoundedOn(R, Nat)
  BY NatLessThanWellFounded DEF OpToRel
<1>2. PICK n \in T : \A k \in T : ~(<<k, n>> \in R)
  <2> HIDE DEF R
  <2> QED
    BY <1>1, WFMin
<1>3. \A k \in T : n <= k
  <2> TAKE k \in T
  <2>1. k \in Nat /\ n \in Nat
    OBVIOUS
  <2>2. k < n => <<k, n>> \in R
    BY <2>1
  <2>3. ~(k < n)
    BY <1>2, <2>2
  <2> QED
    BY <2>1, <2>3
<1> QED
  BY <1>3

\* The item a call works on is one it names and has no result for.
LEMMA TargetIs ==
  ASSUME TypeOK, Asked, Placed, NEW c \in Calls, pc[c] \in AtItem
  PROVE  /\ Target(c) \in Items /\ Target(c) \in Named(cmd[c])
         /\ IsBatch(c) => results[c][Target(c)] = "none"
         /\ ~IsBatch(c) => Target(c) = cmd[c].item
<1>0. cmd[c] \in Commands
  BY DEF Asked, AtItem
<1>1. CASE ~IsBatch(c)
  BY <1>0, <1>1, CommandsAssumption DEF Target, Named, IsBatch
<1>2. CASE IsBatch(c)
  <2>1. Left(c) # {} /\ Left(c) \subseteq DOMAIN Order
    BY <1>2 DEF Placed, AtItem, IsBatch, Left
  <2>2. DOMAIN Order \subseteq Nat
    BY OrderAssumption
  <2>3. PICK n \in Left(c) : \A k \in Left(c) : n <= k
    BY <2>1, <2>2, LeastOf
  <2>5. PICK m : m \in Left(c) /\ Target(c) = Order[m]
    BY <1>2, <2>3 DEF Target
  <2> QED
    BY <1>2, <2>1, <2>5, OrderAssumption DEF Left, Named, IsBatch
<1> QED
  BY <1>1, <1>2

\* What a call's step leaves of the other calls and of its own request.
LEMMA OthersKept ==
  ASSUME TypeOK, NEW c \in Calls, CallStep(c)
  PROVE  /\ cmd' = cmd /\ seen' = seen /\ key' = key
         /\ pc[c] \notin {"new", "done"} /\ pc'[c] # "new"
         /\ \A d \in Calls : d # c =>
              /\ pc'[d] = pc[d] /\ reply'[d] = reply[d]
              /\ results'[d] = results[d] /\ blocked'[d] = blocked[d]
<1> USE DEF TypeOK, Step, End
<1>1. CASE Connect(c) \/ ConnectTimeout(c) \/ CommitBatch(c)
  BY <1>1 DEF Connect, ConnectTimeout, CommitBatch
<1>2. CASE RecordBatch(c)
  BY <1>2 DEF RecordBatch
<1>3. CASE Preflight(c)
  BY <1>3 DEF Preflight
<1>4. CASE Read(c)
  BY <1>4 DEF Read
<1>5. CASE Write(c)
  BY <1>5 DEF Write
<1>6. CASE LoadPair(c)
  BY <1>6 DEF LoadPair
<1>7. CASE Trigger(c)
  BY <1>7 DEF Trigger
<1>8. CASE Insert(c)
  BY <1>8 DEF Insert
<1>9. CASE CommitAdd(c)
  BY <1>9 DEF CommitAdd, Inserting
<1>10. CASE CommitRemove(c)
  BY <1>10 DEF CommitRemove
<1> QED
  BY <1>1, <1>2, <1>3, <1>4, <1>5, <1>6, <1>7, <1>8, <1>9, <1>10 DEF CallStep

\* A call that does not move works on the same item.
LEMMA TargetKept ==
  ASSUME NEW d, cmd' = cmd, results'[d] = results[d]
  PROVE  Target(d)' = Target(d) /\ Left(d)' = Left(d)
BY DEF Target, Left, IsBatch

\* The three steps that change an item.
Writes(c) ==
  /\ pc[c] = "lock" /\ Current(c)
  /\ ~(cmd[c].op = "transition" /\ cmd[c].arg = "completed" /\ blocked[c])
  /\ End(c, "ok")
  /\ version' = [version EXCEPT ![Target(c)] = @ + 1]
  /\ status' = [status EXCEPT ![Target(c)] = IF cmd[c].op = "transition" THEN cmd[c].arg ELSE @]
  /\ recorded' = [recorded EXCEPT ![key[c]] = IF IsBatch(c) THEN @ \cup {Target(c)} ELSE @]
  /\ UNCHANGED <<edges, saw>>

Adds(c) ==
  /\ Inserting(c) /\ Current(c) /\ status[cmd[c].item] \notin Terminal
  /\ End(c, "ok") /\ Bumped(c)
  /\ edges' = edges \cup {EdgeOf(c)}
  /\ UNCHANGED <<status, saw, recorded>>

Removes(c) ==
  /\ pc[c] = "delete" /\ Current(c) /\ status[cmd[c].item] \notin Terminal
  /\ End(c, "ok") /\ Bumped(c)
  /\ edges' = edges \ {EdgeOf(c)}
  /\ saw' = [e \in Edges |-> saw[e] \ {EdgeOf(c)}]
  /\ UNCHANGED <<status, recorded>>

Changing(c) == Writes(c) \/ Adds(c) \/ Removes(c)
Quiet       == UNCHANGED <<status, version, edges, recorded>>

LEMMA ChangingIs ==
  ASSUME NEW c, CallStep(c)
  PROVE  Quiet \/ Changing(c)
<1>1. CASE Write(c)
  BY <1>1 DEF Write, Writes, Quiet, Changing, itemVars
<1>2. CASE CommitAdd(c)
  BY <1>2 DEF CommitAdd, Adds, BumpRefused, Quiet, Changing
<1>3. CASE CommitRemove(c)
  BY <1>3 DEF CommitRemove, Removes, BumpRefused, Quiet, Changing
<1> QED
  BY <1>1, <1>2, <1>3 DEF CallStep, Connect, ConnectTimeout, RecordBatch, CommitBatch, Preflight,
     Read, LoadPair, Trigger, Insert, Quiet, itemVars

\* What a change does to the item it is of, and to its version.
LEMMA ChangeOf ==
  ASSUME TypeOK, Asked, Placed, NEW c \in Calls, Changing(c)
  PROVE  /\ Target(c) \in Items /\ Current(c) /\ End(c, "ok")
         /\ version' = [version EXCEPT ![Target(c)] = version[Target(c)] + 1]
         /\ \A i \in Items : i # Target(c) => status'[i] = status[i]
         /\ version[Target(c)] \in Nat /\ seen[c][Target(c)] = version[Target(c)]
<1>1. pc[c] \in AtItem /\ (~Writes(c) => ~IsBatch(c))
  BY DEF Changing, Writes, Adds, Removes, AtItem, Placed, Inserting, IsBatch
<1>2. Target(c) \in Items /\ (~IsBatch(c) => Target(c) = cmd[c].item)
  BY <1>1, TargetIs
<1>3. Current(c) /\ End(c, "ok")
  BY DEF Changing, Writes, Adds, Removes
<1>4. version' = [version EXCEPT ![Target(c)] = version[Target(c)] + 1]
  BY <1>1, <1>2 DEF Changing, Writes, Adds, Removes, Bumped
<1>5. \A i \in Items : i # Target(c) => status'[i] = status[i]
  BY DEF Changing, Writes, Adds, Removes, TypeOK
<1> QED
  BY <1>2, <1>3, <1>4, <1>5 DEF Current, TypeOK

\* Versions only grow.
LEMMA VersionsGrow ==
  ASSUME TypeOK, Asked, Placed, NEW c \in Calls, CallStep(c), NEW i \in Items
  PROVE  /\ version[i] \in Nat /\ version'[i] \in Nat /\ version[i] <= version'[i]
         /\ version'[i] = version[i] => status'[i] = status[i]
<1>1. CASE Quiet
  BY <1>1 DEF Quiet, TypeOK
<1>2. CASE Changing(c)
  <2>1. version[i] \in Nat
    BY DEF TypeOK
  <2>2. version'[i] = IF i = Target(c) THEN version[i] + 1 ELSE version[i]
    BY <1>2, ChangeOf DEF TypeOK
  <2> QED
    BY <1>2, <2>1, <2>2, ChangeOf
<1> QED
  BY <1>1, <1>2, ChangingIs

-----------------------------------------------------------------------------
(* Types, requests, places.                                                  *)

LEMMA StepIs ==
  ASSUME [Next]_vars
  PROVE  \/ \E c \in Calls, m \in Commands : Ask(c, m)
         \/ \E c \in Calls, d \in Calls : AskAgain(c, d)
         \/ \E c \in Calls : CallStep(c)
         \/ UNCHANGED vars
BY DEF Next

\* The types of a call's variables, after each of the ways a step ends.
RequestTypes ==
  /\ pc \in [Calls -> {"new", "connect", "record", "batch", "begin", "read", "lock", "trigger",
                       "insert", "inserted", "delete", "done"}]
  /\ cmd \in [Calls -> Commands \cup {NoCommand}]
  /\ seen \in [Calls -> [Items -> Nat]]
  /\ key \in [Calls -> Calls]
  /\ reply \in [Calls -> Replies]
  /\ results \in [Calls -> [Items -> Replies]]

ItemTypes ==
  /\ status \in [Items -> Statuses]
  /\ version \in [Items -> Nat \ {0}]
  /\ edges \subseteq Edges
  /\ saw \in [Edges -> SUBSET Edges]
  /\ blocked \in [Calls -> BOOLEAN]
  /\ recorded \in [Calls -> SUBSET Items]

LEMMA TypesAre == TypeOK <=> RequestTypes /\ ItemTypes
BY DEF TypeOK, RequestTypes, ItemTypes

LEMMA StepTyped ==
  ASSUME RequestTypes, NEW c \in Calls, Step(c, "record") \/ Step(c, "batch") \/ Step(c, "begin")
           \/ Step(c, "read") \/ Step(c, "lock") \/ Step(c, "trigger") \/ Step(c, "insert")
           \/ Step(c, "inserted") \/ Step(c, "delete")
  PROVE  RequestTypes'
BY DEF RequestTypes, Step

LEMMA EndTyped ==
  ASSUME RequestTypes, NEW c \in Calls, NEW a \in Replies, End(c, a)
  PROVE  RequestTypes'
<1>1. CASE IsBatch(c)
  <2>1. results' = [results EXCEPT ![c] = [results[c] EXCEPT ![Target(c)] = a]]
    BY <1>1 DEF End
  <2>2. results' \in [Calls -> [Items -> Replies]]
    <3>1. [results[c] EXCEPT ![Target(c)] = a] \in [Items -> Replies]
      BY DEF RequestTypes
    <3> QED
      BY <2>1, <3>1 DEF RequestTypes
  <2> QED
    BY <1>1, <2>2 DEF RequestTypes, End
<1>2. CASE ~IsBatch(c)
  BY <1>2 DEF RequestTypes, End
<1> QED
  BY <1>1, <1>2

\* What the answers of the steps are.
LEMMA Ends ==
  ASSUME NEW c, CallStep(c)
  PROVE  \/ Connect(c) \/ ConnectTimeout(c) \/ CommitBatch(c) \/ RecordBatch(c)
         \/ Step(c, "read") \/ Step(c, "lock") \/ Step(c, "trigger") \/ Step(c, "insert")
         \/ Step(c, "inserted") \/ Step(c, "delete")
         \/ \E a \in Replies : End(c, a)
BY DEF CallStep, Preflight, Read, Write, LoadPair, Trigger, Insert, CommitAdd, CommitRemove,
   Refusal, Replies

LEMMA RequestTyped ==
  ASSUME TypeOK, NEW c \in Calls, CallStep(c)
  PROVE  RequestTypes'
<1>0. RequestTypes
  BY TypesAre
<1>1. CASE Connect(c)
  BY <1>0, <1>1, StepTyped DEF Connect
<1>2. CASE ConnectTimeout(c) \/ CommitBatch(c)
  BY <1>0, <1>2 DEF ConnectTimeout, CommitBatch, RequestTypes, Replies
<1>3. CASE RecordBatch(c)
  <2>1. ASSUME NEW d \in Calls, pc' = [pc EXCEPT ![c] = "done"], reply' = [reply EXCEPT ![c] = "ok"],
               results' = [results EXCEPT ![c] = results[d]], UNCHANGED <<cmd, seen, key>>
        PROVE  RequestTypes'
    BY <1>0, <2>1 DEF RequestTypes, Replies
  <2> QED
    BY <1>0, <1>3, <2>1, StepTyped DEF RecordBatch
<1> QED
  BY <1>0, <1>1, <1>2, <1>3, Ends, StepTyped, EndTyped

LEMMA ItemTyped ==
  ASSUME TypeOK, Asked, Placed, NEW c \in Calls, CallStep(c)
  PROVE  ItemTypes'
<1> USE DEF ItemTypes
<1>0. ItemTypes
  BY TypesAre
<1>1. CASE Connect(c) \/ ConnectTimeout(c) \/ CommitBatch(c) \/ RecordBatch(c) \/ Preflight(c)
           \/ LoadPair(c) \/ Insert(c)
  BY <1>0, <1>1 DEF Connect, ConnectTimeout, CommitBatch, RecordBatch, Preflight, LoadPair, Insert,
     itemVars
<1>2. CASE Read(c)
  BY <1>0, <1>2 DEF Read, Incomplete, itemVars
<1>3. CASE Write(c)
  <2>1. blocked' \in [Calls -> BOOLEAN] /\ edges' = edges /\ saw' = saw
    BY <1>0, <1>3 DEF Write, itemVars
  <2>2. CASE UNCHANGED <<status, version, recorded>>
    BY <1>0, <2>1, <2>2
  <2>3. CASE Writes(c)
    <3>1. Target(c) \in Items /\ key[c] \in Calls
      BY <2>3, TargetIs DEF Writes, AtItem, TypeOK
    <3>2. cmd[c].op = "transition" => cmd[c].arg \in Statuses
      BY <2>3, CommandsAssumption DEF Writes, Asked
    <3>3. recorded' \in [Calls -> SUBSET Items] /\ version' \in [Items -> Nat \ {0}]
      BY <1>0, <2>3, <3>1 DEF Writes
    <3>4. status' \in [Items -> Statuses]
      BY <1>0, <2>3, <3>1, <3>2 DEF Writes
    <3> QED
      BY <1>0, <2>1, <3>3, <3>4
  <2> QED
    BY <1>3, <2>2, <2>3 DEF Write, Writes, itemVars
<1>4. CASE Trigger(c)
  BY <1>0, <1>4 DEF Trigger
<1>5. CASE CommitAdd(c)
  <2>1. EdgeOf(c) \in Edges /\ cmd[c].item \in Items
    BY <1>5, CommandsAssumption DEF CommitAdd, Inserting, EdgeOf, Asked, Placed, Edges
  <2> QED
    BY <1>0, <1>5, <2>1 DEF CommitAdd, Bumped
<1>6. CASE CommitRemove(c)
  BY <1>0, <1>6 DEF CommitRemove, Bumped
<1> QED
  BY <1>1, <1>2, <1>3, <1>4, <1>5, <1>6 DEF CallStep

LEMMA TypedNext ==
  ASSUME TypeOK, Asked, Placed, [Next]_vars
  PROVE  TypeOK'
<1>1. ASSUME NEW c \in Calls, NEW m \in Commands, Ask(c, m) PROVE TypeOK'
  BY <1>1 DEF Ask, TypeOK, itemVars
<1>2. ASSUME NEW c \in Calls, NEW d \in Calls, AskAgain(c, d) PROVE TypeOK'
  BY <1>2 DEF AskAgain, TypeOK, itemVars
<1>3. ASSUME NEW c \in Calls, CallStep(c) PROVE TypeOK'
  <2>1. RequestTypes' /\ ItemTypes'
    BY <1>3, RequestTyped, ItemTyped
  <2> QED
    BY <2>1, TypesAre, PTL
<1>4. CASE UNCHANGED vars
  BY <1>4 DEF vars, callVars, itemVars, TypeOK
<1> QED
  BY <1>1, <1>2, <1>3, <1>4, StepIs

LEMMA AskedNext ==
  ASSUME TypeOK, Asked, Placed, [Next]_vars
  PROVE  Asked'
<1>1. ASSUME NEW c \in Calls, NEW m \in Commands, Ask(c, m) PROVE Asked'
  BY <1>1 DEF Ask, TypeOK, itemVars, Asked, IsBatch
<1>2. ASSUME NEW c \in Calls, NEW d \in Calls, AskAgain(c, d) PROVE Asked'
  BY <1>2 DEF AskAgain, TypeOK, itemVars, Asked, IsBatch
<1>3. ASSUME NEW c \in Calls, CallStep(c) PROVE Asked'
  <2>1. \A d \in Calls, i \in Items :
          seen[d][i] \in Nat /\ version[i] \in Nat /\ version'[i] \in Nat /\ version[i] <= version'[i]
    BY <1>3, VersionsGrow DEF TypeOK
  <2>2. \A d \in Calls, i \in Items : seen[d][i] <= version[i] => seen[d][i] <= version'[i]
    BY <2>1
  <2>3. pc'[c] # "done" => reply'[c] = "none"
    BY <1>3 DEF CallStep, Connect, ConnectTimeout, RecordBatch, CommitBatch, Preflight, Read,
       Write, LoadPair, Trigger, Insert, CommitAdd, CommitRemove, Step, End, Asked, Inserting, TypeOK
  <2>4. pc'[c] \in {"connect", "record"} =>
          pc[c] \in {"connect", "record"} /\ results'[c] = results[c]
    BY <1>3 DEF CallStep, Connect, ConnectTimeout, RecordBatch, CommitBatch, Preflight, Read,
       Write, LoadPair, Trigger, Insert, CommitAdd, CommitRemove, Step, End, Inserting, TypeOK
  <2>5. \A d \in Calls : recorded[d] = {} => recorded'[d] = {} \/ pc[d] # "new"
    <3>1. CASE Quiet
      BY <3>1 DEF Quiet
    <3>2. CASE Changing(c)
      BY <3>2 DEF Changing, Writes, Adds, Removes, Asked, TypeOK
    <3> QED
      BY <1>3, <3>1, <3>2, ChangingIs
  <2>6. /\ cmd' = cmd /\ seen' = seen /\ key' = key
        /\ pc[c] \notin {"new", "done"} /\ pc'[c] # "new"
        /\ \A d \in Calls : d # c =>
             pc'[d] = pc[d] /\ reply'[d] = reply[d] /\ results'[d] = results[d]
    BY <1>3, OthersKept
  <2> SUFFICES ASSUME NEW d \in Calls
               PROVE  /\ pc'[d] = "new" => key'[d] = d /\ recorded'[d] = {}
                      /\ pc'[d] # "new" => /\ cmd'[d] \in Commands
                                           /\ pc'[key'[d]] # "new"
                                           /\ cmd'[d] = cmd'[key'[d]] /\ seen'[d] = seen'[key'[d]]
                                           /\ \A i \in Items : seen'[d][i] <= version'[i]
                      /\ pc'[d] # "done" => reply'[d] = "none"
                      /\ pc'[d] \in {"new", "connect", "record"} =>
                           \A i \in Items : results'[d][i] = "none"
                      /\ cmd'[d].op # "batch" => key'[d] = d
    BY DEF Asked, IsBatch
  <2>7. pc'[d] = "new" <=> pc[d] = "new"
    BY <2>6
  <2>8. pc'[d] # "new" => /\ pc'[key'[d]] # "new"
                          /\ \A i \in Items : seen'[d][i] <= version'[i]
    BY <2>2, <2>6, <2>7 DEF Asked, TypeOK
  <2>9. pc'[d] \in {"new", "connect", "record"} => \A i \in Items : results'[d][i] = "none"
    BY <2>4, <2>6 DEF Asked
  <2>10. pc'[d] = "new" => key'[d] = d /\ recorded'[d] = {}
    BY <2>5, <2>6, <2>7 DEF Asked
  <2>11. pc'[d] # "new" => /\ cmd'[d] \in Commands
                           /\ cmd'[d] = cmd'[key'[d]] /\ seen'[d] = seen'[key'[d]]
    BY <2>6, <2>7 DEF Asked
  <2>12. pc'[d] # "done" => reply'[d] = "none"
    BY <2>3, <2>6 DEF Asked
  <2>13. cmd'[d].op # "batch" => key'[d] = d
    BY <2>6 DEF Asked, IsBatch
  <2> QED
    BY <2>8, <2>9, <2>10, <2>11, <2>12, <2>13
<1>4. CASE UNCHANGED vars
  BY <1>4 DEF vars, callVars, itemVars, Asked, IsBatch
<1> QED
  BY <1>1, <1>2, <1>3, <1>4, StepIs

\* A call's step takes it where its kind of call can be.
LEMMA PlacedMove ==
  ASSUME TypeOK, Asked, Placed, NEW c \in Calls, CallStep(c)
  PROVE  /\ pc'[c] \in {"record", "batch"} => IsBatch(c)
         /\ pc'[c] \in {"read", "lock"} => cmd[c].op \in {"update", "transition", "batch"}
         /\ pc'[c] \in {"trigger", "insert", "inserted"} => cmd[c].op = "add"
         /\ pc'[c] = "delete" => cmd[c].op = "remove"
         /\ IsBatch(c) /\ pc'[c] \in {"begin", "read", "lock"}
              => Left(c) # {} /\ results'[c] = results[c]
<1> USE DEF TypeOK, Placed, Step, End, IsBatch
<1>1. CASE Connect(c) \/ ConnectTimeout(c) \/ CommitBatch(c)
  BY <1>1 DEF Connect, ConnectTimeout, CommitBatch
<1>2. CASE RecordBatch(c)
  BY <1>2 DEF RecordBatch
<1>3. CASE Preflight(c)
  BY <1>3 DEF Preflight
<1>4. CASE Read(c)
  BY <1>4 DEF Read
<1>5. CASE Write(c)
  BY <1>5 DEF Write
<1>6. CASE LoadPair(c)
  BY <1>6 DEF LoadPair
<1>7. CASE Trigger(c)
  BY <1>7 DEF Trigger
<1>8. CASE Insert(c)
  BY <1>8 DEF Insert
<1>9. CASE CommitAdd(c)
  BY <1>9 DEF CommitAdd, Inserting
<1>10. CASE CommitRemove(c)
  BY <1>10 DEF CommitRemove
<1> QED
  BY <1>1, <1>2, <1>3, <1>4, <1>5, <1>6, <1>7, <1>8, <1>9, <1>10 DEF CallStep

LEMMA PlacedNext ==
  ASSUME TypeOK, Asked, Placed, [Next]_vars
  PROVE  Placed'
<1>1. ASSUME NEW c \in Calls, NEW m \in Commands, Ask(c, m) PROVE Placed'
  BY <1>1 DEF Ask, Placed, IsBatch, Left, TypeOK
<1>2. ASSUME NEW c \in Calls, NEW d \in Calls, AskAgain(c, d) PROVE Placed'
  BY <1>2 DEF AskAgain, Placed, IsBatch, Left, TypeOK
<1>3. ASSUME NEW c \in Calls, CallStep(c) PROVE Placed'
  <2>1. \A d \in Calls : IsBatch(d)' <=> IsBatch(d)
    BY <1>3, OthersKept DEF IsBatch
  <2>2. \A d \in Calls : results'[d] = results[d] => Left(d)' = Left(d)
    BY DEF Left
  <2> QED
    BY <1>3, <2>1, <2>2, PlacedMove, OthersKept DEF Placed
<1>4. CASE UNCHANGED vars
  BY <1>4 DEF vars, callVars, Placed, IsBatch, Left
<1> QED
  BY <1>1, <1>2, <1>3, <1>4, StepIs

-----------------------------------------------------------------------------
(* Batches: one attempt at a time, and answers that are true.                *)

Opens(c) ==
  /\ pc[c] = "record" /\ pc'[c] = "batch" /\ reply' = reply /\ results' = results
  /\ \A d \in Calls : Holding(d) => key[d] # key[c]
  /\ \A d \in Calls : ~Finished(c, d)

Replays(c, d) ==
  /\ pc[c] = "record" /\ pc'[c] = "done" /\ Finished(c, d) /\ reply'[c] = "ok"
  /\ results' = [results EXCEPT ![c] = results[d]]

\* A step of a batch that has its record, of which it keeps hold.
Works(c) ==
  /\ pc[c] \in {"batch", "begin", "read", "lock"}
  /\ pc'[c] \in {"batch", "begin", "read", "lock"} /\ reply' = reply

LEMMA BatchIs ==
  ASSUME TypeOK, Placed, NEW c \in Calls, CallStep(c), IsBatch(c)
  PROVE  \/ Opens(c)
         \/ \E d \in Calls : Replays(c, d)
         \/ CommitBatch(c)
         \/ ConnectTimeout(c)
         \/ pc[c] = "connect" /\ pc'[c] = "record" /\ reply' = reply /\ results' = results
         \/ Works(c)
<1> USE DEF TypeOK, Step, IsBatch
<1>1. CASE Connect(c) \/ Read(c)
  BY <1>1 DEF Connect, Read, Placed, Works
<1>2. CASE RecordBatch(c)
  BY <1>2 DEF RecordBatch, Opens, Replays
<1>3. CASE Preflight(c) \/ Write(c)
  BY <1>3 DEF Preflight, Write, End, Works
<1>4. CASE LoadPair(c) \/ Trigger(c) \/ Insert(c) \/ CommitAdd(c) \/ CommitRemove(c)
  BY <1>4 DEF LoadPair, Trigger, Insert, CommitAdd, CommitRemove, Inserting, Placed
<1> QED
  BY <1>1, <1>2, <1>3, <1>4 DEF CallStep

\* Who holds a record, and who has finished, after a step of call c.
LEMMA HoldingIs ==
  ASSUME TypeOK, Placed, NEW c \in Calls, CallStep(c)
  PROVE  /\ \A d \in Calls : d # c => (Holding(d)' <=> Holding(d))
         /\ \A x \in Calls, d \in Calls : d # c => (Finished(x, d)' <=> Finished(x, d))
         /\ ~IsBatch(c) => ~Holding(c)' /\ ~Holding(c) /\ \A x \in Calls : ~Finished(x, c)'
         /\ Holding(c) <=> IsBatch(c) /\ pc[c] \in {"batch", "begin", "read", "lock"}
         /\ Holding(c)' <=> IsBatch(c) /\ pc'[c] \in {"batch", "begin", "read", "lock"}
<1>1. cmd' = cmd /\ key' = key /\ pc[c] \notin {"new", "done"}
      /\ pc' \in [Calls -> {"new", "connect", "record", "batch", "begin", "read", "lock", "trigger",
                       "insert", "inserted", "delete", "done"}]
      /\ \A d \in Calls : d # c => pc'[d] = pc[d] /\ reply'[d] = reply[d]
  BY OthersKept, RequestTyped DEF RequestTypes
<1>2. IsBatch(c) => pc[c] \notin {"trigger", "insert", "inserted", "delete"}
  BY DEF Placed, IsBatch
<1>3. IsBatch(c) => pc'[c] \notin {"new", "trigger", "insert", "inserted", "delete"}
  <2> SUFFICES ASSUME IsBatch(c) PROVE pc'[c] \notin {"new", "trigger", "insert", "inserted", "delete"}
    OBVIOUS
  <2> QED
    BY BatchIs DEF Opens, Replays, CommitBatch, ConnectTimeout, Works, TypeOK
<1> QED
  BY <1>1, <1>2, <1>3 DEF Holding, Connected, Finished, IsBatch, TypeOK

LEMMA KeyedNext ==
  ASSUME TypeOK, Asked, Placed, Keyed, [Next]_vars
  PROVE  Keyed'
<1>1. ASSUME NEW c \in Calls, NEW m \in Commands, Ask(c, m) PROVE Keyed'
  BY <1>1 DEF Ask, Keyed, Holding, Connected, Finished, IsBatch, Asked, TypeOK
<1>2. ASSUME NEW c \in Calls, NEW d \in Calls, AskAgain(c, d) PROVE Keyed'
  BY <1>2 DEF AskAgain, Keyed, Holding, Connected, Finished, IsBatch, Asked, TypeOK
<1>3. ASSUME NEW c \in Calls, CallStep(c) PROVE Keyed'
  <2>0. key' = key /\ cmd' = cmd
    BY <1>3, OthersKept
  <2>1. CASE ~IsBatch(c)
    BY <1>3, <2>0, <2>1, HoldingIs DEF Keyed
  <2>2. CASE IsBatch(c) /\ Opens(c)
    BY <1>3, <2>0, <2>2, HoldingIs DEF Keyed, Opens, Finished, IsBatch
  <2>3. ASSUME IsBatch(c), NEW e \in Calls, Replays(c, e) PROVE Keyed'
    <3>1. ~Holding(c)' /\ key[e] = key[c]
      BY <1>3, <2>3, HoldingIs DEF Replays, Finished
    <3>2. \A x \in Calls : Holding(x) => key[x] # key[c]
      BY <2>3, <3>1 DEF Keyed, Replays, Finished
    <3> QED
      BY <1>3, <2>0, <3>1, <3>2, HoldingIs DEF Keyed, Finished
  <2>4. CASE IsBatch(c) /\ (CommitBatch(c) \/ ConnectTimeout(c))
    <3>1. ~Holding(c)'
      <4>1. pc'[c] = "done"
        BY <2>4 DEF CommitBatch, ConnectTimeout, TypeOK
      <4> QED
        BY <1>3, <4>1, HoldingIs
    <3>2. CommitBatch(c) => \A x \in Calls : Holding(x) /\ x # c => key[x] # key[c]
      <4>1. CommitBatch(c) => Holding(c)
        BY <1>3, <2>4, HoldingIs DEF CommitBatch
      <4> QED
        BY <4>1 DEF Keyed
    <3>3. ConnectTimeout(c) => reply'[c] # "ok"
      BY DEF ConnectTimeout, TypeOK
    <3> QED
      BY <1>3, <2>0, <2>4, <3>1, <3>2, <3>3, HoldingIs DEF Keyed, Finished
  <2>5. CASE IsBatch(c) /\ pc[c] = "connect" /\ pc'[c] = "record" /\ reply' = reply
    BY <1>3, <2>0, <2>5, HoldingIs DEF Keyed, Finished, IsBatch
  <2>6. CASE IsBatch(c) /\ Works(c)
    BY <1>3, <2>0, <2>6, HoldingIs DEF Keyed, Finished, IsBatch, Works
  <2> QED
    BY <1>3, <2>1, <2>2, <2>3, <2>4, <2>5, <2>6, BatchIs
<1>4. CASE UNCHANGED vars
  BY <1>4 DEF vars, callVars, Keyed, Holding, Connected, Finished, IsBatch
<1> QED
  BY <1>1, <1>2, <1>3, <1>4, StepIs

-----------------------------------------------------------------------------
\* One batch's part of Told.
TruthOf(c) ==
  /\ Holding(c) \/ reply[c] = "ok" =>
       \A i \in Items : results[c][i] # "none" => (results[c][i] = "ok" <=> i \in recorded[key[c]])
  /\ reply[c] = "ok" => \A i \in Named(cmd[c]) : results[c][i] # "none"
  /\ pc[c] \in {"read", "lock"} => Target(c) \notin recorded[key[c]]

LEMMA ToldIs == Told <=> \A c \in Calls : IsBatch(c) => TruthOf(c)
BY DEF Told, TruthOf

\* Only the batch that holds a key records items for it.
LEMMA RecordedIs ==
  ASSUME TypeOK, Asked, Placed, NEW c \in Calls, CallStep(c), NEW k \in Calls
  PROVE  \/ recorded'[k] = recorded[k]
         \/ /\ IsBatch(c) /\ Writes(c) /\ k = key[c]
            /\ recorded'[k] = recorded[k] \cup {Target(c)}
<1>1. CASE Quiet
  BY <1>1 DEF Quiet
<1>2. CASE Writes(c)
  BY <1>2 DEF Writes, TypeOK
<1>3. CASE Adds(c) \/ Removes(c)
  BY <1>3 DEF Adds, Removes
<1> QED
  BY <1>1, <1>2, <1>3, ChangingIs DEF Changing

\* The result of an update is that its record is there.
Results(c) ==
  \E a \in Replies \ {"none"} :
    /\ pc'[c] = "batch"
    /\ results'[c] = [results[c] EXCEPT ![Target(c)] = a]
    /\ a = "ok" <=> Target(c) \in recorded'[key[c]]

LEMMA ResultsEnd ==
  ASSUME TypeOK, NEW c \in Calls, IsBatch(c), NEW a \in Replies \ {"none"}, End(c, a),
         a = "ok" <=> Target(c) \in recorded'[key[c]]
  PROVE  Results(c)
<1>1. results' = [results EXCEPT ![c] = [results[c] EXCEPT ![Target(c)] = a]]
  BY DEF End
<1>2. results'[c] = [results[c] EXCEPT ![Target(c)] = a]
  BY <1>1 DEF TypeOK
<1>3. pc'[c] = "batch"
  BY DEF End, TypeOK
<1> QED
  BY <1>2, <1>3 DEF Results

LEMMA WorksIs ==
  ASSUME TypeOK, Asked, Placed, Told, NEW c \in Calls, CallStep(c), IsBatch(c), Works(c)
  PROVE  \/ /\ results' = results /\ recorded' = recorded
            /\ pc'[c] \in {"read", "lock"} => Target(c) \notin recorded[key[c]]
         \/ Results(c)
<1>1. CASE Connect(c) \/ RecordBatch(c) \/ CommitBatch(c) \/ ConnectTimeout(c)
  BY <1>1 DEF Connect, RecordBatch, CommitBatch, ConnectTimeout, Works, Step, TypeOK
<1>2. CASE Preflight(c)
  <2>1. CASE Target(c) \in recorded[key[c]]
    <3>1. End(c, "ok") /\ recorded' = recorded
      BY <1>2, <2>1 DEF Preflight, IsBatch
    <3> QED
      BY <2>1, <3>1, ResultsEnd DEF Replies
  <2>2. CASE Target(c) \notin recorded[key[c]]
    <3>1. recorded' = recorded
          /\ (End(c, "item_terminal") \/ End(c, "invalid_item_transition") \/ Step(c, "read"))
      BY <1>2, <2>2 DEF Preflight
    <3> QED
      BY <2>2, <3>1, ResultsEnd DEF Step, Replies
  <2> QED
    BY <2>1, <2>2
<1>3. CASE Read(c)
  BY <1>3, ToldIs DEF Read, Step, TruthOf
<1>4. CASE Write(c)
  <2>0. Target(c) \notin recorded[key[c]] /\ key[c] \in Calls
    BY <1>4, ToldIs DEF Write, TruthOf, TypeOK
  <2>1. CASE Writes(c)
    <3>1. Target(c) \in recorded'[key[c]]
      BY <2>0, <2>1 DEF Writes, TypeOK
    <3> QED
      BY <2>1, <3>1, ResultsEnd DEF Writes, Replies
  <2>2. CASE ~Writes(c)
    <3>1. recorded' = recorded /\ (End(c, "version_conflict") \/ End(c, "item_blocked"))
      BY <1>4, <2>2 DEF Write, Writes, itemVars
    <3> QED
      BY <2>0, <3>1, ResultsEnd DEF Replies
  <2> QED
    BY <2>1, <2>2
<1>5. CASE LoadPair(c) \/ Trigger(c) \/ Insert(c) \/ CommitAdd(c) \/ CommitRemove(c)
  BY <1>5 DEF LoadPair, Trigger, Insert, CommitAdd, CommitRemove, Inserting, Placed, IsBatch
<1> QED
  BY <1>1, <1>2, <1>3, <1>4, <1>5 DEF CallStep

\* A batch that does not move stays truthful: its key is not another's.
LEMMA TruthKept ==
  ASSUME TypeOK, Asked, Placed, Keyed, Told, NEW c \in Calls, CallStep(c),
         NEW d \in Calls, d # c, IsBatch(d)
  PROVE  TruthOf(d)'
<1>0. /\ cmd' = cmd /\ key' = key
      /\ pc'[d] = pc[d] /\ reply'[d] = reply[d] /\ results'[d] = results[d]
  BY OthersKept
<1>1. TruthOf(d) /\ (Holding(d)' <=> Holding(d)) /\ Target(d)' = Target(d)
  BY <1>0, ToldIs, HoldingIs, TargetKept
<1>2. Named(cmd[d])' = Named(cmd[d])
  BY <1>0 DEF Named
<1>3. key[d] \in Calls /\ (pc[d] \in {"read", "lock"} => Holding(d))
  BY DEF TypeOK, Holding, Connected
<1>4. CASE recorded'[key[d]] = recorded[key[d]]
  BY <1>0, <1>1, <1>2, <1>4 DEF TruthOf
<1>5. CASE recorded'[key[d]] # recorded[key[d]]
  <2>1. IsBatch(c) /\ Writes(c) /\ key[d] = key[c]
    BY <1>3, <1>5, RecordedIs
  <2>2. Holding(c)
    BY <2>1, HoldingIs DEF Writes
  <2>3. ~Holding(d) /\ reply[d] # "ok"
    BY <2>1, <2>2 DEF Keyed, Finished
  <2> QED
    BY <1>0, <1>1, <1>3, <2>3 DEF TruthOf
<1> QED
  BY <1>4, <1>5

LEMMA TruthMoves ==
  ASSUME TypeOK, Asked, Placed, Keyed, Told, NEW c \in Calls, CallStep(c), IsBatch(c)
  PROVE  TruthOf(c)'
<1>0. /\ cmd' = cmd /\ key' = key /\ TruthOf(c) /\ key[c] \in Calls
      /\ pc[c] \notin {"new", "done"} /\ reply[c] = "none"
  BY OthersKept, ToldIs DEF Asked, TypeOK
<1>1. CASE Opens(c)
  <2>1. \A i \in Items : results'[c][i] = "none"
    BY <1>1 DEF Opens, Asked
  <2> QED
    BY <1>0, <1>1, <2>1 DEF TruthOf, Opens
<1>2. ASSUME NEW d \in Calls, Replays(c, d) PROVE TruthOf(c)'
  <2>1. TruthOf(d) /\ reply[d] = "ok" /\ key[d] = key[c]
    BY <1>2, ToldIs DEF Replays, Finished
  <2>2. cmd[d] = cmd[c]
    BY <1>0, <2>1 DEF Asked
  <2>3. recorded'[key[c]] = recorded[key[c]] /\ results'[c] = results[d] /\ pc'[c] = "done"
    <3>1. pc[c] = "record"
      BY <1>2 DEF Replays
    <3> QED
      BY <1>0, <1>2, <3>1, RecordedIs DEF Writes, Replays, TypeOK
  <2>4. Named(cmd[c])' = Named(cmd[d])
    BY <1>0, <2>2 DEF Named
  <2> QED
    BY <1>0, <2>1, <2>3, <2>4 DEF TruthOf
<1>3. CASE CommitBatch(c)
  <2>1. Holding(c) /\ pc'[c] = "done" /\ results' = results /\ recorded' = recorded /\ Left(c) = {}
    BY <1>3, HoldingIs DEF CommitBatch, TypeOK
  <2>2. \A i \in Named(cmd[c]) : results[c][i] # "none"
    BY <2>1 DEF Left, Named, IsBatch
  <2>3. Named(cmd[c])' = Named(cmd[c])
    BY <1>0 DEF Named
  <2> QED
    BY <1>0, <2>1, <2>2, <2>3 DEF TruthOf
<1>4. CASE ConnectTimeout(c)
  <2>1. pc'[c] = "done" /\ reply'[c] = "unavailable"
    BY <1>4 DEF ConnectTimeout, TypeOK
  <2>2. ~Holding(c)'
    BY <2>1, HoldingIs
  <2> QED
    BY <2>1, <2>2 DEF TruthOf
<1>5. CASE pc[c] = "connect" /\ pc'[c] = "record" /\ reply' = reply
  <2>1. ~Holding(c)'
    BY <1>5, HoldingIs
  <2> QED
    BY <1>0, <1>5, <2>1 DEF TruthOf
<1>6. CASE Works(c)
  <2>0. Holding(c) /\ reply'[c] = "none"
    BY <1>0, <1>6, HoldingIs DEF Works
  <2>1. CASE /\ results' = results /\ recorded' = recorded
             /\ pc'[c] \in {"read", "lock"} => Target(c) \notin recorded[key[c]]
    <3>1. Target(c)' = Target(c)
      BY <1>0, <2>1, TargetKept
    <3> QED
      BY <1>0, <2>0, <2>1, <3>1 DEF TruthOf
  <2>2. CASE Results(c)
    <3>1. ASSUME NEW i \in Items, results'[c][i] # "none"
          PROVE  results'[c][i] = "ok" <=> i \in recorded'[key[c]]
      <4>1. CASE i = Target(c)
        BY <2>2, <4>1 DEF Results, TypeOK
      <4>2. CASE i # Target(c)
        <5>1. results'[c][i] = results[c][i]
          BY <2>2, <4>2 DEF Results, TypeOK
        <5>2. i \in recorded'[key[c]] <=> i \in recorded[key[c]]
          BY <1>0, <4>2, RecordedIs
        <5> QED
          BY <1>0, <2>0, <3>1, <5>1, <5>2 DEF TruthOf
      <4> QED
        BY <4>1, <4>2
    <3>2. pc'[c] = "batch"
      BY <2>2 DEF Results
    <3> QED
      BY <1>0, <2>0, <3>1, <3>2 DEF TruthOf
  <2> QED
    BY <1>6, <2>1, <2>2, WorksIs
<1> QED
  BY <1>1, <1>2, <1>3, <1>4, <1>5, <1>6, BatchIs

\* A call that is asked has nothing to tell.
LEMMA ToldAsked ==
  ASSUME Told, NEW c \in Calls, pc'[c] = "connect", reply[c] = "none",
         reply' = reply, results' = results, recorded' = recorded,
         \A d \in Calls : d # c => cmd'[d] = cmd[d] /\ pc'[d] = pc[d] /\ key'[d] = key[d]
  PROVE  Told'
<1> SUFFICES ASSUME NEW d \in Calls, IsBatch(d)' PROVE TruthOf(d)'
  BY DEF Told, TruthOf
<1>1. CASE d = c
  BY <1>1 DEF TruthOf, Holding, Connected
<1>2. CASE d # c
  <2>1. IsBatch(d) /\ TruthOf(d)
    BY <1>2, ToldIs DEF IsBatch
  <2>2. Target(d)' = Target(d) /\ Named(cmd[d])' = Named(cmd[d]) /\ (Holding(d)' <=> Holding(d))
    BY <1>2 DEF Target, Left, IsBatch, Named, Holding, Connected
  <2> QED
    BY <1>2, <2>1, <2>2 DEF TruthOf
<1> QED
  BY <1>1, <1>2

LEMMA ToldNext ==
  ASSUME TypeOK, Asked, Placed, Keyed, Told, [Next]_vars
  PROVE  Told'
<1>1. ASSUME NEW c \in Calls, NEW m \in Commands, Ask(c, m) PROVE Told'
  <2>1. /\ \A d \in Calls : d # c => cmd'[d] = cmd[d] /\ pc'[d] = pc[d]
        /\ pc'[c] = "connect" /\ reply[c] = "none"
        /\ reply' = reply /\ results' = results /\ key' = key /\ recorded' = recorded
    BY <1>1 DEF Ask, Asked, TypeOK
  <2> QED
    BY <2>1, ToldAsked
<1>2. ASSUME NEW c \in Calls, NEW d \in Calls, AskAgain(c, d) PROVE Told'
  <2>1. /\ \A e \in Calls : e # c => cmd'[e] = cmd[e] /\ pc'[e] = pc[e] /\ key'[e] = key[e]
        /\ pc'[c] = "connect" /\ reply[c] = "none"
        /\ reply' = reply /\ results' = results /\ recorded' = recorded
    BY <1>2 DEF AskAgain, Asked, TypeOK
  <2> QED
    BY <2>1, ToldAsked
<1>3. ASSUME NEW c \in Calls, CallStep(c) PROVE Told'
  <2>1. \A d \in Calls : IsBatch(d)' <=> IsBatch(d)
    BY <1>3, OthersKept DEF IsBatch
  <2>2. \A d \in Calls : IsBatch(d) => TruthOf(d)'
    BY <1>3, TruthKept, TruthMoves
  <2> QED
    BY <2>1, <2>2 DEF Told, TruthOf
<1>4. CASE UNCHANGED vars
  BY <1>4 DEF vars, callVars, itemVars, Told, Holding, Connected, IsBatch, Target, Left, Named
<1> QED
  BY <1>1, <1>2, <1>3, <1>4, StepIs

-----------------------------------------------------------------------------
(* What was read without a lock, and the version.                            *)

\* What a request leaves as it was.
Requests(c) ==
  /\ pc'[c] = "connect" /\ pc[c] = "new" /\ reply[c] = "none" /\ recorded[c] = {}
  /\ \A d \in Calls : d # c => /\ pc'[d] = pc[d] /\ cmd'[d] = cmd[d]
                               /\ seen'[d] = seen[d] /\ key'[d] = key[d]
  /\ UNCHANGED <<status, version, edges, reply, blocked, results, recorded>>

LEMMA RequestIs ==
  ASSUME TypeOK, Asked, NEW c \in Calls,
         (\E m \in Commands : Ask(c, m)) \/ (\E d \in Calls : AskAgain(c, d))
  PROVE  Requests(c)
<1>1. ASSUME NEW m \in Commands, Ask(c, m) PROVE Requests(c)
  BY <1>1 DEF Ask, Requests, Asked, itemVars, TypeOK
<1>2. ASSUME NEW d \in Calls, AskAgain(c, d) PROVE Requests(c)
  BY <1>2 DEF AskAgain, Requests, Asked, itemVars, TypeOK
<1> QED
  BY <1>1, <1>2

LEMMA RequestKeeps ==
  ASSUME NEW c \in Calls, Requests(c), NEW d \in Calls, pc'[d] # "connect"
  PROVE  /\ pc'[d] = pc[d] /\ cmd'[d] = cmd[d] /\ blocked'[d] = blocked[d]
         /\ Target(d)' = Target(d) /\ (Current(d)' <=> Current(d))
<1>1. d # c
  BY DEF Requests
<1>2. Target(d)' = Target(d)
  BY <1>1 DEF Requests, Target, Left, IsBatch
<1> QED
  BY <1>1, <1>2 DEF Requests, Current

LEMMA RequestChanges ==
  ASSUME NEW c \in Calls, Requests(c), NEW d \in Calls, NEW i \in Items, Changed(d, i)'
  PROVE  Changed(d, i) /\ seen'[d] = seen[d]
BY DEF Requests, Changed, IsBatch

\* A call whose version is still the row's after a step had it before, and the
\* item is as it was.
LEMMA CurrentKept ==
  ASSUME TypeOK, Asked, Placed, NEW c \in Calls, CallStep(c),
         NEW d \in Calls, pc[d] \in AtItem, Current(d)', Target(d)' = Target(d)
  PROVE  Current(d) /\ status'[Target(d)] = status[Target(d)] /\ ~(Changing(c) /\ Target(c) = Target(d))
<1>1. Target(d) \in Items
  BY TargetIs
<1>2. version'[Target(d)] = seen[d][Target(d)]
  BY OthersKept DEF Current
<1>3. seen[d][Target(d)] <= version[Target(d)] /\ seen[d][Target(d)] \in Nat
  <2>1. pc[d] # "new" /\ seen[d] \in [Items -> Nat]
    BY DEF AtItem, TypeOK
  <2> QED
    BY <1>1, <2>1 DEF Asked
<1>4. version[Target(d)] = seen[d][Target(d)] /\ status'[Target(d)] = status[Target(d)]
  BY <1>1, <1>2, <1>3, VersionsGrow
<1>5. ~(Changing(c) /\ Target(c) = Target(d))
  <2> SUFFICES ASSUME Changing(c), Target(c) = Target(d) PROVE FALSE
    OBVIOUS
  <2>1. version'[Target(d)] = version[Target(d)] + 1 /\ version[Target(d)] \in Nat
    BY <1>1, ChangeOf DEF TypeOK
  <2> QED
    BY <1>2, <1>4, <2>1
<1> QED
  BY <1>4, <1>5 DEF Current

\* A change is of an item that is not over.
LEMMA OpenBefore ==
  ASSUME TypeOK, Asked, Placed, Sound, NEW c \in Calls, Changing(c)
  PROVE  status[Target(c)] \notin Terminal
<1>1. CASE Writes(c)
  BY <1>1 DEF Writes, Sound
<1>2. CASE Adds(c) \/ Removes(c)
  <2>1. pc[c] \in AtItem /\ ~IsBatch(c)
    BY <1>2 DEF Adds, Removes, AtItem, Inserting, Placed, IsBatch
  <2>2. Target(c) = cmd[c].item
    BY <2>1, TargetIs
  <2> QED
    BY <1>2, <2>2 DEF Adds, Removes
<1> QED
  BY <1>1, <1>2 DEF Changing

\* The ends of an item are final.
LEMMA FinalStatus ==
  ASSUME TypeOK, Asked, Placed, Sound, NEW c \in Calls, CallStep(c),
         NEW i \in Items, status[i] \in Terminal
  PROVE  status'[i] = status[i]
BY ChangingIs, ChangeOf, OpenBefore DEF Quiet

\* The step after which a call has looked at its item.
LEMMA Looks ==
  ASSUME TypeOK, Placed, NEW c \in Calls, CallStep(c), pc'[c] \in {"read", "lock"}
  PROVE  /\ results' = results /\ UNCHANGED <<status, version, edges>>
         /\ \/ pc[c] = "read" /\ pc'[c] = "lock" /\ blocked'[c] = Incomplete(Target(c))
            \/ /\ pc[c] = "begin" /\ pc'[c] = "read"
               /\ status[Target(c)] \notin Terminal
               /\ cmd[c].op = "transition" => <<status[Target(c)], cmd[c].arg>> \in Allowed
<1> USE DEF TypeOK, Step, End
<1>1. CASE Connect(c) \/ ConnectTimeout(c) \/ CommitBatch(c) \/ RecordBatch(c)
  BY <1>1 DEF Connect, ConnectTimeout, CommitBatch, RecordBatch
<1>2. CASE Preflight(c)
  BY <1>2 DEF Preflight, itemVars
<1>3. CASE Read(c)
  BY <1>3 DEF Read, itemVars
<1>4. CASE Write(c) \/ LoadPair(c) \/ Trigger(c)
  BY <1>4 DEF Write, LoadPair, Trigger
<1>5. CASE Insert(c) \/ CommitAdd(c) \/ CommitRemove(c)
  BY <1>5 DEF Insert, CommitAdd, CommitRemove, Inserting
<1> QED
  BY <1>1, <1>2, <1>3, <1>4, <1>5 DEF CallStep

LEMMA SoundNext ==
  ASSUME TypeOK, Asked, Placed, Sound, [Next]_vars
  PROVE  Sound'
<1>1. ASSUME NEW c \in Calls,
             (\E m \in Commands : Ask(c, m)) \/ (\E d \in Calls : AskAgain(c, d))
      PROVE  Sound'
  <2> SUFFICES ASSUME NEW d \in Calls, pc'[d] \in {"read", "lock"}, Current(d)'
               PROVE  /\ status'[Target(d)'] \notin Terminal
                      /\ cmd'[d].op = "transition" => <<status'[Target(d)'], cmd'[d].arg>> \in Allowed
    BY DEF Sound
  <2>1. Requests(c)
    BY <1>1, RequestIs
  <2> QED
    BY <2>1, RequestKeeps DEF Requests, Sound
<1>2. ASSUME NEW c \in Calls, CallStep(c) PROVE Sound'
  <2> SUFFICES ASSUME NEW d \in Calls, pc'[d] \in {"read", "lock"}, Current(d)'
               PROVE  /\ status'[Target(d)'] \notin Terminal
                      /\ cmd'[d].op = "transition" => <<status'[Target(d)'], cmd'[d].arg>> \in Allowed
    BY DEF Sound
  <2>1. cmd' = cmd /\ (d # c => pc'[d] = pc[d] /\ results'[d] = results[d])
    BY <1>2, OthersKept
  <2>2. results'[d] = results[d] /\ pc[d] \in {"begin", "read", "lock"}
    BY <1>2, <2>1, Looks
  <2>3. Target(d)' = Target(d)
    BY <2>1, <2>2, TargetKept
  <2>4. Current(d) /\ status'[Target(d)] = status[Target(d)]
    BY <1>2, <2>2, <2>3, CurrentKept DEF AtItem
  <2>5. CASE pc[d] \in {"read", "lock"}
    BY <2>1, <2>3, <2>4, <2>5 DEF Sound
  <2>6. CASE pc[d] = "begin"
    BY <1>2, <2>1, <2>3, <2>4, <2>6, Looks
  <2> QED
    BY <2>2, <2>5, <2>6
<1>3. CASE UNCHANGED vars
  <2>1. \A d \in Calls : Target(d)' = Target(d) /\ (Current(d)' <=> Current(d))
    BY <1>3 DEF vars, callVars, itemVars, Current, Target, Left, IsBatch
  <2> QED
    BY <1>3, <2>1 DEF vars, callVars, itemVars, Sound
<1> QED
  BY <1>1, <1>2, <1>3, StepIs

\* An item that waits for nothing does not begin to, unless it is changed.
LEMMA StillComplete ==
  ASSUME TypeOK, Asked, Placed, Sound, NEW c \in Calls, CallStep(c), NEW i \in Items,
         ~Incomplete(i), ~(Changing(c) /\ Target(c) = i)
  PROVE  ~Incomplete(i)'
<1> SUFFICES ASSUME NEW e \in edges', e[1] = i PROVE status'[e[2]] = "completed"
  BY DEF Incomplete
<1>1. e \in edges
  <2>1. CASE Quiet \/ Writes(c) \/ Removes(c)
    BY <2>1 DEF Quiet, Writes, Removes
  <2>2. CASE Adds(c)
    <3>1. Target(c) = cmd[c].item
      BY <2>2, TargetIs DEF Adds, Inserting, AtItem, Placed, IsBatch
    <3> QED
      BY <2>2, <3>1 DEF Adds, EdgeOf, Changing
  <2> QED
    BY <2>1, <2>2, ChangingIs DEF Changing
<1>2. status[e[2]] = "completed" /\ e[2] \in Items
  BY <1>1 DEF Incomplete, TypeOK, Edges
<1> QED
  BY <1>2, FinalStatus DEF Terminal

LEMMA UnblockedNext ==
  ASSUME TypeOK, Asked, Placed, Sound, Unblocked, [Next]_vars
  PROVE  Unblocked'
<1>1. ASSUME NEW c \in Calls,
             (\E m \in Commands : Ask(c, m)) \/ (\E d \in Calls : AskAgain(c, d))
      PROVE  Unblocked'
  <2> SUFFICES ASSUME NEW d \in Calls, pc'[d] = "lock", Current(d)', ~blocked'[d]
               PROVE  ~Incomplete(Target(d))'
    BY DEF Unblocked
  <2>1. Requests(c)
    BY <1>1, RequestIs
  <2> QED
    BY <2>1, RequestKeeps DEF Requests, Unblocked, Incomplete
<1>2. ASSUME NEW c \in Calls, CallStep(c) PROVE Unblocked'
  <2> SUFFICES ASSUME NEW d \in Calls, pc'[d] = "lock", Current(d)', ~blocked'[d]
               PROVE  ~Incomplete(Target(d))'
    BY DEF Unblocked
  <2>1. /\ cmd' = cmd
        /\ d # c => pc'[d] = pc[d] /\ results'[d] = results[d] /\ blocked'[d] = blocked[d]
    BY <1>2, OthersKept
  <2>2. results'[d] = results[d] /\ pc[d] \in {"read", "lock"}
    BY <1>2, <2>1, Looks
  <2>3. Target(d)' = Target(d) /\ Target(d) \in Items
    BY <2>1, <2>2, TargetKept, TargetIs DEF AtItem
  <2>4. Current(d) /\ ~(Changing(c) /\ Target(c) = Target(d))
    BY <1>2, <2>2, <2>3, CurrentKept DEF AtItem
  <2>5. CASE d # c
    <3>1. ~Incomplete(Target(d))
      BY <2>1, <2>4, <2>5 DEF Unblocked
    <3>2. PICK i \in Items : i = Target(d)
      BY <2>3
    <3>3. ~Incomplete(i)'
      BY <1>2, <2>4, <3>1, <3>2, StillComplete
    <3> QED
      BY <2>3, <3>2, <3>3 DEF Incomplete
  <2>6. CASE d = c
    <3>1. UNCHANGED <<status, edges>> /\ blocked'[c] = Incomplete(Target(c))
      BY <1>2, <2>6, Looks
    <3> QED
      BY <2>3, <2>6, <3>1 DEF Incomplete
  <2> QED
    BY <2>5, <2>6
<1>3. CASE UNCHANGED vars
  <2>1. \A d \in Calls : Target(d)' = Target(d) /\ (Current(d)' <=> Current(d))
    BY <1>3 DEF vars, callVars, itemVars, Current, Target, Left, IsBatch
  <2> QED
    BY <1>3, <2>1 DEF vars, callVars, itemVars, Unblocked, Incomplete
<1> QED
  BY <1>1, <1>2, <1>3, StepIs

\* The item a change completes waits for nothing; what it waited for stays.
LEMMA CompletedNext ==
  ASSUME TypeOK, Asked, Placed, Sound, Unblocked, CompletedAfterDependencies, [Next]_vars
  PROVE  CompletedAfterDependencies'
<1>1. CASE UNCHANGED <<status, edges>>
  BY <1>1 DEF CompletedAfterDependencies
<1>2. ASSUME NEW c \in Calls, CallStep(c), Changing(c) PROVE CompletedAfterDependencies'
  <2> SUFFICES ASSUME NEW e \in edges', status'[e[1]] = "completed"
               PROVE  status'[e[2]] = "completed"
    BY DEF CompletedAfterDependencies
  <2>0. Target(c) \in Items /\ \A i \in Items : i # Target(c) => status'[i] = status[i]
    BY <1>2, ChangeOf
  <2>1. CASE Adds(c) /\ e = EdgeOf(c)
    <3>1. status'[cmd[c].item] # "completed"
      BY <2>1 DEF Adds, Terminal
    <3> QED
      BY <2>1, <3>1 DEF EdgeOf
  <2>2. CASE ~(Adds(c) /\ e = EdgeOf(c))
    <3>1. e \in edges
      BY <1>2, <2>2 DEF Changing, Writes, Adds, Removes
    <3>2. e[1] \in Items /\ e[2] \in Items
      BY <3>1 DEF TypeOK, Edges
    <3>3. status[e[2]] = "completed"
      <4>1. CASE status[e[1]] = "completed"
        BY <3>1, <4>1 DEF CompletedAfterDependencies
      <4>2. CASE status[e[1]] # "completed"
        <5>1. Target(c) = e[1] /\ Writes(c) /\ cmd[c].op = "transition" /\ cmd[c].arg = "completed"
          BY <1>2, <2>0, <3>2, <4>2 DEF Changing, Writes, Adds, Removes, TypeOK
        <5>2. ~Incomplete(Target(c))
          BY <5>1 DEF Writes, Unblocked, TypeOK
        <5> QED
          BY <3>1, <5>1, <5>2 DEF Incomplete
      <4> QED
        BY <4>1, <4>2
    <3> QED
      BY <1>2, <3>2, <3>3, FinalStatus DEF Terminal
  <2> QED
    BY <2>1, <2>2
<1> QED
  BY <1>1, <1>2, StepIs, ChangingIs DEF Quiet, Ask, AskAgain, itemVars, vars

\* A command of one item that is answered "ok" has changed the item.
LEMMA SingleOk ==
  ASSUME TypeOK, Placed, NEW c \in Calls, CallStep(c), ~IsBatch(c), reply'[c] = "ok", reply[c] # "ok"
  PROVE  Changing(c) /\ pc[c] \in AtItem
<1> USE DEF TypeOK, Step, End
<1>1. CASE Connect(c) \/ ConnectTimeout(c) \/ CommitBatch(c) \/ RecordBatch(c)
  BY <1>1 DEF Connect, ConnectTimeout, CommitBatch, RecordBatch, Placed, IsBatch
<1>2. CASE Preflight(c) \/ Read(c) \/ LoadPair(c) \/ Trigger(c) \/ Insert(c)
  BY <1>2 DEF Preflight, Read, LoadPair, Trigger, Insert
<1>3. CASE Write(c)
  BY <1>3 DEF Write, Changing, Writes, AtItem, itemVars
<1>4. CASE CommitAdd(c)
  BY <1>4 DEF CommitAdd, Changing, Adds, BumpRefused, Refusal, Inserting, AtItem
<1>5. CASE CommitRemove(c)
  BY <1>5 DEF CommitRemove, Changing, Removes, BumpRefused, Refusal, AtItem
<1> QED
  BY <1>1, <1>2, <1>3, <1>4, <1>5 DEF CallStep

\* A call, or a key, that has now changed an item has done it in this step.
LEMMA ChangesMade ==
  ASSUME TypeOK, Asked, Placed, NEW c \in Calls, CallStep(c),
         NEW d \in Calls, NEW i \in Items, Changed(d, i)', ~Changed(d, i)
  PROVE  Changing(c) /\ Target(c) = i /\ d = key[c] /\ seen[d] = seen[c]
<1>0. cmd' = cmd /\ pc[c] # "new" /\ \A x \in Calls : x # c => reply'[x] = reply[x]
  BY OthersKept
<1>1. CASE i \in recorded'[d] /\ i \notin recorded[d]
  <2>1. Writes(c) /\ d = key[c] /\ Target(c) = i
    BY <1>1, RecordedIs
  <2> QED
    BY <1>0, <2>1 DEF Changing, Asked
<1>2. CASE reply'[d] = "ok" /\ ~IsBatch(d) /\ cmd[d].item = i /\ reply[d] # "ok"
  <2>1. d = c /\ key[c] = c
    BY <1>0, <1>2 DEF Asked
  <2>2. Changing(c) /\ pc[c] \in AtItem
    BY <1>2, <2>1, SingleOk
  <2>3. Target(c) = cmd[c].item
    BY <1>2, <2>1, <2>2, TargetIs
  <2> QED
    BY <1>2, <2>1, <2>2, <2>3
<1> QED
  BY <1>0, <1>1, <1>2 DEF Changed, IsBatch

\* Calls whose change was recorded have another version.
LEMMA MovedNext ==
  ASSUME TypeOK, Asked, Placed, Moved, [Next]_vars
  PROVE  Moved'
<1>1. ASSUME NEW c \in Calls,
             (\E m \in Commands : Ask(c, m)) \/ (\E d \in Calls : AskAgain(c, d))
      PROVE  Moved'
  <2>1. Requests(c)
    BY <1>1, RequestIs
  <2> QED
    BY <2>1, RequestChanges DEF Requests, Moved
<1>2. ASSUME NEW c \in Calls, CallStep(c) PROVE Moved'
  <2> SUFFICES ASSUME NEW d \in Calls, NEW i \in Items, Changed(d, i)'
               PROVE  seen'[d][i] < version'[i]
    BY DEF Moved
  <2>1. /\ seen' = seen /\ seen[d][i] \in Nat
        /\ version[i] \in Nat /\ version'[i] \in Nat /\ version[i] <= version'[i]
    BY <1>2, OthersKept, VersionsGrow DEF TypeOK
  <2>2. CASE Changed(d, i)
    BY <2>1, <2>2 DEF Moved
  <2>3. CASE ~Changed(d, i)
    <3>1. Changing(c) /\ Target(c) = i /\ seen[d] = seen[c]
      BY <1>2, <2>3, ChangesMade
    <3>2. version'[i] = version[i] + 1 /\ seen[d][i] = version[i]
      BY <3>1, ChangeOf DEF TypeOK
    <3> QED
      BY <2>1, <3>2
  <2> QED
    BY <2>2, <2>3
<1>3. CASE UNCHANGED vars
  BY <1>3 DEF vars, callVars, itemVars, Moved, Changed, IsBatch
<1> QED
  BY <1>1, <1>2, <1>3, StepIs

\* ... so that no later change rests on it.
LEMMA LostNext ==
  ASSUME TypeOK, Asked, Placed, Moved, NoLostUpdate, [Next]_vars
  PROVE  NoLostUpdate'
<1>1. ASSUME NEW c \in Calls,
             (\E m \in Commands : Ask(c, m)) \/ (\E d \in Calls : AskAgain(c, d))
      PROVE  NoLostUpdate'
  <2>1. Requests(c)
    BY <1>1, RequestIs
  <2> QED
    BY <2>1, RequestChanges DEF NoLostUpdate
<1>2. ASSUME NEW c \in Calls, CallStep(c) PROVE NoLostUpdate'
  <2> SUFFICES ASSUME NEW x \in Calls, NEW y \in Calls, NEW i \in Items,
                      x # y, Changed(x, i)', Changed(y, i)'
               PROVE  seen'[x][i] # seen'[y][i]
    BY DEF NoLostUpdate
  <2>0. seen' = seen /\ version[i] \in Nat /\ \A z \in Calls : seen[z][i] \in Nat
    BY <1>2, OthersKept DEF TypeOK
  <2>1. ASSUME NEW z \in Calls, Changed(z, i)', ~Changed(z, i)
        PROVE  z = key[c] /\ seen[z][i] = version[i]
    <3>1. Changing(c) /\ Target(c) = i /\ z = key[c] /\ seen[z] = seen[c]
      BY <1>2, <2>1, ChangesMade
    <3> QED
      BY <3>1, ChangeOf
  <2>2. ASSUME NEW z \in Calls, Changed(z, i) PROVE seen[z][i] < version[i]
    BY <2>2 DEF Moved
  <2>3. CASE Changed(x, i) /\ Changed(y, i)
    BY <2>0, <2>3 DEF NoLostUpdate
  <2> QED
    BY <2>0, <2>1, <2>2, <2>3
<1>3. CASE UNCHANGED vars
  BY <1>3 DEF vars, callVars, itemVars, NoLostUpdate, Changed, IsBatch
<1> QED
  BY <1>1, <1>2, <1>3, StepIs

-----------------------------------------------------------------------------
(* Cycles and what the triggers saw.                                         *)

\* The trigger lets the edge of c through; the edge is inserted.
Sees(c) ==
  /\ pc[c] = "trigger" /\ pc'[c] = "insert" /\ ~ClosesCycle(EdgeOf(c))
  /\ saw' = [saw EXCEPT ![EdgeOf(c)] = edges] /\ edges' = edges

Inserts(c) ==
  /\ pc[c] = "insert" /\ pc'[c] = "inserted" /\ EdgeOf(c) \notin edges
  /\ \A d \in Calls : Inserting(d) => EdgeOf(d) # EdgeOf(c)
  /\ UNCHANGED <<edges, saw>>

Apart(c) == pc'[c] \notin {"insert", "inserted"} /\ UNCHANGED <<edges, saw>>

LEMMA EdgeSteps ==
  ASSUME TypeOK, Placed, NEW c \in Calls, CallStep(c)
  PROVE  \/ Sees(c) \/ Inserts(c) \/ Apart(c)
         \/ Adds(c) /\ pc'[c] = "done"
         \/ Removes(c) /\ pc'[c] = "done"
<1> USE DEF TypeOK, Step, End, Apart
<1>1. CASE Connect(c) \/ ConnectTimeout(c) \/ CommitBatch(c) \/ RecordBatch(c)
  BY <1>1 DEF Connect, ConnectTimeout, CommitBatch, RecordBatch, itemVars
<1>2. CASE Preflight(c) \/ Read(c) \/ LoadPair(c)
  BY <1>2 DEF Preflight, Read, LoadPair, itemVars
<1>3. CASE Write(c)
  BY <1>3 DEF Write, itemVars
<1>4. CASE Trigger(c)
  BY <1>4 DEF Trigger, Sees
<1>5. CASE Insert(c)
  BY <1>5 DEF Insert, Inserts, itemVars
<1>6. CASE CommitAdd(c)
  BY <1>6 DEF CommitAdd, Adds, BumpRefused, Inserting, Placed, IsBatch
<1>7. CASE CommitRemove(c)
  BY <1>7 DEF CommitRemove, Removes, BumpRefused, Placed, IsBatch
<1> QED
  BY <1>1, <1>2, <1>3, <1>4, <1>5, <1>6, <1>7 DEF CallStep

\* The edge a call is about to insert is one of two items.
LEMMA EdgeIs ==
  ASSUME Asked, Placed, NEW c \in Calls, pc[c] \in {"trigger", "insert", "inserted", "delete"}
  PROVE  EdgeOf(c) \in Edges
<1>1. cmd[c] \in Commands /\ cmd[c].op \in {"add", "remove"}
  BY DEF Asked, Placed
<1> QED
  BY <1>1, CommandsAssumption DEF EdgeOf, Edges

\* What the edges and the calls that insert them are, of another state or this.
SeenIn(E, w) ==
  /\ \A e \in Edges : w[e] \subseteq E
  /\ \A e \in E : ~Reaches(w[e], e[2], e[1])

SeenBy(c, w) == ~Reaches(w[EdgeOf(c)], EdgeOf(c)[2], EdgeOf(c)[1])

Alone(c, E) ==
  /\ EdgeOf(c) \notin E
  /\ \A d \in Calls : Inserting(d) /\ EdgeOf(d) = EdgeOf(c) => d = c

LEMMA SeenIs ==
  Seen <=> /\ SeenIn(edges, saw)
           /\ \A c \in Calls : pc[c] \in {"insert", "inserted"} => SeenBy(c, saw)
           /\ \A c \in Calls : pc[c] = "inserted" => Alone(c, edges)
BY DEF Seen, SeenIn, SeenBy, Alone, Inserting

LEMMA SeenNext ==
  ASSUME TypeOK, Asked, Placed, Seen, [Next]_vars
  PROVE  Seen'
<1>1. ASSUME NEW c \in Calls,
             (\E m \in Commands : Ask(c, m)) \/ (\E d \in Calls : AskAgain(c, d))
      PROVE  Seen'
  <2>1. Requests(c) /\ saw' = saw
    BY <1>1, RequestIs DEF Ask, AskAgain, itemVars
  <2>2. \A d \in Calls : pc'[d] \in {"insert", "inserted"} => pc[d] = pc'[d] /\ EdgeOf(d)' = EdgeOf(d)
    BY <2>1 DEF Requests, EdgeOf
  <2> QED
    BY <2>1, <2>2 DEF Seen, Inserting, Requests
<1>2. ASSUME NEW c \in Calls, CallStep(c) PROVE Seen'
  <2>0. /\ \A d \in Calls : EdgeOf(d)' = EdgeOf(d)
        /\ \A d \in Calls : d # c => pc'[d] = pc[d]
    BY <1>2, OthersKept DEF EdgeOf
  <2>1. CASE Apart(c)
    BY <2>0, <2>1 DEF Seen, Inserting, Apart
  <2>2. CASE Inserts(c)
    BY <2>0, <2>2 DEF Seen, Inserting, Inserts
  <2>3. CASE Sees(c)
    <3>1. EdgeOf(c) \in Edges /\ ~Reaches(edges, EdgeOf(c)[2], EdgeOf(c)[1])
      BY <2>3, EdgeIs DEF Sees, ClosesCycle
    <3>2. \A e \in Edges : saw'[e] = IF e = EdgeOf(c) THEN edges ELSE saw[e]
      BY <2>3, <3>1 DEF Sees, TypeOK
    <3>3. SeenIn(edges', saw')
      BY <2>3, <3>1, <3>2 DEF Sees, Seen, SeenIn, TypeOK
    <3>4. \A d \in Calls : pc'[d] \in {"insert", "inserted"} =>
            ~Reaches(saw'[EdgeOf(d)], EdgeOf(d)[2], EdgeOf(d)[1])
      <4> TAKE d \in Calls
      <4>1. CASE EdgeOf(d) = EdgeOf(c)
        BY <3>1, <3>2, <4>1
      <4>2. CASE EdgeOf(d) # EdgeOf(c)
        <5>1. SUFFICES ASSUME pc[d] \in {"insert", "inserted"}
                       PROVE  ~Reaches(saw'[EdgeOf(d)], EdgeOf(d)[2], EdgeOf(d)[1])
          BY <2>0, <4>2
        <5> QED
          BY <3>2, <4>2, <5>1, EdgeIs DEF Seen
      <4> QED
        BY <4>1, <4>2
    <3>5. \A d \in Calls : Inserting(d)' => Inserting(d)
      BY <2>0, <2>3 DEF Sees, Inserting
    <3> QED
      BY <2>0, <2>3, <3>3, <3>4, <3>5 DEF Seen, SeenIn, Sees
  <2>4. CASE Adds(c) /\ pc'[c] = "done"
    <3>1. Inserting(c) /\ edges' = edges \cup {EdgeOf(c)} /\ saw' = saw
      BY <2>4 DEF Adds
    <3>2. \A d \in Calls : Inserting(d)' => Inserting(d) /\ d # c
      BY <2>0, <2>4 DEF Inserting
    <3>3. \A d \in Calls : Inserting(d) /\ d # c => EdgeOf(d) # EdgeOf(c)
      BY <3>1 DEF Seen
    <3>4. ~Reaches(saw[EdgeOf(c)], EdgeOf(c)[2], EdgeOf(c)[1])
      BY <3>1 DEF Seen, Inserting
    <3>5. SeenIn(edges', saw')
      BY <3>1, <3>4 DEF Seen, SeenIn
    <3>6. \A d \in Calls : pc'[d] \in {"insert", "inserted"} => SeenBy(d, saw)
      BY <2>0, <2>4, SeenIs
    <3> QED
      BY <2>0, <3>1, <3>2, <3>3, <3>5, <3>6 DEF Seen, SeenIn, SeenBy
  <2>5. CASE Removes(c) /\ pc'[c] = "done"
    <3>1. edges' = edges \ {EdgeOf(c)} /\ \A e \in Edges : saw'[e] = saw[e] \ {EdgeOf(c)}
      BY <2>5 DEF Removes
    <3>2. \A e \in Edges : Reaches(saw'[e], e[2], e[1]) => Reaches(saw[e], e[2], e[1])
      BY <3>1, ReachesMore
    <3>3. SeenIn(edges', saw')
      BY <3>1, <3>2 DEF Seen, SeenIn, TypeOK
    <3>4. \A d \in Calls : pc'[d] \in {"insert", "inserted"} =>
            ~Reaches(saw'[EdgeOf(d)], EdgeOf(d)[2], EdgeOf(d)[1])
      <4> SUFFICES ASSUME NEW d \in Calls, pc[d] \in {"insert", "inserted"}
                   PROVE  ~Reaches(saw'[EdgeOf(d)], EdgeOf(d)[2], EdgeOf(d)[1])
        BY <2>0, <2>5
      <4>1. EdgeOf(d) \in Edges
        BY EdgeIs
      <4> QED
        BY <3>2, <4>1 DEF Seen
    <3>5. \A d \in Calls : Inserting(d)' => Inserting(d)
      BY <2>0, <2>5 DEF Inserting
    <3> QED
      BY <2>0, <3>1, <3>3, <3>4, <3>5 DEF Seen, SeenIn
  <2> QED
    BY <1>2, <2>1, <2>2, <2>3, <2>4, <2>5, EdgeSteps
<1>3. CASE UNCHANGED vars
  BY <1>3 DEF vars, callVars, itemVars, Seen, Inserting, EdgeOf
<1> QED
  BY <1>1, <1>2, <1>3, StepIs

\* A cycle of the edges E has a pair of edges blind to each other, given what
\* the triggers saw.
BlindIn(E, w) ==
  Cyclic(E) # {} => \E e, f \in Cyclic(E) : e # f /\ e \notin w[f] /\ f \notin w[e]

LEMMA BlindNext ==
  ASSUME TypeOK, Asked, Placed, Seen, Blind, [Next]_vars
  PROVE  Blind'
<1>0. \A E \in SUBSET edges : BlindIn(E, saw)
  BY DEF Blind, BlindIn
<1>1. CASE UNCHANGED <<edges, saw>>
  BY <1>1 DEF Blind
<1>2. ASSUME NEW c \in Calls, CallStep(c), Sees(c) PROVE Blind'
  <2> SUFFICES ASSUME NEW E \in SUBSET edges, Cyclic(E) # {}
               PROVE  \E e, f \in Cyclic(E) : e # f /\ e \notin saw'[f] /\ f \notin saw'[e]
    BY <1>2 DEF Blind, Sees
  <2>1. PICK e \in Cyclic(E), f \in Cyclic(E) : e # f /\ e \notin saw[f] /\ f \notin saw[e]
    BY <1>0 DEF BlindIn
  <2>2. EdgeOf(c) \in Edges /\ EdgeOf(c) \notin Cyclic(E)
    BY <1>2, EdgeIs, ReachesMore DEF Sees, ClosesCycle, Cyclic
  <2>3. saw'[e] = saw[e] /\ saw'[f] = saw[f]
    BY <1>2, <2>1, <2>2 DEF Sees, TypeOK
  <2> QED
    BY <2>1, <2>3
<1>3. ASSUME NEW c \in Calls, CallStep(c), Adds(c) PROVE Blind'
  <2>0. edges' = edges \cup {EdgeOf(c)} /\ saw' = saw /\ Inserting(c) /\ edges' \subseteq Edges
    <3>1. EdgeOf(c) \in Edges
      BY <1>3, EdgeIs DEF Adds, Inserting
    <3> QED
      BY <1>3, <3>1 DEF Adds, TypeOK
  <2> SUFFICES ASSUME NEW E \in SUBSET edges', Cyclic(E) # {}
               PROVE  \E e, f \in Cyclic(E) : e # f /\ e \notin saw[f] /\ f \notin saw[e]
    BY <2>0 DEF Blind
  <2>1. CASE EdgeOf(c) \in Cyclic(E)
    <3>1. ~Reaches(saw[EdgeOf(c)], EdgeOf(c)[2], EdgeOf(c)[1])
      BY <2>0 DEF Seen, Inserting
    <3>2. PICK f \in Cyclic(E) : f # EdgeOf(c) /\ f \notin saw[EdgeOf(c)]
      BY <2>0, <2>1, <3>1, CycleUnseen
    <3>3. f \in Edges
      BY <2>0 DEF Cyclic
    <3>4. EdgeOf(c) \notin saw[f]
      BY <2>0, <3>3 DEF Seen
    <3> QED
      BY <2>1, <3>2, <3>4
  <2>2. CASE EdgeOf(c) \notin Cyclic(E)
    <3>1. Cyclic(E) = Cyclic(E \ {EdgeOf(c)})
      BY <2>0, <2>2, CyclicWithout
    <3>2. E \ {EdgeOf(c)} \in SUBSET edges
      BY <2>0
    <3>3. BlindIn(E \ {EdgeOf(c)}, saw)
      BY <1>0, <3>2
    <3> QED
      BY <3>1, <3>3 DEF BlindIn
  <2> QED
    BY <2>1, <2>2
<1>4. ASSUME NEW c \in Calls, CallStep(c), Removes(c) PROVE Blind'
  <2> SUFFICES ASSUME NEW E \in SUBSET edges', Cyclic(E) # {}
               PROVE  \E e, f \in Cyclic(E) : e # f /\ e \notin saw'[f] /\ f \notin saw'[e]
    BY DEF Blind
  <2>1. E \in SUBSET edges
    BY <1>4 DEF Removes
  <2>2. PICK e \in Cyclic(E), f \in Cyclic(E) : e # f /\ e \notin saw[f] /\ f \notin saw[e]
    BY <1>0, <2>1 DEF BlindIn
  <2>3. e \in Edges /\ f \in Edges
    BY <2>1 DEF Cyclic, TypeOK
  <2> QED
    BY <1>4, <2>2, <2>3 DEF Removes
<1> QED
  <2>1. (\A c \in Calls : ~CallStep(c)) => UNCHANGED <<edges, saw>>
    BY StepIs DEF Ask, AskAgain, vars, itemVars
  <2>2. \A c \in Calls : CallStep(c) =>
          Sees(c) \/ Adds(c) \/ Removes(c) \/ UNCHANGED <<edges, saw>>
    BY EdgeSteps DEF Inserts, Apart
  <2> QED
    BY <1>1, <1>2, <1>3, <1>4, <2>1, <2>2

-----------------------------------------------------------------------------
(* The theorems.                                                             *)

BaseInv == TypeOK /\ Asked /\ Placed

LEMMA BaseInit == Init => BaseInv
<1> SUFFICES ASSUME Init PROVE BaseInv
  OBVIOUS
<1>1. TypeOK
  BY BoardsAssumption DEF Init, TypeOK, Replies
<1>2. Asked /\ Placed
  BY DEF Init, Asked, Placed, IsBatch, NoCommand
<1> QED
  BY <1>1, <1>2 DEF BaseInv

LEMMA BaseNext == BaseInv /\ [Next]_vars => BaseInv'
BY TypedNext, AskedNext, PlacedNext DEF BaseInv

LEMMA Base == Spec => []BaseInv
BY BaseInit, BaseNext, PTL DEF Spec

\* Every variable keeps its type.
THEOREM TypesHold == Spec => []TypeOK
<1>1. BaseInv => TypeOK
  BY DEF BaseInv
<1> QED
  BY <1>1, Base, PTL

\* An item is completed after what it depends on, although its dependencies
\* are read before its row is locked (items.ts:220).
THEOREM CompletedLast == Spec => []CompletedAfterDependencies
<1>1. Init => Sound /\ Unblocked /\ CompletedAfterDependencies
  <2> SUFFICES ASSUME Init PROVE Sound /\ Unblocked /\ CompletedAfterDependencies
    OBVIOUS
  <2>1. Sound /\ Unblocked
    BY DEF Init, Sound, Unblocked
  <2>2. CompletedAfterDependencies
    BY BoardsAssumption DEF Init, CompletedAfterDependencies
  <2> QED
    BY <2>1, <2>2
<1>2. BaseInv /\ Sound /\ Unblocked /\ CompletedAfterDependencies /\ [Next]_vars
        => (Sound /\ Unblocked /\ CompletedAfterDependencies)'
  BY SoundNext, UnblockedNext, CompletedNext DEF BaseInv
<1> QED
  BY <1>1, <1>2, Base, PTL DEF Spec

\* No two changes of an item rest on one version of it (items.ts:497).
THEOREM NoneLost == Spec => []NoLostUpdate
<1>1. Init => Moved /\ NoLostUpdate
  BY DEF Init, Moved, NoLostUpdate, Changed
<1>2. BaseInv /\ Moved /\ NoLostUpdate /\ [Next]_vars => (Moved /\ NoLostUpdate)'
  BY MovedNext, LostNext DEF BaseInv
<1> QED
  BY <1>1, <1>2, Base, PTL DEF Spec

\* The answer of a batch says which of its items the attempts of its key have
\* changed (batch.ts:93).
THEOREM BatchesTellTheTruth == Spec => []BatchAnswerIsTrue
<1>1. Init => Keyed /\ Told
  BY DEF Init, Keyed, Told, Holding, Connected, IsBatch, NoCommand
<1>2. BaseInv /\ Keyed /\ Told /\ [Next]_vars => (Keyed /\ Told)'
  BY KeyedNext, ToldNext DEF BaseInv
<1>3. BaseInv /\ Told => BatchAnswerIsTrue
  <2> SUFFICES ASSUME BaseInv, Told, NEW c \in Calls, IsBatch(c), reply[c] = "ok",
                      NEW i \in Named(cmd[c])
               PROVE  results[c][i] = "ok" <=> i \in recorded[key[c]]
    BY DEF BatchAnswerIsTrue
  <2>1. i \in Items
    BY OrderAssumption DEF Named, IsBatch
  <2> QED
    BY <2>1 DEF Told
<1> QED
  BY <1>1, <1>2, <1>3, Base, PTL DEF Spec

\* A cycle of dependencies has two edges whose insertions did not see each
\* other: the trigger refuses every other one (0014:63).
THEOREM CyclesNeedTwo == Spec => []CyclesAreBlind
<1>1. Init => Seen /\ Blind
  <2> SUFFICES ASSUME Init PROVE Seen /\ Blind
    OBVIOUS
  <2>1. edges \subseteq Edges /\ \A e \in edges : ~Reaches(edges, e[2], e[1])
    BY BoardsAssumption DEF Init
  <2>2. \A e \in Edges : saw[e] = {}
    BY DEF Init
  <2>3. \A e \in edges : ~Reaches(saw[e], e[2], e[1])
    BY <2>1, <2>2, ReachesMore
  <2>4. \A c \in Calls : pc[c] = "new"
    BY DEF Init
  <2>5. Seen
    BY <2>1, <2>2, <2>3, <2>4 DEF Seen, Inserting
  <2>6. Blind
    BY <2>1, ReachesMore DEF Blind, Cyclic
  <2> QED
    BY <2>5, <2>6
<1>2. BaseInv /\ Seen /\ Blind /\ [Next]_vars => (Seen /\ Blind)'
  BY SeenNext, BlindNext DEF BaseInv
<1>3. Blind => CyclesAreBlind
  BY DEF Blind, CyclesAreBlind, Cyclic
<1> QED
  BY <1>1, <1>2, <1>3, Base, PTL DEF Spec
=============================================================================
