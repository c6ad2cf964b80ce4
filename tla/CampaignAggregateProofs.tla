---------------------- MODULE CampaignAggregateProofs -----------------------
(* What is proved of CampaignAggregate, for every value of its constants. *)
EXTENDS CampaignAggregate, FiniteSetTheorems, TLAPS

-----------------------------------------------------------------------------
(* The inductive invariant.                                                  *)

Typed == TypeOK /\ IsFiniteSet(made)

\* The flag is on one user, an owner.
Flagged == \E u \in Users : primary = {u} /\ role[u] = "owner"

\* The calls of one key ask for the same, at the version their first one saw.
Asked ==
  \A c \in Calls :
    /\ pc[c] = "new" => key[c] = c /\ reply[c] = "none"
    /\ pc[c] # "new" => /\ pc[key[c]] # "new"
                        /\ seen[c] = seen[key[c]]
                        /\ seen[c] <= version
                        /\ cmd[c] \in Commands

\* A key is in the hands of one call, until that call has committed its record.
Keyed ==
  /\ \A d \in made : key[d] \in records /\ pc[d] = "done"
  /\ \A c \in Calls : Holding(c) =>
       /\ key[c] \notin records
       /\ \A d \in Calls : Holding(d) /\ key[d] = key[c] => d = c

\* A version that was refused is never the campaign's again.
Stale == \A c \in Calls : reply[c] = "version_conflict" => seen[c] < version

\* What the permission of the database found holds as long as the version does.
Granted == \A c \in Calls : pc[c] = "lock" /\ Current(c) => Entitled(c)

-----------------------------------------------------------------------------
(* What a step is.                                                           *)

\* The transaction of call c commits, and is answered or not.
Commits(c) ==
  /\ pc[c] = "lock" /\ ~Locked /\ Current(c) /\ ~Refused(cmd[c])
  /\ Change(c)
  /\ Answer(c, "ok") \/ Answer(c, "unavailable")
  /\ UNCHANGED stored

\* The row refuses call c, or the connection to it is lost.
Denied(c) ==
  /\ pc[c] = "lock"
  /\ \/ ~Current(c) /\ Fail(c, "version_conflict")
     \/ \E a \in {"invalid", "forbidden", "unavailable"} : Fail(c, a)
     \/ Answer(c, "unavailable")
  /\ Unchanged /\ UNCHANGED stored

LEMMA LockIs ==
  ASSUME NEW c \in Calls, Lock(c)
  PROVE  Commits(c) \/ Denied(c)
BY DEF Lock, Commits, Denied

\* The database permits call c its change, or not.
LEMMA PermissionIs ==
  ASSUME NEW c \in Calls, Permission(c)
  PROVE  /\ \/ Step(c, "lock") /\ Entitled(c)
            \/ \E a \in {"invalid", "forbidden"} : Fail(c, a)
         /\ Unchanged /\ UNCHANGED stored
<1> DEFINE m == cmd[c]
<1>1. CASE m.op \in {"update", "remove"} /\ role[m.target] = "none"
  BY <1>1 DEF Permission, Unchanged
<1>2. CASE m.op = "move" /\ ~(Possible(m.to) /\ MayMove(c, m.to))
  BY <1>2 DEF Permission, Unchanged, People
<1>3. CASE m.op \in People /\ ~(CanManage(c) /\ (TouchesOwner(m) => Manager(c)))
  BY <1>3 DEF Permission, Unchanged, CanManage
<1>4. CASE ~CanEdit(c)
  BY <1>4 DEF Permission, Unchanged
<1>5. CASE /\ m.op = "move" => Possible(m.to) /\ MayMove(c, m.to)
           /\ m.op \in People => CanManage(c) /\ (TouchesOwner(m) => Manager(c))
           /\ CanEdit(c)
  <2>1. Entitled(c)
    BY <1>5 DEF Entitled
  <2> QED
    BY <1>5, <2>1 DEF Permission, Unchanged
<1> QED
  BY <1>1, <1>2, <1>3, <1>4, <1>5

\* A step of call c.
Moves(c) == \/ Preflight(c) \/ Record(c) \/ Upload(c) \/ Permission(c)
            \/ Commits(c) \/ Denied(c) \/ Compensate(c)

LEMMA StepIs ==
  ASSUME Next
  PROVE  \/ \E c \in Calls, m \in Commands : Ask(c, m)
         \/ \E c \in Calls, d \in Calls : AskAgain(c, d)
         \/ \E c \in Calls : Moves(c)
         \/ Crash
         \/ UNCHANGED vars
BY LockIs DEF Next, CallStep, AllAnswered, Moves

LEMMA MovesIs ==
  ASSUME Typed, NEW c \in Calls, Moves(c)
  PROVE  /\ pc[c] \notin {"new", "done"}
         /\ \/ \E s \in {"record", "upload", "permission", "lock"} : Step(c, s)
            \/ \E a \in Replies : Answer(c, a) \/ Fail(c, a)
         /\ Unchanged \/ Commits(c)
<1>1. CASE Preflight(c) \/ Record(c) \/ Upload(c)
  BY <1>1 DEF Preflight, Record, Upload, Replies, Unchanged
<1>2. CASE Permission(c)
  BY <1>2, PermissionIs DEF Permission, Replies
<1>3. CASE Commits(c) \/ Denied(c)
  BY <1>3 DEF Commits, Denied, Replies
<1>4. CASE Compensate(c)
  BY <1>4 DEF Compensate, Replies, Unchanged, Typed, TypeOK
<1> QED
  BY <1>1, <1>2, <1>3, <1>4 DEF Moves

\* A call changes what is its own.
LEMMA MovesKeeps ==
  ASSUME Typed, NEW c \in Calls, Moves(c)
  PROVE  /\ UNCHANGED <<cmd, seen, key>>
         /\ pc' = [pc EXCEPT ![c] = pc'[c]] /\ reply' = [reply EXCEPT ![c] = reply'[c]]
         /\ pc'[c] \in {"record", "upload", "permission", "lock", "compensate", "done"}
         /\ reply'[c] \in Replies
<1>1. ASSUME NEW s \in {"record", "upload", "permission", "lock"}, Step(c, s)
      PROVE  /\ UNCHANGED <<cmd, seen, key, reply>> /\ pc' = [pc EXCEPT ![c] = s]
  BY <1>1 DEF Step
<1>2. ASSUME NEW a \in Replies, Answer(c, a) \/ Fail(c, a)
      PROVE  /\ UNCHANGED <<cmd, seen, key>> /\ reply' = [reply EXCEPT ![c] = a]
             /\ pc' = [pc EXCEPT ![c] = "done"] \/ pc' = [pc EXCEPT ![c] = "compensate"]
  BY <1>2 DEF Answer, Fail
<1> QED
  BY <1>1, <1>2, MovesIs DEF Typed, TypeOK

\* Who has begun goes on, and keeps what it asked for.
LEMMA CallsKept ==
  ASSUME Typed, [Next]_vars, NEW c \in Calls
  PROVE  /\ pc[c] # "new" => /\ pc'[c] # "new" /\ cmd'[c] = cmd[c] /\ seen'[c] = seen[c]
                             /\ key'[c] = key[c]
         /\ pc[c] = "done" => pc'[c] = "done" /\ reply'[c] = reply[c]
<1> DEFINE Kept == /\ pc[c] # "new" => /\ pc'[c] # "new" /\ cmd'[c] = cmd[c] /\ seen'[c] = seen[c]
                                       /\ key'[c] = key[c]
                   /\ pc[c] = "done" => pc'[c] = "done" /\ reply'[c] = reply[c]
<1> USE DEF Typed, TypeOK
<1>1. ASSUME NEW d \in Calls, NEW m \in Commands, Ask(d, m) PROVE Kept
  BY <1>1 DEF Ask
<1>2. ASSUME NEW d \in Calls, NEW e \in Calls, AskAgain(d, e) PROVE Kept
  BY <1>2 DEF AskAgain
<1>3. ASSUME NEW d \in Calls, Moves(d) PROVE Kept
  <2>1. pc[d] \notin {"new", "done"}
    BY <1>3, MovesIs
  <2> QED
    BY <1>3, <2>1, MovesKeeps
<1>4. CASE Crash
  BY <1>4 DEF Crash
<1>5. CASE UNCHANGED vars
  BY <1>5 DEF vars, callVars
<1> QED
  BY <1>1, <1>2, <1>3, <1>4, <1>5, StepIs

LEMMA CampaignIs ==
  ASSUME Typed, [Next]_vars
  PROVE  Unchanged \/ \E c \in Calls : Commits(c)
BY StepIs, MovesIs DEF Ask, AskAgain, Crash, Unchanged, vars, campaignVars, historyVars

\* A commit makes the version one more.
LEMMA CommitsIs ==
  ASSUME Typed, Asked, Keyed, NEW c \in Calls, Commits(c)
  PROVE  /\ cmd[c] \in Commands /\ seen[c] = version /\ c \notin made
         /\ pc[c] = "lock" /\ pc' = [pc EXCEPT ![c] = "done"]
         /\ \E a \in {"ok", "unavailable"} : reply' = [reply EXCEPT ![c] = a]
         /\ version' = version + 1
         /\ records' = records \cup {key[c]} /\ made' = made \cup {c}
         /\ UNCHANGED <<stored, cmd, seen, key>>
BY DEF Commits, Change, Current, Answer, Asked, Keyed, Typed, TypeOK

LEMMA VersionGrows ==
  ASSUME Typed, Asked, Keyed, [Next]_vars
  PROVE  version \in Nat /\ version' \in Nat /\ version <= version'
<1>1. CASE Unchanged
  BY <1>1 DEF Unchanged, campaignVars, Typed, TypeOK
<1>2. ASSUME NEW c \in Calls, Commits(c)
      PROVE  version \in Nat /\ version' \in Nat /\ version <= version'
  BY <1>2, CommitsIs DEF Typed, TypeOK
<1> QED
  BY <1>1, <1>2, CampaignIs

-----------------------------------------------------------------------------
(* Types and the one primary owner.                                          *)

\* The participants of a commit that changes them.
PeopleChanged(m) ==
  /\ m \in Commands /\ m.op \in People /\ ~Refused(m)
  /\ ChangePeople(m)

CampaignTyped ==
  /\ status \in Statuses
  /\ role \in [Users -> Roles] /\ primary \subseteq Users
  /\ linked \subseteq Artifacts

LEMMA ChangeIs ==
  ASSUME Typed, Asked, Keyed, NEW c \in Calls, Commits(c)
  PROVE  /\ cmd[c] \in Commands
         /\ \/ PeopleChanged(cmd[c])
            \/ cmd[c].op \in Material /\ ChangeMaterial(c)
            \/ cmd[c].op \in {"edit", "move"} /\ ChangeCampaign(cmd[c])
<1>1. cmd[c] \in Commands
  BY CommitsIs
<1>2. cmd[c].op \in People \cup Material \cup {"edit", "move"}
  BY <1>1, CommandsAssumption
<1> QED
  BY <1>1, <1>2 DEF Commits, Change, PeopleChanged, People, Material

LEMMA PeopleTyped ==
  ASSUME Typed, NEW m, PeopleChanged(m)
  PROVE  CampaignTyped'
<1>1. m.target \in Users /\ (m.op \in {"add", "update"} => m.to \in NamedRoles)
  BY CommandsAssumption DEF PeopleChanged
<1>2. m.op = "remove" \/ m.to \in NamedRoles
  BY <1>1 DEF PeopleChanged, People
<1>3. role' \in [Users -> Roles]
  BY <1>1, <1>2 DEF PeopleChanged, ChangePeople, NextRole, Typed, TypeOK, NamedRoles, Roles
<1> QED
  BY <1>1, <1>3 DEF PeopleChanged, ChangePeople, CampaignTyped, Typed, TypeOK

LEMMA CampaignTypedNext ==
  ASSUME Typed, Asked, Keyed, [Next]_vars
  PROVE  CampaignTyped'
<1>1. CASE Unchanged
  BY <1>1 DEF Unchanged, campaignVars, CampaignTyped, Typed, TypeOK
<1>2. ASSUME NEW c \in Calls, Commits(c) PROVE CampaignTyped'
  <2>1. CASE PeopleChanged(cmd[c])
    <3>1. PICK m : m = cmd[c]
      OBVIOUS
    <3> QED
      BY <2>1, <3>1, PeopleTyped
  <2>2. CASE cmd[c].op \in Material /\ ChangeMaterial(c)
    BY <2>2 DEF ChangeMaterial, Material, Artifacts, CampaignTyped, Typed, TypeOK
  <2>3. CASE cmd[c].op \in {"edit", "move"} /\ ChangeCampaign(cmd[c])
    BY <1>2, <2>3, ChangeIs, CommandsAssumption DEF ChangeCampaign, CampaignTyped, Typed, TypeOK
  <2> QED
    BY <1>2, <2>1, <2>2, <2>3, ChangeIs
<1> QED
  BY <1>1, <1>2, CampaignIs

CallsTyped ==
  /\ pc \in [Calls -> {"new", "preflight", "record", "upload", "permission", "lock",
                       "compensate", "done"}]
  /\ cmd \in [Calls -> Commands \cup {NoCommand}]
  /\ seen \in [Calls -> Nat]
  /\ key \in [Calls -> Calls]
  /\ reply \in [Calls -> Replies]
  /\ stored \subseteq Artifacts

LEMMA CallsTypedNext ==
  ASSUME Typed, [Next]_vars
  PROVE  CallsTyped'
<1>1. ASSUME NEW c \in Calls, NEW m \in Commands, Ask(c, m) PROVE CallsTyped'
  BY <1>1 DEF Ask, Typed, TypeOK, CallsTyped
<1>2. ASSUME NEW c \in Calls, NEW d \in Calls, AskAgain(c, d) PROVE CallsTyped'
  BY <1>2 DEF AskAgain, Typed, TypeOK, CallsTyped
<1>3. ASSUME NEW c \in Calls, Moves(c) PROVE CallsTyped'
  <2>1. stored' \subseteq stored \cup {c}
    BY <1>3, PermissionIs DEF Moves, Preflight, Record, Upload, Commits, Denied, Compensate
  <2> QED
    BY <1>3, <2>1, MovesKeeps DEF Typed, TypeOK, CallsTyped, Artifacts
<1>4. CASE Crash
  BY <1>4 DEF Crash, Typed, TypeOK, CallsTyped, Replies
<1>5. CASE UNCHANGED vars
  BY <1>5 DEF vars, callVars, Typed, TypeOK, CallsTyped
<1> QED
  BY <1>1, <1>2, <1>3, <1>4, <1>5, StepIs

HistoryTyped ==
  /\ version \in Nat \ {0} /\ records \subseteq Calls
  /\ made \subseteq Calls /\ IsFiniteSet(made) /\ version = 1 + Cardinality(made)
  /\ ever \subseteq Artifacts

LEMMA HistoryTypedNext ==
  ASSUME Typed, Asked, Keyed, [Next]_vars
  PROVE  HistoryTyped'
<1>1. CASE Unchanged
  BY <1>1 DEF Unchanged, campaignVars, historyVars, HistoryTyped, Typed, TypeOK
<1>2. ASSUME NEW c \in Calls, Commits(c) PROVE HistoryTyped'
  <2>1. Cardinality(made) \in Nat /\ Cardinality(made \cup {c}) = Cardinality(made) + 1
        /\ IsFiniteSet(made \cup {c})
    BY <1>2, CommitsIs, FS_AddElement, FS_CardinalityType DEF Typed
  <2>2. /\ version' = version + 1 /\ made' = made \cup {c} /\ records' = records \cup {key[c]}
    BY <1>2, CommitsIs
  <2>3. ever' \subseteq Artifacts
    BY <1>2, CampaignTypedNext DEF Commits, Change, CampaignTyped, Typed, TypeOK
  <2> QED
    BY <2>1, <2>2, <2>3 DEF HistoryTyped, Typed, TypeOK
<1> QED
  BY <1>1, <1>2, CampaignIs

LEMMA TypedNext ==
  ASSUME Typed, Asked, Keyed, [Next]_vars
  PROVE  Typed'
BY CampaignTypedNext, CallsTypedNext, HistoryTypedNext
   DEF CampaignTyped, CallsTyped, HistoryTyped, Typed, TypeOK

\* The flag passes with the role of an owner, and is taken from nobody else.
LEMMA PeopleFlagged ==
  ASSUME Typed, Flagged, NEW m, PeopleChanged(m)
  PROVE  Flagged'
<1>1. PICK u \in Users : primary = {u} /\ role[u] = "owner"
  BY DEF Flagged
<1>2. m \in Commands /\ m.target \in Users /\ m.op \in People
  BY CommandsAssumption DEF PeopleChanged
<1>3. CASE m.op # "remove" /\ NextPrimary(m) /\ m.target \notin primary
  <2>1. primary' = {m.target}
    BY <1>3 DEF PeopleChanged, ChangePeople
  <2>2. NextRole(m) = "owner"
    <3>1. CASE m.op = "add"
      BY <1>2, <1>3, <3>1, CommandsAssumption DEF NextPrimary, NextRole
    <3>2. CASE m.op = "update"
      BY <1>3, <3>2 DEF PeopleChanged, Refused, UpdateRefused
    <3> QED
      BY <1>2, <1>3, <3>1, <3>2 DEF People
  <2>3. role'[m.target] = "owner"
    BY <1>2, <1>3, <2>2 DEF PeopleChanged, ChangePeople, Typed, TypeOK
  <2> QED
    BY <1>2, <2>1, <2>3 DEF Flagged
<1>4. CASE ~(m.op # "remove" /\ NextPrimary(m) /\ m.target \notin primary)
  <2>1. CASE u # m.target
    <3>1. primary' = {u}
      BY <1>1, <1>4, <2>1 DEF PeopleChanged, ChangePeople
    <3> QED
      BY <1>1, <1>2, <2>1, <3>1 DEF PeopleChanged, ChangePeople, Typed, TypeOK, Flagged
  <2>2. CASE u = m.target
    <3>0. role[m.target] # "none"
      BY <1>1, <2>2
    <3>1. m.op = "update" /\ NextPrimary(m) /\ NextRole(m) = "owner"
      BY <1>1, <1>2, <2>2, <3>0 DEF PeopleChanged, Refused, UpdateRefused, People
    <3>2. primary' = {u}
      BY <1>1, <2>2, <3>1 DEF PeopleChanged, ChangePeople
    <3>3. role'[u] = "owner"
      BY <1>2, <2>2, <3>1 DEF PeopleChanged, ChangePeople, Typed, TypeOK
    <3> QED
      BY <3>2, <3>3 DEF Flagged
  <2> QED
    BY <2>1, <2>2
<1> QED
  BY <1>3, <1>4

LEMMA FlaggedNext ==
  ASSUME Typed, Asked, Keyed, Flagged, [Next]_vars
  PROVE  Flagged'
<1>1. CASE Unchanged
  BY <1>1 DEF Unchanged, campaignVars, Flagged
<1>2. ASSUME NEW c \in Calls, Commits(c) PROVE Flagged'
  <2>1. CASE PeopleChanged(cmd[c])
    <3>1. PICK m : m = cmd[c]
      OBVIOUS
    <3> QED
      BY <2>1, <3>1, PeopleFlagged
  <2>2. CASE UNCHANGED <<role, primary>>
    BY <2>2 DEF Flagged
  <2> QED
    BY <1>2, <2>1, <2>2, ChangeIs DEF ChangeMaterial, ChangeCampaign
<1> QED
  BY <1>1, <1>2, CampaignIs

-----------------------------------------------------------------------------
(* Keys, records and refused versions.                                       *)

LEMMA AskedNext ==
  ASSUME Typed, Asked, Keyed, [Next]_vars
  PROVE  Asked'
<1>0. version \in Nat /\ version' \in Nat /\ version <= version'
  BY VersionGrows
<1>1. ASSUME NEW c \in Calls, NEW m \in Commands, Ask(c, m) PROVE Asked'
  <2>1. version' = version /\ reply' = reply
    BY <1>1 DEF Ask, campaignVars
  <2>2. ASSUME NEW d \in Calls, d # c, pc[d] # "new" PROVE key[d] # c
    BY <1>1, <2>2 DEF Ask, Asked
  <2> QED
    BY <1>0, <1>1, <2>1, <2>2 DEF Ask, Asked, Typed, TypeOK
<1>2. ASSUME NEW c \in Calls, NEW d \in Calls, AskAgain(c, d) PROVE Asked'
  <2>1. version' = version /\ reply' = reply
    BY <1>2 DEF AskAgain, campaignVars
  <2>2. pc[d] # "new" /\ pc[key[d]] # "new" /\ key[d] \in Calls
    BY <1>2 DEF AskAgain, Asked, Typed, TypeOK
  <2>3. ASSUME NEW e \in Calls, pc[e] # "new" PROVE key[e] # c
    BY <1>2, <2>3 DEF AskAgain, Asked
  <2> QED
    BY <1>0, <1>2, <2>1, <2>2, <2>3 DEF AskAgain, Asked, Typed, TypeOK
<1>3. ASSUME NEW c \in Calls, Moves(c) PROVE Asked'
  <2>1. pc[c] # "new"
    BY <1>3, MovesIs
  <2> QED
    BY <1>0, <1>3, <2>1, MovesKeeps DEF Asked, Typed, TypeOK
<1>4. CASE Crash
  BY <1>0, <1>4 DEF Crash, campaignVars, Asked, Typed, TypeOK
<1>5. CASE UNCHANGED vars
  BY <1>5 DEF vars, campaignVars, callVars, Asked
<1> QED
  BY <1>1, <1>2, <1>3, <1>4, <1>5, StepIs

\* Whose transaction is open stays, or is the one whose record is inserted.
LEMMA HoldingIs ==
  ASSUME Typed, [Next]_vars, NEW d \in Calls, Holding(d)'
  PROVE  /\ key'[d] = key[d] /\ pc[d] # "done"
         /\ \/ Holding(d)
            \/ Record(d) /\ key[d] \notin records /\ \A e \in Calls \ {d} : pc'[e] = pc[e]
<1> USE DEF Holding, Typed, TypeOK
<1>1. ASSUME NEW c \in Calls, NEW m \in Commands, Ask(c, m)
      PROVE  Holding(d) /\ key'[d] = key[d]
  BY <1>1 DEF Ask
<1>2. ASSUME NEW c \in Calls, NEW e \in Calls, AskAgain(c, e)
      PROVE  Holding(d) /\ key'[d] = key[d]
  BY <1>2 DEF AskAgain
<1>3. ASSUME NEW c \in Calls, Moves(c), c # d
      PROVE  Holding(d) /\ key'[d] = key[d]
  BY <1>3, MovesKeeps
<1>4. CASE Moves(d)
  <2>1. key' = key /\ pc[d] # "done" /\ \A e \in Calls \ {d} : pc'[e] = pc[e]
    BY <1>4, MovesIs, MovesKeeps
  <2>2. ~Preflight(d)
    BY DEF Preflight, Step, Answer
  <2>3. CASE Record(d)
    BY <2>1, <2>3 DEF Record, Answer
  <2>4. CASE Upload(d) \/ Permission(d) \/ Commits(d) \/ Denied(d) \/ Compensate(d)
    BY <2>1, <2>4 DEF Upload, Permission, Commits, Denied, Compensate
  <2> QED
    BY <1>4, <2>1, <2>2, <2>3, <2>4 DEF Moves
<1>5. ~Crash
  BY DEF Crash
<1>6. CASE UNCHANGED vars
  BY <1>6 DEF vars, callVars
<1> QED
  BY <1>1, <1>2, <1>3, <1>4, <1>5, <1>6, StepIs

LEMMA KeyedNext ==
  ASSUME Typed, Asked, Keyed, [Next]_vars
  PROVE  Keyed'
<1>1. ASSUME NEW d \in made' PROVE key'[d] \in records' /\ pc'[d] = "done"
  <2>1. CASE Unchanged
    <3>1. d \in made /\ d \in Calls /\ pc[d] = "done" /\ key[d] \in records
      BY <1>1, <2>1 DEF Unchanged, historyVars, Keyed, Typed, TypeOK
    <3> QED
      BY <2>1, <3>1, CallsKept DEF Unchanged
  <2>2. ASSUME NEW c \in Calls, Commits(c) PROVE key'[d] \in records' /\ pc'[d] = "done"
    BY <1>1, <2>2, CommitsIs DEF Keyed, Typed, TypeOK
  <2> QED
    BY <2>1, <2>2, CampaignIs
<1>2. ASSUME NEW c \in Calls, Holding(c)' PROVE key'[c] \notin records'
  <2>1. /\ key'[c] = key[c] /\ key[c] \notin records
    BY <1>2, HoldingIs DEF Keyed
  <2>2. CASE Unchanged
    BY <2>1, <2>2 DEF Unchanged
  <2>3. ASSUME NEW d \in Calls, Commits(d) PROVE key'[c] \notin records'
    <3>1. records' = records \cup {key[d]} /\ Holding(d) /\ ~Holding(d)'
      BY <2>3, CommitsIs DEF Holding, Typed, TypeOK
    <3>2. Holding(c)
      <4>1. pc[d] = "lock" /\ pc'[d] = "done"
        BY <2>3, CommitsIs DEF Typed, TypeOK
      <4>2. ~(Record(c) /\ \A e \in Calls \ {c} : pc'[e] = pc[e])
        BY <4>1 DEF Record
      <4> QED
        BY <1>2, <4>2, HoldingIs
    <3>3. c # d
      BY <1>2, <3>1
    <3> QED
      BY <2>1, <3>1, <3>2, <3>3 DEF Keyed
  <2> QED
    BY <2>2, <2>3, CampaignIs
<1>3. ASSUME NEW c \in Calls, Holding(c)', NEW d \in Calls, Holding(d)', key'[d] = key'[c]
      PROVE  d = c
  <2>1. key[d] = key[c]
    BY <1>3, HoldingIs
  <2>2. CASE Holding(c) /\ Holding(d)
    BY <2>1, <2>2 DEF Keyed
  <2>3. CASE ~Holding(c)
    <3>1. Record(c) /\ \A e \in Calls \ {c} : pc'[e] = pc[e]
      BY <1>3, <2>3, HoldingIs
    <3>2. d # c => Holding(d)
      BY <1>3, <3>1 DEF Holding
    <3> QED
      BY <2>1, <3>1, <3>2 DEF Record
  <2>4. CASE ~Holding(d)
    <3>1. Record(d) /\ \A e \in Calls \ {d} : pc'[e] = pc[e]
      BY <1>3, <2>4, HoldingIs
    <3>2. d # c => Holding(c)
      BY <1>3, <3>1 DEF Holding
    <3> QED
      BY <2>1, <3>1, <3>2 DEF Record
  <2> QED
    BY <2>2, <2>3, <2>4
<1> QED
  BY <1>1, <1>2, <1>3 DEF Keyed

\* A call is told that its version is stale by the row only.
LEMMA StaleIs ==
  ASSUME Typed, [Next]_vars, NEW c \in Calls, reply'[c] = "version_conflict",
         reply[c] # "version_conflict"
  PROVE  Holding(c) /\ ~Current(c) /\ Unchanged
<1> USE DEF Typed, TypeOK
<1>1. ASSUME NEW d \in Calls, Moves(d)
      PROVE  Holding(c) /\ ~Current(c) /\ Unchanged
  <2>1. d = c
    BY <1>1, MovesKeeps
  <2>2. CASE Preflight(c) \/ Record(c) \/ Upload(c)
    BY <2>2 DEF Preflight, Record, Upload, Step, Answer
  <2>3. CASE Permission(c)
    BY <2>3, PermissionIs DEF Step, Answer, Fail
  <2>4. CASE Commits(c)
    BY <2>4 DEF Commits, Answer
  <2>5. CASE Denied(c)
    BY <2>5 DEF Denied, Answer, Fail, Holding
  <2>6. CASE Compensate(c)
    BY <2>6 DEF Compensate, Answer
  <2> QED
    BY <1>1, <2>1, <2>2, <2>3, <2>4, <2>5, <2>6 DEF Moves
<1>2. ~Crash
  BY DEF Crash
<1> QED
  BY <1>1, <1>2, StepIs DEF Ask, AskAgain, vars, callVars

LEMMA StaleNext ==
  ASSUME Typed, Asked, Keyed, Stale, [Next]_vars
  PROVE  Stale'
<1> SUFFICES ASSUME NEW c \in Calls, reply'[c] = "version_conflict"
             PROVE  seen'[c] < version'
  BY DEF Stale
<1>1. /\ version \in Nat /\ version' \in Nat /\ version <= version' /\ seen[c] \in Nat
  BY VersionGrows DEF Typed, TypeOK
<1>2. CASE reply[c] = "version_conflict"
  <2>1. pc[c] # "new" /\ seen[c] < version
    BY <1>2 DEF Asked, Stale
  <2> QED
    BY <1>1, <2>1, CallsKept
<1>3. CASE reply[c] # "version_conflict"
  <2>1. Holding(c) /\ ~Current(c)
    BY <1>3, StaleIs
  <2>2. pc[c] # "new" /\ seen[c] <= version /\ seen[c] # version
    BY <2>1 DEF Holding, Current, Asked
  <2> QED
    BY <1>1, <2>2, CallsKept
<1> QED
  BY <1>2, <1>3

LEMMA ReplayedNext ==
  ASSUME Typed, Asked, Keyed, Stale, CommittedIsReplayed, [Next]_vars
  PROVE  CommittedIsReplayed'
<1> SUFFICES ASSUME NEW c \in Calls, NEW d \in made', key'[c] = key'[d],
                    reply'[c] = "version_conflict"
             PROVE  FALSE
  BY DEF CommittedIsReplayed
<1>1. CASE reply[c] = "version_conflict"
  <2>1. pc[c] # "new" /\ key'[c] = key[c] /\ seen[c] < version /\ seen[c] = seen[key[c]]
    BY <1>1, CallsKept DEF Asked, Stale
  <2>2. CASE d \in made
    <3>1. d \in Calls /\ pc[d] = "done"
      BY <2>2 DEF Keyed, Typed, TypeOK
    <3>2. key'[d] = key[d]
      BY <3>1, CallsKept
    <3> QED
      BY <1>1, <2>1, <2>2, <3>2 DEF CommittedIsReplayed
  <2>3. CASE d \notin made
    <3>1. Commits(d) /\ d \in Calls
      BY <2>3, CampaignIs, CommitsIs DEF Unchanged, historyVars
    <3>2. seen[d] = version /\ pc[d] = "lock" /\ key'[d] = key[d]
      BY <3>1, CommitsIs
    <3>3. seen[d] = seen[key[d]]
      BY <3>1, <3>2 DEF Asked
    <3>4. key[c] = key[d]
      BY <2>1, <3>2
    <3>5. seen[c] = version
      BY <2>1, <3>2, <3>3, <3>4
    <3> QED
      BY <2>1, <3>5 DEF Typed, TypeOK
  <2> QED
    BY <2>2, <2>3
<1>2. CASE reply[c] # "version_conflict"
  <2>1. Holding(c) /\ Unchanged
    BY <1>2, StaleIs
  <2>2. d \in made /\ d \in Calls /\ key[d] \in records /\ pc[d] = "done"
    BY <2>1 DEF Unchanged, historyVars, Keyed, Typed, TypeOK
  <2>3. key'[c] = key[c] /\ key'[d] = key[d]
    BY <2>1, <2>2, CallsKept DEF Holding
  <2> QED
    BY <2>1, <2>2, <2>3 DEF Keyed
<1> QED
  BY <1>1, <1>2

-----------------------------------------------------------------------------
(* Uploads.                                                                  *)

\* One call's artifact: where it is, and what its caller is told.
Accounted(c) ==
  /\ c \in linked => c \in ever /\ pc[c] = "done" /\ c \in stored
  /\ c \in stored => /\ cmd[c].op = "upload"
                     /\ pc[c] \in {"permission", "lock", "compensate", "done"}
  /\ pc[c] \in {"permission", "lock"} /\ cmd[c].op = "upload" => c \in stored
  /\ pc[c] = "upload" => cmd[c].op = "upload"
  /\ c \in stored \ ever /\ pc[c] = "done"
       => reply[c] \in {"artifact_compensation_failed", "unavailable"}

AllAccounted == \A c \in Calls : Accounted(c)

\* What a step does to the artifact of another call.
LEMMA ArtifactKept ==
  ASSUME Typed, Asked, Keyed, AllAccounted, NEW c \in Calls, Moves(c), NEW d \in Calls, d # c
  PROVE  Accounted(d)'
<1>1. pc'[d] = pc[d] /\ reply'[d] = reply[d] /\ cmd'[d] = cmd[d]
  BY MovesKeeps DEF Typed, TypeOK
<1>2. d \in stored' <=> d \in stored
  BY PermissionIs DEF Moves, Preflight, Record, Upload, Commits, Denied, Compensate
<1>3. (d \in linked' <=> d \in linked) /\ (d \in ever => d \in ever')
      /\ (d \in linked \/ (d \in ever' => d \in ever))
  <2>1. CASE Unchanged
    BY <2>1 DEF Unchanged, campaignVars, historyVars
  <2>2. CASE Commits(c)
    <3>1. d \in linked' <=> d \in linked
      BY <2>2, ChangeIs, LibraryAssumption
         DEF PeopleChanged, ChangePeople, ChangeMaterial, ChangeCampaign, Material
    <3>2. ever' = ever \cup linked'
      BY <2>2 DEF Commits, Change
    <3> QED
      BY <3>1, <3>2
  <2> QED
    BY <2>1, <2>2, MovesIs
<1> QED
  BY <1>1, <1>2, <1>3 DEF AllAccounted, Accounted

\* The artifact of a call is linked by the commit, deleted, or reported.
LEMMA ArtifactMoves ==
  ASSUME Typed, Asked, Keyed, AllAccounted, NEW c \in Calls, Moves(c)
  PROVE  Accounted(c)'
<1>0. /\ Accounted(c) /\ cmd' = cmd /\ pc[c] \notin {"new", "done"} /\ c \notin linked
      /\ cmd[c] \in Commands
  BY MovesIs, MovesKeeps DEF AllAccounted, Accounted, Asked
<1> USE DEF Typed, TypeOK
<1>1. CASE Preflight(c) \/ Record(c)
  BY <1>0, <1>1 DEF Preflight, Record, Step, Answer, campaignVars, historyVars, Accounted
<1>2. CASE Upload(c)
  <2>1. cmd[c].op = "upload"
    BY <1>0, <1>2 DEF Upload, Accounted
  <2> QED
    BY <1>0, <1>2, <2>1 DEF Upload, Step, Answer, campaignVars, historyVars, Accounted
<1>3. CASE Permission(c)
  <2>1. pc[c] = "permission" /\ UNCHANGED <<linked, stored, ever>>
    BY <1>3 DEF Permission, campaignVars, historyVars
  <2>2. \/ pc'[c] = "lock"
        \/ cmd[c].op = "upload" /\ pc'[c] = "compensate"
        \/ cmd[c].op # "upload" /\ pc'[c] = "done"
    BY <1>3, PermissionIs DEF Step, Answer, Fail
  <2> QED
    BY <1>0, <2>1, <2>2 DEF Accounted
<1>4. CASE Commits(c)
  <2>1. pc[c] = "lock" /\ pc'[c] = "done" /\ stored' = stored /\ ever' = ever \cup linked'
    BY <1>4, CommitsIs DEF Commits, Change
  <2>2. c \in linked' <=> cmd[c].op = "upload"
    <3>1. CASE PeopleChanged(cmd[c])
      BY <1>0, <3>1 DEF PeopleChanged, ChangePeople, People
    <3>2. CASE cmd[c].op \in Material /\ ChangeMaterial(c)
      BY <1>0, <3>2, LibraryAssumption DEF ChangeMaterial, Material
    <3>3. CASE cmd[c].op \in {"edit", "move"} /\ ChangeCampaign(cmd[c])
      BY <1>0, <3>3 DEF ChangeCampaign
    <3> QED
      BY <1>4, <3>1, <3>2, <3>3, ChangeIs
  <2> QED
    BY <1>0, <2>1, <2>2 DEF Accounted
<1>5. CASE Denied(c)
  <2>1. pc[c] = "lock" /\ UNCHANGED <<linked, stored, ever>>
    BY <1>5 DEF Denied, Unchanged, campaignVars, historyVars
  <2>2. \/ cmd[c].op = "upload" /\ pc'[c] = "compensate"
        \/ cmd[c].op # "upload" /\ pc'[c] = "done"
        \/ pc'[c] = "done" /\ reply'[c] = "unavailable"
    BY <1>5 DEF Denied, Answer, Fail
  <2> QED
    BY <1>0, <2>1, <2>2 DEF Accounted
<1>6. CASE Compensate(c)
  <2>1. pc'[c] = "done" /\ UNCHANGED <<linked, ever>> /\ stored' \subseteq stored
    BY <1>6 DEF Compensate, Answer, campaignVars, historyVars
  <2>2. c \notin stored' \/ reply'[c] = "artifact_compensation_failed"
    BY <1>6 DEF Compensate, Answer
  <2> QED
    BY <1>0, <2>1, <2>2 DEF Accounted
<1> QED
  BY <1>1, <1>2, <1>3, <1>4, <1>5, <1>6 DEF Moves

LEMMA AccountedNext ==
  ASSUME Typed, Asked, Keyed, AllAccounted, [Next]_vars
  PROVE  AllAccounted'
<1>1. ASSUME NEW c \in Calls, NEW m \in Commands, Ask(c, m) PROVE AllAccounted'
  BY <1>1 DEF Ask, campaignVars, historyVars, AllAccounted, Accounted, Typed, TypeOK
<1>2. ASSUME NEW c \in Calls, NEW d \in Calls, AskAgain(c, d) PROVE AllAccounted'
  BY <1>2 DEF AskAgain, campaignVars, historyVars, AllAccounted, Accounted, Typed, TypeOK
<1>3. ASSUME NEW c \in Calls, Moves(c) PROVE AllAccounted'
  BY <1>3, ArtifactKept, ArtifactMoves DEF AllAccounted
<1>4. CASE Crash
  BY <1>4 DEF Crash, campaignVars, historyVars, AllAccounted, Accounted, Typed, TypeOK
<1>5. CASE UNCHANGED vars
  BY <1>5 DEF vars, campaignVars, historyVars, callVars, AllAccounted, Accounted
<1> QED
  BY <1>1, <1>2, <1>3, <1>4, <1>5, StepIs

-----------------------------------------------------------------------------
(* Permissions.                                                              *)

LEMMA EntitledKept ==
  ASSUME NEW c, Entitled(c), cmd'[c] = cmd[c], UNCHANGED campaignVars
  PROVE  Entitled(c)'
BY DEF Entitled, campaignVars, CanManage, CanEdit, TouchesOwner, Manager, PrimaryOwner, Editor,
       Possible, MayMove

LEMMA GrantedNext ==
  ASSUME Typed, Asked, Keyed, Granted, [Next]_vars
  PROVE  Granted'
<1> SUFFICES ASSUME NEW c \in Calls, pc'[c] = "lock", Current(c)' PROVE Entitled(c)'
  BY DEF Granted
<1> USE DEF Typed, TypeOK
<1>1. CASE pc[c] = "lock"
  <2>1. cmd'[c] = cmd[c] /\ seen'[c] = seen[c] /\ seen[c] <= version
    BY <1>1, CallsKept DEF Asked
  <2>2. Unchanged
    <3>1. ASSUME NEW d \in Calls, Commits(d) PROVE FALSE
      <4>1. version' = version + 1 /\ version' = seen[c]
        BY <2>1, <3>1, CommitsIs DEF Current
      <4> QED
        BY <2>1, <4>1
    <3> QED
      BY <3>1, CampaignIs
  <2>3. Current(c)
    BY <2>1, <2>2 DEF Current, Unchanged, campaignVars
  <2> QED
    BY <1>1, <2>1, <2>2, <2>3, EntitledKept DEF Granted, Unchanged
<1>2. CASE pc[c] # "lock"
  <2>1. Permission(c)
    <3>1. ASSUME NEW d \in Calls, Moves(d) PROVE Permission(c)
      <4>1. d = c
        BY <1>2, <3>1, MovesKeeps
      <4> QED
        BY <1>2, <3>1, <4>1 DEF Moves, Preflight, Record, Upload, Commits, Denied, Compensate,
           Step, Answer
    <3>2. ~Crash
      BY <1>2 DEF Crash
    <3> QED
      BY <1>2, <3>1, <3>2, StepIs DEF Ask, AskAgain, vars, callVars
  <2>2. Entitled(c) /\ Unchanged /\ cmd' = cmd
    BY <2>1, PermissionIs DEF Step, Answer, Fail
  <2> QED
    BY <2>2, EntitledKept DEF Unchanged
<1> QED
  BY <1>1, <1>2

-----------------------------------------------------------------------------
(* The theorems.                                                             *)

CommandInv == Typed /\ Asked /\ Keyed

LEMMA CommandInit == Init => CommandInv
<1> SUFFICES ASSUME Init PROVE CommandInv
  OBVIOUS
<1> USE BoardsAssumption, LibraryAssumption
<1>1. Typed
  BY FS_EmptySet DEF Init, Typed, TypeOK, Artifacts, Replies
<1>2. Asked /\ Keyed
  BY DEF Init, Asked, Keyed, Holding
<1> QED
  BY <1>1, <1>2 DEF CommandInv

LEMMA CommandNext == CommandInv /\ [Next]_vars => CommandInv'
BY TypedNext, AskedNext, KeyedNext DEF CommandInv

LEMMA Invariant == Spec => []CommandInv
BY CommandInit, CommandNext, PTL DEF Spec

\* Every variable of a campaign keeps its type.
THEOREM TypesHold == Spec => []TypeOK
<1>1. CommandInv => TypeOK
  BY DEF CommandInv, Typed
<1> QED
  BY <1>1, Invariant, PTL

\* Whatever commands interleave, promote and hand the flag over in one patch or
\* ask to give it up, the campaign has one primary owner, an owner
\* (participants.ts:335, 338, 409).
THEOREM ThePrimaryOwner == Spec => []OnePrimaryOwner
<1>1. Init => Flagged
  BY BoardsAssumption DEF Init, Flagged
<1>2. CommandInv /\ Flagged /\ [Next]_vars => Flagged'
  BY FlaggedNext DEF CommandInv
<1>3. Flagged => OnePrimaryOwner
  BY FS_Singleton DEF Flagged, OnePrimaryOwner
<1> QED
  BY <1>1, <1>2, <1>3, Invariant, PTL DEF Spec

\* A request sent again after a committed attempt is not told that its own
\* change made its version stale (idempotency.ts:14).
THEOREM RepliesOfCommitted == Spec => []CommittedIsReplayed
<1>1. Init => Stale /\ CommittedIsReplayed
  BY DEF Init, Stale, CommittedIsReplayed
<1>2. CommandInv /\ Stale /\ CommittedIsReplayed /\ [Next]_vars => (Stale /\ CommittedIsReplayed)'
  BY StaleNext, ReplayedNext DEF CommandInv
<1> QED
  BY <1>1, <1>2, Invariant, PTL DEF Spec

\* An upload's link leads to bytes, and what is neither linked nor deleted was
\* reported (materials.ts:374-381).
THEOREM NoUploadLost == Spec => []UploadsAccounted
<1>1. Init => AllAccounted
  BY LibraryAssumption DEF Init, AllAccounted, Accounted
<1>2. CommandInv /\ AllAccounted /\ [Next]_vars => AllAccounted'
  BY AccountedNext DEF CommandInv
<1>3. AllAccounted => UploadsAccounted
  BY DEF AllAccounted, Accounted, UploadsAccounted
<1> QED
  BY <1>1, <1>2, <1>3, Invariant, PTL DEF Spec

\* A change is committed on rows that entitle its actor to it, although the
\* permission was read before the row was locked: a row changed since has
\* another version (participants.ts:145, campaigns.ts:293, materials.ts:186).
THEOREM CommitsAreEntitled == Spec => EntitledAtCommit
<1>1. Init => Granted
  BY DEF Init, Granted
<1>2. CommandInv /\ Granted /\ [Next]_vars => Granted'
  BY GrantedNext DEF CommandInv
<1>3. CommandInv /\ Granted /\ [Next]_vars =>
        [\A c \in Calls : c \in made' \ made => Entitled(c)]_vars
  <2> SUFFICES ASSUME CommandInv, Granted, [Next]_vars, NEW c \in Calls, c \in made' \ made
               PROVE  Entitled(c)
    OBVIOUS
  <2>1. PICK d \in Calls : Commits(d)
    BY CampaignIs DEF CommandInv, Unchanged, historyVars
  <2>2. d = c /\ pc[c] = "lock" /\ Current(c)
    BY <2>1, CommitsIs DEF CommandInv, Commits
  <2> QED
    BY <2>2 DEF Granted
<1> QED
  BY <1>1, <1>2, <1>3, Invariant, PTL DEF Spec, EntitledAtCommit
=============================================================================
