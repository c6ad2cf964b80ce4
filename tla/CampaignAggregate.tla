-------------------------- MODULE CampaignAggregate -------------------------
(***************************************************************************)
(* One campaign: its status, its participants and the artifacts linked to  *)
(* it, which share one version, and the commands that change them.         *)
(*                                                                         *)
(* A command reads who may do it before it has the campaign's row, and     *)
(* then compares the version the client sent with that of the row.  The    *)
(* upload of a material writes to another service, the Artifact Server, in *)
(* the middle of its transaction and deletes there what it cannot link.    *)
(*                                                                         *)
(* A call's transaction is cut where another transaction, the Artifact     *)
(* Server or a failure can make a difference: the first check, the         *)
(* idempotency record, the upload, the permission of the database, and the *)
(* row lock with all that follows it up to the commit.                     *)
(***************************************************************************)
EXTENDS Integers, FiniteSets

CONSTANTS
  Users,
  Managers,   \* the users whose tenant role is manager or admin
  Calls,      \* requests to the service
  Library,    \* an artifact its owner has from elsewhere
  Commands,   \* what they may ask for: records [op, by, target, to, flag]
  Boards      \* the campaigns the model may start from

Roles     == {"none", "viewer", "editor", "owner"}
Statuses  == {"draft", "planned", "active", "completed", "archived"}
Artifacts == Calls \cup {Library}     \* a call uploads one artifact at most

\* What a change of participants may name: a role, the primary flag, or both;
\* an update leaves alone the one it does not name.
NamedRoles == (Roles \ {"none"}) \cup {"same"}
NamedFlags == {"set", "clear", "same"}

People      == {"add", "update", "remove"}
Material    == {"upload", "link", "unlink"}
Replies     == {"none", "ok", "forbidden", "invalid", "version_conflict",
                "artifact_compensation_failed", "unavailable"}

ASSUME UsersAssumption    == Managers \subseteq Users
ASSUME LibraryAssumption  == Library \notin Calls
ASSUME CommandsAssumption ==
  \A m \in Commands : /\ m.op \in People \cup Material \cup {"edit", "move"}
                      /\ m.by \in Users
                      /\ m.op \in People => m.target \in Users
                      /\ m.op \in {"add", "update"} =>
                           /\ m.to \in NamedRoles /\ m.flag \in NamedFlags
                           /\ m.flag = "set" => m.to \in {"owner", "same"}
                           /\ ~(m.to = "same" /\ m.flag = "same")
                      /\ m.op = "add" => m.to # "same" /\ m.flag # "same"
                      /\ m.op = "move" => m.to \in Statuses
ASSUME BoardsAssumption ==
  \A b \in Boards : /\ b.status \in Statuses
                    /\ b.role \in [Users -> Roles]
                    /\ b.primary \in Users /\ b.role[b.primary] = "owner"

VARIABLES
  status, version,
  role, primary,   \* campaign_members: member_role, the users with is_primary
  linked,          \* campaign_materials: the artifacts with a link
  stored,          \* what the Artifact Server keeps
  records,         \* the keys with a committed idempotency record
  made, ever,      \* history: calls whose change is committed, artifacts once linked
  pc, cmd, seen, key, reply

campaignVars == <<status, version, role, primary, linked>>
historyVars  == <<made, ever>>
callVars     == <<pc, cmd, seen, key, reply>>
vars         == <<campaignVars, stored, records, historyVars, callVars>>

NoCommand == [op |-> "none"]

\* A draft of createCampaignDraft has its creator for an owner, whom the
\* trigger of the first owner makes the primary one.
Init ==
  /\ \E b \in Boards : status = b.status /\ role = b.role /\ primary = {b.primary}
  /\ version = 1
  /\ linked  = {}
  /\ stored  = {Library}
  /\ records = {}
  /\ made = {} /\ ever = {}
  /\ pc    = [c \in Calls |-> "new"]
  /\ cmd   = [c \in Calls |-> NoCommand]
  /\ seen  = [c \in Calls |-> 0]
  /\ key   = [c \in Calls |-> c]
  /\ reply = [c \in Calls |-> "none"]

-----------------------------------------------------------------------------
(* Requests and answers *)

\* If-Match carries the version the client last read.
Ask(c, m) ==
  /\ pc[c] = "new"
  /\ pc'   = [pc EXCEPT ![c] = "preflight"]
  /\ cmd'  = [cmd EXCEPT ![c] = m]
  /\ seen' = [seen EXCEPT ![c] = version]
  /\ UNCHANGED <<campaignVars, stored, records, historyVars, key, reply>>

\* A request with no usable answer is sent again with its Idempotency-Key.
AskAgain(c, d) ==
  /\ pc[c] = "new"
  /\ reply[d] = "unavailable"
  /\ pc'   = [pc EXCEPT ![c] = "preflight"]
  /\ cmd'  = [cmd EXCEPT ![c] = cmd[d]]
  /\ seen' = [seen EXCEPT ![c] = seen[d]]
  /\ key'  = [key EXCEPT ![c] = key[d]]
  /\ UNCHANGED <<campaignVars, stored, records, historyVars, reply>>

Step(c, step) == pc' = [pc EXCEPT ![c] = step] /\ UNCHANGED <<cmd, seen, key, reply>>

Answer(c, answer) ==
  /\ pc'    = [pc EXCEPT ![c] = "done"]
  /\ reply' = [reply EXCEPT ![c] = answer]
  /\ UNCHANGED <<cmd, seen, key>>

\* The transaction fails in the command.  An upload first deletes its artifact,
\* and until that is answered the transaction is open.
Fail(c, answer) ==
  IF cmd[c].op = "upload"
    THEN /\ pc'    = [pc EXCEPT ![c] = "compensate"]
         /\ reply' = [reply EXCEPT ![c] = answer]
         /\ UNCHANGED <<cmd, seen, key>>
    ELSE Answer(c, answer)

-----------------------------------------------------------------------------
(* Who may do what *)

Manager(c)      == cmd[c].by \in Managers
PrimaryOwner(c) == cmd[c].by \in primary
CanAccess(c)    == Manager(c) \/ role[cmd[c].by] # "none"
Editor(c)       == Manager(c) \/ role[cmd[c].by] \in {"owner", "editor"}

CanEdit(c)   == status # "archived" /\ Editor(c)
CanManage(c) == status # "archived" /\ (Manager(c) \/ PrimaryOwner(c))

Forward == {<<"draft", "planned">>, <<"planned", "active">>, <<"active", "completed">>}
Reopen  == {<<"planned", "draft">>, <<"active", "planned">>, <<"completed", "active">>}

Possible(to)   == \/ to = "archived" /\ status # "archived"
                  \/ <<status, to>> \in Forward \cup Reopen
MayMove(c, to) == \/ Manager(c)
                  \/ <<status, to>> \in Forward /\ PrimaryOwner(c)

\* A change of participants that takes a manager: it makes or touches an owner.
TouchesOwner(m) == \/ m.op # "add" /\ role[m.target] = "owner"
                   \/ m.op # "remove" /\ (m.to = "owner" \/ m.flag = "set")

-----------------------------------------------------------------------------
(* The steps of a call before the lock *)

\* The checks on the rows as they are when the call begins.
Preflight(c) ==
  /\ pc[c] = "preflight"
  /\ LET m  == cmd[c]
         ok == /\ CanAccess(c)
               /\ m.op = "edit" => Editor(c)
               /\ m.op = "move" => Manager(c) \/ (PrimaryOwner(c) /\ m.to # "archived")
               /\ m.op \in Material => CanEdit(c)
               /\ m.op \in People => Manager(c) \/ (PrimaryOwner(c) /\ ~TouchesOwner(m))
     IN  IF ok THEN Step(c, "record") ELSE Answer(c, "forbidden")
  /\ UNCHANGED <<campaignVars, stored, records, historyVars>>

\* Calls that have inserted their record and not ended their transaction.
Holding(d) == pc[d] \in {"upload", "permission", "lock", "compensate"}

\* Mutant: the record of an earlier attempt is not looked for.
RecordAnew(c) ==
  /\ pc[c] = "record"
  /\ \A d \in Calls : Holding(d) => key[d] # key[c]
  /\ Step(c, IF cmd[c].op = "upload" THEN "upload" ELSE "permission")
  /\ UNCHANGED <<campaignVars, stored, records, historyVars>>

\* INSERT ... ON CONFLICT DO NOTHING waits for a transaction with the same key.
Record(c) ==
  /\ pc[c] = "record"
  /\ \A d \in Calls : Holding(d) => key[d] # key[c]
  /\ IF key[c] \in records THEN Answer(c, "ok")
     ELSE Step(c, IF cmd[c].op = "upload" THEN "upload" ELSE "permission")
  /\ UNCHANGED <<campaignVars, stored, records, historyVars>>

\* The artifact is stored, or not, and its identifier arrives, or not.
Upload(c) ==
  /\ pc[c] = "upload"
  /\ \/ Step(c, "permission") /\ stored' = stored \cup {c}
     \/ Answer(c, "unavailable") /\ stored' \in {stored, stored \cup {c}}
  /\ UNCHANGED <<campaignVars, records, historyVars>>

\* What the database grants, on the rows as they are now: the lock comes after.
Permission(c) ==
  /\ pc[c] = "permission"
  /\ LET m == cmd[c]
     IN  IF m.op \in {"update", "remove"} /\ role[m.target] = "none" THEN Fail(c, "invalid")
         ELSE IF m.op = "move" /\ ~Possible(m.to) THEN Fail(c, "invalid")
         ELSE IF m.op = "move" /\ ~MayMove(c, m.to) THEN Fail(c, "forbidden")
         ELSE IF m.op \in People /\ TouchesOwner(m) /\ ~(Manager(c) /\ CanEdit(c)) THEN Fail(c, "forbidden")
         ELSE IF m.op \in People /\ ~CanManage(c) THEN Fail(c, "forbidden")
         ELSE IF ~CanEdit(c) THEN Fail(c, "forbidden")
         ELSE Step(c, "lock")
  /\ UNCHANGED <<campaignVars, stored, records, historyVars>>

-----------------------------------------------------------------------------
(* The row lock, the change, the commit *)

\* An upload whose version was refused keeps the row until it has compensated.
Locked == \E d \in Calls : pc[d] = "compensate" /\ reply[d] = "version_conflict"

\* Mutant: the version of the row is not compared.
CurrentAny(c) == TRUE

Current(c) == seen[c] = version

\* What the target has after an update: what the patch leaves out stays.
NextRole(m)    == IF m.to = "same" THEN role[m.target] ELSE m.to
NextPrimary(m) == IF m.flag = "same" THEN m.target \in primary ELSE m.flag = "set"

\* Mutant: only a change of role is refused to the primary owner, not the flag
\* it gives up.
UpdateRefusedForRole(m) ==
  \/ NextPrimary(m) /\ NextRole(m) # "owner"
  \/ m.target \in primary /\ NextRole(m) # "owner"

\* The primary participant is an owner, and gives neither up but to another.
UpdateRefused(m) ==
  \/ NextPrimary(m) /\ NextRole(m) # "owner"
  \/ m.target \in primary /\ (~NextPrimary(m) \/ NextRole(m) # "owner")

\* What the locked rows do not allow.
Refused(m) ==
  \/ m.op = "add" /\ role[m.target] # "none"
  \/ m.op \in {"update", "remove"} /\ role[m.target] = "none"
  \/ m.op = "update" /\ UpdateRefused(m)
  \/ m.op = "remove" /\ m.target \in primary
  \/ m.op = "link" /\ Library \in linked
  \/ m.op = "unlink" /\ Library \notin linked
  \/ m.op = "move" /\ ~Possible(m.to)

\* The flag passes from the one who had it, in the same transaction.
ChangePeople(m) ==
  /\ role' = [role EXCEPT ![m.target] = IF m.op = "remove" THEN "none" ELSE NextRole(m)]
  /\ primary' = CASE m.op = "remove" \/ ~NextPrimary(m) -> primary \ {m.target}
                   [] m.target \in primary              -> primary
                   [] OTHER                             -> {m.target}
  /\ UNCHANGED <<status, linked>>

ChangeMaterial(c) ==
  /\ linked' = CASE cmd[c].op = "upload" -> linked \cup {c}
                 [] cmd[c].op = "link"   -> linked \cup {Library}
                 [] cmd[c].op = "unlink" -> linked \ {Library}
  /\ UNCHANGED <<status, role, primary>>

ChangeCampaign(m) ==
  /\ status' = IF m.op = "move" THEN m.to ELSE status
  /\ UNCHANGED <<role, primary, linked>>

\* The change of the command, the version, and the record with the response.
Change(c) ==
  /\ CASE cmd[c].op \in People   -> ChangePeople(cmd[c])
       [] cmd[c].op \in Material -> ChangeMaterial(c)
       [] OTHER                  -> ChangeCampaign(cmd[c])
  /\ version' = version + 1
  /\ records' = records \cup {key[c]}
  /\ made' = made \cup {c}
  /\ ever' = ever \cup linked'

Unchanged == UNCHANGED <<campaignVars, records, historyVars>>

\* Mutant: the artifact is deleted too when the commit is not answered.
LockDeleting(c) ==
  /\ pc[c] = "lock" /\ ~Locked
  /\ LET m == cmd[c]
     IN  IF ~Current(c) THEN Fail(c, "version_conflict") /\ Unchanged
         ELSE IF Refused(m) THEN Fail(c, "invalid") /\ Unchanged
         ELSE IF m.op \in People /\ TouchesOwner(m) /\ ~Manager(c) THEN Fail(c, "forbidden") /\ Unchanged
         ELSE \/ m.op \in {"edit", "move"} /\ Fail(c, "invalid") /\ Unchanged
              \/ Fail(c, "unavailable") /\ Unchanged
              \/ Fail(c, "unavailable") /\ (Change(c) \/ Unchanged)
              \/ Answer(c, "ok") /\ Change(c)
  /\ UNCHANGED stored

\* The row is granted.  A connection that breaks in the command is an error of
\* the command; one that breaks at the commit is not, whether the database has
\* committed or not.  Fields a status needs (objective, dates, reference) may
\* be missing.
Lock(c) ==
  /\ pc[c] = "lock" /\ ~Locked
  /\ LET m == cmd[c]
     IN  IF ~Current(c) THEN Fail(c, "version_conflict") /\ Unchanged
         ELSE IF Refused(m) THEN Fail(c, "invalid") /\ Unchanged
         ELSE IF m.op \in People /\ TouchesOwner(m) /\ ~Manager(c) THEN Fail(c, "forbidden") /\ Unchanged
         ELSE \/ m.op \in {"edit", "move"} /\ Fail(c, "invalid") /\ Unchanged
              \/ Fail(c, "unavailable") /\ Unchanged
              \/ Answer(c, "unavailable") /\ (Change(c) \/ Unchanged)
              \/ Answer(c, "ok") /\ Change(c)
  /\ UNCHANGED stored

\* DELETE at the Artifact Server, whose failure replaces the first error.
Compensate(c) ==
  /\ pc[c] = "compensate"
  /\ \/ Answer(c, reply[c]) /\ stored' = stored \ {c}
     \/ Answer(c, "artifact_compensation_failed") /\ stored' \in {stored, stored \ {c}}
  /\ UNCHANGED <<campaignVars, records, historyVars>>

\* The service stops: the database rolls its open transactions back.
Crash ==
  LET Open == {c \in Calls : pc[c] \notin {"new", "done"}}
  IN  /\ Open # {}
      /\ pc'    = [c \in Calls |-> IF c \in Open THEN "done" ELSE pc[c]]
      /\ reply' = [c \in Calls |-> IF c \in Open THEN "unavailable" ELSE reply[c]]
      /\ UNCHANGED <<campaignVars, stored, records, historyVars, cmd, seen, key>>

-----------------------------------------------------------------------------
CallStep(c) == \/ Preflight(c) \/ Record(c) \/ Upload(c) \/ Permission(c)
               \/ Lock(c) \/ Compensate(c)

\* The requests the model allows are all answered: any other state in which no
\* step is possible is a deadlock.
AllAnswered == (\A c \in Calls : pc[c] = "done") /\ UNCHANGED vars

Next == \/ \E c \in Calls, m \in Commands : Ask(c, m)
        \/ \E c \in Calls, d \in Calls : AskAgain(c, d)
        \/ \E c \in Calls : CallStep(c)
        \/ Crash
        \/ AllAnswered

Spec == Init /\ [][Next]_vars

-----------------------------------------------------------------------------
(* Properties *)

TypeOK ==
  /\ status \in Statuses
  /\ version \in Nat \ {0}
  /\ role \in [Users -> Roles]
  /\ primary \subseteq Users
  /\ linked \subseteq Artifacts
  /\ stored \subseteq Artifacts
  /\ records \subseteq Calls
  /\ made \subseteq Calls
  /\ ever \subseteq Artifacts
  /\ pc \in [Calls -> {"new", "preflight", "record", "upload", "permission", "lock",
                       "compensate", "done"}]
  /\ cmd \in [Calls -> Commands \cup {NoCommand}]
  /\ seen \in [Calls -> Nat]
  /\ key \in [Calls -> Calls]
  /\ reply \in [Calls -> Replies]
  /\ version = 1 + Cardinality(made)

\* Whatever the order in which participants are added, changed and removed, the
\* campaign has one primary owner, and that user is an owner (participants.ts:318,
\* 381; 0008:209 only says there are not two).
OnePrimaryOwner == Cardinality(primary) = 1 /\ \A u \in primary : role[u] = "owner"

\* A request that is repeated after a committed attempt gets that attempt's
\* answer: it is not told that its own change made its version stale
\* (idempotency.ts:14, and the version check at materials.ts:206).
CommittedIsReplayed ==
  \A c \in Calls, d \in made : key[c] = key[d] => reply[c] # "version_conflict"

\* No upload is lost or left over.  A link it made leads to bytes: what the
\* service deletes after an error is never an artifact it has linked, not even
\* when the commit is not answered.  One that was refused leaves no artifact
\* behind, unless its caller is told that something failed (materials.ts:374-381).
UploadsAccounted ==
  \A c \in Calls :
    /\ c \in linked => c \in stored
    /\ c \in stored \ ever /\ pc[c] = "done"
         => reply[c] \in {"artifact_compensation_failed", "unavailable"}

\* May the actor of c make its change to the rows as they are?
Entitled(c) ==
  LET m == cmd[c]
  IN  CASE m.op \in People -> CanManage(c) /\ (TouchesOwner(m) => Manager(c))
        [] m.op = "move"   -> Possible(m.to) /\ MayMove(c, m.to)
        [] OTHER           -> CanEdit(c)

\* A change is committed on rows that entitle its actor to it, although the
\* permission is read before the row is locked and a role may be withdrawn in
\* between (participants.ts:145, campaigns.ts:293, materials.ts:186).
EntitledAtCommit == [][\A c \in Calls : c \in made' \ made => Entitled(c)]_vars

=============================================================================
