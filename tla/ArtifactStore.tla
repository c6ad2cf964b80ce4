--------------------------- MODULE ArtifactStore ---------------------------
(***************************************************************************)
(* The artifact server: bytes are stored once per content hash under       *)
(* objects/, each artifact has a JSON file under metadata/, and an object  *)
(* is removed with the last metadata file that names it.  Nothing but the  *)
(* file system holds the state, and every handler is a chain of awaited    *)
(* file operations: a step is one of them, and the handlers interleave     *)
(* between them.  withWorkspaceLock queues the promotions and cleanups of  *)
(* one workspace; uploads and deletes of one artifact take no lock.        *)
(*                                                                         *)
(* An upload bears the name of the artifact it creates.  Requests that are *)
(* refused before they touch a file (authorization, owner, headers) are    *)
(* left out; reads have no effect and are left out.                        *)
(***************************************************************************)
EXTENDS Naturals, Sequences

CONSTANTS
  Artifacts, Contents, Workspaces,
  Existing,     \* artifacts stored before the requests begin
  Uploads,      \* artifacts uploaded by POST /v1/artifacts
  Promotes,     \* calls of POST .../promote
  Cleanups,     \* calls of DELETE /v1/workspaces/...
  Deletes,      \* calls of DELETE /v1/artifacts/...
  Target,       \* the artifact a promotion or a delete names
  Space,        \* the workspace a cleanup names
  ContentOf,    \* sha256 of an artifact
  SpaceOf,      \* workspace of an artifact, or None
  Born,         \* lifecycle an artifact is uploaded with
  Final,        \* artifacts of category "final"
  MaxFaults,    \* bound: file operations that fail, and restarts
  None

Ops == Uploads \cup Promotes \cup Cleanups \cup Deletes

ASSUME OpsAssumption ==
  /\ Existing \subseteq Artifacts /\ Uploads \subseteq Artifacts \ Existing
  /\ Promotes \cap Cleanups = {} /\ Promotes \cap Deletes = {} /\ Cleanups \cap Deletes = {}
  /\ Uploads \cap (Promotes \cup Cleanups \cup Deletes) = {}
  /\ Target \in [Promotes \cup Deletes -> Artifacts]
  /\ Space \in [Cleanups -> Workspaces]
ASSUME ArtifactsAssumption ==
  /\ None \notin Workspaces \cup Contents
  /\ ContentOf \in [Artifacts -> Contents]
  /\ SpaceOf \in [Artifacts -> Workspaces \cup {None}]
  /\ Born \in [Artifacts -> {"plain", "workspace", "validated"}]
  /\ Final \subseteq Artifacts
  /\ \A a \in Artifacts : (Born[a] = "plain") = (SpaceOf[a] = None)
  /\ \A a \in Artifacts : Born[a] = "validated" => a \in Final
  /\ \A o \in Promotes : SpaceOf[Target[o]] # None
ASSUME BoundAssumption == MaxFaults \in Nat

VARIABLES
  objects,   \* contents whose bytes are on disk
  meta,      \* the lifecycle in the metadata file of each artifact, or "absent"
  queue,     \* the requests that hold (first) or await the lock of each workspace
  pc,        \* the next file operation of each request
  names,     \* directory entries a request has still to read
  entries,   \* metadata files a cleanup or delete is to remove
  hashes,    \* contents whose references a request has still to count
  hash,      \* the content whose references it is counting
  unread,    \* artifacts whose metadata file could not be read while it was counted
  faults

vars == <<objects, meta, queue, pc, names, entries, hashes, hash, unread, faults>>

FirstStep(o) ==
  IF o \in Uploads THEN "stat" ELSE IF o \in Deletes THEN "loadOne" ELSE "enter"

Init ==
  /\ objects = {ContentOf[a] : a \in Existing}
  /\ meta    = [a \in Artifacts |-> IF a \in Existing THEN Born[a] ELSE "absent"]
  /\ queue   = [w \in Workspaces |-> <<>>]
  /\ pc      = [o \in Ops |-> FirstStep(o)]
  /\ names   = [o \in Ops |-> {}]
  /\ entries = [o \in Ops |-> {}]
  /\ hashes  = [o \in Ops |-> {}]
  /\ hash    = [o \in Ops |-> None]
  /\ unread  = {}
  /\ faults  = 0

Stored(a) == meta[a] # "absent"
Goto(o, step) == pc' = [pc EXCEPT ![o] = step]

-----------------------------------------------------------------------------
(* withWorkspaceLock *)

LockOf(o) == IF o \in Promotes THEN SpaceOf[Target[o]] ELSE Space[o]

Enter(o) ==
  /\ pc[o] = "enter"
  /\ queue' = [queue EXCEPT ![LockOf(o)] = Append(@, o)]
  /\ Goto(o, IF o \in Promotes THEN "load" ELSE "readdir")
  /\ UNCHANGED <<objects, meta, names, entries, hashes, hash, unread, faults>>

\* Mutant: the requests of a workspace do not wait for each other.
HoldsAtOnce(o) == \E i \in DOMAIN queue[LockOf(o)] : queue[LockOf(o)][i] = o

Holds(o) == queue[LockOf(o)] # <<>> /\ Head(queue[LockOf(o)]) = o

\* Mutant: the lock is not left.
WithoutForgotten(o) == queue

\* The queues without request o: whoever holds a lock returned or threw, and
\* released it to the next in the queue.
Without(o) == [w \in Workspaces |->
  IF queue[w] # <<>> /\ Head(queue[w]) = o THEN Tail(queue[w]) ELSE queue[w]]

Return(o) ==
  /\ Goto(o, "done")
  /\ queue' = Without(o)

-----------------------------------------------------------------------------
(* handleUpload: ensureObjectFromTemp, then saveArtifactMetadata *)

UploadStat(u) ==
  /\ pc[u] = "stat"
  /\ Goto(u, IF ContentOf[u] \in objects THEN "saveMeta" ELSE "rmObject")
  /\ UNCHANGED <<objects, meta, queue, names, entries, hashes, hash, unread, faults>>

\* A stat that fails is taken for a missing object.
UploadStatFails(u) ==
  /\ pc[u] = "stat"
  /\ faults < MaxFaults
  /\ faults' = faults + 1
  /\ Goto(u, "rmObject")
  /\ UNCHANGED <<objects, meta, queue, names, entries, hashes, hash, unread>>

\* The bytes were not there: whatever is there now is removed first.
UploadRmObject(u) ==
  /\ pc[u] = "rmObject"
  /\ objects' = objects \ {ContentOf[u]}
  /\ Goto(u, "renameObject")
  /\ UNCHANGED <<meta, queue, names, entries, hashes, hash, unread, faults>>

UploadRenameObject(u) ==
  /\ pc[u] = "renameObject"
  /\ objects' = objects \cup {ContentOf[u]}
  /\ Goto(u, "saveMeta")
  /\ UNCHANGED <<meta, queue, names, entries, hashes, hash, unread, faults>>

UploadSaveMeta(u) ==
  /\ pc[u] = "saveMeta"
  /\ meta' = [meta EXCEPT ![u] = Born[u]]
  /\ Goto(u, "done")
  /\ UNCHANGED <<objects, queue, names, entries, hashes, hash, unread, faults>>

-----------------------------------------------------------------------------
(* promoteWorkspaceArtifact, under the lock of its workspace *)

\* Refused (404, 409), or validated before.
PromoteReturn(o) ==
  /\ pc[o] = "load"
  /\ Holds(o)
  /\ Target[o] \notin Final \/ meta[Target[o]] # "workspace"
  /\ Return(o)
  /\ UNCHANGED <<objects, meta, names, entries, hashes, hash, unread, faults>>

PromoteLoad(o) ==
  /\ pc[o] = "load"
  /\ Holds(o)
  /\ Target[o] \in Final /\ meta[Target[o]] = "workspace"
  /\ Goto(o, "rmMeta")
  /\ UNCHANGED <<objects, meta, queue, names, entries, hashes, hash, unread, faults>>

\* saveArtifactMetadata removes the file before it renames the new one there.
PromoteRmMeta(o) ==
  /\ pc[o] = "rmMeta"
  /\ meta' = [meta EXCEPT ![Target[o]] = "absent"]
  /\ Goto(o, "renameMeta")
  /\ UNCHANGED <<objects, queue, names, entries, hashes, hash, unread, faults>>

PromoteRenameMeta(o) ==
  /\ pc[o] = "renameMeta"
  /\ meta' = [meta EXCEPT ![Target[o]] = "validated"]
  /\ Return(o)
  /\ UNCHANGED <<objects, names, entries, hashes, hash, unread, faults>>

-----------------------------------------------------------------------------
(* deleteWorkspaceArtifacts, under the lock; deleteArtifactMetadataAndBytes *)

CleanupReaddir(o) ==
  /\ pc[o] = "readdir"
  /\ Holds(o)
  /\ names' = [names EXCEPT ![o] = {a \in Artifacts : Stored(a) /\ SpaceOf[a] = Space[o]}]
  /\ Goto(o, "readFiles")
  /\ UNCHANGED <<objects, meta, queue, entries, hashes, hash, unread, faults>>

\* A cleanup removes the artifacts that were not promoted.
ToRemove(a) == meta[a] = "workspace"

CleanupReadFile(o) ==
  /\ pc[o] = "readFiles"
  /\ \E a \in names[o] :
       /\ names'   = [names EXCEPT ![o] = @ \ {a}]
       /\ entries' = [entries EXCEPT ![o] = IF ToRemove(a) THEN @ \cup {a} ELSE @]
  /\ UNCHANGED <<objects, meta, queue, pc, hashes, hash, unread, faults>>

\* A file that cannot be read is left out of the listing (readAllMetadata).
CleanupUnreadable(o) ==
  /\ pc[o] = "readFiles"
  /\ faults < MaxFaults
  /\ faults' = faults + 1
  /\ \E a \in names[o] : Stored(a) /\ names' = [names EXCEPT ![o] = @ \ {a}]
  /\ UNCHANGED <<objects, meta, queue, pc, entries, hashes, hash, unread>>

CleanupListed(o) ==
  /\ pc[o] = "readFiles"
  /\ names[o] = {}
  /\ hashes' = [hashes EXCEPT ![o] = {ContentOf[a] : a \in entries[o]}]
  /\ Goto(o, "rmEntries")
  /\ UNCHANGED <<objects, meta, queue, names, entries, hash, unread, faults>>

DeleteMissing(o) ==
  /\ pc[o] = "loadOne"
  /\ ~Stored(Target[o])
  /\ Goto(o, "done")
  /\ UNCHANGED <<objects, meta, queue, names, entries, hashes, hash, unread, faults>>

DeleteLoad(o) ==
  /\ pc[o] = "loadOne"
  /\ Stored(Target[o])
  /\ entries' = [entries EXCEPT ![o] = {Target[o]}]
  /\ hashes'  = [hashes EXCEPT ![o] = {ContentOf[Target[o]]}]
  /\ Goto(o, "rmEntries")
  /\ UNCHANGED <<objects, meta, queue, names, hash, unread, faults>>

RmEntry(o) ==
  /\ pc[o] = "rmEntries"
  /\ \E a \in entries[o] :
       /\ meta'    = [meta EXCEPT ![a] = "absent"]
       /\ entries' = [entries EXCEPT ![o] = @ \ {a}]
  /\ UNCHANGED <<objects, queue, pc, names, hashes, hash, unread, faults>>

RmEntriesEnd(o) ==
  /\ pc[o] = "rmEntries"
  /\ entries[o] = {}
  /\ Goto(o, "scan")
  /\ UNCHANGED <<objects, meta, queue, names, entries, hashes, hash, unread, faults>>

-----------------------------------------------------------------------------
(* removeObjectWhenUnreferenced: readAllMetadata, then rm *)

\* Mutant: only the artifacts that were not promoted count.
ReferencesTemporary(c) == {a \in Artifacts : meta[a] = "workspace" /\ ContentOf[a] = c}

References(c) == {a \in Artifacts : Stored(a) /\ ContentOf[a] = c}

ScanReaddir(o) ==
  /\ pc[o] = "scan"
  /\ \E c \in hashes[o] :
       /\ hash'   = [hash EXCEPT ![o] = c]
       /\ hashes' = [hashes EXCEPT ![o] = @ \ {c}]
       /\ names'  = [names EXCEPT ![o] = References(c)]
  /\ Goto(o, "scanFiles")
  /\ UNCHANGED <<objects, meta, queue, entries, unread, faults>>

\* One metadata file is read: it names the content, or it is gone by now.
ScanFile(o) ==
  /\ pc[o] = "scanFiles"
  /\ \E a \in names[o] :
       IF Stored(a) THEN /\ names' = [names EXCEPT ![o] = {}]
                         /\ Goto(o, "scan")
                    ELSE /\ names' = [names EXCEPT ![o] = @ \ {a}]
                         /\ UNCHANGED pc
  /\ UNCHANGED <<objects, meta, queue, entries, hashes, hash, unread, faults>>

\* A file that cannot be read names nothing: readAllMetadata goes on without it.
ScanUnreadable(o) ==
  /\ pc[o] = "scanFiles"
  /\ faults < MaxFaults
  /\ faults' = faults + 1
  /\ \E a \in names[o] :
       /\ Stored(a)
       /\ names'  = [names EXCEPT ![o] = @ \ {a}]
       /\ unread' = unread \cup {a}
  /\ UNCHANGED <<objects, meta, queue, pc, entries, hashes, hash>>

ScanUnreferenced(o) ==
  /\ pc[o] = "scanFiles"
  /\ names[o] = {}
  /\ Goto(o, "rmBytes")
  /\ UNCHANGED <<objects, meta, queue, names, entries, hashes, hash, unread, faults>>

\* Mutant: the bytes are left where they are.
RmBytesForgotten(o) ==
  /\ pc[o] = "rmBytes"
  /\ Goto(o, "scan")
  /\ UNCHANGED <<objects, meta, queue, names, entries, hashes, hash, unread, faults>>

RmBytes(o) ==
  /\ pc[o] = "rmBytes"
  /\ objects' = objects \ {hash[o]}
  /\ Goto(o, "scan")
  /\ UNCHANGED <<meta, queue, names, entries, hashes, hash, unread, faults>>

ScanEnd(o) ==
  /\ pc[o] = "scan"
  /\ hashes[o] = {}
  /\ Return(o)
  /\ UNCHANGED <<objects, meta, names, entries, hashes, hash, unread, faults>>

-----------------------------------------------------------------------------
(* The file system fails a request, or the process restarts *)

\* An operation throws: the finally of withWorkspaceLock leaves the lock.  The
\* reads of readAllMetadata do not throw.
Fail(o) ==
  /\ faults < MaxFaults
  /\ faults' = faults + 1
  /\ pc[o] \notin {"enter", "readFiles", "scanFiles", "done"}
  /\ o \in Promotes \cup Cleanups => Holds(o)
  /\ Return(o)
  /\ UNCHANGED <<objects, meta, names, entries, hashes, hash, unread>>

\* The locks are in memory; requests that had begun are gone.
Crash ==
  /\ faults < MaxFaults
  /\ faults' = faults + 1
  /\ pc' = [o \in Ops |-> IF pc[o] = FirstStep(o) THEN pc[o] ELSE "done"]
  /\ queue' = [w \in Workspaces |-> <<>>]
  /\ UNCHANGED <<objects, meta, names, entries, hashes, hash, unread>>

UploadStep(u) ==
  \/ UploadStat(u) \/ UploadStatFails(u)
  \/ UploadRmObject(u) \/ UploadRenameObject(u) \/ UploadSaveMeta(u)

PromoteStep(o) ==
  Enter(o) \/ PromoteReturn(o) \/ PromoteLoad(o) \/ PromoteRmMeta(o) \/ PromoteRenameMeta(o)

RemoveStep(o) ==
  \/ RmEntry(o) \/ RmEntriesEnd(o)
  \/ ScanReaddir(o) \/ ScanFile(o) \/ ScanUnreadable(o) \/ ScanUnreferenced(o)
  \/ RmBytes(o) \/ ScanEnd(o)

CleanupStep(o) ==
  \/ Enter(o) \/ CleanupReaddir(o) \/ CleanupReadFile(o) \/ CleanupUnreadable(o)
  \/ CleanupListed(o) \/ RemoveStep(o)

DeleteStep(o) == DeleteMissing(o) \/ DeleteLoad(o) \/ RemoveStep(o)

Next ==
  \/ \E u \in Uploads : UploadStep(u)
  \/ \E o \in Promotes : PromoteStep(o)
  \/ \E o \in Cleanups : CleanupStep(o)
  \/ \E o \in Deletes : DeleteStep(o)
  \/ \E o \in Ops : Fail(o)
  \/ Crash

Spec == Init /\ [][Next]_vars

\* A request that has begun goes on: its awaits are file operations that end.
Fairness ==
  /\ \A u \in Uploads : WF_vars(pc[u] # "stat" /\ UploadStep(u))
  /\ \A o \in Promotes : WF_vars(pc[o] # "enter" /\ PromoteStep(o))
  /\ \A o \in Cleanups : WF_vars(pc[o] # "enter" /\ CleanupStep(o))
  /\ \A o \in Deletes : WF_vars(pc[o] # "loadOne" /\ DeleteStep(o))

FairSpec == Spec /\ Fairness

-----------------------------------------------------------------------------
(* Properties *)

\* Every variable has its type.
TypeOK ==
  /\ objects \subseteq Contents
  /\ meta    \in [Artifacts -> {"absent", "plain", "workspace", "validated"}]
  /\ queue   \in [Workspaces -> Seq(Promotes \cup Cleanups)]
  /\ pc      \in [Ops -> {"enter", "load", "rmMeta", "renameMeta", "stat", "rmObject",
                          "renameObject", "saveMeta", "readdir", "readFiles", "loadOne",
                          "rmEntries", "scan", "scanFiles", "rmBytes", "done"}]
  /\ names   \in [Ops -> SUBSET Artifacts]
  /\ entries \in [Ops -> SUBSET Artifacts]
  /\ hashes  \in [Ops -> SUBSET Contents]
  /\ hash    \in [Ops -> Contents \cup {None}]
  /\ unread  \subseteq Artifacts
  /\ faults  \in 0..MaxFaults

\* However promotions and cleanups of a workspace interleave, fail or are cut
\* short by a restart, an artifact with a metadata file has its bytes, shared
\* bytes included, unless that very file could not be read while references were
\* counted: the count goes on without it (workspaces.js, readAllMetadata and
\* removeObjectWhenUnreferenced).
BytesBacked == \A a \in Artifacts : Stored(a) => ContentOf[a] \in objects \/ a \in unread

\* A cleanup that listed an artifact before it was promoted does not remove it
\* afterwards: only a delete of that artifact does (withWorkspaceLock).
PromotedKept ==
  [][\A a \in Artifacts :
       meta[a] = "validated" /\ meta'[a] # "validated" =>
         \E o \in Deletes : Target[o] = a /\ pc[o] = "rmEntries"]_vars

\* Of several requests that remove the last references of a content at once,
\* one removes the bytes: once no request is under way and nothing failed, every
\* object on disk has an artifact.
NoOrphanBytes ==
  faults = 0 /\ (\A o \in Ops : pc[o] \in {FirstStep(o), "done"}) =>
    objects \subseteq {ContentOf[a] : a \in {b \in Artifacts : Stored(b)}}

\* A request that has begun returns: whoever fails in a workspace leaves its
\* lock, and a restart forgets the locks.
RequestsReturn ==
  \A o \in Ops : pc[o] # FirstStep(o) ~> pc[o] = "done"

\* The test of the workspaces says that a cleanup "preserves promoted bytes".
PromotedBytesKept ==
  \A a \in Artifacts : meta[a] = "validated" => ContentOf[a] \in objects

\* The test of uploads says that an upload "persists content-addressed object":
\* the bytes of an upload that was answered are on disk as long as its metadata.
UploadPersists ==
  \A u \in Uploads : pc[u] = "done" /\ Stored(u) => ContentOf[u] \in objects
=============================================================================
