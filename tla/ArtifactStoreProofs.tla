------------------------- MODULE ArtifactStoreProofs -------------------------
(* What is proved of ArtifactStore, for every value of its constants. *)
EXTENDS ArtifactStore, SequenceTheorems, TLAPS

-----------------------------------------------------------------------------
(* Types and the lock.                                                       *)

Lockers  == Promotes \cup Cleanups
Removers == Cleanups \cup Deletes

LEMMA Lockable ==
  ASSUME NEW o \in Lockers
  PROVE  LockOf(o) \in Workspaces
BY OpsAssumption, ArtifactsAssumption DEF Lockers, LockOf

LEMMA WithoutTyped ==
  ASSUME queue \in [Workspaces -> Seq(Lockers)], NEW o
  PROVE  Without(o) \in [Workspaces -> Seq(Lockers)]
<1> SUFFICES ASSUME NEW w \in Workspaces, queue[w] # <<>>
             PROVE  Tail(queue[w]) \in Seq(Lockers)
  BY DEF Without
<1> QED
  BY HeadTailProperties

LEMMA TypesInit == Init => TypeOK
BY OpsAssumption, ArtifactsAssumption, BoundAssumption DEF Init, TypeOK, FirstStep, Ops

LEMMA TypesNext == TypeOK /\ [Next]_vars => TypeOK'
<1> SUFFICES ASSUME TypeOK, [Next]_vars
             PROVE  TypeOK'
  OBVIOUS
<1> USE OpsAssumption, ArtifactsAssumption, BoundAssumption
<1>queues. ASSUME NEW o PROVE Without(o) \in [Workspaces -> Seq(Promotes \cup Cleanups)]
  BY WithoutTyped DEF TypeOK, Lockers
<1>1. ASSUME NEW u \in Uploads, UploadStep(u)
      PROVE  TypeOK'
  <2>1. CASE UploadStat(u)
    BY <2>1 DEF UploadStat, TypeOK, Goto, Ops
  <2>2. CASE UploadRmObject(u)
    BY <2>2 DEF UploadRmObject, TypeOK, Goto, Ops
  <2>3. CASE UploadRenameObject(u)
    BY <2>3 DEF UploadRenameObject, TypeOK, Goto, Ops
  <2>4. CASE UploadSaveMeta(u)
    BY <2>4 DEF UploadSaveMeta, TypeOK, Goto, Ops
  <2>5. CASE UploadStatFails(u)
    BY <2>5 DEF UploadStatFails, TypeOK, Goto, Ops
  <2> QED
    BY <1>1, <2>1, <2>2, <2>3, <2>4, <2>5 DEF UploadStep
<1>2. ASSUME NEW o \in Lockers, Enter(o)
      PROVE  TypeOK'
  <2>1. queue' \in [Workspaces -> Seq(Promotes \cup Cleanups)]
    BY <1>2, Lockable, AppendProperties DEF Enter, TypeOK, Lockers
  <2> QED
    BY <1>2, <2>1 DEF Enter, TypeOK, Goto, Ops, Lockers
<1>3. ASSUME NEW o \in Promotes, PromoteStep(o)
      PROVE  TypeOK'
  <2>1. CASE Enter(o)
    BY <2>1, <1>2 DEF Lockers
  <2>2. CASE PromoteReturn(o)
    BY <2>2, <1>queues DEF PromoteReturn, TypeOK, Goto, Return, Ops
  <2>3. CASE PromoteLoad(o)
    BY <2>3 DEF PromoteLoad, TypeOK, Goto, Ops
  <2>4. CASE PromoteRmMeta(o)
    BY <2>4 DEF PromoteRmMeta, TypeOK, Goto, Ops
  <2>5. CASE PromoteRenameMeta(o)
    BY <2>5, <1>queues DEF PromoteRenameMeta, TypeOK, Goto, Return, Ops
  <2> QED
    BY <1>3, <2>1, <2>2, <2>3, <2>4, <2>5 DEF PromoteStep
<1>4. ASSUME NEW o \in Cleanups \cup Deletes, RemoveStep(o)
      PROVE  TypeOK'
  <2>1. CASE RmEntry(o)
    BY <2>1 DEF RmEntry, TypeOK, Goto, Ops
  <2>2. CASE RmEntriesEnd(o)
    BY <2>2 DEF RmEntriesEnd, TypeOK, Goto, Ops
  <2>3. CASE ScanReaddir(o)
    BY <2>3 DEF ScanReaddir, References, TypeOK, Goto, Ops
  <2>4. CASE ScanFile(o)
    <3>1. PICK a \in names[o] :
            IF Stored(a) THEN names' = [names EXCEPT ![o] = {}] /\ Goto(o, "scan")
                         ELSE names' = [names EXCEPT ![o] = @ \ {a}] /\ UNCHANGED pc
      BY <2>4 DEF ScanFile
    <3>2. o \in Ops /\ a \in Artifacts
      BY <2>4, <3>1 DEF TypeOK, Ops
    <3>3. names' \in [Ops -> SUBSET Artifacts]
      <4>1. CASE Stored(a)
        BY <3>1, <3>2, <4>1 DEF TypeOK
      <4>2. CASE ~Stored(a)
        BY <3>1, <3>2, <4>2 DEF TypeOK
      <4> QED
        BY <4>1, <4>2
    <3>4. pc' = pc \/ pc' = [pc EXCEPT ![o] = "scan"]
      BY <3>1 DEF Goto
    <3>5. UNCHANGED <<objects, meta, queue, entries, hashes, hash, unread, faults>>
      BY <2>4 DEF ScanFile
    <3> QED
      BY <3>2, <3>3, <3>4, <3>5 DEF TypeOK
  <2>5. CASE ScanUnreferenced(o)
    BY <2>5 DEF ScanUnreferenced, TypeOK, Goto, Ops
  <2>6. CASE RmBytes(o)
    BY <2>6 DEF RmBytes, TypeOK, Goto, Ops
  <2>7. CASE ScanEnd(o)
    BY <2>7, <1>queues DEF ScanEnd, TypeOK, Goto, Return, Ops
  <2>8. CASE ScanUnreadable(o)
    BY <2>8 DEF ScanUnreadable, TypeOK, Ops
  <2> QED
    BY <1>4, <2>1, <2>2, <2>3, <2>4, <2>5, <2>6, <2>7, <2>8 DEF RemoveStep
<1>5. ASSUME NEW o \in Cleanups, CleanupStep(o)
      PROVE  TypeOK'
  <2>1. CASE Enter(o)
    BY <2>1, <1>2 DEF Lockers
  <2>2. CASE CleanupReaddir(o)
    BY <2>2 DEF CleanupReaddir, TypeOK, Goto, Ops
  <2>3. CASE CleanupReadFile(o)
    BY <2>3 DEF CleanupReadFile, TypeOK, Goto, Ops
  <2>4. CASE CleanupListed(o)
    BY <2>4 DEF CleanupListed, TypeOK, Goto, Ops
  <2>5. CASE CleanupUnreadable(o)
    BY <2>5 DEF CleanupUnreadable, TypeOK, Ops
  <2> QED
    BY <1>5, <1>4, <2>1, <2>2, <2>3, <2>4, <2>5 DEF CleanupStep
<1>6. ASSUME NEW o \in Deletes, DeleteStep(o)
      PROVE  TypeOK'
  <2>1. CASE DeleteMissing(o)
    BY <2>1 DEF DeleteMissing, TypeOK, Goto, Ops
  <2>2. CASE DeleteLoad(o)
    BY <2>2 DEF DeleteLoad, TypeOK, Goto, Ops
  <2> QED
    BY <1>6, <1>4, <2>1, <2>2 DEF DeleteStep
<1>7. ASSUME NEW o \in Ops, Fail(o)
      PROVE  TypeOK'
  BY <1>7, <1>queues DEF Fail, TypeOK, Goto, Return
<1>8. CASE Crash
  BY <1>8 DEF Crash, TypeOK, FirstStep, Ops
<1>9. CASE UNCHANGED vars
  BY <1>9 DEF vars, TypeOK
<1> QED
  BY <1>1, <1>3, <1>5, <1>6, <1>7, <1>8, <1>9 DEF Next

\* Every variable keeps its type.
THEOREM TypesHold == Spec => []TypeOK
<1> QED
  BY TypesInit, TypesNext, PTL DEF Spec

-----------------------------------------------------------------------------
(* What a step is.                                                           *)

LEMMA StepIs ==
  ASSUME Next
  PROVE  \/ \E u \in Uploads : UploadStat(u) \/ UploadStatFails(u) \/ UploadRmObject(u)
                               \/ UploadRenameObject(u) \/ UploadSaveMeta(u)
         \/ \E o \in Lockers : Enter(o)
         \/ \E o \in Promotes : PromoteReturn(o) \/ PromoteLoad(o) \/ PromoteRmMeta(o)
                                \/ PromoteRenameMeta(o)
         \/ \E o \in Cleanups : CleanupReaddir(o) \/ CleanupReadFile(o)
                                \/ CleanupUnreadable(o) \/ CleanupListed(o)
         \/ \E o \in Deletes : DeleteMissing(o) \/ DeleteLoad(o)
         \/ \E o \in Removers : RmEntry(o) \/ RmEntriesEnd(o) \/ ScanReaddir(o) \/ ScanFile(o)
                                \/ ScanUnreadable(o) \/ ScanUnreferenced(o) \/ RmBytes(o) \/ ScanEnd(o)
         \/ \E o \in Ops : Fail(o)
         \/ Crash
BY DEF Next, UploadStep, PromoteStep, CleanupStep, DeleteStep, RemoveStep, Lockers, Removers

-----------------------------------------------------------------------------
(* A promotion cannot be undone by a cleanup.                                *)

Inside == {"rmMeta", "renameMeta", "readFiles", "rmEntries", "scan", "scanFiles", "rmBytes"}

\* Whoever is past the wait holds the lock of its workspace.
LockInv == \A o \in Lockers : pc[o] \in Inside => Holds(o)

Rewrites(p) == pc[p] \in {"rmMeta", "renameMeta"}
Removes(o)  == pc[o] \in {"readFiles", "rmEntries"}

\* An artifact whose upload goes on has no metadata file yet, and nobody has
\* seen one.
Unborn ==
  \A u \in Uploads : pc[u] # "done" =>
    /\ meta[u] = "absent"
    /\ \A p \in Promotes : Rewrites(p) => Target[p] # u
    /\ \A o \in Cleanups : Removes(o) => u \notin entries[o]

NotYetPromoted == \A p \in Promotes : Rewrites(p) => meta[Target[p]] # "validated"

\* What a cleanup is to remove is of its workspace and was not promoted since.
Listed ==
  \A o \in Cleanups :
    /\ pc[o] \in {"enter", "readdir"} => entries[o] = {}
    /\ pc[o] = "readFiles" => \A a \in names[o] : SpaceOf[a] = Space[o]
    /\ Removes(o) => \A a \in entries[o] : SpaceOf[a] = Space[o] /\ meta[a] # "validated"

Named == \A o \in Deletes : pc[o] = "rmEntries" => entries[o] \subseteq {Target[o]}

KeepInv == LockInv /\ Unborn /\ NotYetPromoted /\ Listed /\ Named

LEMMA KeepInit == Init => KeepInv
BY OpsAssumption, ArtifactsAssumption
   DEF Init, KeepInv, LockInv, Unborn, NotYetPromoted, Listed, Named, Inside, Rewrites, Removes,
       FirstStep, Ops, Lockers

\* One metadata file is read: it ends the scan, or it is gone.
LEMMA ScanFileIs ==
  ASSUME TypeOK, NEW o \in Removers, ScanFile(o)
  PROVE  /\ pc[o] = "scanFiles"
         /\ \A p \in Ops : p # o => pc'[p] = pc[p] /\ names'[p] = names[p]
         /\ \E a \in names[o] :
              \/ Stored(a) /\ pc'[o] = "scan" /\ names'[o] = {}
              \/ ~Stored(a) /\ pc'[o] = "scanFiles" /\ names'[o] = names[o] \ {a}
         /\ UNCHANGED <<objects, meta, queue, entries, hashes, hash, unread, faults>>
<1>1. PICK a \in names[o] :
        IF Stored(a) THEN names' = [names EXCEPT ![o] = {}] /\ Goto(o, "scan")
                     ELSE names' = [names EXCEPT ![o] = @ \ {a}] /\ UNCHANGED pc
  BY DEF ScanFile
<1>2. CASE Stored(a)
  BY <1>1, <1>2 DEF ScanFile, TypeOK, Goto, Ops, Removers
<1>3. CASE ~Stored(a)
  BY <1>1, <1>3 DEF ScanFile, TypeOK, Goto, Ops, Removers
<1> QED
  BY <1>2, <1>3

LEMMA AppendIsNonempty ==
  ASSUME NEW q \in Seq(Lockers), q # <<>>, NEW o \in Lockers
  PROVE  Append(q, o) # <<>> /\ Head(Append(q, o)) = Head(q)
<1>1. Len(q) # 0 /\ Len(q) \in Nat
  BY EmptySeq, LenProperties
<1> QED
  BY <1>1, AppendProperties

LEMMA EnterLock ==
  ASSUME TypeOK, LockInv, NEW o \in Lockers, Enter(o)
  PROVE  LockInv'
<1>1. ASSUME NEW p \in Lockers, pc'[p] \in Inside
      PROVE  Holds(p)'
  <2>1. pc[p] \in Inside /\ p # o
    BY <1>1, OpsAssumption DEF Enter, Goto, TypeOK, Inside, Ops, Lockers
  <2>2. Holds(p) /\ queue[LockOf(p)] \in Seq(Lockers) /\ LockOf(p) \in Workspaces
    BY <2>1, Lockable DEF LockInv, TypeOK, Lockers
  <2>3. /\ Append(queue[LockOf(p)], o) # <<>>
        /\ Head(Append(queue[LockOf(p)], o)) = Head(queue[LockOf(p)])
    BY <2>2, AppendIsNonempty DEF Holds
  <2>4. queue'[LockOf(p)] \in {queue[LockOf(p)], Append(queue[LockOf(p)], o)}
    BY <2>2 DEF Enter, TypeOK
  <2> QED
    BY <2>2, <2>3, <2>4 DEF Holds, LockOf
<1> QED
  BY <1>1 DEF LockInv

LEMMA LockNext ==
  ASSUME TypeOK, LockInv, [Next]_vars
  PROVE  LockInv'
<1> USE OpsAssumption, ArtifactsAssumption
        DEF TypeOK, LockInv, Holds, LockOf, Inside, Goto, Return, Without, Ops,
            Lockers, Removers, FirstStep
<1>1. ASSUME NEW u \in Uploads, UploadStat(u) PROVE LockInv'
  BY <1>1 DEF UploadStat
<1>2. ASSUME NEW u \in Uploads, UploadRmObject(u) PROVE LockInv'
  BY <1>2 DEF UploadRmObject
<1>3. ASSUME NEW u \in Uploads, UploadRenameObject(u) PROVE LockInv'
  BY <1>3 DEF UploadRenameObject
<1>4. ASSUME NEW u \in Uploads, UploadSaveMeta(u) PROVE LockInv'
  BY <1>4 DEF UploadSaveMeta
<1>5. ASSUME NEW o \in Lockers, Enter(o) PROVE LockInv'
  BY <1>5, EnterLock
<1>6. ASSUME NEW o \in Promotes, PromoteReturn(o) PROVE LockInv'
  BY <1>6 DEF PromoteReturn
<1>7. ASSUME NEW o \in Promotes, PromoteLoad(o) PROVE LockInv'
  BY <1>7 DEF PromoteLoad
<1>8. ASSUME NEW o \in Promotes, PromoteRmMeta(o) PROVE LockInv'
  BY <1>8 DEF PromoteRmMeta
<1>9. ASSUME NEW o \in Promotes, PromoteRenameMeta(o) PROVE LockInv'
  BY <1>9 DEF PromoteRenameMeta
<1>10. ASSUME NEW o \in Cleanups, CleanupReaddir(o) PROVE LockInv'
  BY <1>10 DEF CleanupReaddir
<1>11. ASSUME NEW o \in Cleanups, CleanupReadFile(o) PROVE LockInv'
  BY <1>11 DEF CleanupReadFile
<1>12. ASSUME NEW o \in Cleanups, CleanupListed(o) PROVE LockInv'
  BY <1>12 DEF CleanupListed
<1>13. ASSUME NEW o \in Deletes, DeleteMissing(o) PROVE LockInv'
  BY <1>13 DEF DeleteMissing
<1>14. ASSUME NEW o \in Deletes, DeleteLoad(o) PROVE LockInv'
  BY <1>14 DEF DeleteLoad
<1>15. ASSUME NEW o \in Removers, RmEntry(o) PROVE LockInv'
  BY <1>15 DEF RmEntry
<1>16. ASSUME NEW o \in Removers, RmEntriesEnd(o) PROVE LockInv'
  BY <1>16 DEF RmEntriesEnd
<1>17. ASSUME NEW o \in Removers, ScanReaddir(o) PROVE LockInv'
  BY <1>17 DEF ScanReaddir
<1>18. ASSUME NEW o \in Removers, ScanFile(o) PROVE LockInv'
  BY <1>18 DEF ScanFile
<1>19. ASSUME NEW o \in Removers, ScanUnreferenced(o) PROVE LockInv'
  BY <1>19 DEF ScanUnreferenced
<1>20. ASSUME NEW o \in Removers, RmBytes(o) PROVE LockInv'
  BY <1>20 DEF RmBytes
<1>21. ASSUME NEW o \in Removers, ScanEnd(o) PROVE LockInv'
  BY <1>21 DEF ScanEnd
<1>22. ASSUME NEW o \in Ops, Fail(o) PROVE LockInv'
  BY <1>22 DEF Fail
<1>23. CASE Crash
  BY <1>23 DEF Crash
<1>24. CASE UNCHANGED vars
  BY <1>24 DEF vars
<1>25. ASSUME NEW u \in Uploads, UploadStatFails(u) PROVE LockInv'
  BY <1>25 DEF UploadStatFails
<1>26. ASSUME NEW o \in Cleanups, CleanupUnreadable(o) PROVE LockInv'
  BY <1>26 DEF CleanupUnreadable
<1>27. ASSUME NEW o \in Removers, ScanUnreadable(o) PROVE LockInv'
  BY <1>27 DEF ScanUnreadable
<1> QED
  BY StepIs, <1>1, <1>2, <1>3, <1>4, <1>5, <1>6, <1>7, <1>8, <1>9, <1>10, <1>11, <1>12,
     <1>13, <1>14, <1>15, <1>16, <1>17, <1>18, <1>19, <1>20, <1>21, <1>22, <1>23, <1>24,
     <1>25, <1>26, <1>27

LEMMA UnbornNext ==
  ASSUME TypeOK, KeepInv, [Next]_vars
  PROVE  Unborn'
<1> USE OpsAssumption, ArtifactsAssumption
        DEF TypeOK, KeepInv, Unborn, Listed, Rewrites, Removes, Stored, Goto, Return,
            Ops, Lockers, Removers, ToRemove, FirstStep
<1>1. ASSUME NEW u \in Uploads, UploadStat(u) PROVE Unborn'
  BY <1>1 DEF UploadStat
<1>2. ASSUME NEW u \in Uploads, UploadRmObject(u) PROVE Unborn'
  BY <1>2 DEF UploadRmObject
<1>3. ASSUME NEW u \in Uploads, UploadRenameObject(u) PROVE Unborn'
  BY <1>3 DEF UploadRenameObject
<1>4. ASSUME NEW u \in Uploads, UploadSaveMeta(u) PROVE Unborn'
  BY <1>4 DEF UploadSaveMeta
<1>5. ASSUME NEW o \in Lockers, Enter(o) PROVE Unborn'
  BY <1>5 DEF Enter
<1>6. ASSUME NEW o \in Promotes, PromoteReturn(o) PROVE Unborn'
  BY <1>6 DEF PromoteReturn
<1>7. ASSUME NEW o \in Promotes, PromoteLoad(o) PROVE Unborn'
  BY <1>7 DEF PromoteLoad
<1>8. ASSUME NEW o \in Promotes, PromoteRmMeta(o) PROVE Unborn'
  BY <1>8 DEF PromoteRmMeta
<1>9. ASSUME NEW o \in Promotes, PromoteRenameMeta(o) PROVE Unborn'
  BY <1>9 DEF PromoteRenameMeta
<1>10. ASSUME NEW o \in Cleanups, CleanupReaddir(o) PROVE Unborn'
  BY <1>10 DEF CleanupReaddir
<1>11. ASSUME NEW o \in Cleanups, CleanupReadFile(o) PROVE Unborn'
  BY <1>11 DEF CleanupReadFile
<1>12. ASSUME NEW o \in Cleanups, CleanupListed(o) PROVE Unborn'
  BY <1>12 DEF CleanupListed
<1>13. ASSUME NEW o \in Deletes, DeleteMissing(o) PROVE Unborn'
  BY <1>13 DEF DeleteMissing
<1>14. ASSUME NEW o \in Deletes, DeleteLoad(o) PROVE Unborn'
  BY <1>14 DEF DeleteLoad
<1>15. ASSUME NEW o \in Removers, RmEntry(o) PROVE Unborn'
  BY <1>15 DEF RmEntry
<1>16. ASSUME NEW o \in Removers, RmEntriesEnd(o) PROVE Unborn'
  BY <1>16 DEF RmEntriesEnd
<1>17. ASSUME NEW o \in Removers, ScanReaddir(o) PROVE Unborn'
  BY <1>17 DEF ScanReaddir
<1>18. ASSUME NEW o \in Removers, ScanFile(o) PROVE Unborn'
  BY <1>18 DEF ScanFile
<1>19. ASSUME NEW o \in Removers, ScanUnreferenced(o) PROVE Unborn'
  BY <1>19 DEF ScanUnreferenced
<1>20. ASSUME NEW o \in Removers, RmBytes(o) PROVE Unborn'
  BY <1>20 DEF RmBytes
<1>21. ASSUME NEW o \in Removers, ScanEnd(o) PROVE Unborn'
  BY <1>21 DEF ScanEnd
<1>22. ASSUME NEW o \in Ops, Fail(o) PROVE Unborn'
  BY <1>22 DEF Fail
<1>23. CASE Crash
  BY <1>23 DEF Crash
<1>24. CASE UNCHANGED vars
  BY <1>24 DEF vars
<1>25. ASSUME NEW u \in Uploads, UploadStatFails(u) PROVE Unborn'
  BY <1>25 DEF UploadStatFails
<1>26. ASSUME NEW o \in Cleanups, CleanupUnreadable(o) PROVE Unborn'
  BY <1>26 DEF CleanupUnreadable
<1>27. ASSUME NEW o \in Removers, ScanUnreadable(o) PROVE Unborn'
  BY <1>27 DEF ScanUnreadable
<1> QED
  BY StepIs, <1>1, <1>2, <1>3, <1>4, <1>5, <1>6, <1>7, <1>8, <1>9, <1>10, <1>11, <1>12,
     <1>13, <1>14, <1>15, <1>16, <1>17, <1>18, <1>19, <1>20, <1>21, <1>22, <1>23, <1>24,
     <1>25, <1>26, <1>27

LEMMA NotYetPromotedNext ==
  ASSUME TypeOK, KeepInv, [Next]_vars
  PROVE  NotYetPromoted'
<1> USE OpsAssumption, ArtifactsAssumption
        DEF TypeOK, KeepInv, LockInv, Unborn, NotYetPromoted, Inside, Holds, LockOf,
            Rewrites, Goto, Return, Ops, Lockers, Removers, FirstStep
<1>1. ASSUME NEW u \in Uploads, UploadStat(u) PROVE NotYetPromoted'
  BY <1>1 DEF UploadStat
<1>2. ASSUME NEW u \in Uploads, UploadRmObject(u) PROVE NotYetPromoted'
  BY <1>2 DEF UploadRmObject
<1>3. ASSUME NEW u \in Uploads, UploadRenameObject(u) PROVE NotYetPromoted'
  BY <1>3 DEF UploadRenameObject
<1>4. ASSUME NEW u \in Uploads, UploadSaveMeta(u) PROVE NotYetPromoted'
  BY <1>4 DEF UploadSaveMeta
<1>5. ASSUME NEW o \in Lockers, Enter(o) PROVE NotYetPromoted'
  BY <1>5 DEF Enter
<1>6. ASSUME NEW o \in Promotes, PromoteReturn(o) PROVE NotYetPromoted'
  BY <1>6 DEF PromoteReturn
<1>7. ASSUME NEW o \in Promotes, PromoteLoad(o) PROVE NotYetPromoted'
  BY <1>7 DEF PromoteLoad
<1>8. ASSUME NEW o \in Promotes, PromoteRmMeta(o) PROVE NotYetPromoted'
  BY <1>8 DEF PromoteRmMeta
<1>9. ASSUME NEW o \in Promotes, PromoteRenameMeta(o) PROVE NotYetPromoted'
  BY <1>9 DEF PromoteRenameMeta
<1>10. ASSUME NEW o \in Cleanups, CleanupReaddir(o) PROVE NotYetPromoted'
  BY <1>10 DEF CleanupReaddir
<1>11. ASSUME NEW o \in Cleanups, CleanupReadFile(o) PROVE NotYetPromoted'
  BY <1>11 DEF CleanupReadFile
<1>12. ASSUME NEW o \in Cleanups, CleanupListed(o) PROVE NotYetPromoted'
  BY <1>12 DEF CleanupListed
<1>13. ASSUME NEW o \in Deletes, DeleteMissing(o) PROVE NotYetPromoted'
  BY <1>13 DEF DeleteMissing
<1>14. ASSUME NEW o \in Deletes, DeleteLoad(o) PROVE NotYetPromoted'
  BY <1>14 DEF DeleteLoad
<1>15. ASSUME NEW o \in Removers, RmEntry(o) PROVE NotYetPromoted'
  BY <1>15 DEF RmEntry
<1>16. ASSUME NEW o \in Removers, RmEntriesEnd(o) PROVE NotYetPromoted'
  BY <1>16 DEF RmEntriesEnd
<1>17. ASSUME NEW o \in Removers, ScanReaddir(o) PROVE NotYetPromoted'
  BY <1>17 DEF ScanReaddir
<1>18. ASSUME NEW o \in Removers, ScanFile(o) PROVE NotYetPromoted'
  BY <1>18 DEF ScanFile
<1>19. ASSUME NEW o \in Removers, ScanUnreferenced(o) PROVE NotYetPromoted'
  BY <1>19 DEF ScanUnreferenced
<1>20. ASSUME NEW o \in Removers, RmBytes(o) PROVE NotYetPromoted'
  BY <1>20 DEF RmBytes
<1>21. ASSUME NEW o \in Removers, ScanEnd(o) PROVE NotYetPromoted'
  BY <1>21 DEF ScanEnd
<1>22. ASSUME NEW o \in Ops, Fail(o) PROVE NotYetPromoted'
  BY <1>22 DEF Fail
<1>23. CASE Crash
  BY <1>23 DEF Crash
<1>24. CASE UNCHANGED vars
  BY <1>24 DEF vars
<1>25. ASSUME NEW u \in Uploads, UploadStatFails(u) PROVE NotYetPromoted'
  BY <1>25 DEF UploadStatFails
<1>26. ASSUME NEW o \in Cleanups, CleanupUnreadable(o) PROVE NotYetPromoted'
  BY <1>26 DEF CleanupUnreadable
<1>27. ASSUME NEW o \in Removers, ScanUnreadable(o) PROVE NotYetPromoted'
  BY <1>27 DEF ScanUnreadable
<1> QED
  BY StepIs, <1>1, <1>2, <1>3, <1>4, <1>5, <1>6, <1>7, <1>8, <1>9, <1>10, <1>11, <1>12,
     <1>13, <1>14, <1>15, <1>16, <1>17, <1>18, <1>19, <1>20, <1>21, <1>22, <1>23, <1>24,
     <1>25, <1>26, <1>27

LEMMA ScanFileListed ==
  ASSUME TypeOK, KeepInv, NEW o \in Removers, ScanFile(o)
  PROVE  Listed'
<1>1. \A p \in Cleanups : \/ pc'[p] = pc[p] /\ names'[p] = names[p]
                          \/ pc'[p] \in {"scan", "scanFiles"}
  BY ScanFileIs DEF Ops, Lockers, Removers
<1>2. meta' = meta /\ entries' = entries
  BY DEF ScanFile
<1> QED
  BY <1>1, <1>2 DEF KeepInv, Listed, Removes

LEMMA ListedNext ==
  ASSUME TypeOK, KeepInv, [Next]_vars
  PROVE  Listed'
<1> USE OpsAssumption, ArtifactsAssumption
        DEF TypeOK, KeepInv, LockInv, Unborn, Listed, Inside, Holds, LockOf, Rewrites,
            Removes, Stored, ToRemove, Goto, Return, Ops, Lockers, Removers, FirstStep
<1>1. ASSUME NEW u \in Uploads, UploadStat(u) PROVE Listed'
  BY <1>1 DEF UploadStat
<1>2. ASSUME NEW u \in Uploads, UploadRmObject(u) PROVE Listed'
  BY <1>2 DEF UploadRmObject
<1>3. ASSUME NEW u \in Uploads, UploadRenameObject(u) PROVE Listed'
  BY <1>3 DEF UploadRenameObject
<1>4. ASSUME NEW u \in Uploads, UploadSaveMeta(u) PROVE Listed'
  BY <1>4 DEF UploadSaveMeta
<1>5. ASSUME NEW o \in Lockers, Enter(o) PROVE Listed'
  BY <1>5 DEF Enter
<1>6. ASSUME NEW o \in Promotes, PromoteReturn(o) PROVE Listed'
  BY <1>6 DEF PromoteReturn
<1>7. ASSUME NEW o \in Promotes, PromoteLoad(o) PROVE Listed'
  BY <1>7 DEF PromoteLoad
<1>8. ASSUME NEW o \in Promotes, PromoteRmMeta(o) PROVE Listed'
  BY <1>8 DEF PromoteRmMeta
<1>9. ASSUME NEW o \in Promotes, PromoteRenameMeta(o) PROVE Listed'
  BY <1>9 DEF PromoteRenameMeta
<1>10. ASSUME NEW o \in Cleanups, CleanupReaddir(o) PROVE Listed'
  BY <1>10 DEF CleanupReaddir
<1>11. ASSUME NEW o \in Cleanups, CleanupReadFile(o) PROVE Listed'
  BY <1>11 DEF CleanupReadFile
<1>12. ASSUME NEW o \in Cleanups, CleanupListed(o) PROVE Listed'
  BY <1>12 DEF CleanupListed
<1>13. ASSUME NEW o \in Deletes, DeleteMissing(o) PROVE Listed'
  BY <1>13 DEF DeleteMissing
<1>14. ASSUME NEW o \in Deletes, DeleteLoad(o) PROVE Listed'
  BY <1>14 DEF DeleteLoad
<1>15. ASSUME NEW o \in Removers, RmEntry(o) PROVE Listed'
  BY <1>15 DEF RmEntry
<1>16. ASSUME NEW o \in Removers, RmEntriesEnd(o) PROVE Listed'
  BY <1>16 DEF RmEntriesEnd
<1>17. ASSUME NEW o \in Removers, ScanReaddir(o) PROVE Listed'
  BY <1>17 DEF ScanReaddir
<1>18. ASSUME NEW o \in Removers, ScanFile(o) PROVE Listed'
  BY <1>18, ScanFileListed
<1>19. ASSUME NEW o \in Removers, ScanUnreferenced(o) PROVE Listed'
  BY <1>19 DEF ScanUnreferenced
<1>20. ASSUME NEW o \in Removers, RmBytes(o) PROVE Listed'
  BY <1>20 DEF RmBytes
<1>21. ASSUME NEW o \in Removers, ScanEnd(o) PROVE Listed'
  BY <1>21 DEF ScanEnd
<1>22. ASSUME NEW o \in Ops, Fail(o) PROVE Listed'
  BY <1>22 DEF Fail
<1>23. CASE Crash
  BY <1>23 DEF Crash
<1>24. CASE UNCHANGED vars
  BY <1>24 DEF vars
<1>25. ASSUME NEW u \in Uploads, UploadStatFails(u) PROVE Listed'
  BY <1>25 DEF UploadStatFails
<1>26. ASSUME NEW o \in Cleanups, CleanupUnreadable(o) PROVE Listed'
  BY <1>26 DEF CleanupUnreadable
<1>27. ASSUME NEW o \in Removers, ScanUnreadable(o) PROVE Listed'
  BY <1>27 DEF ScanUnreadable
<1> QED
  BY StepIs, <1>1, <1>2, <1>3, <1>4, <1>5, <1>6, <1>7, <1>8, <1>9, <1>10, <1>11, <1>12,
     <1>13, <1>14, <1>15, <1>16, <1>17, <1>18, <1>19, <1>20, <1>21, <1>22, <1>23, <1>24,
     <1>25, <1>26, <1>27

LEMMA NamedNext ==
  ASSUME TypeOK, KeepInv, [Next]_vars
  PROVE  Named'
<1> USE OpsAssumption, ArtifactsAssumption
        DEF TypeOK, KeepInv, Named, Goto, Return, Ops, Lockers, Removers, FirstStep
<1>1. ASSUME NEW u \in Uploads, UploadStat(u) PROVE Named'
  BY <1>1 DEF UploadStat
<1>2. ASSUME NEW u \in Uploads, UploadRmObject(u) PROVE Named'
  BY <1>2 DEF UploadRmObject
<1>3. ASSUME NEW u \in Uploads, UploadRenameObject(u) PROVE Named'
  BY <1>3 DEF UploadRenameObject
<1>4. ASSUME NEW u \in Uploads, UploadSaveMeta(u) PROVE Named'
  BY <1>4 DEF UploadSaveMeta
<1>5. ASSUME NEW o \in Lockers, Enter(o) PROVE Named'
  BY <1>5 DEF Enter
<1>6. ASSUME NEW o \in Promotes, PromoteReturn(o) PROVE Named'
  BY <1>6 DEF PromoteReturn
<1>7. ASSUME NEW o \in Promotes, PromoteLoad(o) PROVE Named'
  BY <1>7 DEF PromoteLoad
<1>8. ASSUME NEW o \in Promotes, PromoteRmMeta(o) PROVE Named'
  BY <1>8 DEF PromoteRmMeta
<1>9. ASSUME NEW o \in Promotes, PromoteRenameMeta(o) PROVE Named'
  BY <1>9 DEF PromoteRenameMeta
<1>10. ASSUME NEW o \in Cleanups, CleanupReaddir(o) PROVE Named'
  BY <1>10 DEF CleanupReaddir
<1>11. ASSUME NEW o \in Cleanups, CleanupReadFile(o) PROVE Named'
  BY <1>11 DEF CleanupReadFile
<1>12. ASSUME NEW o \in Cleanups, CleanupListed(o) PROVE Named'
  BY <1>12 DEF CleanupListed
<1>13. ASSUME NEW o \in Deletes, DeleteMissing(o) PROVE Named'
  BY <1>13 DEF DeleteMissing
<1>14. ASSUME NEW o \in Deletes, DeleteLoad(o) PROVE Named'
  BY <1>14 DEF DeleteLoad
<1>15. ASSUME NEW o \in Removers, RmEntry(o) PROVE Named'
  BY <1>15 DEF RmEntry
<1>16. ASSUME NEW o \in Removers, RmEntriesEnd(o) PROVE Named'
  BY <1>16 DEF RmEntriesEnd
<1>17. ASSUME NEW o \in Removers, ScanReaddir(o) PROVE Named'
  BY <1>17 DEF ScanReaddir
<1>18. ASSUME NEW o \in Removers, ScanFile(o) PROVE Named'
  BY <1>18 DEF ScanFile
<1>19. ASSUME NEW o \in Removers, ScanUnreferenced(o) PROVE Named'
  BY <1>19 DEF ScanUnreferenced
<1>20. ASSUME NEW o \in Removers, RmBytes(o) PROVE Named'
  BY <1>20 DEF RmBytes
<1>21. ASSUME NEW o \in Removers, ScanEnd(o) PROVE Named'
  BY <1>21 DEF ScanEnd
<1>22. ASSUME NEW o \in Ops, Fail(o) PROVE Named'
  BY <1>22 DEF Fail
<1>23. CASE Crash
  BY <1>23 DEF Crash
<1>24. CASE UNCHANGED vars
  BY <1>24 DEF vars
<1>25. ASSUME NEW u \in Uploads, UploadStatFails(u) PROVE Named'
  BY <1>25 DEF UploadStatFails
<1>26. ASSUME NEW o \in Cleanups, CleanupUnreadable(o) PROVE Named'
  BY <1>26 DEF CleanupUnreadable
<1>27. ASSUME NEW o \in Removers, ScanUnreadable(o) PROVE Named'
  BY <1>27 DEF ScanUnreadable
<1> QED
  BY StepIs, <1>1, <1>2, <1>3, <1>4, <1>5, <1>6, <1>7, <1>8, <1>9, <1>10, <1>11, <1>12,
     <1>13, <1>14, <1>15, <1>16, <1>17, <1>18, <1>19, <1>20, <1>21, <1>22, <1>23, <1>24,
     <1>25, <1>26, <1>27

LEMMA KeepNext == TypeOK /\ KeepInv /\ [Next]_vars => KeepInv'
BY LockNext, UnbornNext, NotYetPromotedNext, ListedNext, NamedNext DEF KeepInv

\* What a step may do to the lifecycle in a metadata file.
LEMMA PromotedStep ==
  ASSUME TypeOK, KeepInv, [Next]_vars,
         NEW a \in Artifacts, meta[a] = "validated", meta'[a] # "validated"
  PROVE  \E o \in Deletes : Target[o] = a /\ pc[o] = "rmEntries"
<1> USE OpsAssumption, ArtifactsAssumption
<1>1. ASSUME NEW u \in Uploads, UploadSaveMeta(u)
      PROVE  FALSE
  BY <1>1 DEF UploadSaveMeta, KeepInv, Unborn, TypeOK
<1>2. ASSUME NEW o \in Promotes, PromoteRmMeta(o) \/ PromoteRenameMeta(o)
      PROVE  FALSE
  BY <1>2 DEF PromoteRmMeta, PromoteRenameMeta, KeepInv, NotYetPromoted, Rewrites, TypeOK
<1>3. ASSUME NEW o \in Removers, RmEntry(o)
      PROVE  \E p \in Deletes : Target[p] = a /\ pc[p] = "rmEntries"
  <2>1. pc[o] = "rmEntries" /\ a \in entries[o]
    BY <1>3 DEF RmEntry, TypeOK
  <2>2. o \notin Cleanups
    BY <2>1 DEF KeepInv, Listed, Removes
  <2> QED
    BY <2>1, <2>2 DEF KeepInv, Named, Removers
<1>4. \/ UNCHANGED meta
      \/ \E u \in Uploads : UploadSaveMeta(u)
      \/ \E o \in Promotes : PromoteRmMeta(o) \/ PromoteRenameMeta(o)
      \/ \E o \in Removers : RmEntry(o)
  BY StepIs DEF vars, UploadStat, UploadStatFails, UploadRmObject, UploadRenameObject, Enter,
       PromoteReturn, PromoteLoad, CleanupReaddir, CleanupReadFile, CleanupUnreadable,
       CleanupListed, ScanUnreadable, DeleteMissing, DeleteLoad,
       RmEntriesEnd, ScanReaddir, ScanFile, ScanUnreferenced, RmBytes, ScanEnd, Fail, Crash
<1> QED
  BY <1>1, <1>2, <1>3, <1>4

\* What a promotion has validated is removed by a delete of that artifact only,
\* whatever cleanups had listed before (withWorkspaceLock, workspaces.js:123).
THEOREM PromotionsKept == Spec => PromotedKept
<1>1. TypeOK /\ KeepInv /\ [Next]_vars =>
        [\A a \in Artifacts :
           meta[a] = "validated" /\ meta'[a] # "validated" =>
             \E o \in Deletes : Target[o] = a /\ pc[o] = "rmEntries"]_vars
  BY PromotedStep
<1> QED
  BY TypesInit, TypesNext, KeepInit, KeepNext, <1>1, PTL DEF Spec, PromotedKept

-----------------------------------------------------------------------------
(* No bytes are left behind.                                                 *)

\* Request o is under way and will give content c an artifact, or look for
\* what still names it.
Owes(o, c) ==
  \/ o \in Uploads /\ pc[o] = "saveMeta" /\ ContentOf[o] = c
  \/ o \in Promotes /\ pc[o] = "renameMeta" /\ ContentOf[Target[o]] = c
  \/ o \in Removers /\ pc[o] \in {"rmEntries", "scan", "scanFiles", "rmBytes"} /\ c \in hashes[o]
  \/ o \in Removers /\ pc[o] \in {"scanFiles", "rmBytes"} /\ hash[o] = c

Kept(c) == \E a \in Artifacts : Stored(a) /\ ContentOf[a] = c

Owed == faults = 0 => \A c \in objects : Kept(c) \/ \E o \in Ops : Owes(o, c)

\* What a removal looks up and what it counts.
Counted ==
  \A o \in Removers :
    /\ pc[o] = "rmEntries" => \A a \in entries[o] : ContentOf[a] \in hashes[o]
    /\ pc[o] = "scanFiles" => \A a \in names[o] : ContentOf[a] = hash[o]

LEMMA ScanFileCounted ==
  ASSUME TypeOK, Counted, NEW o \in Removers, ScanFile(o)
  PROVE  Counted'
<1>1. entries' = entries /\ hashes' = hashes /\ hash' = hash
  BY DEF ScanFile
<1>2. ASSUME NEW p \in Removers
      PROVE  /\ pc'[p] = "rmEntries" => pc[p] = "rmEntries"
             /\ pc'[p] = "scanFiles" => pc[p] = "scanFiles" /\ names'[p] \subseteq names[p]
  BY ScanFileIs DEF Ops, Removers
<1> QED
  BY <1>1, <1>2 DEF Counted

LEMMA CountedNext ==
  ASSUME TypeOK, Counted, [Next]_vars
  PROVE  Counted'
<1> USE OpsAssumption, ArtifactsAssumption
        DEF TypeOK, Counted, Goto, Return, Ops, Lockers, Removers, References,
            FirstStep
<1>1. ASSUME NEW u \in Uploads, UploadStat(u) PROVE Counted'
  BY <1>1 DEF UploadStat
<1>2. ASSUME NEW u \in Uploads, UploadRmObject(u) PROVE Counted'
  BY <1>2 DEF UploadRmObject
<1>3. ASSUME NEW u \in Uploads, UploadRenameObject(u) PROVE Counted'
  BY <1>3 DEF UploadRenameObject
<1>4. ASSUME NEW u \in Uploads, UploadSaveMeta(u) PROVE Counted'
  BY <1>4 DEF UploadSaveMeta
<1>5. ASSUME NEW o \in Lockers, Enter(o) PROVE Counted'
  BY <1>5 DEF Enter
<1>6. ASSUME NEW o \in Promotes, PromoteReturn(o) PROVE Counted'
  BY <1>6 DEF PromoteReturn
<1>7. ASSUME NEW o \in Promotes, PromoteLoad(o) PROVE Counted'
  BY <1>7 DEF PromoteLoad
<1>8. ASSUME NEW o \in Promotes, PromoteRmMeta(o) PROVE Counted'
  BY <1>8 DEF PromoteRmMeta
<1>9. ASSUME NEW o \in Promotes, PromoteRenameMeta(o) PROVE Counted'
  BY <1>9 DEF PromoteRenameMeta
<1>10. ASSUME NEW o \in Cleanups, CleanupReaddir(o) PROVE Counted'
  BY <1>10 DEF CleanupReaddir
<1>11. ASSUME NEW o \in Cleanups, CleanupReadFile(o) PROVE Counted'
  BY <1>11 DEF CleanupReadFile
<1>12. ASSUME NEW o \in Cleanups, CleanupListed(o) PROVE Counted'
  BY <1>12 DEF CleanupListed
<1>13. ASSUME NEW o \in Deletes, DeleteMissing(o) PROVE Counted'
  BY <1>13 DEF DeleteMissing
<1>14. ASSUME NEW o \in Deletes, DeleteLoad(o) PROVE Counted'
  BY <1>14 DEF DeleteLoad
<1>15. ASSUME NEW o \in Removers, RmEntry(o) PROVE Counted'
  BY <1>15 DEF RmEntry
<1>16. ASSUME NEW o \in Removers, RmEntriesEnd(o) PROVE Counted'
  BY <1>16 DEF RmEntriesEnd
<1>17. ASSUME NEW o \in Removers, ScanReaddir(o) PROVE Counted'
  BY <1>17 DEF ScanReaddir
<1>18. ASSUME NEW o \in Removers, ScanFile(o) PROVE Counted'
  BY <1>18, ScanFileCounted
<1>19. ASSUME NEW o \in Removers, ScanUnreferenced(o) PROVE Counted'
  BY <1>19 DEF ScanUnreferenced
<1>20. ASSUME NEW o \in Removers, RmBytes(o) PROVE Counted'
  BY <1>20 DEF RmBytes
<1>21. ASSUME NEW o \in Removers, ScanEnd(o) PROVE Counted'
  BY <1>21 DEF ScanEnd
<1>22. ASSUME NEW o \in Ops, Fail(o) PROVE Counted'
  BY <1>22 DEF Fail
<1>23. CASE Crash
  BY <1>23 DEF Crash
<1>24. CASE UNCHANGED vars
  BY <1>24 DEF vars
<1>25. ASSUME NEW u \in Uploads, UploadStatFails(u) PROVE Counted'
  BY <1>25 DEF UploadStatFails
<1>26. ASSUME NEW o \in Cleanups, CleanupUnreadable(o) PROVE Counted'
  BY <1>26 DEF CleanupUnreadable
<1>27. ASSUME NEW o \in Removers, ScanUnreadable(o) PROVE Counted'
  BY <1>27 DEF ScanUnreadable
<1> QED
  BY StepIs, <1>1, <1>2, <1>3, <1>4, <1>5, <1>6, <1>7, <1>8, <1>9, <1>10, <1>11, <1>12,
     <1>13, <1>14, <1>15, <1>16, <1>17, <1>18, <1>19, <1>20, <1>21, <1>22, <1>23, <1>24,
     <1>25, <1>26, <1>27

\* Whoever finds an artifact that names the bytes leaves them to it.
LEMMA ScanFileOwed ==
  ASSUME TypeOK, Counted, Owed, NEW o \in Removers, ScanFile(o)
  PROVE  Owed'
<1> SUFFICES ASSUME faults = 0, NEW c \in objects, ~Kept(c)
             PROVE  \E p \in Ops : Owes(p, c)'
  BY ScanFileIs DEF Owed, Kept, Stored
<1>1. PICK p \in Ops : Owes(p, c)
  BY DEF Owed
<1>2. CASE p # o
  BY <1>1, <1>2, ScanFileIs DEF Owes
<1>3. CASE p = o
  <2>1. pc[o] = "scanFiles" /\ (o \notin Uploads \cup Promotes) /\ (c \in hashes[o] \/ hash[o] = c)
    BY <1>1, <1>3, ScanFileIs, OpsAssumption DEF Owes, Removers
  <2>2. PICK a \in names[o] : \/ Stored(a) /\ pc'[o] = "scan"
                              \/ ~Stored(a) /\ pc'[o] = "scanFiles"
    BY ScanFileIs
  <2>3. a \in Artifacts /\ ContentOf[a] = hash[o]
    BY <2>1, <2>2 DEF Counted, TypeOK, Ops, Removers
  <2>4. c \in hashes[o] \/ pc'[o] = "scanFiles"
    BY <2>1, <2>2, <2>3 DEF Kept
  <2> QED
    BY <1>3, <2>1, <2>2, <2>4, ScanFileIs DEF Owes
<1> QED
  BY <1>2, <1>3

\* Whoever removes an artifact looks for others with its bytes.
LEMMA RmEntryOwed ==
  ASSUME TypeOK, Counted, Owed, NEW o \in Removers, RmEntry(o)
  PROVE  Owed'
<1>1. PICK a \in entries[o] : meta' = [meta EXCEPT ![a] = "absent"]
  BY DEF RmEntry
<1>2. /\ pc[o] = "rmEntries" /\ a \in Artifacts /\ o \in Ops
      /\ UNCHANGED <<objects, queue, pc, names, hashes, hash, unread, faults>>
  BY <1>1 DEF RmEntry, TypeOK, Ops, Removers
<1>3. ASSUME NEW c \in objects, Kept(c), ~Kept(c)'
      PROVE  Owes(o, c)'
  <2>1. ContentOf[a] = c
    BY <1>1, <1>2, <1>3 DEF Kept, Stored, TypeOK
  <2> QED
    BY <1>1, <1>2, <2>1 DEF Counted, Owes
<1>4. ASSUME NEW p \in Ops, NEW c, Owes(p, c)
      PROVE  Owes(p, c)'
  BY <1>2, <1>4 DEF Owes
<1> QED
  BY <1>2, <1>3, <1>4 DEF Owed

\* An upload that has renamed its bytes into place owes them their metadata.
LEMMA RenameObjectOwed ==
  ASSUME TypeOK, Owed, NEW u \in Uploads, UploadRenameObject(u)
  PROVE  Owed'
<1>1. /\ u \in Ops /\ pc[u] = "renameObject"
      /\ objects' = objects \cup {ContentOf[u]} /\ pc' = [pc EXCEPT ![u] = "saveMeta"]
      /\ UNCHANGED <<meta, hashes, hash, faults>>
  BY DEF UploadRenameObject, Goto, Ops
<1>2. Owes(u, ContentOf[u])'
  BY <1>1 DEF Owes, TypeOK
<1>3. ASSUME NEW o \in Ops, NEW c, Owes(o, c), o # u PROVE Owes(o, c)'
  <2>1. pc'[o] = pc[o] /\ hashes'[o] = hashes[o] /\ hash'[o] = hash[o]
    BY <1>1, <1>3 DEF TypeOK
  <2> QED
    BY <1>3, <2>1 DEF Owes
<1>4. ASSUME NEW c PROVE ~Owes(u, c)
  BY <1>1, OpsAssumption DEF Owes, Removers
<1>5. ASSUME NEW c, Kept(c) PROVE Kept(c)'
  BY <1>1, <1>5 DEF Kept, Stored
<1> QED
  BY <1>1, <1>2, <1>3, <1>4, <1>5 DEF Owed

\* An upload that saves its metadata keeps its bytes, and owes them no more.
LEMMA SaveMetaOwed ==
  ASSUME TypeOK, Owed, NEW u \in Uploads, UploadSaveMeta(u)
  PROVE  Owed'
<1>1. /\ u \in Ops /\ u \in Artifacts /\ pc[u] = "saveMeta" /\ Born[u] # "absent"
      /\ meta' = [meta EXCEPT ![u] = Born[u]] /\ pc' = [pc EXCEPT ![u] = "done"]
      /\ UNCHANGED <<objects, hashes, hash, faults>>
  BY OpsAssumption, ArtifactsAssumption DEF UploadSaveMeta, Goto, Ops
<1>2. ASSUME NEW c, Kept(c) PROVE Kept(c)'
  BY <1>1, <1>2 DEF Kept, Stored, TypeOK
<1>3. Kept(ContentOf[u])'
  BY <1>1 DEF Kept, Stored, TypeOK
<1>4. u \notin Promotes /\ u \notin Removers
  BY OpsAssumption DEF Removers
<1>5. ASSUME NEW o \in Ops, NEW c, Owes(o, c), o # u PROVE Owes(o, c)'
  <2>1. pc'[o] = pc[o] /\ hashes'[o] = hashes[o] /\ hash'[o] = hash[o]
    BY <1>1, <1>5 DEF TypeOK
  <2> QED
    BY <1>5, <2>1 DEF Owes
<1>6. ASSUME NEW c, Owes(u, c) PROVE c = ContentOf[u]
  BY <1>4, <1>6 DEF Owes
<1> QED
  BY <1>1, <1>2, <1>3, <1>5, <1>6 DEF Owed

LEMMA OwedNext ==
  ASSUME TypeOK, Counted, Owed, [Next]_vars
  PROVE  Owed'
<1> USE OpsAssumption, ArtifactsAssumption, BoundAssumption
        DEF TypeOK, Counted, Owed, Owes, Kept, Stored, Goto, Return, Ops, Lockers,
            Removers, References, FirstStep
<1>1. ASSUME NEW u \in Uploads, UploadStat(u) PROVE Owed'
  BY <1>1 DEF UploadStat
<1>2. ASSUME NEW u \in Uploads, UploadRmObject(u) PROVE Owed'
  BY <1>2 DEF UploadRmObject
<1>3. ASSUME NEW u \in Uploads, UploadRenameObject(u) PROVE Owed'
  BY <1>3, RenameObjectOwed
<1>4. ASSUME NEW u \in Uploads, UploadSaveMeta(u) PROVE Owed'
  BY <1>4, SaveMetaOwed
<1>5. ASSUME NEW o \in Lockers, Enter(o) PROVE Owed'
  BY <1>5 DEF Enter
<1>6. ASSUME NEW o \in Promotes, PromoteReturn(o) PROVE Owed'
  BY <1>6 DEF PromoteReturn
<1>7. ASSUME NEW o \in Promotes, PromoteLoad(o) PROVE Owed'
  BY <1>7 DEF PromoteLoad
<1>8. ASSUME NEW o \in Promotes, PromoteRmMeta(o) PROVE Owed'
  BY <1>8 DEF PromoteRmMeta
<1>9. ASSUME NEW o \in Promotes, PromoteRenameMeta(o) PROVE Owed'
  BY <1>9 DEF PromoteRenameMeta
<1>10. ASSUME NEW o \in Cleanups, CleanupReaddir(o) PROVE Owed'
  BY <1>10 DEF CleanupReaddir
<1>11. ASSUME NEW o \in Cleanups, CleanupReadFile(o) PROVE Owed'
  BY <1>11 DEF CleanupReadFile
<1>12. ASSUME NEW o \in Cleanups, CleanupListed(o) PROVE Owed'
  BY <1>12 DEF CleanupListed
<1>13. ASSUME NEW o \in Deletes, DeleteMissing(o) PROVE Owed'
  BY <1>13 DEF DeleteMissing
<1>14. ASSUME NEW o \in Deletes, DeleteLoad(o) PROVE Owed'
  BY <1>14 DEF DeleteLoad
<1>15. ASSUME NEW o \in Removers, RmEntry(o) PROVE Owed'
  BY <1>15, RmEntryOwed
<1>16. ASSUME NEW o \in Removers, RmEntriesEnd(o) PROVE Owed'
  BY <1>16 DEF RmEntriesEnd
<1>17. ASSUME NEW o \in Removers, ScanReaddir(o) PROVE Owed'
  BY <1>17 DEF ScanReaddir
<1>18. ASSUME NEW o \in Removers, ScanFile(o) PROVE Owed'
  BY <1>18, ScanFileOwed
<1>19. ASSUME NEW o \in Removers, ScanUnreferenced(o) PROVE Owed'
  BY <1>19 DEF ScanUnreferenced
<1>20. ASSUME NEW o \in Removers, RmBytes(o) PROVE Owed'
  BY <1>20 DEF RmBytes
<1>21. ASSUME NEW o \in Removers, ScanEnd(o) PROVE Owed'
  BY <1>21 DEF ScanEnd
<1>22. ASSUME NEW o \in Ops, Fail(o) PROVE Owed'
  BY <1>22 DEF Fail
<1>23. CASE Crash
  BY <1>23 DEF Crash
<1>24. CASE UNCHANGED vars
  BY <1>24 DEF vars
<1>25. ASSUME NEW u \in Uploads, UploadStatFails(u) PROVE Owed'
  BY <1>25 DEF UploadStatFails
<1>26. ASSUME NEW o \in Cleanups, CleanupUnreadable(o) PROVE Owed'
  BY <1>26 DEF CleanupUnreadable
<1>27. ASSUME NEW o \in Removers, ScanUnreadable(o) PROVE Owed'
  BY <1>27 DEF ScanUnreadable
<1> QED
  BY StepIs, <1>1, <1>2, <1>3, <1>4, <1>5, <1>6, <1>7, <1>8, <1>9, <1>10, <1>11, <1>12,
     <1>13, <1>14, <1>15, <1>16, <1>17, <1>18, <1>19, <1>20, <1>21, <1>22, <1>23, <1>24,
     <1>25, <1>26, <1>27

\* Once nothing failed and no request is under way, every object on disk has an
\* artifact, however the removals of its last references met
\* (removeObjectWhenUnreferenced, workspaces.js:159).
THEOREM NothingOrphaned == Spec => []NoOrphanBytes
<1>1. Init => Counted /\ Owed
  <2>1. Init => Counted
    BY OpsAssumption DEF Init, Counted, FirstStep, Ops, Removers
  <2>2. Init => Owed
    BY OpsAssumption, ArtifactsAssumption DEF Init, Owed, Kept, Stored
  <2> QED
    BY <2>1, <2>2
<1>2. TypeOK /\ Owed => NoOrphanBytes
  <2> SUFFICES ASSUME TypeOK, Owed, faults = 0, NEW c \in objects,
                      \A o \in Ops : pc[o] \in {FirstStep(o), "done"}
               PROVE  Kept(c)
    BY DEF NoOrphanBytes, Kept
  <2>1. ASSUME NEW o \in Ops PROVE ~Owes(o, c)
    BY DEF Owes, FirstStep, Removers
  <2> QED
    BY <2>1 DEF Owed
<1> QED
  BY TypesInit, TypesNext, CountedNext, OwedNext, <1>1, <1>2, PTL DEF Spec

-----------------------------------------------------------------------------
(* Who has a metadata file has its bytes, where the lock covers it.          *)

\* The races that no lock orders are left out: an upload of bytes another
\* artifact has, a delete of an artifact with the bytes of one that is promoted,
\* and a cleanup of another workspace with such bytes.
Apart ==
  /\ \A u \in Uploads : \A a \in Artifacts \ {u} : ContentOf[a] # ContentOf[u]
  /\ \A p \in Promotes, d \in Deletes : ContentOf[Target[d]] # ContentOf[Target[p]]
  /\ \A p \in Promotes, o \in Cleanups, a \in Artifacts :
       SpaceOf[a] = Space[o] /\ ContentOf[a] = ContentOf[Target[p]] => Space[o] = LockOf(p)

\* Removal o counts the references of content c, or has still to.
Counts(o, c) ==
  \/ pc[o] \in {"rmEntries", "scan", "scanFiles", "rmBytes"} /\ c \in hashes[o]
  \/ pc[o] \in {"scanFiles", "rmBytes"} /\ hash[o] = c

\* Nobody counts the bytes of an upload that goes on.
Uncounted ==
  \A u \in Uploads : pc[u] # "done" => \A o \in Removers : ~Counts(o, ContentOf[u])

\* What is counted is of the artifact deleted, or of the workspace cleaned.
Origin ==
  /\ \A o \in Deletes : \A c \in Contents : Counts(o, c) => c = ContentOf[Target[o]]
  /\ \A o \in Cleanups : \A c \in Contents : Counts(o, c) =>
       \E a \in Artifacts : ContentOf[a] = c /\ SpaceOf[a] = Space[o]

\* Bytes are there before the metadata file is written.
Ready ==
  /\ \A u \in Uploads : pc[u] = "saveMeta" => ContentOf[u] \in objects
  /\ \A p \in Promotes : Rewrites(p) =>
       ContentOf[Target[p]] \in objects \/ Target[p] \in unread

\* A scan has still to read every file that names the bytes; past it there is none
\* that could be read.
Scanned ==
  \A o \in Removers, a \in Artifacts \ unread : Stored(a) /\ ContentOf[a] = hash[o] =>
    /\ pc[o] # "rmBytes"
    /\ pc[o] = "scanFiles" => a \in names[o]

BackedInv == BytesBacked /\ Uncounted /\ Origin /\ Ready /\ Scanned

LEMMA BackedInit == Init => BackedInv
BY OpsAssumption, ArtifactsAssumption
   DEF Init, BackedInv, BytesBacked, Uncounted, Origin, Ready, Scanned, Counts, Rewrites, Stored,
       FirstStep, Ops, Lockers, Removers

\* Whoever counts the bytes of an artifact that is being promoted waits for it.
LEMMA NotCounted ==
  ASSUME TypeOK, KeepInv, Apart, Origin,
         NEW p \in Promotes, Rewrites(p), NEW o \in Removers
  PROVE  ~Counts(o, ContentOf[Target[p]])
<1> USE OpsAssumption, ArtifactsAssumption
<1> DEFINE c == ContentOf[Target[p]]
<1> SUFFICES ASSUME Counts(o, c) PROVE FALSE
  OBVIOUS
<1>1. c \in Contents
  OBVIOUS
<1>2. CASE o \in Deletes
  BY <1>1, <1>2 DEF Origin, Apart
<1>3. CASE o \in Cleanups
  <2>1. PICK a \in Artifacts : ContentOf[a] = c /\ SpaceOf[a] = Space[o]
    BY <1>1, <1>3 DEF Origin
  <2>2. LockOf(o) = LockOf(p)
    BY <1>3, <2>1 DEF Apart, LockOf
  <2>3. pc[o] \in Inside /\ pc[p] \in Inside
    BY DEF Counts, Rewrites, Inside
  <2>4. Holds(o) /\ Holds(p)
    BY <1>3, <2>3 DEF KeepInv, LockInv, Lockers
  <2> QED
    BY <1>3, <2>2, <2>4 DEF Holds
<1> QED
  BY <1>2, <1>3 DEF Removers

LEMMA UncountedNext ==
  ASSUME TypeOK, KeepInv, Apart, BackedInv, [Next]_vars
  PROVE  Uncounted'
<1> USE OpsAssumption, ArtifactsAssumption
        DEF TypeOK, KeepInv, Apart, BackedInv, Unborn, Uncounted, Counts, Removes,
            Goto, Return, Ops, Lockers, Removers, FirstStep, References, Stored
<1>1. ASSUME NEW u \in Uploads, UploadStat(u) PROVE Uncounted'
  BY <1>1 DEF UploadStat
<1>2. ASSUME NEW u \in Uploads, UploadRmObject(u) PROVE Uncounted'
  BY <1>2 DEF UploadRmObject
<1>3. ASSUME NEW u \in Uploads, UploadRenameObject(u) PROVE Uncounted'
  BY <1>3 DEF UploadRenameObject
<1>4. ASSUME NEW u \in Uploads, UploadSaveMeta(u) PROVE Uncounted'
  BY <1>4 DEF UploadSaveMeta
<1>5. ASSUME NEW o \in Lockers, Enter(o) PROVE Uncounted'
  BY <1>5 DEF Enter
<1>6. ASSUME NEW o \in Promotes, PromoteReturn(o) PROVE Uncounted'
  BY <1>6 DEF PromoteReturn
<1>7. ASSUME NEW o \in Promotes, PromoteLoad(o) PROVE Uncounted'
  BY <1>7 DEF PromoteLoad
<1>8. ASSUME NEW o \in Promotes, PromoteRmMeta(o) PROVE Uncounted'
  BY <1>8 DEF PromoteRmMeta
<1>9. ASSUME NEW o \in Promotes, PromoteRenameMeta(o) PROVE Uncounted'
  BY <1>9 DEF PromoteRenameMeta
<1>10. ASSUME NEW o \in Cleanups, CleanupReaddir(o) PROVE Uncounted'
  BY <1>10 DEF CleanupReaddir
<1>11. ASSUME NEW o \in Cleanups, CleanupReadFile(o) PROVE Uncounted'
  BY <1>11 DEF CleanupReadFile
<1>12. ASSUME NEW o \in Cleanups, CleanupListed(o) PROVE Uncounted'
  BY <1>12 DEF CleanupListed
<1>13. ASSUME NEW o \in Deletes, DeleteMissing(o) PROVE Uncounted'
  BY <1>13 DEF DeleteMissing
<1>14. ASSUME NEW o \in Deletes, DeleteLoad(o) PROVE Uncounted'
  BY <1>14 DEF DeleteLoad
<1>15. ASSUME NEW o \in Removers, RmEntry(o) PROVE Uncounted'
  BY <1>15 DEF RmEntry
<1>16. ASSUME NEW o \in Removers, RmEntriesEnd(o) PROVE Uncounted'
  BY <1>16 DEF RmEntriesEnd
<1>17. ASSUME NEW o \in Removers, ScanReaddir(o) PROVE Uncounted'
  BY <1>17 DEF ScanReaddir
<1>18. ASSUME NEW o \in Removers, ScanFile(o) PROVE Uncounted'
  BY <1>18 DEF ScanFile
<1>19. ASSUME NEW o \in Removers, ScanUnreferenced(o) PROVE Uncounted'
  BY <1>19 DEF ScanUnreferenced
<1>20. ASSUME NEW o \in Removers, RmBytes(o) PROVE Uncounted'
  BY <1>20 DEF RmBytes
<1>21. ASSUME NEW o \in Removers, ScanEnd(o) PROVE Uncounted'
  BY <1>21 DEF ScanEnd
<1>22. ASSUME NEW o \in Ops, Fail(o) PROVE Uncounted'
  BY <1>22 DEF Fail
<1>23. CASE Crash
  BY <1>23 DEF Crash
<1>24. CASE UNCHANGED vars
  BY <1>24 DEF vars
<1>25. ASSUME NEW u \in Uploads, UploadStatFails(u) PROVE Uncounted'
  BY <1>25 DEF UploadStatFails
<1>26. ASSUME NEW o \in Cleanups, CleanupUnreadable(o) PROVE Uncounted'
  BY <1>26 DEF CleanupUnreadable
<1>27. ASSUME NEW o \in Removers, ScanUnreadable(o) PROVE Uncounted'
  BY <1>27 DEF ScanUnreadable
<1> QED
  BY StepIs, <1>1, <1>2, <1>3, <1>4, <1>5, <1>6, <1>7, <1>8, <1>9, <1>10, <1>11, <1>12,
     <1>13, <1>14, <1>15, <1>16, <1>17, <1>18, <1>19, <1>20, <1>21, <1>22, <1>23, <1>24,
     <1>25, <1>26, <1>27

LEMMA OriginNext ==
  ASSUME TypeOK, KeepInv, Apart, BackedInv, [Next]_vars
  PROVE  Origin'
<1> USE OpsAssumption, ArtifactsAssumption
        DEF TypeOK, KeepInv, BackedInv, Listed, Origin, Counts, Removes, Goto, Return,
            Ops, Lockers, Removers, FirstStep, References, Stored
<1>1. ASSUME NEW u \in Uploads, UploadStat(u) PROVE Origin'
  BY <1>1 DEF UploadStat
<1>2. ASSUME NEW u \in Uploads, UploadRmObject(u) PROVE Origin'
  BY <1>2 DEF UploadRmObject
<1>3. ASSUME NEW u \in Uploads, UploadRenameObject(u) PROVE Origin'
  BY <1>3 DEF UploadRenameObject
<1>4. ASSUME NEW u \in Uploads, UploadSaveMeta(u) PROVE Origin'
  BY <1>4 DEF UploadSaveMeta
<1>5. ASSUME NEW o \in Lockers, Enter(o) PROVE Origin'
  BY <1>5 DEF Enter
<1>6. ASSUME NEW o \in Promotes, PromoteReturn(o) PROVE Origin'
  BY <1>6 DEF PromoteReturn
<1>7. ASSUME NEW o \in Promotes, PromoteLoad(o) PROVE Origin'
  BY <1>7 DEF PromoteLoad
<1>8. ASSUME NEW o \in Promotes, PromoteRmMeta(o) PROVE Origin'
  BY <1>8 DEF PromoteRmMeta
<1>9. ASSUME NEW o \in Promotes, PromoteRenameMeta(o) PROVE Origin'
  BY <1>9 DEF PromoteRenameMeta
<1>10. ASSUME NEW o \in Cleanups, CleanupReaddir(o) PROVE Origin'
  BY <1>10 DEF CleanupReaddir
<1>11. ASSUME NEW o \in Cleanups, CleanupReadFile(o) PROVE Origin'
  BY <1>11 DEF CleanupReadFile
<1>12. ASSUME NEW o \in Cleanups, CleanupListed(o) PROVE Origin'
  BY <1>12 DEF CleanupListed
<1>13. ASSUME NEW o \in Deletes, DeleteMissing(o) PROVE Origin'
  BY <1>13 DEF DeleteMissing
<1>14. ASSUME NEW o \in Deletes, DeleteLoad(o) PROVE Origin'
  BY <1>14 DEF DeleteLoad
<1>15. ASSUME NEW o \in Removers, RmEntry(o) PROVE Origin'
  BY <1>15 DEF RmEntry
<1>16. ASSUME NEW o \in Removers, RmEntriesEnd(o) PROVE Origin'
  BY <1>16 DEF RmEntriesEnd
<1>17. ASSUME NEW o \in Removers, ScanReaddir(o) PROVE Origin'
  BY <1>17 DEF ScanReaddir
<1>18. ASSUME NEW o \in Removers, ScanFile(o) PROVE Origin'
  BY <1>18 DEF ScanFile
<1>19. ASSUME NEW o \in Removers, ScanUnreferenced(o) PROVE Origin'
  BY <1>19 DEF ScanUnreferenced
<1>20. ASSUME NEW o \in Removers, RmBytes(o) PROVE Origin'
  BY <1>20 DEF RmBytes
<1>21. ASSUME NEW o \in Removers, ScanEnd(o) PROVE Origin'
  BY <1>21 DEF ScanEnd
<1>22. ASSUME NEW o \in Ops, Fail(o) PROVE Origin'
  BY <1>22 DEF Fail
<1>23. CASE Crash
  BY <1>23 DEF Crash
<1>24. CASE UNCHANGED vars
  BY <1>24 DEF vars
<1>25. ASSUME NEW u \in Uploads, UploadStatFails(u) PROVE Origin'
  BY <1>25 DEF UploadStatFails
<1>26. ASSUME NEW o \in Cleanups, CleanupUnreadable(o) PROVE Origin'
  BY <1>26 DEF CleanupUnreadable
<1>27. ASSUME NEW o \in Removers, ScanUnreadable(o) PROVE Origin'
  BY <1>27 DEF ScanUnreadable
<1> QED
  BY StepIs, <1>1, <1>2, <1>3, <1>4, <1>5, <1>6, <1>7, <1>8, <1>9, <1>10, <1>11, <1>12,
     <1>13, <1>14, <1>15, <1>16, <1>17, <1>18, <1>19, <1>20, <1>21, <1>22, <1>23, <1>24,
     <1>25, <1>26, <1>27

LEMMA RmBytesReady ==
  ASSUME TypeOK, KeepInv, Apart, BackedInv, NEW o \in Removers, RmBytes(o)
  PROVE  Ready'
<1> USE OpsAssumption
<1>1. /\ Counts(o, hash[o]) /\ objects' = objects \ {hash[o]}
      /\ meta' = meta /\ unread' = unread
  BY DEF RmBytes, Counts
<1>2. ASSUME NEW q \in Ops, q # o PROVE pc'[q] = pc[q]
  BY <1>2 DEF RmBytes, Goto, TypeOK, Ops, Removers
<1>3. ASSUME NEW u \in Uploads, pc'[u] = "saveMeta"
      PROVE  ContentOf[u] \in objects'
  BY <1>1, <1>2, <1>3 DEF BackedInv, Ready, Uncounted, Ops, Removers
<1>4. ASSUME NEW p \in Promotes, Rewrites(p)'
      PROVE  ContentOf[Target[p]] \in objects' \/ Target[p] \in unread'
  <2>1. Rewrites(p)
    BY <1>2, <1>4 DEF Rewrites, Ops, Removers
  <2>2. ContentOf[Target[p]] # hash[o]
    BY <1>1, <2>1, NotCounted DEF BackedInv
  <2> QED
    BY <1>1, <2>1, <2>2 DEF BackedInv, Ready
<1> QED
  BY <1>3, <1>4 DEF Ready

LEMMA RmObjectReady ==
  ASSUME TypeOK, KeepInv, Apart, BackedInv, NEW u \in Uploads, UploadRmObject(u)
  PROVE  Ready'
<1> USE OpsAssumption, ArtifactsAssumption
<1>1. /\ pc[u] = "rmObject" /\ pc' = [pc EXCEPT ![u] = "renameObject"]
      /\ objects' = objects \ {ContentOf[u]} /\ unread' = unread
  BY DEF UploadRmObject, Goto
<1>2. ASSUME NEW v \in Uploads, pc'[v] = "saveMeta"
      PROVE  ContentOf[v] \in objects'
  <2>1. v # u /\ pc[v] = "saveMeta"
    BY <1>1, <1>2 DEF TypeOK, Ops
  <2>2. ContentOf[v] # ContentOf[u]
    BY <2>1 DEF Apart
  <2> QED
    BY <1>1, <2>1, <2>2 DEF BackedInv, Ready
<1>3. ASSUME NEW p \in Promotes, Rewrites(p)'
      PROVE  ContentOf[Target[p]] \in objects' \/ Target[p] \in unread'
  <2>1. Rewrites(p)
    BY <1>1, <1>3 DEF Rewrites, TypeOK, Ops
  <2>2. Target[p] # u /\ Target[p] \in Artifacts
    BY <1>1, <2>1 DEF KeepInv, Unborn
  <2>3. ContentOf[Target[p]] # ContentOf[u]
    BY <2>2 DEF Apart
  <2> QED
    BY <1>1, <2>1, <2>3 DEF BackedInv, Ready
<1> QED
  BY <1>2, <1>3 DEF Ready

LEMMA ReadyNext ==
  ASSUME TypeOK, KeepInv, Apart, BackedInv, [Next]_vars
  PROVE  Ready'
<1> USE OpsAssumption, ArtifactsAssumption
        DEF TypeOK, KeepInv, Apart, BackedInv, BytesBacked, Unborn, Uncounted, Ready,
            Rewrites, Counts, Goto, Return, Ops, Lockers, Removers, FirstStep,
            References, Stored
<1>1. ASSUME NEW u \in Uploads, UploadStat(u) PROVE Ready'
  BY <1>1 DEF UploadStat
<1>2. ASSUME NEW u \in Uploads, UploadRmObject(u) PROVE Ready'
  BY <1>2, RmObjectReady
<1>3. ASSUME NEW u \in Uploads, UploadRenameObject(u) PROVE Ready'
  BY <1>3 DEF UploadRenameObject
<1>4. ASSUME NEW u \in Uploads, UploadSaveMeta(u) PROVE Ready'
  BY <1>4 DEF UploadSaveMeta
<1>5. ASSUME NEW o \in Lockers, Enter(o) PROVE Ready'
  BY <1>5 DEF Enter
<1>6. ASSUME NEW o \in Promotes, PromoteReturn(o) PROVE Ready'
  BY <1>6 DEF PromoteReturn
<1>7. ASSUME NEW o \in Promotes, PromoteLoad(o) PROVE Ready'
  BY <1>7 DEF PromoteLoad
<1>8. ASSUME NEW o \in Promotes, PromoteRmMeta(o) PROVE Ready'
  BY <1>8 DEF PromoteRmMeta
<1>9. ASSUME NEW o \in Promotes, PromoteRenameMeta(o) PROVE Ready'
  BY <1>9 DEF PromoteRenameMeta
<1>10. ASSUME NEW o \in Cleanups, CleanupReaddir(o) PROVE Ready'
  BY <1>10 DEF CleanupReaddir
<1>11. ASSUME NEW o \in Cleanups, CleanupReadFile(o) PROVE Ready'
  BY <1>11 DEF CleanupReadFile
<1>12. ASSUME NEW o \in Cleanups, CleanupListed(o) PROVE Ready'
  BY <1>12 DEF CleanupListed
<1>13. ASSUME NEW o \in Deletes, DeleteMissing(o) PROVE Ready'
  BY <1>13 DEF DeleteMissing
<1>14. ASSUME NEW o \in Deletes, DeleteLoad(o) PROVE Ready'
  BY <1>14 DEF DeleteLoad
<1>15. ASSUME NEW o \in Removers, RmEntry(o) PROVE Ready'
  BY <1>15 DEF RmEntry
<1>16. ASSUME NEW o \in Removers, RmEntriesEnd(o) PROVE Ready'
  BY <1>16 DEF RmEntriesEnd
<1>17. ASSUME NEW o \in Removers, ScanReaddir(o) PROVE Ready'
  BY <1>17 DEF ScanReaddir
<1>18. ASSUME NEW o \in Removers, ScanFile(o) PROVE Ready'
  BY <1>18 DEF ScanFile
<1>19. ASSUME NEW o \in Removers, ScanUnreferenced(o) PROVE Ready'
  BY <1>19 DEF ScanUnreferenced
<1>20. ASSUME NEW o \in Removers, RmBytes(o) PROVE Ready'
  BY <1>20, RmBytesReady
<1>21. ASSUME NEW o \in Removers, ScanEnd(o) PROVE Ready'
  BY <1>21 DEF ScanEnd
<1>22. ASSUME NEW o \in Ops, Fail(o) PROVE Ready'
  BY <1>22 DEF Fail
<1>23. CASE Crash
  BY <1>23 DEF Crash
<1>24. CASE UNCHANGED vars
  BY <1>24 DEF vars
<1>25. ASSUME NEW u \in Uploads, UploadStatFails(u) PROVE Ready'
  BY <1>25 DEF UploadStatFails
<1>26. ASSUME NEW o \in Cleanups, CleanupUnreadable(o) PROVE Ready'
  BY <1>26 DEF CleanupUnreadable
<1>27. ASSUME NEW o \in Removers, ScanUnreadable(o) PROVE Ready'
  BY <1>27 DEF ScanUnreadable
<1> QED
  BY StepIs, <1>1, <1>2, <1>3, <1>4, <1>5, <1>6, <1>7, <1>8, <1>9, <1>10, <1>11, <1>12,
     <1>13, <1>14, <1>15, <1>16, <1>17, <1>18, <1>19, <1>20, <1>21, <1>22, <1>23, <1>24,
     <1>25, <1>26, <1>27

LEMMA BytesNext ==
  ASSUME TypeOK, KeepInv, Apart, BackedInv, [Next]_vars
  PROVE  BytesBacked'
<1> USE OpsAssumption, ArtifactsAssumption
        DEF TypeOK, KeepInv, Apart, BackedInv, BytesBacked, Unborn, Ready, Scanned,
            Rewrites, Goto, Return, Ops, Lockers, Removers, FirstStep, References,
            Stored
<1>1. ASSUME NEW u \in Uploads, UploadStat(u) PROVE BytesBacked'
  BY <1>1 DEF UploadStat
<1>2. ASSUME NEW u \in Uploads, UploadRmObject(u) PROVE BytesBacked'
  BY <1>2 DEF UploadRmObject
<1>3. ASSUME NEW u \in Uploads, UploadRenameObject(u) PROVE BytesBacked'
  BY <1>3 DEF UploadRenameObject
<1>4. ASSUME NEW u \in Uploads, UploadSaveMeta(u) PROVE BytesBacked'
  BY <1>4 DEF UploadSaveMeta
<1>5. ASSUME NEW o \in Lockers, Enter(o) PROVE BytesBacked'
  BY <1>5 DEF Enter
<1>6. ASSUME NEW o \in Promotes, PromoteReturn(o) PROVE BytesBacked'
  BY <1>6 DEF PromoteReturn
<1>7. ASSUME NEW o \in Promotes, PromoteLoad(o) PROVE BytesBacked'
  BY <1>7 DEF PromoteLoad
<1>8. ASSUME NEW o \in Promotes, PromoteRmMeta(o) PROVE BytesBacked'
  BY <1>8 DEF PromoteRmMeta
<1>9. ASSUME NEW o \in Promotes, PromoteRenameMeta(o) PROVE BytesBacked'
  BY <1>9 DEF PromoteRenameMeta
<1>10. ASSUME NEW o \in Cleanups, CleanupReaddir(o) PROVE BytesBacked'
  BY <1>10 DEF CleanupReaddir
<1>11. ASSUME NEW o \in Cleanups, CleanupReadFile(o) PROVE BytesBacked'
  BY <1>11 DEF CleanupReadFile
<1>12. ASSUME NEW o \in Cleanups, CleanupListed(o) PROVE BytesBacked'
  BY <1>12 DEF CleanupListed
<1>13. ASSUME NEW o \in Deletes, DeleteMissing(o) PROVE BytesBacked'
  BY <1>13 DEF DeleteMissing
<1>14. ASSUME NEW o \in Deletes, DeleteLoad(o) PROVE BytesBacked'
  BY <1>14 DEF DeleteLoad
<1>15. ASSUME NEW o \in Removers, RmEntry(o) PROVE BytesBacked'
  BY <1>15 DEF RmEntry
<1>16. ASSUME NEW o \in Removers, RmEntriesEnd(o) PROVE BytesBacked'
  BY <1>16 DEF RmEntriesEnd
<1>17. ASSUME NEW o \in Removers, ScanReaddir(o) PROVE BytesBacked'
  BY <1>17 DEF ScanReaddir
<1>18. ASSUME NEW o \in Removers, ScanFile(o) PROVE BytesBacked'
  BY <1>18 DEF ScanFile
<1>19. ASSUME NEW o \in Removers, ScanUnreferenced(o) PROVE BytesBacked'
  BY <1>19 DEF ScanUnreferenced
<1>20. ASSUME NEW o \in Removers, RmBytes(o) PROVE BytesBacked'
  BY <1>20 DEF RmBytes
<1>21. ASSUME NEW o \in Removers, ScanEnd(o) PROVE BytesBacked'
  BY <1>21 DEF ScanEnd
<1>22. ASSUME NEW o \in Ops, Fail(o) PROVE BytesBacked'
  BY <1>22 DEF Fail
<1>23. CASE Crash
  BY <1>23 DEF Crash
<1>24. CASE UNCHANGED vars
  BY <1>24 DEF vars
<1>25. ASSUME NEW u \in Uploads, UploadStatFails(u) PROVE BytesBacked'
  BY <1>25 DEF UploadStatFails
<1>26. ASSUME NEW o \in Cleanups, CleanupUnreadable(o) PROVE BytesBacked'
  BY <1>26 DEF CleanupUnreadable
<1>27. ASSUME NEW o \in Removers, ScanUnreadable(o) PROVE BytesBacked'
  BY <1>27 DEF ScanUnreadable
<1> QED
  BY StepIs, <1>1, <1>2, <1>3, <1>4, <1>5, <1>6, <1>7, <1>8, <1>9, <1>10, <1>11, <1>12,
     <1>13, <1>14, <1>15, <1>16, <1>17, <1>18, <1>19, <1>20, <1>21, <1>22, <1>23, <1>24,
     <1>25, <1>26, <1>27

LEMMA RenameScanned ==
  ASSUME TypeOK, KeepInv, Apart, BackedInv, NEW p \in Promotes, PromoteRenameMeta(p)
  PROVE  Scanned'
<1> USE OpsAssumption
<1> SUFFICES ASSUME NEW o \in Removers, NEW a \in Artifacts, a \notin unread',
                      Stored(a)', ContentOf[a] = hash'[o]
             PROVE  /\ pc'[o] # "rmBytes"
                    /\ pc'[o] = "scanFiles" => a \in names'[o]
  BY DEF Scanned
<1>1. /\ p \in Ops /\ o \in Ops /\ o # p /\ Target[p] \in Artifacts
      /\ pc'[o] = pc[o] /\ hash'[o] = hash[o] /\ names'[o] = names[o] /\ a \notin unread
      /\ a # Target[p] => Stored(a)
  BY DEF PromoteRenameMeta, Return, Goto, TypeOK, Ops, Removers, Stored
<1>2. CASE a = Target[p]
  <2>1. Rewrites(p)
    BY DEF PromoteRenameMeta, Rewrites
  <2>2. ~Counts(o, ContentOf[Target[p]])
    BY <2>1, NotCounted DEF BackedInv
  <2> QED
    BY <1>1, <1>2, <2>2 DEF Counts
<1>3. CASE a # Target[p]
  BY <1>1, <1>3 DEF BackedInv, Scanned
<1> QED
  BY <1>2, <1>3

LEMMA ScanFileScanned ==
  ASSUME TypeOK, BackedInv, NEW r \in Removers, ScanFile(r)
  PROVE  Scanned'
<1> SUFFICES ASSUME NEW o \in Removers, NEW a \in Artifacts, a \notin unread',
                    Stored(a)', ContentOf[a] = hash'[o]
             PROVE  /\ pc'[o] # "rmBytes"
                    /\ pc'[o] = "scanFiles" => a \in names'[o]
  BY DEF Scanned
<1>1. UNCHANGED <<meta, hash, unread>>
  BY ScanFileIs
<1>2. /\ pc[o] # "rmBytes"
      /\ pc[o] = "scanFiles" => a \in names[o]
  BY <1>1 DEF BackedInv, Scanned, Stored
<1>3. CASE o # r
  BY <1>2, <1>3, ScanFileIs DEF Ops, Removers
<1>4. CASE o = r
  <2>1. PICK b \in names[r] :
          \/ pc'[r] = "scan"
          \/ ~Stored(b) /\ pc'[r] = "scanFiles" /\ names'[r] = names[r] \ {b}
    BY ScanFileIs
  <2>2. pc[r] = "scanFiles" /\ Stored(a)
    BY <1>1, ScanFileIs DEF Stored
  <2> QED
    BY <1>2, <1>4, <2>1, <2>2
<1> QED
  BY <1>3, <1>4

LEMMA ScannedNext ==
  ASSUME TypeOK, KeepInv, Apart, BackedInv, [Next]_vars
  PROVE  Scanned'
<1> USE OpsAssumption, ArtifactsAssumption
        DEF TypeOK, KeepInv, Apart, BackedInv, Uncounted, Scanned, Counts, Rewrites,
            Goto, Return, Ops, Lockers, Removers, FirstStep, References, Stored
<1>1. ASSUME NEW u \in Uploads, UploadStat(u) PROVE Scanned'
  BY <1>1 DEF UploadStat
<1>2. ASSUME NEW u \in Uploads, UploadRmObject(u) PROVE Scanned'
  BY <1>2 DEF UploadRmObject
<1>3. ASSUME NEW u \in Uploads, UploadRenameObject(u) PROVE Scanned'
  BY <1>3 DEF UploadRenameObject
<1>4. ASSUME NEW u \in Uploads, UploadSaveMeta(u) PROVE Scanned'
  BY <1>4 DEF UploadSaveMeta
<1>5. ASSUME NEW o \in Lockers, Enter(o) PROVE Scanned'
  BY <1>5 DEF Enter
<1>6. ASSUME NEW o \in Promotes, PromoteReturn(o) PROVE Scanned'
  BY <1>6 DEF PromoteReturn
<1>7. ASSUME NEW o \in Promotes, PromoteLoad(o) PROVE Scanned'
  BY <1>7 DEF PromoteLoad
<1>8. ASSUME NEW o \in Promotes, PromoteRmMeta(o) PROVE Scanned'
  BY <1>8 DEF PromoteRmMeta
<1>9. ASSUME NEW o \in Promotes, PromoteRenameMeta(o) PROVE Scanned'
  BY <1>9, RenameScanned
<1>10. ASSUME NEW o \in Cleanups, CleanupReaddir(o) PROVE Scanned'
  BY <1>10 DEF CleanupReaddir
<1>11. ASSUME NEW o \in Cleanups, CleanupReadFile(o) PROVE Scanned'
  BY <1>11 DEF CleanupReadFile
<1>12. ASSUME NEW o \in Cleanups, CleanupListed(o) PROVE Scanned'
  BY <1>12 DEF CleanupListed
<1>13. ASSUME NEW o \in Deletes, DeleteMissing(o) PROVE Scanned'
  BY <1>13 DEF DeleteMissing
<1>14. ASSUME NEW o \in Deletes, DeleteLoad(o) PROVE Scanned'
  BY <1>14 DEF DeleteLoad
<1>15. ASSUME NEW o \in Removers, RmEntry(o) PROVE Scanned'
  BY <1>15 DEF RmEntry
<1>16. ASSUME NEW o \in Removers, RmEntriesEnd(o) PROVE Scanned'
  BY <1>16 DEF RmEntriesEnd
<1>17. ASSUME NEW o \in Removers, ScanReaddir(o) PROVE Scanned'
  BY <1>17 DEF ScanReaddir
<1>18. ASSUME NEW o \in Removers, ScanFile(o) PROVE Scanned'
  BY <1>18, ScanFileScanned
<1>19. ASSUME NEW o \in Removers, ScanUnreferenced(o) PROVE Scanned'
  BY <1>19 DEF ScanUnreferenced
<1>20. ASSUME NEW o \in Removers, RmBytes(o) PROVE Scanned'
  BY <1>20 DEF RmBytes
<1>21. ASSUME NEW o \in Removers, ScanEnd(o) PROVE Scanned'
  BY <1>21 DEF ScanEnd
<1>22. ASSUME NEW o \in Ops, Fail(o) PROVE Scanned'
  BY <1>22 DEF Fail
<1>23. CASE Crash
  BY <1>23 DEF Crash
<1>24. CASE UNCHANGED vars
  BY <1>24 DEF vars
<1>25. ASSUME NEW u \in Uploads, UploadStatFails(u) PROVE Scanned'
  BY <1>25 DEF UploadStatFails
<1>26. ASSUME NEW o \in Cleanups, CleanupUnreadable(o) PROVE Scanned'
  BY <1>26 DEF CleanupUnreadable
<1>27. ASSUME NEW o \in Removers, ScanUnreadable(o) PROVE Scanned'
  BY <1>27 DEF ScanUnreadable
<1> QED
  BY StepIs, <1>1, <1>2, <1>3, <1>4, <1>5, <1>6, <1>7, <1>8, <1>9, <1>10, <1>11, <1>12,
     <1>13, <1>14, <1>15, <1>16, <1>17, <1>18, <1>19, <1>20, <1>21, <1>22, <1>23, <1>24,
     <1>25, <1>26, <1>27

\* While the races of Apart do not occur, an artifact with a metadata file has
\* its bytes, shared bytes included, whatever interleaves, fails or restarts, or
\* its own metadata file could not be read while references were counted
\* (readAllMetadata, workspaces.js:99).
THEOREM BytesOfEveryArtifact ==
  ASSUME Apart
  PROVE  Spec => []BytesBacked
<1>1. BackedInv => BytesBacked
  BY DEF BackedInv
<1>2. TypeOK /\ KeepInv /\ BackedInv /\ [Next]_vars => BackedInv'
  BY UncountedNext, OriginNext, ReadyNext, BytesNext, ScannedNext DEF BackedInv
<1> QED
  BY TypesInit, TypesNext, KeepInit, KeepNext, BackedInit, <1>1, <1>2, PTL DEF Spec
=============================================================================
