------------------------ MODULE ImportTransactionProofs ------------------------
(***************************************************************************)
(* Proofs about ImportTransaction for any number of imports, kills and     *)
(* failing system calls, where a lock file can always be initialised       *)
(* (LockMayFail is FALSE: with it the lock is not exclusive, which the run *)
(* MCImportLock shows).  That an import takes a bounded number of steps    *)
(* needs no exclusion and is proved without that assumption.               *)
(***************************************************************************)
EXTENDS ImportTransaction, TLAPS

-----------------------------------------------------------------------------
(* The inductive invariant.                                                *)

\* Every process that has looked saw the one lock file there ever is, and who
\* is past it holds its lock.
LocksAgree ==
  \A i \in Imports :
    /\ pc[i] # "start" => lock_path \in Imports /\ fd[i] = lock_path
    /\ pc[i] \in Critical => lock_held[lock_path] = i

\* What kills and failures leave: a backup only together with its journal, and
\* never without a whole run at one of the two places.
StoreSound ==
  /\ dir[Target] # "partial"
  /\ \A i \in Imports : Exists(Backup(i)) => journal.owner = i
  /\ \A i \in Imports : journal.owner = i =>
       /\ Exists(Target) \/ Exists(Backup(i))
       /\ dir[Backup(i)] = "partial" => journal.phase = "committed" /\ Exists(Target)
       /\ journal.phase = "prepared" => ~Exists(Target) \/ ~Exists(Backup(i))

\* Whose transaction the journal is, and in which phase.
JournalOf(i) ==
  /\ pc[i] \in Staged => journal = NoJournal
  /\ pc[i] \in (Recovering \ {"recover"}) \cup RollingBack =>
       tx[i] \in Imports /\ journal.owner = tx[i]
  /\ pc[i] \in Recovering \ {"recover"} => tx[i] # i
  /\ pc[i] \in Swapping \cup (Finishing \ {"cleanup"}) => tx[i] = i /\ journal.owner = i
  /\ pc[i] \in {"swap_out", "mark_backed_up"} => journal.phase = "prepared"
  /\ pc[i] \in {"swap_in", "mark_committed"} => journal.phase = "backed_up"
  /\ pc[i] \in {"drop_backup", "drop_journal", "rc_backup"} => journal.phase = "committed"
  /\ pc[i] \in Locking \cup Recovering => journal.owner # i
  /\ pc[i] \in Locking \cup {"recover"} => tx[i] = Nobody

\* Where the run is, by the place of the process that has the lock.
RunPresent == {"prepare", "swap_out", "mark_committed", "drop_backup", "drop_journal",
               "rc_backup", "rc_staging", "rc_unlink", "rb_clear", "rb_aside",
               "rb_discard", "rb_done", "ab_unlink"}

RunAbsent == {"mark_backed_up", "swap_in", "rb_restore", "rb_only"}

BackupPresent == {"mark_backed_up", "swap_in", "mark_committed", "rb_clear", "rb_aside",
                  "rb_restore", "rb_only"}

BackupAbsent == {"swap_out", "drop_journal", "rc_staging", "rc_unlink", "rb_discard",
                 "rb_done", "ab_unlink"}

StagingWhole == {"publish", "install", "prepare", "swap_out", "mark_backed_up", "swap_in"}

PlacesOf(i) ==
  /\ pc[i] \in RunPresent => Exists(Target)
  /\ pc[i] \in RunAbsent => ~Exists(Target)
  /\ pc[i] \in BackupPresent => Exists(Backup(tx[i]))
  /\ pc[i] \in BackupAbsent => ~Exists(Backup(tx[i]))
  /\ pc[i] \in RollingBack => dir[Backup(tx[i])] # "partial"
  /\ pc[i] \in StagingWhole => dir[Staging(i)] = i
  /\ pc[i] \in {"rc_unlink", "check"} /\ tx[i] # Nobody => ~Exists(Staging(tx[i]))

\* Which version is where.
VersionOf(i) ==
  /\ pc[i] \in Recovering \cup Staged \cup Swapping => Recoverable = before
  /\ pc[i] \in RollingBack =>
       IF Exists(Backup(tx[i])) THEN dir[Backup(tx[i])] = before ELSE dir[Target] = before
  /\ pc[i] \in RollingBack /\ journal.phase = "committed"
       /\ Exists(Target) /\ Exists(Backup(tx[i])) => tx[i] = i /\ dir[Target] = i
  /\ pc[i] \in {"mark_committed", "drop_backup", "drop_journal"} => dir[Target] = i
  /\ pc[i] = "ab_unlink" => dir[Target] = before

IInv ==
  /\ TypeOK
  /\ LocksAgree
  /\ StoreSound
  /\ \A i \in Imports : JournalOf(i)
  /\ \A i \in Imports : PlacesOf(i)
  /\ \A i \in Imports : VersionOf(i)

\* Without kills and failures there is no journal or directory but of the
\* process that is at work on it.
Undisturbed == faults = 0 /\ \A i \in Imports : pc[i] # "crashed"

AtWork(i) ==
  /\ pc[i] \notin RollingBack \cup {"ab_unlink"}
  /\ journal.owner = i => pc[i] \in Swapping \cup {"drop_backup", "drop_journal"}
  /\ Exists(Staging(i)) => pc[i] \in StagingWhole \cup {"stage_write", "cleanup"}

OwnersAtWork == Undisturbed => \A i \in Imports : AtWork(i)

\* With at most one failing call no rollback fails.
RollbackAfterFault ==
  \A i \in Imports :
    /\ pc[i] \in RollingBack /\ tx[i] = i => faults > 0
    /\ pc[i] = "ab_unlink" => faults > 0

FailedIsUndone ==
  \A i \in Imports : pc[i] = "cleanup" => Recoverable = before

-----------------------------------------------------------------------------
(* Names, and the calls that change a directory.                           *)

\* Target, staging and backup directories have names of their own.
LEMMA NamesDiffer ==
  /\ Target \in Names
  /\ \A i \in Imports :
       /\ Staging(i) \in Names
       /\ Backup(i) \in Names
       /\ Staging(i) # Target
       /\ Backup(i) # Target
  /\ \A i, j \in Imports : Staging(i) # Backup(j)
  /\ \A i, j \in Imports : i # j => Staging(i) # Staging(j) /\ Backup(i) # Backup(j)
BY DEF Names, Target, Staging, Backup

\* Every directory a process names is one of the directories.
LEMMA OnlyNames ==
  ASSUME NEW n \in Names
  PROVE  n = Target \/ \E i \in Imports : n = Staging(i) \/ n = Backup(i)
BY DEF Names

USE DEF Locking, Recovering, RollingBack, Staged, Swapping, Finishing, Critical, Ended

\* Where a process goes is the only place that changes, and ending releases
\* what it holds and nothing else.
LEMMA GoEffect ==
  ASSUME TypeOK, NEW i \in Imports, NEW to, Go(i, to)
  PROVE  /\ pc' = [pc EXCEPT ![i] = to]
         /\ pc'[i] = to
         /\ \A j \in Imports : j # i => pc'[j] = pc[j]
         /\ lock_held' \in [Imports -> Imports \cup {Nobody}]
         /\ \A l \in Imports : lock_held[l] # i => lock_held'[l] = lock_held[l]
         /\ to \notin Ended => lock_held' = lock_held
BY DEF TypeOK, Go

\* The journal is of one import, or there is none.
LEMMA JournalShape ==
  /\ NoJournal \in Journals
  /\ NoJournal.owner = Nobody
  /\ \A j \in Journals : /\ j = NoJournal <=> j.owner = Nobody
                         /\ j # NoJournal => j.owner \in Imports /\ j.phase \in Phases
  /\ \A i \in Imports, p \in Phases :
       LET j == [owner |-> i, phase |-> p]
       IN  j \in Journals /\ j # NoJournal /\ j.owner = i /\ j.phase = p
BY NamesAssumption DEF Journals, NoJournal, Phases

-----------------------------------------------------------------------------
(* Types and locks.                                                        *)

\* Which handler an exception reaches.
LEMMA HandlerPlaces ==
  ASSUME NEW i \in Imports
  PROVE  /\ pc[i] \in Recovering => Handler(i) = "failed"
         /\ pc[i] \in RollingBack /\ tx[i] = i => Handler(i) = "cleanup"
         /\ pc[i] \in RollingBack /\ tx[i] # i => Handler(i) = "failed"
         /\ pc[i] \in Staged => Handler(i) = "cleanup"
         /\ pc[i] \in Swapping => Handler(i) = "rollback"
         /\ pc[i] \in {"drop_backup", "drop_journal"} => Handler(i) = "done"
         /\ pc[i] = "ab_unlink" => Handler(i) = "cleanup"
         /\ pc[i] = "cleanup" => Handler(i) = "failed"
BY DEF Handler

\* Renaming and removing give a directory one of the contents.
LEMMA ContentsStay ==
  ASSUME TypeOK, NEW from \in Names, NEW to \in Names, NEW c \in Contents
  PROVE  /\ [dir EXCEPT ![from] = c] \in [Names -> Contents]
         /\ [dir EXCEPT ![from] = "absent", ![to] = dir[from]] \in [Names -> Contents]
BY DEF TypeOK, Contents

\* A step that raises counts a fault and goes on at a handler.
LEMMA RaiseEffect ==
  ASSUME TypeOK, NEW i \in Imports, pc[i] \in Critical, Raise(i)
  PROVE  /\ Handler(i) \in {"failed", "cleanup", "rollback", "done"}
         /\ Go(i, Handler(i)) /\ pc'[i] = Handler(i)
         /\ faults' = faults + 1
         /\ faults' \in 0 .. MaxFaults
         /\ faults' > 0
<1>1. Handler(i) \in {"failed", "cleanup", "rollback", "done"}
  BY HandlerPlaces
<1>2. Go(i, Handler(i)) /\ pc'[i] = Handler(i)
  BY GoEffect DEF Raise
<1>3. QED
  BY <1>1, <1>2, FaultsAssumption DEF TypeOK, Raise

LEMMA GoTypes ==
  ASSUME TypeOK, NEW i \in Imports, NEW to \in Locking \cup Critical \cup Ended, Go(i, to)
  PROVE  /\ pc' \in [Imports -> Locking \cup Critical \cup Ended]
         /\ lock_held' \in [Imports -> Imports \cup {Nobody}]
BY GoEffect DEF TypeOK

LEMMA ThenTypes ==
  ASSUME TypeOK, NEW i \in Imports, NEW to \in Locking \cup Critical \cup Ended,
         pc[i] \in Critical, Then(i, to)
  PROVE  /\ pc' \in [Imports -> Locking \cup Critical \cup Ended]
         /\ lock_held' \in [Imports -> Imports \cup {Nobody}]
         /\ faults' \in 0 .. MaxFaults
<1>1. CASE Go(i, to) /\ UNCHANGED faults
  BY <1>1, GoTypes DEF TypeOK
<1>2. CASE Raise(i)
  BY <1>2, RaiseEffect, GoTypes
<1>3. QED
  BY <1>1, <1>2 DEF Then

\* Removing a directory keeps the types.
LEMMA RemoveTypes ==
  ASSUME TypeOK, NEW i \in Imports, NEW at, NEW name \in Names,
         NEW to \in Locking \cup Critical \cup Ended, Remove(i, at, name, to)
  PROVE  TypeOK'
<1>1. dir' \in [Names -> Contents]
  BY ContentsStay DEF Remove, TypeOK, Contents
<1>2. /\ pc' \in [Imports -> Locking \cup Critical \cup Ended]
      /\ lock_held' \in [Imports -> Imports \cup {Nobody}]
  BY GoTypes DEF Remove, TypeOK
<1>3. QED
  BY <1>1, <1>2 DEF TypeOK, Remove, locking, Journals

\* A process that recovers or rolls back knows whose transaction it is, and a
\* swap is the process's own.
TxKnown(i) ==
  /\ pc[i] \in (Recovering \ {"recover"}) \cup RollingBack => tx[i] \in Imports
  /\ pc[i] \in Swapping => tx[i] = i

\* Every step keeps the types.
LEMMA StepTypes ==
  ASSUME TypeOK, NEW i \in Imports, TxKnown(i), Step(i) \/ Crash(i)
  PROVE  TypeOK'
<1>1. CASE CreateLock(i)
  BY <1>1, GoTypes DEF CreateLock, TypeOK, store
<1>2. CASE SeeLock(i)
  BY <1>2, GoTypes DEF SeeLock, TypeOK, store
<1>3. CASE OpenLock(i)
  BY <1>3, GoTypes DEF OpenLock, TypeOK, store, locking
<1>4. CASE InitLock(i)
  BY <1>4, GoTypes DEF InitLock, TypeOK, store
<1>5. CASE SyncLock(i)
  BY <1>5, GoTypes DEF SyncLock, TypeOK, store, locking
<1>6. CASE InitLockFails(i)
  BY <1>6, GoTypes DEF InitLockFails, TypeOK, store
<1>7. CASE CheckLock(i)
  BY <1>7, GoTypes DEF CheckLock, TypeOK, store, locking
<1>8. CASE TakeLock(i)
  <2>1. Recoverable \in Contents
    BY NamesDiffer, JournalShape DEF TypeOK, Recoverable, Exists
  <2>2. QED
    BY <1>8, <2>1 DEF TakeLock, TypeOK, store, locking
<1>9. CASE LockIsTaken(i)
  BY <1>9, GoTypes DEF LockIsTaken, TypeOK, store, locking
<1>10. CASE Recover(i)
  BY <1>10, GoTypes, JournalShape DEF Recover, TypeOK, store, locking
<1>11. CASE RecoverBackup(i) \/ RecoverStaging(i) \/ RollbackClear(i) \/ RollbackDiscard(i)
            \/ DropBackup(i) \/ Cleanup(i)
  <2>1. CASE DropBackup(i) \/ Cleanup(i)
    BY <2>1, RemoveTypes, NamesDiffer DEF DropBackup, Cleanup
  <2>2. CASE RecoverBackup(i) \/ RecoverStaging(i) \/ RollbackClear(i) \/ RollbackDiscard(i)
    <3>1. tx[i] \in Imports
      BY <2>2 DEF RecoverBackup, RecoverStaging, RollbackClear, RollbackDiscard, Remove, TxKnown
    <3>2. QED
      BY <2>2, <3>1, RemoveTypes, NamesDiffer
         DEF RecoverBackup, RecoverStaging, RollbackClear, RollbackDiscard
  <2>3. QED
    BY <1>11, <2>1, <2>2
<1>12. CASE RecoverUnlink(i)
  BY <1>12, ThenTypes, JournalShape DEF RecoverUnlink, TypeOK, locking
<1>13. CASE Rollback(i)
  BY <1>13, GoTypes DEF Rollback, TypeOK, store, locking
<1>14. CASE RollbackAside(i)
  BY <1>14, GoTypes, ContentsStay, NamesDiffer DEF RollbackAside, Rename, TypeOK, locking, TxKnown
<1>15. CASE RollbackRestore(i)
  BY <1>15, GoTypes, ContentsStay, NamesDiffer DEF RollbackRestore, Rename, TypeOK, locking, TxKnown
<1>16. CASE RollbackDone(i)
  BY <1>16, ThenTypes DEF RollbackDone, TypeOK, store, locking
<1>17. CASE Check(i)
  BY <1>17, GoTypes DEF Check, TypeOK, store, locking
<1>18. CASE Stage(i)
  BY <1>18, GoTypes, ContentsStay, NamesDiffer DEF Stage, TypeOK, locking, Contents
<1>19. CASE StageWrite(i)
  BY <1>19, GoTypes, ContentsStay, NamesDiffer DEF StageWrite, TypeOK, locking, Contents
<1>20. CASE Publish(i)
  BY <1>20, GoTypes DEF Publish, TypeOK, store, locking
<1>21. CASE Install(i)
  <2>1. dir' \in [Names -> Contents]
    <3>1. CASE Exists(Target)
      BY <1>21, <3>1 DEF Install, TypeOK
    <3>2. CASE ~Exists(Target)
      <4>1. Rename(Staging(i), Target)
        BY <1>21, <3>2 DEF Install
      <4>2. QED
        BY <4>1, ContentsStay, NamesDiffer DEF Rename, TypeOK, Contents
    <3>3. QED
      BY <3>1, <3>2
  <2>2. /\ pc' \in [Imports -> Locking \cup Critical \cup Ended]
        /\ lock_held' \in [Imports -> Imports \cup {Nobody}]
    BY <1>21, GoTypes DEF Install
  <2>3. QED
    BY <1>21, <2>1, <2>2 DEF Install, TypeOK, locking
<1>22. CASE Prepare(i)
  BY <1>22, ThenTypes, GoTypes, JournalShape, ZenonT(40)
     DEF Prepare, WriteJournal, TypeOK, locking, Phases
<1>23. CASE SwapOut(i)
  BY <1>23, ThenTypes, ContentsStay, NamesDiffer DEF SwapOut, Rename, TypeOK, locking
<1>24. CASE MarkBackedUp(i)
  BY <1>24, ThenTypes, JournalShape DEF MarkBackedUp, WriteJournal, TypeOK, locking, Phases
<1>25. CASE SwapIn(i)
  BY <1>25, ThenTypes, ContentsStay, NamesDiffer DEF SwapIn, Rename, TypeOK, locking
<1>26. CASE MarkCommitted(i)
  BY <1>26, ThenTypes, JournalShape DEF MarkCommitted, WriteJournal, TypeOK, locking, Phases
<1>27. CASE DropJournal(i)
  BY <1>27, ThenTypes, JournalShape DEF DropJournal, TypeOK, locking
<1>28. CASE AbortUnlink(i)
  BY <1>28, ThenTypes, JournalShape DEF AbortUnlink, TypeOK, locking
<1>29. CASE RaiseBefore(i)
  BY <1>29, RaiseEffect, GoTypes DEF RaiseBefore, TypeOK, store, locking
<1>30. CASE Crash(i)
  BY <1>30, GoTypes DEF Crash, TypeOK, store, locking
<1>31. QED
  BY <1>1, <1>2, <1>3, <1>4, <1>5, <1>6, <1>7, <1>8, <1>9, <1>10, <1>11, <1>12, <1>13,
     <1>14, <1>15, <1>16, <1>17, <1>18, <1>19, <1>20, <1>21, <1>22, <1>23, <1>24, <1>25,
     <1>26, <1>27, <1>28, <1>29, <1>30 DEF Step

\* Every step but the failed initialisation of a lock file keeps the locks
\* agreed: the lock file at the path never changes once it is there, and its
\* OS lock goes to one process at a time.
LEMMA LocksKeep ==
  ASSUME ~LockMayFail, TypeOK, LocksAgree, NEW i \in Imports, Step(i) \/ Crash(i)
  PROVE  LocksAgree'
<1>1. CASE CreateLock(i)
  BY <1>1, GoEffect, NamesAssumption DEF CreateLock, LocksAgree, TypeOK
<1>2. CASE SeeLock(i)
  BY <1>2, GoEffect, NamesAssumption DEF SeeLock, LocksAgree, TypeOK
<1>3. CASE TakeLock(i)
  BY <1>3, NamesAssumption DEF TakeLock, LockIsFree, LocksAgree, TypeOK, locking
<1>4. CASE /\ ~(CreateLock(i) \/ SeeLock(i) \/ TakeLock(i))
           /\ pc[i] # "start"
           /\ lock_path' = lock_path /\ fd' = fd
           /\ \/ pc' = pc /\ lock_held' = lock_held
              \/ \E to : /\ Go(i, to)
                         /\ to # "start"
                         /\ to \in Critical => pc[i] \in Critical
  <2>1. CASE pc' = pc /\ lock_held' = lock_held
    BY <1>4, <2>1 DEF LocksAgree
  <2>2. ASSUME NEW to, Go(i, to), to # "start", to \in Critical => pc[i] \in Critical
        PROVE  LocksAgree'
    <3>1. SUFFICES ASSUME NEW j \in Imports
                   PROVE  /\ (pc[j] # "start" => lock_path \in Imports /\ fd[j] = lock_path)'
                          /\ (pc[j] \in Critical => lock_held[lock_path] = j)'
      BY DEF LocksAgree
    <3>2. CASE j = i
      BY <1>4, <2>2, <3>2, GoEffect DEF LocksAgree
    <3>3. CASE j # i
      BY <1>4, <2>2, <3>3, GoEffect DEF LocksAgree
    <3>4. QED
      BY <3>2, <3>3
  <2>3. QED
    BY <1>4, <2>1, <2>2
<1>5. ASSUME ~(CreateLock(i) \/ SeeLock(i) \/ TakeLock(i))
      PROVE  /\ pc[i] # "start"
             /\ lock_path' = lock_path /\ fd' = fd
             /\ \/ pc' = pc /\ lock_held' = lock_held
                \/ \E to : /\ Go(i, to)
                           /\ to # "start"
                           /\ to \in Critical => pc[i] \in Critical
  <2>1. ASSUME NEW at \in Critical, NEW name, NEW to \in Critical \cup Ended,
               Remove(i, at, name, to)
        PROVE  /\ pc[i] \in Critical
               /\ lock_path' = lock_path /\ fd' = fd
               /\ \/ pc' = pc /\ lock_held' = lock_held
                  \/ Go(i, to)
    BY <2>1 DEF Remove, locking
  <2>2. ASSUME NEW to \in Critical \cup Ended, Then(i, to), pc[i] \in Critical
        PROVE  Go(i, to) \/ (Go(i, Handler(i)) /\ Handler(i) \in Critical \cup Ended)
    BY <2>2, RaiseEffect DEF Then
  <2>3. CASE RecoverBackup(i) \/ RecoverStaging(i) \/ RollbackClear(i) \/ RollbackDiscard(i)
            \/ DropBackup(i) \/ Cleanup(i)
    <3>1. CASE RecoverBackup(i) \/ RecoverStaging(i)
      BY <2>1, <3>1 DEF RecoverBackup, RecoverStaging
    <3>2. CASE RollbackClear(i) \/ RollbackDiscard(i)
      BY <2>1, <3>2 DEF RollbackClear, RollbackDiscard
    <3>3. CASE DropBackup(i)
      BY <2>1, <3>3 DEF DropBackup
    <3>4. CASE Cleanup(i)
      BY <2>1, <3>4 DEF Cleanup
    <3>5. QED
      BY <2>3, <3>1, <3>2, <3>3, <3>4
  <2>4. CASE RecoverUnlink(i) \/ RollbackDone(i) \/ Prepare(i) \/ SwapOut(i) \/ MarkBackedUp(i)
             \/ SwapIn(i) \/ MarkCommitted(i) \/ DropJournal(i) \/ AbortUnlink(i)
    <3>1. CASE Prepare(i)
      BY <2>2, <3>1 DEF Prepare, locking
    <3>2. CASE RollbackDone(i)
      BY <2>2, <3>2 DEF RollbackDone, locking
    <3>3. QED
      BY <2>2, <2>4, <3>1, <3>2 DEF RecoverUnlink, SwapOut, MarkBackedUp, SwapIn,
         MarkCommitted, DropJournal, AbortUnlink, locking
  <2>5. CASE OpenLock(i) \/ InitLock(i) \/ SyncLock(i) \/ CheckLock(i) \/ LockIsTaken(i)
    BY <2>5 DEF OpenLock, InitLock, SyncLock, CheckLock, LockIsTaken, locking
  <2>6. CASE Recover(i) \/ Rollback(i) \/ RollbackAside(i) \/ RollbackRestore(i) \/ Check(i)
             \/ Stage(i) \/ StageWrite(i) \/ Publish(i) \/ Install(i) \/ Crash(i)
    BY <2>6 DEF Recover, Rollback, RollbackAside, RollbackRestore, Check, Stage, StageWrite,
       Publish, Install, Crash, locking
  <2>7. CASE RaiseBefore(i)
    BY <2>7, RaiseEffect DEF RaiseBefore, locking
  <2>8. QED
    BY <1>5, <2>3, <2>4, <2>5, <2>6, <2>7 DEF Step, InitLockFails
<1>6. QED
  BY <1>1, <1>2, <1>3, <1>4, <1>5

-----------------------------------------------------------------------------
(* The store.                                                              *)

\* What one process relies on.
Sound(i) == StoreSound /\ JournalOf(i) /\ PlacesOf(i) /\ VersionOf(i)

\* Two processes that are past the lock are one.
LEMMA OneAtWork ==
  ASSUME IInv, NEW i \in Imports, NEW j \in Imports, pc[i] \in Critical, pc[j] \in Critical
  PROVE  i = j
BY DEF IInv, LocksAgree

\* A process that is not past the lock relies on nothing that another one does
\* to the store.
LEMMA OthersKeep ==
  ASSUME IInv, NEW i \in Imports, NEW j \in Imports, j # i,
         pc[j] \notin Critical, pc'[j] = pc[j], tx'[j] = tx[j],
         journal'.owner \in {journal.owner, i, Nobody}
  PROVE  JournalOf(j)' /\ PlacesOf(j)' /\ VersionOf(j)'
<1>1. journal'.owner = j => journal.owner = j
  BY NamesAssumption
<1>2. QED
  BY <1>1 DEF IInv, JournalOf, PlacesOf, VersionOf, RunPresent, RunAbsent, BackupPresent,
     BackupAbsent, StagingWhole

\* A step before the lock, or one that ends the process, leaves the store.
LEMMA Elsewhere ==
  ASSUME IInv, NEW i \in Imports, NEW to \in Locking \cup Ended, Go(i, to),
         to \in Locking => pc[i] \in Locking,
         UNCHANGED <<store, tx, before>>
  PROVE  StoreSound' /\ \A j \in Imports : JournalOf(j)' /\ PlacesOf(j)' /\ VersionOf(j)'
<1>1. StoreSound'
  BY DEF IInv, StoreSound, store, Exists
<1>2. SUFFICES ASSUME NEW j \in Imports
               PROVE  JournalOf(j)' /\ PlacesOf(j)' /\ VersionOf(j)'
  BY <1>1
<1>3. CASE j = i
  BY <1>3, GoEffect DEF IInv, JournalOf, PlacesOf, VersionOf, RunPresent, RunAbsent,
     BackupPresent, BackupAbsent, StagingWhole, store
<1>4. CASE j # i
  <2>1. pc'[j] = pc[j] /\ dir' = dir /\ journal' = journal /\ tx' = tx /\ before' = before
    BY <1>4, GoEffect DEF IInv, store
  <2>2. Recoverable' = Recoverable
    BY <2>1 DEF Recoverable, Exists
  <2>3. JournalOf(j)'
    BY <2>1 DEF IInv, JournalOf
  <2>4. PlacesOf(j)'
    BY <2>1 DEF IInv, PlacesOf, Exists
  <2>5. VersionOf(j)'
    BY <2>1, <2>2 DEF IInv, VersionOf, Exists
  <2>6. QED
    BY <2>3, <2>4, <2>5
<1>5. QED
  BY <1>3, <1>4

\* A rename moves a version and leaves the other directories alone.
LEMMA RenameEffect ==
  ASSUME TypeOK, NEW from \in Names, NEW to \in Names, from # to, Rename(from, to)
  PROVE  /\ dir'[from] = "absent"
         /\ dir'[to] = dir[from]
         /\ \A n \in Names : n # from /\ n # to => dir'[n] = dir[n]
BY DEF TypeOK, Rename

\* A removal ends with the directory gone, or stops in between where it began.
LEMMA RemoveEffect ==
  ASSUME TypeOK, NEW i \in Imports, NEW at, NEW name \in Names, NEW to,
         Remove(i, at, name, to)
  PROVE  /\ pc[i] = at
         /\ \/ Go(i, to) /\ pc'[i] = to /\ dir'[name] = "absent"
            \/ pc' = pc /\ dir'[name] = "partial" /\ dir[name] # "absent"
         /\ \A n \in Names : n # name => dir'[n] = dir[n]
         /\ dir[name] = "absent" => dir' = dir
         /\ journal' = journal /\ tx' = tx /\ before' = before
<1>1. ASSUME NEW c, dir' = [dir EXCEPT ![name] = c]
      PROVE  dir'[name] = c /\ \A n \in Names : n # name => dir'[n] = dir[n]
  BY <1>1 DEF TypeOK
<1>2. CASE ~Exists(name) /\ Go(i, to) /\ UNCHANGED dir
  BY <1>2, GoEffect DEF Remove, Exists
<1>3. CASE Exists(name) /\ dir' = [dir EXCEPT ![name] = "absent"] /\ Go(i, to)
  BY <1>1, <1>3, GoEffect DEF Remove, Exists
<1>4. CASE /\ dir[name] \notin {"absent", "partial"}
           /\ dir' = [dir EXCEPT ![name] = "partial"]
           /\ UNCHANGED <<pc, lock_held>>
  BY <1>1, <1>4 DEF Remove, Exists
<1>5. QED
  BY <1>2, <1>3, <1>4 DEF Remove

\* The places of the process that has the lock.
LEMMA TxIsImport ==
  ASSUME IInv, NEW i \in Imports,
         pc[i] \in (Recovering \ {"recover"}) \cup RollingBack \cup Swapping
  PROVE  tx[i] \in Imports /\ journal.owner = tx[i]
BY DEF IInv, JournalOf

USE DEF RunPresent, RunAbsent, BackupPresent, BackupAbsent, StagingWhole

\* The lock is taken: whoever the journal belongs to is not at work.
LEMMA TakeLockKeeps ==
  ASSUME IInv, NEW i \in Imports, TakeLock(i)
  PROVE  Sound(i)'
<1>1. /\ pc[i] = "trylock" /\ pc'[i] = "recover"
      /\ dir' = dir /\ journal' = journal /\ tx' = tx /\ before' = Recoverable
  BY DEF TakeLock, store, IInv, TypeOK
<1>2. Recoverable' = Recoverable
  BY <1>1 DEF Recoverable, Exists
<1>3. QED
  BY <1>1, <1>2 DEF IInv, Sound, StoreSound, JournalOf, PlacesOf, VersionOf, Exists

\* Recovery finds no journal, or that of a transaction that did not end.
LEMMA RecoverKeeps ==
  ASSUME IInv, NEW i \in Imports, Recover(i)
  PROVE  Sound(i)'
<1>1. /\ pc[i] = "recover" /\ dir' = dir /\ journal' = journal /\ before' = before
  BY DEF Recover, store
<1>2. Recoverable' = Recoverable
  BY <1>1 DEF Recoverable, Exists
<1>3. journal.owner # i /\ tx[i] = Nobody /\ Recoverable = before
  BY <1>1 DEF IInv, JournalOf, VersionOf
<1>4. StoreSound'
  BY <1>1 DEF IInv, StoreSound, Exists
<1>5. CASE journal = NoJournal
  <2>1. pc'[i] = "check" /\ tx' = tx
    BY <1>5, GoEffect DEF Recover, IInv
  <2>2. QED
    BY <1>1, <1>2, <1>3, <1>4, <1>5, <2>1 DEF Sound, JournalOf, PlacesOf, VersionOf, Exists
<1>6. CASE journal # NoJournal
  <2>1. tx'[i] = journal.owner /\ journal.owner \in Imports
    BY <1>6, JournalShape DEF Recover, IInv, TypeOK
  <2>2. pc'[i] = IF CanFinish THEN "rc_backup" ELSE "rollback"
    BY <1>6, GoEffect DEF Recover, IInv
  <2>3. QED
    BY <1>1, <1>2, <1>3, <1>4, <1>6, <2>1, <2>2
       DEF IInv, Sound, StoreSound, JournalOf, PlacesOf, VersionOf, CanFinish, Recoverable, Exists
<1>7. QED
  BY <1>5, <1>6

\* A process that has ended, or only removes its staging, needs nothing of the
\* store but what everybody needs.
LEMMA NothingMore ==
  ASSUME NEW i \in Imports, StoreSound', pc'[i] \in Ended \cup {"cleanup"}
  PROVE  Sound(i)'
BY DEF Sound, JournalOf, PlacesOf, VersionOf

\* Finishing the cleanup of a committed transaction.
LEMMA RecoverBackupKeeps ==
  ASSUME IInv, NEW i \in Imports, RecoverBackup(i)
  PROVE  Sound(i)'
<1>1. pc[i] = "rc_backup"
  BY DEF RecoverBackup, Remove
<1>2. tx[i] \in Imports /\ journal.owner = tx[i] /\ tx[i] # i /\ journal.phase = "committed"
  BY <1>1 DEF IInv, JournalOf
<1>3. Exists(Target) /\ Recoverable = before
  BY <1>1 DEF IInv, PlacesOf, VersionOf
<1>4. /\ \/ pc'[i] = "rc_staging" /\ dir'[Backup(tx[i])] = "absent"
         \/ pc' = pc /\ dir'[Backup(tx[i])] = "partial"
      /\ \A n \in Names : n # Backup(tx[i]) => dir'[n] = dir[n]
      /\ journal' = journal /\ tx' = tx /\ before' = before
      /\ dir[Backup(tx[i])] = "absent" => dir' = dir
  <2>1. Remove(i, "rc_backup", Backup(tx[i]), "rc_staging")
    BY DEF RecoverBackup
  <2>2. TypeOK /\ Backup(tx[i]) \in Names
    BY <1>2, NamesDiffer DEF IInv
  <2>3. QED
    BY <2>1, <2>2, RemoveEffect
<1>5. dir'[Target] = dir[Target]
  BY <1>2, <1>4, NamesDiffer
<1>6. StoreSound'
  BY <1>2, <1>3, <1>4, <1>5, NamesDiffer DEF IInv, StoreSound, Exists
<1>7. Recoverable' = before'
  <2>1. Recoverable = dir[Target] /\ Recoverable' = dir'[Target]
    BY <1>2, <1>3, <1>4, <1>5 DEF Recoverable, Exists
  <2>2. QED
    BY <1>3, <1>4, <1>5, <2>1
<1>8. QED
  BY <1>1, <1>2, <1>3, <1>4, <1>5, <1>6, <1>7
     DEF Sound, JournalOf, PlacesOf, VersionOf, Exists

LEMMA RecoverStagingKeeps ==
  ASSUME IInv, NEW i \in Imports, RecoverStaging(i)
  PROVE  Sound(i)'
<1>1. pc[i] = "rc_staging"
  BY DEF RecoverStaging, Remove
<1>2. tx[i] \in Imports /\ journal.owner = tx[i] /\ tx[i] # i
  BY <1>1 DEF IInv, JournalOf
<1>3. Exists(Target) /\ ~Exists(Backup(tx[i])) /\ Recoverable = before
  BY <1>1 DEF IInv, PlacesOf, VersionOf
<1>4. /\ \/ pc'[i] = "rc_unlink" /\ dir'[Staging(tx[i])] = "absent"
         \/ pc' = pc
      /\ \A n \in Names : n # Staging(tx[i]) => dir'[n] = dir[n]
      /\ journal' = journal /\ tx' = tx /\ before' = before
  <2>1. Remove(i, "rc_staging", Staging(tx[i]), "rc_unlink")
    BY DEF RecoverStaging
  <2>2. TypeOK /\ Staging(tx[i]) \in Names
    BY <1>2, NamesDiffer DEF IInv
  <2>3. QED
    BY <2>1, <2>2, RemoveEffect
<1>5. dir'[Target] = dir[Target] /\ \A k \in Imports : dir'[Backup(k)] = dir[Backup(k)]
  BY <1>2, <1>4, NamesDiffer
<1>6. StoreSound'
  BY <1>4, <1>5 DEF IInv, StoreSound, Exists
<1>7. Recoverable' = before'
  <2>1. Recoverable = dir[Target] /\ Recoverable' = dir'[Target]
    BY <1>2, <1>3, <1>4, <1>5 DEF Recoverable, Exists
  <2>2. QED
    BY <1>3, <1>4, <1>5, <2>1
<1>8. QED
  BY <1>1, <1>2, <1>3, <1>4, <1>5, <1>6, <1>7
     DEF Sound, JournalOf, PlacesOf, VersionOf, Exists

LEMMA RecoverUnlinkKeeps ==
  ASSUME IInv, NEW i \in Imports, RecoverUnlink(i)
  PROVE  Sound(i)'
<1>1. /\ pc[i] = "rc_unlink" /\ dir' = dir /\ journal' = NoJournal
      /\ tx' = tx /\ before' = before
  BY DEF RecoverUnlink
<1>2. tx[i] \in Imports /\ journal.owner = tx[i]
  BY <1>1 DEF IInv, JournalOf
<1>3. /\ Exists(Target) /\ ~Exists(Backup(tx[i])) /\ Recoverable = before
      /\ ~Exists(Staging(tx[i]))
  BY <1>1, <1>2, NamesAssumption DEF IInv, PlacesOf, VersionOf
<1>4. pc'[i] \in {"check", "failed"}
  BY <1>1, GoEffect, RaiseEffect, HandlerPlaces DEF RecoverUnlink, Then, IInv
<1>5. StoreSound'
  BY <1>1, <1>2, <1>3, JournalShape, NamesAssumption DEF IInv, StoreSound, Exists
<1>6. dir'[Target] = before'
  BY <1>1, <1>2, <1>3 DEF Recoverable
<1>7. Recoverable' = before'
  BY <1>1, <1>6 DEF Recoverable
<1>8. QED
  BY <1>1, <1>2, <1>3, <1>4, <1>5, <1>7, JournalShape, NamesAssumption
     DEF Sound, JournalOf, PlacesOf, VersionOf, Exists

\* What a process that is rolling back relies on.
LEMMA RollingBackFacts ==
  ASSUME IInv, NEW i \in Imports, pc[i] \in RollingBack
  PROVE  /\ tx[i] \in Imports /\ journal.owner = tx[i]
         /\ dir[Backup(tx[i])] # "partial"
         /\ Exists(Target) \/ Exists(Backup(tx[i]))
         /\ Exists(Backup(tx[i])) => dir[Backup(tx[i])] = before
         /\ ~Exists(Backup(tx[i])) => dir[Target] = before
         /\ journal.phase = "committed" /\ Exists(Target) /\ Exists(Backup(tx[i])) =>
              tx[i] = i /\ dir[Target] = i
BY DEF IInv, JournalOf, PlacesOf, VersionOf, StoreSound

LEMMA RollbackKeeps ==
  ASSUME IInv, NEW i \in Imports, Rollback(i)
  PROVE  Sound(i)'
<1>1. /\ pc[i] = "rollback" /\ dir' = dir /\ journal' = journal
      /\ tx' = tx /\ before' = before
  BY DEF Rollback, store
<1>2. pc'[i] = IF ~Exists(Backup(tx[i])) THEN "rb_done"
               ELSE IF Exists(Target) THEN "rb_clear" ELSE "rb_only"
  BY GoEffect DEF Rollback, IInv
<1>3. StoreSound'
  BY <1>1 DEF IInv, StoreSound, Exists
<1>4. QED
  BY <1>1, <1>2, <1>3, RollingBackFacts DEF Sound, JournalOf, PlacesOf, VersionOf, Exists

\* Removing staging neither moves the run nor its backup.
LEMMA StagingGoes ==
  ASSUME IInv, NEW i \in Imports, NEW at, NEW to, NEW t \in Imports,
         Remove(i, at, Staging(t), to)
  PROVE  /\ pc[i] = at
         /\ pc'[i] = to \/ pc' = pc
         /\ dir'[Target] = dir[Target]
         /\ \A k \in Imports : dir'[Backup(k)] = dir[Backup(k)]
         /\ \A k \in Imports : k # t => dir'[Staging(k)] = dir[Staging(k)]
         /\ journal' = journal /\ tx' = tx /\ before' = before
         /\ StoreSound'
         /\ Recoverable' = Recoverable
<1>1. Staging(t) \in Names /\ TypeOK
  BY NamesDiffer DEF IInv
<1>2. /\ pc[i] = at
      /\ pc'[i] = to \/ pc' = pc
      /\ \A n \in Names : n # Staging(t) => dir'[n] = dir[n]
      /\ journal' = journal /\ tx' = tx /\ before' = before
  BY <1>1, RemoveEffect
<1>3. /\ dir'[Target] = dir[Target]
      /\ \A k \in Imports : dir'[Backup(k)] = dir[Backup(k)]
      /\ \A k \in Imports : k # t => dir'[Staging(k)] = dir[Staging(k)]
  BY <1>2, NamesDiffer
<1>4. StoreSound'
  BY <1>2, <1>3 DEF IInv, StoreSound, Exists
<1>5. Recoverable' = Recoverable
  <2>1. journal # NoJournal => journal.owner \in Imports
    BY JournalShape DEF IInv, TypeOK
  <2>2. QED
    BY <1>2, <1>3, <2>1 DEF Recoverable, Exists
<1>6. QED
  BY <1>2, <1>3, <1>4, <1>5

LEMMA RollbackClearKeeps ==
  ASSUME IInv, NEW i \in Imports, RollbackClear(i) \/ RollbackDiscard(i)
  PROVE  Sound(i)'
<1>1. CASE RollbackClear(i)
  <2>1. Remove(i, "rb_clear", Staging(tx[i]), "rb_aside") /\ pc[i] = "rb_clear"
    BY <1>1 DEF RollbackClear, Remove
  <2>2. /\ Exists(Target) /\ Exists(Backup(tx[i])) /\ tx[i] \in Imports
    BY <2>1, RollingBackFacts DEF IInv, PlacesOf
  <2>3. /\ pc'[i] = "rb_aside" \/ pc' = pc
        /\ dir'[Target] = dir[Target]
        /\ \A k \in Imports : dir'[Backup(k)] = dir[Backup(k)]
        /\ journal' = journal /\ tx' = tx /\ before' = before
        /\ StoreSound'
    BY <2>1, <2>2, StagingGoes
  <2>4. QED
    BY <2>1, <2>2, <2>3, RollingBackFacts
       DEF Sound, JournalOf, PlacesOf, VersionOf, Exists
<1>2. CASE RollbackDiscard(i)
  <2>1. Remove(i, "rb_discard", Staging(tx[i]), "rb_done") /\ pc[i] = "rb_discard"
    BY <1>2 DEF RollbackDiscard, Remove
  <2>2. /\ Exists(Target) /\ ~Exists(Backup(tx[i])) /\ tx[i] \in Imports
    BY <2>1, RollingBackFacts DEF IInv, PlacesOf
  <2>3. /\ pc'[i] = "rb_done" \/ pc' = pc
        /\ dir'[Target] = dir[Target]
        /\ \A k \in Imports : dir'[Backup(k)] = dir[Backup(k)]
        /\ journal' = journal /\ tx' = tx /\ before' = before
        /\ StoreSound'
    BY <2>1, <2>2, StagingGoes
  <2>4. QED
    BY <2>1, <2>2, <2>3, RollingBackFacts
       DEF Sound, JournalOf, PlacesOf, VersionOf, Exists
<1>3. QED
  BY <1>1, <1>2

LEMMA RollbackAsideKeeps ==
  ASSUME IInv, NEW i \in Imports, RollbackAside(i)
  PROVE  Sound(i)'
<1>1. /\ pc[i] = "rb_aside" /\ pc'[i] = "rb_restore" /\ journal' = journal
      /\ tx' = tx /\ before' = before
  BY GoEffect DEF RollbackAside, IInv
<1>2. Exists(Backup(tx[i])) /\ tx[i] \in Imports
  BY <1>1, RollingBackFacts DEF IInv, PlacesOf
<1>3. /\ dir'[Target] = "absent"
      /\ \A k \in Imports : dir'[Backup(k)] = dir[Backup(k)]
  BY <1>2, RenameEffect, NamesDiffer DEF RollbackAside, IInv
<1>4. StoreSound'
  BY <1>1, <1>2, <1>3, RollingBackFacts DEF IInv, StoreSound, Exists
<1>5. QED
  BY <1>1, <1>2, <1>3, <1>4, RollingBackFacts DEF Sound, JournalOf, PlacesOf, VersionOf, Exists

LEMMA RollbackRestoreKeeps ==
  ASSUME IInv, NEW i \in Imports, RollbackRestore(i)
  PROVE  Sound(i)'
<1>1. /\ pc[i] \in {"rb_restore", "rb_only"} /\ pc'[i] \in {"rb_discard", "rb_done"}
      /\ journal' = journal /\ tx' = tx /\ before' = before
  BY GoEffect DEF RollbackRestore, IInv
<1>2. Exists(Backup(tx[i])) /\ tx[i] \in Imports
  BY <1>1, RollingBackFacts DEF IInv, PlacesOf
<1>3. /\ dir'[Target] = dir[Backup(tx[i])]
      /\ dir'[Backup(tx[i])] = "absent"
      /\ \A k \in Imports : k # tx[i] => dir'[Backup(k)] = dir[Backup(k)]
  BY <1>2, RenameEffect, NamesDiffer DEF RollbackRestore, IInv
<1>4. dir[Backup(tx[i])] \notin {"absent", "partial"} /\ dir[Backup(tx[i])] = before
  BY <1>1, <1>2, RollingBackFacts DEF Exists
<1>5. StoreSound'
  BY <1>1, <1>2, <1>3, <1>4, RollingBackFacts DEF IInv, StoreSound, Exists
<1>6. QED
  BY <1>1, <1>2, <1>3, <1>4, <1>5, RollingBackFacts
     DEF Sound, JournalOf, PlacesOf, VersionOf, Exists

LEMMA RollbackDoneKeeps ==
  ASSUME IInv, NEW i \in Imports, RollbackDone(i)
  PROVE  Sound(i)'
<1>1. /\ pc[i] = "rb_done" /\ dir' = dir /\ journal' = journal
      /\ tx' = tx /\ before' = before
  BY DEF RollbackDone, store
<1>2. StoreSound'
  BY <1>1 DEF IInv, StoreSound, Exists
<1>3. CASE Raise(i)
  <2>1. pc'[i] \in {"cleanup", "failed"}
    BY <1>1, <1>3, RaiseEffect, HandlerPlaces, GoEffect DEF IInv
  <2>2. QED
    BY <1>2, <2>1, NothingMore
<1>4. CASE Go(i, IF tx[i] = i THEN "ab_unlink" ELSE "rc_staging")
  <2>1. pc'[i] = IF tx[i] = i THEN "ab_unlink" ELSE "rc_staging"
    BY <1>4, GoEffect DEF IInv
  <2>2. Exists(Target) /\ ~Exists(Backup(tx[i])) /\ dir[Target] = before
    BY <1>1, RollingBackFacts DEF IInv, PlacesOf
  <2>3. Recoverable' = dir[Target]
    BY <1>1, <2>2, RollingBackFacts DEF Recoverable, Exists
  <2>4. QED
    BY <1>1, <1>2, <2>1, <2>2, <2>3, RollingBackFacts
       DEF Sound, JournalOf, PlacesOf, VersionOf, Exists
<1>5. QED
  BY <1>3, <1>4 DEF RollbackDone, Then

\* What an import relies on before it has written its journal.
LEMMA StagedFacts ==
  ASSUME IInv, NEW i \in Imports, pc[i] \in Staged
  PROVE  /\ journal = NoJournal /\ journal.owner = Nobody
         /\ dir[Target] = before
         /\ \A k \in Imports : ~Exists(Backup(k))
<1>1. journal = NoJournal /\ Recoverable = before
  BY DEF IInv, JournalOf, VersionOf
<1>2. journal.owner = Nobody /\ \A k \in Imports : journal.owner # k
  BY <1>1, JournalShape, NamesAssumption
<1>3. QED
  BY <1>1, <1>2 DEF IInv, StoreSound, Recoverable

\* Without a journal what is at the target is the run.
LEMMA RecoverableWithoutJournal ==
  ASSUME journal' = NoJournal
  PROVE  Recoverable' = dir'[Target]
BY DEF Recoverable

LEMMA CheckKeeps ==
  ASSUME IInv, NEW i \in Imports, Check(i) \/ Publish(i)
  PROVE  Sound(i)'
<1>1. /\ pc[i] \in {"check", "publish"} /\ dir' = dir /\ journal' = journal
      /\ tx' = tx /\ before' = before
  BY DEF Check, Publish, store
<1>2. StoreSound'
  BY <1>1 DEF IInv, StoreSound, Exists
<1>3. /\ pc[i] = "check" => pc'[i] \in {"exists", "stage"}
      /\ pc[i] = "publish" => pc'[i] \in {"prepare", "install"}
      /\ pc'[i] = "prepare" => Exists(Target)
  BY GoEffect DEF Check, Publish, IInv
<1>4. pc[i] = "publish" => dir[Staging(i)] = i
  BY DEF IInv, PlacesOf
<1>5. Recoverable' = before'
  BY <1>1, StagedFacts, RecoverableWithoutJournal
<1>6. QED
  BY <1>1, <1>2, <1>3, <1>4, <1>5, StagedFacts
     DEF Sound, JournalOf, PlacesOf, VersionOf, Exists

LEMMA StageKeeps ==
  ASSUME IInv, NEW i \in Imports, Stage(i) \/ StageWrite(i)
  PROVE  Sound(i)'
<1>1. /\ pc[i] \in {"stage", "stage_write"} /\ pc'[i] \in {"stage_write", "publish"}
      /\ journal' = journal /\ tx' = tx /\ before' = before
  BY GoEffect DEF Stage, StageWrite, IInv
<1>2. /\ pc'[i] = "publish" => dir'[Staging(i)] = i
      /\ dir'[Target] = dir[Target]
      /\ \A k \in Imports : dir'[Backup(k)] = dir[Backup(k)]
  BY <1>1, GoEffect, NamesDiffer DEF Stage, StageWrite, IInv, TypeOK
<1>3. StoreSound'
  BY <1>1, <1>2 DEF IInv, StoreSound, Exists
<1>4. Recoverable' = before'
  BY <1>1, <1>2, StagedFacts, RecoverableWithoutJournal
<1>5. QED
  BY <1>1, <1>2, <1>3, <1>4, StagedFacts DEF Sound, JournalOf, PlacesOf, VersionOf, Exists

LEMMA InstallKeeps ==
  ASSUME IInv, NEW i \in Imports, Install(i)
  PROVE  Sound(i)'
<1>1. pc[i] = "install" /\ journal' = journal /\ tx' = tx /\ before' = before
  BY DEF Install
<1>2. dir[Staging(i)] = i /\ journal.owner = Nobody
  BY <1>1, StagedFacts DEF IInv, PlacesOf
<1>3. CASE Exists(Target)
  <2>1. pc'[i] = "cleanup" /\ dir' = dir
    BY <1>3, GoEffect DEF Install, IInv
  <2>2. QED
    BY <1>1, <2>1, NothingMore DEF IInv, StoreSound, Exists
<1>4. CASE ~Exists(Target)
  <2>1. Go(i, "done") /\ Rename(Staging(i), Target)
    BY <1>4 DEF Install
  <2>2. /\ pc'[i] = "done" /\ dir'[Target] = i
        /\ \A k \in Imports : dir'[Backup(k)] = dir[Backup(k)]
    BY <1>2, <2>1, GoEffect, RenameEffect, NamesDiffer DEF IInv
  <2>3. StoreSound'
    BY <1>1, <1>2, <2>2, NamesAssumption DEF IInv, StoreSound, Exists
  <2>4. QED
    BY <2>2, <2>3, NothingMore
<1>5. QED
  BY <1>3, <1>4

LEMMA PrepareKeeps ==
  ASSUME IInv, NEW i \in Imports, Prepare(i)
  PROVE  Sound(i)'
<1>1. /\ pc[i] = "prepare" /\ journal = NoJournal
      /\ dir' = dir /\ before' = before /\ tx'[i] = i
  BY StagedFacts DEF Prepare, IInv, TypeOK
<1>2. journal' = [owner |-> i, phase |-> "prepared"] /\ Then(i, "swap_out")
  BY <1>1 DEF Prepare, WriteJournal
<1>3. journal' # NoJournal /\ journal'.owner = i /\ journal'.phase = "prepared"
  BY <1>2, JournalShape DEF Phases
<1>4. pc'[i] \in {"swap_out", "cleanup"}
  BY <1>1, <1>2, GoEffect, RaiseEffect, HandlerPlaces DEF Then, IInv
<1>5. dir[Staging(i)] = i /\ Exists(Target)
  BY <1>1 DEF IInv, PlacesOf
<1>6. StoreSound'
  BY <1>1, <1>3, <1>5, StagedFacts DEF IInv, StoreSound, Exists
<1>7. Recoverable' = before'
  BY <1>1, <1>3, StagedFacts DEF Recoverable, Exists
<1>8. QED
  BY <1>1, <1>3, <1>4, <1>5, <1>6, <1>7, StagedFacts
     DEF Sound, JournalOf, PlacesOf, VersionOf, Exists

\* What an import relies on while it swaps the directories.
LEMMA SwappingFacts ==
  ASSUME IInv, NEW i \in Imports, pc[i] \in Swapping
  PROVE  /\ tx[i] = i /\ journal # NoJournal /\ journal.owner = i
         /\ pc[i] \in {"swap_out", "mark_backed_up"} => journal.phase = "prepared"
         /\ pc[i] \in {"swap_in", "mark_committed"} => journal.phase = "backed_up"
         /\ dir[Backup(i)] # "partial"
         /\ Exists(Backup(i)) => dir[Backup(i)] = before
         /\ ~Exists(Backup(i)) => dir[Target] = before
         /\ Exists(Target) \/ Exists(Backup(i))
         /\ pc[i] \in {"swap_out", "mark_backed_up", "swap_in"} => dir[Staging(i)] = i
         /\ pc[i] = "swap_out" => Exists(Target) /\ ~Exists(Backup(i))
         /\ pc[i] \in {"mark_backed_up", "swap_in"} => ~Exists(Target) /\ Exists(Backup(i))
         /\ pc[i] = "mark_committed" => dir[Target] = i /\ Exists(Target) /\ Exists(Backup(i))
<1>1. tx[i] = i /\ journal.owner = i /\ journal # NoJournal
  BY JournalShape, NamesAssumption DEF IInv, JournalOf
<1>2. /\ pc[i] \in {"swap_out", "mark_backed_up"} => journal.phase = "prepared"
      /\ pc[i] \in {"swap_in", "mark_committed"} => journal.phase = "backed_up"
  BY DEF IInv, JournalOf
<1>3. /\ Exists(Backup(i)) => dir[Backup(i)] = before
      /\ ~Exists(Backup(i)) => dir[Target] = before
  BY <1>1, <1>2 DEF IInv, VersionOf, Recoverable
<1>4. /\ dir[Backup(i)] # "partial"
      /\ Exists(Target) \/ Exists(Backup(i))
  BY <1>1, <1>2 DEF IInv, StoreSound
<1>5. QED
  BY <1>1, <1>2, <1>3, <1>4 DEF IInv, PlacesOf, VersionOf

\* What a swapping step leaves goes on, or is rolled back.
LEMMA SwapOutKeeps ==
  ASSUME IInv, NEW i \in Imports, SwapOut(i)
  PROVE  Sound(i)'
<1>1. /\ pc[i] = "swap_out" /\ journal' = journal /\ tx' = tx /\ before' = before
  BY DEF SwapOut
<1>2. pc'[i] \in {"mark_backed_up", "rollback"}
  BY <1>1, GoEffect, RaiseEffect, HandlerPlaces DEF SwapOut, Then, IInv
<1>3. /\ dir'[Target] = "absent" /\ dir'[Backup(i)] = dir[Target]
      /\ \A k \in Imports : k # i => dir'[Backup(k)] = dir[Backup(k)]
      /\ dir'[Staging(i)] = dir[Staging(i)]
  BY RenameEffect, NamesDiffer DEF SwapOut, IInv
<1>4. dir[Target] = before /\ dir[Target] # "absent" /\ dir[Target] # "partial"
  BY <1>1, SwappingFacts DEF IInv, StoreSound, Exists
<1>5. StoreSound'
  BY <1>1, <1>3, <1>4, SwappingFacts DEF IInv, StoreSound, Exists
<1>6. Recoverable' = before'
  BY <1>1, <1>3, <1>4, SwappingFacts DEF Recoverable, Exists
<1>7. QED
  BY <1>1, <1>2, <1>3, <1>4, <1>5, <1>6, SwappingFacts
     DEF Sound, JournalOf, PlacesOf, VersionOf, Exists

LEMMA MarkBackedUpKeeps ==
  ASSUME IInv, NEW i \in Imports, MarkBackedUp(i)
  PROVE  Sound(i)'
<1>1. /\ pc[i] = "mark_backed_up" /\ dir' = dir /\ tx' = tx /\ before' = before
  BY DEF MarkBackedUp
<1>2. pc'[i] \in {"swap_in", "rollback"}
  BY <1>1, GoEffect, RaiseEffect, HandlerPlaces DEF MarkBackedUp, Then, IInv
<1>3. journal' # NoJournal /\ journal'.owner = i /\ journal'.phase = "backed_up"
  BY JournalShape DEF MarkBackedUp, WriteJournal, Phases
<1>4. StoreSound'
  BY <1>1, <1>3, SwappingFacts DEF IInv, StoreSound, Exists
<1>5. Recoverable' = before'
  BY <1>1, <1>3, SwappingFacts DEF Recoverable, Exists
<1>6. QED
  BY <1>1, <1>2, <1>3, <1>4, <1>5, SwappingFacts
     DEF Sound, JournalOf, PlacesOf, VersionOf, Exists

LEMMA SwapInKeeps ==
  ASSUME IInv, NEW i \in Imports, SwapIn(i)
  PROVE  Sound(i)'
<1>1. /\ pc[i] = "swap_in" /\ journal' = journal /\ tx' = tx /\ before' = before
  BY DEF SwapIn
<1>2. pc'[i] \in {"mark_committed", "rollback"}
  BY <1>1, GoEffect, RaiseEffect, HandlerPlaces DEF SwapIn, Then, IInv
<1>3. /\ dir'[Target] = i
      /\ \A k \in Imports : dir'[Backup(k)] = dir[Backup(k)]
  BY <1>1, RenameEffect, NamesDiffer, SwappingFacts DEF SwapIn, IInv
<1>4. StoreSound'
  BY <1>1, <1>3, SwappingFacts, NamesAssumption DEF IInv, StoreSound, Exists
<1>5. Recoverable' = before'
  BY <1>1, <1>3, SwappingFacts DEF Recoverable, Exists
<1>6. QED
  BY <1>1, <1>2, <1>3, <1>4, <1>5, SwappingFacts, NamesAssumption
     DEF Sound, JournalOf, PlacesOf, VersionOf, Exists

LEMMA MarkCommittedKeeps ==
  ASSUME IInv, NEW i \in Imports, MarkCommitted(i)
  PROVE  Sound(i)'
<1>1. /\ pc[i] = "mark_committed" /\ dir' = dir /\ tx' = tx /\ before' = before
  BY DEF MarkCommitted
<1>2. pc'[i] \in {"drop_backup", "rollback"}
  BY <1>1, GoEffect, RaiseEffect, HandlerPlaces DEF MarkCommitted, Then, IInv
<1>3. journal' # NoJournal /\ journal'.owner = i /\ journal'.phase = "committed"
  BY JournalShape DEF MarkCommitted, WriteJournal, Phases
<1>4. StoreSound'
  BY <1>1, <1>3, SwappingFacts DEF IInv, StoreSound, Exists
<1>5. QED
  BY <1>1, <1>2, <1>3, <1>4, SwappingFacts DEF Sound, JournalOf, PlacesOf, VersionOf, Exists

\* After the commit the run is whole at its place, whatever becomes of the
\* backup and the journal.
LEMMA FinishingFacts ==
  ASSUME IInv, NEW i \in Imports, pc[i] \in {"drop_backup", "drop_journal", "ab_unlink"}
  PROVE  /\ tx[i] = i /\ journal.owner = i /\ journal # NoJournal
         /\ Exists(Target)
         /\ pc[i] # "ab_unlink" => journal.phase = "committed" /\ dir[Target] = i
         /\ pc[i] = "ab_unlink" => dir[Target] = before
         /\ pc[i] # "drop_backup" => ~Exists(Backup(i))
BY JournalShape, NamesAssumption DEF IInv, JournalOf, PlacesOf, VersionOf

LEMMA DropBackupKeeps ==
  ASSUME IInv, NEW i \in Imports, DropBackup(i)
  PROVE  Sound(i)'
<1>1. pc[i] = "drop_backup" /\ Remove(i, "drop_backup", Backup(i), "drop_journal")
  BY DEF DropBackup, Remove
<1>2. TypeOK /\ Backup(i) \in Names
  BY NamesDiffer DEF IInv
<1>3. /\ \/ pc'[i] = "drop_journal" /\ dir'[Backup(i)] = "absent"
         \/ pc' = pc /\ dir'[Backup(i)] = "partial"
      /\ \A n \in Names : n # Backup(i) => dir'[n] = dir[n]
      /\ dir[Backup(i)] = "absent" => dir' = dir
      /\ journal' = journal /\ tx' = tx /\ before' = before
  BY <1>1, <1>2, RemoveEffect
<1>4. /\ dir'[Target] = dir[Target]
      /\ \A k \in Imports : k # i => dir'[Backup(k)] = dir[Backup(k)]
  BY <1>3, NamesDiffer
<1>5. StoreSound'
  BY <1>1, <1>3, <1>4, FinishingFacts DEF IInv, StoreSound, Exists
<1>6. QED
  BY <1>1, <1>3, <1>4, <1>5, FinishingFacts DEF Sound, JournalOf, PlacesOf, VersionOf, Exists

LEMMA JournalGoes ==
  ASSUME IInv, NEW i \in Imports, DropJournal(i) \/ AbortUnlink(i)
  PROVE  Sound(i)'
<1>1. /\ pc[i] \in {"drop_journal", "ab_unlink"} /\ dir' = dir /\ journal' = NoJournal
  BY DEF DropJournal, AbortUnlink
<1>2. pc'[i] \in {"done", "cleanup"}
  BY <1>1, GoEffect, RaiseEffect, HandlerPlaces DEF DropJournal, AbortUnlink, Then, IInv
<1>3. StoreSound'
  BY <1>1, FinishingFacts, JournalShape, NamesAssumption DEF IInv, StoreSound, Exists
<1>4. QED
  BY <1>2, <1>3, NothingMore

LEMMA CleanupKeeps ==
  ASSUME IInv, NEW i \in Imports, Cleanup(i)
  PROVE  Sound(i)'
<1>1. Remove(i, "cleanup", Staging(i), "failed")
  BY DEF Cleanup
<1>2. StoreSound' /\ (pc'[i] = "failed" \/ pc'[i] = "cleanup")
  BY <1>1, StagingGoes
<1>3. QED
  BY <1>2, NothingMore

\* A call fails without effect: what was there is handled.
LEMMA RaiseBeforeKeeps ==
  ASSUME IInv, NEW i \in Imports, RaiseBefore(i)
  PROVE  Sound(i)'
<1>1. /\ pc[i] \in Critical /\ dir' = dir /\ journal' = journal
      /\ tx' = tx /\ before' = before
  BY DEF RaiseBefore, store
<1>2. pc'[i] = Handler(i)
  BY <1>1, RaiseEffect, GoEffect DEF RaiseBefore, IInv
<1>3. StoreSound'
  BY <1>1 DEF IInv, StoreSound, Exists
<1>4. CASE pc[i] \in Swapping
  <2>1. pc'[i] = "rollback"
    BY <1>2, <1>4, HandlerPlaces
  <2>2. QED
    BY <1>1, <1>3, <1>4, <2>1, SwappingFacts DEF Sound, JournalOf, PlacesOf, VersionOf, Exists
<1>5. CASE pc[i] \notin Swapping
  <2>1. pc'[i] \in Ended \cup {"cleanup"}
    BY <1>1, <1>2, <1>5, HandlerPlaces
  <2>2. QED
    BY <1>3, <2>1, NothingMore
<1>6. QED
  BY <1>4, <1>5

-----------------------------------------------------------------------------
(* The invariant.                                                          *)

\* A step of the process that has the lock.
StoreStep(i) ==
  \/ Recover(i) \/ RecoverBackup(i) \/ RecoverStaging(i) \/ RecoverUnlink(i)
  \/ Rollback(i) \/ RollbackClear(i) \/ RollbackAside(i) \/ RollbackRestore(i)
  \/ RollbackDiscard(i) \/ RollbackDone(i)
  \/ Check(i) \/ Stage(i) \/ StageWrite(i) \/ Publish(i) \/ Install(i)
  \/ Prepare(i) \/ SwapOut(i) \/ MarkBackedUp(i)
  \/ SwapIn(i) \/ MarkCommitted(i) \/ DropBackup(i) \/ DropJournal(i)
  \/ AbortUnlink(i) \/ Cleanup(i) \/ RaiseBefore(i)

\* It moves no other process, and the journal is its own, gone or as it was.
LEMMA StoreStepFrame ==
  ASSUME IInv, NEW i \in Imports, StoreStep(i)
  PROVE  /\ pc[i] \in Critical
         /\ \A j \in Imports : j # i => pc'[j] = pc[j] /\ tx'[j] = tx[j]
         /\ journal'.owner \in {journal.owner, i, Nobody}
         /\ before' = before
<1>1. TypeOK /\ NoJournal.owner = Nobody
  BY JournalShape DEF IInv
<1>2. ASSUME NEW to, Then(i, to), pc[i] \in Critical
      PROVE  \A j \in Imports : j # i => pc'[j] = pc[j]
  BY <1>1, <1>2, GoEffect, RaiseEffect DEF Then
<1>3. ASSUME NEW at \in Critical, NEW name, NEW to, Remove(i, at, name, to)
      PROVE  /\ pc[i] \in Critical
             /\ \A j \in Imports : j # i => pc'[j] = pc[j]
             /\ journal' = journal /\ tx' = tx /\ before' = before
  BY <1>1, <1>3, GoEffect DEF Remove
<1>4. CASE Recover(i) \/ Rollback(i) \/ Check(i) \/ Publish(i)
  BY <1>1, <1>4, GoEffect DEF Recover, Rollback, Check, Publish, store, TypeOK
<1>5. CASE RecoverBackup(i) \/ RecoverStaging(i) \/ RollbackClear(i)
  BY <1>3, <1>5 DEF RecoverBackup, RecoverStaging, RollbackClear
<1>6. CASE RollbackDiscard(i) \/ DropBackup(i)
  BY <1>3, <1>6 DEF RollbackDiscard, DropBackup
<1>7. CASE Cleanup(i)
  BY <1>3, <1>7 DEF Cleanup
<1>8. CASE RollbackAside(i) \/ RollbackRestore(i) \/ Stage(i) \/ StageWrite(i) \/ Install(i)
  BY <1>1, <1>8, GoEffect DEF RollbackAside, RollbackRestore, Stage, StageWrite, Install
<1>9. CASE RecoverUnlink(i) \/ RollbackDone(i) \/ SwapOut(i) \/ SwapIn(i)
  BY <1>1, <1>2, <1>9 DEF RecoverUnlink, RollbackDone, SwapOut, SwapIn, store
<1>10. CASE MarkBackedUp(i) \/ MarkCommitted(i) \/ DropJournal(i) \/ AbortUnlink(i)
  BY <1>1, <1>2, <1>10 DEF MarkBackedUp, MarkCommitted, DropJournal, AbortUnlink, WriteJournal
<1>11. CASE Prepare(i)
  BY <1>1, <1>2, <1>11, GoEffect DEF Prepare, WriteJournal, TypeOK
<1>12. CASE RaiseBefore(i)
  BY <1>1, <1>12, GoEffect, RaiseEffect DEF RaiseBefore, store
<1>13. QED
  BY <1>4, <1>5, <1>6, <1>7, <1>8, <1>9, <1>10, <1>11, <1>12 DEF StoreStep

LEMMA StoreStepKeeps ==
  ASSUME IInv, NEW i \in Imports, StoreStep(i)
  PROVE  StoreSound' /\ \A j \in Imports : JournalOf(j)' /\ PlacesOf(j)' /\ VersionOf(j)'
<1>1. Sound(i)'
  BY RecoverKeeps, RecoverBackupKeeps, RecoverStagingKeeps, RecoverUnlinkKeeps, RollbackKeeps,
     RollbackClearKeeps, RollbackAsideKeeps, RollbackRestoreKeeps, RollbackDoneKeeps, CheckKeeps,
     StageKeeps, InstallKeeps, PrepareKeeps, SwapOutKeeps, MarkBackedUpKeeps, SwapInKeeps,
     MarkCommittedKeeps, DropBackupKeeps, JournalGoes, CleanupKeeps, RaiseBeforeKeeps
     DEF StoreStep
<1>2. ASSUME NEW j \in Imports, j # i
      PROVE  JournalOf(j)' /\ PlacesOf(j)' /\ VersionOf(j)'
  BY <1>2, StoreStepFrame, OneAtWork, OthersKeep
<1>3. QED
  BY <1>1, <1>2 DEF Sound

\* A step before the lock, or the end of a process.
LEMMA OtherStepKeeps ==
  ASSUME IInv, NEW i \in Imports, Step(i) \/ Crash(i), ~StoreStep(i), ~LockMayFail
  PROVE  StoreSound' /\ \A j \in Imports : JournalOf(j)' /\ PlacesOf(j)' /\ VersionOf(j)'
<1>1. CASE TakeLock(i)
  <2>1. Sound(i)'
    BY <1>1, TakeLockKeeps
  <2>2. ASSUME NEW j \in Imports, j # i
        PROVE  JournalOf(j)' /\ PlacesOf(j)' /\ VersionOf(j)'
    <3>1. pc[j] \notin Critical
      BY <1>1, <2>2, NamesAssumption DEF TakeLock, LockIsFree, IInv, LocksAgree
    <3>2. pc'[j] = pc[j] /\ tx' = tx /\ journal' = journal
      BY <1>1, <2>2 DEF TakeLock, IInv, TypeOK, store
    <3>3. QED
      BY <2>2, <3>1, <3>2, OthersKeep
  <2>3. QED
    BY <2>1, <2>2 DEF Sound
<1>2. CASE ~TakeLock(i)
  <2>1. \E to \in Locking \cup Ended :
          Go(i, to) /\ (to \in Locking => pc[i] \in Locking) /\ UNCHANGED <<store, tx, before>>
    BY <1>2 DEF Step, StoreStep, CreateLock, SeeLock, OpenLock, InitLock, SyncLock,
       InitLockFails, CheckLock, LockIsTaken, Crash
  <2>2. QED
    BY <2>1, Elsewhere
<1>3. QED
  BY <1>1, <1>2

\* The invariant holds at the start.
LEMMA Initially ==
  ASSUME Init
  PROVE  IInv
<1>1. PICK v \in {Old, "absent"} : dir = [n \in Names |-> IF n = Target THEN v ELSE "absent"]
  BY DEF Init
<1>2. /\ dir \in [Names -> Contents] /\ dir[Target] = v /\ v \in Contents
      /\ \A i \in Imports : dir[Backup(i)] = "absent" /\ dir[Staging(i)] = "absent"
  BY <1>1, NamesDiffer DEF Contents
<1>3. journal = NoJournal /\ journal.owner = Nobody /\ journal \in Journals
  BY JournalShape DEF Init
<1>4. TypeOK
  BY <1>2, <1>3, FaultsAssumption DEF Init, TypeOK
<1>5. LocksAgree
  BY DEF Init, LocksAgree
<1>6. StoreSound
  BY <1>2, <1>3, NamesAssumption DEF StoreSound, Exists
<1>7. \A i \in Imports : JournalOf(i) /\ PlacesOf(i) /\ VersionOf(i)
  BY <1>3, NamesAssumption DEF Init, JournalOf, PlacesOf, VersionOf
<1>8. QED
  BY <1>4, <1>5, <1>6, <1>7 DEF IInv

\* Every step keeps it.
LEMMA Inductive ==
  ASSUME ~LockMayFail, IInv, [Next]_vars
  PROVE  IInv'
<1>1. CASE UNCHANGED vars
  <2>1. /\ dir' = dir /\ journal' = journal /\ pc' = pc /\ tx' = tx /\ before' = before
        /\ lock_path' = lock_path /\ lock_size' = lock_size /\ lock_held' = lock_held
        /\ fd' = fd /\ overwrite' = overwrite /\ faults' = faults
    BY <1>1 DEF vars, store, locking
  <2>2. Recoverable' = Recoverable
    BY <2>1 DEF Recoverable, Exists
  <2>3. TypeOK' /\ LocksAgree' /\ StoreSound'
    BY <2>1 DEF IInv, TypeOK, LocksAgree, StoreSound, Exists
  <2>4. \A i \in Imports : JournalOf(i)' /\ PlacesOf(i)' /\ VersionOf(i)'
    BY <2>1, <2>2 DEF IInv, JournalOf, PlacesOf, VersionOf, Exists
  <2>5. QED
    BY <2>3, <2>4 DEF IInv
<1>2. ASSUME NEW i \in Imports, Step(i) \/ Crash(i)
      PROVE  IInv'
  <2>1. TypeOK' /\ LocksAgree'
    BY <1>2, StepTypes, LocksKeep DEF IInv, JournalOf, TxKnown
  <2>2. StoreSound' /\ \A j \in Imports : JournalOf(j)' /\ PlacesOf(j)' /\ VersionOf(j)'
    BY <1>2, StoreStepKeeps, OtherStepKeeps
  <2>3. QED
    BY <2>1, <2>2 DEF IInv
<1>3. QED
  BY <1>1, <1>2 DEF Next

LEMMA Invariance == ASSUME ~LockMayFail PROVE Spec => []IInv
BY Initially, Inductive, PTL DEF Spec

-----------------------------------------------------------------------------
(* The properties.                                                         *)

\* bundle._import_run_lock: two imports are never past the lock at once.
THEOREM OneImportAtATime == ASSUME ~LockMayFail PROVE Spec => []LockExclusive
<1>1. IInv => LockExclusive
  BY OneAtWork DEF LockExclusive
<1>2. QED
  BY <1>1, Invariance, PTL

\* bundle._publish_import: what readers find at the run's place is whole.
THEOREM ReadersFindWholeRuns == ASSUME ~LockMayFail PROVE Spec => []TargetWhole
<1>1. IInv => TargetWhole
  BY DEF IInv, StoreSound, TargetWhole
<1>2. QED
  BY <1>1, Invariance, PTL

\* bundle._recover_import_transaction: once recovery is over, however the
\* transaction before it ended, the run is at its place in the version recovery
\* promises and nothing is left of that transaction.
THEOREM RecoveryRestores == ASSUME ~LockMayFail PROVE Spec => []RecoveryComplete
<1>1. ASSUME IInv, NEW i \in Imports, pc[i] = "check"
      PROVE  /\ journal = NoJournal
             /\ dir[Target] = before
             /\ tx[i] # Nobody => ~Exists(Staging(tx[i])) /\ ~Exists(Backup(tx[i]))
  <2>1. tx[i] # Nobody => tx[i] \in Imports
    BY <1>1 DEF IInv, TypeOK
  <2>2. QED
    BY <1>1, <2>1, StagedFacts DEF IInv, PlacesOf
<1>2. IInv => RecoveryComplete
  BY <1>1 DEF RecoveryComplete
<1>3. QED
  BY <1>2, Invariance, PTL

-----------------------------------------------------------------------------
(* Without kills and failures.                                             *)

\* What was undisturbed after a step was so before, and the step did not raise.
LEMMA UndisturbedBefore ==
  ASSUME IInv, NEW i \in Imports, Step(i) \/ Crash(i), Undisturbed'
  PROVE  /\ Undisturbed
         /\ ~RaiseBefore(i) /\ ~Crash(i)
         /\ \A to : Then(i, to) => Go(i, to)
<1>1. TypeOK /\ faults \in Nat
  BY FaultsAssumption DEF IInv, TypeOK
<1>2. ~Raise(i)
  BY <1>1 DEF Raise, Undisturbed
<1>3. ~Crash(i)
  <2>1. ASSUME Crash(i) PROVE pc'[i] = "crashed"
    BY <1>1, <2>1, GoEffect DEF Crash
  <2>2. QED
    BY <2>1 DEF Undisturbed
<1>4. ~RaiseBefore(i)
  BY <1>2 DEF RaiseBefore
<1>5. faults = 0
  BY <1>1, <1>2, <1>3, <1>4 DEF Undisturbed, Step, Then, Remove, CreateLock, SeeLock, OpenLock,
     InitLock, SyncLock, InitLockFails, CheckLock, TakeLock, LockIsTaken, Recover, RecoverBackup,
     RecoverStaging, RecoverUnlink, Rollback, RollbackClear, RollbackAside, RollbackRestore,
     RollbackDiscard, RollbackDone, Check, Stage, StageWrite, Publish, Install, Prepare, SwapOut,
     MarkBackedUp, SwapIn, MarkCommitted, DropBackup, DropJournal, AbortUnlink, Cleanup
<1>6. \A j \in Imports : pc[j] # "crashed"
  <2>1. SUFFICES ASSUME NEW j \in Imports, pc[j] = "crashed" PROVE FALSE
    OBVIOUS
  <2>2. CASE StoreStep(i)
    BY <2>1, <2>2, StoreStepFrame DEF Undisturbed
  <2>3. CASE ~StoreStep(i)
    BY <1>1, <1>3, <2>1, <2>3, GoEffect DEF Undisturbed, Step, StoreStep, CreateLock, SeeLock,
       OpenLock, InitLock, SyncLock, InitLockFails, CheckLock, TakeLock, LockIsTaken, TypeOK
  <2>4. QED
    BY <2>2, <2>3
<1>7. QED
  BY <1>2, <1>3, <1>4, <1>5, <1>6 DEF Undisturbed, Then

\* Undisturbed, a process that gets the lock finds no journal, so it is never
\* recovering or rolling back.
LEMMA NothingToRecover ==
  ASSUME IInv, NEW i \in Imports, pc[i] \in Recovering \cup RollingBack \cup {"ab_unlink"},
         \A j \in Imports : AtWork(j)
  PROVE  pc[i] = "recover" /\ journal = NoJournal
<1>1. ASSUME NEW k \in Imports, journal.owner = k, k # i
      PROVE  FALSE
  BY <1>1, OneAtWork DEF AtWork
<1>2. pc[i] \in Recovering
  BY DEF AtWork
<1>3. journal.owner # i
  BY <1>2 DEF IInv, JournalOf
<1>4. journal.owner \notin Imports
  BY <1>1, <1>3
<1>5. journal = NoJournal
  BY <1>4, JournalShape DEF IInv, TypeOK
<1>6. pc[i] = "recover"
  BY <1>2, <1>4 DEF IInv, JournalOf
<1>7. QED
  BY <1>5, <1>6

\* Undisturbed, a step of the process with the lock keeps its journal and its
\* staging with its place, and those of the others.
LEMMA AtWorkStep ==
  ASSUME IInv, NEW i \in Imports, StoreStep(i), Undisturbed', \A j \in Imports : AtWork(j)
  PROVE  \A j \in Imports : AtWork(j)'
<1>1. /\ pc[i] \in Critical
      /\ \A j \in Imports : j # i => pc'[j] = pc[j]
      /\ journal'.owner \in {journal.owner, i, Nobody}
  BY StoreStepFrame
<1>2. ~RaiseBefore(i) /\ \A to : Then(i, to) => Go(i, to)
  BY UndisturbedBefore DEF Step, StoreStep
<1>3. TypeOK /\ \A to : Go(i, to) => pc'[i] = to
  BY GoEffect DEF IInv
<1>4. pc[i] \in Recovering \cup RollingBack \cup {"ab_unlink"} =>
        pc[i] = "recover" /\ journal = NoJournal
  BY NothingToRecover
<1>5. /\ \A j \in Imports : j # i => dir'[Staging(j)] = dir[Staging(j)]
      /\ AtWork(i)'
  <2>1. CASE Recover(i)
    BY <1>3, <1>4, <2>1, JournalShape, NamesAssumption DEF Recover, AtWork, store, Exists
  <2>2. CASE Check(i) \/ Publish(i)
    BY <1>3, <2>2 DEF Check, Publish, AtWork, store, Exists
  <2>3. CASE Stage(i) \/ StageWrite(i)
    <3>1. \A j \in Imports : j # i => dir'[Staging(j)] = dir[Staging(j)]
      BY <1>3, <2>3, NamesDiffer DEF Stage, StageWrite, TypeOK
    <3>2. QED
      BY <1>3, <2>3, <3>1 DEF Stage, StageWrite, AtWork
  <2>4. CASE Install(i)
    <3>1. CASE Exists(Target)
      BY <1>3, <2>4, <3>1 DEF Install, AtWork, Exists
    <3>2. CASE ~Exists(Target)
      <4>1. Go(i, "done") /\ Rename(Staging(i), Target) /\ journal' = journal /\ pc[i] = "install"
        BY <2>4, <3>2 DEF Install
      <4>2. /\ dir'[Staging(i)] = "absent"
            /\ \A j \in Imports : j # i => dir'[Staging(j)] = dir[Staging(j)]
        BY <1>3, <4>1, RenameEffect, NamesDiffer
      <4>3. QED
        BY <1>3, <4>1, <4>2 DEF AtWork, Exists
    <3>3. QED
      BY <3>1, <3>2
  <2>5. CASE Prepare(i)
    <3>1. dir' = dir /\ pc[i] = "prepare" /\ journal = NoJournal
      BY <2>5, StagedFacts DEF Prepare
    <3>2. pc'[i] = "swap_out"
      BY <1>2, <1>3, <2>5, <3>1 DEF Prepare
    <3>3. QED
      BY <3>1, <3>2 DEF AtWork, Exists
  <2>6. CASE SwapOut(i)
    <3>1. \A j \in Imports : dir'[Staging(j)] = dir[Staging(j)]
      BY <1>3, <2>6, RenameEffect, NamesDiffer DEF SwapOut
    <3>2. QED
      BY <1>2, <1>3, <2>6, <3>1 DEF SwapOut, AtWork, Exists
  <2>7. CASE SwapIn(i)
    <3>1. /\ dir'[Staging(i)] = "absent"
          /\ \A j \in Imports : j # i => dir'[Staging(j)] = dir[Staging(j)]
      BY <1>3, <2>7, RenameEffect, NamesDiffer DEF SwapIn
    <3>2. QED
      BY <1>2, <1>3, <2>7, <3>1 DEF SwapIn, AtWork, Exists
  <2>8. CASE MarkBackedUp(i) \/ MarkCommitted(i)
    BY <1>2, <1>3, <2>8 DEF MarkBackedUp, MarkCommitted, AtWork, Exists
  <2>9. CASE DropBackup(i)
    <3>1. \A j \in Imports : dir'[Staging(j)] = dir[Staging(j)]
      BY <1>3, <2>9, RemoveEffect, NamesDiffer DEF DropBackup
    <3>2. pc'[i] \in {"drop_backup", "drop_journal"} /\ journal' = journal /\ pc[i] = "drop_backup"
      BY <1>3, <2>9 DEF DropBackup, Remove
    <3>3. QED
      BY <3>1, <3>2 DEF AtWork, Exists
  <2>10. CASE DropJournal(i)
    BY <1>2, <1>3, <2>10, JournalShape, NamesAssumption DEF DropJournal, AtWork, Exists
  <2>11. CASE Cleanup(i)
    <3>1. Remove(i, "cleanup", Staging(i), "failed") /\ pc[i] = "cleanup" /\ Staging(i) \in Names
      BY <2>11, NamesDiffer DEF Cleanup, Remove
    <3>2. /\ (pc'[i] = "failed" /\ dir'[Staging(i)] = "absent") \/ pc' = pc
          /\ \A n \in Names : n # Staging(i) => dir'[n] = dir[n]
          /\ journal' = journal
      BY <1>3, <3>1, RemoveEffect
    <3>3. QED
      BY <3>1, <3>2, NamesDiffer DEF AtWork, Exists
  <2>12. QED
    BY <1>2, <1>4, <2>1, <2>2, <2>3, <2>4, <2>5, <2>6, <2>7, <2>8, <2>9, <2>10, <2>11
       DEF StoreStep, RecoverBackup, RecoverStaging, RecoverUnlink, Rollback, RollbackClear,
       RollbackAside, RollbackRestore, RollbackDiscard, RollbackDone, AbortUnlink, Remove
<1>6. ASSUME NEW j \in Imports, j # i
      PROVE  AtWork(j)'
  BY <1>1, <1>5, <1>6, NamesAssumption DEF AtWork, Exists
<1>7. QED
  BY <1>5, <1>6

LEMMA OwnersStayAtWork ==
  ASSUME ~LockMayFail, IInv, OwnersAtWork, [Next]_vars
  PROVE  OwnersAtWork'
<1>1. CASE UNCHANGED vars
  BY <1>1 DEF vars, store, OwnersAtWork, Undisturbed, AtWork, Exists
<1>2. ASSUME NEW i \in Imports, Step(i) \/ Crash(i), Undisturbed'
      PROVE  \A j \in Imports : AtWork(j)'
  <2>1. \A j \in Imports : AtWork(j)
    BY <1>2, UndisturbedBefore DEF OwnersAtWork
  <2>2. CASE StoreStep(i)
    BY <1>2, <2>1, <2>2, AtWorkStep
  <2>3. CASE ~StoreStep(i)
    <3>1. /\ dir' = dir /\ journal' = journal /\ pc[i] \in Locking
          /\ pc'[i] \in Locking \cup Ended \cup {"recover"}
          /\ \A j \in Imports : j # i => pc'[j] = pc[j]
      BY <1>2, <2>3, UndisturbedBefore, GoEffect
         DEF Step, StoreStep, CreateLock, SeeLock, OpenLock, InitLock, SyncLock, InitLockFails,
         CheckLock, TakeLock, LockIsTaken, store, IInv, TypeOK
    <3>2. QED
      BY <2>1, <3>1 DEF AtWork, Exists
  <2>4. QED
    BY <2>2, <2>3
<1>3. QED
  BY <1>1, <1>2 DEF OwnersAtWork, Next

\* bundle.import_bundle, when nothing goes wrong: no staging, backup or journal
\* outlives the imports.
THEOREM NothingStaysBehind == ASSUME ~LockMayFail PROVE Spec => []NoLeftovers
<1>1. Init => OwnersAtWork
  <2>1. ASSUME Init, NEW i \in Imports PROVE AtWork(i)
    BY <2>1, NamesDiffer, JournalShape, NamesAssumption DEF Init, AtWork, Exists
  <2>2. QED
    BY <2>1 DEF OwnersAtWork
<1>2. IInv /\ OwnersAtWork => NoLeftovers
  <2>1. SUFFICES ASSUME IInv, OwnersAtWork, faults = 0,
                        \A i \in Imports : ~Active(i) /\ pc[i] # "crashed"
                 PROVE  /\ journal = NoJournal
                        /\ \A i \in Imports : ~Exists(Staging(i)) /\ ~Exists(Backup(i))
    BY DEF NoLeftovers
  <2>2. \A i \in Imports : AtWork(i) /\ pc[i] \notin Critical
    BY <2>1 DEF OwnersAtWork, Undisturbed, Active
  <2>3. \A i \in Imports : journal.owner # i /\ ~Exists(Staging(i))
    BY <2>2 DEF AtWork
  <2>4. QED
    BY <2>1, <2>3, JournalShape DEF IInv, StoreSound, TypeOK
<1>3. QED
  BY <1>1, <1>2, Invariance, OwnersStayAtWork, PTL DEF Spec

-----------------------------------------------------------------------------
(* With at most one failing call no rollback fails, and every failed import *)
(* is undone.                                                               *)

\* Faults are only ever counted up.
LEMMA FaultsGrow ==
  ASSUME TypeOK, NEW i \in Imports, Step(i) \/ Crash(i)
  PROVE  faults \in Nat /\ (faults' = faults \/ (Raise(i) /\ faults' = faults + 1))
<1>1. faults \in Nat
  BY FaultsAssumption DEF TypeOK
<1>2. QED
  BY <1>1 DEF Step, Crash, Then, Raise, Remove, RaiseBefore, CreateLock, SeeLock, OpenLock,
     InitLock, SyncLock, InitLockFails, CheckLock, TakeLock, LockIsTaken, Recover, RecoverBackup,
     RecoverStaging, RecoverUnlink, Rollback, RollbackClear, RollbackAside, RollbackRestore,
     RollbackDiscard, RollbackDone, Check, Stage, StageWrite, Publish, Install, Prepare, SwapOut,
     MarkBackedUp, SwapIn, MarkCommitted, DropBackup, DropJournal, AbortUnlink, Cleanup

\* How a process comes to roll back, to unlink the journal of a transaction it
\* has rolled back, and to clean up.
LEMMA WaysToUndo ==
  ASSUME IInv, NEW i \in Imports, StoreStep(i)
  PROVE  /\ pc'[i] \in RollingBack /\ tx'[i] = i =>
              Raise(i) \/ (pc[i] \in RollingBack /\ tx[i] = i)
         /\ pc'[i] = "ab_unlink" => (pc[i] = "rb_done" /\ tx[i] = i) \/ pc[i] = "ab_unlink"
<1>1. TypeOK /\ \A to : Go(i, to) => pc'[i] = to
  BY GoEffect DEF IInv
<1>2. CASE Recover(i)
  <2>1. CASE journal = NoJournal
    BY <1>1, <1>2, <2>1 DEF Recover
  <2>2. CASE journal # NoJournal
    <3>1. tx'[i] = journal.owner /\ pc'[i] \in {"rc_backup", "rollback"} /\ pc[i] = "recover"
      BY <1>1, <1>2, <2>2 DEF Recover, TypeOK
    <3>2. journal.owner # i
      BY <3>1 DEF IInv, JournalOf
    <3>3. QED
      BY <3>1, <3>2
  <2>3. QED
    BY <2>1, <2>2
<1>3. CASE RecoverBackup(i) \/ RecoverStaging(i) \/ RollbackClear(i) \/ RollbackDiscard(i)
           \/ DropBackup(i) \/ Cleanup(i)
  <2>1. \/ pc'[i] = pc[i] /\ tx' = tx
        \/ pc'[i] \in {"rc_staging", "rc_unlink", "drop_journal", "failed"}
        \/ pc'[i] \in RollingBack /\ pc[i] \in RollingBack /\ tx' = tx
    <3>1. ASSUME NEW at, NEW name, NEW to, Remove(i, at, name, to)
          PROVE  pc[i] = at /\ tx' = tx /\ (pc'[i] = pc[i] \/ pc'[i] = to)
      BY <1>1, <3>1 DEF Remove
    <3>2. CASE RecoverBackup(i) \/ RecoverStaging(i) \/ RollbackClear(i)
      BY <3>1, <3>2 DEF RecoverBackup, RecoverStaging, RollbackClear
    <3>3. CASE RollbackDiscard(i) \/ DropBackup(i)
      BY <3>1, <3>3 DEF RollbackDiscard, DropBackup
    <3>4. CASE Cleanup(i)
      BY <3>1, <3>4 DEF Cleanup
    <3>5. QED
      BY <1>3, <3>2, <3>3, <3>4
  <2>2. QED
    BY <2>1
<1>4. CASE Rollback(i) \/ RollbackAside(i) \/ RollbackRestore(i)
  BY <1>1, <1>4 DEF Rollback, RollbackAside, RollbackRestore
<1>5. CASE RollbackDone(i)
  <2>1. CASE Raise(i)
    <3>1. pc[i] = "rb_done" /\ pc'[i] \in {"cleanup", "failed"}
      BY <1>1, <1>5, <2>1, HandlerPlaces DEF RollbackDone, Raise
    <3>2. QED
      BY <3>1
  <2>2. CASE Go(i, IF tx[i] = i THEN "ab_unlink" ELSE "rc_staging")
    BY <1>1, <1>5, <2>2 DEF RollbackDone
  <2>3. QED
    BY <1>5, <2>1, <2>2 DEF RollbackDone, Then
<1>6. CASE \E to \in {"check", "swap_out", "mark_backed_up", "swap_in", "mark_committed",
                      "drop_backup", "done", "cleanup"} : Then(i, to) /\ pc[i] \in Critical
  <2>1. CASE Raise(i)
    <3>1. pc'[i] \in {"failed", "cleanup", "rollback", "done"}
      BY <1>1, <1>6, <2>1, RaiseEffect
    <3>2. QED
      BY <2>1, <3>1
  <2>2. QED
    BY <1>1, <1>6, <2>1 DEF Then
<1>7. CASE Check(i) \/ Stage(i) \/ StageWrite(i) \/ Publish(i) \/ Install(i)
  BY <1>1, <1>7 DEF Check, Stage, StageWrite, Publish, Install
<1>8. CASE RaiseBefore(i)
  <2>1. Raise(i) /\ pc[i] \in Critical
    BY <1>8 DEF RaiseBefore
  <2>2. pc'[i] \in {"failed", "cleanup", "rollback", "done"}
    BY <1>1, <2>1, RaiseEffect
  <2>3. QED
    BY <2>1, <2>2
<1>9. CASE Prepare(i) /\ journal # NoJournal
  BY <1>9, StagedFacts DEF Prepare
<1>10. QED
  BY <1>2, <1>3, <1>4, <1>5, <1>6, <1>7, <1>8, <1>9
     DEF StoreStep, RecoverUnlink, Prepare, SwapOut, MarkBackedUp, SwapIn, MarkCommitted,
     DropJournal, AbortUnlink

\* A process that is not past the lock is not undoing anything.
LEMMA FaultsBeforeUndo ==
  ASSUME ~LockMayFail, IInv, RollbackAfterFault, [Next]_vars
  PROVE  RollbackAfterFault'
<1>1. CASE UNCHANGED vars
  BY <1>1 DEF vars, RollbackAfterFault
<1>2. ASSUME NEW i \in Imports, Step(i) \/ Crash(i), NEW j \in Imports
      PROVE  /\ pc'[j] \in RollingBack /\ tx'[j] = j => faults' > 0
             /\ pc'[j] = "ab_unlink" => faults' > 0
  <2>1. faults \in Nat /\ (faults' = faults \/ (Raise(i) /\ faults' = faults + 1))
    BY <1>2, FaultsGrow DEF IInv
  <2>2. faults > 0 => faults' > 0
    BY <2>1
  <2>3. CASE StoreStep(i)
    <3>1. CASE j = i
      <4>1. Raise(i) => faults' > 0
        BY <2>1, <2>3, StoreStepFrame, RaiseEffect DEF IInv
      <4>2. QED
        BY <2>2, <2>3, <3>1, <4>1, WaysToUndo DEF RollbackAfterFault
    <3>2. CASE j # i
      BY <2>2, <2>3, <3>2, StoreStepFrame DEF RollbackAfterFault
    <3>3. QED
      BY <3>1, <3>2
  <2>4. CASE ~StoreStep(i)
    <3>1. /\ tx' = tx /\ pc'[i] \in Locking \cup Ended \cup {"recover"}
          /\ j # i => pc'[j] = pc[j]
      BY <1>2, <2>4, GoEffect
         DEF Step, StoreStep, CreateLock, SeeLock, OpenLock, InitLock, SyncLock, InitLockFails,
         CheckLock, TakeLock, LockIsTaken, Crash, IInv, TypeOK
    <3>2. QED
      BY <2>2, <3>1 DEF RollbackAfterFault
  <2>5. QED
    BY <2>3, <2>4
<1>3. QED
  BY <1>1, <1>2 DEF RollbackAfterFault, Next

\* Whatever raises or gives up before the rollback is over leaves the version
\* it found.
LEMMA CleanupIsUndone ==
  ASSUME MaxFaults <= 1, IInv, RollbackAfterFault, FailedIsUndone,
         NEW i \in Imports, StoreStep(i), pc'[i] = "cleanup"
  PROVE  Recoverable' = before'
<1>1. TypeOK /\ \A to : Go(i, to) => pc'[i] = to
  BY GoEffect DEF IInv
<1>2. before' = before /\ pc[i] \in Critical
  BY StoreStepFrame
<1>3. ASSUME Raise(i)
      PROVE  pc[i] \in Staged /\ pc'[i] = Handler(i)
  <2>1. faults \in Nat /\ faults < MaxFaults
    BY <1>1, <1>3, FaultsAssumption DEF Raise, TypeOK
  <2>2. faults = 0
    BY <2>1, FaultsAssumption
  <2>3. ~(pc[i] \in RollingBack /\ tx[i] = i) /\ pc[i] # "ab_unlink"
    BY <2>2 DEF RollbackAfterFault
  <2>4. Handler(i) = "cleanup" /\ pc'[i] = Handler(i)
    BY <1>1, <1>3 DEF Raise
  <2>5. QED
    BY <1>2, <2>3, <2>4, HandlerPlaces
<1>4. CASE pc[i] \in Staged
  <2>1. dir[Target] = before /\ \A k \in Imports : ~Exists(Backup(k))
    BY <1>4, StagedFacts
  <2>2. CASE journal' = NoJournal
    <3>1. dir' = dir
      BY <1>1, <1>4, <2>2 DEF StoreStep, Recover, RecoverBackup, RecoverStaging, RecoverUnlink,
         Rollback, RollbackClear, RollbackAside, RollbackRestore, RollbackDiscard, RollbackDone,
         Check, Stage, StageWrite, Publish, Install, Prepare, SwapOut, MarkBackedUp, SwapIn,
         MarkCommitted, DropBackup, DropJournal, AbortUnlink, Cleanup, RaiseBefore, Remove, store
    <3>2. QED
      BY <1>2, <2>1, <2>2, <3>1 DEF Recoverable
  <2>3. CASE journal' # NoJournal
    <3>1. Prepare(i)
      BY <1>4, <2>3, StagedFacts DEF StoreStep, Recover, RecoverBackup, RecoverStaging,
         RecoverUnlink, Rollback, RollbackClear, RollbackAside, RollbackRestore, RollbackDiscard,
         RollbackDone, Check, Stage, StageWrite, Publish, Install, SwapOut, MarkBackedUp,
         SwapIn, MarkCommitted, DropBackup, DropJournal, AbortUnlink, Cleanup, RaiseBefore,
         Remove, store
    <3>2. dir' = dir /\ journal'.owner = i
      BY <1>4, <3>1, StagedFacts DEF Prepare, WriteJournal
    <3>3. QED
      BY <1>2, <2>1, <3>2 DEF Recoverable, Exists
  <2>4. QED
    BY <2>2, <2>3
<1>5. CASE pc[i] \notin Staged
  <2>1. ~Raise(i)
    BY <1>3, <1>5
  <2>2. AbortUnlink(i) \/ Cleanup(i)
    BY <1>1, <1>5, <2>1 DEF StoreStep, Recover, RecoverBackup, RecoverStaging, RecoverUnlink,
       Rollback, RollbackClear, RollbackAside, RollbackRestore, RollbackDiscard, RollbackDone,
       Check, Stage, StageWrite, Publish, Install, Prepare, SwapOut, MarkBackedUp, SwapIn,
       MarkCommitted, DropBackup, DropJournal, AbortUnlink, RaiseBefore, Remove, Then
  <2>3. CASE AbortUnlink(i)
    <3>1. journal' = NoJournal /\ dir' = dir /\ dir[Target] = before
      BY <2>3, FinishingFacts DEF AbortUnlink
    <3>2. QED
      BY <1>2, <3>1 DEF Recoverable
  <2>4. CASE Cleanup(i)
    <3>1. Recoverable' = Recoverable /\ pc[i] = "cleanup"
      BY <2>4, StagingGoes DEF Cleanup
    <3>2. QED
      BY <1>2, <3>1 DEF FailedIsUndone
  <2>5. QED
    BY <2>2, <2>3, <2>4
<1>6. QED
  BY <1>4, <1>5

LEMMA FailuresUndone ==
  ASSUME ~LockMayFail, MaxFaults <= 1, IInv, RollbackAfterFault, FailedIsUndone, [Next]_vars
  PROVE  FailedIsUndone'
<1>1. CASE UNCHANGED vars
  BY <1>1 DEF vars, store, FailedIsUndone, Recoverable, Exists
<1>2. ASSUME NEW i \in Imports, Step(i) \/ Crash(i), NEW j \in Imports, pc'[j] = "cleanup"
      PROVE  Recoverable' = before'
  <2>1. CASE StoreStep(i)
    <3>1. pc[i] \in Critical /\ \A k \in Imports : k # i => pc'[k] = pc[k]
      BY <2>1, StoreStepFrame
    <3>2. j = i
      BY <1>2, <3>1, OneAtWork
    <3>3. QED
      BY <1>2, <2>1, <3>2, CleanupIsUndone
  <2>2. CASE ~StoreStep(i)
    <3>1. /\ dir' = dir /\ journal' = journal
          /\ pc'[i] \in Locking \cup Ended \cup {"recover"}
          /\ j # i => pc'[j] = pc[j]
          /\ before' = before \/ TakeLock(i)
      BY <1>2, <2>2, GoEffect
         DEF Step, StoreStep, CreateLock, SeeLock, OpenLock, InitLock, SyncLock, InitLockFails,
         CheckLock, TakeLock, LockIsTaken, Crash, IInv, TypeOK, store
    <3>2. pc[j] = "cleanup" /\ j # i
      BY <1>2, <3>1
    <3>3. ~TakeLock(i)
      BY <3>2, NamesAssumption DEF TakeLock, LockIsFree, IInv, LocksAgree
    <3>4. QED
      BY <3>1, <3>2, <3>3 DEF FailedIsUndone, Recoverable, Exists
  <2>3. QED
    BY <2>1, <2>2
<1>3. QED
  BY <1>1, <1>2 DEF FailedIsUndone, Next

-----------------------------------------------------------------------------
(* The transaction implements the atomic replacement.                      *)

\* While an import has the lock the recoverable version is the one it found or
\* the one it brings.
TwoVersions == \A i \in Imports : pc[i] \in Critical => Recoverable \in {before, i}

LEMMA OldOrNew == IInv /\ FailedIsUndone => TwoVersions
<1>1. SUFFICES ASSUME IInv, FailedIsUndone, NEW i \in Imports, pc[i] \in Critical
               PROVE  Recoverable \in {before, i}
  BY DEF TwoVersions
<1>2. CASE pc[i] \in Recovering \cup Staged \cup Swapping
  BY <1>1, <1>2 DEF IInv, VersionOf
<1>3. CASE pc[i] \in RollingBack
  <2>1. journal # NoJournal
    BY <1>1, <1>3, RollingBackFacts, JournalShape, NamesAssumption
  <2>2. QED
    BY <1>1, <1>3, <2>1, RollingBackFacts DEF Recoverable, Exists
<1>4. CASE pc[i] \in {"drop_backup", "drop_journal", "ab_unlink"}
  BY <1>1, <1>4, FinishingFacts DEF Recoverable, Exists
<1>5. CASE pc[i] = "cleanup"
  BY <1>1, <1>5 DEF FailedIsUndone
<1>6. QED
  BY <1>1, <1>2, <1>3, <1>4, <1>5

\* The process at work.
AtTurn == IF Running = {} THEN Nobody ELSE CHOOSE i \in Imports : i \in Running

LEMMA TurnOf ==
  ASSUME IInv
  PROVE  /\ \A i \in Imports : pc[i] \in Critical => AtTurn = i
         /\ (\A i \in Imports : pc[i] \notin Critical) => AtTurn = Nobody
         /\ \A i \in Imports : pc[i] \notin Critical => AtTurn # i
<1>1. ASSUME NEW i \in Imports, pc[i] \in Critical
      PROVE  AtTurn = i
  <2>1. Running = {i}
    BY <1>1, OneAtWork DEF Running
  <2>2. QED
    BY <2>1 DEF AtTurn
<1>2. ASSUME \A i \in Imports : pc[i] \notin Critical
      PROVE  AtTurn = Nobody
  BY <1>2 DEF AtTurn, Running
<1>3. ASSUME NEW i \in Imports, pc[i] \notin Critical
      PROVE  AtTurn # i
  <2>1. CASE \E k \in Imports : pc[k] \in Critical
    BY <1>1, <1>3, <2>1
  <2>2. CASE \A k \in Imports : pc[k] \notin Critical
    BY <1>2, <2>2, NamesAssumption
  <2>3. QED
    BY <2>1, <2>2
<1>4. QED
  BY <1>1, <1>2, <1>3

\* What a process has reported, by its place.
LEMMA ResultOf ==
  ASSUME NEW i \in Imports
  PROVE  /\ pc[i] = "done" => Result(i) = "success"
         /\ pc[i] = "crashed" => Result(i) = "crash"
         /\ pc[i] \in Ended \ {"done", "crashed"} => Result(i) = "failure"
         /\ pc[i] \notin Ended => Result(i) = "none"
BY DEF Result

\* The same after a step.
LEMMA ResultAfter ==
  ASSUME NEW i \in Imports
  PROVE  /\ pc'[i] = "done" => Result(i)' = "success"
         /\ pc'[i] = "crashed" => Result(i)' = "crash"
         /\ pc'[i] \in Ended \ {"done", "crashed"} => Result(i)' = "failure"
         /\ pc'[i] \notin Ended => Result(i)' = "none"
         /\ pc'[i] = pc[i] => Result(i)' = Result(i)
BY DEF Result

\* The turn after a step.
LEMMA TurnAfter ==
  ASSUME IInv'
  PROVE  /\ \A i \in Imports : pc'[i] \in Critical => AtTurn' = i
         /\ (\A i \in Imports : pc'[i] \notin Critical) => AtTurn' = Nobody
<1>1. ASSUME NEW i \in Imports, pc'[i] \in Critical
      PROVE  AtTurn' = i
  <2>1. \A j \in Imports : pc'[j] \in Critical => i = j
    BY <1>1 DEF IInv, LocksAgree
  <2>2. Running' = {i}
    BY <1>1, <2>1 DEF Running
  <2>3. QED
    BY <2>2 DEF AtTurn
<1>2. ASSUME \A i \in Imports : pc'[i] \notin Critical
      PROVE  AtTurn' = Nobody
  BY <1>2 DEF AtTurn, Running
<1>3. QED
  BY <1>1, <1>2

\* Who ends with success leaves its version.
LEMMA DoneIsPublished ==
  ASSUME IInv, NEW i \in Imports, StoreStep(i), pc'[i] = "done"
  PROVE  Recoverable' = i
<1>1. TypeOK /\ \A to : Go(i, to) => pc'[i] = to
  BY GoEffect DEF IInv
<1>2. pc[i] \in Critical
  BY StoreStepFrame
<1>3. CASE Install(i)
  <2>1. ~Exists(Target) /\ Rename(Staging(i), Target) /\ pc[i] = "install" /\ journal' = journal
    BY <1>1, <1>3 DEF Install
  <2>2. dir'[Target] = i
    BY <1>1, <2>1, RenameEffect, NamesDiffer DEF IInv, PlacesOf
  <2>3. journal' = NoJournal
    BY <2>1, StagedFacts
  <2>4. QED
    BY <2>2, <2>3 DEF Recoverable
<1>4. CASE ~Install(i)
  <2>1. ASSUME Raise(i)
        PROVE  pc[i] \in {"drop_backup", "drop_journal"}
    <3>1. Handler(i) = "done"
      BY <1>1, <2>1 DEF Raise
    <3>2. QED
      BY <1>2, <3>1, HandlerPlaces
  <2>2. DropJournal(i) \/ (RaiseBefore(i) /\ pc[i] \in {"drop_backup", "drop_journal"})
    BY <1>1, <1>4, <2>1 DEF StoreStep, Recover, RecoverBackup, RecoverStaging, RecoverUnlink,
       Rollback, RollbackClear, RollbackAside, RollbackRestore, RollbackDiscard, RollbackDone,
       Check, Stage, StageWrite, Publish, Prepare, SwapOut, MarkBackedUp, SwapIn,
       MarkCommitted, DropBackup, AbortUnlink, Cleanup, RaiseBefore, Remove, Then
  <2>3. CASE DropJournal(i)
    BY <2>3, FinishingFacts DEF DropJournal, Recoverable
  <2>4. CASE RaiseBefore(i) /\ pc[i] \in {"drop_backup", "drop_journal"}
    BY <2>4, FinishingFacts DEF RaiseBefore, Recoverable, store, Exists
  <2>5. QED
    BY <2>2, <2>3, <2>4
<1>5. QED
  BY <1>3, <1>4

\* Who ends without leaves the version it found.
LEMMA FailedIsUntouched ==
  ASSUME IInv, FailedIsUndone, NEW i \in Imports, StoreStep(i), pc'[i] \in Ended \ {"done"}
  PROVE  /\ Recoverable = before /\ Recoverable' = Recoverable
         /\ pc'[i] # "crashed"
<1>1. TypeOK /\ \A to : Go(i, to) => pc'[i] = to
  BY GoEffect DEF IInv
<1>2. pc[i] \in Critical
  BY StoreStepFrame
<1>3. ASSUME Raise(i)
      PROVE  /\ pc[i] \in Recovering \cup {"cleanup"} \/ (pc[i] \in RollingBack /\ tx[i] # i)
             /\ pc'[i] = "failed"
  <2>1. pc'[i] = Handler(i)
    BY <1>1, <1>3 DEF Raise
  <2>2. QED
    BY <1>2, <2>1, HandlerPlaces
<1>4. CASE Cleanup(i)
  <2>1. pc[i] = "cleanup" /\ Recoverable' = Recoverable /\ pc'[i] \in {"failed", "cleanup"}
    BY <1>1, <1>4, StagingGoes DEF Cleanup
  <2>2. QED
    BY <2>1 DEF FailedIsUndone
<1>5. CASE Check(i)
  <2>1. pc[i] = "check" /\ Recoverable' = Recoverable /\ pc'[i] # "crashed"
    BY <1>1, <1>5 DEF Check, store, Recoverable, Exists
  <2>2. QED
    BY <2>1 DEF IInv, VersionOf
<1>6. CASE Raise(i) /\ UNCHANGED store
  <2>1. Recoverable' = Recoverable
    BY <1>6 DEF store, Recoverable, Exists
  <2>2. CASE pc[i] \in Recovering \cup {"cleanup"}
    BY <1>3, <1>6, <2>1, <2>2 DEF IInv, VersionOf, FailedIsUndone
  <2>3. CASE pc[i] \in RollingBack /\ tx[i] # i
    <3>1. journal # NoJournal
      BY <2>3, RollingBackFacts, JournalShape, NamesAssumption
    <3>2. Recoverable = before
      BY <2>3, <3>1, RollingBackFacts DEF Recoverable, Exists
    <3>3. QED
      BY <1>3, <1>6, <2>1, <3>2
  <2>4. QED
    BY <1>3, <1>6, <2>2, <2>3
<1>7. CASE RecoverUnlink(i)
  <2>1. pc[i] = "rc_unlink" /\ journal' = NoJournal /\ dir' = dir /\ pc'[i] \in {"check", "failed"}
    BY <1>1, <1>3, <1>7 DEF RecoverUnlink, Then
  <2>2. Recoverable = before /\ tx[i] \in Imports /\ journal.owner = tx[i] /\ ~Exists(Backup(tx[i]))
    BY <2>1 DEF IInv, JournalOf, PlacesOf, VersionOf
  <2>3. Recoverable = dir[Target] /\ Recoverable' = dir[Target]
    BY <2>1, <2>2 DEF Recoverable
  <2>4. QED
    BY <2>1, <2>2, <2>3
<1>8. QED
  <2>1. Cleanup(i) \/ Check(i) \/ RecoverUnlink(i) \/ (Raise(i) /\ UNCHANGED store)
    BY <1>1, <1>3 DEF StoreStep, Recover, RecoverBackup, RecoverStaging,
       Rollback, RollbackClear, RollbackAside, RollbackRestore, RollbackDiscard, RollbackDone,
       Stage, StageWrite, Publish, Install, Prepare, SwapOut, MarkBackedUp, SwapIn,
       MarkCommitted, DropBackup, DropJournal, AbortUnlink, RaiseBefore, Remove, Then
  <2>2. QED
    BY <2>1, <1>4, <1>5, <1>6, <1>7

Results == [i \in Imports |-> Result(i)]

\* A process that moves changes no result but its own.
LEMMA ResultsMove ==
  ASSUME NEW i \in Imports, \A j \in Imports : j # i => pc'[j] = pc[j]
  PROVE  /\ Results' = [Results EXCEPT ![i] = Result(i)']
         /\ Result(i)' = Result(i) => Results' = Results
         /\ Results[i] = Result(i)
BY ResultAfter DEF Results

\* A step of the import that has the lock publishes, takes back or ends.
LEMMA StoreStepMaps ==
  ASSUME ~LockMayFail, IInv, IInv', FailedIsUndone, TwoVersions',
         NEW i \in Imports, StoreStep(i)
  PROVE  Replace!Publish \/ Replace!TakeBack \/ Replace!Succeed \/ Replace!Fail
<1>1. /\ pc[i] \in Critical /\ before' = before
      /\ \A j \in Imports : j # i => pc'[j] = pc[j]
  BY StoreStepFrame
<1>2. AtTurn = i /\ i # Nobody /\ pc'[i] \in Locking \cup Critical \cup Ended
  BY <1>1, TurnOf, NamesAssumption DEF IInv, TypeOK
<1>3. \A j \in Imports : j # i => pc'[j] \notin Critical
  BY <1>1, OneAtWork
<1>4. CASE pc'[i] \in Critical
  <2>1. AtTurn' = i /\ Recoverable' \in {before, i}
    BY <1>1, <1>4, TurnAfter DEF TwoVersions
  <2>2. Results' = Results
    BY <1>1, <1>4, ResultOf, ResultAfter, ResultsMove
  <2>3. QED
    BY <1>1, <1>2, <2>1, <2>2 DEF AtTurn, Results, Replace!Publish, Replace!TakeBack
<1>5. CASE pc'[i] \in Ended
  <2>1. AtTurn' = Nobody
    BY <1>3, <1>5, TurnAfter
  <2>2. CASE pc'[i] = "done"
    <3>1. Recoverable' = i
      BY <2>2, DoneIsPublished
    <3>2. Results' = [Results EXCEPT ![i] = "success"]
      BY <1>1, <2>2, ResultAfter, ResultsMove
    <3>3. QED
      BY <1>1, <1>2, <2>1, <3>1, <3>2 DEF AtTurn, Results, Replace!Succeed, Replace!Report
  <2>3. CASE pc'[i] # "done"
    <3>1. Recoverable = before /\ Recoverable' = Recoverable /\ pc'[i] # "crashed"
      BY <1>5, <2>3, FailedIsUntouched
    <3>2. Results' = [Results EXCEPT ![i] = "failure"]
      BY <1>1, <1>5, <2>3, <3>1, ResultAfter, ResultsMove
    <3>3. QED
      BY <1>1, <1>2, <2>1, <3>1, <3>2 DEF AtTurn, Results, Replace!Fail, Replace!Report
  <2>4. QED
    BY <2>2, <2>3
<1>6. CASE pc'[i] \in Locking
  <2>1. FALSE
    BY <1>1, <1>6, GoEffect, RaiseEffect
       DEF IInv, StoreStep, Recover, RecoverBackup, RecoverStaging, RecoverUnlink, Rollback,
       RollbackClear, RollbackAside, RollbackRestore, RollbackDiscard, RollbackDone, Check, Stage,
       StageWrite, Publish, Install, Prepare, SwapOut, MarkBackedUp, SwapIn, MarkCommitted,
       DropBackup, DropJournal, AbortUnlink, Cleanup, RaiseBefore, Remove, Then
  <2>2. QED
    BY <2>1
<1>7. QED
  BY <1>2, <1>4, <1>5, <1>6

\* A kill is a crash or a refusal.
LEMMA CrashMaps ==
  ASSUME IInv, IInv', NEW i \in Imports, Crash(i)
  PROVE  Replace!Crash \/ Replace!Refuse(i)
<1>1. /\ dir' = dir /\ journal' = journal /\ before' = before /\ pc'[i] = "crashed"
      /\ pc[i] \notin Ended
      /\ \A j \in Imports : j # i => pc'[j] = pc[j]
  BY GoEffect DEF Crash, store, IInv
<1>2. Recoverable' = Recoverable
  BY <1>1 DEF Recoverable, Exists
<1>3. Results' = [Results EXCEPT ![i] = "crash"] /\ Results[i] = "none"
  BY <1>1, ResultOf, ResultAfter, ResultsMove
<1>4. CASE pc[i] \in Critical
  <2>1. AtTurn = i /\ i # Nobody
    BY <1>4, TurnOf, NamesAssumption
  <2>2. AtTurn' = Nobody
    BY <1>1, <1>4, OneAtWork, TurnAfter
  <2>3. QED
    BY <1>1, <1>2, <1>3, <2>1, <2>2 DEF AtTurn, Results, Replace!Crash, Replace!Report
<1>5. CASE pc[i] \notin Critical
  <2>1. AtTurn # i /\ AtTurn' = AtTurn
    <3>1. Running' = Running
      BY <1>1, <1>5 DEF Running
    <3>2. QED
      BY <1>5, <3>1, TurnOf DEF AtTurn
  <2>2. QED
    BY <1>1, <1>2, <1>3, <2>1 DEF AtTurn, Results, Replace!Refuse, Replace!Report
<1>6. QED
  BY <1>4, <1>5

\* A step before the lock takes it, gives up, or is not seen.
LEMMA LockStepMaps ==
  ASSUME ~LockMayFail, IInv, IInv', NEW i \in Imports, Step(i), ~StoreStep(i)
  PROVE  Replace!Begin(i) \/ Replace!Refuse(i) \/ UNCHANGED Replace!vars
<1>1. CASE TakeLock(i)
  <2>1. /\ pc[i] = "trylock" /\ pc'[i] = "recover" /\ before' = Recoverable
        /\ dir' = dir /\ journal' = journal
        /\ \A j \in Imports : j # i => pc'[j] = pc[j]
    BY <1>1 DEF TakeLock, IInv, TypeOK, store
  <2>2. \A j \in Imports : pc[j] \notin Critical
    BY <1>1, <2>1, NamesAssumption DEF TakeLock, LockIsFree, IInv, LocksAgree
  <2>3. AtTurn = Nobody /\ AtTurn' = i
    BY <2>1, <2>2, TurnOf, TurnAfter
  <2>4. Recoverable' = Recoverable
    BY <2>1 DEF Recoverable, Exists
  <2>5. Results' = Results /\ Results[i] = "none"
    BY <2>1, ResultOf, ResultAfter, ResultsMove
  <2>6. QED
    BY <2>1, <2>3, <2>4, <2>5 DEF AtTurn, Results, Replace!Begin
<1>2. CASE ~TakeLock(i)
  <2>1. /\ pc[i] \in Locking /\ before' = before /\ dir' = dir /\ journal' = journal
        /\ pc'[i] \in Locking \cup {"unsafe", "in_progress"}
        /\ \A j \in Imports : j # i => pc'[j] = pc[j]
    BY <1>2, GoEffect
       DEF Step, StoreStep, CreateLock, SeeLock, OpenLock, InitLock, SyncLock, InitLockFails,
       CheckLock, LockIsTaken, IInv, store
  <2>2. Recoverable' = Recoverable
    BY <2>1 DEF Recoverable, Exists
  <2>3. AtTurn # i /\ AtTurn' = AtTurn
    <3>1. Running' = Running
      BY <2>1 DEF Running
    <3>2. QED
      BY <2>1, <3>1, TurnOf DEF AtTurn
  <2>4. CASE pc'[i] \in Locking
    <3>1. Results' = Results
      BY <2>1, <2>4, ResultOf, ResultAfter, ResultsMove
    <3>2. QED
      BY <2>1, <2>2, <2>3, <3>1 DEF AtTurn, Results, Replace!vars
  <2>5. CASE pc'[i] \in {"unsafe", "in_progress"}
    <3>1. Results' = [Results EXCEPT ![i] = "failure"] /\ Results[i] = "none"
      BY <2>1, <2>5, ResultOf, ResultAfter, ResultsMove
    <3>2. QED
      BY <2>1, <2>2, <2>3, <3>1 DEF AtTurn, Results, Replace!Refuse, Replace!Report
  <2>6. QED
    BY <2>1, <2>4, <2>5
<1>3. QED
  BY <1>1, <1>2

\* bundle.import_bundle: whatever lock, journal and directories it takes, with
\* processes killed anywhere and at most one failing call, an import replaces
\* the run atomically: one recoverable version at a time, the new one after a
\* success, the old one after a failure.
THEOREM ImportReplacesAtomically ==
  ASSUME ~LockMayFail, MaxFaults <= 1
  PROVE  Spec => ImplementsAtomicReplace
<1>1. Init => Replace!Init
  <2>1. SUFFICES ASSUME Init PROVE Replace!Init
    OBVIOUS
  <2>2. IInv
    BY <2>1, Initially
  <2>3. AtTurn = Nobody
    BY <2>1, <2>2, TurnOf DEF Init
  <2>4. Recoverable = dir[Target] /\ dir[Target] \in {Old, "absent"} /\ before = dir[Target]
    BY <2>1, NamesDiffer DEF Init, Recoverable
  <2>5. Results = [i \in Imports |-> "none"]
    BY <2>1, ResultOf DEF Init, Results
  <2>6. QED
    BY <2>3, <2>4, <2>5 DEF AtTurn, Results, Replace!Init
<1>2. Init => RollbackAfterFault /\ FailedIsUndone
  BY DEF Init, RollbackAfterFault, FailedIsUndone
<1>3. ASSUME IInv, IInv', FailedIsUndone, TwoVersions', [Next]_vars
      PROVE  [Replace!Next]_(Replace!vars)
  <2>1. CASE UNCHANGED vars
    BY <1>3, <2>1 DEF vars, store, locking, Replace!vars, Recoverable, Exists, Running, Result
  <2>2. ASSUME NEW i \in Imports, Step(i) \/ Crash(i)
        PROVE  [Replace!Next]_(Replace!vars)
    <3>1. CASE StoreStep(i)
      BY <1>3, <3>1, StoreStepMaps DEF Replace!Next
    <3>2. CASE Crash(i)
      BY <1>3, <3>2, CrashMaps DEF Replace!Next
    <3>3. CASE Step(i) /\ ~StoreStep(i)
      BY <1>3, <3>3, LockStepMaps DEF Replace!Next
    <3>4. QED
      BY <2>2, <3>1, <3>2, <3>3
  <2>3. QED
    BY <1>3, <2>1, <2>2 DEF Next
<1>4. QED
  BY <1>1, <1>2, <1>3, Invariance, FaultsBeforeUndo, FailuresUndone, OldOrNew, PTL
     DEF Spec, ImplementsAtomicReplace, Replace!Spec

-----------------------------------------------------------------------------
(* How far an import is from its end.                                      *)

\* Rolling back its own transaction an import is near its end; recovering
\* another one it has its own work before it.
Back(i, n) == IF tx[i] = i THEN n ELSE n + 17

\* How many places of the control are before an import, at most.
PlacesLeft(i) ==
  CASE pc[i] = "start" -> 31
    [] pc[i] = "init" -> 30
    [] pc[i] \in {"init_sync", "saw_empty", "saw_byte"} -> 29
    [] pc[i] = "opened" -> 28
    [] pc[i] = "trylock" -> 27
    [] pc[i] = "recover" -> 26
    [] pc[i] = "rollback" -> Back(i, 8)
    [] pc[i] = "rb_clear" -> Back(i, 7)
    [] pc[i] = "rb_aside" -> Back(i, 6)
    [] pc[i] = "rb_restore" -> Back(i, 5)
    [] pc[i] \in {"rb_only", "rb_discard"} -> Back(i, 4)
    [] pc[i] = "rb_done" -> Back(i, 3)
    [] pc[i] = "rc_backup" -> 20
    [] pc[i] = "rc_staging" -> 19
    [] pc[i] = "rc_unlink" -> 18
    [] pc[i] = "check" -> 17
    [] pc[i] = "stage" -> 16
    [] pc[i] = "stage_write" -> 15
    [] pc[i] = "publish" -> 14
    [] pc[i] \in {"install", "prepare"} -> 13
    [] pc[i] = "swap_out" -> 12
    [] pc[i] = "mark_backed_up" -> 11
    [] pc[i] = "swap_in" -> 10
    [] pc[i] = "mark_committed" -> 9
    [] pc[i] \in {"ab_unlink", "drop_backup"} -> 2
    [] pc[i] \in {"cleanup", "drop_journal"} -> 1
    [] OTHER -> 0

\* The directory an import is removing, if it is.
Removed(i) ==
  CASE pc[i] \in {"rc_staging", "rb_clear", "rb_discard"} -> {Staging(tx[i])}
    [] pc[i] = "rc_backup" -> {Backup(tx[i])}
    [] pc[i] = "drop_backup" -> {Backup(i)}
    [] pc[i] = "cleanup" -> {Staging(i)}
    [] OTHER -> {}

\* A removal may take a step more, while the directory is whole.
StepsLeft(i) ==
  2 * PlacesLeft(i)
    + (IF \E n \in Removed(i) : dir[n] \notin {"absent", "partial"} THEN 1 ELSE 0)

\* Each step of an import brings it nearer to its end: neither recovery nor
\* rollback nor cleanup goes back to a place where it was, whatever fails.
CountsDown == [][\A i \in Imports : Step(i) => StepsLeft(i)' < StepsLeft(i)]_vars

\* No other process sets an import back.
NobodySetsBack == [][\A i \in Imports : StepsLeft(i)' <= StepsLeft(i)]_vars

\* Types and transactions, which need no exclusion.
Known == TypeOK /\ \A i \in Imports : TxKnown(i)

\* A step keeps what is known of the transactions.
LEMMA KnownStep ==
  ASSUME Known, NEW i \in Imports, Step(i) \/ Crash(i)
  PROVE  Known'
<1>1. TypeOK /\ TypeOK' /\ TxKnown(i)
  BY StepTypes DEF Known
<1> USE DEF TxKnown
<1>2. ASSUME NEW to, Then(i, to), pc[i] \in Critical
      PROVE  /\ pc'[i] \in {to, Handler(i)}
             /\ \A j \in Imports : j # i => pc'[j] = pc[j]
  BY <1>1, <1>2, GoEffect, RaiseEffect DEF Then, Raise
<1>3. ASSUME NEW at, NEW name, NEW to, Remove(i, at, name, to)
      PROVE  /\ pc[i] = at /\ pc'[i] \in {at, to} /\ tx' = tx
             /\ \A j \in Imports : j # i => pc'[j] = pc[j]
  BY <1>1, <1>3, GoEffect DEF Remove
<1>4. SUFFICES TxKnown(i)' /\ \A j \in Imports : j # i => pc'[j] = pc[j] /\ tx'[j] = tx[j]
  BY <1>1 DEF Known
<1>5. CASE CreateLock(i) \/ SeeLock(i) \/ OpenLock(i) \/ InitLock(i) \/ SyncLock(i)
           \/ InitLockFails(i) \/ CheckLock(i) \/ LockIsTaken(i) \/ Crash(i)
  <2>1. tx' = tx /\ \E to \in (Locking \cup Ended) : Go(i, to)
    BY <1>5 DEF CreateLock, SeeLock, OpenLock, InitLock, SyncLock, InitLockFails, CheckLock,
                LockIsTaken, Crash, locking
  <2>2. QED
    BY <1>1, <2>1, GoEffect
<1>6. CASE TakeLock(i)
  BY <1>1, <1>6 DEF TakeLock, TypeOK
<1>7. CASE Recover(i)
  BY <1>1, <1>7, GoEffect, JournalShape DEF Recover, TypeOK
<1>8. CASE RecoverBackup(i) \/ RecoverStaging(i) \/ RollbackClear(i)
           \/ RollbackDiscard(i) \/ DropBackup(i) \/ Cleanup(i)
  BY <1>1, <1>3, <1>8 DEF RecoverBackup, RecoverStaging, RollbackClear, RollbackDiscard,
                          DropBackup, Cleanup
<1>9. CASE Rollback(i) \/ RollbackAside(i) \/ RollbackRestore(i)
  BY <1>1, <1>9, GoEffect DEF Rollback, RollbackAside, RollbackRestore
<1>10. CASE Check(i) \/ Stage(i) \/ StageWrite(i) \/ Publish(i) \/ Install(i)
  BY <1>1, <1>10, GoEffect DEF Check, Stage, StageWrite, Publish, Install
<1>11. CASE RecoverUnlink(i) \/ RollbackDone(i) \/ DropJournal(i) \/ AbortUnlink(i)
  BY <1>1, <1>2, <1>11, HandlerPlaces DEF RecoverUnlink, RollbackDone, DropJournal, AbortUnlink
<1>12. CASE Prepare(i)
  BY <1>1, <1>2, <1>12, GoEffect, HandlerPlaces DEF Prepare, TypeOK
<1>13. CASE SwapOut(i) \/ MarkBackedUp(i) \/ SwapIn(i) \/ MarkCommitted(i)
  BY <1>1, <1>2, <1>13, HandlerPlaces DEF SwapOut, MarkBackedUp, SwapIn, MarkCommitted
<1>14. CASE RaiseBefore(i)
  BY <1>1, <1>14, GoEffect, RaiseEffect, HandlerPlaces DEF RaiseBefore
<1>15. QED
  BY <1>5, <1>6, <1>7, <1>8, <1>9, <1>10, <1>11, <1>12, <1>13, <1>14 DEF Step

\* Whatever fails, also when locks do not exclude: the types, and whose
\* transaction a process has in hand.
LEMMA AlwaysKnown == Spec => []Known
<1>1. Init => Known
  BY Initially DEF IInv, JournalOf, Known, TxKnown
<1>2. Known /\ [Next]_vars => Known'
  <2>1. Known /\ UNCHANGED vars => Known'
    BY DEF Known, TypeOK, TxKnown, vars, store, locking
  <2>2. QED
    BY <2>1, KnownStep DEF Next
<1>3. QED
  BY <1>1, <1>2, PTL DEF Spec

\* The places left are a number, and fewer of them are fewer steps.
LEMMA FewerSteps ==
  ASSUME NEW i \in Imports
  PROVE  /\ PlacesLeft(i) \in 0 .. 31 /\ PlacesLeft(i)' \in 0 .. 31
         /\ PlacesLeft(i)' < PlacesLeft(i) => StepsLeft(i)' < StepsLeft(i)
<1>1. PlacesLeft(i) \in 0 .. 31 /\ PlacesLeft(i)' \in 0 .. 31
  BY DEF PlacesLeft, Back
<1>2. PICK b \in {0, 1}, c \in {0, 1} :
        StepsLeft(i) = 2 * PlacesLeft(i) + b /\ StepsLeft(i)' = 2 * PlacesLeft(i)' + c
  BY DEF StepsLeft
<1>3. QED
  BY <1>1, <1>2

\* A removal goes on to the next place, or has the directory partly gone.
LEMMA RemovalAdvances ==
  ASSUME TypeOK, NEW i \in Imports, NEW at, NEW name \in Names, NEW to,
         Remove(i, at, name, to), Removed(i) = {name},
         pc'[i] = pc[i] /\ tx' = tx => Removed(i)' = {name} /\ PlacesLeft(i)' = PlacesLeft(i),
         pc'[i] = to /\ tx' = tx => PlacesLeft(i)' < PlacesLeft(i)
  PROVE  StepsLeft(i)' < StepsLeft(i)
<1>1. tx' = tx
  BY DEF Remove
<1>2. CASE Go(i, to)
  BY <1>1, <1>2, GoEffect, FewerSteps
<1>3. CASE ~Go(i, to)
  <2>1. /\ dir[name] \notin {"absent", "partial"}
        /\ dir' = [dir EXCEPT ![name] = "partial"]
        /\ pc' = pc
    BY <1>3 DEF Remove
  <2>2. dir'[name] = "partial"
    BY <2>1 DEF TypeOK
  <2>3. StepsLeft(i) = 2 * PlacesLeft(i) + 1
    BY <2>1 DEF StepsLeft
  <2>4. StepsLeft(i)' = 2 * PlacesLeft(i) + 0
    BY <1>1, <2>1, <2>2 DEF StepsLeft
  <2>5. QED
    BY <2>3, <2>4, FewerSteps
<1>4. QED
  BY <1>2, <1>3

\* Each step of an import leaves it fewer.
LEMMA StepCountsDown ==
  ASSUME Known, NEW i \in Imports, Step(i)
  PROVE  StepsLeft(i)' < StepsLeft(i)
<1>1. TypeOK /\ TxKnown(i)
  BY DEF Known
<1>2. ASSUME PlacesLeft(i)' < PlacesLeft(i) PROVE StepsLeft(i)' < StepsLeft(i)
  BY <1>2, FewerSteps
<1>3. ASSUME NEW to, Then(i, to), pc[i] \in Critical
      PROVE  pc'[i] \in {to, Handler(i)}
  BY <1>1, <1>3, GoEffect, RaiseEffect DEF Then, Raise
<1> USE DEF PlacesLeft, Back
<1>4. CASE CreateLock(i) \/ SeeLock(i) \/ OpenLock(i) \/ InitLock(i) \/ SyncLock(i)
           \/ InitLockFails(i) \/ CheckLock(i) \/ LockIsTaken(i)
  BY <1>1, <1>2, <1>4, GoEffect DEF CreateLock, SeeLock, OpenLock, InitLock, SyncLock,
     InitLockFails, CheckLock, LockIsTaken
<1>5. CASE TakeLock(i)
  BY <1>1, <1>2, <1>5 DEF TakeLock, TypeOK
<1>6. CASE Recover(i)
  BY <1>1, <1>2, <1>6, GoEffect DEF Recover, TypeOK
<1>7. CASE RecoverBackup(i)
  <2>1. pc[i] = "rc_backup" /\ Remove(i, "rc_backup", Backup(tx[i]), "rc_staging")
    BY <1>7 DEF RecoverBackup, Remove
  <2>2. Backup(tx[i]) \in Names /\ Removed(i) = {Backup(tx[i])}
    BY <1>1, <2>1, NamesDiffer DEF TxKnown, Removed
  <2>3. pc'[i] = pc[i] /\ tx' = tx =>
          Removed(i)' = {Backup(tx[i])} /\ PlacesLeft(i)' = PlacesLeft(i)
    BY <2>1 DEF Removed, Backup
  <2>4. pc'[i] = "rc_staging" /\ tx' = tx => PlacesLeft(i)' < PlacesLeft(i)
    BY <2>1
  <2>5. QED
    BY <1>1, <2>1, <2>2, <2>3, <2>4, RemovalAdvances
<1>8. CASE RecoverStaging(i)
  <2>1. pc[i] = "rc_staging" /\ Remove(i, "rc_staging", Staging(tx[i]), "rc_unlink")
    BY <1>8 DEF RecoverStaging, Remove
  <2>2. Staging(tx[i]) \in Names /\ Removed(i) = {Staging(tx[i])}
    BY <1>1, <2>1, NamesDiffer DEF TxKnown, Removed
  <2>3. pc'[i] = pc[i] /\ tx' = tx =>
          Removed(i)' = {Staging(tx[i])} /\ PlacesLeft(i)' = PlacesLeft(i)
    BY <2>1 DEF Removed, Staging
  <2>4. pc'[i] = "rc_unlink" /\ tx' = tx => PlacesLeft(i)' < PlacesLeft(i)
    BY <2>1
  <2>5. QED
    BY <1>1, <2>1, <2>2, <2>3, <2>4, RemovalAdvances
<1>9. CASE RollbackClear(i)
  <2>1. pc[i] = "rb_clear" /\ Remove(i, "rb_clear", Staging(tx[i]), "rb_aside")
    BY <1>9 DEF RollbackClear, Remove
  <2>2. Staging(tx[i]) \in Names /\ Removed(i) = {Staging(tx[i])}
    BY <1>1, <2>1, NamesDiffer DEF TxKnown, Removed
  <2>3. pc'[i] = pc[i] /\ tx' = tx =>
          Removed(i)' = {Staging(tx[i])} /\ PlacesLeft(i)' = PlacesLeft(i)
    BY <2>1 DEF Removed, Staging
  <2>4. pc'[i] = "rb_aside" /\ tx' = tx => PlacesLeft(i)' < PlacesLeft(i)
    BY <2>1
  <2>5. QED
    BY <1>1, <2>1, <2>2, <2>3, <2>4, RemovalAdvances
<1>10. CASE RollbackDiscard(i)
  <2>1. pc[i] = "rb_discard" /\ Remove(i, "rb_discard", Staging(tx[i]), "rb_done")
    BY <1>10 DEF RollbackDiscard, Remove
  <2>2. Staging(tx[i]) \in Names /\ Removed(i) = {Staging(tx[i])}
    BY <1>1, <2>1, NamesDiffer DEF TxKnown, Removed
  <2>3. pc'[i] = pc[i] /\ tx' = tx =>
          Removed(i)' = {Staging(tx[i])} /\ PlacesLeft(i)' = PlacesLeft(i)
    BY <2>1 DEF Removed, Staging
  <2>4. pc'[i] = "rb_done" /\ tx' = tx => PlacesLeft(i)' < PlacesLeft(i)
    BY <2>1
  <2>5. QED
    BY <1>1, <2>1, <2>2, <2>3, <2>4, RemovalAdvances
<1>11. CASE DropBackup(i)
  BY <1>1, <1>11, RemovalAdvances, NamesDiffer DEF DropBackup, Remove, Removed
<1>12. CASE Cleanup(i)
  BY <1>1, <1>12, RemovalAdvances, NamesDiffer DEF Cleanup, Remove, Removed
<1>13. CASE Rollback(i) \/ RollbackAside(i) \/ RollbackRestore(i)
  BY <1>1, <1>2, <1>13, GoEffect DEF Rollback, RollbackAside, RollbackRestore, locking
<1>14. CASE RollbackDone(i)
  BY <1>1, <1>2, <1>3, <1>14, HandlerPlaces DEF RollbackDone
<1>15. CASE RecoverUnlink(i)
  BY <1>1, <1>2, <1>3, <1>15, HandlerPlaces DEF RecoverUnlink
<1>16. CASE Check(i) \/ Stage(i) \/ StageWrite(i) \/ Publish(i) \/ Install(i)
  BY <1>1, <1>2, <1>16, GoEffect DEF Check, Stage, StageWrite, Publish, Install
<1>17. CASE Prepare(i)
  BY <1>1, <1>2, <1>3, <1>17, GoEffect, HandlerPlaces DEF Prepare, TypeOK
<1>18. CASE SwapOut(i) \/ MarkBackedUp(i) \/ SwapIn(i) \/ MarkCommitted(i)
  BY <1>1, <1>2, <1>3, <1>18, HandlerPlaces
     DEF SwapOut, MarkBackedUp, SwapIn, MarkCommitted, TxKnown
<1>19. CASE DropJournal(i) \/ AbortUnlink(i)
  BY <1>1, <1>2, <1>3, <1>19, HandlerPlaces DEF DropJournal, AbortUnlink
<1>20. CASE RaiseBefore(i)
  BY <1>1, <1>2, <1>20, RaiseEffect, HandlerPlaces DEF RaiseBefore, TxKnown
<1>21. QED
  BY <1>4, <1>5, <1>6, <1>7, <1>8, <1>9, <1>10, <1>11, <1>12, <1>13, <1>14, <1>15, <1>16,
     <1>17, <1>18, <1>19, <1>20 DEF Step

\* An import takes 62 steps at most until it has ended, whatever fails, and also
\* when lock files cannot be initialised: there is no loop in recovery, rollback
\* or cleanup.
THEOREM ImportIsBounded == Spec => CountsDown
<1>1. Known /\ [Next]_vars => \A i \in Imports : Step(i) => StepsLeft(i)' < StepsLeft(i)
  BY StepCountsDown
<1>2. QED
  BY <1>1, AlwaysKnown, PTL DEF Spec, CountsDown

\* What other imports do, kills included, leaves an import no more to do.
THEOREM OthersDoNotSetBack == ASSUME ~LockMayFail PROVE Spec => NobodySetsBack
<1>1. ASSUME IInv, Known, [Next]_vars, NEW i \in Imports
      PROVE  StepsLeft(i)' <= StepsLeft(i)
  <2>0. StepsLeft(i) \in Nat /\ StepsLeft(i)' \in Nat
    <3>1. PICK b \in {0, 1}, c \in {0, 1} :
            StepsLeft(i) = 2 * PlacesLeft(i) + b /\ StepsLeft(i)' = 2 * PlacesLeft(i)' + c
      BY DEF StepsLeft
    <3>2. QED
      BY <3>1, FewerSteps
  <2>1. ASSUME pc'[i] = pc[i], tx'[i] = tx[i], dir' = dir \/ pc[i] \notin Critical
        PROVE  StepsLeft(i)' = StepsLeft(i)
    <3>1. PlacesLeft(i)' = PlacesLeft(i)
      BY <2>1 DEF PlacesLeft, Back
    <3>2. Removed(i)' = Removed(i)
      BY <2>1 DEF Removed, Staging, Backup
    <3>3. dir' = dir \/ Removed(i) = {}
      BY <2>1 DEF Removed
    <3>4. QED
      BY <3>1, <3>2, <3>3 DEF StepsLeft
  <2>2. CASE UNCHANGED vars
    BY <2>0, <2>1, <2>2 DEF vars, store
  <2>3. CASE Step(i)
    BY <1>1, <2>0, <2>3, StepCountsDown
  <2>4. CASE Crash(i)
    <3>1. pc'[i] = "crashed"
      BY <1>1, <2>4, GoEffect DEF Crash, IInv
    <3>2. StepsLeft(i)' = 0
      BY <3>1 DEF StepsLeft, PlacesLeft, Removed
    <3>3. QED
      BY <2>0, <3>2
  <2>5. ASSUME NEW j \in Imports, j # i, Step(j) \/ Crash(j)
        PROVE  StepsLeft(i)' <= StepsLeft(i)
    <3>1. CASE StoreStep(j)
      <4>1. pc'[i] = pc[i] /\ tx'[i] = tx[i] /\ pc[i] \notin Critical
        BY <1>1, <2>5, <3>1, StoreStepFrame, OneAtWork
      <4>2. QED
        BY <2>0, <2>1, <4>1
    <3>2. CASE TakeLock(j)
      <4>1. pc'[i] = pc[i] /\ tx'[i] = tx[i] /\ dir' = dir
        BY <1>1, <2>5, <3>2 DEF TakeLock, IInv, TypeOK, store
      <4>2. QED
        BY <2>0, <2>1, <4>1
    <3>3. CASE ~StoreStep(j) /\ ~TakeLock(j)
      <4>1. \E to : Go(j, to) /\ UNCHANGED <<store, tx>>
        BY <2>5, <3>3 DEF Step, StoreStep, CreateLock, SeeLock, OpenLock, InitLock, SyncLock,
           InitLockFails, CheckLock, LockIsTaken, Crash
      <4>2. pc'[i] = pc[i] /\ tx'[i] = tx[i] /\ dir' = dir
        BY <1>1, <2>5, <4>1, GoEffect DEF IInv, store
      <4>3. QED
        BY <2>0, <2>1, <4>2
    <3>4. QED
      BY <3>1, <3>2, <3>3
  <2>6. QED
    BY <1>1, <2>2, <2>3, <2>4, <2>5 DEF Next
<1>2. IInv /\ Known /\ [Next]_vars => \A i \in Imports : StepsLeft(i)' <= StepsLeft(i)
  BY <1>1
<1>3. QED
  BY <1>2, Invariance, AlwaysKnown, PTL DEF Spec, NobodySetsBack
===============================================================================
