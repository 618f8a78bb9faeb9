-------------------------- MODULE ImportTransaction --------------------------
(***************************************************************************)
(* bundle.import_bundle: importing one run id into the store, by several   *)
(* processes, each of which may fail at any system call or be killed       *)
(* between any two.  The module follows the per-run lock file, recovery    *)
(* from the journal, staging, the directory swap with its journal phases,  *)
(* rollback and cleanup.                                                   *)
(*                                                                         *)
(* Each process performs one import.  Staging and backup directories have  *)
(* fresh random names, here named after the import; a directory is         *)
(* abstracted to the version it holds.  Reading the archive, aliases and   *)
(* path checks come before the first shared state is touched.              *)
(***************************************************************************)
EXTENDS Integers, FiniteSets

CONSTANTS
  Imports,       \* import processes, also the versions they bring
  Old,           \* the version recorded before
  Nobody,        \* no process, no lock file
  LockMayFail,   \* writing or syncing a new lock file may fail
  MaxFaults      \* bound of the model: failing system calls per behaviour

ASSUME NamesAssumption ==
  /\ Old \notin Imports
  /\ Nobody \notin Imports \cup {Old}
  /\ {"absent", "partial"} \cap (Imports \cup {Old}) = {}
ASSUME FaultsAssumption == LockMayFail \in BOOLEAN /\ MaxFaults \in Nat

VARIABLES
  dir,         \* directory name -> the version it holds
  journal,     \* the transaction journal
  lock_path,   \* the lock file at the path, named after its creator
  lock_size,   \* bytes in each lock file
  lock_held,   \* who holds the OS lock on each lock file
  fd,          \* the lock file each process saw and opened
  pc,
  tx,          \* whose transaction a process runs or rolls back
  overwrite,   \* --overwrite
  before,      \* recoverable version when the last import got the lock
  faults

store == <<dir, journal>>
locking == <<lock_path, lock_size, fd>>
vars == <<store, locking, lock_held, pc, tx, overwrite, before, faults>>

-----------------------------------------------------------------------------
Target == <<"target", Old>>
Staging(i) == <<"import", i>>
Backup(i) == <<"backup", i>>
Names == {Target} \cup {Staging(i) : i \in Imports} \cup {Backup(i) : i \in Imports}

Contents == Imports \cup {Old, "absent", "partial"}
Exists(name) == dir[name] # "absent"

Phases == {"prepared", "backed_up", "committed"}
NoJournal == [owner |-> Nobody, phase |-> "none"]
Journals == [owner: Imports, phase: Phases] \cup {NoJournal}

Locking == {"start", "init", "init_sync", "saw_empty", "saw_byte", "opened", "trylock"}
Recovering == {"recover", "rc_backup", "rc_staging", "rc_unlink"}
RollingBack == {"rollback", "rb_clear", "rb_aside", "rb_restore", "rb_discard",
                "rb_only", "rb_done"}
Staged == {"check", "stage", "stage_write", "publish", "install", "prepare"}
Swapping == {"swap_out", "mark_backed_up", "swap_in", "mark_committed"}
Finishing == {"drop_backup", "drop_journal", "ab_unlink", "cleanup"}
Critical == Recovering \cup RollingBack \cup Staged \cup Swapping \cup Finishing
Ended == {"in_progress", "unsafe", "exists", "failed", "done", "crashed"}

TypeOK ==
  /\ dir \in [Names -> Contents]
  /\ journal \in Journals
  /\ lock_path \in Imports \cup {Nobody}
  /\ lock_size \in [Imports -> {0, 1}]
  /\ lock_held \in [Imports -> Imports \cup {Nobody}]
  /\ fd \in [Imports -> Imports \cup {Nobody}]
  /\ pc \in [Imports -> Locking \cup Critical \cup Ended]
  /\ tx \in [Imports -> Imports \cup {Nobody}]
  /\ overwrite \in [Imports -> BOOLEAN]
  /\ before \in Contents
  /\ faults \in 0 .. MaxFaults

\* The version that recovery would leave at the target.
Recoverable ==
  IF /\ journal # NoJournal
     /\ ~(journal.phase = "committed" /\ Exists(Target))
     /\ Exists(Backup(journal.owner))
  THEN dir[Backup(journal.owner)]
  ELSE dir[Target]

Init ==
  /\ dir \in {[n \in Names |-> IF n = Target THEN v ELSE "absent"] : v \in {Old, "absent"}}
  /\ journal = NoJournal
  /\ lock_path = Nobody
  /\ lock_size = [i \in Imports |-> 0]
  /\ lock_held = [i \in Imports |-> Nobody]
  /\ fd = [i \in Imports |-> Nobody]
  /\ pc = [i \in Imports |-> "start"]
  /\ tx = [i \in Imports |-> Nobody]
  /\ overwrite \in [Imports -> BOOLEAN]
  /\ before = dir[Target]
  /\ faults = 0

-----------------------------------------------------------------------------
(* Control.  Leaving the with statement releases the OS lock, and so does  *)
(* the end of the process.                                                 *)

Go(i, to) ==
  /\ pc' = [pc EXCEPT ![i] = to]
  /\ lock_held' = IF to \in Ended
                  THEN [l \in Imports |-> IF lock_held[l] = i THEN Nobody ELSE lock_held[l]]
                  ELSE lock_held

Handler_NoRollback(i) ==
  CASE pc[i] \in Recovering -> "failed"
    [] pc[i] \in RollingBack -> IF tx[i] = i THEN "cleanup" ELSE "failed"
    [] pc[i] \in Staged \cup Swapping -> "cleanup"
    [] pc[i] \in {"drop_backup", "drop_journal"} -> "done"
    [] pc[i] = "ab_unlink" -> "cleanup"
    [] pc[i] = "cleanup" -> "failed"

\* Where an exception raised at pc[i] is handled.
Handler(i) ==
  CASE pc[i] \in Recovering -> "failed"
    [] pc[i] \in RollingBack -> IF tx[i] = i THEN "cleanup" ELSE "failed"
    [] pc[i] \in Staged -> "cleanup"
    [] pc[i] \in Swapping -> "rollback"
    [] pc[i] \in {"drop_backup", "drop_journal"} -> "done"
    [] pc[i] = "ab_unlink" -> "cleanup"
    [] pc[i] = "cleanup" -> "failed"

Raise(i) ==
  /\ faults < MaxFaults
  /\ faults' = faults + 1
  /\ Go(i, Handler(i))

\* A step whose effect is followed by a sync of the directory, which may
\* still fail.
Then(i, to) == (Go(i, to) /\ UNCHANGED faults) \/ Raise(i)

\* A system call fails without effect.
RaiseBefore(i) ==
  /\ pc[i] \in Critical \ {"check", "recover", "rollback", "rb_done"}
  /\ Raise(i)
  /\ UNCHANGED <<store, locking, tx, overwrite, before>>

\* The process is killed.
Crash(i) ==
  /\ pc[i] \notin Ended \cup {"start"}
  /\ Go(i, "crashed")
  /\ UNCHANGED <<store, locking, tx, overwrite, before, faults>>

Rename(from, to) == dir' = [dir EXCEPT ![from] = "absent", ![to] = dir[from]]

\* _remove_tree: a directory disappears, possibly after a state in between.
Remove(i, at, name, to) ==
  /\ pc[i] = at
  /\ \/ ~Exists(name) /\ Go(i, to) /\ UNCHANGED dir
     \/ Exists(name) /\ dir' = [dir EXCEPT ![name] = "absent"] /\ Go(i, to)
     \/ /\ dir[name] \notin {"absent", "partial"}
        /\ dir' = [dir EXCEPT ![name] = "partial"]
        /\ UNCHANGED <<pc, lock_held>>
  /\ UNCHANGED <<journal, locking, tx, overwrite, before, faults>>

-----------------------------------------------------------------------------
(* _open_import_lock and _import_run_lock                                  *)

CreateLock(i) ==
  /\ pc[i] = "start"
  /\ lock_path = Nobody
  /\ lock_path' = i
  /\ fd' = [fd EXCEPT ![i] = i]
  /\ Go(i, "init")
  /\ UNCHANGED <<store, lock_size, tx, overwrite, before, faults>>

\* The path is taken: what lstat saw of the file is kept until open, as the
\* file in fd and its size in pc.
SeeLock(i) ==
  /\ pc[i] = "start"
  /\ lock_path # Nobody
  /\ fd' = [fd EXCEPT ![i] = lock_path]
  /\ Go(i, IF lock_size[lock_path] = 0 THEN "saw_empty" ELSE "saw_byte")
  /\ UNCHANGED <<store, lock_path, lock_size, tx, overwrite, before, faults>>

AsSeen(i) ==
  /\ lock_path = fd[i]
  /\ (pc[i] = "saw_empty") <=> (lock_size[lock_path] = 0)

\* The opened file must be the one that was seen.  An empty one is a lock
\* file that another import is creating.
OpenLock(i) ==
  /\ pc[i] \in {"saw_empty", "saw_byte"}
  /\ Go(i, IF ~AsSeen(i) THEN "unsafe"
           ELSE IF pc[i] = "saw_empty" THEN "in_progress" ELSE "opened")
  /\ UNCHANGED <<store, locking, tx, overwrite, before, faults>>

InitLock(i) ==
  /\ pc[i] = "init"
  /\ lock_size' = [lock_size EXCEPT ![i] = 1]
  /\ Go(i, "init_sync")
  /\ UNCHANGED <<store, lock_path, fd, tx, overwrite, before, faults>>

SyncLock(i) ==
  /\ pc[i] = "init_sync"
  /\ Go(i, "opened")
  /\ UNCHANGED <<store, locking, tx, overwrite, before, faults>>

\* The creator could not write or sync its byte and unlinks the file, if it
\* is still the one at the path.
InitLockFails(i) ==
  /\ LockMayFail
  /\ pc[i] \in {"init", "init_sync"}
  /\ lock_path' = IF lock_path = i THEN Nobody ELSE lock_path
  /\ Go(i, "unsafe")
  /\ UNCHANGED <<store, lock_size, fd, tx, overwrite, before, faults>>

\* The file at the path must still be the one that was opened.
CheckLock(i) ==
  /\ pc[i] = "opened"
  /\ Go(i, IF lock_path = fd[i] THEN "trylock" ELSE "unsafe")
  /\ UNCHANGED <<store, locking, tx, overwrite, before, faults>>

LockIsFree_Shared(i) == TRUE

LockIsFree(i) == lock_held[fd[i]] = Nobody

\* flock(LOCK_EX | LOCK_NB)
TakeLock(i) ==
  /\ pc[i] = "trylock"
  /\ LockIsFree(i)
  /\ pc' = [pc EXCEPT ![i] = "recover"]
  /\ lock_held' = [lock_held EXCEPT ![fd[i]] = i]
  /\ before' = Recoverable
  /\ UNCHANGED <<store, locking, tx, overwrite, faults>>

LockIsTaken(i) ==
  /\ pc[i] = "trylock"
  /\ ~LockIsFree(i)
  /\ Go(i, "in_progress")
  /\ UNCHANGED <<store, locking, tx, overwrite, before, faults>>

-----------------------------------------------------------------------------
(* _rollback_import_transaction, of the process's own transaction or of    *)
(* the one it recovers.                                                    *)

Rollback(i) ==
  /\ pc[i] = "rollback"
  /\ Go(i, IF ~Exists(Backup(tx[i])) THEN "rb_done"
           ELSE IF Exists(Target) THEN "rb_clear" ELSE "rb_only")
  /\ UNCHANGED <<store, locking, tx, overwrite, before, faults>>

RollbackClear(i) == Remove(i, "rb_clear", Staging(tx[i]), "rb_aside")

RollbackAside(i) ==
  /\ pc[i] = "rb_aside"
  /\ Rename(Target, Staging(tx[i]))
  /\ Go(i, "rb_restore")
  /\ UNCHANGED <<journal, locking, tx, overwrite, before, faults>>

RollbackRestore(i) ==
  /\ pc[i] \in {"rb_restore", "rb_only"}
  /\ Rename(Backup(tx[i]), Target)
  /\ Go(i, IF pc[i] = "rb_restore" THEN "rb_discard" ELSE "rb_done")
  /\ UNCHANGED <<journal, locking, tx, overwrite, before, faults>>

RollbackDiscard(i) == Remove(i, "rb_discard", Staging(tx[i]), "rb_done")

\* The sync that ends a rollback, then what its caller does next.
RollbackDone(i) ==
  /\ pc[i] = "rb_done"
  /\ Then(i, IF tx[i] = i THEN "ab_unlink" ELSE "rc_staging")
  /\ UNCHANGED <<store, locking, tx, overwrite, before>>

-----------------------------------------------------------------------------
(* _recover_import_transaction                                             *)

CanFinish_AnyPhase == Exists(Target)

\* The journal allows cleanup to be finished instead of a rollback.
CanFinish == journal.phase = "committed" /\ Exists(Target)

Recover(i) ==
  /\ pc[i] = "recover"
  /\ \/ journal = NoJournal /\ Go(i, "check") /\ UNCHANGED tx
     \/ /\ journal # NoJournal
        /\ tx' = [tx EXCEPT ![i] = journal.owner]
        /\ Go(i, IF CanFinish THEN "rc_backup" ELSE "rollback")
  /\ UNCHANGED <<store, locking, overwrite, before, faults>>

RecoverBackup(i) == Remove(i, "rc_backup", Backup(tx[i]), "rc_staging")

RecoverStaging(i) == Remove(i, "rc_staging", Staging(tx[i]), "rc_unlink")

RecoverUnlink_Again(i) ==
  /\ pc[i] = "rc_unlink"
  /\ Go(i, "recover")
  /\ UNCHANGED <<store, locking, tx, overwrite, before, faults>>

RecoverUnlink(i) ==
  /\ pc[i] = "rc_unlink"
  /\ journal' = NoJournal
  /\ Then(i, "check")
  /\ UNCHANGED <<dir, locking, tx, overwrite, before>>

-----------------------------------------------------------------------------
(* _install_import                                                         *)

Check(i) ==
  /\ pc[i] = "check"
  /\ Go(i, IF Exists(Target) /\ ~overwrite[i] THEN "exists" ELSE "stage")
  /\ UNCHANGED <<store, locking, tx, overwrite, before, faults>>

Stage_NotWritten(i) ==
  /\ pc[i] = "stage"
  /\ dir' = [dir EXCEPT ![Staging(i)] = "partial"]
  /\ Go(i, "publish")
  /\ UNCHANGED <<journal, locking, tx, overwrite, before, faults>>

Stage(i) ==
  /\ pc[i] = "stage"
  /\ dir' = [dir EXCEPT ![Staging(i)] = "partial"]
  /\ Go(i, "stage_write")
  /\ UNCHANGED <<journal, locking, tx, overwrite, before, faults>>

StageWrite(i) ==
  /\ pc[i] = "stage_write"
  /\ dir' = [dir EXCEPT ![Staging(i)] = i]
  /\ Go(i, "publish")
  /\ UNCHANGED <<journal, locking, tx, overwrite, before, faults>>

\* The finally clause: the staging directory goes, the exception stays.
Cleanup(i) == Remove(i, "cleanup", Staging(i), "failed")

-----------------------------------------------------------------------------
(* _publish_import                                                         *)

Publish(i) ==
  /\ pc[i] = "publish"
  /\ Go(i, IF overwrite[i] /\ Exists(Target) THEN "prepare" ELSE "install")
  /\ UNCHANGED <<store, locking, tx, overwrite, before, faults>>

\* rename that does not replace
Install(i) ==
  /\ pc[i] = "install"
  /\ IF Exists(Target)
     THEN Go(i, "cleanup") /\ UNCHANGED dir
     ELSE Go(i, "done") /\ Rename(Staging(i), Target)
  /\ UNCHANGED <<journal, locking, tx, overwrite, before, faults>>

WriteJournal(i, phase) == journal' = [owner |-> i, phase |-> phase]

\* The first journal does not replace one, and it is written outside the
\* try statement: a failing sync leaves it behind.
Prepare(i) ==
  /\ pc[i] = "prepare"
  /\ IF journal = NoJournal
     THEN WriteJournal(i, "prepared") /\ Then(i, "swap_out")
     ELSE Go(i, "cleanup") /\ UNCHANGED <<journal, faults>>
  /\ tx' = [tx EXCEPT ![i] = i]
  /\ UNCHANGED <<dir, locking, overwrite, before>>

SwapOut(i) ==
  /\ pc[i] = "swap_out"
  /\ Rename(Target, Backup(i))
  /\ Then(i, "mark_backed_up")
  /\ UNCHANGED <<journal, locking, tx, overwrite, before>>

MarkBackedUp(i) ==
  /\ pc[i] = "mark_backed_up"
  /\ WriteJournal(i, "backed_up")
  /\ Then(i, "swap_in")
  /\ UNCHANGED <<dir, locking, tx, overwrite, before>>

SwapIn(i) ==
  /\ pc[i] = "swap_in"
  /\ Rename(Staging(i), Target)
  /\ Then(i, "mark_committed")
  /\ UNCHANGED <<journal, locking, tx, overwrite, before>>

MarkCommitted(i) ==
  /\ pc[i] = "mark_committed"
  /\ WriteJournal(i, "committed")
  /\ Then(i, "drop_backup")
  /\ UNCHANGED <<dir, locking, tx, overwrite, before>>

DropBackup_Kept(i) ==
  /\ pc[i] = "drop_backup"
  /\ Go(i, "drop_journal")
  /\ UNCHANGED <<store, locking, tx, overwrite, before, faults>>

\* After the commit a failure is swallowed: recovery finishes the cleanup.
DropBackup(i) == Remove(i, "drop_backup", Backup(i), "drop_journal")

DropJournal(i) ==
  /\ pc[i] = "drop_journal"
  /\ journal' = NoJournal
  /\ Then(i, "done")
  /\ UNCHANGED <<dir, locking, tx, overwrite, before>>

\* The exception handler, after its rollback.
AbortUnlink(i) ==
  /\ pc[i] = "ab_unlink"
  /\ journal' = NoJournal
  /\ Then(i, "cleanup")
  /\ UNCHANGED <<dir, locking, tx, overwrite, before>>

-----------------------------------------------------------------------------
Step(i) ==
  \/ CreateLock(i) \/ SeeLock(i) \/ OpenLock(i) \/ InitLock(i) \/ SyncLock(i)
  \/ InitLockFails(i) \/ CheckLock(i) \/ TakeLock(i) \/ LockIsTaken(i)
  \/ Recover(i) \/ RecoverBackup(i) \/ RecoverStaging(i) \/ RecoverUnlink(i)
  \/ Rollback(i) \/ RollbackClear(i) \/ RollbackAside(i) \/ RollbackRestore(i)
  \/ RollbackDiscard(i) \/ RollbackDone(i)
  \/ Check(i) \/ Stage(i) \/ StageWrite(i) \/ Publish(i) \/ Install(i)
  \/ Prepare(i) \/ SwapOut(i) \/ MarkBackedUp(i)
  \/ SwapIn(i) \/ MarkCommitted(i) \/ DropBackup(i) \/ DropJournal(i)
  \/ AbortUnlink(i) \/ Cleanup(i) \/ RaiseBefore(i)

Next == \E i \in Imports : Step(i) \/ Crash(i)

Spec == Init /\ [][Next]_vars

\* A process that has begun goes on until it ends or is killed.
FairSpec == Spec /\ \A i \in Imports : WF_vars(pc[i] # "start" /\ Step(i))

-----------------------------------------------------------------------------
(* Properties.                                                             *)

Active(i) == pc[i] \notin Ended \cup {"start"}

\* Overwrite transactions hold a per-run lock: no two imports of a run are
\* past the lock at once.
LockExclusive ==
  \A i, j \in Imports : pc[i] \in Critical /\ pc[j] \in Critical => i = j

\* The run directory, which readers open without the lock, is complete
\* whenever it is there, in whatever state kills and failures leave the
\* locks, the journal and the directories beside it.
TargetWhole == TypeOK /\ dir[Target] # "partial"

\* Once recovery is over the run is at its place, the version recovery had
\* promised, and no trace of the interrupted transaction is left.
RecoveryComplete ==
  \A i \in Imports :
    pc[i] = "check" =>
      /\ journal = NoJournal
      /\ dir[Target] = before
      /\ tx[i] # Nobody => ~Exists(Staging(tx[i])) /\ ~Exists(Backup(tx[i]))

\* Without crashes and failures nothing is left beside the run.
NoLeftovers ==
  /\ \A i \in Imports : ~Active(i) /\ pc[i] # "crashed"
  /\ faults = 0
  => /\ journal = NoJournal
     /\ \A i \in Imports : ~Exists(Staging(i)) /\ ~Exists(Backup(i))

\* The transaction implements the atomic replacement.
Result(i) ==
  CASE pc[i] = "done" -> "success"
    [] pc[i] = "crashed" -> "crash"
    [] pc[i] \in Ended \ {"done", "crashed"} -> "failure"
    [] OTHER -> "none"

Running == {i \in Imports : pc[i] \in Critical}

Replace == INSTANCE AtomicReplace WITH
  Absent <- "absent",
  version <- Recoverable,
  result <- [i \in Imports |-> Result(i)],
  running <- IF Running = {} THEN Nobody ELSE CHOOSE i \in Imports : i \in Running

ImplementsAtomicReplace == Replace!Spec

\* An import that has begun ends.
ImportEnds == \A i \in Imports : pc[i] # "start" ~> pc[i] \in Ended
=============================================================================
