------------------------------ MODULE RecordRun ------------------------------
(***************************************************************************)
(* One `record' (or `replay', which records again): record_command with    *)
(* the storage it writes through and the Git capture around the command.   *)
(*                                                                         *)
(* Beside it run the command, an editor that changes and commits files of  *)
(* the work tree at any time, and somebody who moves the run directory     *)
(* away, or puts another in its place, once.  Git calls, writes and        *)
(* launches fail; the process may be interrupted (an exception that only   *)
(* `finally' sees).  A process that is killed takes no further step, and   *)
(* every invariant holds of every state it can stop in.                    *)
(*                                                                         *)
(* A version of a file is a number, 0 for no file.                         *)
(***************************************************************************)
EXTENDS Naturals, FiniteSets

CONSTANTS
  Paths,       \* the files of the repository
  Ignored,     \* those that .gitignore names
  Stores,      \* what of them may be below the store's runs: sets of paths
  Versions,
  CaptureDiff, Redact,    \* the options; sets of BOOLEAN
  MaxEdits     \* bound: changes in the work tree

ASSUME RecordAssumption ==
  /\ Ignored \subseteq Paths /\ Stores \subseteq SUBSET Paths
  /\ 0 .. 2 \subseteq Versions /\ Versions \subseteq Nat
  /\ CaptureDiff \subseteq BOOLEAN /\ Redact \subseteq BOOLEAN /\ MaxEdits \in Nat

Own == 1        \* the run directory that was created
Foreign == 2    \* any other at its path
Absent == 0

VARIABLES
  options,    \* capture_diff, redact, and the files that are below the store
  pc, then,   \* control; where a check leads to
  outcome, status,
  at,         \* the directory at the run's path
  files,      \* directory -> name -> "none", "part", "raw", "whole"
  published,  \* what trace.json says
  work, head, edits,      \* the work tree, its HEAD commit
  phase, index, listed,   \* of the snapshot in progress: "before" or "after"
  tree,       \* the trees that were written
  temporary,  \* the TemporaryDirectory: "none", "held" by the capture, or "left"
              \* on the disk by a removal that failed, with nobody to try again
  unremoved,  \* history: unlinking the temporary trace failed
  change,     \* _initial_result, then the result of finish
  saw         \* history: versions of each path while a snapshot was taken

store == <<at, files, published>>
repository == <<work, head, edits>>
snapshot == <<phase, index, listed, tree, saw>>
control == <<pc, then, outcome>>
vars == <<options, control, status, store, repository, snapshot, temporary, unremoved,
          change>>

Names == {"stdout.log", "stderr.log", "changes.patch", "temporary", "trace.json"}

Runs == options.runs

Nothing == [p \in Paths |-> 0]

NoResult == [status |-> "none", listed |-> FALSE, files |-> {}]

Result(s) == [NoResult EXCEPT !.status = s]

WithFiles(s, changed) == [status |-> s, listed |-> TRUE, files |-> changed]

Init ==
  /\ options \in [capture : CaptureDiff, redact : Redact, runs : Stores]
  /\ pc = "create" /\ then = "none" /\ outcome = "none" /\ status = "none"
  /\ at = Absent
  /\ files = [d \in {Own, Foreign} |-> [n \in Names |-> "none"]]
  /\ published = [status |-> "none", change |-> NoResult]
  /\ head \in [Paths -> Versions \cap 0 .. 1] /\ work = head /\ edits = 0
  /\ phase = "before" /\ index = Nothing /\ listed = {}
  /\ tree = [s \in {"before", "after"} |-> Nothing]
  /\ saw = [s \in {"before", "after"} |-> [p \in Paths |-> {}]]
  /\ temporary = "none" /\ unremoved = FALSE /\ change = NoResult

-----------------------------------------------------------------------------
(* The work tree and the run directory, as others change them.             *)

\* What a snapshot shows of a path: an ignored file only if it is in the index.
Visible(p, w, i) == IF p \in Ignored /\ i[p] = 0 THEN 0 ELSE w[p]

Witness ==
  saw' = IF pc \in {"list", "add"}
         THEN [saw EXCEPT ![phase] =
                 [p \in Paths |-> @[p] \cup {Visible(p, work', index)}]]
         ELSE saw

\* What a later snapshot can show; other changes of the work tree are left out.
Watched ==
  /\ options.capture /\ change.status = "none"
  /\ pc \notin {"create", "summary", "patch", "diff", "redact", "measure",
                "finally", "end"}

Disturb ==
  /\ Watched
  /\ edits < MaxEdits
  /\ edits' = edits + 1
  /\ Witness
  /\ UNCHANGED <<options, control, status, store, phase, index, listed, tree,
                 temporary, unremoved, change>>

Edit(p) ==
  /\ \E v \in Versions \ {work[p]} : work' = [work EXCEPT ![p] = v]
  /\ UNCHANGED head
  /\ Disturb

Commit(p) ==
  /\ head[p] # work[p]
  /\ head' = [head EXCEPT ![p] = work[p]]
  /\ UNCHANGED work
  /\ Disturb

\* Nothing is read or written at the path once `finally' has been reached.
MoveRun ==
  /\ at = Own /\ pc \notin {"finally", "end"}
  /\ at' \in {Absent, Foreign}
  /\ UNCHANGED <<options, control, status, files, published, repository, snapshot,
                 temporary, unremoved, change>>

-----------------------------------------------------------------------------
(* Control.                                                                *)

GoTo(place) == pc' = place /\ UNCHANGED <<then, outcome>>

\* verify_prepared_run, and what follows when the directory is the same.
Verify(place) == pc' = "verify" /\ then' = place /\ UNCHANGED outcome

\* `raise' out of the try statement, or its normal end: `finally' comes next.
Leave(result) == pc' = "finally" /\ outcome' = result /\ UNCHANGED then

Unwritable == Leave("record_store_unwritable")

Keep == UNCHANGED <<options, repository, unremoved>>

Create ==
  /\ pc = "create"
  /\ \/ pc' = "end" /\ outcome' = "record_store_unwritable" /\ at' \in {Absent, Own}
     \/ /\ pc' = IF options.capture THEN "discover" ELSE "execute"
        /\ at' = Own
        /\ UNCHANGED outcome
  /\ Keep /\ UNCHANGED <<then, status, files, published, snapshot, temporary, change>>

Check ==
  /\ pc = "verify"
  /\ IF at = Own
     THEN IF then = "recorded" THEN Leave("recorded") ELSE GoTo(then)
     ELSE IF then \in {"replace", "recorded"} THEN GoTo("unlink") ELSE Unwritable
  /\ Keep /\ UNCHANGED <<status, store, snapshot, temporary, change>>

\* GitDiffCapture.close: the capture forgets the directory and removes it, and
\* what the removal cannot delete stays: errors are ignored.
Removal == {"none", "left"}

Close == temporary' \in IF temporary = "held" THEN Removal ELSE {temporary}

Finally ==
  /\ pc = "finally"
  /\ Close
  /\ GoTo("end")
  /\ Keep /\ UNCHANGED <<status, store, snapshot, change>>

Interrupt_Uncaught ==
  /\ pc \notin {"create", "finally", "end"}
  /\ pc' = "end" /\ outcome' = "interrupted"
  /\ Keep /\ UNCHANGED <<then, status, store, snapshot, temporary, change>>

Interrupt ==
  /\ pc \notin {"create", "finally", "end"}
  /\ Leave("interrupted")
  /\ Keep /\ UNCHANGED <<status, store, snapshot, temporary, change>>

-----------------------------------------------------------------------------
(* GitDiffCapture.start                                                    *)

\* The capture ends with this result; start returns and the command runs.
GiveUp(result) == change' = result /\ Close /\ GoTo("execute")

Discover ==
  /\ pc = "discover"
  /\ \/ \E s \in {"skipped", "error"} : GiveUp(Result(s))
     \/ GoTo("common") /\ UNCHANGED <<change, temporary>>
  /\ Keep /\ UNCHANGED <<status, store, snapshot>>

\* The object directory is found, and the temporary one made; an error may come
\* before that or after, when the temporary one is removed again.
Prepare ==
  /\ pc = "common"
  /\ \/ change' = Result("error") /\ temporary' \in Removal /\ GoTo("execute")
     \/ temporary' = "held" /\ GoTo("exclude") /\ UNCHANGED change
  /\ Keep /\ UNCHANGED <<status, store, snapshot>>

\* A store that is the repository itself has every file below it.
Exclude ==
  /\ pc = "exclude"
  /\ IF Runs = Paths
     THEN GiveUp(Result("error"))
     ELSE GoTo("tree") /\ UNCHANGED <<change, temporary>>
  /\ Keep /\ UNCHANGED <<status, store, snapshot>>

-----------------------------------------------------------------------------
(* _snapshot and _git_limited                                              *)

\* One limited call of git: its timer fired, its output passed the limit, its
\* return code.  It wrote everything only when neither limit nor code says no.
GitCalls == [timer : BOOLEAN, exceeded : BOOLEAN, code : {0, 1}]

Verdict_LimitUnseen(call) ==
  IF call.timer /\ call.code # 0 THEN "timeout"
  ELSE IF call.code # 0 THEN "failed" ELSE "good"

Verdict(call) ==
  IF call.timer /\ call.code # 0 THEN "timeout"
  ELSE IF call.exceeded THEN "exceeded"
  ELSE IF call.code # 0 THEN "failed" ELSE "good"

CutShort(call) == call.exceeded \/ call.code # 0

SnapshotFails ==
  /\ pc \in {"tree", "list", "add"}
  /\ IF phase = "before"
     THEN GiveUp(Result("error"))
     ELSE change' = Result("error") /\ Close /\ Verify("temporary")
  /\ Keep /\ UNCHANGED <<status, store, snapshot>>

\* rev-parse, read-tree and, for a store in the repository, rm --cached.
StartTree(h) == [p \in Paths |-> IF p \in Runs THEN 0 ELSE h[p]]

ReadTree ==
  /\ pc = "tree"
  /\ index' = StartTree(head)
  /\ saw' = [saw EXCEPT ![phase] = [p \in Paths |-> {Visible(p, work, index')}]]
  /\ GoTo("list")
  /\ Keep /\ UNCHANGED <<status, store, phase, listed, tree, temporary, change>>

\* ls-files --modified --deleted --others --exclude-standard
Listing(w, i) ==
  {p \in Paths \ Runs : w[p] # i[p] /\ (p \in Ignored => i[p] # 0)}

ListChanged ==
  /\ pc = "list"
  /\ \E call \in GitCalls :
       /\ Verdict(call) = "good"
       /\ listed' \in IF CutShort(call) THEN SUBSET Listing(work, index)
                      ELSE {Listing(work, index)}
  /\ GoTo("add")
  /\ Keep /\ UNCHANGED <<status, store, phase, index, tree, saw, temporary, change>>

\* add -A of the listed paths and write-tree.  A listed path that was never in
\* the index and is gone makes add fail.
WriteTree ==
  /\ pc = "add"
  /\ \A p \in listed : index[p] # 0 \/ work[p] # 0
  /\ tree' = [tree EXCEPT ![phase] =
                [p \in Paths |-> IF p \in listed THEN work[p] ELSE index[p]]]
  /\ index' = Nothing /\ listed' = {}
  /\ GoTo(IF phase = "before" THEN "execute" ELSE "summary")
  /\ Keep /\ UNCHANGED <<status, store, phase, saw, temporary, change>>

-----------------------------------------------------------------------------
(* The command and its output.                                             *)

Execute ==
  /\ pc = "execute"
  /\ \/ Leave("record_spawn_failed")
     \/ GoTo("running")
  /\ Keep /\ UNCHANGED <<status, store, snapshot, temporary, change>>

CommandEnds ==
  /\ pc = "running"
  /\ status' \in {"passed", "failed", "timeout"}
  /\ Verify("stdout.log")
  /\ Keep /\ UNCHANGED <<store, snapshot, temporary, change>>

Put(name, content) == files' = [files EXCEPT ![at][name] = content]

\* write_prepared_bytes: an exclusive create; a failure leaves a part.  What is
\* written below the runs directory is also in the work tree.
Write(name, next) ==
  /\ pc = name
  /\ \/ /\ at # Absent
        /\ files[at][name] = "none"
        /\ \/ Put(name, "whole") /\ Verify(next)
           \/ Put(name, "part") /\ Unwritable
     \/ Unwritable /\ UNCHANGED files
  /\ work' = [p \in Paths |-> IF p \in Runs /\ files' # files
                              THEN IF work[p] = 1 THEN 2 ELSE 1
                              ELSE work[p]]
  /\ UNCHANGED <<options, status, head, edits, at, published, snapshot, temporary, unremoved,
                 change>>

WriteStdout == Write("stdout.log", "stderr.log")

WriteStderr ==
  Write("stderr.log", IF options.capture THEN "finish" ELSE "temporary")

-----------------------------------------------------------------------------
(* GitDiffCapture.finish and _write_patch                                  *)

\* finish returns a result; its `finally' closes.
Finished(result) == change' = result /\ Close /\ Verify("temporary")

Finish ==
  /\ pc = "finish"
  /\ IF change.status # "none"
     THEN Finished(change) /\ UNCHANGED phase
     ELSE phase' = "after" /\ GoTo("tree") /\ UNCHANGED <<change, temporary>>
  /\ Keep /\ UNCHANGED <<status, store, index, listed, tree, saw>>

Changed_SinceCommit == {p \in Paths : head[p] # tree["after"][p]}

Changed == {p \in Paths : tree["before"][p] # tree["after"][p]}

Summarise ==
  /\ pc = "summary"
  /\ \/ Finished(Result("error"))
     \/ \E call \in GitCalls :
          \/ Verdict(call) \in {"timeout", "failed"} /\ Finished(Result("error"))
          \/ Verdict(call) = "exceeded" /\ Finished(Result("omitted"))
          \/ /\ Verdict(call) = "good"
             /\ IF Changed = {}
                THEN Finished(WithFiles("unchanged", {}))
                ELSE /\ GoTo("patch")
                     /\ change' = WithFiles("none", Changed)
                     /\ UNCHANGED temporary
  /\ Keep /\ UNCHANGED <<status, store, snapshot>>

\* mkdir(exist_ok), open "wb": the directory at the path, whichever it is.
OpenPatch ==
  /\ pc = "patch"
  /\ \/ /\ at' = IF at = Absent THEN Foreign ELSE at
        /\ files' = [files EXCEPT ![at']["changes.patch"] = "part"]
        /\ GoTo("diff") /\ UNCHANGED <<change, temporary>>
     \/ Finished(Result("error")) /\ UNCHANGED <<at, files>>
  /\ Keep /\ UNCHANGED <<status, published, snapshot>>

\* What is at the path now: the open file, unless the directory was moved.
PatchThere == at # Absent /\ files[at]["changes.patch"] # "none"

\* The file that was opened: the one in the directory it was opened in.
PatchFile == CHOOSE d \in {Own, Foreign} : files[d]["changes.patch"] # "none"

Unlinked == IF PatchThere THEN [files EXCEPT ![at]["changes.patch"] = "none"] ELSE files

WritePatch ==
  /\ pc = "diff"
  /\ \/ Finished(Result("error")) /\ UNCHANGED files
     \/ \E call \in GitCalls :
          \/ /\ Verdict(call) # "good"
             /\ \/ /\ files' = Unlinked
                   /\ Finished(WithFiles(IF Verdict(call) = "exceeded" THEN "omitted"
                                         ELSE "error", Changed))
                \/ Finished(Result("error")) /\ UNCHANGED files
          \/ /\ Verdict(call) = "good"
             /\ files' = [files EXCEPT ![PatchFile]["changes.patch"] =
                            IF CutShort(call) THEN "part"
                            ELSE IF options.redact THEN "raw" ELSE "whole"]
             /\ GoTo(IF options.redact THEN "redact" ELSE "measure")
             /\ UNCHANGED <<change, temporary>>
  /\ Keep /\ UNCHANGED <<status, at, published, snapshot>>

\* read_bytes, then write_bytes, which creates the file if it has to.
RedactPatch ==
  /\ pc = "redact"
  /\ \/ /\ PatchThere
        /\ \/ /\ files' = [files EXCEPT ![at]["changes.patch"] =
                             IF @ = "raw" THEN "whole" ELSE @]
              /\ GoTo("measure") /\ UNCHANGED <<change, temporary>>
           \/ \* stat: the redacted patch is over the limit
              files' = Unlinked /\ Finished(WithFiles("omitted", Changed))
           \/ \* write_bytes fails half-way
              Put("changes.patch", "part") /\ Finished(Result("error"))
     \/ Finished(Result("error")) /\ UNCHANGED files
  /\ Keep /\ UNCHANGED <<status, at, published, snapshot>>

MeasurePatch ==
  /\ pc = "measure"
  /\ \/ PatchThere /\ Finished(WithFiles("captured", Changed))
     \/ Finished(Result("error"))
  /\ Keep /\ UNCHANGED <<status, store, snapshot>>

-----------------------------------------------------------------------------
(* publish_prepared_json                                                   *)

WriteTemporary ==
  /\ pc = "temporary"
  /\ \/ at # Absent /\ Put("temporary", "whole") /\ Verify("replace")
     \/ at # Absent /\ Put("temporary", "part") /\ GoTo("unlink")
     \/ GoTo("unlink") /\ UNCHANGED files
  /\ Keep /\ UNCHANGED <<status, at, published, snapshot, temporary, change>>

\* os.replace by path: the source has to be in the directory that is there.
Replace ==
  /\ pc = "replace"
  /\ \/ /\ at # Absent /\ files[at]["temporary"] # "none"
        /\ files' = [files EXCEPT ![at]["trace.json"] = files[at]["temporary"],
                                  ![at]["temporary"] = "none"]
        /\ published' = [status |-> status, change |-> change]
        /\ GoTo("sync")
     \/ GoTo("unlink") /\ UNCHANGED <<files, published>>
  /\ Keep /\ UNCHANGED <<status, at, snapshot, temporary, change>>

Sync ==
  /\ pc = "sync"
  /\ \/ Verify("recorded")
     \/ GoTo("unlink")
  /\ Keep /\ UNCHANGED <<status, store, snapshot, temporary, change>>

\* The exception handler: unlink(missing_ok), whose failure is ignored.
TemporaryThere == at # Absent /\ files[at]["temporary"] # "none"

Unlink ==
  /\ pc = "unlink"
  /\ \/ ~TemporaryThere /\ UNCHANGED <<files, unremoved>>
     \/ TemporaryThere /\ Put("temporary", "none") /\ UNCHANGED unremoved
     \/ TemporaryThere /\ unremoved' = TRUE /\ UNCHANGED files
  /\ Unwritable
  /\ UNCHANGED <<options, repository, status, at, published, snapshot, temporary, change>>

-----------------------------------------------------------------------------
Record ==
  \/ Create \/ Discover \/ Prepare \/ Exclude
  \/ ReadTree \/ ListChanged \/ WriteTree \/ SnapshotFails
  \/ Execute \/ CommandEnds \/ WriteStdout \/ WriteStderr
  \/ Finish \/ Summarise \/ OpenPatch \/ WritePatch \/ RedactPatch \/ MeasurePatch
  \/ WriteTemporary \/ Replace \/ Sync \/ Unlink
  \/ Check \/ Finally

Next ==
  \/ Record
  \/ Interrupt
  \/ MoveRun
  \/ \E p \in Paths : Edit(p) \/ Commit(p)

Spec == Init /\ [][Next]_vars

-----------------------------------------------------------------------------
(* Whatever fails, is interrupted or killed, and wherever the directory    *)
(* goes: a published trace is in the directory that was created for it,    *)
(* with both outputs whole, and with a whole (redacted, unless that was    *)
(* switched off) patch if it says captured; and a run reported as recorded *)
(* is published with the status of the command.                            *)
PublishedIsWhole ==
  /\ files[Foreign]["trace.json"] = "none"
  /\ files[Own]["trace.json"] # "none" =>
       /\ \A n \in {"stdout.log", "stderr.log", "trace.json"} : files[Own][n] = "whole"
       /\ published.change.status = "captured" => files[Own]["changes.patch"] = "whole"
       /\ (published.change.status = "none") = ~options.capture
  /\ outcome = "recorded" =>
       /\ files[Own]["trace.json"] = "whole"
       /\ published = [status |-> status, change |-> change]

(* What the trace says of changed files agrees with the work tree although *)
(* it changes under the snapshots: a path is named only if it was seen     *)
(* with two versions, one in each snapshot, and every path is named that   *)
(* had no version in common between them.  The store's runs never are.     *)
DiffSound ==
  published.change.listed =>
    LET named == published.change.files
    IN /\ named \cap Runs = {}
       /\ \A p \in named : \E u \in saw["before"][p], v \in saw["after"][p] : u # v
       /\ \A p \in Paths \ Runs :
            saw["before"][p] \cap saw["after"][p] = {} => p \in named

(* However the recording ends, short of a kill, the capture has tried to   *)
(* remove the temporary objects of Git: no path, interrupts included, ends *)
(* while it still holds them.  A temporary trace remains only if the       *)
(* recording was interrupted, or the directory taken away, or unlinking it *)
(* failed and the run is reported as unwritable.  Failures of both         *)
(* removals are ignored by the code.                                       *)
NothingLeftBehind ==
  pc = "end" =>
    /\ temporary # "held"
    /\ at = Own /\ files[Own]["temporary"] # "none" =>
         \/ outcome = "interrupted"
         \/ unremoved /\ outcome = "record_store_unwritable"
=============================================================================
