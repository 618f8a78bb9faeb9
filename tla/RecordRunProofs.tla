--------------------------- MODULE RecordRunProofs ---------------------------
(***************************************************************************)
(* Proofs about RecordRun for any files, stores, options and number of     *)
(* changes in the work tree: what is published is whole, what the trace    *)
(* says of changed files agrees with the work tree, and what is temporary  *)
(* stays behind only where removing it failed or was not reached.          *)
(***************************************************************************)
EXTENDS RecordRun, TLAPS

-----------------------------------------------------------------------------
(* Types.                                                                  *)

Dirs == {Own, Foreign}
Contents == {"none", "part", "raw", "whole"}
Phases == {"before", "after"}
Snapshotting == {"tree", "list", "add"}
Patching == {"patch", "diff", "redact", "measure"}
Publishing == {"temporary", "replace", "sync", "unlink"}
Places == {"create", "discover", "common", "exclude"} \cup Snapshotting
          \cup {"execute", "running", "stdout.log", "stderr.log", "finish", "summary"}
          \cup Patching \cup Publishing \cup {"verify", "finally", "end"}
Targets == {"none", "stdout.log", "stderr.log", "finish", "temporary", "replace", "recorded"}
Statuses == {"none", "skipped", "error", "omitted", "unchanged", "captured"}
Results == [status : Statuses, listed : BOOLEAN, files : SUBSET Paths]

ControlTypes ==
  /\ options \in [capture : BOOLEAN, redact : BOOLEAN, runs : SUBSET Paths]
  /\ pc \in Places /\ then \in Targets
  /\ pc = "verify" => then # "none"
  /\ temporary \in {"none", "held", "left"} /\ unremoved \in BOOLEAN
  /\ change \in Results
  /\ published.change \in Results

FileTypes ==
  /\ at \in {Absent, Own, Foreign}
  /\ files \in [Dirs -> [Names -> Contents]]

TreeTypes ==
  /\ work \in [Paths -> Versions] /\ head \in [Paths -> Versions]
  /\ index \in [Paths -> Versions] /\ listed \subseteq Paths
  /\ phase \in Phases
  /\ tree \in [Phases -> [Paths -> Versions]]
  /\ saw \in [Phases -> [Paths -> SUBSET Versions]]

-----------------------------------------------------------------------------
(* The inductive invariant.                                                *)

\* A check that will succeed unless the directory goes away before it.
Checking(places) == pc = "verify" /\ then \in places /\ at = Own

\* Where the capture has options to work with, and where it has not ended.
CaptureKept ==
  /\ pc \in {"discover", "common", "exclude", "finish", "summary"} \cup Snapshotting \cup Patching
       => options.capture
  /\ pc = "verify" /\ then = "finish" => options.capture
  /\ pc = "create" \/ ~options.capture => change = NoResult
  /\ pc \in {"discover", "common", "exclude", "summary"} \cup Snapshotting => change = NoResult
  /\ pc \in Patching => change.status = "none"
  /\ pc \notin Patching \cup {"finally", "end"} /\ change.status = "none" => change = NoResult
  /\ options.capture /\ (pc \in Publishing
                         \/ (pc = "verify" /\ then \in {"temporary", "replace", "recorded"}))
       => change.status # "none"
  /\ pc \in {"create", "discover", "common", "exclude"} => phase = "before"
  /\ pc \in {"create", "end"} => temporary # "held"
  /\ pc \notin {"finally", "end"} => outcome = "none"

\* Whoever takes the directory's place has nothing in it that this recording
\* put there while the directory was there.
DirectoryKept ==
  /\ pc = "create" => at = Absent
  /\ at = Own \/ pc = "create" => \A n \in Names : files[Foreign][n] = "none"
  /\ pc = "create" => \A n \in Names : files[Own][n] = "none"
  /\ pc = "replace" => files[Foreign]["temporary"] = "none"
  /\ files[Foreign]["trace.json"] = "none"

Outputs == {"finish", "summary"} \cup Patching \cup Publishing

\* An output is whole once the check after it has found the directory.
OutputsKept ==
  /\ pc = "stderr.log" \/ Checking({"stderr.log"}) => files[Own]["stdout.log"] = "whole"
  /\ \/ pc \in Outputs
     \/ pc \in Snapshotting /\ phase = "after"
     \/ pc = "verify" /\ then \in {"replace", "recorded"}
     \/ Checking({"finish", "temporary"})
     => files[Own]["stdout.log"] = "whole" /\ files[Own]["stderr.log"] = "whole"

\* The trace, which is published by moving a whole temporary file.
TraceKept ==
  /\ pc = "replace" \/ Checking({"replace"}) => files[Own]["temporary"] = "whole"
  /\ files[Own]["temporary"] # "none" =>
       \/ pc \in {"replace", "unlink"}
       \/ pc = "verify" /\ then = "replace"
       \/ /\ pc \in {"finally", "end"}
          /\ \/ outcome = "interrupted" \/ at # Own
             \/ unremoved /\ outcome = "record_store_unwritable"
  /\ files[Own]["trace.json"] # "none" =>
       /\ pc \in {"sync", "unlink", "finally", "end"} \/ (pc = "verify" /\ then = "recorded")
       /\ \A n \in {"stdout.log", "stderr.log", "trace.json"} : files[Own][n] = "whole"
       /\ published.change.status = "captured" => files[Own]["changes.patch"] = "whole"
       /\ (published.change.status = "none") = ~options.capture
  /\ pc = "sync" \/ (pc = "verify" /\ then = "recorded") \/ outcome = "recorded" =>
       files[Own]["trace.json"] = "whole" /\ published = [status |-> status, change |-> change]

\* The patch, in the one directory it was opened in.
PatchKept ==
  /\ files[Own]["changes.patch"] = "none" \/ files[Foreign]["changes.patch"] = "none"
  /\ pc \notin {"diff", "redact", "measure", "verify", "finally", "end"} \cup Publishing
     \/ (pc = "verify" /\ then \notin {"temporary", "replace", "recorded"})
       => files[Own]["changes.patch"] = "none" /\ files[Foreign]["changes.patch"] = "none"
  /\ pc = "diff" => files[Own]["changes.patch"] # "none" \/ files[Foreign]["changes.patch"] # "none"
  /\ pc = "redact" => files[Own]["changes.patch"] \in {"none", "raw"}
  /\ pc = "measure" => files[Own]["changes.patch"] \in {"none", "whole"}
  /\ change.status = "captured" /\ at = Own => files[Own]["changes.patch"] = "whole"

\* A written tree shows of each path a version that was there while the
\* snapshot was taken, and nothing of the store's runs.
Seen(s) ==
  /\ \A p \in Paths \ Runs : tree[s][p] \in saw[s][p]
  /\ \A p \in Runs \cap Paths : tree[s][p] = 0

HasBefore ==
  \/ phase = "after"
  \/ /\ options.capture /\ change.status = "none"
     /\ pc \in {"execute", "running", "stdout.log", "stderr.log", "finish", "verify"}

\* A snapshot in progress: what is not going to be added is already as it was
\* seen.
InProgress ==
  /\ pc \in {"list", "add"} =>
       /\ \A p \in Paths \ Runs : Visible(p, work, index) \in saw[phase][p]
       /\ \A p \in Runs \cap Paths : index[p] = 0
  /\ pc = "add" =>
       /\ listed \cap Runs = {}
       /\ \A p \in listed : p \in Ignored => index[p] # 0
       /\ \A p \in (Paths \ Runs) \ listed : index[p] \in saw[phase][p]

DiffKept ==
  /\ InProgress
  /\ HasBefore => Seen("before")
  /\ pc \in {"summary"} \cup Patching => phase = "after" /\ Seen("after")
  /\ change.listed =>
       /\ change.files = Changed /\ Seen("before") /\ Seen("after")
       /\ pc \notin {"execute", "running", "stdout.log", "stderr.log", "finish"}
       /\ pc = "verify" => then \in {"temporary", "replace", "recorded"}
  /\ published.change.listed =>
       /\ published.change.files = Changed /\ Seen("before") /\ Seen("after")
       /\ pc \in {"sync", "unlink", "finally", "end"} \/ (pc = "verify" /\ then = "recorded")

IInv ==
  /\ ControlTypes /\ FileTypes /\ TreeTypes
  /\ CaptureKept /\ DirectoryKept /\ OutputsKept /\ TraceKept /\ PatchKept /\ DiffKept

-----------------------------------------------------------------------------
(* Types are kept.                                                         *)

USE DEF store, repository, snapshot, control, GoTo, Verify, Leave, Unwritable, Keep, GiveUp,
        Finished, Close, Removal, Own, Foreign, Absent, Runs, Snapshotting, Patching, Publishing, Outputs

\* The results that a capture can end with.
LEMMA ResultTypes ==
  /\ NoResult \in Results /\ NoResult.status = "none" /\ ~NoResult.listed
  /\ Result("skipped") \in Results /\ Result("skipped").status = "skipped"
  /\ Result("error") \in Results /\ Result("error").status = "error"
  /\ Result("omitted") \in Results /\ Result("omitted").status = "omitted"
  /\ ~Result("skipped").listed /\ ~Result("error").listed /\ ~Result("omitted").listed
BY DEF NoResult, Result, Results, Statuses

LEMMA WithFilesTypes ==
  /\ WithFiles("none", Changed) \in Results /\ WithFiles("none", Changed).status = "none"
  /\ WithFiles("error", Changed) \in Results /\ WithFiles("error", Changed).status = "error"
  /\ WithFiles("omitted", Changed) \in Results /\ WithFiles("omitted", Changed).status = "omitted"
  /\ WithFiles("captured", Changed) \in Results
  /\ WithFiles("captured", Changed).status = "captured"
  /\ WithFiles("unchanged", {}) \in Results /\ WithFiles("unchanged", {}).status = "unchanged"
  /\ \A s : WithFiles(s, Changed).files = Changed
  /\ \A f : WithFiles("unchanged", f).files = f
<1>1. Changed \in SUBSET Paths
  BY DEF Changed
<1>2. QED
  BY <1>1 DEF WithFiles, Results, Statuses

\* Where a check leads.
LEMMA CheckLeads ==
  ASSUME ControlTypes, Check
  PROVE  /\ pc = "verify"
         /\ \/ at = Own /\ then = "recorded" /\ pc' = "finally" /\ outcome' = "recorded"
            \/ /\ at = Own /\ pc' = then /\ outcome' = outcome
               /\ then \in {"stdout.log", "stderr.log", "finish", "temporary", "replace"}
            \/ at # Own /\ then \in {"replace", "recorded"} /\ pc' = "unlink" /\ outcome' = outcome
            \/ /\ at # Own /\ then \notin {"replace", "recorded"}
               /\ pc' = "finally" /\ outcome' = "record_store_unwritable"
         /\ then' = then
         /\ options' = options /\ status' = status /\ change' = change /\ temporary' = temporary
         /\ unremoved' = unremoved
         /\ at' = at /\ files' = files /\ published' = published
         /\ work' = work /\ head' = head /\ phase' = phase /\ index' = index /\ listed' = listed
         /\ tree' = tree /\ saw' = saw
BY DEF Check, ControlTypes, Targets

\* Every step keeps the types of control.
LEMMA ControlTypesKept ==
  ASSUME IInv, [Next]_vars
  PROVE  ControlTypes'
<1> USE DEF IInv, ControlTypes, Places, Targets
<1>1. CASE Create
  BY <1>1, ResultTypes DEF Create
<1>2. CASE Discover
  BY <1>2, ResultTypes DEF Discover
<1>3. CASE Prepare
  BY <1>3, ResultTypes DEF Prepare
<1>4. CASE Exclude
  BY <1>4, ResultTypes DEF Exclude
<1>5. CASE ReadTree
  BY <1>5 DEF ReadTree, StartTree
<1>6. CASE ListChanged
  BY <1>6 DEF ListChanged
<1>7. CASE WriteTree
  BY <1>7 DEF WriteTree
<1>8. CASE SnapshotFails
  BY <1>8, ResultTypes DEF SnapshotFails
<1>9. CASE Execute
  BY <1>9 DEF Execute
<1>10. CASE CommandEnds
  BY <1>10 DEF CommandEnds
<1>11. CASE WriteStdout
  BY <1>11 DEF WriteStdout, Write, Put
<1>12. CASE WriteStderr
  BY <1>12 DEF WriteStderr, Write, Put
<1>13. CASE Finish
  BY <1>13, ResultTypes DEF Finish
<1>14. CASE Summarise
  BY <1>14, ResultTypes, WithFilesTypes DEF Summarise
<1>15. CASE OpenPatch
  BY <1>15, ResultTypes DEF OpenPatch
<1>16. CASE WritePatch
  BY <1>16, ResultTypes, WithFilesTypes DEF WritePatch, Unlinked, PatchThere
<1>17. CASE RedactPatch
  BY <1>17, ResultTypes, WithFilesTypes DEF RedactPatch, Unlinked, PatchThere, Put
<1>18. CASE MeasurePatch
  BY <1>18, ResultTypes, WithFilesTypes DEF MeasurePatch, PatchThere
<1>19. CASE WriteTemporary
  BY <1>19 DEF WriteTemporary, Put
<1>20. CASE Replace
  BY <1>20 DEF Replace
<1>21. CASE Sync
  BY <1>21 DEF Sync
<1>22. CASE Unlink
  BY <1>22 DEF Unlink, Put
<1>23. CASE Check
  BY <1>23, CheckLeads
<1>24. CASE Finally
  BY <1>24 DEF Finally
<1>25. CASE Interrupt
  BY <1>25 DEF Interrupt
<1>26. CASE MoveRun
  BY <1>26 DEF MoveRun
<1>27. CASE \E p \in Paths : Edit(p) \/ Commit(p)
  BY <1>27 DEF Edit, Commit, Disturb, Watched, Witness
<1>28. CASE UNCHANGED vars
  BY <1>28 DEF vars
<1>29. QED
  BY <1>1, <1>2, <1>3, <1>4, <1>5, <1>6, <1>7, <1>8, <1>9, <1>10, <1>11, <1>12, <1>13,
     <1>14, <1>15, <1>16, <1>17, <1>18, <1>19, <1>20, <1>21, <1>22, <1>23, <1>24, <1>25,
     <1>26, <1>27, <1>28
    DEF Next, Record

\* Every step keeps the capture in place.
LEMMA CaptureKeeps ==
  ASSUME IInv, [Next]_vars
  PROVE  CaptureKept'
<1> USE DEF IInv, CaptureKept, ControlTypes
<1>1. CASE Create
  BY <1>1, ResultTypes DEF Create
<1>2. CASE Discover
  BY <1>2, ResultTypes DEF Discover
<1>3. CASE Prepare
  BY <1>3, ResultTypes DEF Prepare
<1>4. CASE Exclude
  BY <1>4, ResultTypes DEF Exclude
<1>5. CASE ReadTree
  BY <1>5 DEF ReadTree, StartTree
<1>6. CASE ListChanged
  BY <1>6 DEF ListChanged
<1>7. CASE WriteTree
  BY <1>7 DEF WriteTree
<1>8. CASE SnapshotFails
  BY <1>8, ResultTypes DEF SnapshotFails
<1>9. CASE Execute
  BY <1>9 DEF Execute
<1>10. CASE CommandEnds
  BY <1>10 DEF CommandEnds
<1>11. CASE WriteStdout
  BY <1>11 DEF WriteStdout, Write, Put
<1>12. CASE WriteStderr
  BY <1>12 DEF WriteStderr, Write, Put
<1>13. CASE Finish
  BY <1>13, ResultTypes DEF Finish
<1>14. CASE Summarise
  BY <1>14, ResultTypes, WithFilesTypes DEF Summarise
<1>15. CASE OpenPatch
  BY <1>15, ResultTypes DEF OpenPatch
<1>16. CASE WritePatch
  BY <1>16, ResultTypes, WithFilesTypes DEF WritePatch, Unlinked, PatchThere
<1>17. CASE RedactPatch
  BY <1>17, ResultTypes, WithFilesTypes DEF RedactPatch, Unlinked, PatchThere, Put
<1>18. CASE MeasurePatch
  BY <1>18, ResultTypes, WithFilesTypes DEF MeasurePatch, PatchThere
<1>19. CASE WriteTemporary
  BY <1>19 DEF WriteTemporary, Put
<1>20. CASE Replace
  BY <1>20 DEF Replace
<1>21. CASE Sync
  BY <1>21 DEF Sync
<1>22. CASE Unlink
  BY <1>22 DEF Unlink, Put
<1>23. CASE Check
  BY <1>23, CheckLeads
<1>24. CASE Finally
  BY <1>24 DEF Finally
<1>25. CASE Interrupt
  BY <1>25 DEF Interrupt
<1>26. CASE MoveRun
  BY <1>26 DEF MoveRun
<1>27. CASE \E p \in Paths : Edit(p) \/ Commit(p)
  BY <1>27 DEF Edit, Commit, Disturb, Watched, Witness
<1>28. CASE UNCHANGED vars
  BY <1>28 DEF vars
<1>29. QED
  BY <1>1, <1>2, <1>3, <1>4, <1>5, <1>6, <1>7, <1>8, <1>9, <1>10, <1>11, <1>12, <1>13,
     <1>14, <1>15, <1>16, <1>17, <1>18, <1>19, <1>20, <1>21, <1>22, <1>23, <1>24, <1>25,
     <1>26, <1>27, <1>28
    DEF Next, Record

\* The run directory: one file changes, and only in the directory that is there.
LEMMA PutEffect ==
  ASSUME FileTypes, NEW d \in Dirs, NEW n \in Names, NEW c \in Contents,
         files' = [files EXCEPT ![d][n] = c]
  PROVE  /\ files' \in [Dirs -> [Names -> Contents]]
         /\ files'[d][n] = c
         /\ \A m \in Names : m # n => files'[d][m] = files[d][m]
         /\ \A e \in Dirs : e # d => files'[e] = files[e]
BY DEF FileTypes


\* What writing, moving and removing the temporary file does.
LEMMA TemporaryEffect ==
  ASSUME FileTypes, WriteTemporary
  PROVE  /\ pc = "temporary" /\ at' = at /\ status' = status /\ change' = change
         /\ options' = options /\ published' = published /\ temporary' = temporary
         /\ outcome' = outcome /\ UNCHANGED <<repository, snapshot>>
         /\ \/ /\ pc' = "verify" /\ then' = "replace"
               /\ at \in Dirs /\ files'[at]["temporary"] = "whole"
            \/ pc' = "unlink" /\ then' = then
         /\ files' \in [Dirs -> [Names -> Contents]]
         /\ \A d \in Dirs, n \in Names :
              d # at \/ n # "temporary" => files'[d][n] = files[d][n]
<1>1. ASSUME at # Absent, NEW c \in Contents, Put("temporary", c)
      PROVE  /\ at \in Dirs /\ files'[at]["temporary"] = c
             /\ files' \in [Dirs -> [Names -> Contents]]
             /\ \A d \in Dirs, n \in Names :
                  d # at \/ n # "temporary" => files'[d][n] = files[d][n]
  BY <1>1, PutEffect DEF Put, FileTypes, Dirs, Names
<1>2. CASE at # Absent /\ Put("temporary", "whole") /\ Verify("replace")
  BY <1>1, <1>2 DEF WriteTemporary, Contents
<1>3. CASE at # Absent /\ Put("temporary", "part") /\ GoTo("unlink")
  BY <1>1, <1>3 DEF WriteTemporary, Contents
<1>4. CASE GoTo("unlink") /\ UNCHANGED files
  BY <1>4 DEF WriteTemporary, FileTypes
<1>5. QED
  BY <1>2, <1>3, <1>4 DEF WriteTemporary

LEMMA ReplaceEffect ==
  ASSUME FileTypes, Replace
  PROVE  /\ pc = "replace" /\ at' = at /\ status' = status /\ change' = change
         /\ options' = options /\ temporary' = temporary /\ then' = then
         /\ outcome' = outcome /\ UNCHANGED <<repository, snapshot>>
         /\ \/ /\ pc' = "sync" /\ at \in Dirs /\ files[at]["temporary"] # "none"
               /\ files'[at]["trace.json"] = files[at]["temporary"]
               /\ files'[at]["temporary"] = "none"
               /\ published' = [status |-> status, change |-> change]
            \/ pc' = "unlink" /\ files' = files /\ published' = published
         /\ files' \in [Dirs -> [Names -> Contents]]
         /\ \A d \in Dirs, n \in Names :
              d # at \/ n \notin {"trace.json", "temporary"} => files'[d][n] = files[d][n]
<1>1. CASE /\ at # Absent /\ files[at]["temporary"] # "none"
           /\ files' = [files EXCEPT ![at]["trace.json"] = files[at]["temporary"],
                                     ![at]["temporary"] = "none"]
           /\ published' = [status |-> status, change |-> change]
           /\ GoTo("sync")
  <2>1. at \in Dirs
    BY <1>1 DEF FileTypes, Dirs
  <2>2. /\ files'[at]["trace.json"] = files[at]["temporary"]
        /\ files'[at]["temporary"] = "none"
        /\ files' \in [Dirs -> [Names -> Contents]]
        /\ \A d \in Dirs, n \in Names :
             d # at \/ n \notin {"trace.json", "temporary"} => files'[d][n] = files[d][n]
    BY <1>1, <2>1 DEF FileTypes, Names, Contents
  <2>3. QED
    BY <1>1, <2>1, <2>2 DEF Replace
<1>2. CASE GoTo("unlink") /\ UNCHANGED <<files, published>>
  BY <1>2 DEF Replace, FileTypes
<1>3. QED
  BY <1>1, <1>2 DEF Replace

LEMMA UnlinkEffect ==
  ASSUME FileTypes, Unlink
  PROVE  /\ pc = "unlink" /\ at' = at /\ status' = status /\ change' = change
         /\ options' = options /\ published' = published /\ temporary' = temporary
         /\ UNCHANGED <<repository, snapshot>> /\ Unwritable
         /\ at \in Dirs => files'[at]["temporary"] = "none" \/ unremoved'
         /\ files' \in [Dirs -> [Names -> Contents]]
         /\ \A d \in Dirs, n \in Names :
              d # at \/ n # "temporary" => files'[d][n] = files[d][n]
<1>1. CASE TemporaryThere /\ Put("temporary", "none")
  <2>1. at \in Dirs
    BY <1>1 DEF TemporaryThere, FileTypes, Dirs
  <2>2. /\ files'[at]["temporary"] = "none"
        /\ files' \in [Dirs -> [Names -> Contents]]
        /\ \A d \in Dirs, n \in Names :
             d # at \/ n # "temporary" => files'[d][n] = files[d][n]
    <3>1. files' = [files EXCEPT ![at]["temporary"] = "none"]
      BY <1>1 DEF Put
    <3>2. QED
      BY <2>1, <3>1 DEF FileTypes, Names, Contents
  <2>3. QED
    BY <2>1, <2>2 DEF Unlink
<1>2. CASE ~TemporaryThere /\ UNCHANGED files
  BY <1>2 DEF Unlink, TemporaryThere, FileTypes, Dirs
<1>3. CASE TemporaryThere /\ unremoved' = TRUE /\ UNCHANGED files
  BY <1>3 DEF Unlink, FileTypes
<1>4. QED
  BY <1>1, <1>2, <1>3 DEF Unlink

\* Every step keeps the types of the files.
LEMMA FileTypesKept ==
  ASSUME IInv, [Next]_vars
  PROVE  FileTypes'
<1> USE DEF IInv, FileTypes, Dirs, Names, Contents
<1>1. CASE Create
  BY <1>1 DEF Create
<1>2. CASE Discover
  BY <1>2 DEF Discover
<1>3. CASE Prepare
  BY <1>3 DEF Prepare
<1>4. CASE Exclude
  BY <1>4 DEF Exclude
<1>5. CASE ReadTree
  BY <1>5 DEF ReadTree, StartTree
<1>6. CASE ListChanged
  BY <1>6 DEF ListChanged
<1>7. CASE WriteTree
  BY <1>7 DEF WriteTree
<1>8. CASE SnapshotFails
  BY <1>8 DEF SnapshotFails
<1>9. CASE Execute
  BY <1>9 DEF Execute
<1>10. CASE CommandEnds
  BY <1>10 DEF CommandEnds
<1>11. CASE WriteStdout
  BY <1>11, PutEffect DEF WriteStdout, Write, Put
<1>12. CASE WriteStderr
  BY <1>12, PutEffect DEF WriteStderr, Write, Put
<1>13. CASE Finish
  BY <1>13 DEF Finish
<1>14. CASE Summarise
  BY <1>14 DEF Summarise
<1>15. CASE OpenPatch
  BY <1>15 DEF OpenPatch
<1>16. CASE WritePatch
  BY <1>16 DEF WritePatch, Unlinked, PatchThere
<1>17. CASE RedactPatch
  BY <1>17 DEF RedactPatch, Unlinked, PatchThere, Put
<1>18. CASE MeasurePatch
  BY <1>18 DEF MeasurePatch, PatchThere
<1>19. CASE WriteTemporary
  BY <1>19, TemporaryEffect
<1>20. CASE Replace
  BY <1>20, ReplaceEffect
<1>21. CASE Sync
  BY <1>21 DEF Sync
<1>22. CASE Unlink
  BY <1>22, UnlinkEffect
<1>23. CASE Check
  BY <1>23, CheckLeads
<1>24. CASE Finally
  BY <1>24 DEF Finally
<1>25. CASE Interrupt
  BY <1>25 DEF Interrupt
<1>26. CASE MoveRun
  BY <1>26 DEF MoveRun
<1>27. CASE \E p \in Paths : Edit(p) \/ Commit(p)
  BY <1>27 DEF Edit, Commit, Disturb, Watched, Witness
<1>28. CASE UNCHANGED vars
  BY <1>28 DEF vars
<1>29. QED
  BY <1>1, <1>2, <1>3, <1>4, <1>5, <1>6, <1>7, <1>8, <1>9, <1>10, <1>11, <1>12, <1>13,
     <1>14, <1>15, <1>16, <1>17, <1>18, <1>19, <1>20, <1>21, <1>22, <1>23, <1>24, <1>25,
     <1>26, <1>27, <1>28
    DEF Next, Record

\* A version that a snapshot shows is one.
LEMMA VisibleTypes ==
  /\ 0 \in Versions /\ 1 \in Versions /\ 2 \in Versions
  /\ \A w \in [Paths -> Versions], i \in [Paths -> Versions], p \in Paths :
       Visible(p, w, i) \in Versions
BY RecordAssumption DEF Visible

\* While a snapshot is taken, whatever can be seen of a path is noted.
LEMMA WitnessEffect ==
  ASSUME TreeTypes, Witness, work' \in [Paths -> Versions]
  PROVE  /\ saw' \in [Phases -> [Paths -> SUBSET Versions]]
         /\ pc \notin {"list", "add"} => saw' = saw
         /\ \A s \in Phases : s # phase => saw'[s] = saw[s]
         /\ \A p \in Paths : saw[phase][p] \subseteq saw'[phase][p]
         /\ pc \in {"list", "add"} =>
              \A p \in Paths : Visible(p, work', index) \in saw'[phase][p]
<1>1. CASE pc \notin {"list", "add"}
  BY <1>1 DEF Witness, TreeTypes
<1>2. CASE pc \in {"list", "add"}
  <2>1. saw' = [saw EXCEPT ![phase] =
                  [p \in Paths |-> saw[phase][p] \cup {Visible(p, work', index)}]]
    BY <1>2 DEF Witness
  <2>2. \A p \in Paths : Visible(p, work', index) \in Versions
    BY VisibleTypes DEF TreeTypes
  <2>3. /\ saw'[phase] = [p \in Paths |-> saw[phase][p] \cup {Visible(p, work', index)}]
        /\ \A s \in Phases : s # phase => saw'[s] = saw[s]
    BY <2>1 DEF TreeTypes
  <2>4. [p \in Paths |-> saw[phase][p] \cup {Visible(p, work', index)}]
          \in [Paths -> SUBSET Versions]
    BY <2>2 DEF TreeTypes
  <2>5. saw' \in [Phases -> [Paths -> SUBSET Versions]]
    BY <2>1, <2>4 DEF TreeTypes
  <2>6. QED
    BY <1>2, <2>3, <2>5
<1>3. QED
  BY <1>1, <1>2

\* What a snapshot begins with.
LEMMA ReadTreeEffect ==
  ASSUME TreeTypes, ControlTypes, ReadTree
  PROVE  /\ pc = "tree" /\ pc' = "list" /\ change' = change /\ published' = published
         /\ options' = options /\ phase' = phase /\ tree' = tree /\ work' = work
         /\ index' \in [Paths -> Versions]
         /\ \A p \in Paths : index'[p] = IF p \in Runs THEN 0 ELSE head[p]
         /\ saw' \in [Phases -> [Paths -> SUBSET Versions]]
         /\ \A s \in Phases : s # phase => saw'[s] = saw[s]
         /\ \A p \in Paths : Visible(p, work, index') \in saw'[phase][p]
<1>1. index' = [p \in Paths |-> IF p \in Runs THEN 0 ELSE head[p]]
  BY DEF ReadTree, StartTree
<1>2. index' \in [Paths -> Versions]
  BY <1>1, VisibleTypes DEF TreeTypes
<1>3. saw' = [saw EXCEPT ![phase] = [p \in Paths |-> {Visible(p, work, index')}]]
  BY DEF ReadTree
<1>4. \A p \in Paths : Visible(p, work, index') \in Versions
  BY <1>2, VisibleTypes DEF TreeTypes
<1>5. /\ saw'[phase] = [p \in Paths |-> {Visible(p, work, index')}]
      /\ \A s \in Phases : s # phase => saw'[s] = saw[s]
  BY <1>3 DEF TreeTypes
<1>6. [p \in Paths |-> {Visible(p, work, index')}] \in [Paths -> SUBSET Versions]
  BY <1>4
<1>7. saw' \in [Phases -> [Paths -> SUBSET Versions]]
  BY <1>3, <1>6 DEF TreeTypes
<1>8. QED
  BY <1>1, <1>2, <1>5, <1>7 DEF ReadTree

\* Every step keeps the types of the trees.
LEMMA TreeTypesKept ==
  ASSUME IInv, [Next]_vars
  PROVE  TreeTypes'
<1> USE DEF IInv, TreeTypes, ControlTypes, Phases, Nothing
<1>1. CASE Create
  BY <1>1 DEF Create
<1>2. CASE Discover
  BY <1>2 DEF Discover
<1>3. CASE Prepare
  BY <1>3 DEF Prepare
<1>4. CASE Exclude
  BY <1>4 DEF Exclude
<1>5. CASE ReadTree
  BY <1>5, ReadTreeEffect DEF ReadTree
<1>6. CASE ListChanged
  <2>1. listed' \subseteq Paths
    BY <1>6 DEF ListChanged, Listing
  <2>2. QED
    BY <1>6, <2>1 DEF ListChanged
<1>7. CASE WriteTree
  BY <1>7, VisibleTypes DEF WriteTree
<1>8. CASE SnapshotFails
  BY <1>8 DEF SnapshotFails
<1>9. CASE Execute
  BY <1>9 DEF Execute
<1>10. CASE CommandEnds
  BY <1>10 DEF CommandEnds
<1>11. CASE WriteStdout
  BY <1>11, VisibleTypes DEF WriteStdout, Write, Put
<1>12. CASE WriteStderr
  BY <1>12, VisibleTypes DEF WriteStderr, Write, Put
<1>13. CASE Finish
  BY <1>13 DEF Finish
<1>14. CASE Summarise
  BY <1>14 DEF Summarise
<1>15. CASE OpenPatch
  BY <1>15 DEF OpenPatch
<1>16. CASE WritePatch
  BY <1>16 DEF WritePatch, Unlinked, PatchThere
<1>17. CASE RedactPatch
  BY <1>17 DEF RedactPatch, Unlinked, PatchThere, Put
<1>18. CASE MeasurePatch
  BY <1>18 DEF MeasurePatch, PatchThere
<1>19. CASE WriteTemporary
  BY <1>19 DEF WriteTemporary, Put
<1>20. CASE Replace
  BY <1>20 DEF Replace
<1>21. CASE Sync
  BY <1>21 DEF Sync
<1>22. CASE Unlink
  BY <1>22 DEF Unlink, Put
<1>23. CASE Check
  BY <1>23, CheckLeads
<1>24. CASE Finally
  BY <1>24 DEF Finally
<1>25. CASE Interrupt
  BY <1>25 DEF Interrupt
<1>26. CASE MoveRun
  BY <1>26 DEF MoveRun
<1>27. CASE \E p \in Paths : Edit(p) \/ Commit(p)
  <2>1. PICK p \in Paths : Edit(p) \/ Commit(p)
    BY <1>27
  <2>2. work' \in [Paths -> Versions] /\ head' \in [Paths -> Versions]
    BY <2>1 DEF Edit, Commit
  <2>3. Disturb
    BY <2>1 DEF Edit, Commit
  <2>4. QED
    BY <2>2, <2>3, WitnessEffect DEF Disturb
<1>28. CASE UNCHANGED vars
  BY <1>28 DEF vars
<1>29. QED
  BY <1>1, <1>2, <1>3, <1>4, <1>5, <1>6, <1>7, <1>8, <1>9, <1>10, <1>11, <1>12, <1>13,
     <1>14, <1>15, <1>16, <1>17, <1>18, <1>19, <1>20, <1>21, <1>22, <1>23, <1>24, <1>25,
     <1>26, <1>27, <1>28
    DEF Next, Record


\* A write leaves every other file, and a file that was there.
LEMMA WriteEffect ==
  ASSUME FileTypes, NEW name \in {"stdout.log", "stderr.log"},
         NEW next \in {"stderr.log", "finish", "temporary"}, Write(name, next)
  PROVE  /\ pc = name /\ at' = at /\ status' = status /\ change' = change
         /\ options' = options /\ published' = published /\ temporary' = temporary
         /\ phase' = phase /\ index' = index /\ listed' = listed /\ tree' = tree /\ saw' = saw
         /\ \/ pc' = "verify" /\ then' = next /\ outcome' = outcome /\ at # Absent
            \/ pc' = "finally" /\ outcome' = "record_store_unwritable"
         /\ pc' = "verify" => files'[at][name] = "whole"
         /\ \A d \in Dirs, n \in Names : d # at \/ n # name => files'[d][n] = files[d][n]
         /\ \A d \in Dirs, n \in Names : files[d][n] # "none" => files'[d][n] = files[d][n]
<1>1. CASE files' = files /\ Unwritable
  BY <1>1 DEF Write
<1>2. ASSUME at # Absent, files[at][name] = "none", NEW c \in Contents, Put(name, c)
      PROVE  /\ files'[at][name] = c
             /\ \A d \in Dirs, n \in Names : d # at \/ n # name => files'[d][n] = files[d][n]
  BY <1>2, PutEffect DEF Put, FileTypes, Dirs, Names
<1>3. CASE at # Absent /\ files[at][name] = "none" /\ Put(name, "whole") /\ Verify(next)
  BY <1>2, <1>3 DEF Write, Contents
<1>4. CASE at # Absent /\ files[at][name] = "none" /\ Put(name, "part") /\ Unwritable
  BY <1>2, <1>4 DEF Write, Contents
<1>5. QED
  BY <1>1, <1>3, <1>4 DEF Write


\* The patch is opened in whatever directory is at the path.
LEMMA OpenPatchEffect ==
  ASSUME FileTypes, OpenPatch
  PROVE  /\ pc = "patch" /\ options' = options /\ status' = status /\ published' = published
         /\ UNCHANGED <<repository, snapshot>>
         /\ \A d \in Dirs, n \in Names : n # "changes.patch" => files'[d][n] = files[d][n]
         /\ \/ /\ pc' = "diff" /\ at' \in Dirs /\ (at = Own => at' = Own)
               /\ (at # Own => at' = Foreign)
               /\ files'[at']["changes.patch"] = "part"
               /\ \A d \in Dirs : d # at' => files'[d] = files[d]
               /\ change' = change /\ UNCHANGED <<then, outcome, temporary>>
            \/ pc' = "verify" /\ then' = "temporary" /\ at' = at /\ files' = files
               /\ change' = Result("error") /\ Close /\ outcome' = outcome
<1>1. CASE Finished(Result("error")) /\ UNCHANGED <<at, files>>
  BY <1>1 DEF OpenPatch
<1>2. CASE /\ at' = IF at = Absent THEN Foreign ELSE at
           /\ files' = [files EXCEPT ![at']["changes.patch"] = "part"]
           /\ GoTo("diff") /\ UNCHANGED <<change, temporary>>
  <2>1. at' \in Dirs
    BY <1>2 DEF FileTypes, Dirs
  <2>2. /\ files'[at']["changes.patch"] = "part"
        /\ \A d \in Dirs : d # at' => files'[d] = files[d]
        /\ \A d \in Dirs, n \in Names : n # "changes.patch" => files'[d][n] = files[d][n]
    BY <1>2, <2>1 DEF FileTypes, Names
  <2>3. QED
    BY <1>2, <2>1, <2>2 DEF OpenPatch, FileTypes
<1>3. QED
  BY <1>1, <1>2 DEF OpenPatch

\* Git fills the patch in the directory where it was opened, or what is at the
\* path goes.
LEMMA WritePatchEffect ==
  ASSUME FileTypes, PatchKept, WritePatch
  PROVE  /\ pc = "diff" /\ options' = options /\ status' = status /\ published' = published
         /\ UNCHANGED <<repository, snapshot>>
         /\ at' = at
         /\ \A d \in Dirs, n \in Names : n # "changes.patch" => files'[d][n] = files[d][n]
         /\ \A d \in Dirs : files[d]["changes.patch"] = "none"
                              => files'[d]["changes.patch"] = "none"
         /\ \/ /\ pc' = (IF options.redact THEN "redact" ELSE "measure")
               /\ \A d \in Dirs : files[d]["changes.patch"] # "none" =>
                    files'[d]["changes.patch"] = (IF options.redact THEN "raw" ELSE "whole")
               /\ change' = change /\ UNCHANGED <<then, outcome, temporary>>
            \/ /\ pc' = "verify" /\ then' = "temporary"
               /\ Close /\ outcome' = outcome
               /\ change' \in {Result("error"), WithFiles("omitted", Changed),
                               WithFiles("error", Changed)}
<1>1. /\ pc = "diff" /\ options' = options /\ status' = status /\ published' = published
      /\ at' = at /\ UNCHANGED <<repository, snapshot>>
  BY DEF WritePatch
<1>2. CASE files' = files /\ Finished(Result("error"))
  BY <1>1, <1>2
<1>3. ASSUME NEW call \in GitCalls, files' = Unlinked,
             Finished(WithFiles(IF Verdict(call) = "exceeded" THEN "omitted" ELSE "error", Changed))
      PROVE  /\ \A d \in Dirs, n \in Names : n # "changes.patch" => files'[d][n] = files[d][n]
             /\ \A d \in Dirs : files[d]["changes.patch"] = "none"
                                  => files'[d]["changes.patch"] = "none"
             /\ pc' = "verify" /\ then' = "temporary" /\ Close /\ outcome' = outcome
             /\ change' \in {WithFiles("omitted", Changed), WithFiles("error", Changed)}
  <2>1. CASE PatchThere
    <3>1. files' = [files EXCEPT ![at]["changes.patch"] = "none"] /\ at \in Dirs
      BY <1>3, <2>1 DEF Unlinked, PatchThere, FileTypes, Dirs
    <3>2. QED
      BY <1>3, <3>1 DEF FileTypes, Names
  <2>2. CASE ~PatchThere
    BY <1>3, <2>2 DEF Unlinked
  <2>3. QED
    BY <2>1, <2>2
<1>4. ASSUME NEW call \in GitCalls, Verdict(call) = "good",
             files' = [files EXCEPT ![PatchFile]["changes.patch"] =
                         IF CutShort(call) THEN "part"
                         ELSE IF options.redact THEN "raw" ELSE "whole"],
             GoTo(IF options.redact THEN "redact" ELSE "measure"),
             UNCHANGED <<change, temporary>>
      PROVE  /\ \A d \in Dirs, n \in Names : n # "changes.patch" => files'[d][n] = files[d][n]
             /\ \A d \in Dirs : files[d]["changes.patch"] = "none"
                                  => files'[d]["changes.patch"] = "none"
             /\ \A d \in Dirs : files[d]["changes.patch"] # "none" =>
                  files'[d]["changes.patch"] = (IF options.redact THEN "raw" ELSE "whole")
  <2>1. ~CutShort(call)
    BY <1>4 DEF Verdict, CutShort, GitCalls
  <2>2. PICK d \in Dirs : files[d]["changes.patch"] # "none"
    BY <1>1 DEF PatchKept, Dirs
  <2>3. PatchFile \in Dirs /\ files[PatchFile]["changes.patch"] # "none"
    BY <2>2 DEF PatchFile, Dirs
  <2>4. \A e \in Dirs : files[e]["changes.patch"] # "none" => e = PatchFile
    BY <2>3 DEF PatchKept, Dirs
  <2>5. files' = [files EXCEPT ![PatchFile]["changes.patch"] =
                    IF options.redact THEN "raw" ELSE "whole"]
    BY <1>4, <2>1
  <2>6. QED
    BY <2>3, <2>4, <2>5 DEF FileTypes, Names
<1>5. QED
  BY <1>1, <1>2, <1>3, <1>4 DEF WritePatch

\* Redaction rewrites a patch that is at the path, or takes it away.
LEMMA RedactPatchEffect ==
  ASSUME FileTypes, RedactPatch
  PROVE  /\ pc = "redact" /\ options' = options /\ status' = status /\ published' = published
         /\ UNCHANGED <<repository, snapshot>>
         /\ at' = at
         /\ \A d \in Dirs, n \in Names : n # "changes.patch" => files'[d][n] = files[d][n]
         /\ \A d \in Dirs : files[d]["changes.patch"] = "none"
                              => files'[d]["changes.patch"] = "none"
         /\ \/ /\ pc' = "measure" /\ at \in Dirs
               /\ files[at]["changes.patch"] # "none"
               /\ files[at]["changes.patch"] = "raw" => files'[at]["changes.patch"] = "whole"
               /\ change' = change /\ UNCHANGED <<then, outcome, temporary>>
            \/ /\ pc' = "verify" /\ then' = "temporary"
               /\ Close /\ outcome' = outcome
               /\ change' \in {Result("error"), WithFiles("omitted", Changed)}
<1>1. /\ pc = "redact" /\ options' = options /\ status' = status /\ published' = published
      /\ at' = at /\ UNCHANGED <<repository, snapshot>>
  BY DEF RedactPatch
<1>2. CASE files' = files /\ Finished(Result("error"))
  BY <1>1, <1>2
<1>3. ASSUME PatchThere, NEW c, files' = [files EXCEPT ![at]["changes.patch"] = c]
      PROVE  /\ at \in Dirs /\ files[at]["changes.patch"] # "none"
             /\ files'[at]["changes.patch"] = c
             /\ \A d \in Dirs, n \in Names : n # "changes.patch" => files'[d][n] = files[d][n]
             /\ \A d \in Dirs : files[d]["changes.patch"] = "none"
                                  => files'[d]["changes.patch"] = "none"
  <2>1. at \in Dirs /\ files[at]["changes.patch"] # "none"
    BY <1>3 DEF PatchThere, FileTypes, Dirs
  <2>2. QED
    BY <1>3, <2>1 DEF FileTypes, Names
<1>4. CASE /\ PatchThere
           /\ files' = [files EXCEPT ![at]["changes.patch"] = IF @ = "raw" THEN "whole" ELSE @]
           /\ GoTo("measure") /\ UNCHANGED <<change, temporary>>
  BY <1>1, <1>3, <1>4
<1>5. CASE PatchThere /\ files' = Unlinked /\ Finished(WithFiles("omitted", Changed))
  BY <1>1, <1>3, <1>5 DEF Unlinked
<1>6. CASE PatchThere /\ Put("changes.patch", "part") /\ Finished(Result("error"))
  BY <1>1, <1>3, <1>6 DEF Put
<1>7. QED
  BY <1>2, <1>4, <1>5, <1>6 DEF RedactPatch

\* Every step keeps the directory apart from whatever takes its place.
LEMMA DirectoryKeeps ==
  ASSUME IInv, [Next]_vars
  PROVE  DirectoryKept'
<1> USE DEF IInv, DirectoryKept, FileTypes, Dirs, Names, Contents
<1>1. CASE Create
  BY <1>1 DEF Create
<1>2. CASE Discover
  BY <1>2 DEF Discover
<1>3. CASE Prepare
  BY <1>3 DEF Prepare
<1>4. CASE Exclude
  BY <1>4 DEF Exclude
<1>5. CASE ReadTree
  BY <1>5 DEF ReadTree, StartTree
<1>6. CASE ListChanged
  BY <1>6 DEF ListChanged
<1>7. CASE WriteTree
  BY <1>7 DEF WriteTree
<1>8. CASE SnapshotFails
  BY <1>8 DEF SnapshotFails
<1>9. CASE Execute
  BY <1>9 DEF Execute
<1>10. CASE CommandEnds
  BY <1>10 DEF CommandEnds
<1>11. CASE WriteStdout
  BY <1>11, PutEffect DEF WriteStdout, Write, Put
<1>12. CASE WriteStderr
  BY <1>12, PutEffect DEF WriteStderr, Write, Put
<1>13. CASE Finish
  BY <1>13 DEF Finish
<1>14. CASE Summarise
  BY <1>14 DEF Summarise
<1>15. CASE OpenPatch
  BY <1>15 DEF OpenPatch
<1>16. CASE WritePatch
  BY <1>16, WritePatchEffect
<1>17. CASE RedactPatch
  BY <1>17 DEF RedactPatch, Unlinked, PatchThere, Put
<1>18. CASE MeasurePatch
  BY <1>18 DEF MeasurePatch, PatchThere
<1>19. CASE WriteTemporary
  BY <1>19, TemporaryEffect
<1>20. CASE Replace
  BY <1>20, ReplaceEffect
<1>21. CASE Sync
  BY <1>21 DEF Sync
<1>22. CASE Unlink
  BY <1>22, UnlinkEffect
<1>23. CASE Check
  BY <1>23, CheckLeads
<1>24. CASE Finally
  BY <1>24 DEF Finally
<1>25. CASE Interrupt
  BY <1>25 DEF Interrupt
<1>26. CASE MoveRun
  BY <1>26 DEF MoveRun
<1>27. CASE \E p \in Paths : Edit(p) \/ Commit(p)
  BY <1>27 DEF Edit, Commit, Disturb, Watched, Witness
<1>28. CASE UNCHANGED vars
  BY <1>28 DEF vars
<1>29. QED
  BY <1>1, <1>2, <1>3, <1>4, <1>5, <1>6, <1>7, <1>8, <1>9, <1>10, <1>11, <1>12, <1>13,
     <1>14, <1>15, <1>16, <1>17, <1>18, <1>19, <1>20, <1>21, <1>22, <1>23, <1>24, <1>25,
     <1>26, <1>27, <1>28
    DEF Next, Record

\* Every step keeps the outputs that were checked.
LEMMA OutputsKeep ==
  ASSUME IInv, [Next]_vars
  PROVE  OutputsKept'
<1> USE DEF IInv, OutputsKept, Outputs, Checking, FileTypes, TreeTypes, Phases,
            CaptureKept, ControlTypes, Dirs, Names, Contents, Snapshotting, Patching,
            Publishing
<1>1. CASE Create
  BY <1>1 DEF Create
<1>2. CASE Discover
  BY <1>2 DEF Discover
<1>3. CASE Prepare
  BY <1>3 DEF Prepare
<1>4. CASE Exclude
  BY <1>4 DEF Exclude
<1>5. CASE ReadTree
  BY <1>5 DEF ReadTree, StartTree
<1>6. CASE ListChanged
  BY <1>6 DEF ListChanged
<1>7. CASE WriteTree
  BY <1>7 DEF WriteTree
<1>8. CASE SnapshotFails
  BY <1>8 DEF SnapshotFails
<1>9. CASE Execute
  BY <1>9 DEF Execute
<1>10. CASE CommandEnds
  BY <1>10 DEF CommandEnds
<1>11. CASE WriteStdout
  BY <1>11, WriteEffect DEF WriteStdout
<1>12. CASE WriteStderr
  BY <1>12, WriteEffect DEF WriteStderr
<1>13. CASE Finish
  BY <1>13 DEF Finish
<1>14. CASE Summarise
  BY <1>14 DEF Summarise
<1>15. CASE OpenPatch
  BY <1>15, OpenPatchEffect
<1>16. CASE WritePatch
  BY <1>16, WritePatchEffect
<1>17. CASE RedactPatch
  BY <1>17, RedactPatchEffect
<1>18. CASE MeasurePatch
  BY <1>18 DEF MeasurePatch, PatchThere
<1>19. CASE WriteTemporary
  BY <1>19, TemporaryEffect
<1>20. CASE Replace
  BY <1>20, ReplaceEffect
<1>21. CASE Sync
  BY <1>21 DEF Sync
<1>22. CASE Unlink
  BY <1>22, UnlinkEffect
<1>23. CASE Check
  BY <1>23, CheckLeads
<1>24. CASE Finally
  BY <1>24 DEF Finally
<1>25. CASE Interrupt
  BY <1>25 DEF Interrupt
<1>26. CASE MoveRun
  BY <1>26 DEF MoveRun
<1>27. CASE \E p \in Paths : Edit(p) \/ Commit(p)
  BY <1>27 DEF Edit, Commit, Disturb, Watched, Witness
<1>28. CASE UNCHANGED vars
  BY <1>28 DEF vars
<1>29. QED
  BY <1>1, <1>2, <1>3, <1>4, <1>5, <1>6, <1>7, <1>8, <1>9, <1>10, <1>11, <1>12, <1>13,
     <1>14, <1>15, <1>16, <1>17, <1>18, <1>19, <1>20, <1>21, <1>22, <1>23, <1>24, <1>25,
     <1>26, <1>27, <1>28
    DEF Next, Record

\* Every step keeps a published trace whole.
LEMMA TraceKeeps ==
  ASSUME IInv, [Next]_vars
  PROVE  TraceKept'
<1> USE DEF IInv, TraceKept, Checking, FileTypes, CaptureKept, OutputsKept, Outputs,
            DirectoryKept, PatchKept, ControlTypes, Dirs, Names, Contents, Snapshotting,
            Patching, Publishing
<1>1. CASE Create
  BY <1>1 DEF Create
<1>2. CASE Discover
  BY <1>2 DEF Discover
<1>3. CASE Prepare
  BY <1>3 DEF Prepare
<1>4. CASE Exclude
  BY <1>4 DEF Exclude
<1>5. CASE ReadTree
  BY <1>5 DEF ReadTree, StartTree
<1>6. CASE ListChanged
  BY <1>6 DEF ListChanged
<1>7. CASE WriteTree
  BY <1>7 DEF WriteTree
<1>8. CASE SnapshotFails
  BY <1>8 DEF SnapshotFails
<1>9. CASE Execute
  BY <1>9 DEF Execute
<1>10. CASE CommandEnds
  BY <1>10 DEF CommandEnds
<1>11. CASE WriteStdout
  BY <1>11, WriteEffect DEF WriteStdout
<1>12. CASE WriteStderr
  BY <1>12, WriteEffect DEF WriteStderr
<1>13. CASE Finish
  BY <1>13 DEF Finish
<1>14. CASE Summarise
  BY <1>14 DEF Summarise
<1>15. CASE OpenPatch
  BY <1>15, OpenPatchEffect
<1>16. CASE WritePatch
  BY <1>16, WritePatchEffect
<1>17. CASE RedactPatch
  BY <1>17, RedactPatchEffect
<1>18. CASE MeasurePatch
  BY <1>18 DEF MeasurePatch, PatchThere
<1>19. CASE WriteTemporary
  BY <1>19, TemporaryEffect
<1>20. CASE Replace
  <2>1. /\ pc = "replace" /\ files[Own]["temporary"] = "whole"
        /\ files[Foreign]["temporary"] = "none"
        /\ files[Own]["trace.json"] = "none" /\ outcome # "recorded"
        /\ files[Own]["stdout.log"] = "whole" /\ files[Own]["stderr.log"] = "whole"
    BY <1>20 DEF Replace
  <2>2. CASE pc' = "sync"
    <3>1. /\ at = Own /\ at' = at /\ options' = options /\ outcome' = outcome
          /\ published' = [status |-> status, change |-> change]
          /\ status' = status /\ change' = change
      BY <1>20, <2>1, <2>2, ReplaceEffect
    <3>2. /\ files'[Own]["trace.json"] = "whole" /\ files'[Own]["temporary"] = "none"
          /\ \A n \in Names \ {"trace.json", "temporary"} : files'[Own][n] = files[Own][n]
      BY <1>20, <2>1, <2>2, <3>1, ReplaceEffect
    <3>3. change.status = "captured" => files[Own]["changes.patch"] = "whole"
      BY <3>1
    <3>4. (change.status = "none") = ~options.capture
      BY <2>1 DEF NoResult
    <3>5. /\ \A n \in {"stdout.log", "stderr.log", "trace.json"} : files'[Own][n] = "whole"
          /\ files'[Own]["changes.patch"] = files[Own]["changes.patch"]
      BY <2>1, <3>2
    <3>6. published'.change = change
      BY <3>1
    <3>7. /\ published'.change.status = "captured" => files'[Own]["changes.patch"] = "whole"
          /\ (published'.change.status = "none") = ~options'.capture
      BY <3>1, <3>3, <3>4, <3>5, <3>6, Zenon
    <3>8. files'[Own]["trace.json"] = "whole" /\ published' = [status |-> status', change |-> change']
      BY <3>1, <3>2
    <3>9. QED
      BY <2>2, <3>2, <3>5, <3>7, <3>8, Zenon
  <2>3. CASE pc' = "unlink"
    BY <2>1, <2>3, <1>20, ReplaceEffect
  <2>4. QED
    BY <1>20, <2>2, <2>3, ReplaceEffect
<1>21. CASE Sync
  BY <1>21 DEF Sync
<1>22. CASE Unlink
  BY <1>22, UnlinkEffect
<1>23. CASE Check
  BY <1>23, CheckLeads
<1>24. CASE Finally
  BY <1>24 DEF Finally
<1>25. CASE Interrupt
  BY <1>25 DEF Interrupt
<1>26. CASE MoveRun
  BY <1>26 DEF MoveRun
<1>27. CASE \E p \in Paths : Edit(p) \/ Commit(p)
  BY <1>27 DEF Edit, Commit, Disturb, Watched, Witness
<1>28. CASE UNCHANGED vars
  BY <1>28 DEF vars
<1>29. QED
  BY <1>1, <1>2, <1>3, <1>4, <1>5, <1>6, <1>7, <1>8, <1>9, <1>10, <1>11, <1>12, <1>13,
     <1>14, <1>15, <1>16, <1>17, <1>18, <1>19, <1>20, <1>21, <1>22, <1>23, <1>24, <1>25,
     <1>26, <1>27, <1>28
    DEF Next, Record

\* Every step keeps the patch in the directory it was opened in.
LEMMA PatchKeeps ==
  ASSUME IInv, [Next]_vars
  PROVE  PatchKept'
<1> USE DEF IInv, PatchKept, FileTypes, CaptureKept, DirectoryKept, ControlTypes, Dirs,
            Names, Contents, Snapshotting, Patching, Publishing
<1>1. CASE Create
  BY <1>1, ResultTypes DEF Create
<1>2. CASE Discover
  BY <1>2, ResultTypes DEF Discover
<1>3. CASE Prepare
  BY <1>3, ResultTypes DEF Prepare
<1>4. CASE Exclude
  BY <1>4, ResultTypes DEF Exclude
<1>5. CASE ReadTree
  BY <1>5 DEF ReadTree, StartTree
<1>6. CASE ListChanged
  BY <1>6 DEF ListChanged
<1>7. CASE WriteTree
  BY <1>7 DEF WriteTree
<1>8. CASE SnapshotFails
  BY <1>8, ResultTypes DEF SnapshotFails
<1>9. CASE Execute
  BY <1>9 DEF Execute
<1>10. CASE CommandEnds
  BY <1>10 DEF CommandEnds
<1>11. CASE WriteStdout
  BY <1>11, WriteEffect, ResultTypes, WithFilesTypes DEF WriteStdout
<1>12. CASE WriteStderr
  BY <1>12, WriteEffect, ResultTypes, WithFilesTypes DEF WriteStderr
<1>13. CASE Finish
  BY <1>13, ResultTypes DEF Finish
<1>14. CASE Summarise
  BY <1>14, ResultTypes, WithFilesTypes DEF Summarise
<1>15. CASE OpenPatch
  <2>1. /\ files[Own]["changes.patch"] = "none" /\ files[Foreign]["changes.patch"] = "none"
        /\ change.status = "none" /\ pc = "patch"
    BY <1>15, OpenPatchEffect
  <2>2. CASE pc' = "diff"
    <3>1. /\ at' \in Dirs /\ files'[at']["changes.patch"] = "part" /\ change' = change
          /\ \A d \in Dirs : d # at' => files'[d] = files[d]
      BY <1>15, <2>2, OpenPatchEffect
    <3>2. change'.status = "none"
      BY <2>1, <3>1
    <3>3. /\ files'[Own]["changes.patch"] = "none" \/ files'[Foreign]["changes.patch"] = "none"
          /\ files'[Own]["changes.patch"] # "none" \/ files'[Foreign]["changes.patch"] # "none"
      BY <2>1, <3>1
    <3>4. QED
      BY <2>2, <3>2, <3>3
  <2>3. CASE pc' = "verify"
    <3>1. /\ files' = files /\ then' = "temporary" /\ change' = Result("error")
      BY <1>15, <2>3, OpenPatchEffect
    <3>2. change'.status = "error"
      BY <3>1, ResultTypes
    <3>3. QED
      BY <2>1, <2>3, <3>1, <3>2
  <2>4. QED
    BY <1>15, <2>2, <2>3, OpenPatchEffect
<1>16. CASE WritePatch
  BY <1>16, WritePatchEffect, ResultTypes, WithFilesTypes
<1>17. CASE RedactPatch
  BY <1>17, RedactPatchEffect, ResultTypes, WithFilesTypes, ZenonT(40)
<1>18. CASE MeasurePatch
  BY <1>18, ResultTypes, WithFilesTypes DEF MeasurePatch, PatchThere
<1>19. CASE WriteTemporary
  BY <1>19, TemporaryEffect
<1>20. CASE Replace
  BY <1>20, ReplaceEffect
<1>21. CASE Sync
  BY <1>21 DEF Sync
<1>22. CASE Unlink
  BY <1>22, UnlinkEffect
<1>23. CASE Check
  BY <1>23, CheckLeads
<1>24. CASE Finally
  BY <1>24 DEF Finally
<1>25. CASE Interrupt
  BY <1>25 DEF Interrupt
<1>26. CASE MoveRun
  BY <1>26 DEF MoveRun
<1>27. CASE \E p \in Paths : Edit(p) \/ Commit(p)
  BY <1>27 DEF Edit, Commit, Disturb, Watched, Witness
<1>28. CASE UNCHANGED vars
  BY <1>28 DEF vars
<1>29. QED
  BY <1>1, <1>2, <1>3, <1>4, <1>5, <1>6, <1>7, <1>8, <1>9, <1>10, <1>11, <1>12, <1>13,
     <1>14, <1>15, <1>16, <1>17, <1>18, <1>19, <1>20, <1>21, <1>22, <1>23, <1>24, <1>25,
     <1>26, <1>27, <1>28
    DEF Next, Record

-----------------------------------------------------------------------------
(* The trees and what was seen.                                            *)

\* A tree that nobody writes still shows what was seen.
LEMMA SeenStays ==
  ASSUME options' = options, tree' = tree
  PROVE  /\ Changed' = Changed
         /\ saw' = saw => (Seen("before")' <=> Seen("before")) /\ (Seen("after")' <=> Seen("after"))
         /\ saw'["before"] = saw["before"] => (Seen("before")' <=> Seen("before"))
<1>1. Changed' = Changed
  BY DEF Changed
<1>2. ASSUME saw'["before"] = saw["before"]
      PROVE  Seen("before")' <=> Seen("before")
  BY <1>2 DEF Seen
<1>3. ASSUME saw'["after"] = saw["after"]
      PROVE  Seen("after")' <=> Seen("after")
  BY <1>3 DEF Seen
<1>4. QED
  BY <1>1, <1>2, <1>3

\* What a step of git's listing leaves: what is not listed is as it was seen.
LEMMA ListChangedEffect ==
  ASSUME TreeTypes, ControlTypes, InProgress, ListChanged
  PROVE  /\ pc = "list" /\ pc' = "add"
         /\ work' = work /\ head' = head /\ index' = index /\ saw' = saw /\ tree' = tree
         /\ phase' = phase /\ options' = options /\ change' = change /\ published' = published
         /\ listed' = Listing(work, index)
         /\ listed' \cap Runs = {}
         /\ \A p \in listed' : p \in Ignored => index[p] # 0
         /\ \A p \in (Paths \ Runs) \ listed' : index[p] \in saw[phase][p]
<1>1. PICK call \in GitCalls :
        /\ Verdict(call) = "good"
        /\ listed' \in IF CutShort(call) THEN SUBSET Listing(work, index)
                       ELSE {Listing(work, index)}
  BY DEF ListChanged
<1>2. ~CutShort(call)
  BY <1>1 DEF Verdict, CutShort, GitCalls
<1>3. listed' = Listing(work, index)
  BY <1>1, <1>2
<1>4. ASSUME NEW p \in (Paths \ Runs) \ listed'
      PROVE  index[p] \in saw[phase][p]
  <2>1. Visible(p, work, index) \in saw[phase][p]
    BY <1>4 DEF InProgress, ListChanged
  <2>2. Visible(p, work, index) = index[p]
    BY <1>3, <1>4 DEF Visible, Listing
  <2>3. QED
    BY <2>1, <2>2
<1>5. QED
  BY <1>3, <1>4 DEF ListChanged, Listing

\* The tree that a snapshot writes shows what was seen while it was taken.
LEMMA WriteTreeEffect ==
  ASSUME TreeTypes, ControlTypes, InProgress, WriteTree
  PROVE  /\ pc = "add" /\ pc' = (IF phase = "before" THEN "execute" ELSE "summary")
         /\ saw' = saw /\ phase' = phase /\ options' = options
         /\ change' = change /\ published' = published
         /\ \A s \in Phases : s # phase => tree'[s] = tree[s]
         /\ phase = "before" => Seen("before")'
         /\ phase = "after" => Seen("after")' /\ (Seen("before")' <=> Seen("before"))
<1>1. /\ tree'[phase] = [p \in Paths |-> IF p \in listed THEN work[p] ELSE index[p]]
      /\ \A s \in Phases : s # phase => tree'[s] = tree[s]
  BY DEF WriteTree, TreeTypes
<1>2. /\ pc = "add" /\ pc' = (IF phase = "before" THEN "execute" ELSE "summary")
      /\ saw' = saw /\ phase' = phase /\ options' = options
      /\ change' = change /\ published' = published
  BY DEF WriteTree
<1>3. ASSUME NEW p \in Paths \ Runs
      PROVE  tree'[phase][p] \in saw[phase][p]
  <2>1. CASE p \in listed
    <3>1. Visible(p, work, index) = work[p]
      BY <1>2, <2>1 DEF Visible, InProgress
    <3>2. QED
      BY <1>1, <1>2, <1>3, <2>1, <3>1 DEF InProgress
  <2>2. CASE p \notin listed
    BY <1>1, <1>2, <1>3, <2>2 DEF InProgress
  <2>3. QED
    BY <2>1, <2>2
<1>4. ASSUME NEW p \in Runs \cap Paths
      PROVE  tree'[phase][p] = 0
  BY <1>1, <1>2, <1>4 DEF InProgress
<1>5. CASE phase = "before"
  <2>1. \A p \in Paths \ Runs : tree'["before"][p] \in saw'["before"][p]
    BY <1>2, <1>3, <1>5
  <2>2. \A p \in Runs \cap Paths : tree'["before"][p] = 0
    BY <1>4, <1>5
  <2>3. QED
    BY <1>1, <1>2, <1>5, <2>1, <2>2 DEF Seen
<1>6. CASE phase = "after"
  <2>1. \A p \in Paths \ Runs : tree'["after"][p] \in saw'["after"][p]
    BY <1>2, <1>3, <1>6
  <2>2. \A p \in Runs \cap Paths : tree'["after"][p] = 0
    BY <1>4, <1>6
  <2>3. Seen("after")'
    BY <1>2, <2>1, <2>2 DEF Seen
  <2>4. tree'["before"] = tree["before"]
    BY <1>1, <1>6 DEF Phases
  <2>5. Seen("before")' <=> Seen("before")
    BY <1>2, <2>4 DEF Seen
  <2>6. QED
    BY <1>1, <1>2, <1>6, <2>3, <2>5
<1>7. QED
  BY <1>1, <1>2, <1>5, <1>6 DEF TreeTypes, Phases

\* A change of the work tree is seen by a snapshot that is being taken.
LEMMA DisturbEffect ==
  ASSUME TreeTypes, NEW p \in Paths, Edit(p) \/ Commit(p)
  PROVE  /\ options.capture /\ change.status = "none"
         /\ pc \notin {"create", "summary", "finally", "end"} \cup Patching
         /\ UNCHANGED <<options, control, status, store, phase, index, listed, tree,
                        temporary, change>>
         /\ pc \notin {"list", "add"} => saw' = saw
         /\ \A s \in Phases : s # phase => saw'[s] = saw[s]
         /\ \A q \in Paths : saw[phase][q] \subseteq saw'[phase][q]
         /\ pc \in {"list", "add"} =>
              \A q \in Paths : Visible(q, work', index) \in saw'[phase][q]
<1>1. work' \in [Paths -> Versions]
  BY DEF Edit, Commit, TreeTypes
<1>2. Disturb
  BY DEF Edit, Commit
<1>3. QED
  BY <1>1, <1>2, WitnessEffect DEF Disturb, Watched

\* Every step keeps a snapshot in progress in line with what was seen.
LEMMA InProgressKeeps ==
  ASSUME IInv, [Next]_vars
  PROVE  InProgress'
<1> USE DEF IInv, DiffKept, InProgress, TreeTypes, ControlTypes, Phases, Targets
<1>1. CASE Create
  BY <1>1, SeenStays DEF Create
<1>2. CASE Discover
  BY <1>2, SeenStays DEF Discover
<1>3. CASE Prepare
  BY <1>3, SeenStays DEF Prepare
<1>4. CASE Exclude
  BY <1>4, SeenStays DEF Exclude
<1>5. CASE ReadTree
  BY <1>5, ReadTreeEffect, SeenStays, ResultTypes
<1>6. CASE ListChanged
  BY <1>6, ListChangedEffect, SeenStays
<1>7. CASE WriteTree
  BY <1>7, WriteTreeEffect, SeenStays, ResultTypes
<1>8. CASE SnapshotFails
  BY <1>8, SeenStays DEF SnapshotFails
<1>9. CASE Execute
  BY <1>9, SeenStays DEF Execute
<1>10. CASE CommandEnds
  BY <1>10, SeenStays DEF CommandEnds
<1>11. CASE WriteStdout
  BY <1>11, WriteEffect, SeenStays DEF WriteStdout
<1>12. CASE WriteStderr
  BY <1>12, WriteEffect, SeenStays DEF WriteStderr
<1>13. CASE Finish
  BY <1>13, SeenStays DEF Finish
<1>14. CASE Summarise
  BY <1>14, SeenStays DEF Summarise
<1>15. CASE OpenPatch
  BY <1>15, OpenPatchEffect, SeenStays
<1>16. CASE WritePatch
  BY <1>16, WritePatchEffect, SeenStays
<1>17. CASE RedactPatch
  BY <1>17, RedactPatchEffect, SeenStays
<1>18. CASE MeasurePatch
  BY <1>18, SeenStays DEF MeasurePatch, PatchThere
<1>19. CASE WriteTemporary
  BY <1>19, SeenStays DEF WriteTemporary, Put
<1>20. CASE Replace
  BY <1>20, SeenStays DEF Replace
<1>21. CASE Sync
  BY <1>21, SeenStays DEF Sync
<1>22. CASE Unlink
  BY <1>22, SeenStays DEF Unlink, Put
<1>23. CASE Check
  BY <1>23, CheckLeads, SeenStays
<1>24. CASE Finally
  BY <1>24, SeenStays DEF Finally
<1>25. CASE Interrupt
  BY <1>25, SeenStays DEF Interrupt
<1>26. CASE MoveRun
  BY <1>26, SeenStays DEF MoveRun
<1>27. CASE \E p \in Paths : Edit(p) \/ Commit(p)
  <2>1. PICK p \in Paths : Edit(p) \/ Commit(p)
    BY <1>27
  <2>2. QED
    BY <2>1, DisturbEffect, SeenStays, ResultTypes
<1>28. CASE UNCHANGED vars
  BY <1>28, SeenStays DEF vars
<1>29. QED
  BY <1>1, <1>2, <1>3, <1>4, <1>5, <1>6, <1>7, <1>8, <1>9, <1>10, <1>11, <1>12, <1>13,
     <1>14, <1>15, <1>16, <1>17, <1>18, <1>19, <1>20, <1>21, <1>22, <1>23, <1>24, <1>25,
     <1>26, <1>27, <1>28
    DEF Next, Record

\* Every step keeps the first tree.
LEMMA BeforeKeeps ==
  ASSUME IInv, [Next]_vars
  PROVE  (HasBefore => Seen("before"))'
<1> USE DEF IInv, DiffKept, HasBefore, TreeTypes, ControlTypes, CaptureKept, Phases,
            Targets
<1>1. CASE Create
  BY <1>1, SeenStays, ResultTypes DEF Create
<1>2. CASE Discover
  BY <1>2, SeenStays, ResultTypes DEF Discover
<1>3. CASE Prepare
  BY <1>3, SeenStays, ResultTypes DEF Prepare
<1>4. CASE Exclude
  BY <1>4, SeenStays, ResultTypes DEF Exclude
<1>5. CASE ReadTree
  BY <1>5, ReadTreeEffect, SeenStays, ResultTypes
<1>6. CASE ListChanged
  BY <1>6, ListChangedEffect, SeenStays
<1>7. CASE WriteTree
  BY <1>7, WriteTreeEffect, SeenStays, ResultTypes
<1>8. CASE SnapshotFails
  BY <1>8, SeenStays, ResultTypes DEF SnapshotFails
<1>9. CASE Execute
  BY <1>9, SeenStays DEF Execute
<1>10. CASE CommandEnds
  BY <1>10, SeenStays DEF CommandEnds
<1>11. CASE WriteStdout
  BY <1>11, WriteEffect, SeenStays, ResultTypes, WithFilesTypes DEF WriteStdout
<1>12. CASE WriteStderr
  BY <1>12, WriteEffect, SeenStays, ResultTypes, WithFilesTypes DEF WriteStderr
<1>13. CASE Finish
  BY <1>13, SeenStays, ResultTypes DEF Finish
<1>14. CASE Summarise
  BY <1>14, SeenStays, ResultTypes, WithFilesTypes DEF Summarise
<1>15. CASE OpenPatch
  BY <1>15, OpenPatchEffect, SeenStays, ResultTypes, WithFilesTypes
<1>16. CASE WritePatch
  BY <1>16, WritePatchEffect, SeenStays, ResultTypes, WithFilesTypes
<1>17. CASE RedactPatch
  BY <1>17, RedactPatchEffect, SeenStays, ResultTypes, WithFilesTypes
<1>18. CASE MeasurePatch
  BY <1>18, SeenStays, ResultTypes, WithFilesTypes DEF MeasurePatch, PatchThere
<1>19. CASE WriteTemporary
  BY <1>19, SeenStays DEF WriteTemporary, Put
<1>20. CASE Replace
  BY <1>20, SeenStays DEF Replace
<1>21. CASE Sync
  BY <1>21, SeenStays DEF Sync
<1>22. CASE Unlink
  BY <1>22, SeenStays DEF Unlink, Put
<1>23. CASE Check
  BY <1>23, CheckLeads, SeenStays
<1>24. CASE Finally
  BY <1>24, SeenStays DEF Finally
<1>25. CASE Interrupt
  BY <1>25, SeenStays DEF Interrupt
<1>26. CASE MoveRun
  BY <1>26, SeenStays DEF MoveRun
<1>27. CASE \E p \in Paths : Edit(p) \/ Commit(p)
  <2>1. PICK p \in Paths : Edit(p) \/ Commit(p)
    BY <1>27
  <2>2. QED
    BY <2>1, DisturbEffect, SeenStays, ResultTypes
<1>28. CASE UNCHANGED vars
  BY <1>28, SeenStays DEF vars
<1>29. QED
  BY <1>1, <1>2, <1>3, <1>4, <1>5, <1>6, <1>7, <1>8, <1>9, <1>10, <1>11, <1>12, <1>13,
     <1>14, <1>15, <1>16, <1>17, <1>18, <1>19, <1>20, <1>21, <1>22, <1>23, <1>24, <1>25,
     <1>26, <1>27, <1>28
    DEF Next, Record

\* Every step keeps the second tree.
LEMMA AfterKeeps ==
  ASSUME IInv, [Next]_vars
  PROVE  (pc \in {"summary"} \cup Patching => phase = "after" /\ Seen("after"))'
<1> USE DEF IInv, DiffKept, TreeTypes, ControlTypes, CaptureKept, Phases, Targets
<1>1. CASE Create
  BY <1>1, SeenStays, ResultTypes DEF Create
<1>2. CASE Discover
  BY <1>2, SeenStays, ResultTypes DEF Discover
<1>3. CASE Prepare
  BY <1>3, SeenStays, ResultTypes DEF Prepare
<1>4. CASE Exclude
  BY <1>4, SeenStays, ResultTypes DEF Exclude
<1>5. CASE ReadTree
  BY <1>5, ReadTreeEffect, SeenStays, ResultTypes
<1>6. CASE ListChanged
  BY <1>6, ListChangedEffect, SeenStays
<1>7. CASE WriteTree
  BY <1>7, WriteTreeEffect, SeenStays, ResultTypes
<1>8. CASE SnapshotFails
  BY <1>8, SeenStays, ResultTypes DEF SnapshotFails
<1>9. CASE Execute
  BY <1>9, SeenStays DEF Execute
<1>10. CASE CommandEnds
  BY <1>10, SeenStays DEF CommandEnds
<1>11. CASE WriteStdout
  BY <1>11, WriteEffect, SeenStays, ResultTypes, WithFilesTypes DEF WriteStdout
<1>12. CASE WriteStderr
  BY <1>12, WriteEffect, SeenStays, ResultTypes, WithFilesTypes DEF WriteStderr
<1>13. CASE Finish
  BY <1>13, SeenStays, ResultTypes DEF Finish
<1>14. CASE Summarise
  BY <1>14, SeenStays, ResultTypes, WithFilesTypes DEF Summarise
<1>15. CASE OpenPatch
  BY <1>15, OpenPatchEffect, SeenStays, ResultTypes, WithFilesTypes
<1>16. CASE WritePatch
  BY <1>16, WritePatchEffect, SeenStays, ResultTypes, WithFilesTypes
<1>17. CASE RedactPatch
  BY <1>17, RedactPatchEffect, SeenStays, ResultTypes, WithFilesTypes
<1>18. CASE MeasurePatch
  BY <1>18, SeenStays, ResultTypes, WithFilesTypes DEF MeasurePatch, PatchThere
<1>19. CASE WriteTemporary
  BY <1>19, SeenStays DEF WriteTemporary, Put
<1>20. CASE Replace
  BY <1>20, SeenStays DEF Replace
<1>21. CASE Sync
  BY <1>21, SeenStays DEF Sync
<1>22. CASE Unlink
  BY <1>22, SeenStays DEF Unlink, Put
<1>23. CASE Check
  BY <1>23, CheckLeads, SeenStays
<1>24. CASE Finally
  BY <1>24, SeenStays DEF Finally
<1>25. CASE Interrupt
  BY <1>25, SeenStays DEF Interrupt
<1>26. CASE MoveRun
  BY <1>26, SeenStays DEF MoveRun
<1>27. CASE \E p \in Paths : Edit(p) \/ Commit(p)
  <2>1. PICK p \in Paths : Edit(p) \/ Commit(p)
    BY <1>27
  <2>2. QED
    BY <2>1, DisturbEffect, SeenStays, ResultTypes
<1>28. CASE UNCHANGED vars
  BY <1>28, SeenStays DEF vars
<1>29. QED
  BY <1>1, <1>2, <1>3, <1>4, <1>5, <1>6, <1>7, <1>8, <1>9, <1>10, <1>11, <1>12, <1>13,
     <1>14, <1>15, <1>16, <1>17, <1>18, <1>19, <1>20, <1>21, <1>22, <1>23, <1>24, <1>25,
     <1>26, <1>27, <1>28
    DEF Next, Record

\* Every step keeps the changed files that the capture names.
LEMMA NamedKeeps ==
  ASSUME IInv, [Next]_vars
  PROVE  (change.listed =>
            /\ change.files = Changed /\ Seen("before") /\ Seen("after")
            /\ pc \notin {"execute", "running", "stdout.log", "stderr.log", "finish"}
            /\ pc = "verify" => then \in {"temporary", "replace", "recorded"})'
<1> USE DEF IInv, DiffKept, HasBefore, TreeTypes, ControlTypes, CaptureKept, Phases,
            Targets
<1>1. CASE Create
  BY <1>1, SeenStays, ResultTypes DEF Create
<1>2. CASE Discover
  BY <1>2, SeenStays, ResultTypes DEF Discover
<1>3. CASE Prepare
  BY <1>3, SeenStays, ResultTypes DEF Prepare
<1>4. CASE Exclude
  BY <1>4, SeenStays, ResultTypes DEF Exclude
<1>5. CASE ReadTree
  BY <1>5, ReadTreeEffect, SeenStays, ResultTypes
<1>6. CASE ListChanged
  BY <1>6, ListChangedEffect, SeenStays
<1>7. CASE WriteTree
  BY <1>7, WriteTreeEffect, SeenStays, ResultTypes
<1>8. CASE SnapshotFails
  BY <1>8, SeenStays, ResultTypes DEF SnapshotFails
<1>9. CASE Execute
  BY <1>9, SeenStays DEF Execute
<1>10. CASE CommandEnds
  BY <1>10, SeenStays DEF CommandEnds
<1>11. CASE WriteStdout
  BY <1>11, WriteEffect, SeenStays, ResultTypes, WithFilesTypes DEF WriteStdout
<1>12. CASE WriteStderr
  BY <1>12, WriteEffect, SeenStays, ResultTypes, WithFilesTypes DEF WriteStderr
<1>13. CASE Finish
  BY <1>13, SeenStays, ResultTypes DEF Finish
<1>14. CASE Summarise
  <2>1. Seen("before") /\ Seen("after")
    BY <1>14 DEF Summarise
  <2>2. /\ Changed' = Changed
        /\ Seen("before")' <=> Seen("before")
        /\ Seen("after")' <=> Seen("after")
    BY <1>14, SeenStays DEF Summarise
  <2>3. (pc' = "verify" /\ then' = "temporary") \/ pc' = "patch"
    BY <1>14 DEF Summarise
  <2>4. \/ change' = Result("error") \/ change' = Result("omitted")
        \/ change' = WithFiles("unchanged", {}) /\ Changed = {}
        \/ change' = WithFiles("none", Changed)
    BY <1>14 DEF Summarise
  <2>5. ASSUME change' = WithFiles("unchanged", {}), Changed = {}
        PROVE  change'.files = Changed
    BY <2>5, WithFilesTypes
  <2>6. change'.listed => change'.files = Changed
    BY <2>4, <2>5, ResultTypes, WithFilesTypes
  <2>7. QED
    BY <2>1, <2>2, <2>3, <2>6
<1>15. CASE OpenPatch
  BY <1>15, OpenPatchEffect, SeenStays, ResultTypes, WithFilesTypes
<1>16. CASE WritePatch
  <2>1. Seen("before") /\ Seen("after")
    BY <1>16, WritePatchEffect
  <2>2. /\ Changed' = Changed
        /\ Seen("before")' <=> Seen("before")
        /\ Seen("after")' <=> Seen("after")
    BY <1>16, WritePatchEffect, SeenStays
  <2>3. CASE change' = change
    BY <1>16, <2>1, <2>2, <2>3, WritePatchEffect
  <2>4. CASE /\ pc' = "verify" /\ then' = "temporary"
             /\ change' \in {Result("error"), WithFiles("omitted", Changed),
                             WithFiles("error", Changed)}
    <3>1. change'.listed => change'.files = Changed
      BY <2>4, ResultTypes, WithFilesTypes
    <3>2. QED
      BY <2>1, <2>2, <2>4, <3>1
  <2>5. QED
    BY <1>16, <2>3, <2>4, WritePatchEffect
<1>17. CASE RedactPatch
  <2>1. Seen("before") /\ Seen("after")
    BY <1>17, RedactPatchEffect
  <2>2. /\ Changed' = Changed
        /\ Seen("before")' <=> Seen("before")
        /\ Seen("after")' <=> Seen("after")
    BY <1>17, RedactPatchEffect, SeenStays
  <2>3. CASE change' = change
    BY <1>17, <2>1, <2>2, <2>3, RedactPatchEffect
  <2>4. CASE /\ pc' = "verify" /\ then' = "temporary"
             /\ change' \in {Result("error"), WithFiles("omitted", Changed),
                             WithFiles("error", Changed)}
    <3>1. change'.listed => change'.files = Changed
      BY <2>4, ResultTypes, WithFilesTypes
    <3>2. QED
      BY <2>1, <2>2, <2>4, <3>1
  <2>5. QED
    BY <1>17, <2>3, <2>4, RedactPatchEffect
<1>18. CASE MeasurePatch
  BY <1>18, SeenStays, ResultTypes, WithFilesTypes DEF MeasurePatch, PatchThere
<1>19. CASE WriteTemporary
  BY <1>19, SeenStays DEF WriteTemporary, Put
<1>20. CASE Replace
  BY <1>20, SeenStays DEF Replace
<1>21. CASE Sync
  BY <1>21, SeenStays DEF Sync
<1>22. CASE Unlink
  BY <1>22, SeenStays DEF Unlink, Put
<1>23. CASE Check
  BY <1>23, CheckLeads, SeenStays
<1>24. CASE Finally
  BY <1>24, SeenStays DEF Finally
<1>25. CASE Interrupt
  BY <1>25, SeenStays DEF Interrupt
<1>26. CASE MoveRun
  BY <1>26, SeenStays DEF MoveRun
<1>27. CASE \E p \in Paths : Edit(p) \/ Commit(p)
  <2>1. PICK p \in Paths : Edit(p) \/ Commit(p)
    BY <1>27
  <2>2. QED
    BY <2>1, DisturbEffect, SeenStays, ResultTypes
<1>28. CASE UNCHANGED vars
  BY <1>28, SeenStays DEF vars
<1>29. QED
  BY <1>1, <1>2, <1>3, <1>4, <1>5, <1>6, <1>7, <1>8, <1>9, <1>10, <1>11, <1>12, <1>13,
     <1>14, <1>15, <1>16, <1>17, <1>18, <1>19, <1>20, <1>21, <1>22, <1>23, <1>24, <1>25,
     <1>26, <1>27, <1>28
    DEF Next, Record

\* Every step keeps the changed files that the trace names.
LEMMA PublishedFilesKeep ==
  ASSUME IInv, [Next]_vars
  PROVE  (published.change.listed =>
            /\ published.change.files = Changed /\ Seen("before") /\ Seen("after")
            /\ pc \in {"sync", "unlink", "finally", "end"} \/ (pc = "verify" /\ then = "recorded"))'
<1> USE DEF IInv, DiffKept, TreeTypes, ControlTypes, CaptureKept, Phases, Targets
<1>1. CASE Create
  BY <1>1, SeenStays DEF Create
<1>2. CASE Discover
  BY <1>2, SeenStays DEF Discover
<1>3. CASE Prepare
  BY <1>3, SeenStays DEF Prepare
<1>4. CASE Exclude
  BY <1>4, SeenStays DEF Exclude
<1>5. CASE ReadTree
  BY <1>5, ReadTreeEffect, SeenStays, ResultTypes
<1>6. CASE ListChanged
  BY <1>6, ListChangedEffect, SeenStays
<1>7. CASE WriteTree
  BY <1>7, WriteTreeEffect, SeenStays, ResultTypes
<1>8. CASE SnapshotFails
  BY <1>8, SeenStays DEF SnapshotFails
<1>9. CASE Execute
  BY <1>9, SeenStays DEF Execute
<1>10. CASE CommandEnds
  BY <1>10, SeenStays DEF CommandEnds
<1>11. CASE WriteStdout
  BY <1>11, WriteEffect, SeenStays DEF WriteStdout
<1>12. CASE WriteStderr
  BY <1>12, WriteEffect, SeenStays DEF WriteStderr
<1>13. CASE Finish
  BY <1>13, SeenStays DEF Finish
<1>14. CASE Summarise
  BY <1>14, SeenStays DEF Summarise
<1>15. CASE OpenPatch
  BY <1>15, OpenPatchEffect, SeenStays
<1>16. CASE WritePatch
  BY <1>16, WritePatchEffect, SeenStays
<1>17. CASE RedactPatch
  BY <1>17, RedactPatchEffect, SeenStays
<1>18. CASE MeasurePatch
  BY <1>18, SeenStays DEF MeasurePatch, PatchThere
<1>19. CASE WriteTemporary
  BY <1>19, SeenStays DEF WriteTemporary, Put
<1>20. CASE Replace
  BY <1>20, SeenStays DEF Replace
<1>21. CASE Sync
  BY <1>21, SeenStays DEF Sync
<1>22. CASE Unlink
  BY <1>22, SeenStays DEF Unlink, Put
<1>23. CASE Check
  BY <1>23, CheckLeads, SeenStays
<1>24. CASE Finally
  BY <1>24, SeenStays DEF Finally
<1>25. CASE Interrupt
  BY <1>25, SeenStays DEF Interrupt
<1>26. CASE MoveRun
  BY <1>26, SeenStays DEF MoveRun
<1>27. CASE \E p \in Paths : Edit(p) \/ Commit(p)
  <2>1. PICK p \in Paths : Edit(p) \/ Commit(p)
    BY <1>27
  <2>2. QED
    BY <2>1, DisturbEffect, SeenStays, ResultTypes
<1>28. CASE UNCHANGED vars
  BY <1>28, SeenStays DEF vars
<1>29. QED
  BY <1>1, <1>2, <1>3, <1>4, <1>5, <1>6, <1>7, <1>8, <1>9, <1>10, <1>11, <1>12, <1>13,
     <1>14, <1>15, <1>16, <1>17, <1>18, <1>19, <1>20, <1>21, <1>22, <1>23, <1>24, <1>25,
     <1>26, <1>27, <1>28
    DEF Next, Record

-----------------------------------------------------------------------------
(* The inductive invariant, and what follows from it.                      *)

\* The invariant holds before the recording begins.
LEMMA Initially == Init => IInv
<1>1. SUFFICES ASSUME Init
               PROVE  IInv
  OBVIOUS
<1>2. ControlTypes /\ FileTypes /\ CaptureKept
  BY <1>1, ResultTypes, RecordAssumption
    DEF Init, ControlTypes, FileTypes, CaptureKept, Places, Targets, Dirs, Names, Contents
<1>3. TreeTypes
  BY <1>1, RecordAssumption DEF Init, TreeTypes, Phases, Nothing
<1>4. DirectoryKept /\ OutputsKept /\ TraceKept /\ PatchKept
  BY <1>1, ResultTypes
    DEF Init, DirectoryKept, OutputsKept, Checking, TraceKept, PatchKept, Dirs, Names
<1>5. DiffKept
  BY <1>1, ResultTypes DEF Init, DiffKept, InProgress, HasBefore
<1>6. QED
  BY <1>2, <1>3, <1>4, <1>5 DEF IInv

\* Every step keeps it.
LEMMA Inductive ==
  ASSUME IInv, [Next]_vars
  PROVE  IInv'
<1>1. DiffKept'
  BY InProgressKeeps, BeforeKeeps, AfterKeeps, NamedKeeps, PublishedFilesKeep
    DEF DiffKept
<1>2. QED
  BY <1>1, ControlTypesKept, FileTypesKept, TreeTypesKept, CaptureKeeps, DirectoryKeeps,
     OutputsKeep, TraceKeeps, PatchKeeps DEF IInv

LEMMA Invariance == Spec => []IInv
BY Initially, Inductive, PTL DEF Spec

(* record_command and publish_prepared_json: whatever fails, is interrupted *)
(* or is moved away, a published trace is in the directory that was created *)
(* for it beside whole outputs and, if it says so, a whole patch; and what  *)
(* is reported as recorded is published.                                    *)
THEOREM PublishedTraceIsWhole == Spec => []PublishedIsWhole
<1>1. IInv => PublishedIsWhole
  BY DEF IInv, PublishedIsWhole, DirectoryKept, TraceKept
<1>2. QED
  BY <1>1, Invariance, PTL

(* GitDiffCapture: the files that a trace names were seen with two versions, *)
(* and those with no version in common are named, although the work tree and *)
(* its commit change under both snapshots.                                   *)
THEOREM NamedFilesChanged == Spec => []DiffSound
<1>1. ASSUME IInv, published.change.listed
      PROVE  LET named == published.change.files
             IN /\ named \cap Runs = {}
                /\ \A p \in named : \E u \in saw["before"][p], v \in saw["after"][p] : u # v
                /\ \A p \in Paths \ Runs :
                     saw["before"][p] \cap saw["after"][p] = {} => p \in named
  <2>1. published.change.files = Changed /\ Seen("before") /\ Seen("after")
    BY <1>1 DEF IInv, DiffKept
  <2>2. Changed \cap Runs = {}
    BY <2>1 DEF Changed, Seen
  <2>3. ASSUME NEW p \in Changed
        PROVE  \E u \in saw["before"][p], v \in saw["after"][p] : u # v
    <3>1. p \in Paths \ Runs /\ tree["before"][p] # tree["after"][p]
      BY <2>2, <2>3 DEF Changed
    <3>2. tree["before"][p] \in saw["before"][p] /\ tree["after"][p] \in saw["after"][p]
      BY <2>1, <3>1 DEF Seen
    <3>3. QED
      BY <3>1, <3>2
  <2>4. ASSUME NEW p \in Paths \ Runs, saw["before"][p] \cap saw["after"][p] = {}
        PROVE  p \in Changed
    <3>1. tree["before"][p] \in saw["before"][p] /\ tree["after"][p] \in saw["after"][p]
      BY <2>1, <2>4 DEF Seen
    <3>2. QED
      BY <2>4, <3>1 DEF Changed
  <2>5. QED
    BY <2>1, <2>2, <2>3, <2>4
<1>2. IInv => DiffSound
  BY <1>1 DEF DiffSound
<1>3. QED
  BY <1>2, Invariance, PTL

(* GitDiffCapture.close and the handler of publish_prepared_json: a recording *)
(* that ends holds no temporary objects that nobody tried to remove, and a    *)
(* temporary trace that is left was left by an interrupt, is in a directory   *)
(* that was taken away, or could not be unlinked by a recording that reports  *)
(* the run as unwritable.                                                     *)
THEOREM LeftoversAreOfFailedRemovals == Spec => []NothingLeftBehind
<1>1. IInv => NothingLeftBehind
  BY DEF IInv, NothingLeftBehind, CaptureKept, TraceKept
<1>2. QED
  BY <1>1, Invariance, PTL
===============================================================================
