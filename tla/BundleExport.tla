----------------------------- MODULE BundleExport -----------------------------
(***************************************************************************)
(* export_run: exporters that write a bundle to one output path, with and  *)
(* without --overwrite, while a user creates and deletes files there.      *)
(* Each exporter writes a temporary file of its own beside the output and  *)
(* publishes it by a hard link, by a rename that replaces nothing where    *)
(* links are refused, or, with --overwrite, by a rename that replaces.     *)
(*                                                                         *)
(* An exporter's bundle is a file object named after it; the output path   *)
(* and the temporary path are two names it may have.  A kill is an         *)
(* exporter that takes no further step.                                    *)
(***************************************************************************)
EXTENDS Naturals

CONSTANTS
  Exporters,
  NoFile,        \* nothing at the output path
  Foreign,       \* a file there that no exporter wrote
  Members,       \* of the bundle: the manifest with the trace, and each artifact
  MaxUserSteps   \* bound: changes of the output path by the user

ASSUME ExportAssumption ==
  /\ NoFile \notin Exporters /\ Foreign \notin Exporters /\ NoFile # Foreign
  /\ Members \in Nat /\ MaxUserSteps \in Nat

VARIABLES
  overwrite,   \* the option of each exporter
  output,      \* the file at the output path
  temporary,   \* exporter -> its temporary path has its file
  written,     \* exporter -> members in its bundle
  archived,    \* exporter -> the archive is complete and synced
  exportPc,
  result,      \* what the exporter reports: "none", "exported", "exists", "error"
  published,   \* history: its bundle has been at the output path
  userSteps

progress == <<temporary, written, archived>>
exportVars == <<overwrite, output, progress, exportPc, result, published, userSteps>>

Results == {"none", "exported", "exists", "error"}

Places == {"start", "check", "make", "write", "link", "rename",
           "replace", "except", "finally", "end"}

TypeOK ==
  /\ overwrite \in [Exporters -> BOOLEAN]
  /\ output \in Exporters \cup {NoFile, Foreign}
  /\ temporary \in [Exporters -> BOOLEAN]
  /\ written \in [Exporters -> Nat]
  /\ archived \in [Exporters -> BOOLEAN]
  /\ exportPc \in [Exporters -> Places]
  /\ result \in [Exporters -> Results]
  /\ published \in [Exporters -> BOOLEAN]
  /\ userSteps \in Nat

ExportInit ==
  /\ overwrite \in [Exporters -> BOOLEAN]
  /\ output \in {NoFile, Foreign}
  /\ temporary = [e \in Exporters |-> FALSE]
  /\ written = [e \in Exporters |-> 0]
  /\ archived = [e \in Exporters |-> FALSE]
  /\ exportPc = [e \in Exporters |-> "start"]
  /\ result = [e \in Exporters |-> "none"]
  /\ published = [e \in Exporters |-> FALSE]
  /\ userSteps = 0

-----------------------------------------------------------------------------
GoTo(e, place) == exportPc' = [exportPc EXCEPT ![e] = place] /\ UNCHANGED result

\* An exception: from inside the try statement by way of its handlers.
Raise(e, r) ==
  /\ result' = [result EXCEPT ![e] = r]
  /\ exportPc' = [exportPc EXCEPT ![e] = IF @ \in {"start", "check", "make"} THEN "end" ELSE "except"]

Fixed == UNCHANGED <<overwrite, userSteps>>

\* The run, its trace and the names of its artifacts are read and validated.
ReadTrace(e) ==
  /\ exportPc[e] = "start"
  /\ GoTo(e, "check") \/ Raise(e, "error")
  /\ Fixed /\ UNCHANGED <<output, progress, published>>

CheckOutput(e) ==
  /\ exportPc[e] = "check"
  /\ \/ output # NoFile /\ ~overwrite[e] /\ Raise(e, "exists")
     \/ (output = NoFile \/ overwrite[e]) /\ GoTo(e, "make")
     \/ Raise(e, "error")
  /\ Fixed /\ UNCHANGED <<output, progress, published>>

MakeTemporary(e) ==
  /\ exportPc[e] = "make"
  /\ \/ temporary' = [temporary EXCEPT ![e] = TRUE] /\ GoTo(e, "write")
     \/ Raise(e, "error") /\ UNCHANGED temporary
  /\ Fixed /\ UNCHANGED <<output, written, archived, published>>

\* The manifest and the trace, then an artifact: missing, changed between lstat
\* and fstat, over the size limit, or copied.
WriteMember(e) ==
  /\ exportPc[e] = "write"
  /\ written[e] < Members
  /\ \/ written' = [written EXCEPT ![e] = @ + 1] /\ UNCHANGED <<exportPc, result>>
     \/ Raise(e, "error") /\ UNCHANGED written
  /\ Fixed /\ UNCHANGED <<output, temporary, archived, published>>

\* The archive is closed, flushed and synced, and its path still has the file.
FinishArchive_Early(e) ==
  /\ exportPc[e] = "write"
  /\ \/ /\ archived' = [archived EXCEPT ![e] = written[e] = Members]
        /\ GoTo(e, IF overwrite[e] THEN "replace" ELSE "link")
     \/ Raise(e, "error") /\ UNCHANGED archived
  /\ Fixed /\ UNCHANGED <<output, temporary, written, published>>

FinishArchive(e) ==
  /\ exportPc[e] = "write"
  /\ written[e] = Members
  /\ \/ /\ archived' = [archived EXCEPT ![e] = TRUE]
        /\ GoTo(e, IF overwrite[e] THEN "replace" ELSE "link")
     \/ Raise(e, "error") /\ UNCHANGED archived
  /\ Fixed /\ UNCHANGED <<output, temporary, written, published>>

Publish(e) ==
  /\ output' = e
  /\ published' = [published EXCEPT ![e] = TRUE]

Link(e) ==
  /\ exportPc[e] = "link"
  /\ \/ output = NoFile /\ Publish(e) /\ GoTo(e, "finally")
     \/ output # NoFile /\ Raise(e, "exists") /\ UNCHANGED <<output, published>>
     \/ GoTo(e, "rename") /\ UNCHANGED <<output, published>>
  /\ Fixed /\ UNCHANGED progress

RenameNoReplace_Plain(e) ==
  /\ exportPc[e] = "rename"
  /\ Publish(e)
  /\ temporary' = [temporary EXCEPT ![e] = FALSE]
  /\ GoTo(e, "finally")
  /\ Fixed /\ UNCHANGED <<written, archived>>

RenameNoReplace(e) ==
  /\ exportPc[e] = "rename"
  /\ \/ /\ output = NoFile
        /\ Publish(e)
        /\ temporary' = [temporary EXCEPT ![e] = FALSE]
        /\ GoTo(e, "finally")
     \/ output # NoFile /\ Raise(e, "exists") /\ UNCHANGED <<output, published, temporary>>
     \/ Raise(e, "error") /\ UNCHANGED <<output, published, temporary>>
  /\ Fixed /\ UNCHANGED <<written, archived>>

Replace(e) ==
  /\ exportPc[e] = "replace"
  /\ \/ /\ Publish(e)
        /\ temporary' = [temporary EXCEPT ![e] = FALSE]
        /\ GoTo(e, "finally")
     \/ Raise(e, "error") /\ UNCHANGED <<output, published, temporary>>
  /\ Fixed /\ UNCHANGED <<written, archived>>

\* Anything raised between two of these steps, KeyboardInterrupt included.
Interrupt(e) ==
  /\ exportPc[e] \in {"write", "link", "rename", "replace", "finally"}
  /\ result[e] = "none"
  /\ Raise(e, "error")
  /\ Fixed /\ UNCHANGED <<output, progress, published>>

\* The handler unlinks and `finally' unlinks again: either may fail.
ExportRaised(e) ==
  /\ exportPc[e] = "except"
  /\ \/ temporary' = [temporary EXCEPT ![e] = FALSE] /\ GoTo(e, "finally")
     \/ /\ exportPc' = [exportPc EXCEPT ![e] = "finally"]
        /\ result' = [result EXCEPT ![e] = "error"]
        /\ UNCHANGED temporary
  /\ Fixed /\ UNCHANGED <<output, written, archived, published>>

ExportFinally_KeepsLink(e) ==
  /\ exportPc[e] = "finally"
  /\ exportPc' = [exportPc EXCEPT ![e] = "end"]
  /\ result' = [result EXCEPT ![e] = IF @ = "none" THEN "exported" ELSE @]
  /\ Fixed /\ UNCHANGED <<output, progress, published>>

ExportFinally(e) ==
  /\ exportPc[e] = "finally"
  /\ exportPc' = [exportPc EXCEPT ![e] = "end"]
  /\ \/ /\ temporary' = [temporary EXCEPT ![e] = FALSE]
        /\ result' = [result EXCEPT ![e] = IF @ = "none" THEN "exported" ELSE @]
     \/ UNCHANGED temporary /\ result' = [result EXCEPT ![e] = "error"]
  /\ Fixed /\ UNCHANGED <<output, written, archived, published>>

\* The user puts a file at the output path, or deletes what is there.
UserStep ==
  /\ userSteps < MaxUserSteps
  /\ userSteps' = userSteps + 1
  /\ output' \in {NoFile, Foreign} \ {output}
  /\ UNCHANGED <<overwrite, progress, exportPc, result, published>>

Export(e) ==
  \/ ReadTrace(e) \/ CheckOutput(e) \/ MakeTemporary(e) \/ WriteMember(e)
  \/ FinishArchive(e) \/ Link(e) \/ RenameNoReplace(e) \/ Replace(e)
  \/ Interrupt(e) \/ ExportRaised(e) \/ ExportFinally(e)

ExportNext == UserStep \/ \E e \in Exporters : Export(e)

ExportSpec == ExportInit /\ [][ExportNext]_exportVars

-----------------------------------------------------------------------------
(* The output path changes only from nothing to a complete, synced bundle  *)
(* that belongs to the exporter that puts it there, and from anything else *)
(* only by an exporter with --overwrite or by the user: an existing file   *)
(* is safe however exporters without --overwrite race past its check.      *)
PublishesAtomically ==
  [][output' # output =>
       \/ userSteps' # userSteps
       \/ \E e \in Exporters :
            /\ output' = e /\ archived[e] /\ ~published[e]
            /\ output = NoFile \/ overwrite[e]]_exportVars

(* An exporter that reports success has published its bundle, and one that *)
(* reports that the output exists has not; a bundle is at the output path  *)
(* only with every member written, the archive closed and synced.          *)
ReportFaithful ==
  /\ \A e \in Exporters :
       /\ result[e] = "exported" => published[e]
       /\ result[e] = "exists" => ~published[e]
       /\ published[e] => archived[e] /\ written[e] = Members
  /\ output \in Exporters => published[output]

(* An export that reports success, or that the output exists, leaves no    *)
(* temporary file; when unlinking it fails an error is reported, although  *)
(* the bundle may be published.                                            *)
TemporaryRemoved ==
  \A e \in Exporters :
    exportPc[e] = "end" /\ result[e] \in {"exported", "exists"} => ~temporary[e]
=============================================================================
