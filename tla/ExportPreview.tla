----------------------------- MODULE ExportPreview -----------------------------
(***************************************************************************)
(* export --preview: preview_export scans the trace, the manifest it would *)
(* write and each artifact within limits, while a user changes the files,  *)
(* and gate_reasons says whether --fail-on-findings lets the export pass.  *)
(*                                                                         *)
(* A file is its size, the position of a secret in it and of a NUL byte (0 *)
(* for none), and a revision its times show; revision 0 is no file.  File  *)
(* 0 is the trace; the artifacts are numbered as the trace names them.     *)
(***************************************************************************)
EXTENDS Naturals, FiniteSets, Sequences, SequencesExt

CONSTANTS
  ArtifactCounts,     \* how many artifacts the trace may name
  Shapes,             \* what a file may be: size, secret, nul
  ManifestBytes,
  MaxScanBytes, MaxTotalBytes, MaxArtifacts,    \* the options
  MaxFileChanges      \* bound: changes by the user

ASSUME PreviewAssumption ==
  /\ MaxScanBytes \in Nat /\ MaxTotalBytes \in Nat /\ MaxArtifacts \in Nat
  /\ 0 < MaxScanBytes /\ MaxScanBytes <= MaxTotalBytes /\ MaxArtifacts > 0
  /\ ManifestBytes \in Nat /\ MaxFileChanges \in Nat
ASSUME CountsAssumption ==
  /\ ArtifactCounts \subseteq Nat
  /\ \E n \in ArtifactCounts : \A m \in ArtifactCounts : m <= n
ASSUME ShapesAssumption ==
  \A s \in Shapes : s.size \in Nat /\ s.secret \in 0 .. s.size /\ s.nul \in 0 .. s.size

VARIABLES
  named,       \* artifacts the trace names
  namespaceValid,
  disk,        \* file -> what is there
  fileChanges,
  place,       \* "prepare", "open", "read", "verify", "manifest", "sum", "gate"; "idle"
  current,     \* the file that is scanned
  initial,     \* it at lstat
  data,        \* what was read of it: bytes, and whether a secret and a NUL
  remainingBytes, bytesRead,
  payloads,    \* the entries of "files", in order
  preflight,   \* "ready", "blocked", "unknown"; "error" ends the preview
  history      \* file -> what has been there since the preview began

previewVars == <<named, namespaceValid, disk, fileChanges, place, current, initial, data,
                 remainingBytes, bytesRead, payloads, preflight, history>>

Nowhere == [revision |-> 0, size |-> 0, secret |-> 0, nul |-> 0]

Unread == [bytes |-> 0, secret |-> FALSE, nul |-> FALSE]

MaxNamed == CHOOSE n \in ArtifactCounts : \A m \in ArtifactCounts : m <= n

Names == 0 .. MaxNamed

ManifestFile == MaxNamed + 1

Nameless == MaxNamed + 2

Artifact(s) == [revision |-> 1, size |-> s.size, secret |-> s.secret, nul |-> s.nul]

PreviewStart(where) ==
  /\ fileChanges = 0 /\ place = where /\ current = 0
  /\ initial = Nowhere /\ data = Unread
  /\ remainingBytes = MaxTotalBytes /\ bytesRead = 0
  /\ payloads = <<>> /\ preflight = "none"
  /\ history = [f \in Names |-> {disk[f]}]

PreviewIdle ==
  /\ named = 0 /\ namespaceValid = TRUE
  /\ disk = [f \in Names |-> Nowhere]
  /\ PreviewStart("idle")

PreviewInit ==
  /\ named \in ArtifactCounts /\ namespaceValid \in BOOLEAN
  /\ disk \in [Names -> {Artifact(s) : s \in Shapes} \cup {Nowhere}]
  /\ \A f \in Names : f > named => disk[f] = Nowhere
  /\ PreviewStart("prepare")

-----------------------------------------------------------------------------
ChangeFile(f) ==
  /\ place \notin {"idle", "sum", "gate"} /\ fileChanges < MaxFileChanges
  /\ f <= named
  /\ fileChanges' = fileChanges + 1
  /\ \/ disk' = [disk EXCEPT ![f] = Nowhere]
     \/ \E s \in Shapes :
          disk' = [disk EXCEPT ![f] = [Artifact(s) EXCEPT !.revision = 2 + fileChanges]]
  /\ history' = [history EXCEPT ![f] = @ \cup {disk'[f]}]
  /\ UNCHANGED <<named, namespaceValid, place, current, initial, data, remainingBytes,
                 bytesRead, payloads, preflight>>

Abort == place' = "gate" /\ preflight' = "error"

\* A result of _scan_file, with what was read of it charged to the budget.  Only
\* a trace that was scanned whole is looked into for artifacts.
Entry(status, of, scanned, verified, found) ==
  [file |-> current, status |-> status, size |-> of.size, revision |-> of.revision,
   scanned |-> scanned, verified |-> verified, found |-> found]

\* An entry for no file of the run.
Extra(file, status, scanned) ==
  [Entry(status, Nowhere, scanned, "none", FALSE) EXCEPT !.file = file]

NextPlace ==
  IF current = 0 THEN "manifest"
  ELSE IF current < Min({named, MaxArtifacts}) THEN "prepare" ELSE "sum"

Conclusion(entry, read) ==
  /\ payloads' = Append(payloads, entry)
  /\ bytesRead' = bytesRead + read
  /\ remainingBytes' = IF read > remainingBytes THEN 0 ELSE remainingBytes - read
  /\ initial' = Nowhere /\ data' = Unread
  /\ IF current = 0 /\ entry.status # "scanned"
     THEN Abort /\ UNCHANGED current
     ELSE /\ place' = NextPlace
          /\ current' = IF NextPlace = "prepare" THEN current + 1 ELSE current
          /\ UNCHANGED preflight

Continue(where) ==
  place' = where /\ UNCHANGED <<current, remainingBytes, bytesRead, payloads, preflight>>

Unmoved == UNCHANGED <<named, namespaceValid, disk, fileChanges, history>>

ScanLimit == IF current = 0 THEN MaxTotalBytes ELSE MaxScanBytes

ReadLimit == Min({initial.size, ScanLimit, remainingBytes})

PrepareScan ==
  /\ place = "prepare"
  /\ IF disk[current] = Nowhere
     THEN Conclusion(Entry("missing", Nowhere, 0, "none", FALSE), 0)
     ELSE IF remainingBytes = 0
     THEN Conclusion(Entry("aggregate_limit", disk[current], 0, "none", FALSE), 0)
     ELSE initial' = disk[current] /\ Continue("open") /\ UNCHANGED data
  /\ Unmoved

OpenScan ==
  /\ place = "open"
  /\ IF disk[current] = Nowhere
     THEN Conclusion(Entry("unreadable", initial, 0, "none", FALSE), 0)
     ELSE IF disk[current] # initial
     THEN Conclusion(Entry("unreadable", initial, 0, "no", FALSE), 0)
     ELSE Continue("read") /\ UNCHANGED <<initial, data>>
  /\ Unmoved

\* The bytes up to the limit, or fewer when the file has shrunk: of the file
\* that was opened, or of what was written into it since.
ReadScan ==
  /\ place = "read"
  /\ \E there \in {initial, disk[current]} \ {Nowhere} :
       LET n == Min({ReadLimit, there.size})
       IN data' = [bytes |-> n, secret |-> there.secret \in 1 .. n,
                   nul |-> there.nul \in 1 .. n]
  /\ Continue("verify")
  /\ Unmoved /\ UNCHANGED initial

\* A read raises: nothing of what was loaded before is kept or charged.
ReadFails ==
  /\ place = "read"
  /\ Conclusion(Entry("unreadable", initial, 0, "no", FALSE), 0)
  /\ Unmoved

Status == IF initial.size <= ReadLimit THEN "scanned"
          ELSE IF ReadLimit = ScanLimit THEN "truncated" ELSE "aggregate_limit"

\* Mutant: the file is not looked at again.
Unchanged_Assumed == TRUE

Unchanged == disk[current] = initial

\* verify_opened_file raises, for a change or by itself; or it returns, where the
\* file system has identities to compare and where it has not, and the bytes say.
VerifyScan ==
  /\ place = "verify"
  /\ \/ Conclusion(Entry("unreadable", initial, 0, "no", FALSE), data.bytes)
     \/ /\ Unchanged
        /\ \E verified \in {"yes", "no"} :
             Conclusion(IF data.bytes < ReadLimit
                        THEN Entry("unreadable", initial, 0, verified, FALSE)
                        ELSE IF data.nul
                        THEN Entry("skipped_binary", initial, 0, verified, FALSE)
                        ELSE Entry(Status, initial, data.bytes, verified, data.secret),
                        data.bytes)
  /\ Unmoved

\* What was scanned is no valid trace of this run.
RejectTrace ==
  /\ place = "manifest"
  /\ Abort
  /\ Unmoved /\ UNCHANGED <<current, initial, data, remainingBytes, bytesRead, payloads>>

\* The projected manifest, which holds what the trace says and no secret here;
\* its bytes are charged but not counted as read.
ScanManifest ==
  /\ place = "manifest"
  /\ LET n == Min({ManifestBytes, remainingBytes})
     IN /\ payloads' = Append(payloads,
             Extra(ManifestFile, IF n = ManifestBytes THEN "scanned"
                                 ELSE "aggregate_limit", n))
        /\ remainingBytes' = remainingBytes - n
  /\ IF named = 0
     THEN place' = "sum" /\ UNCHANGED current
     ELSE place' = "prepare" /\ current' = 1
  /\ Unmoved /\ UNCHANGED <<initial, data, bytesRead, preflight>>

Blocking == {"missing", "unsafe_path", "unreadable"}

\* The entries for artifacts beyond the limit and for names that cannot go into
\* one bundle; then whether the export would succeed.
Summarize ==
  /\ place = "sum"
  /\ LET limited == named > MaxArtifacts
         extra == (IF limited THEN <<Extra(Nameless, "file_limit", 0)>> ELSE <<>>)
                  \o IF namespaceValid THEN <<>>
                     ELSE <<Extra(Nameless, "unsafe_path", 0)>>
     IN /\ payloads' = payloads \o extra
        /\ preflight' = IF \E p \in Range(payloads') : p.status \in Blocking THEN "blocked"
                        ELSE IF limited THEN "unknown" ELSE "ready"
  /\ place' = "gate"
  /\ Unmoved /\ UNCHANGED <<current, initial, data, remainingBytes, bytesRead>>

PreviewNext ==
  \/ \E f \in Names : ChangeFile(f)
  \/ PrepareScan \/ OpenScan \/ ReadScan \/ ReadFails \/ VerifyScan
  \/ RejectTrace \/ ScanManifest \/ Summarize

PreviewSpec == PreviewInit /\ [][PreviewNext]_previewVars

-----------------------------------------------------------------------------
ScanCompleteFor(entries) == \A p \in Range(entries) : p.status = "scanned"

\* Mutant: what cannot be scanned only makes the coverage incomplete.
GateReasons_Unverified(allowIncomplete) ==
  {r \in {"gating_findings", "incomplete_scan"} :
     \/ r = "gating_findings" /\ \E p \in Range(payloads) : p.found
     \/ r = "incomplete_scan" /\ ~ScanCompleteFor(payloads) /\ ~allowIncomplete}

GateReasons(allowIncomplete) ==
  {r \in {"gating_findings", "export_blocked", "identity_unverified", "incomplete_scan"} :
     \/ r = "gating_findings" /\ \E p \in Range(payloads) : p.found
     \/ r = "export_blocked" /\ preflight # "ready"
     \/ r = "identity_unverified" /\ \E p \in Range(payloads) : p.verified = "no"
     \/ r = "incomplete_scan" /\ ~ScanCompleteFor(payloads) /\ ~allowIncomplete}

Previewed == place = "gate" /\ preflight # "error"

(* A strict gate that passes has seen the trace, the manifest and each     *)
(* artifact the trace names, whole, in one revision that was there during  *)
(* the preview, without a secret.  Of a bundle that is made later, which   *)
(* may find other files, that says nothing.                                *)
PassedGateSawAll ==
  Previewed /\ GateReasons(FALSE) = {} =>
    /\ named <= MaxArtifacts /\ namespaceValid /\ Len(payloads) = named + 2
    /\ \A f \in 0 .. named :
         \E p \in Range(payloads), h \in history[f] :
           /\ p.file = f /\ p.revision = h.revision /\ p.scanned = h.size
           /\ h # Nowhere /\ h.secret = 0 /\ h.nul = 0

\* What an entry says of a file, and how far the limits let its scan go.
AsFarAsAllowed(p, h) ==
  \/ p.status = "scanned" /\ p.scanned = h.size
  \/ p.status = "truncated" /\ p.scanned = MaxScanBytes /\ MaxScanBytes < h.size
  \/ p.status = "aggregate_limit" /\ p.scanned <= MaxScanBytes /\ remainingBytes = 0
  \/ p.status = "skipped_binary" /\ p.scanned = 0 /\ h.nul \in 1 .. MaxScanBytes

(* Forgiving an incomplete scan forgives nothing but limits and binary     *)
(* content: a gate that passes had every artifact there in the revision it *)
(* prepared, scanned whole, or to MaxScanBytes, or until the budget of all *)
(* files was spent, or not at all for a NUL in those bytes; and the bytes  *)
(* it scanned as text hold no secret.  What it did not scan, a file with a *)
(* NUL included, may hold one.  The bytes that are charged stay within the *)
(* budget; a read that raises charges nothing.                             *)
ForgivenScanIsBounded ==
  /\ bytesRead <= MaxTotalBytes
  /\ Previewed /\ GateReasons(TRUE) = {} =>
       \A f \in 1 .. named :
         \E p \in Range(payloads), h \in history[f] :
           /\ p.file = f /\ h # Nowhere /\ p.revision = h.revision
           /\ AsFarAsAllowed(p, h)
           /\ h.secret \notin 1 .. p.scanned
=============================================================================
