-------------------------- MODULE BoundedWorkProofs --------------------------
(***************************************************************************)
(* Proofs about the parts that work within limits and share no state:      *)
(* BundleExport for any number of exporters, members of the bundle and     *)
(* steps of the user; ExportPreview for any artifacts, limits and changes  *)
(* of the files while they are scanned; AssertionEvaluation for any two    *)
(* artifacts, needles, chunks and limits; and TraceTrim for any trace and  *)
(* any sizes.                                                              *)
(*                                                                         *)
(* The gate compares revisions it cannot see again, so PreviewInv says     *)
(* what an entry vouches for (Attested) from the moment its file was       *)
(* prepared (ReadingKept), and that a file that changed does not come back *)
(* as it was (HistoryKept).                                                *)
(*                                                                         *)
(* The search of an assertion keeps a few bytes and three flags.           *)
(* EvaluationInv says what they know of the bytes read so far (Knows),     *)
(* what the first search leaves to the second (BudgetKept), and that a     *)
(* rewrite can be seen until the verdict (RevisionsKept).                  *)
(*                                                                         *)
(* The binary search of _trim_trace is right because a trace without more  *)
(* calls is no larger (FewerCallsFit), a fact about sums and selections    *)
(* along a sequence.  SearchKept says what the search knows at each step.  *)
(***************************************************************************)
EXTENDS BundleExport, ExportPreview, AssertionEvaluation, TraceTrim, SequenceTheorems,
        WellFoundedInduction, TLAPS

Publishing == {"link", "rename", "replace"}

Before == {"start", "check", "make", "write"} \cup Publishing

\* What the control of an exporter says of its bundle.
ControlOf(e) ==
  /\ exportPc[e] \in Publishing => archived[e]
  /\ exportPc[e] \in Before => ~published[e] /\ result[e] = "none"
  /\ exportPc[e] = "replace" => overwrite[e]
  /\ exportPc[e] = "finally" /\ result[e] = "none" => published[e]
  /\ exportPc[e] = "except" => result[e] # "none"
  /\ result[e] = "exported" => exportPc[e] = "end"

TemporaryOf(e) ==
  /\ exportPc[e] \in {"start", "check", "make"} => ~temporary[e]
  /\ exportPc[e] = "end" /\ result[e] \in {"exported", "exists"} => ~temporary[e]

ReportOf(e) ==
  /\ result[e] = "exported" => published[e]
  /\ result[e] = "exists" => ~published[e]
  /\ published[e] => archived[e]
  /\ archived[e] => written[e] = Members

IInv ==
  /\ TypeOK
  /\ \A e \in Exporters : ControlOf(e)
  /\ \A e \in Exporters : TemporaryOf(e)
  /\ \A e \in Exporters : ReportOf(e)
  /\ output \in Exporters => published[output]

\* The steps of one exporter, without those of the others.
Others(e) ==
  \A x \in Exporters \ {e} :
    /\ exportPc'[x] = exportPc[x] /\ result'[x] = result[x] /\ archived'[x] = archived[x]
    /\ written'[x] = written[x] /\ temporary'[x] = temporary[x]
    /\ published'[x] = published[x]

USE ExportAssumption

(* The invariant holds before any exporter has taken a step.               *)
LEMMA Initially == ExportInit => IInv
BY DEF ExportInit, IInv, TypeOK, ControlOf, TemporaryOf, ReportOf, Places, Results,
       Publishing, Before

(* Every step of an exporter keeps the types and changes no other one's    *)
(* bundle, temporary file or report.                                       *)
LEMMA StepsApart ==
  ASSUME IInv, NEW e \in Exporters, Export(e)
  PROVE  TypeOK' /\ Others(e) /\ overwrite' = overwrite /\ userSteps' = userSteps
<1> USE DEF IInv, TypeOK, Others, Fixed, GoTo, Raise, progress, Places, Results
<1>1. CASE ReadTrace(e) BY <1>1 DEF ReadTrace
<1>2. CASE CheckOutput(e) BY <1>2 DEF CheckOutput
<1>3. CASE MakeTemporary(e) BY <1>3 DEF MakeTemporary
<1>4. CASE WriteMember(e) BY <1>4 DEF WriteMember
<1>5. CASE FinishArchive(e) BY <1>5 DEF FinishArchive
<1>6. CASE Link(e) BY <1>6 DEF Link, Publish
<1>7. CASE RenameNoReplace(e) BY <1>7 DEF RenameNoReplace, Publish
<1>8. CASE Replace(e) BY <1>8 DEF Replace, Publish
<1>9. CASE Interrupt(e) BY <1>9 DEF Interrupt
<1>10. CASE ExportRaised(e) BY <1>10 DEF ExportRaised
<1>11. CASE ExportFinally(e) BY <1>11 DEF ExportFinally
<1> QED BY <1>1, <1>2, <1>3, <1>4, <1>5, <1>6, <1>7, <1>8, <1>9, <1>10, <1>11 DEF Export

(* A step of an exporter keeps what the invariant says of its own control, *)
(* temporary file and report, and changes the output only to publish.      *)
LEMMA OwnStep ==
  ASSUME IInv, NEW e \in Exporters, Export(e)
  PROVE  /\ ControlOf(e)' /\ TemporaryOf(e)' /\ ReportOf(e)'
         /\ \/ output' = output /\ published'[e] = published[e]
            \/ /\ output' = e /\ published'[e]
               /\ archived[e] /\ ~published[e]
               /\ output = NoFile \/ overwrite[e]
<1> USE DEF IInv, TypeOK, ControlOf, TemporaryOf, ReportOf, Fixed, GoTo, Raise,
            progress, Places, Results, Publishing, Before
<1>1. CASE ReadTrace(e) BY <1>1 DEF ReadTrace
<1>2. CASE CheckOutput(e) BY <1>2 DEF CheckOutput
<1>3. CASE MakeTemporary(e) BY <1>3 DEF MakeTemporary
<1>4. CASE WriteMember(e) 
  <2>1. ~archived[e] BY <1>4 DEF WriteMember
  <2> QED BY <1>4, <2>1 DEF WriteMember
<1>5. CASE FinishArchive(e) BY <1>5 DEF FinishArchive
<1>6. CASE Link(e) BY <1>6 DEF Link, Publish
<1>7. CASE RenameNoReplace(e) BY <1>7 DEF RenameNoReplace, Publish
<1>8. CASE Replace(e) BY <1>8 DEF Replace, Publish
<1>9. CASE Interrupt(e) BY <1>9 DEF Interrupt
<1>10. CASE ExportRaised(e) BY <1>10 DEF ExportRaised
<1>11. CASE ExportFinally(e) BY <1>11 DEF ExportFinally
<1> QED BY <1>1, <1>2, <1>3, <1>4, <1>5, <1>6, <1>7, <1>8, <1>9, <1>10, <1>11 DEF Export

(* A step of the user keeps the invariant: it can only take a bundle away. *)
LEMMA UserKeeps == ASSUME IInv, UserStep PROVE IInv'
<1>1. output' \in {NoFile, Foreign} BY DEF UserStep
<1>2. UNCHANGED <<overwrite, temporary, written, archived, exportPc, result, published>>
  BY DEF UserStep, progress
<1>3. TypeOK' BY <1>1, <1>2 DEF IInv, TypeOK, UserStep
<1>4. \A e \in Exporters : ControlOf(e)' /\ TemporaryOf(e)' /\ ReportOf(e)'
  BY <1>2 DEF IInv, ControlOf, TemporaryOf, ReportOf
<1> QED BY <1>1, <1>3, <1>4 DEF IInv

(* Every step keeps the invariant.                                         *)
LEMMA Inductive == IInv /\ [ExportNext]_exportVars => IInv'
<1> SUFFICES ASSUME IInv, [ExportNext]_exportVars PROVE IInv'
  OBVIOUS
<1>1. CASE UserStep BY <1>1, UserKeeps
<1>2. ASSUME NEW e \in Exporters, Export(e) PROVE IInv'
  <2>1. TypeOK' /\ Others(e) /\ overwrite' = overwrite BY <1>2, StepsApart
  <2>2. ControlOf(e)' /\ TemporaryOf(e)' /\ ReportOf(e)' BY <1>2, OwnStep
  <2>3. \A x \in Exporters : ControlOf(x)' /\ TemporaryOf(x)' /\ ReportOf(x)'
    <3> SUFFICES ASSUME NEW x \in Exporters, x # e
                 PROVE  ControlOf(x)' /\ TemporaryOf(x)' /\ ReportOf(x)'
      BY <2>2
    <3>1. ControlOf(x) /\ TemporaryOf(x) /\ ReportOf(x) BY DEF IInv
    <3> QED BY <3>1, <2>1 DEF Others, ControlOf, TemporaryOf, ReportOf
  <2>4. output' \in Exporters => published'[output']
    <3>1. CASE output' = output /\ published'[e] = published[e]
      BY <3>1, <2>1 DEF Others, IInv
    <3>2. CASE output' = e /\ published'[e] BY <3>2
    <3> QED BY <3>1, <3>2, <1>2, OwnStep
  <2> QED BY <2>1, <2>3, <2>4 DEF IInv
<1>3. CASE UNCHANGED exportVars
  <2>1. UNCHANGED <<overwrite, output, temporary, written, archived, exportPc, result,
                    published, userSteps>>
    BY <1>3 DEF exportVars, progress
  <2> QED BY <2>1 DEF IInv, TypeOK, ControlOf, TemporaryOf, ReportOf
<1> QED BY <1>1, <1>2, <1>3 DEF ExportNext

(* The invariant holds of every state of every behaviour.                  *)
LEMMA Invariance == ExportSpec => []IInv
BY Initially, Inductive, PTL DEF ExportSpec

(* Control, reports and the history of every exporter stay well typed.     *)
THEOREM TypeCorrect == ExportSpec => []TypeOK
<1>1. IInv => TypeOK BY DEF IInv
<1> QED BY <1>1, Invariance, PTL

(* An exporter that reports success has published its bundle; one that     *)
(* reports that the output exists has not; what is published is complete.  *)
THEOREM ReportsAreFaithful == ExportSpec => []ReportFaithful
<1>1. IInv => ReportFaithful BY DEF IInv, ReportOf, ReportFaithful
<1> QED BY <1>1, Invariance, PTL

(* Success and "exists" leave no temporary file.                           *)
THEOREM TemporariesRemoved == ExportSpec => []TemporaryRemoved
<1>1. IInv => TemporaryRemoved BY DEF IInv, TemporaryOf, TemporaryRemoved
<1> QED BY <1>1, Invariance, PTL

(* The output path changes only from nothing to a complete bundle of its   *)
(* exporter, from anything else only with --overwrite or by the user: an   *)
(* existing output survives every race of exporters without --overwrite.   *)
THEOREM NothingIsOverwritten == ExportSpec => PublishesAtomically
<1>1. ASSUME IInv, [ExportNext]_exportVars
      PROVE  [output' # output =>
                \/ userSteps' # userSteps
                \/ \E e \in Exporters :
                     /\ output' = e /\ archived[e] /\ ~published[e]
                     /\ output = NoFile \/ overwrite[e]]_exportVars
  <2>1. CASE UserStep
    <3>1. userSteps \in Nat BY <1>1 DEF IInv, TypeOK
    <3>2. userSteps' = userSteps + 1 BY <2>1 DEF UserStep
    <3> QED BY <3>1, <3>2
  <2>2. CASE \E e \in Exporters : Export(e) BY <1>1, <2>2, OwnStep
  <2>3. CASE UNCHANGED exportVars BY <2>3
  <2> QED BY <1>1, <2>1, <2>2, <2>3 DEF ExportNext
<1> QED BY <1>1, Invariance, PTL DEF ExportSpec, PublishesAtomically
-----------------------------------------------------------------------------
(* The preview.                                                            *)

File == [revision: Nat, size: Nat, secret: Nat, nul: Nat]

Scans == {"missing", "unreadable", "aggregate_limit", "scanned", "truncated",
          "skipped_binary"}

EntryType ==
  [file: Nat, status: Scans \cup {"file_limit", "unsafe_path"}, size: Nat,
   revision: Nat, scanned: Nat, verified: {"yes", "no", "none"}, found: BOOLEAN]

\* The last artifact that is looked at.
LastScanned == IF named <= MaxArtifacts THEN named ELSE MaxArtifacts

AtFile == place \in {"prepare", "open", "read", "verify"}

PreviewTypes ==
  /\ named \in 0 .. MaxNamed /\ namespaceValid \in BOOLEAN /\ fileChanges \in Nat
  /\ disk \in [Names -> File]
  /\ current \in 0 .. LastScanned
  /\ remainingBytes \in Nat /\ bytesRead \in Nat
  /\ bytesRead + remainingBytes <= MaxTotalBytes
  /\ payloads \in Seq(EntryType)

\* What was there is remembered, and a change brings a revision of its own.
HistoryKept ==
  /\ DOMAIN history = Names
  /\ \A f \in Names : disk[f] \in history[f]
  /\ \A f \in Names : \A h \in history[f] :
       /\ h \in File /\ h.revision <= 1 + fileChanges
       /\ h.secret <= h.size /\ h.nul <= h.size

\* What was read is of the file that was prepared, if that is still there.
ReadingKept ==
  /\ place \in {"open", "read", "verify"} => initial \in history[current] /\ initial # Nowhere
  /\ place = "verify" =>
       /\ data.bytes \in 0 .. ReadLimit
       /\ data.secret \in BOOLEAN /\ data.nul \in BOOLEAN
       /\ disk[current] = initial =>
            /\ data.bytes = ReadLimit
            /\ data.secret <=> initial.secret \in 1 .. data.bytes
            /\ data.nul <=> initial.nul \in 1 .. data.bytes

\* An entry without findings vouches for a revision that was there.
Attested(p) ==
  /\ p.status \in Scans
  /\ p.file # 0 => p.scanned <= MaxScanBytes
  /\ p.status \notin {"missing", "unreadable"} =>
       \E h \in history[p.file] :
         /\ h # Nowhere /\ p.revision = h.revision
         /\ p.found \/ h.secret \notin 1 .. p.scanned
         /\ p.status = "scanned" => p.scanned = h.size /\ h.nul = 0
         /\ p.file # 0 /\ p.status = "truncated" =>
              p.scanned = MaxScanBytes /\ MaxScanBytes < h.size
         /\ p.file # 0 /\ p.status = "skipped_binary" =>
              p.scanned = 0 /\ h.nul \in 1 .. MaxScanBytes

EntriesAttested ==
  \A i \in DOMAIN payloads :
    payloads[i].file \in Names =>
      /\ Attested(payloads[i])
      /\ payloads[i].status = "aggregate_limit" => remainingBytes = 0

Listed(n) == \A f \in 0 .. n : \E i \in DOMAIN payloads : payloads[i].file = f

\* The entries there are at each place.
PlacesKept ==
  /\ place \in {"prepare", "open", "read", "verify", "manifest", "sum", "gate"}
  /\ AtFile => /\ Listed(current - 1)
               /\ Len(payloads) = IF current = 0 THEN 0 ELSE current + 1
  /\ place = "manifest" => current = 0 /\ Listed(0) /\ Len(payloads) = 1
  /\ place = "sum" => Listed(LastScanned) /\ Len(payloads) = LastScanned + 2
  /\ Previewed => /\ Listed(LastScanned)
                  /\ preflight = "ready" =>
                       /\ named <= MaxArtifacts
                       /\ \A i \in DOMAIN payloads : payloads[i].status \notin Blocking
                       /\ Len(payloads) = named + 2 /\ namespaceValid

PreviewInv ==
  PreviewTypes /\ HistoryKept /\ ReadingKept /\ EntriesAttested /\ PlacesKept

LEMMA MinOfTwo ==
  ASSUME NEW a \in Nat, NEW b \in Nat
  PROVE  Min({a, b}) = IF a <= b THEN a ELSE b
BY DEF Min

LEMMA MinOfThree ==
  ASSUME NEW a \in Nat, NEW b \in Nat, NEW c \in Nat
  PROVE  /\ Min({a, b, c}) \in {a, b, c}
         /\ Min({a, b, c}) <= a /\ Min({a, b, c}) <= b /\ Min({a, b, c}) <= c
<1> DEFINE m == IF a <= b /\ a <= c THEN a ELSE IF b <= c THEN b ELSE c
<1>1. m \in {a, b, c} /\ \A x \in {a, b, c} : m <= x
  OBVIOUS
<1>2. QED
  BY <1>1 DEF Min

\* The files of the run, and the entries that are for none of them.
LEMMA NamesAre ==
  /\ MaxNamed \in Nat /\ MaxNamed \in ArtifactCounts
  /\ \A n \in ArtifactCounts : n <= MaxNamed
  /\ ManifestFile \in Nat \ Names /\ Nameless \in Nat \ Names
<1>1. MaxNamed \in ArtifactCounts /\ \A m \in ArtifactCounts : m <= MaxNamed
  BY CountsAssumption DEF MaxNamed
<1>2. QED
  BY <1>1, CountsAssumption DEF ManifestFile, Nameless, Names

\* The bytes that may be read of a file.
LEMMA ReadLimitIs ==
  ASSUME PreviewTypes, initial \in File
  PROVE  /\ ScanLimit \in Nat /\ (current # 0 => ScanLimit = MaxScanBytes)
         /\ ReadLimit \in Nat
         /\ ReadLimit \in {initial.size, ScanLimit, remainingBytes}
         /\ ReadLimit <= initial.size /\ ReadLimit <= ScanLimit /\ ReadLimit <= remainingBytes
<1>1. ScanLimit \in Nat /\ (current # 0 => ScanLimit = MaxScanBytes)
  BY PreviewAssumption DEF ScanLimit
<1>2. initial.size \in Nat /\ remainingBytes \in Nat
  BY DEF PreviewTypes, File
<1>3. QED
  BY <1>1, <1>2, MinOfThree DEF ReadLimit

\* Where the scan goes after a file.
LEMMA NextPlaceIs ==
  ASSUME PreviewTypes
  PROVE  /\ LastScanned \in Nat /\ LastScanned <= named
         /\ NextPlace = IF current = 0 THEN "manifest"
                        ELSE IF current < LastScanned THEN "prepare" ELSE "sum"
<1>1. named \in Nat /\ MaxArtifacts \in Nat
  BY NamesAre, PreviewAssumption DEF PreviewTypes
<1>2. QED
  BY <1>1, MinOfTwo DEF NextPlace, LastScanned

\* An entry more.
LEMMA AppendEntry ==
  ASSUME payloads \in Seq(EntryType), NEW p \in EntryType,
         payloads' = Append(payloads, p)
  PROVE  /\ payloads' \in Seq(EntryType)
         /\ Len(payloads) \in Nat /\ Len(payloads') = Len(payloads) + 1
         /\ DOMAIN payloads = 1 .. Len(payloads)
         /\ DOMAIN payloads' = 1 .. Len(payloads) + 1
         /\ \A i \in 1 .. Len(payloads) : payloads'[i] = payloads[i]
         /\ payloads'[Len(payloads) + 1] = p
BY AppendProperties, LenProperties

\* What is listed stays listed, and the new entry lists its file.
LEMMA ListedMore ==
  ASSUME payloads \in Seq(EntryType), NEW p \in EntryType,
         payloads' = Append(payloads, p)
  PROVE  /\ \A n \in Int : Listed(n) => Listed(n)'
         /\ \A n \in Nat : Listed(n - 1) /\ p.file = n => Listed(n)'
<1>1. /\ Len(payloads) \in Nat
      /\ DOMAIN payloads = 1 .. Len(payloads)
      /\ DOMAIN payloads' = 1 .. Len(payloads) + 1
      /\ \A i \in 1 .. Len(payloads) : payloads'[i] = payloads[i]
      /\ payloads'[Len(payloads) + 1] = p
  BY AppendEntry
<1>2. ASSUME NEW f, \E i \in DOMAIN payloads : payloads[i].file = f
      PROVE  \E i \in DOMAIN payloads' : payloads'[i].file = f
  BY <1>1, <1>2
<1>3. \E i \in DOMAIN payloads' : payloads'[i].file = p.file
  BY <1>1
<1>4. ASSUME NEW n \in Int, Listed(n)
      PROVE  Listed(n)'
  BY <1>2, <1>4 DEF Listed
<1>5. ASSUME NEW n \in Nat, Listed(n - 1), p.file = n
      PROVE  Listed(n)'
  <2>1. \A f \in 0 .. n : f \in 0 .. n - 1 \/ f = n
    OBVIOUS
  <2>2. QED
    BY <1>2, <1>3, <1>5, <2>1 DEF Listed
<1>6. QED
  BY <1>4, <1>5

-----------------------------------------------------------------------------
(* A file is done with: _scan_file returns its entry.                      *)

LEMMA ConclusionStep ==
  ASSUME PreviewInv, AtFile, Unmoved,
         NEW p \in EntryType, NEW read \in Nat, read <= remainingBytes,
         Conclusion(p, read),
         p.file = current, Attested(p),
         p.status = "aggregate_limit" => read = remainingBytes
  PROVE  PreviewInv'
<1> USE DEF PreviewInv
<1>1. /\ payloads' = Append(payloads, p)
      /\ bytesRead' = bytesRead + read
      /\ remainingBytes' = remainingBytes - read
      /\ UNCHANGED <<named, namespaceValid, disk, fileChanges, history>>
  BY DEF Conclusion, Unmoved, PreviewTypes
<1>2. /\ Len(payloads) \in Nat /\ Len(payloads') = Len(payloads) + 1
      /\ payloads' \in Seq(EntryType)
      /\ DOMAIN payloads = 1 .. Len(payloads)
      /\ DOMAIN payloads' = 1 .. Len(payloads) + 1
      /\ \A i \in 1 .. Len(payloads) : payloads'[i] = payloads[i]
      /\ payloads'[Len(payloads) + 1] = p
  BY <1>1, AppendEntry DEF PreviewTypes
<1>3. LastScanned' = LastScanned /\ LastScanned \in Nat
  BY <1>1, NextPlaceIs DEF LastScanned
<1>4. \/ place' = "gate" /\ preflight' = "error" /\ current' = current
      \/ place' = "manifest" /\ current = 0 /\ current' = current
      \/ place' = "prepare" /\ current # 0 /\ current < LastScanned /\ current' = current + 1
      \/ place' = "sum" /\ current = LastScanned /\ current # 0 /\ current' = current
  BY <1>3, NextPlaceIs DEF Conclusion, Abort, PreviewTypes
<1>5. current \in Nat /\ current <= LastScanned
  BY <1>3 DEF PreviewTypes
<1>6. PreviewTypes'
  <2>1. current' \in 0 .. LastScanned'
    BY <1>3, <1>4, <1>5
  <2>2. /\ remainingBytes' \in Nat /\ bytesRead' \in Nat
        /\ bytesRead' + remainingBytes' <= MaxTotalBytes
    BY <1>1 DEF PreviewTypes
  <2>3. QED
    BY <1>1, <1>2, <2>1, <2>2 DEF PreviewTypes
<1>7. HistoryKept'
  BY <1>1 DEF HistoryKept
<1>8. ReadingKept'
  BY <1>4 DEF ReadingKept
<1>9. EntriesAttested'
  <2>1. Attested(p)'
    BY <1>1 DEF Attested
  <2>2. p.status = "aggregate_limit" => remainingBytes' = 0
    BY <1>1 DEF PreviewTypes
  <2>3. ASSUME NEW i \in 1 .. Len(payloads), payloads[i].file \in Names
        PROVE  /\ Attested(payloads[i])'
               /\ payloads[i].status = "aggregate_limit" => remainingBytes' = 0
    <3>1. /\ Attested(payloads[i])
          /\ payloads[i].status = "aggregate_limit" => remainingBytes = 0
      BY <1>2, <2>3 DEF EntriesAttested
    <3>2. payloads'[i] = payloads[i]
      BY <1>2
    <3>3. remainingBytes = 0 => remainingBytes' = 0
      BY <1>1 DEF PreviewTypes
    <3>4. QED
      BY <1>1, <3>1, <3>2, <3>3 DEF Attested
  <2>4. ASSUME NEW i \in DOMAIN payloads', payloads'[i].file \in Names'
        PROVE  /\ Attested(payloads[i])'
               /\ (payloads[i].status = "aggregate_limit")' => remainingBytes' = 0
    <3>1. CASE i = Len(payloads) + 1
      <4>1. payloads'[i] = p
        BY <1>2, <3>1
      <4>2. QED
        BY <2>1, <2>2, <4>1 DEF Attested
    <3>2. CASE i \in 1 .. Len(payloads)
      <4>1. payloads'[i] = payloads[i]
        BY <1>2, <3>2
      <4>2. QED
        BY <2>3, <2>4, <3>2, <4>1
    <3>3. QED
      BY <1>2, <3>1, <3>2
  <2>5. QED
    BY <2>4 DEF EntriesAttested
<1>10. PICK c \in Nat : c = current
  BY <1>5
<1>11. Listed(c)' /\ Len(payloads') = IF c = 0 THEN 1 ELSE c + 2
  <2>1. Listed(c - 1) /\ Len(payloads) = IF c = 0 THEN 0 ELSE c + 1
    BY <1>10 DEF PlacesKept
  <2>2. Listed(c)'
    BY <1>1, <1>10, <2>1, ListedMore DEF PreviewTypes
  <2>3. QED
    BY <1>2, <2>1, <2>2
<1>12. PlacesKept'
  <2>1. CASE place' = "gate" /\ preflight' = "error"
    BY <2>1 DEF PlacesKept, AtFile, Previewed
  <2>2. CASE place' = "manifest" /\ c = 0 /\ current' = c
    BY <1>11, <2>2 DEF PlacesKept, AtFile, Previewed
  <2>3. CASE place' = "prepare" /\ c # 0 /\ current' = c + 1
    <3>1. current' # 0 /\ current' - 1 = c
      BY <2>3
    <3>2. Listed(current - 1)'
      BY <1>11, <3>1 DEF Listed
    <3>3. QED
      BY <1>11, <2>3, <3>1, <3>2 DEF PlacesKept, AtFile, Previewed
  <2>4. CASE place' = "sum" /\ c = LastScanned' /\ c # 0
    <3>1. Listed(LastScanned)'
      BY <1>11, <2>4
    <3>2. QED
      BY <1>11, <2>4, <3>1 DEF PlacesKept, AtFile, Previewed
  <2>5. QED
    BY <1>3, <1>4, <1>10, <2>1, <2>2, <2>3, <2>4
<1>13. QED
  BY <1>6, <1>7, <1>8, <1>9, <1>12

\* The bytes that may be read depend on what was prepared and on what is left.
LEMMA ReadLimitKept ==
  ASSUME UNCHANGED <<current, initial, remainingBytes>>
  PROVE  ReadLimit' = ReadLimit
BY DEF ReadLimit, ScanLimit

\* Entries keep vouching while what was there is remembered.
LEMMA AttestedKept ==
  ASSUME NEW p, Attested(p), history[p.file] \subseteq history'[p.file]
  PROVE  Attested(p)'
BY DEF Attested

\* The entries are not touched while a file is scanned or changed.
LEMMA EntriesKept ==
  ASSUME PreviewInv, UNCHANGED <<payloads, remainingBytes>>,
         \A f \in Names : history[f] \subseteq history'[f]
  PROVE  EntriesAttested'
<1>1. ASSUME NEW i \in DOMAIN payloads, payloads[i].file \in Names
      PROVE  /\ Attested(payloads[i])'
             /\ payloads[i].status = "aggregate_limit" => remainingBytes' = 0
  <2>1. PICK p : p = payloads[i] /\ p = payloads'[i]
    BY <1>1
  <2>2. Attested(p) /\ (p.status = "aggregate_limit" => remainingBytes = 0)
    BY <1>1, <2>1 DEF PreviewInv, EntriesAttested
  <2>3. Attested(p)'
    BY <1>1, <2>1, <2>2, AttestedKept
  <2>4. Attested(payloads[i])'
    BY <2>1, <2>3 DEF Attested
  <2>5. QED
    BY <2>1, <2>2, <2>4
<1>2. QED
  BY <1>1 DEF EntriesAttested

\* What the user does to a file is remembered, and a file that was changed
\* does not come back in the revision it had.
LEMMA ChangeStep ==
  ASSUME PreviewInv, NEW f \in Names, ChangeFile(f)
  PROVE  PreviewInv'
<1> USE DEF PreviewInv
<1>1. /\ place \notin {"idle", "sum", "gate"}
      /\ fileChanges' = fileChanges + 1 /\ fileChanges \in Nat
      /\ history' = [history EXCEPT ![f] = @ \cup {disk'[f]}]
      /\ DOMAIN history = Names
      /\ disk \in [Names -> File]
      /\ UNCHANGED <<named, namespaceValid, place, current, initial, data,
                     remainingBytes, bytesRead, payloads, preflight>>
  BY DEF ChangeFile, PreviewTypes, HistoryKept
<1>2. PICK d \in File :
        /\ disk' = [disk EXCEPT ![f] = d]
        /\ d = Nowhere \/ d.revision = 2 + fileChanges
        /\ d.revision <= 2 + fileChanges /\ d.secret <= d.size /\ d.nul <= d.size
  <2> DEFINE Kind(d) == /\ d = Nowhere \/ d.revision = 2 + fileChanges
                        /\ d.revision <= 2 + fileChanges
                        /\ d.secret <= d.size /\ d.nul <= d.size
  <2>1. CASE disk' = [disk EXCEPT ![f] = Nowhere]
    <3>1. Nowhere \in File /\ Kind(Nowhere)
      BY <1>1 DEF Nowhere, File
    <3>2. QED
      BY <2>1, <3>1
  <2>2. CASE \E s \in Shapes :
               disk' = [disk EXCEPT ![f] = [Artifact(s) EXCEPT !.revision = 2 + fileChanges]]
    <3>1. PICK s \in Shapes :
            disk' = [disk EXCEPT ![f] = [Artifact(s) EXCEPT !.revision = 2 + fileChanges]]
      BY <2>2
    <3>2. PICK d : d = [Artifact(s) EXCEPT !.revision = 2 + fileChanges]
      OBVIOUS
    <3>3. s.size \in Nat /\ s.secret \in 0 .. s.size /\ s.nul \in 0 .. s.size
      BY ShapesAssumption
    <3>4. d = [revision |-> 2 + fileChanges, size |-> s.size, secret |-> s.secret,
               nul |-> s.nul]
      BY <3>2 DEF Artifact
    <3>5. d \in File /\ Kind(d)
      BY <1>1, <3>3, <3>4 DEF File
    <3>6. QED
      BY <3>1, <3>2, <3>5
  <2>3. QED
    BY <2>1, <2>2 DEF ChangeFile
<1>3. disk' \in [Names -> File] /\ disk'[f] = d
      /\ \A g \in Names : g # f => disk'[g] = disk[g]
  BY <1>1, <1>2
<1>4. history'[f] = history[f] \cup {d} /\ DOMAIN history' = Names
      /\ \A g \in Names : g # f => history'[g] = history[g]
  BY <1>1, <1>3
<1>5. PreviewTypes'
  BY <1>1, <1>3 DEF PreviewTypes, LastScanned
<1>6. HistoryKept'
  <2>1. \A g \in Names : \A h \in history[g] :
          /\ h \in File /\ h.revision <= 2 + fileChanges
          /\ h.secret <= h.size /\ h.nul <= h.size
    BY <1>1 DEF HistoryKept, File
  <2>2. \A g \in Names : disk'[g] \in history'[g]
    BY <1>3, <1>4 DEF HistoryKept
  <2>3. QED
    BY <1>1, <1>2, <1>4, <2>1, <2>2 DEF HistoryKept
<1>7. current \in Names
  BY NamesAre DEF PreviewTypes, Names, LastScanned
<1>8. ReadingKept'
  <2>1. ASSUME place \in {"open", "read", "verify"}
        PROVE  initial \in history'[current] /\ initial # Nowhere
    BY <1>4, <1>7, <2>1 DEF ReadingKept
  <2>2. ASSUME place = "verify", disk'[current] = initial
        PROVE  disk[current] = initial
    <3>1. initial.revision <= 1 + fileChanges /\ initial.revision \in Nat /\ initial # Nowhere
      BY <1>7, <2>2 DEF ReadingKept, HistoryKept, File
    <3>2. d # initial
      BY <1>1, <1>2, <3>1
    <3>3. QED
      BY <1>3, <1>7, <2>2, <3>2
  <2>3. ReadLimit' = ReadLimit
    BY <1>1, ReadLimitKept
  <2>4. QED
    BY <1>1, <2>1, <2>2, <2>3 DEF ReadingKept
<1>9. EntriesAttested'
  BY <1>1, <1>4, EntriesKept
<1>10. PlacesKept'
  BY <1>1 DEF PlacesKept, AtFile, Listed, LastScanned, Previewed
<1>11. QED
  BY <1>5, <1>6, <1>8, <1>9, <1>10

\* The scan goes on with the file.
LEMMA ContinueStep ==
  ASSUME PreviewInv, AtFile, Unmoved, NEW to \in {"open", "read", "verify"},
         Continue(to), ReadingKept'
  PROVE  PreviewInv'
<1> USE DEF PreviewInv
<1>1. /\ place' = to
      /\ UNCHANGED <<named, namespaceValid, disk, fileChanges, history, current,
                     remainingBytes, bytesRead, payloads, preflight>>
  BY DEF Continue, Unmoved
<1>2. PreviewTypes' /\ HistoryKept'
  BY <1>1 DEF PreviewTypes, HistoryKept, LastScanned
<1>3. EntriesAttested'
  BY <1>1, EntriesKept
<1>4. PlacesKept'
  BY <1>1 DEF PlacesKept, AtFile, Listed, LastScanned, Previewed
<1>5. QED
  BY <1>2, <1>3, <1>4

\* An entry without bytes.
LEMMA EmptyEntry ==
  ASSUME PreviewInv, AtFile, NEW s \in {"missing", "unreadable", "aggregate_limit"},
         NEW of \in File, NEW v \in {"yes", "no", "none"},
         s = "aggregate_limit" => of \in history[current] /\ of # Nowhere
  PROVE  LET p == Entry(s, of, 0, v, FALSE)
         IN p \in EntryType /\ p.file = current /\ p.status = s /\ Attested(p)
<1>1. current \in Nat /\ MaxScanBytes \in Nat
  BY PreviewAssumption, NamesAre DEF PreviewInv, PreviewTypes, LastScanned
<1>2. QED
  BY <1>1 DEF Entry, EntryType, Scans, Attested, File

LEMMA FileThere ==
  ASSUME PreviewInv
  PROVE  /\ current \in Names /\ disk[current] \in File
         /\ disk[current] \in history[current]
         /\ remainingBytes \in Nat
<1>1. current \in Names
  BY NamesAre DEF PreviewInv, PreviewTypes, Names, LastScanned
<1>2. QED
  BY <1>1 DEF PreviewInv, PreviewTypes, HistoryKept

LEMMA PrepareStep ==
  ASSUME PreviewInv, PrepareScan
  PROVE  PreviewInv'
<1>1. AtFile /\ Unmoved
  BY DEF PrepareScan, AtFile
<1>2. Nowhere \in File /\ disk[current] \in File /\ disk[current] \in history[current]
  BY FileThere DEF Nowhere, File
<1>3. CASE disk[current] = Nowhere
  <2> DEFINE p == Entry("missing", Nowhere, 0, "none", FALSE)
  <2>1. p \in EntryType /\ p.file = current /\ p.status = "missing" /\ Attested(p)
    BY <1>1, <1>2, EmptyEntry
  <2>2. Conclusion(p, 0)
    BY <1>3 DEF PrepareScan
  <2> HIDE DEF p
  <2>3. QED
    BY <1>1, <2>1, <2>2, FileThere, ConclusionStep
<1>4. CASE disk[current] # Nowhere /\ remainingBytes = 0
  <2> DEFINE p == Entry("aggregate_limit", disk[current], 0, "none", FALSE)
  <2>1. p \in EntryType /\ p.file = current /\ Attested(p)
    BY <1>1, <1>2, <1>4, EmptyEntry
  <2>2. Conclusion(p, 0)
    BY <1>4 DEF PrepareScan
  <2> HIDE DEF p
  <2>3. QED
    BY <1>1, <1>4, <2>1, <2>2, FileThere, ConclusionStep
<1>5. CASE disk[current] # Nowhere /\ remainingBytes # 0
  <2>1. initial' = disk[current] /\ Continue("open")
    BY <1>5 DEF PrepareScan
  <2>2. ReadingKept'
    BY <1>1, <1>2, <1>5, <2>1 DEF ReadingKept, Continue, Unmoved
  <2>3. QED
    BY <1>1, <2>1, <2>2, ContinueStep
<1>6. QED
  BY <1>3, <1>4, <1>5

LEMMA OpenStep ==
  ASSUME PreviewInv, OpenScan
  PROVE  PreviewInv'
<1>1. AtFile /\ Unmoved /\ place = "open"
  BY DEF OpenScan, AtFile
<1>2. initial \in File /\ initial \in history[current] /\ initial # Nowhere
  BY <1>1, FileThere DEF PreviewInv, ReadingKept, HistoryKept
<1>3. ASSUME NEW v \in {"yes", "no", "none"},
             Conclusion(Entry("unreadable", initial, 0, v, FALSE), 0)
      PROVE  PreviewInv'
  <2> DEFINE p == Entry("unreadable", initial, 0, v, FALSE)
  <2>1. p \in EntryType /\ p.file = current /\ p.status = "unreadable" /\ Attested(p)
    BY <1>1, <1>2, EmptyEntry
  <2>2. Conclusion(p, 0)
    BY <1>3
  <2> HIDE DEF p
  <2>3. QED
    BY <1>1, <2>1, <2>2, FileThere, ConclusionStep
<1>4. CASE disk[current] = Nowhere \/ disk[current] # initial
  BY <1>3, <1>4 DEF OpenScan
<1>5. CASE disk[current] # Nowhere /\ disk[current] = initial
  <2>1. Continue("read") /\ UNCHANGED <<initial, data>>
    BY <1>5 DEF OpenScan
  <2>2. ReadingKept'
    BY <1>1, <1>2, <2>1 DEF ReadingKept, Continue, Unmoved
  <2>3. QED
    BY <1>1, <2>1, <2>2, ContinueStep
<1>6. QED
  BY <1>4, <1>5

LEMMA ReadStep ==
  ASSUME PreviewInv, ReadScan
  PROVE  PreviewInv'
<1>1. AtFile /\ Unmoved /\ place = "read" /\ Continue("verify") /\ initial' = initial
  BY DEF ReadScan, AtFile
<1>2. initial \in File /\ initial \in history[current] /\ initial # Nowhere
  BY <1>1, FileThere DEF PreviewInv, ReadingKept, HistoryKept
<1>3. ReadLimit \in Nat /\ ReadLimit <= initial.size
  BY <1>2, ReadLimitIs DEF PreviewInv
<1>4. PICK there \in {initial, disk[current]} \ {Nowhere} :
        LET n == Min({ReadLimit, there.size})
        IN data' = [bytes |-> n, secret |-> there.secret \in 1 .. n,
                    nul |-> there.nul \in 1 .. n]
  BY DEF ReadScan
<1>5. there \in File
  BY <1>2, FileThere
<1>6. PICK n \in Nat : /\ n = Min({ReadLimit, there.size})
                       /\ n <= ReadLimit
                       /\ ReadLimit <= there.size => n = ReadLimit
  BY <1>3, <1>5, MinOfTwo DEF File
<1>7. data' = [bytes |-> n, secret |-> there.secret \in 1 .. n, nul |-> there.nul \in 1 .. n]
  BY <1>4, <1>6
<1>8. /\ data'.bytes = n
      /\ data'.secret = (there.secret \in 1 .. n) /\ data'.secret \in BOOLEAN
      /\ data'.nul = (there.nul \in 1 .. n) /\ data'.nul \in BOOLEAN
  BY <1>7
<1>9. disk[current] = initial => there = initial /\ n = ReadLimit
  BY <1>3, <1>4, <1>6
<1>10. ReadLimit' = ReadLimit
  BY <1>1, ReadLimitKept DEF Continue
<1>11. ReadingKept'
  <2>1. initial' \in history'[current'] /\ initial' # Nowhere /\ disk' = disk /\ current' = current
    BY <1>1, <1>2 DEF Continue, Unmoved
  <2>2. data'.bytes \in 0 .. ReadLimit'
    BY <1>3, <1>6, <1>8, <1>10
  <2>3. QED
    BY <1>1, <1>8, <1>9, <1>10, <2>1, <2>2 DEF ReadingKept
<1>12. QED
  BY <1>1, <1>11, ContinueStep

LEMMA ReadFailsStep ==
  ASSUME PreviewInv, ReadFails
  PROVE  PreviewInv'
<1>1. AtFile /\ Unmoved /\ place = "read"
  BY DEF ReadFails, AtFile
<1>2. initial \in File
  BY <1>1, FileThere DEF PreviewInv, ReadingKept, HistoryKept
<1> DEFINE p == Entry("unreadable", initial, 0, "no", FALSE)
<1>3. p \in EntryType /\ p.file = current /\ p.status = "unreadable" /\ Attested(p)
  BY <1>1, <1>2, EmptyEntry
<1>4. Conclusion(p, 0)
  BY DEF ReadFails
<1> HIDE DEF p
<1>5. QED
  BY <1>1, <1>3, <1>4, FileThere, ConclusionStep

\* What verify_opened_file and the bytes say of a file that did not change.
LEMMA ScannedEntry ==
  ASSUME PreviewInv, place = "verify", disk[current] = initial,
         NEW v \in {"yes", "no"}, ~data.nul
  PROVE  LET p == Entry(Status, initial, data.bytes, v, data.secret)
         IN /\ p \in EntryType /\ p.file = current /\ Attested(p)
            /\ p.status = "aggregate_limit" => data.bytes = remainingBytes
<1> USE DEF PreviewInv
<1>1. /\ initial \in File /\ initial \in history[current] /\ initial # Nowhere
      /\ initial.secret <= initial.size /\ initial.nul <= initial.size
  BY FileThere DEF ReadingKept, HistoryKept
<1>2. /\ data.bytes = ReadLimit
      /\ data.secret \in BOOLEAN
      /\ data.secret <=> initial.secret \in 1 .. data.bytes
      /\ initial.nul \notin 1 .. data.bytes
  BY DEF ReadingKept
<1>3. /\ ReadLimit \in Nat /\ ScanLimit \in Nat
      /\ current # 0 => ScanLimit = MaxScanBytes
      /\ ReadLimit \in {initial.size, ScanLimit, remainingBytes}
      /\ ReadLimit <= initial.size /\ ReadLimit <= ScanLimit
  BY <1>1, ReadLimitIs
<1>4. initial.size \in Nat /\ initial.nul \in Nat /\ initial.revision \in Nat
  BY <1>1 DEF File
<1>5. /\ Status \in {"scanned", "truncated", "aggregate_limit"}
      /\ Status = "scanned" => ReadLimit = initial.size
      /\ Status = "aggregate_limit" => ReadLimit = remainingBytes
      /\ Status = "truncated" => ReadLimit = ScanLimit /\ ReadLimit < initial.size
  BY <1>3, <1>4 DEF Status
<1>6. Status = "scanned" => data.bytes = initial.size /\ initial.nul = 0
  BY <1>1, <1>2, <1>4, <1>5
<1>7. /\ current \in Nat /\ (current # 0 => data.bytes <= MaxScanBytes)
      /\ current # 0 /\ Status = "truncated" =>
           data.bytes = MaxScanBytes /\ MaxScanBytes < initial.size
  BY <1>2, <1>3, <1>5, NamesAre DEF PreviewTypes, LastScanned
<1> DEFINE p == Entry(Status, initial, data.bytes, v, data.secret)
<1>8. /\ p.file = current /\ p.status = Status /\ p.revision = initial.revision
      /\ p.scanned = data.bytes /\ p.found = data.secret
      /\ p \in EntryType
  BY <1>2, <1>3, <1>4, <1>5, <1>7 DEF Entry, EntryType, Scans
<1> HIDE DEF p
<1>9. p.found \/ initial.secret \notin 1 .. p.scanned
  BY <1>2, <1>8
<1>10. Attested(p)
  BY <1>1, <1>5, <1>6, <1>7, <1>8, <1>9 DEF Attested, Scans
<1>11. QED
  BY <1>2, <1>5, <1>8, <1>10 DEF p

LEMMA BinaryEntry ==
  ASSUME PreviewInv, place = "verify", disk[current] = initial, data.nul,
         NEW v \in {"yes", "no"}
  PROVE  LET p == Entry("skipped_binary", initial, 0, v, FALSE)
         IN p \in EntryType /\ p.file = current /\ p.status = "skipped_binary" /\ Attested(p)
<1> USE DEF PreviewInv
<1>1. initial \in File /\ initial \in history[current] /\ initial # Nowhere
  BY FileThere DEF ReadingKept, HistoryKept
<1>2. current \in Nat /\ MaxScanBytes \in Nat
  BY PreviewAssumption, NamesAre DEF PreviewTypes, LastScanned
<1>3. data.bytes = ReadLimit /\ initial.nul \in 1 .. data.bytes
  BY DEF ReadingKept
<1>4. ReadLimit \in Nat /\ (current # 0 => ReadLimit <= MaxScanBytes)
  BY <1>1, ReadLimitIs
<1>5. current # 0 => initial.nul \in 1 .. MaxScanBytes
  BY <1>1, <1>2, <1>3, <1>4 DEF File
<1>6. QED
  BY <1>1, <1>2, <1>5 DEF Entry, EntryType, Scans, Attested, File

LEMMA VerifyStep ==
  ASSUME PreviewInv, VerifyScan
  PROVE  PreviewInv'
<1>1. AtFile /\ Unmoved /\ place = "verify"
  BY DEF VerifyScan, AtFile
<1>2. initial \in File
  BY <1>1, FileThere DEF PreviewInv, ReadingKept, HistoryKept
<1>3. data.bytes \in Nat /\ data.bytes <= remainingBytes
  <2>1. ReadLimit \in Nat /\ ReadLimit <= remainingBytes /\ remainingBytes \in Nat
    BY <1>2, FileThere, ReadLimitIs DEF PreviewInv
  <2>2. data.bytes \in 0 .. ReadLimit
    BY <1>1 DEF PreviewInv, ReadingKept
  <2>3. QED
    BY <2>1, <2>2
<1>4. ASSUME NEW p \in EntryType, p.file = current, Attested(p), Conclusion(p, data.bytes),
             p.status = "aggregate_limit" => data.bytes = remainingBytes
      PROVE  PreviewInv'
  BY <1>1, <1>3, <1>4, ConclusionStep
<1>5. ASSUME NEW v \in {"yes", "no"},
             Conclusion(Entry("unreadable", initial, 0, v, FALSE), data.bytes)
      PROVE  PreviewInv'
  <2> DEFINE p == Entry("unreadable", initial, 0, v, FALSE)
  <2>1. p \in EntryType /\ p.file = current /\ p.status = "unreadable" /\ Attested(p)
    BY <1>1, <1>2, EmptyEntry
  <2>2. Conclusion(p, data.bytes)
    BY <1>5
  <2> HIDE DEF p
  <2>3. QED
    BY <1>4, <2>1, <2>2
<1>6. CASE Conclusion(Entry("unreadable", initial, 0, "no", FALSE), data.bytes)
  BY <1>5, <1>6
<1>7. ASSUME Unchanged,
             \E v \in {"yes", "no"} :
               Conclusion(IF data.bytes < ReadLimit
                          THEN Entry("unreadable", initial, 0, v, FALSE)
                          ELSE IF data.nul
                          THEN Entry("skipped_binary", initial, 0, v, FALSE)
                          ELSE Entry(Status, initial, data.bytes, v, data.secret),
                          data.bytes)
      PROVE  PreviewInv'
  <2>1. PICK v \in {"yes", "no"} :
          Conclusion(IF data.bytes < ReadLimit
                     THEN Entry("unreadable", initial, 0, v, FALSE)
                     ELSE IF data.nul
                     THEN Entry("skipped_binary", initial, 0, v, FALSE)
                     ELSE Entry(Status, initial, data.bytes, v, data.secret),
                     data.bytes)
    BY <1>7
  <2>2. CASE data.bytes < ReadLimit
    BY <1>5, <2>1, <2>2
  <2>3. CASE ~(data.bytes < ReadLimit) /\ data.nul
    <3> DEFINE p == Entry("skipped_binary", initial, 0, v, FALSE)
    <3>1. p \in EntryType /\ p.file = current /\ p.status = "skipped_binary" /\ Attested(p)
      BY <1>1, <1>7, <2>3, BinaryEntry DEF Unchanged
    <3>2. Conclusion(p, data.bytes)
      BY <2>1, <2>3
    <3> HIDE DEF p
    <3>3. QED
      BY <1>4, <3>1, <3>2
  <2>4. CASE ~(data.bytes < ReadLimit) /\ ~data.nul
    <3> DEFINE p == Entry(Status, initial, data.bytes, v, data.secret)
    <3>1. /\ p \in EntryType /\ p.file = current /\ Attested(p)
          /\ p.status = "aggregate_limit" => data.bytes = remainingBytes
      BY <1>1, <1>7, <2>4, ScannedEntry DEF Unchanged
    <3>2. Conclusion(p, data.bytes)
      BY <2>1, <2>4
    <3> HIDE DEF p
    <3>3. QED
      BY <1>4, <3>1, <3>2
  <2>5. QED
    BY <2>2, <2>3, <2>4
<1>8. QED
  BY <1>6, <1>7 DEF VerifyScan

-----------------------------------------------------------------------------
(* The manifest and the summary.                                           *)

LEMMA RejectStep ==
  ASSUME PreviewInv, RejectTrace
  PROVE  PreviewInv'
<1>1. /\ place' = "gate" /\ preflight' = "error"
      /\ UNCHANGED <<named, namespaceValid, disk, fileChanges, history, current,
                     remainingBytes, bytesRead, payloads>>
  BY DEF RejectTrace, Abort, Unmoved
<1>2. PreviewTypes' /\ HistoryKept' /\ ReadingKept'
  BY <1>1 DEF PreviewInv, PreviewTypes, HistoryKept, ReadingKept, LastScanned
<1>3. EntriesAttested'
  BY <1>1, EntriesKept
<1>4. PlacesKept'
  BY <1>1 DEF PlacesKept, AtFile, Previewed
<1>5. QED
  BY <1>2, <1>3, <1>4 DEF PreviewInv

\* Entries for no file of the run leave what is said of its files.
LEMMA ExtraType ==
  ASSUME NEW f \in Nat, NEW s \in Scans \cup {"file_limit", "unsafe_path"}, NEW n \in Nat
  PROVE  /\ Extra(f, s, n) \in EntryType
         /\ Extra(f, s, n).file = f /\ Extra(f, s, n).status = s
<1>1. Extra(f, s, n) = [file |-> f, status |-> s, size |-> 0, revision |-> 0,
                        scanned |-> n, verified |-> "none", found |-> FALSE]
  <2>1. Nowhere.size = 0 /\ Nowhere.revision = 0
    BY DEF Nowhere
  <2>2. PICK e : e = Entry(s, Nowhere, n, "none", FALSE)
    OBVIOUS
  <2>3. e = [file |-> current, status |-> s, size |-> 0, revision |-> 0,
             scanned |-> n, verified |-> "none", found |-> FALSE]
    BY <2>1, <2>2 DEF Entry
  <2>4. Extra(f, s, n) = [e EXCEPT !.file = f]
    BY <2>2 DEF Extra
  <2>5. QED
    BY <2>3, <2>4
<1>2. QED
  BY <1>1 DEF EntryType

LEMMA MoreEntries ==
  ASSUME PreviewInv, NEW more \in Seq(EntryType), payloads' = payloads \o more,
         \A j \in DOMAIN more : more[j].file \notin Names,
         UNCHANGED history, remainingBytes = 0 => remainingBytes' = 0
  PROVE  /\ payloads' \in Seq(EntryType)
         /\ Len(payloads) \in Nat /\ Len(more) \in Nat
         /\ Len(payloads') = Len(payloads) + Len(more)
         /\ DOMAIN payloads = 1 .. Len(payloads)
         /\ DOMAIN payloads' = 1 .. Len(payloads')
         /\ \A j \in 1 .. Len(more) : payloads'[Len(payloads) + j] = more[j]
         /\ \A n \in Int : Listed(n) => Listed(n)'
         /\ EntriesAttested'
<1>1. payloads \in Seq(EntryType)
  BY DEF PreviewInv, PreviewTypes
<1>2. /\ Len(payloads) \in Nat /\ Len(more) \in Nat
      /\ DOMAIN payloads = 1 .. Len(payloads) /\ DOMAIN more = 1 .. Len(more)
  BY <1>1, LenProperties
<1>3. /\ payloads' \in Seq(EntryType)
      /\ Len(payloads') = Len(payloads) + Len(more)
      /\ \A i \in 1 .. Len(payloads) + Len(more) :
           payloads'[i] = IF i <= Len(payloads) THEN payloads[i] ELSE more[i - Len(payloads)]
  BY <1>1, ConcatProperties
<1>4. DOMAIN payloads' = 1 .. Len(payloads')
  BY <1>3, LenProperties
<1>5. \A i \in 1 .. Len(payloads) : payloads'[i] = payloads[i] /\ i \in DOMAIN payloads'
  BY <1>2, <1>3, <1>4
<1>6. \A j \in 1 .. Len(more) : payloads'[Len(payloads) + j] = more[j]
  BY <1>2, <1>3
<1>7. ASSUME NEW n \in Int, Listed(n)
      PROVE  Listed(n)'
  BY <1>2, <1>5, <1>7 DEF Listed
<1>8. ASSUME NEW i \in DOMAIN payloads', payloads'[i].file \in Names
      PROVE  /\ Attested(payloads[i])'
             /\ (payloads[i].status = "aggregate_limit")' => remainingBytes' = 0
  <2>1. i \in 1 .. Len(payloads)
    <3>1. CASE i > Len(payloads)
      <4>1. i - Len(payloads) \in 1 .. Len(more)
        BY <1>2, <1>3, <1>4, <3>1
      <4>2. payloads'[i] = more[i - Len(payloads)]
        BY <1>2, <1>3, <1>4, <3>1
      <4>3. QED
        BY <1>2, <1>8, <4>1, <4>2
    <3>2. QED
      BY <1>2, <1>3, <1>4, <3>1
  <2>2. PICK p : p = payloads[i] /\ p = payloads'[i]
    BY <1>5, <2>1
  <2>3. Attested(p) /\ (p.status = "aggregate_limit" => remainingBytes = 0)
    BY <1>2, <1>8, <2>1, <2>2 DEF PreviewInv, EntriesAttested
  <2>4. Attested(p)'
    BY <2>3, AttestedKept
  <2>5. Attested(payloads[i])'
    BY <2>2, <2>4 DEF Attested
  <2>6. QED
    BY <2>2, <2>3, <2>5
<1>9. EntriesAttested'
  BY <1>8 DEF EntriesAttested
<1>10. QED
  BY <1>2, <1>3, <1>4, <1>6, <1>7, <1>9

LEMMA ManifestStep ==
  ASSUME PreviewInv, ScanManifest
  PROVE  PreviewInv'
<1> USE DEF PreviewInv
<1>1. remainingBytes \in Nat /\ ManifestBytes \in Nat
  BY PreviewAssumption DEF PreviewTypes
<1>2. PICK n \in Nat : n = Min({ManifestBytes, remainingBytes}) /\ n <= remainingBytes
  BY <1>1, MinOfTwo
<1>3. PICK p \in EntryType :
        /\ p = Extra(ManifestFile, IF n = ManifestBytes THEN "scanned"
                                   ELSE "aggregate_limit", n)
        /\ p.file = ManifestFile
  BY NamesAre, ExtraType DEF Scans
<1>4. /\ place = "manifest"
      /\ payloads' = Append(payloads, p)
      /\ remainingBytes' = remainingBytes - n
      /\ \/ named = 0 /\ place' = "sum" /\ current' = current
         \/ named # 0 /\ place' = "prepare" /\ current' = 1
      /\ UNCHANGED <<named, namespaceValid, disk, fileChanges, history, bytesRead>>
  BY <1>2, <1>3 DEF ScanManifest, Unmoved
<1>5. payloads \in Seq(EntryType)
  BY DEF PreviewTypes
<1>6. /\ payloads' \in Seq(EntryType)
      /\ Len(payloads) = 1 /\ Len(payloads') = 2 /\ Listed(0)' /\ current = 0
  <2>1. Listed(0) /\ Len(payloads) = 1 /\ current = 0
    BY <1>4 DEF PlacesKept
  <2>2. QED
    BY <1>4, <1>5, <2>1, AppendEntry, ListedMore
<1>7. LastScanned' = LastScanned /\ (named # 0 => LastScanned >= 1)
      /\ (named = 0 => LastScanned = 0)
  BY <1>4, PreviewAssumption, NamesAre DEF LastScanned, PreviewTypes
<1>8. PreviewTypes'
  <2>1. current' \in 0 .. LastScanned'
    BY <1>4, <1>6, <1>7, NextPlaceIs
  <2>2. /\ remainingBytes' \in Nat
        /\ bytesRead' + remainingBytes' <= MaxTotalBytes
    BY <1>1, <1>2, <1>4, PreviewAssumption DEF PreviewTypes
  <2>3. QED
    BY <1>4, <1>6, <2>1, <2>2 DEF PreviewTypes
<1>9. HistoryKept' /\ ReadingKept'
  BY <1>4 DEF HistoryKept, ReadingKept
<1>10. EntriesAttested'
  <2>1. payloads' = payloads \o <<p>>
    BY <1>4, <1>5
  <2>2. <<p>> \in Seq(EntryType) /\ \A j \in DOMAIN <<p>> : <<p>>[j].file \notin Names
    BY <1>3, NamesAre
  <2>3. remainingBytes = 0 => remainingBytes' = 0
    BY <1>1, <1>2, <1>4
  <2>4. QED
    BY <1>4, <2>1, <2>2, <2>3, MoreEntries
<1>11. PlacesKept'
  <2>1. CASE named = 0 /\ place' = "sum"
    <3>1. Listed(LastScanned)' /\ Len(payloads') = LastScanned' + 2
      BY <1>6, <1>7, <2>1 DEF Listed
    <3>2. QED
      BY <2>1, <3>1 DEF PlacesKept, AtFile, Previewed
  <2>2. CASE place' = "prepare" /\ current' = 1
    <3>1. Listed(current - 1)' /\ Len(payloads') = current' + 1
      BY <1>6, <2>2 DEF Listed
    <3>2. QED
      BY <2>2, <3>1 DEF PlacesKept, AtFile, Previewed
  <2>3. QED
    BY <1>4, <2>1, <2>2
<1>12. QED
  BY <1>8, <1>9, <1>10, <1>11

LEMMA SummaryStep ==
  ASSUME PreviewInv, Summarize
  PROVE  PreviewInv'
<1> USE DEF PreviewInv
<1> DEFINE limited == named > MaxArtifacts
           beyond == IF limited THEN <<Extra(Nameless, "file_limit", 0)>> ELSE <<>>
           unsafe == IF namespaceValid THEN <<>> ELSE <<Extra(Nameless, "unsafe_path", 0)>>
           more == beyond \o unsafe
<1>1. /\ place = "sum" /\ place' = "gate"
      /\ payloads' = payloads \o more
      /\ preflight' = IF \E p \in Range(payloads') : p.status \in Blocking THEN "blocked"
                      ELSE IF limited THEN "unknown" ELSE "ready"
      /\ UNCHANGED <<named, namespaceValid, disk, fileChanges, history, current,
                     remainingBytes, bytesRead>>
  BY DEF Summarize, Unmoved
<1>2. PICK b \in EntryType : b = Extra(Nameless, "file_limit", 0) /\ b.file \notin Names
  BY NamesAre, ExtraType
<1>3. PICK u \in EntryType : /\ u = Extra(Nameless, "unsafe_path", 0)
                             /\ u.file \notin Names /\ u.status = "unsafe_path"
  BY NamesAre, ExtraType
<1>4. \/ limited /\ namespaceValid /\ more = <<b>>
      \/ limited /\ ~namespaceValid /\ more = <<b>> \o <<u>>
      \/ ~limited /\ namespaceValid /\ more = <<>>
      \/ ~limited /\ ~namespaceValid /\ more = <<u>>
  <2>1. <<b>> \o <<>> = <<b>> /\ <<>> \o <<u>> = <<u>> /\ <<>> \o <<>> = <<>>
    <3>1. <<b>> \in Seq(EntryType) /\ <<u>> \in Seq(EntryType)
      OBVIOUS
    <3>2. QED
      BY <3>1, ConcatEmptySeq
  <2>2. beyond = IF limited THEN <<b>> ELSE <<>>
    BY <1>2
  <2>3. unsafe = IF namespaceValid THEN <<>> ELSE <<u>>
    BY <1>3
  <2> HIDE DEF beyond, unsafe, limited
  <2>4. QED
    BY <2>1, <2>2, <2>3
<1> HIDE DEF more, beyond, unsafe
<1>5. more \in Seq(EntryType) /\ \A j \in DOMAIN more : more[j].file \notin Names
  <2>1. CASE more = <<b>> \o <<u>>
    <3>1. PICK x \in Seq(EntryType), y \in Seq(EntryType) :
            /\ more = x \o y
            /\ Len(x) = 1 /\ x[1] = b /\ Len(y) = 1 /\ y[1] = u
      BY <2>1
    <3>2. /\ more \in Seq(EntryType) /\ Len(more) = 2
          /\ more[1] = b /\ more[2] = u
      BY <3>1, ConcatProperties
    <3>3. DOMAIN more = {1, 2}
      BY <3>2, LenProperties
    <3>4. QED
      BY <1>2, <1>3, <3>2, <3>3
  <2>2. CASE more = <<b>> \/ more = <<u>>
    <3>1. PICK e \in {b, u} : more = <<e>>
      BY <2>2
    <3>2. e \in EntryType /\ e.file \notin Names
      BY <1>2, <1>3
    <3>3. DOMAIN more = {1} /\ more[1] = e /\ more \in Seq(EntryType)
      BY <3>1, <3>2
    <3>4. QED
      BY <3>2, <3>3
  <2>3. CASE more = <<>>
    BY <2>3
  <2>4. QED
    BY <1>4, <2>1, <2>2, <2>3
<1>6. /\ payloads' \in Seq(EntryType)
      /\ Len(payloads) \in Nat /\ Len(more) \in Nat
      /\ Len(payloads') = Len(payloads) + Len(more)
      /\ DOMAIN payloads' = 1 .. Len(payloads')
      /\ \A j \in 1 .. Len(more) : payloads'[Len(payloads) + j] = more[j]
      /\ \A n \in Int : Listed(n) => Listed(n)'
      /\ EntriesAttested'
  BY <1>1, <1>5, MoreEntries
<1>7. PreviewTypes' /\ HistoryKept' /\ ReadingKept'
  BY <1>1, <1>6 DEF PreviewTypes, HistoryKept, ReadingKept, LastScanned
<1>8. PICK l \in Nat : l = LastScanned /\ l = LastScanned'
  BY <1>1, NextPlaceIs DEF LastScanned
<1>9. Listed(LastScanned)'
  <2>1. Listed(l)
    BY <1>1, <1>8 DEF PlacesKept
  <2>2. Listed(l)'
    BY <1>6, <2>1
  <2>3. QED
    BY <1>8, <2>2
<1>10. ASSUME preflight' = "ready"
       PROVE  /\ named' <= MaxArtifacts /\ namespaceValid'
              /\ \A i \in DOMAIN payloads' : payloads'[i].status \notin Blocking
              /\ Len(payloads') = named' + 2
  <2>1. ~limited /\ \A i \in DOMAIN payloads' : payloads'[i].status \notin Blocking
    BY <1>1, <1>10 DEF Range
  <2>2. namespaceValid
    <3>1. CASE more = <<u>>
      <4>1. payloads'[Len(payloads) + 1] = u /\ Len(payloads) + 1 \in DOMAIN payloads'
        BY <1>6, <3>1
      <4>2. QED
        BY <1>3, <2>1, <4>1 DEF Blocking
    <3>2. QED
      BY <1>4, <2>1, <3>1
  <2>3. more = <<>>
    BY <1>4, <2>1, <2>2
  <2>4. named \in Nat /\ MaxArtifacts \in Nat
    BY NamesAre, PreviewAssumption DEF PreviewTypes
  <2>5. LastScanned = named /\ Len(payloads) = LastScanned + 2
    BY <1>1, <2>1, <2>4 DEF PlacesKept, LastScanned
  <2>6. Len(more) = 0
    BY <2>3
  <2>7. QED
    BY <1>1, <1>6, <2>1, <2>2, <2>4, <2>5, <2>6
<1>11. PlacesKept'
  BY <1>1, <1>9, <1>10 DEF PlacesKept, AtFile, Previewed
<1>12. QED
  BY <1>6, <1>7, <1>11

LEMMA PreviewInitially == PreviewInit => PreviewInv
<1> SUFFICES ASSUME PreviewInit PROVE PreviewInv
  OBVIOUS
<1>1. /\ named \in ArtifactCounts /\ namespaceValid \in BOOLEAN
      /\ disk \in [Names -> {Artifact(s) : s \in Shapes} \cup {Nowhere}]
      /\ fileChanges = 0 /\ place = "prepare" /\ current = 0
      /\ remainingBytes = MaxTotalBytes /\ bytesRead = 0 /\ payloads = <<>>
      /\ history = [f \in Names |-> {disk[f]}]
  BY DEF PreviewInit, PreviewStart
<1>2. named \in 0 .. MaxNamed /\ LastScanned \in Nat
  BY <1>1, NamesAre, CountsAssumption, PreviewAssumption DEF LastScanned
<1>3. \A d \in {Artifact(s) : s \in Shapes} \cup {Nowhere} :
        d \in File /\ d.revision <= 1 /\ d.secret <= d.size /\ d.nul <= d.size
  <2>1. ASSUME NEW s \in Shapes
        PROVE  /\ Artifact(s) \in File /\ Artifact(s).revision <= 1
               /\ Artifact(s).secret <= Artifact(s).size /\ Artifact(s).nul <= Artifact(s).size
    <3>1. s.size \in Nat /\ s.secret \in 0 .. s.size /\ s.nul \in 0 .. s.size
      BY ShapesAssumption
    <3>2. QED
      BY <3>1 DEF Artifact, File
  <2>2. /\ Nowhere \in File /\ Nowhere.revision <= 1
        /\ Nowhere.secret <= Nowhere.size /\ Nowhere.nul <= Nowhere.size
    BY DEF Nowhere, File
  <2>3. QED
    BY <2>1, <2>2
<1>4. PreviewTypes
  <2>1. disk \in [Names -> File]
    BY <1>1, <1>3
  <2>2. QED
    BY <1>1, <1>2, <2>1, PreviewAssumption DEF PreviewTypes
<1>5. HistoryKept
  BY <1>1, <1>3 DEF HistoryKept
<1>6. ReadingKept /\ EntriesAttested
  BY <1>1 DEF ReadingKept, EntriesAttested
<1>7. PlacesKept
  BY <1>1 DEF PlacesKept, AtFile, Listed, Previewed
<1>8. QED
  BY <1>4, <1>5, <1>6, <1>7 DEF PreviewInv

LEMMA PreviewInvariance == PreviewSpec => []PreviewInv
<1>1. ASSUME PreviewInv, UNCHANGED previewVars
      PROVE  PreviewInv'
  <2>1. UNCHANGED <<named, namespaceValid, disk, fileChanges, place, current, initial, data,
                    remainingBytes, bytesRead, payloads, preflight, history>>
    BY <1>1 DEF previewVars
  <2>2. PreviewTypes' /\ HistoryKept'
    BY <1>1, <2>1 DEF PreviewInv, PreviewTypes, HistoryKept, LastScanned
  <2>3. ReadLimit' = ReadLimit
    BY <2>1, ReadLimitKept
  <2>4. ReadingKept'
    BY <1>1, <2>1, <2>3 DEF PreviewInv, ReadingKept
  <2>5. EntriesAttested'
    BY <1>1, <2>1, EntriesKept
  <2>6. PlacesKept'
    BY <1>1, <2>1 DEF PreviewInv, PlacesKept, AtFile, Listed, LastScanned, Previewed
  <2>7. QED
    BY <2>2, <2>4, <2>5, <2>6 DEF PreviewInv
<1>2. PreviewInv /\ [PreviewNext]_previewVars => PreviewInv'
  BY <1>1, ChangeStep, PrepareStep, OpenStep, ReadStep, ReadFailsStep, VerifyStep, RejectStep,
     ManifestStep, SummaryStep
  DEF PreviewNext
<1>3. QED
  BY <1>2, PreviewInitially, PTL DEF PreviewSpec

-----------------------------------------------------------------------------
(* The gate.                                                               *)

\* What a gate without reasons says of the entries.
LEMMA GatePassed ==
  ASSUME NEW allow \in BOOLEAN, GateReasons(allow) = {}
  PROVE  /\ preflight = "ready"
         /\ \A i \in DOMAIN payloads : ~payloads[i].found
         /\ ~allow => \A i \in DOMAIN payloads : payloads[i].status = "scanned"
<1>1. /\ "export_blocked" \notin GateReasons(allow)
      /\ "gating_findings" \notin GateReasons(allow)
      /\ "incomplete_scan" \notin GateReasons(allow)
  OBVIOUS
<1>2. preflight = "ready"
  BY <1>1 DEF GateReasons
<1>3. \A i \in DOMAIN payloads : ~payloads[i].found
  BY <1>1 DEF GateReasons, Range
<1>4. ~allow => ScanCompleteFor(payloads)
  BY <1>1 DEF GateReasons
<1>5. QED
  BY <1>2, <1>3, <1>4 DEF ScanCompleteFor, Range

LEMMA PassedMeans ==
  ASSUME PreviewInv, Previewed, NEW allow \in BOOLEAN, GateReasons(allow) = {}
  PROVE  /\ named \in Nat /\ named <= MaxArtifacts /\ namespaceValid
         /\ Len(payloads) = named + 2
         /\ \A f \in 0 .. named : \E i \in DOMAIN payloads, h \in history[f] :
              /\ payloads[i].file = f /\ f \in Names
              /\ payloads[i].revision = h.revision /\ h # Nowhere
              /\ f # 0 => AsFarAsAllowed(payloads[i], h)
              /\ h.secret \notin 1 .. payloads[i].scanned
              /\ ~allow => payloads[i].scanned = h.size /\ h.nul = 0
<1> USE DEF PreviewInv
<1>1. /\ preflight = "ready"
      /\ \A i \in DOMAIN payloads : ~payloads[i].found
      /\ ~allow => \A i \in DOMAIN payloads : payloads[i].status = "scanned"
  BY GatePassed
<1>2. /\ named <= MaxArtifacts /\ namespaceValid /\ Len(payloads) = named + 2
      /\ Listed(LastScanned)
      /\ \A i \in DOMAIN payloads : payloads[i].status \notin Blocking
  BY <1>1 DEF PlacesKept
<1>3. named \in Nat /\ named <= MaxNamed /\ LastScanned = named
  BY <1>2, NamesAre DEF PreviewTypes, LastScanned
<1>4. ASSUME NEW f \in 0 .. named
      PROVE  \E i \in DOMAIN payloads, h \in history[f] :
               /\ payloads[i].file = f /\ f \in Names
               /\ payloads[i].revision = h.revision /\ h # Nowhere
               /\ f # 0 => AsFarAsAllowed(payloads[i], h)
               /\ h.secret \notin 1 .. payloads[i].scanned
               /\ ~allow => payloads[i].scanned = h.size /\ h.nul = 0
  <2>1. f \in Names
    BY <1>3, NamesAre DEF Names
  <2>2. PICK i \in DOMAIN payloads : payloads[i].file = f
    BY <1>2, <1>3 DEF Listed
  <2>3. PICK p : p = payloads[i]
    OBVIOUS
  <2>4. /\ Attested(p) /\ (p.status = "aggregate_limit" => remainingBytes = 0)
        /\ p.file = f /\ ~p.found /\ p.status \notin Blocking
        /\ ~allow => p.status = "scanned"
    BY <1>1, <1>2, <2>1, <2>2, <2>3 DEF EntriesAttested
  <2>5. p.status \in {"truncated", "skipped_binary", "scanned", "aggregate_limit"}
    BY <2>4 DEF Attested, Scans, Blocking
  <2>6. PICK h \in history[f] :
          /\ h # Nowhere /\ p.revision = h.revision
          /\ h.secret \notin 1 .. p.scanned
          /\ p.status = "scanned" => p.scanned = h.size /\ h.nul = 0
          /\ f # 0 /\ p.status = "truncated" =>
               p.scanned = MaxScanBytes /\ MaxScanBytes < h.size
          /\ f # 0 /\ p.status = "skipped_binary" =>
               p.scanned = 0 /\ h.nul \in 1 .. MaxScanBytes
    BY <2>4, <2>5 DEF Attested
  <2>7. f # 0 => p.scanned <= MaxScanBytes
    BY <2>4 DEF Attested
  <2>8. f # 0 => AsFarAsAllowed(p, h)
    BY <2>4, <2>5, <2>6, <2>7 DEF AsFarAsAllowed
  <2>9. QED
    BY <2>1, <2>2, <2>3, <2>4, <2>6, <2>8
<1>5. QED
  BY <1>2, <1>3, <1>4

(* A strict gate that passes has seen each file of the run whole, in a     *)
(* revision that was there during the preview, without a secret: for any   *)
(* artifacts, limits and number of changes by the user meanwhile.          *)
THEOREM StrictGateSawAll == PreviewSpec => []PassedGateSawAll
<1>1. PreviewInv => PassedGateSawAll
  <2> SUFFICES ASSUME PreviewInv, Previewed, GateReasons(FALSE) = {}
               PROVE  /\ named <= MaxArtifacts /\ namespaceValid /\ Len(payloads) = named + 2
                      /\ \A f \in 0 .. named :
                           \E p \in Range(payloads), h \in history[f] :
                             /\ p.file = f /\ p.revision = h.revision /\ p.scanned = h.size
                             /\ h # Nowhere /\ h.secret = 0 /\ h.nul = 0
    BY DEF PassedGateSawAll
  <2>1. named <= MaxArtifacts /\ namespaceValid /\ Len(payloads) = named + 2
    BY PassedMeans
  <2>2. ASSUME NEW f \in 0 .. named
        PROVE  \E p \in Range(payloads), h \in history[f] :
                 /\ p.file = f /\ p.revision = h.revision /\ p.scanned = h.size
                 /\ h # Nowhere /\ h.secret = 0 /\ h.nul = 0
    <3>1. PICK i \in DOMAIN payloads, h \in history[f] :
            /\ payloads[i].file = f /\ f \in Names
            /\ payloads[i].revision = h.revision /\ h # Nowhere
            /\ h.secret \notin 1 .. payloads[i].scanned
            /\ payloads[i].scanned = h.size /\ h.nul = 0
      <4>1. PICK allow \in BOOLEAN : allow = FALSE
        OBVIOUS
      <4>2. GateReasons(allow) = {} /\ ~allow
        BY <4>1
      <4>3. QED
        BY <2>2, <4>2, PassedMeans
    <3>2. h \in File /\ h.secret <= h.size
      BY <3>1 DEF PreviewInv, HistoryKept
    <3>3. h.secret = 0
      BY <3>1, <3>2 DEF File
    <3>4. payloads[i] \in Range(payloads)
      BY DEF Range
    <3>5. QED
      BY <3>1, <3>3, <3>4
  <2>3. QED
    BY <2>1, <2>2
<1>2. QED
  BY <1>1, PreviewInvariance, PTL

(* Forgiving an incomplete scan forgives limits and binary content only:   *)
(* for all limits, what a passing gate scanned as text of each artifact    *)
(* reaches as far as the limits let it and holds no secret, and the bytes  *)
(* it charged stay within the budget.                                      *)
THEOREM ForgivenScanKeepsLimits == PreviewSpec => []ForgivenScanIsBounded
<1>1. PreviewInv => ForgivenScanIsBounded
  <2> SUFFICES ASSUME PreviewInv PROVE ForgivenScanIsBounded
    OBVIOUS
  <2>1. bytesRead <= MaxTotalBytes
    BY PreviewAssumption DEF PreviewInv, PreviewTypes
  <2>2. ASSUME Previewed, GateReasons(TRUE) = {}, NEW f \in 1 .. named
        PROVE  \E p \in Range(payloads), h \in history[f] :
                 /\ p.file = f /\ h # Nowhere /\ p.revision = h.revision
                 /\ AsFarAsAllowed(p, h)
                 /\ h.secret \notin 1 .. p.scanned
    <3>1. f \in 0 .. named /\ f # 0
      <4>1. named \in Nat
        BY NamesAre DEF PreviewInv, PreviewTypes
      <4>2. QED
        BY <2>2, <4>1
    <3>2. PICK i \in DOMAIN payloads, h \in history[f] :
            /\ payloads[i].file = f /\ f \in Names
            /\ payloads[i].revision = h.revision /\ h # Nowhere
            /\ AsFarAsAllowed(payloads[i], h)
            /\ h.secret \notin 1 .. payloads[i].scanned
      BY <2>2, <3>1, PassedMeans
    <3>3. payloads[i] \in Range(payloads)
      BY DEF Range
    <3>4. QED
      BY <3>2, <3>3
  <2>3. QED
    BY <2>1, <2>2 DEF ForgivenScanIsBounded
<1>2. QED
  BY <1>1, PreviewInvariance, PTL

-----------------------------------------------------------------------------
(* The search of an assertion: the inductive invariant.                    *)

Verdicts ==
  {"none", "met", "artifact_decode_replaced", "artifact_decode_unknown", "scan_incomplete",
   "artifact_unreadable", "artifact_changed", "artifact_invalid_utf8", "assertion_mismatch"}

EvaluationTypes ==
  /\ content \in [Range(Labels) -> Seq(Bytes)]
  /\ revision \in [Range(Labels) -> Nat] /\ rewrites \in Nat
  /\ label \in {1, 2} /\ step \in {"begin", "open", "read", "verify", "over"}
  /\ expected \in [Range(Labels) -> Needles \cup {<<>>}]
  /\ replacement \in [Range(Labels) -> {"none", "present", "unknown"}]
  /\ prepared \in [size: Nat, revision: Nat]
  /\ limit \in Nat /\ position \in Nat /\ remaining \in Nat
  /\ tail \in Seq(Bytes)
  /\ {awaiting, matched, invalid, short} \subseteq BOOLEAN
  /\ verdict \in [Range(Labels) -> Verdicts]

\* A file is being searched, or was.
Underway == step \in {"open", "read", "verify"}

Concluded(x) == step = "over" \/ (x = "stdout" /\ label = 2)

\* What is read never exceeds the limit, nor the limit what is left.
SearchBounded ==
  /\ Underway => position <= limit /\ limit <= remaining
  /\ ~Underway => position = 0 /\ limit = 0 /\ tail = <<>>
                  /\ ~awaiting /\ ~matched /\ ~invalid /\ ~short
  /\ step = "open" => position = 0 /\ tail = <<>>
                      /\ ~awaiting /\ ~matched /\ ~invalid /\ ~short
  /\ step = "over" => label = 2

\* Only the file that is being searched is rewritten, and then its verdict
\* says so, or that it could not be read.
Undecided == {"artifact_changed", "artifact_unreadable"}

RevisionsKept ==
  /\ \A x \in Range(Labels) :
       /\ revision[x] = 0 => content[x] = <<>>
       /\ rewrites = 0 => revision[x] <= 1
       /\ revision[x] > 1 => IF Concluded(x) THEN verdict[x] \in Undecided
                             ELSE x = Now /\ Underway
  /\ Underway => prepared.revision = 1 /\ revision[Now] >= 1

\* What is found of x does not depend on where the first search failed.
Undisturbed(x) == rewrites = 0 /\ (x = "stderr" => ~ReadFailed("stdout"))

\* The second search has what the first has left of the budget.
BudgetKept ==
  Undisturbed(Now) /\ step # "over" => remaining = Allowance(Now)

\* What the search knows of the first p bytes of c.
Knows(c, needle, p) ==
  /\ Len(tail) = IF p < MaxNeedleBytes - 1 THEN p ELSE MaxNeedleBytes - 1
  /\ \A i \in 1 .. Len(tail) : tail[i] = c[p - Len(tail) + i]
  /\ matched <=> Occurs(needle, SubSeq(c, 1, p))
  /\ invalid <=> ~Accepts(SubSeq(c, 1, p), FALSE)
  /\ awaiting <=> p > 0 /\ c[p] = "lead"

SearchExact ==
  Underway /\ rewrites = 0 =>
    /\ expected[Now] # <<>> /\ replacement[Now] = "none"
    /\ prepared.size = Len(content[Now])
    /\ limit = Min({Len(content[Now]), MaxArtifactBytes, remaining})
    /\ ~short
    /\ step = "read" => position < limit
    /\ step = "verify" => position = limit
    /\ Knows(content[Now], expected[Now], position)

\* v is the verdict on artifact x that VerdictExact asks for.
RightVerdict(x, v) ==
  LET whole == Len(Searched(x)) = Len(content[x])
      text == ValidText(Searched(x), whole)
      found == Occurs(expected[x], Searched(x))
  IN expected[x] # <<>> /\ replacement[x] = "none" /\ revision[x] = 1 /\ Allowance(x) > 0
       /\ v # "artifact_unreadable" =>
       /\ v = "met" <=> text /\ found
       /\ v = "assertion_mismatch" <=> text /\ ~found /\ whole
       /\ v = "scan_incomplete" <=> text /\ ~found /\ ~whole

VerdictsRight ==
  \A x \in Range(Labels) : Concluded(x) /\ Undisturbed(x) => RightVerdict(x, verdict[x])

EvaluationInv ==
  /\ EvaluationTypes /\ SearchBounded /\ RevisionsKept
  /\ BudgetKept /\ SearchExact /\ VerdictsRight

-----------------------------------------------------------------------------
(* The search of an assertion: bytes.                                      *)

\* The needle is at the bytes after the first i.
FoundAt(needle, bytes, i) == \A k \in 1 .. Len(needle) : bytes[i + k] = needle[k]

\* Byte i of a text fits the one before it.
FitsAt(bytes, i) ==
  /\ bytes[i] # "bad"
  /\ bytes[i] = "tail" <=> i > 1 /\ bytes[i - 1] = "lead"

\* A part of a file.
LEMMA Part ==
  ASSUME NEW c \in Seq(Bytes), NEW m \in Nat, NEW n \in Nat,
         1 <= m, m <= n + 1, n <= Len(c)
  PROVE  /\ SubSeq(c, m, n) \in Seq(Bytes)
         /\ Len(SubSeq(c, m, n)) = n - m + 1
         /\ DOMAIN SubSeq(c, m, n) = 1 .. n - m + 1
         /\ \A i \in 1 .. n - m + 1 : SubSeq(c, m, n)[i] = c[m + i - 1]
<1>1. Len(c) \in Nat /\ \A i \in 1 .. Len(c) : c[i] \in Bytes
  BY LenProperties
<1>2. \A i \in m .. n : c[i] \in Bytes
  BY <1>1
<1>3. /\ SubSeq(c, m, n) \in Seq(Bytes)
      /\ Len(SubSeq(c, m, n)) = IF m <= n THEN n - m + 1 ELSE 0
      /\ \A i \in 1 .. n - m + 1 : SubSeq(c, m, n)[i] = c[m + i - 1]
  BY <1>2, SubSeqProperties
<1>4. Len(SubSeq(c, m, n)) = n - m + 1
  BY <1>3
<1>5. QED
  BY <1>3, <1>4, LenProperties

\* A needle occurs in a part iff it is found at a place of that part.
LEMMA OccursMeans ==
  ASSUME NEW s \in Seq(Bytes), NEW needle \in Seq(Bytes), Len(needle) >= 1
  PROVE  Occurs(needle, s) <=>
           \E i \in Nat : i + Len(needle) <= Len(s) /\ FoundAt(needle, s, i)
<1>1. Len(s) \in Nat /\ Len(needle) \in Nat
  BY LenProperties
<1>2. ASSUME NEW i \in Nat, i + Len(needle) <= Len(s)
      PROVE  SubSeq(s, i + 1, i + Len(needle)) = needle <=> FoundAt(needle, s, i)
  <2>1. PICK t : t = SubSeq(s, i + 1, i + Len(needle))
    OBVIOUS
  <2>2. PICK m, n \in Nat : m = i + 1 /\ n = i + Len(needle)
    BY <1>1
  <2>3. /\ t \in Seq(Bytes) /\ Len(t) = Len(needle)
        /\ \A k \in 1 .. Len(needle) : t[k] = s[m + k - 1]
    <3>1. 1 <= m /\ m <= n + 1 /\ n <= Len(s) /\ n - m + 1 = Len(needle)
      BY <1>1, <1>2, <2>2
    <3>2. QED
      BY <2>1, <2>2, <3>1, Part
  <2>4. \A k \in 1 .. Len(needle) : m + k - 1 = i + k
    BY <1>1, <2>2
  <2>5. t = needle <=> \A k \in 1 .. Len(needle) : t[k] = needle[k]
    BY <2>3, SeqEqual
  <2>6. QED
    BY <2>1, <2>3, <2>4, <2>5 DEF FoundAt
<1>3. \A i : i \in 0 .. Len(s) - Len(needle) <=> i \in Nat /\ i + Len(needle) <= Len(s)
  BY <1>1
<1>4. QED
  BY <1>2, <1>3 DEF Occurs

\* ... so in the first p bytes of a file, iff it is found that early.
LEMMA OccursInPrefix ==
  ASSUME NEW c \in Seq(Bytes), NEW p \in Nat, p <= Len(c),
         NEW needle \in Seq(Bytes), Len(needle) >= 1
  PROVE  Occurs(needle, SubSeq(c, 1, p)) <=>
           \E i \in Nat : i + Len(needle) <= p /\ FoundAt(needle, c, i)
<1>0. Len(needle) \in Nat
  BY LenProperties
<1>1. PICK s : s = SubSeq(c, 1, p)
  OBVIOUS
<1>2. s \in Seq(Bytes) /\ Len(s) = p /\ \A i \in 1 .. p : s[i] = c[i]
  BY <1>1, Part
<1>3. \A i \in Nat : i + Len(needle) <= p => (FoundAt(needle, s, i) <=> FoundAt(needle, c, i))
  BY <1>0, <1>2 DEF FoundAt
<1>4. QED
  BY <1>1, <1>2, <1>3, OccursMeans

\* Text, read up to p.
LEMMA AcceptsPrefix ==
  ASSUME NEW c \in Seq(Bytes), NEW p \in Nat, p <= Len(c)
  PROVE  Accepts(SubSeq(c, 1, p), FALSE) <=> \A i \in 1 .. p : FitsAt(c, i)
<1>1. PICK s : s = SubSeq(c, 1, p)
  OBVIOUS
<1>2. DOMAIN s = 1 .. p /\ \A i \in 1 .. p : s[i] = c[i]
  BY <1>1, Part
<1>3. ASSUME NEW i \in 1 .. p
      PROVE  (/\ s[i] # "bad"
              /\ s[i] = "tail" <=> IF i = 1 THEN FALSE ELSE s[i - 1] = "lead")
               <=> FitsAt(c, i)
  <2>1. CASE i = 1
    BY <1>2, <2>1 DEF FitsAt
  <2>2. CASE i > 1
    <3>1. i - 1 \in 1 .. p /\ i # 1
      BY <2>2
    <3>2. s[i - 1] = c[i - 1] /\ s[i] = c[i]
      BY <1>2, <3>1
    <3>3. QED
      BY <2>2, <3>1, <3>2 DEF FitsAt
  <2>3. QED
    BY <2>1, <2>2
<1>4. Accepts(s, FALSE) <=> \A i \in 1 .. p : FitsAt(c, i)
  BY <1>2, <1>3, Zenon DEF Accepts
<1>5. QED
  BY <1>1, <1>4

\* A chunk: bytes p + 1 .. q of a file.
LEMMA ChunkIs ==
  ASSUME NEW c \in Seq(Bytes), NEW p \in Nat, NEW q \in Nat, p <= q, q <= Len(c)
  PROVE  /\ SubSeq(c, p + 1, q) \in Seq(Bytes)
         /\ Len(SubSeq(c, p + 1, q)) = q - p
         /\ DOMAIN SubSeq(c, p + 1, q) = 1 .. q - p
         /\ \A i \in 1 .. q - p : SubSeq(c, p + 1, q)[i] = c[p + i]
<1>1. PICK m \in Nat : m = p + 1
  OBVIOUS
<1>2. q - m + 1 = q - p /\ \A i \in 1 .. q - p : m + i - 1 = p + i
  BY <1>1
<1>3. 1 <= m /\ m <= q + 1
  BY <1>1
<1>4. QED
  BY <1>1, <1>2, <1>3, Part

\* The decoder over a chunk border: chunks of text in a row are text.
LEMMA AcceptsChunk ==
  ASSUME NEW c \in Seq(Bytes), NEW p \in Nat, NEW q \in Nat, p < q, q <= Len(c)
  PROVE  Accepts(SubSeq(c, 1, q), FALSE) <=>
           /\ Accepts(SubSeq(c, 1, p), FALSE)
           /\ Accepts(SubSeq(c, p + 1, q), p > 0 /\ c[p] = "lead")
<1>1. PICK s : s = SubSeq(c, p + 1, q)
  OBVIOUS
<1>2. DOMAIN s = 1 .. q - p /\ \A i \in 1 .. q - p : s[i] = c[p + i]
  <2>1. p <= q
    OBVIOUS
  <2>2. /\ DOMAIN SubSeq(c, p + 1, q) = 1 .. q - p
        /\ \A i \in 1 .. q - p : SubSeq(c, p + 1, q)[i] = c[p + i]
    BY <2>1, ChunkIs
  <2>3. QED
    BY <1>1, <2>2, Zenon
<1>3. DEFINE lead == p > 0 /\ c[p] = "lead"
<1>4. ASSUME NEW i \in 1 .. q - p
      PROVE  (/\ s[i] # "bad"
              /\ s[i] = "tail" <=> IF i = 1 THEN lead ELSE s[i - 1] = "lead")
               <=> FitsAt(c, p + i)
  <2>1. CASE i = 1
    <3>1. s[i] = c[p + i] /\ p + i - 1 = p /\ (p + i > 1 <=> p > 0)
      BY <1>2, <2>1
    <3>2. QED
      BY <2>1, <3>1 DEF FitsAt
  <2>2. CASE i > 1
    <3>1. i - 1 \in 1 .. q - p /\ i # 1 /\ p + (i - 1) = p + i - 1 /\ p + i > 1
      BY <2>2
    <3>2. s[i - 1] = c[p + i - 1] /\ s[i] = c[p + i]
      BY <1>2, <3>1
    <3>3. QED
      BY <3>1, <3>2 DEF FitsAt
  <2>3. QED
    BY <2>1, <2>2
<1> HIDE DEF lead
<1>5. Accepts(s, lead) <=> \A i \in 1 .. q - p : FitsAt(c, p + i)
  BY <1>2, <1>4, Zenon DEF Accepts
<1>6. (\A i \in 1 .. q - p : FitsAt(c, p + i)) <=> (\A j \in p + 1 .. q : FitsAt(c, j))
  <2>1. \A j \in p + 1 .. q : j - p \in 1 .. q - p /\ p + (j - p) = j
    OBVIOUS
  <2>2. \A i \in 1 .. q - p : p + i \in p + 1 .. q
    OBVIOUS
  <2>3. QED
    BY <2>1, <2>2
<1>7. 1 .. q = (1 .. p) \cup (p + 1 .. q)
  OBVIOUS
<1>8. /\ Accepts(SubSeq(c, 1, q), FALSE) <=> \A i \in 1 .. q : FitsAt(c, i)
      /\ Accepts(SubSeq(c, 1, p), FALSE) <=> \A i \in 1 .. p : FitsAt(c, i)
  <2>1. p <= Len(c)
    BY LenProperties
  <2>2. QED
    BY <2>1, AcceptsPrefix
<1>9. QED
  BY <1>1, <1>5, <1>6, <1>7, <1>8 DEF lead

\* What is carried over a chunk border: as many of the last bytes as a needle
\* can have before it.
Window(t, c, p) ==
  /\ t \in Seq(Bytes)
  /\ Len(t) = IF p < MaxNeedleBytes - 1 THEN p ELSE MaxNeedleBytes - 1
  /\ \A i \in 1 .. Len(t) : t[i] = c[p - Len(t) + i]

\* w is the tail t and the bytes from there up to q.
Joined(w, t, c, p, q) ==
  /\ w \in Seq(Bytes) /\ Len(w) = Len(t) + (q - p)
  /\ Len(t) \in Nat /\ Len(t) <= p
  /\ \A i \in 1 .. Len(w) : w[i] = c[p - Len(t) + i]

\* The tail and the next chunk are the bytes up to the chunk's end.
LEMMA WindowJoins ==
  ASSUME NEW c \in Seq(Bytes), NEW p \in Nat, NEW q \in Nat, p < q, q <= Len(c),
         NEW t, Window(t, c, p)
  PROVE  Joined(t \o SubSeq(c, p + 1, q), t, c, p, q)
<1>0. MaxNeedleBytes \in Nat \ {0}
  BY EvaluationAssumption
<1>1. PICK s : s = SubSeq(c, p + 1, q)
  OBVIOUS
<1>2. s \in Seq(Bytes) /\ Len(s) = q - p /\ \A i \in 1 .. q - p : s[i] = c[p + i]
  BY <1>1, ChunkIs
<1>3. t \in Seq(Bytes) /\ Len(t) \in Nat /\ Len(t) <= p
      /\ \A i \in 1 .. Len(t) : t[i] = c[p - Len(t) + i]
  <2>1. t \in Seq(Bytes) /\ \A i \in 1 .. Len(t) : t[i] = c[p - Len(t) + i]
    BY Zenon DEF Window
  <2>2. Len(t) = IF p < MaxNeedleBytes - 1 THEN p ELSE MaxNeedleBytes - 1
    BY Zenon DEF Window
  <2>3. Len(t) \in Nat /\ Len(t) <= p
    BY <1>0, <2>2
  <2>4. QED
    BY <2>1, <2>3
<1>4. PICK w : w = t \o s
  OBVIOUS
<1>5. w \in Seq(Bytes) /\ Len(w) = Len(t) + (q - p)
      /\ \A i \in 1 .. Len(t) + (q - p) :
           w[i] = IF i <= Len(t) THEN t[i] ELSE s[i - Len(t)]
  <2>1. /\ w \in Seq(Bytes) /\ Len(w) = Len(t) + Len(s)
        /\ \A i \in 1 .. Len(t) + Len(s) :
             w[i] = IF i <= Len(t) THEN t[i] ELSE s[i - Len(t)]
    <3>1. /\ t \o s \in Seq(Bytes) /\ Len(t \o s) = Len(t) + Len(s)
          /\ \A i \in 1 .. Len(t) + Len(s) :
               (t \o s)[i] = IF i <= Len(t) THEN t[i] ELSE s[i - Len(t)]
      BY <1>2, <1>3, ConcatProperties, Zenon
    <3>2. QED
      BY <1>4, <3>1, Zenon
  <2>2. Len(s) = q - p
    BY <1>2
  <2>3. QED
    BY <2>1, <2>2, Zenon
<1>6. ASSUME NEW i \in 1 .. Len(w)
      PROVE  w[i] = c[p - Len(t) + i]
  <2>1. CASE i <= Len(t)
    BY <1>3, <1>5, <2>1
  <2>2. CASE i > Len(t)
    <3>1. i - Len(t) \in 1 .. q - p /\ p + (i - Len(t)) = p - Len(t) + i
      BY <1>3, <1>5, <2>2
    <3>2. QED
      BY <1>2, <1>3, <1>5, <2>2, <3>1
  <2>3. QED
    BY <1>3, <1>5, <2>1, <2>2
<1>7. Joined(w, t, c, p, q)
  BY <1>3, <1>5, <1>6, Zenon DEF Joined
<1>8. QED
  BY <1>1, <1>4, <1>7, Zenon

\* A needle in the bytes up to q was there up to p, or is in the window.
LEMMA OccursInWindow ==
  ASSUME NEW c \in Seq(Bytes), NEW p \in Nat, NEW q \in Nat, p < q, q <= Len(c),
         NEW t, Window(t, c, p),
         NEW needle \in Seq(Bytes), Len(needle) \in 1 .. MaxNeedleBytes
  PROVE  Occurs(needle, SubSeq(c, 1, q)) <=>
           Occurs(needle, SubSeq(c, 1, p)) \/ Occurs(needle, t \o SubSeq(c, p + 1, q))
<1>0. MaxNeedleBytes \in Nat \ {0} /\ Len(needle) \in Nat /\ Len(needle) >= 1
      /\ Len(needle) <= MaxNeedleBytes
  BY EvaluationAssumption
<1>1. PICK w : w = t \o SubSeq(c, p + 1, q)
  OBVIOUS
<1>2. /\ w \in Seq(Bytes) /\ Len(w) = Len(t) + (q - p)
      /\ Len(t) \in Nat /\ Len(t) <= p
      /\ \A i \in 1 .. Len(w) : w[i] = c[p - Len(t) + i]
  <2>1. Joined(t \o SubSeq(c, p + 1, q), t, c, p, q)
    BY WindowJoins
  <2>2. QED
    BY <1>1, <2>1, Zenon DEF Joined
<1>3. Len(t) = IF p < MaxNeedleBytes - 1 THEN p ELSE MaxNeedleBytes - 1
  BY Zenon DEF Window
<1>4. PICK L, T, W \in Nat : L = Len(needle) /\ T = Len(t) /\ W = Len(w)
  <2>1. Len(needle) \in Nat /\ Len(t) \in Nat /\ Len(w) \in Nat
    BY <1>0, <1>2, LenProperties, Zenon
  <2>2. QED
    BY <2>1, Zenon
<1>5. \A i \in Nat : i + L <= W => (FoundAt(needle, w, i) <=> FoundAt(needle, c, p - T + i))
  <2> SUFFICES ASSUME NEW i \in Nat, i + L <= W
               PROVE  FoundAt(needle, w, i) <=> FoundAt(needle, c, p - T + i)
    OBVIOUS
  <2>1. \A k \in 1 .. L : i + k \in 1 .. W /\ p - T + (i + k) = (p - T + i) + k
    BY <1>2, <1>4
  <2>2. \A k \in 1 .. L : w[i + k] = c[(p - T + i) + k]
    BY <1>2, <1>4, <2>1
  <2>3. QED
    BY <1>4, <2>2 DEF FoundAt
<1>6. /\ Occurs(needle, SubSeq(c, 1, q)) <=> \E i \in Nat : i + L <= q /\ FoundAt(needle, c, i)
      /\ Occurs(needle, SubSeq(c, 1, p)) <=> \E i \in Nat : i + L <= p /\ FoundAt(needle, c, i)
      /\ Occurs(needle, w) <=> \E i \in Nat : i + L <= W /\ FoundAt(needle, w, i)
  <2>1. p <= Len(c)
    BY LenProperties
  <2>2. Occurs(needle, SubSeq(c, 1, q)) <=>
          \E i \in Nat : i + Len(needle) <= q /\ FoundAt(needle, c, i)
    BY <1>0, OccursInPrefix
  <2>3. Occurs(needle, SubSeq(c, 1, p)) <=>
          \E i \in Nat : i + Len(needle) <= p /\ FoundAt(needle, c, i)
    BY <1>0, <2>1, OccursInPrefix
  <2>4. Occurs(needle, w) <=> \E i \in Nat : i + Len(needle) <= Len(w) /\ FoundAt(needle, w, i)
    BY <1>0, <1>2, OccursMeans
  <2>5. QED
    BY <1>4, <2>2, <2>3, <2>4, Zenon
<1>7. ASSUME NEW i \in Nat, i + L <= q, FoundAt(needle, c, i)
      PROVE  \/ i + L <= p
             \/ \E j \in Nat : j + L <= W /\ FoundAt(needle, w, j)
  <2> SUFFICES ASSUME i + L > p
               PROVE  \E j \in Nat : j + L <= W /\ FoundAt(needle, w, j)
    BY <1>4
  <2>1. PICK j \in Nat : p - T + j = i
    <3>1. p - T <= i
      BY <1>0, <1>3, <1>4
    <3>2. i - (p - T) \in Nat /\ p - T + (i - (p - T)) = i
      BY <1>2, <1>4, <3>1
    <3>3. QED
      BY <3>2
  <2>2. j + L <= W
    BY <1>2, <1>4, <1>7, <2>1
  <2>3. QED
    BY <1>5, <1>7, <2>1, <2>2
<1>8. ASSUME NEW j \in Nat, j + L <= W, FoundAt(needle, w, j)
      PROVE  \E i \in Nat : i + L <= q /\ FoundAt(needle, c, i)
  <2>1. p - T + j \in Nat /\ p - T + j + L <= q
    BY <1>2, <1>4, <1>8
  <2>2. QED
    BY <1>5, <1>8, <2>1
<1>9. \A i \in Nat : i + L <= p => i + L <= q
  BY <1>4
<1>10. QED
  BY <1>1, <1>6, <1>7, <1>8, <1>9

\* What is kept of the window is the next one.
LEMMA CarriedIsWindow ==
  ASSUME NEW c \in Seq(Bytes), NEW p \in Nat, NEW q \in Nat, p < q, q <= Len(c),
         NEW t, Window(t, c, p)
  PROVE  Window(Carried(t \o SubSeq(c, p + 1, q)), c, q)
<1>0. MaxNeedleBytes \in Nat \ {0}
  BY EvaluationAssumption
<1>1. PICK w : w = t \o SubSeq(c, p + 1, q)
  OBVIOUS
<1>2. /\ w \in Seq(Bytes) /\ Len(w) = Len(t) + (q - p)
      /\ Len(t) \in Nat /\ Len(t) <= p
      /\ \A i \in 1 .. Len(w) : w[i] = c[p - Len(t) + i]
  <2>1. Joined(t \o SubSeq(c, p + 1, q), t, c, p, q)
    BY WindowJoins
  <2>2. QED
    BY <1>1, <2>1, Zenon DEF Joined
<1>3. Len(t) = IF p < MaxNeedleBytes - 1 THEN p ELSE MaxNeedleBytes - 1
  BY Zenon DEF Window
<1>4. PICK K, T, W \in Nat : K = MaxNeedleBytes /\ T = Len(t) /\ W = Len(w)
  <2>1. MaxNeedleBytes \in Nat /\ Len(t) \in Nat /\ Len(w) \in Nat
    BY <1>0, <1>2, LenProperties, Zenon
  <2>2. QED
    BY <2>1, Zenon
<1>4a. K \in Nat \ {0}
  BY <1>0, <1>4
<1>5. PICK m \in Nat : m = IF W > K - 1 THEN W - K + 2 ELSE 1
  <2>1. (IF W > K - 1 THEN W - K + 2 ELSE 1) \in Nat
    BY <1>4a
  <2>2. QED
    BY <2>1, Zenon
<1>6. PICK u : u = SubSeq(w, m, W)
  OBVIOUS
<1>7. 1 <= m /\ m <= W + 1 /\ W <= Len(w)
  BY <1>0, <1>2, <1>4, <1>5
<1>8. u \in Seq(Bytes) /\ Len(u) = W - m + 1 /\ \A i \in 1 .. W - m + 1 : u[i] = w[m + i - 1]
  <2>1. w \in Seq(Bytes)
    BY <1>2, Zenon
  <2>2. /\ SubSeq(w, m, W) \in Seq(Bytes) /\ Len(SubSeq(w, m, W)) = W - m + 1
        /\ \A i \in 1 .. W - m + 1 : SubSeq(w, m, W)[i] = w[m + i - 1]
    BY <1>7, <2>1, Part
  <2>3. QED
    BY <1>6, <2>2, Zenon
<1>9. Len(u) = IF q < K - 1 THEN q ELSE K - 1
  <2>1. W = T + (q - p) /\ T <= p
    BY <1>2, <1>4, Zenon
  <2>2. T = IF p < K - 1 THEN p ELSE K - 1
    BY <1>3, <1>4, Zenon
  <2>3. W - m + 1 = IF q < K - 1 THEN q ELSE K - 1
    BY <1>4a, <1>5, <2>1, <2>2
  <2>4. QED
    BY <1>4, <1>8, <2>3, Zenon
<1>10. ASSUME NEW i \in 1 .. Len(u)
       PROVE  u[i] = c[q - Len(u) + i]
  <2>1. m + i - 1 \in 1 .. W /\ p - T + (m + i - 1) = q - Len(u) + i
    BY <1>2, <1>4, <1>7, <1>8
  <2>2. QED
    BY <1>2, <1>4, <1>8, <2>1
<1>11. u = Carried(w)
  BY <1>4, <1>5, <1>6 DEF Carried
<1>12. QED
  BY <1>1, <1>4, <1>8, <1>9, <1>10, <1>11 DEF Window

\* Whatever is carried is bytes.
LEMMA CarriedType ==
  ASSUME NEW w \in Seq(Bytes)
  PROVE  Carried(w) \in Seq(Bytes)
<1>1. MaxNeedleBytes \in Nat \ {0} /\ Len(w) \in Nat
  BY EvaluationAssumption, LenProperties
<1>2. PICK m \in Nat : m = IF Len(w) > MaxNeedleBytes - 1
                           THEN Len(w) - MaxNeedleBytes + 2 ELSE 1
  <2>1. (IF Len(w) > MaxNeedleBytes - 1 THEN Len(w) - MaxNeedleBytes + 2 ELSE 1) \in Nat
    BY <1>1
  <2>2. QED
    BY <2>1, Zenon
<1>3. 1 <= m /\ m <= Len(w) + 1
  BY <1>1, <1>2
<1>4. SubSeq(w, m, Len(w)) \in Seq(Bytes)
  BY <1>1, <1>3, Part
<1>5. QED
  BY <1>2, <1>4 DEF Carried

-----------------------------------------------------------------------------
(* The search of an assertion: steps.                                      *)

\* The labels, and the one that is searched now.
LEMMA LabelsAre ==
  /\ Range(Labels) = {"stdout", "stderr"} /\ Labels[1] = "stdout" /\ Labels[2] = "stderr"
  /\ label \in {1, 2} => /\ Now \in Range(Labels)
                         /\ Now = IF label = 1 THEN "stdout" ELSE "stderr"
<1>1. Labels[1] = "stdout" /\ Labels[2] = "stderr" /\ DOMAIN Labels = {1, 2}
  BY DEF Labels
<1>2. QED
  BY <1>1 DEF Range, Now

\* The limits, none of which is zero.
LEMMA LimitsAre ==
  /\ MaxArtifactBytes \in Nat \ {0} /\ MaxTotalArtifactBytes \in Nat \ {0}
  /\ ReadChunkBytes \in Nat \ {0} /\ MaxNeedleBytes \in Nat \ {0}
BY EvaluationAssumption

\* What the first search leaves.
LEMMA AllowanceIs ==
  ASSUME EvaluationTypes
  PROVE  /\ Allowance("stdout") = MaxTotalArtifactBytes
         /\ Allowance("stderr") \in Nat
         /\ Allowance("stdout") \in Nat /\ Allowance("stdout") > 0
         /\ expected["stdout"] = <<>> \/ replacement["stdout"] # "none" =>
              Allowance("stderr") = MaxTotalArtifactBytes
         /\ expected["stdout"] # <<>> /\ replacement["stdout"] = "none" =>
              Allowance("stderr") = MaxTotalArtifactBytes -
                Min({Len(content["stdout"]), MaxArtifactBytes, MaxTotalArtifactBytes})
<1>1. Len(content["stdout"]) \in Nat
  BY LabelsAre, LenProperties DEF EvaluationTypes
<1>2. PICK m : m = Min({Len(content["stdout"]), MaxArtifactBytes, MaxTotalArtifactBytes})
  OBVIOUS
<1>3. m \in Nat /\ m <= MaxTotalArtifactBytes
  BY <1>1, <1>2, LimitsAre, MinOfThree
<1>4. QED
  BY <1>2, <1>3, LimitsAre DEF Allowance

\* The expectations do not change and what they allow depends on the files.
LEMMA ArtifactsKept ==
  ASSUME FilesKept
  PROVE  /\ UNCHANGED <<content, revision, rewrites, expected, replacement>>
         /\ \A x : /\ Allowance(x)' = Allowance(x)
                   /\ \A v : RightVerdict(x, v)' <=> RightVerdict(x, v)
<1>1. UNCHANGED <<content, revision, rewrites, expected, replacement>>
  BY DEF FilesKept, artifact, expectation
<1>2. \A x : Allowance(x)' = Allowance(x)
  BY <1>1 DEF Allowance
<1>3. \A x : Searched(x)' = Searched(x)
  BY <1>1, <1>2 DEF Searched
<1>4. \A x, v : RightVerdict(x, v)' <=> RightVerdict(x, v)
  BY <1>1, <1>2, <1>3 DEF RightVerdict
<1>5. QED
  BY <1>1, <1>2, <1>4

\* Nothing is known yet of a file that nothing was read of.
LEMMA KnowsNothing ==
  ASSUME NEW c \in Seq(Bytes), NEW needle \in Needles,
         tail = <<>>, ~awaiting, ~matched, ~invalid
  PROVE  Knows(c, needle, 0)
<1>1. Len(needle) >= 1 /\ needle \in Seq(Bytes) /\ Len(needle) \in Nat
  BY EvaluationAssumption
<1>2. 0 <= Len(c) /\ 0 \in Nat
  BY LenProperties
<1>3. Len(tail) = 0
  OBVIOUS
<1>4. ~ Occurs(needle, SubSeq(c, 1, 0))
  BY <1>1, <1>2, OccursInPrefix
<1>5. Accepts(SubSeq(c, 1, 0), FALSE)
  <2>1. Accepts(SubSeq(c, 1, 0), FALSE) <=> \A i \in 1 .. 0 : FitsAt(c, i)
    BY <1>2, AcceptsPrefix
  <2>2. \A i \in 1 .. 0 : FitsAt(c, i)
    OBVIOUS
  <2>3. QED
    BY <2>1, <2>2, Zenon
<1>6. Len(tail) = IF 0 < MaxNeedleBytes - 1 THEN 0 ELSE MaxNeedleBytes - 1
  BY <1>3, LimitsAre
<1>7. \A i \in 1 .. Len(tail) : tail[i] = c[0 - Len(tail) + i]
  BY <1>3
<1>8. QED
  <2>1. ~ (0 > 0)
    OBVIOUS
  <2>2. QED
    BY <1>4, <1>5, <1>6, <1>7, <2>1, Zenon DEF Knows

\* Before the first search.
LEMMA EvaluationInitially == EvaluationInit => EvaluationInv
<1> SUFFICES ASSUME EvaluationInit PROVE EvaluationInv
  OBVIOUS
<1> USE DEF EvaluationInit
<1>1. EvaluationTypes
  <2>1. \A x \in Range(Labels) : content[x] \in Seq(Bytes)
    <3>1. <<>> \in Seq(Bytes)
      BY EmptySeq
    <3>2. QED
      BY <3>1, EvaluationAssumption
  <2>2. content \in [Range(Labels) -> Seq(Bytes)]
    BY <2>1
  <2>3. revision \in [Range(Labels) -> Nat]
    <3>1. {0, 1} \subseteq Nat
      OBVIOUS
    <3>2. QED
      BY <3>1
  <2>4. tail \in Seq(Bytes)
    BY EmptySeq
  <2>5. remaining \in Nat /\ limit \in Nat /\ position \in Nat
    BY LimitsAre
  <2>6. verdict \in [Range(Labels) -> Verdicts]
    BY Zenon DEF Verdicts
  <2>7. expected \in [Range(Labels) -> Needles \cup {<<>>}]
        /\ replacement \in [Range(Labels) -> {"none", "present", "unknown"}]
        /\ prepared \in [size: Nat, revision: Nat]
    OBVIOUS
  <2>8. QED
    BY <2>2, <2>3, <2>4, <2>5, <2>6, <2>7 DEF EvaluationTypes
<1>2. Now = "stdout" /\ ~Underway /\ \A x : ~Concluded(x)
  BY LabelsAre DEF Underway, Concluded
<1>3. SearchBounded
  BY <1>2 DEF SearchBounded
<1>4. RevisionsKept
  BY <1>2 DEF RevisionsKept
<1>5. BudgetKept
  BY <1>1, <1>2, AllowanceIs DEF BudgetKept
<1>6. SearchExact /\ VerdictsRight
  BY <1>2 DEF SearchExact, VerdictsRight
<1>7. QED
  BY <1>1, <1>3, <1>4, <1>5, <1>6 DEF EvaluationInv

\* A rewrite leaves a trace: the revision, until the end.
LEMMA RewriteStep ==
  ASSUME EvaluationInv, Rewrite
  PROVE  EvaluationInv'
<1> USE DEF EvaluationInv, Rewrite
<1>0. label \in {1, 2} /\ Now \in Range(Labels) /\ UNCHANGED Now
  BY LabelsAre DEF EvaluationTypes, Now
<1>1. /\ UNCHANGED <<expected, replacement, label, step, prepared, limit, position, tail,
                     awaiting, matched, invalid, short, remaining, verdict>>
      /\ step \in {"open", "read", "verify"}
      /\ rewrites' = rewrites + 1 /\ rewrites' # 0
      /\ revision' = [revision EXCEPT ![Now] = @ + 1]
      /\ \A x \in Range(Labels) : x # Now => content'[x] = content[x] /\ revision'[x] = revision[x]
      /\ revision'[Now] = revision[Now] + 1
      /\ revision[Now] \in Nat /\ revision[Now] >= 1 /\ rewrites \in Nat
  BY <1>0 DEF search, expectation, EvaluationTypes, RevisionsKept, Underway
<1>2. EvaluationTypes'
  <2>1. content' \in [Range(Labels) -> Seq(Bytes)]
    BY <1>0, EvaluationAssumption DEF EvaluationTypes
  <2>2. revision' \in [Range(Labels) -> Nat] /\ rewrites' \in Nat
    BY <1>0, <1>1 DEF EvaluationTypes
  <2>3. QED
    BY <1>1, <2>1, <2>2 DEF EvaluationTypes
<1>3. SearchBounded'
  BY <1>1 DEF SearchBounded, Underway
<1>4. RevisionsKept'
  <2>1. ASSUME NEW x \in Range(Labels)
        PROVE  /\ revision'[x] # 0 \/ content'[x] = <<>>
               /\ revision'[x] > 1 => IF Concluded(x)' THEN verdict'[x] \in Undecided
                                      ELSE x = Now' /\ Underway'
    <3>1. CASE x = Now
      <4>1. ~ Concluded(x)' /\ Underway'
        BY <1>0, <1>1, <3>1, LabelsAre DEF Concluded, Underway
      <4>2. QED
        BY <1>0, <1>1, <3>1, <4>1
    <3>2. CASE x # Now
      BY <1>0, <1>1, <3>2 DEF RevisionsKept, Underway, Concluded
    <3>3. QED
      BY <3>1, <3>2
  <2>2. prepared'.revision = 1 /\ revision'[Now'] >= 1
    BY <1>0, <1>1 DEF RevisionsKept, Underway
  <2>3. QED
    BY <1>1, <2>1, <2>2 DEF RevisionsKept
<1>5. BudgetKept' /\ SearchExact' /\ VerdictsRight'
  BY <1>1 DEF BudgetKept, SearchExact, VerdictsRight, Undisturbed
<1>6. QED
  BY <1>2, <1>3, <1>4, <1>5

\* A verdict ends the search of its label.
LEMMA ConcludeStep ==
  ASSUME EvaluationInv, FilesKept, NEW v \in Verdicts, Conclude(v), step # "over",
         revision[Now] > 1 => v \in Undecided,
         Undisturbed(Now) => RightVerdict(Now, v),
         rewrites = 0 /\ label = 1 /\ ~(revision["stdout"] = 1 /\ v = "artifact_unreadable") =>
           remaining - position = Allowance("stderr")
  PROVE  EvaluationInv'
<1>0. EvaluationTypes /\ SearchBounded /\ RevisionsKept /\ BudgetKept /\ VerdictsRight
  BY DEF EvaluationInv
<1>1. label \in {1, 2} /\ Now \in Range(Labels) /\ Range(Labels) = {"stdout", "stderr"}
      /\ Now = (IF label = 1 THEN "stdout" ELSE "stderr")
      /\ Now' = "stderr" /\ label' = 2
  BY <1>0, LabelsAre DEF EvaluationTypes, Conclude, Now
<1>2. UNCHANGED <<content, revision, rewrites, expected, replacement>>
  BY ArtifactsKept
<1>3. /\ verdict' = [verdict EXCEPT ![Now] = v]
      /\ step' = (IF label = 1 THEN "begin" ELSE "over")
      /\ remaining' = remaining - position
      /\ position' = 0 /\ limit' = 0 /\ tail' = <<>> /\ awaiting' = FALSE
      /\ matched' = FALSE /\ invalid' = FALSE /\ short' = FALSE
      /\ prepared' = [size |-> 0, revision |-> 0]
  BY DEF Conclude
<1>4. position \in Nat /\ remaining \in Nat /\ limit \in Nat /\ position <= remaining
  BY <1>0 DEF EvaluationTypes, SearchBounded
<1>5. EvaluationTypes'
  <2>1. remaining' \in Nat /\ position' \in Nat /\ limit' \in Nat
    BY <1>3, <1>4
  <2>2. tail' \in Seq(Bytes)
    BY <1>3, EmptySeq
  <2>3. verdict' \in [Range(Labels) -> Verdicts]
    BY <1>0, <1>3 DEF EvaluationTypes
  <2>4. prepared' \in [size: Nat, revision: Nat]
    BY <1>3
  <2>5. step' \in {"begin", "open", "read", "verify", "over"}
        /\ {awaiting', matched', invalid', short'} \subseteq BOOLEAN
    BY <1>3
  <2>6. QED
    BY <1>0, <1>1, <1>2, <2>1, <2>2, <2>3, <2>4, <2>5 DEF EvaluationTypes
<1>6. ~Underway' /\ SearchBounded'
  BY <1>1, <1>3 DEF SearchBounded, Underway
<1>7. \A x \in Range(Labels) :
        /\ verdict'[x] = IF x = Now THEN v ELSE verdict[x]
        /\ Concluded(x)' <=> Concluded(x) \/ x = Now
  BY <1>0, <1>1, <1>3 DEF EvaluationTypes, Concluded
<1>8. RevisionsKept'
  BY <1>0, <1>2, <1>6, <1>7 DEF RevisionsKept
<1>9. BudgetKept'
  <2>1. Allowance("stderr")' = Allowance("stderr")
    BY ArtifactsKept
  <2>2. ASSUME label = 1, Undisturbed("stderr")'
        PROVE  remaining - position = Allowance("stderr")
    <3>1. Now = "stdout" /\ verdict'["stdout"] = v /\ "stdout" \in Range(Labels)
      BY <1>1, <1>7, <2>2
    <3>2. QED
      BY <1>2, <2>2, <3>1 DEF Undisturbed, ReadFailed
  <2>3. QED
    BY <1>1, <1>3, <2>1, <2>2 DEF BudgetKept
<1>10. SearchExact'
  BY <1>6 DEF SearchExact
<1>11. VerdictsRight'
  <2> SUFFICES ASSUME NEW x \in Range(Labels), Concluded(x)', Undisturbed(x)'
               PROVE  RightVerdict(x, verdict[x])'
    BY DEF VerdictsRight
  <2>1. PICK w : w = verdict'[x]
    OBVIOUS
  <2>2. RightVerdict(x, w)
    <3>1. CASE x = Now
      <4>1. Undisturbed(x)
        <5>1. x = "stderr" => verdict'["stdout"] = verdict["stdout"]
          BY <1>1, <1>7, <3>1
        <5>2. QED
          BY <1>2, <5>1 DEF Undisturbed, ReadFailed
      <4>2. QED
        BY <1>7, <2>1, <3>1, <4>1
    <3>2. CASE x # Now
      <4>1. x = "stdout" /\ Undisturbed(x)
        BY <1>1, <1>2, <1>7, <3>2 DEF Undisturbed, Concluded
      <4>2. QED
        BY <1>0, <1>7, <2>1, <3>2, <4>1 DEF VerdictsRight
    <3>3. QED
      BY <3>1, <3>2
  <2>3. RightVerdict(x, w)'
    BY <2>2, ArtifactsKept
  <2>4. QED
    BY <2>1, <2>3
<1>12. QED
  BY <1>5, <1>6, <1>8, <1>9, <1>10, <1>11 DEF EvaluationInv

\* The checks before the file, and what is prepared of it.
LEMMA PrepareArtifactStep ==
  ASSUME EvaluationInv, Prepare
  PROVE  EvaluationInv'
<1>0. EvaluationTypes /\ SearchBounded /\ RevisionsKept /\ BudgetKept /\ VerdictsRight
  BY DEF EvaluationInv
<1>1. step = "begin" /\ FilesKept /\ ~Underway /\ ~Concluded(Now)
  BY <1>0, LabelsAre DEF Prepare, Underway, Concluded, EvaluationTypes
<1>2. label \in {1, 2} /\ Now \in Range(Labels)
      /\ Now = (IF label = 1 THEN "stdout" ELSE "stderr")
  BY <1>0, LabelsAre DEF EvaluationTypes
<1>3. /\ revision[Now] \in Nat /\ revision[Now] <= 1 /\ position = 0 /\ remaining \in Nat
      /\ content[Now] \in Seq(Bytes) /\ expected[Now] \in Needles \cup {<<>>}
  BY <1>0, <1>1, <1>2 DEF EvaluationTypes, RevisionsKept, SearchBounded
<1>4. ASSUME NEW v \in Verdicts, Conclude(v),
             \/ expected[Now] = <<>> \/ replacement[Now] # "none"
             \/ remaining <= 0 \/ revision[Now] = 0
      PROVE  EvaluationInv'
  <2>1. Undisturbed(Now) => remaining = Allowance(Now)
    BY <1>0, <1>1 DEF BudgetKept
  <2>2. Undisturbed(Now) => RightVerdict(Now, v)
    <3>1. Undisturbed(Now) => ~ (expected[Now] # <<>> /\ replacement[Now] = "none"
                               /\ revision[Now] = 1 /\ Allowance(Now) > 0)
      BY <1>3, <1>4, <2>1
    <3>2. QED
      BY <3>1 DEF RightVerdict
  <2>3. rewrites = 0 /\ label = 1 => remaining - position = Allowance("stderr")
    <3> SUFFICES ASSUME rewrites = 0, label = 1
                 PROVE  remaining - position = Allowance("stderr")
      OBVIOUS
    <3>1. Now = "stdout" /\ remaining = MaxTotalArtifactBytes /\ remaining > 0
      BY <1>0, <1>2, <2>1, AllowanceIs DEF Undisturbed
    <3>2. CASE expected[Now] = <<>> \/ replacement[Now] # "none"
      BY <1>0, <1>3, <3>1, <3>2, AllowanceIs
    <3>3. CASE revision[Now] = 0 /\ expected[Now] # <<>> /\ replacement[Now] = "none"
      <4>1. content["stdout"] = <<>>
        BY <1>0, <1>2, <3>1, <3>3 DEF RevisionsKept
      <4>2. Len(content["stdout"]) = 0
        BY <4>1, EmptySeq
      <4>3. Allowance("stderr") = MaxTotalArtifactBytes -
              Min({0, MaxArtifactBytes, MaxTotalArtifactBytes})
        BY <1>0, <3>1, <3>3, <4>2, AllowanceIs
      <4>4. PICK m : m = Min({0, MaxArtifactBytes, MaxTotalArtifactBytes})
        OBVIOUS
      <4>5. m = 0
        <5>1. m <= 0 /\ m \in {0, MaxArtifactBytes, MaxTotalArtifactBytes}
          BY <4>4, LimitsAre, MinOfThree
        <5>2. QED
          BY <5>1, LimitsAre
      <4>6. QED
        BY <1>3, <3>1, <4>3, <4>4, <4>5
    <3>4. QED
      BY <1>3, <1>4, <3>1, <3>2, <3>3
  <2>4. QED
    BY <1>1, <1>3, <1>4, <2>2, <2>3, ConcludeStep
<1>5. ASSUME expected[Now] # <<>>, replacement[Now] = "none", remaining > 0, revision[Now] # 0,
             prepared' = [size |-> Len(content[Now]), revision |-> revision[Now]],
             limit' = Min({prepared'.size, MaxArtifactBytes, remaining}),
             step' = "open",
             UNCHANGED <<label, position, tail, awaiting, matched, invalid, short,
                         remaining, verdict>>
      PROVE  EvaluationInv'
  <2>1. UNCHANGED <<content, revision, rewrites, expected, replacement>> /\ Now' = Now
    BY <1>1, <1>5, ArtifactsKept DEF Now
  <2>2. Len(content[Now]) \in Nat /\ revision[Now] = 1
    BY <1>3, <1>5, LenProperties
  <2>3. PICK n, m \in Nat : n = Len(content[Now])
                            /\ m = Min({n, MaxArtifactBytes, remaining}) /\ m <= remaining
    <3>1. PICK n \in Nat : n = Len(content[Now])
      BY <2>2
    <3>2. PICK m : m = Min({n, MaxArtifactBytes, remaining})
      OBVIOUS
    <3>3. m \in Nat /\ m <= remaining
      BY <1>3, <3>2, LimitsAre, MinOfThree
    <3>4. QED
      BY <3>1, <3>2, <3>3
  <2>4. limit' = m /\ prepared' = [size |-> n, revision |-> 1]
    BY <1>5, <2>2, <2>3
  <2>5. /\ Underway'
        /\ position = 0 /\ tail = <<>> /\ ~awaiting /\ ~matched /\ ~invalid /\ ~short
    BY <1>0, <1>1, <1>5 DEF Underway, SearchBounded
  <2>6. EvaluationTypes'
    BY <1>0, <1>5, <2>1, <2>4 DEF EvaluationTypes
  <2>7. SearchBounded'
    BY <1>3, <1>5, <2>3, <2>4, <2>5 DEF SearchBounded
  <2>8. RevisionsKept'
    BY <1>0, <1>1, <1>2, <1>5, <2>1, <2>2, <2>4, <2>5 DEF RevisionsKept, Concluded
  <2>9. BudgetKept'
    <3>1. \A x : Undisturbed(x)' <=> Undisturbed(x)
      BY <1>5, <2>1 DEF Undisturbed, ReadFailed
    <3>2. QED
      BY <1>0, <1>1, <1>5, <2>1, <3>1, ArtifactsKept DEF BudgetKept
  <2>10. SearchExact'
    <3>1. expected[Now] \in Needles
      BY <1>3, <1>5
    <3>2. Knows(content[Now], expected[Now], 0)
      BY <1>3, <2>5, <3>1, KnowsNothing
    <3>3. PICK c, needle : c = content[Now] /\ needle = expected[Now]
      OBVIOUS
    <3>4. Knows(c, needle, 0)'
      BY <1>5, <3>2, <3>3 DEF Knows
    <3>5. content'[Now'] = c /\ expected'[Now'] = needle /\ position' = 0
      BY <1>5, <2>1, <2>5, <3>3
    <3>6. Knows(content[Now], expected[Now], position)'
      BY <3>4, <3>5
    <3>7. QED
      BY <1>5, <2>1, <2>3, <2>4, <2>5, <3>6 DEF SearchExact
  <2>11. VerdictsRight'
    <3> SUFFICES ASSUME NEW x \in Range(Labels), Concluded(x)', Undisturbed(x)'
                 PROVE  RightVerdict(x, verdict[x])'
      BY DEF VerdictsRight
    <3>1. Concluded(x) /\ Undisturbed(x) /\ verdict'[x] = verdict[x]
      BY <1>1, <1>5, <2>1 DEF Concluded, Undisturbed, ReadFailed
    <3>2. PICK w : w = verdict[x]
      OBVIOUS
    <3>3. RightVerdict(x, w)'
      BY <1>0, <1>1, <3>1, <3>2, ArtifactsKept DEF VerdictsRight
    <3>4. QED
      BY <3>1, <3>2, <3>3
  <2>12. QED
    BY <2>6, <2>7, <2>8, <2>9, <2>10, <2>11 DEF EvaluationInv
<1>6. {"met", "artifact_decode_replaced", "artifact_decode_unknown", "scan_incomplete",
       "artifact_unreadable"} \subseteq Verdicts
  BY DEF Verdicts
<1>7. \/ expected[Now] = <<>> /\ Conclude("met")
      \/ replacement[Now] = "present" /\ Conclude("artifact_decode_replaced")
      \/ replacement[Now] = "unknown" /\ Conclude("artifact_decode_unknown")
      \/ remaining <= 0 /\ Conclude("scan_incomplete")
      \/ revision[Now] = 0 /\ Conclude("artifact_unreadable")
      \/ /\ expected[Now] # <<>> /\ replacement[Now] \notin {"present", "unknown"}
         /\ ~ (remaining <= 0) /\ revision[Now] # 0
         /\ prepared' = [size |-> Len(content[Now]), revision |-> revision[Now]]
         /\ limit' = Min({prepared'.size, MaxArtifactBytes, remaining})
         /\ step' = "open"
         /\ UNCHANGED <<label, position, tail, awaiting, matched, invalid, short,
                        remaining, verdict>>
  BY Zenon DEF Prepare
<1>8. replacement[Now] \in {"none", "present", "unknown"}
  BY <1>0, <1>2 DEF EvaluationTypes
<1>9. QED
  BY <1>3, <1>4, <1>5, <1>6, <1>7, <1>8

\* A step of the search that leaves the verdicts, the files and the budget.
LEMMA SearchStep ==
  ASSUME EvaluationInv, FilesKept, UNCHANGED <<label, prepared, limit, remaining, verdict>>,
         Underway, step' \in {"open", "read", "verify"},
         EvaluationTypes', SearchBounded', SearchExact'
  PROVE  EvaluationInv'
<1>0. RevisionsKept /\ BudgetKept /\ VerdictsRight
  BY DEF EvaluationInv
<1>1. UNCHANGED <<content, revision, rewrites, expected, replacement>> /\ Now' = Now
  BY ArtifactsKept DEF Now
<1>2. /\ Underway' /\ step # "over" /\ step' # "over"
      /\ \A x : Concluded(x)' <=> Concluded(x)
      /\ \A x : Undisturbed(x)' <=> Undisturbed(x)
  BY <1>1 DEF Underway, Concluded, Undisturbed, ReadFailed
<1>3. RevisionsKept'
  BY <1>0, <1>1, <1>2 DEF RevisionsKept
<1>4. BudgetKept'
  BY <1>0, <1>1, <1>2, ArtifactsKept DEF BudgetKept
<1>5. VerdictsRight'
  <2> SUFFICES ASSUME NEW x \in Range(Labels), Concluded(x)', Undisturbed(x)'
               PROVE  RightVerdict(x, verdict[x])'
    BY DEF VerdictsRight
  <2>1. PICK w : w = verdict[x]
    OBVIOUS
  <2>2. RightVerdict(x, w)'
    BY <1>0, <1>2, <2>1, ArtifactsKept DEF VerdictsRight
  <2>3. QED
    BY <2>1, <2>2
<1>6. QED
  BY <1>3, <1>4, <1>5 DEF EvaluationInv

\* What holds while a file is searched.
LEMMA InSearch ==
  ASSUME EvaluationInv, Underway
  PROVE  /\ EvaluationTypes /\ SearchBounded /\ RevisionsKept
         /\ label \in {1, 2} /\ Now \in Range(Labels) /\ content[Now] \in Seq(Bytes)
         /\ Len(content[Now]) \in Nat
         /\ position \in Nat /\ limit \in Nat /\ remaining \in Nat
         /\ position <= limit /\ limit <= remaining
         /\ prepared.revision = 1 /\ revision[Now] \in Nat /\ revision[Now] >= 1
         /\ rewrites = 0 =>
              /\ revision[Now] = 1 /\ ~short
              /\ limit <= Len(content[Now])
              /\ limit = Min({Len(content[Now]), MaxArtifactBytes, remaining})
              /\ prepared.size = Len(content[Now])
              /\ expected[Now] \in Needles /\ replacement[Now] = "none"
              /\ Undisturbed(Now) => remaining = Allowance(Now)
              /\ Knows(content[Now], expected[Now], position)
<1>0. EvaluationTypes /\ SearchBounded /\ RevisionsKept /\ BudgetKept /\ SearchExact
  BY DEF EvaluationInv
<1>1. label \in {1, 2} /\ Now \in Range(Labels)
  BY <1>0, LabelsAre DEF EvaluationTypes
<1>2. content[Now] \in Seq(Bytes) /\ Len(content[Now]) \in Nat
  BY <1>0, <1>1, LenProperties DEF EvaluationTypes
<1>3. /\ position \in Nat /\ limit \in Nat /\ remaining \in Nat
      /\ position <= limit /\ limit <= remaining
      /\ prepared.revision = 1 /\ revision[Now] \in Nat /\ revision[Now] >= 1
  BY <1>0, <1>1 DEF EvaluationTypes, SearchBounded, RevisionsKept
<1>4. ASSUME rewrites = 0
      PROVE  /\ revision[Now] = 1 /\ ~short
             /\ limit <= Len(content[Now])
             /\ limit = Min({Len(content[Now]), MaxArtifactBytes, remaining})
             /\ prepared.size = Len(content[Now])
             /\ expected[Now] \in Needles /\ replacement[Now] = "none"
             /\ Undisturbed(Now) => remaining = Allowance(Now)
             /\ Knows(content[Now], expected[Now], position)
  <2>1. revision[Now] <= 1
    BY <1>0, <1>1, <1>4 DEF RevisionsKept
  <2>2. /\ ~short /\ limit = Min({Len(content[Now]), MaxArtifactBytes, remaining})
        /\ prepared.size = Len(content[Now])
        /\ expected[Now] # <<>> /\ replacement[Now] = "none"
        /\ Knows(content[Now], expected[Now], position)
    BY <1>0, <1>4 DEF SearchExact
  <2>3. limit <= Len(content[Now])
    BY <1>2, <1>3, <2>2, LimitsAre, MinOfThree
  <2>4. expected[Now] \in Needles
    BY <1>0, <1>1, <2>2 DEF EvaluationTypes
  <2>5. Undisturbed(Now) => remaining = Allowance(Now)
    BY <1>0 DEF BudgetKept, Underway
  <2>6. QED
    BY <1>3, <2>1, <2>2, <2>3, <2>4, <2>5
<1>5. QED
  BY <1>0, <1>1, <1>2, <1>3, <1>4

\* A file that was rewritten since it was prepared is not read.
LEMMA OpenArtifactStep ==
  ASSUME EvaluationInv, OpenArtifact
  PROVE  EvaluationInv'
<1>1. step = "open" /\ FilesKept /\ Underway /\ step # "over"
  BY DEF OpenArtifact, Underway
<1>2. CASE revision[Now] # prepared.revision
  <2>1. Conclude("artifact_changed") /\ "artifact_changed" \in Verdicts
    BY <1>2 DEF OpenArtifact, Verdicts
  <2>2. rewrites # 0 /\ ~Undisturbed(Now)
    BY <1>1, <1>2, InSearch DEF Undisturbed
  <2>3. QED
    BY <1>1, <2>1, <2>2, ConcludeStep DEF Undecided
<1>3. CASE revision[Now] = prepared.revision
  <2>1. /\ step' = IF limit = 0 THEN "verify" ELSE "read"
        /\ UNCHANGED <<label, prepared, search, remaining, verdict>>
    BY <1>3 DEF OpenArtifact
  <2>2. UNCHANGED <<limit, position, tail, awaiting, matched, invalid, short>>
    BY <2>1 DEF search
  <2>3. UNCHANGED <<content, revision, rewrites, expected, replacement>> /\ Now' = Now
    BY <1>1, <2>1, ArtifactsKept DEF Now
  <2>4. EvaluationTypes' /\ SearchBounded'
    BY <1>1, <2>1, <2>2, <2>3, InSearch DEF EvaluationTypes, SearchBounded, Underway
  <2>5. position = 0 /\ (limit # 0 => position < limit)
    BY <1>1, InSearch DEF SearchBounded
  <2>6. SearchExact'
    <3> SUFFICES ASSUME rewrites = 0
                 PROVE  SearchExact'
      BY <2>3 DEF SearchExact
    <3>1. PICK c, needle, p : c = content[Now] /\ needle = expected[Now] /\ p = position
      OBVIOUS
    <3>2. Knows(c, needle, p)
      BY <1>1, <3>1, InSearch
    <3>3. Knows(c, needle, p)'
      BY <2>2, <3>2 DEF Knows
    <3>4. Knows(content[Now], expected[Now], position)'
      BY <2>2, <2>3, <3>1, <3>3
    <3>5. /\ expected[Now] # <<>> /\ replacement[Now] = "none"
          /\ prepared.size = Len(content[Now])
          /\ limit = Min({Len(content[Now]), MaxArtifactBytes, remaining})
          /\ ~short
      BY <1>1 DEF EvaluationInv, SearchExact
    <3>6. QED
      BY <2>1, <2>2, <2>3, <2>5, <3>4, <3>5 DEF SearchExact
  <2>7. QED
    BY <1>1, <2>1, <2>2, <2>4, <2>6, SearchStep
<1>4. QED
  BY <1>2, <1>3

\* What a read returns: the next bytes, fewer than asked for only at the end of
\* the file; nothing only if the file has become shorter.
LEMMA ChunkTaken ==
  ASSUME EvaluationInv, ReadChunk
  PROVE  \/ /\ short' = TRUE /\ step' = "verify"
            /\ UNCHANGED <<position, tail, awaiting, matched, invalid>>
            /\ rewrites # 0
         \/ \E q \in Nat :
              /\ position < q /\ q <= limit /\ q <= Len(content[Now])
              /\ position' = q
              /\ invalid' = (invalid \/ ~Accepts(SubSeq(content[Now], position + 1, q), awaiting))
              /\ awaiting' = (content[Now][q] = "lead")
              /\ matched' = (matched \/ Occurs(expected[Now],
                                               tail \o SubSeq(content[Now], position + 1, q)))
              /\ tail' = Carried(tail \o SubSeq(content[Now], position + 1, q))
              /\ step' = IF q < limit THEN "read" ELSE "verify"
              /\ UNCHANGED short
<1>1. step = "read" /\ Underway
  BY DEF ReadChunk, Underway
<1>2. PICK c : c = content[Now]
  OBVIOUS
<1>3. c \in Seq(Bytes) /\ Len(c) \in Nat /\ position \in Nat /\ limit \in Nat /\ position <= limit
      /\ (rewrites = 0 => limit <= Len(c) /\ position < limit)
  BY <1>1, <1>2, InSearch DEF EvaluationInv, SearchExact
<1>4. PICK requested : requested = Min({ReadChunkBytes, limit - position})
  OBVIOUS
<1>5. /\ requested \in Nat /\ requested <= limit - position
      /\ position < limit => requested > 0
  BY <1>3, <1>4, LimitsAre, MinOfTwo
<1>6. PICK end : end = Min({position + requested, Len(c)})
  OBVIOUS
<1>7. /\ end \in Nat /\ end <= position + requested /\ end <= Len(c)
      /\ (end = position + requested \/ end = Len(c))
  BY <1>3, <1>5, <1>6, MinOfTwo
<1>8. PICK chunk : chunk = IF end <= position THEN <<>> ELSE SubSeq(c, position + 1, end)
  OBVIOUS
<1>9. IF chunk = <<>>
      THEN /\ short' = TRUE /\ step' = "verify"
           /\ UNCHANGED <<position, tail, awaiting, matched, invalid>>
      ELSE /\ position' = position + Len(chunk)
           /\ invalid' = (invalid \/ ~Accepts(chunk, awaiting))
           /\ awaiting' = (Last(chunk) = "lead")
           /\ matched' = (matched \/ Occurs(expected[Now], tail \o chunk))
           /\ tail' = Carried(tail \o chunk)
           /\ step' = (IF position' < limit THEN "read" ELSE "verify")
           /\ UNCHANGED short
  BY <1>2, <1>4, <1>6, <1>8, Zenon DEF ReadChunk
<1>10. CASE end <= position
  <2>1. chunk = <<>>
    BY <1>8, <1>10
  <2>2. rewrites # 0
    BY <1>3, <1>5, <1>7, <1>10
  <2>3. QED
    BY <1>9, <2>1, <2>2
<1>11. CASE position < end
  <2>1. chunk = SubSeq(c, position + 1, end)
    BY <1>3, <1>7, <1>8, <1>11
  <2>2. /\ chunk \in Seq(Bytes) /\ Len(chunk) = end - position
        /\ \A i \in 1 .. end - position : chunk[i] = c[position + i]
    <3>1. PICK p \in Nat : p = position
      BY <1>3
    <3>2. c \in Seq(Bytes) /\ end \in Nat /\ p <= end /\ end <= Len(c)
      BY <1>3, <1>7, <1>11, <3>1
    <3>3. /\ SubSeq(c, p + 1, end) \in Seq(Bytes) /\ Len(SubSeq(c, p + 1, end)) = end - p
          /\ \A i \in 1 .. end - p : SubSeq(c, p + 1, end)[i] = c[p + i]
      BY <3>2, ChunkIs
    <3>4. QED
      BY <2>1, <3>1, <3>3, Zenon
  <2>3. chunk # <<>>
    BY <1>3, <1>7, <1>11, <2>2, EmptySeq
  <2>4. position + Len(chunk) = end /\ Last(chunk) = c[end]
    <3>1. end - position \in 1 .. end - position /\ position + (end - position) = end
      BY <1>3, <1>7, <1>11
    <3>2. QED
      BY <2>2, <3>1 DEF Last
  <2>5. end <= limit
    BY <1>3, <1>5, <1>7
  <2>6. QED
    BY <1>2, <1>7, <1>9, <1>11, <2>1, <2>3, <2>4, <2>5
<1>12. end <= position \/ position < end
  BY <1>3, <1>7
<1>13. QED
  BY <1>10, <1>11, <1>12, Zenon

\* A chunk more is known, whatever the borders of the chunks.
LEMMA KnowsMore ==
  ASSUME NEW c \in Seq(Bytes), NEW p \in Nat, NEW q \in Nat, p < q, q <= Len(c),
         NEW needle \in Needles, tail \in Seq(Bytes), {awaiting, matched, invalid} \subseteq BOOLEAN,
         Knows(c, needle, p),
         invalid' = (invalid \/ ~Accepts(SubSeq(c, p + 1, q), awaiting)),
         awaiting' = (c[q] = "lead"),
         matched' = (matched \/ Occurs(needle, tail \o SubSeq(c, p + 1, q))),
         tail' = Carried(tail \o SubSeq(c, p + 1, q))
  PROVE  Knows(c, needle, q)'
<1>1. needle \in Seq(Bytes) /\ Len(needle) \in 1 .. MaxNeedleBytes
  BY EvaluationAssumption
<1>2. Window(tail, c, p)
  BY DEF Knows, Window
<1>3. PICK t, t2 : t = tail /\ t2 = tail'
  OBVIOUS
<1>4. Window(t2, c, q)
  BY <1>2, <1>3, CarriedIsWindow
<1>5. Occurs(needle, SubSeq(c, 1, q)) <=>
        Occurs(needle, SubSeq(c, 1, p)) \/ Occurs(needle, t \o SubSeq(c, p + 1, q))
  BY <1>1, <1>2, <1>3, OccursInWindow
<1>6. matched' <=> Occurs(needle, SubSeq(c, 1, q))
  <2>1. matched <=> Occurs(needle, SubSeq(c, 1, p))
    BY DEF Knows
  <2>2. QED
    BY <1>3, <1>5, <2>1
<1>7. Accepts(SubSeq(c, 1, q), FALSE) <=>
        /\ Accepts(SubSeq(c, 1, p), FALSE)
        /\ Accepts(SubSeq(c, p + 1, q), p > 0 /\ c[p] = "lead")
  BY AcceptsChunk
<1>8. invalid' <=> ~ Accepts(SubSeq(c, 1, q), FALSE)
  <2>1. awaiting = (p > 0 /\ c[p] = "lead")
    BY DEF Knows
  <2>2. invalid <=> ~ Accepts(SubSeq(c, 1, p), FALSE)
    BY DEF Knows
  <2>3. QED
    BY <1>7, <2>1, <2>2
<1>9. awaiting' <=> q > 0 /\ c[q] = "lead"
  <2>1. q > 0
    OBVIOUS
  <2>2. QED
    BY <2>1
<1>10. QED
  BY <1>3, <1>4, <1>6, <1>8, <1>9 DEF Knows, Window

\* A read goes on with the next bytes.
LEMMA ReadArtifactStep ==
  ASSUME EvaluationInv, ReadChunk
  PROVE  EvaluationInv'
<1>1. step = "read" /\ FilesKept /\ Underway /\ UNCHANGED <<label, prepared, limit, remaining, verdict>>
  BY DEF ReadChunk, Underway
<1>2. UNCHANGED <<content, revision, rewrites, expected, replacement>> /\ Now' = Now
  BY <1>1, ArtifactsKept DEF Now
<1>3. PICK c, needle : c = content[Now] /\ needle = expected[Now]
  OBVIOUS
<1>4. /\ EvaluationTypes /\ SearchBounded /\ c \in Seq(Bytes) /\ Len(c) \in Nat
      /\ position \in Nat /\ limit \in Nat /\ remaining \in Nat
      /\ position <= limit /\ limit <= remaining
      /\ rewrites = 0 => /\ ~short /\ needle \in Needles
                         /\ prepared.size = Len(c) /\ replacement[Now] = "none"
                         /\ limit = Min({Len(c), MaxArtifactBytes, remaining})
                         /\ Knows(c, needle, position)
  BY <1>1, <1>3, InSearch
<1>5. needle # <<>> \/ rewrites # 0
  BY <1>1, <1>3 DEF EvaluationInv, SearchExact
<1>6. CASE /\ short' = TRUE /\ step' = "verify"
           /\ UNCHANGED <<position, tail, awaiting, matched, invalid>>
           /\ rewrites # 0
  <2>1. EvaluationTypes' /\ SearchBounded' /\ SearchExact'
    BY <1>1, <1>2, <1>4, <1>6 DEF EvaluationTypes, SearchBounded, SearchExact, Underway
  <2>2. QED
    BY <1>1, <1>6, <2>1, SearchStep
<1>7. ASSUME NEW q \in Nat,
             position < q, q <= limit, q <= Len(c),
             position' = q,
             invalid' = (invalid \/ ~Accepts(SubSeq(c, position + 1, q), awaiting)),
             awaiting' = (c[q] = "lead"),
             matched' = (matched \/ Occurs(needle, tail \o SubSeq(c, position + 1, q))),
             tail' = Carried(tail \o SubSeq(c, position + 1, q)),
             step' = IF q < limit THEN "read" ELSE "verify",
             UNCHANGED short
      PROVE  EvaluationInv'
  <2>1. tail' \in Seq(Bytes)
    <3>1. PICK w : w = tail \o SubSeq(c, position + 1, q)
      OBVIOUS
    <3>2. w \in Seq(Bytes)
      <4>1. SubSeq(c, position + 1, q) \in Seq(Bytes)
        BY <1>4, <1>7, ChunkIs
      <4>2. tail \in Seq(Bytes)
        BY <1>4 DEF EvaluationTypes
      <4>3. QED
        BY <3>1, <4>1, <4>2, ConcatProperties
    <3>3. QED
      BY <1>7, <3>1, <3>2, CarriedType
  <2>2. EvaluationTypes'
    <3>1. {awaiting', matched', invalid', short'} \subseteq BOOLEAN
      BY <1>4, <1>7 DEF EvaluationTypes
    <3>2. step' \in {"begin", "open", "read", "verify", "over"} /\ position' \in Nat
      BY <1>7
    <3>3. QED
      BY <1>1, <1>2, <1>4, <2>1, <3>1, <3>2 DEF EvaluationTypes
  <2>3. SearchBounded'
    BY <1>1, <1>4, <1>7 DEF SearchBounded, Underway
  <2>4. SearchExact'
    <3> SUFFICES ASSUME rewrites = 0
                 PROVE  SearchExact'
      BY <1>2 DEF SearchExact
    <3>1. PICK p \in Nat : p = position
      BY <1>4
    <3>2. tail \in Seq(Bytes) /\ {awaiting, matched, invalid} \subseteq BOOLEAN
      BY <1>4 DEF EvaluationTypes
    <3>3. Knows(c, needle, q)'
      BY <1>4, <1>7, <3>1, <3>2, KnowsMore
    <3>4. Knows(content[Now], expected[Now], position)'
      BY <1>2, <1>3, <1>7, <3>3
    <3>5. (q < limit \/ q = limit) /\ (q < limit => step' = "read")
          /\ (~ (q < limit) => step' = "verify")
      BY <1>4, <1>7
    <3>6. QED
      BY <1>1, <1>2, <1>3, <1>4, <1>5, <1>7, <3>4, <3>5 DEF SearchExact
  <2>5. step' \in {"open", "read", "verify"}
    BY <1>7
  <2>6. QED
    BY <1>1, <2>2, <2>3, <2>4, <2>5, SearchStep
<1>8. QED
  BY <1>3, <1>6, <1>7, ChunkTaken

\* The verdict of a file that was read to its limit.
LEMMA VerdictIs ==
  ASSUME EvaluationInv, step = "verify", Undisturbed(Now)
  PROVE  RightVerdict(Now, IF InvalidUtf8 THEN "artifact_invalid_utf8"
                           ELSE IF matched THEN "met"
                           ELSE IF ~ScanComplete THEN "scan_incomplete"
                           ELSE "assertion_mismatch")
<1>1. Underway
  BY DEF Underway
<1>2. PICK c, needle, n : c = content[Now] /\ needle = expected[Now] /\ n = Len(c)
  OBVIOUS
<1>3. /\ c \in Seq(Bytes) /\ n \in Nat /\ position \in Nat /\ limit \in Nat
      /\ position = limit /\ limit <= n /\ ~short
      /\ limit = Min({n, MaxArtifactBytes, remaining}) /\ prepared.size = n
      /\ remaining = Allowance(Now) /\ needle \in Needles
      /\ Knows(c, needle, position)
  BY <1>1, <1>2, InSearch DEF EvaluationInv, SearchExact, Undisturbed
<1>4. PICK s : s = SubSeq(c, 1, position)
  OBVIOUS
<1>5. Searched(Now) = s
  BY <1>2, <1>3, <1>4 DEF Searched
<1>6. Len(s) = position /\ s \in Seq(Bytes) /\ (position > 0 => s[Len(s)] = c[position])
  <2>1. Len(s) = position /\ s \in Seq(Bytes) /\ \A i \in 1 .. position : s[i] = c[i]
    <3>1. PICK p \in Nat : p = position
      BY <1>3
    <3>2. p <= Len(c) /\ p - 1 + 1 = p /\ \A i \in 1 .. p : 1 + i - 1 = i
      <4>1. position <= n
        BY <1>3
      <4>2. p <= Len(c)
        BY <1>2, <3>1, <4>1
      <4>3. QED
        BY <3>1, <4>2
    <3>3. PICK t : t = SubSeq(c, 1, p)
      OBVIOUS
    <3>4. Len(t) = p - 1 + 1 /\ t \in Seq(Bytes) /\ \A i \in 1 .. p - 1 + 1 : t[i] = c[1 + i - 1]
      BY <1>3, <3>2, <3>3, Part
    <3>5. Len(t) = p /\ \A i \in 1 .. p : t[i] = c[i]
      BY <3>2, <3>4
    <3>6. QED
      BY <1>4, <3>1, <3>3, <3>4, <3>5
  <2>2. position > 0 => position \in 1 .. position
    BY <1>3
  <2>3. QED
    BY <2>1, <2>2
<1>7. ScanComplete <=> Len(s) = n
  BY <1>3, <1>6 DEF ScanComplete
<1>8. /\ matched <=> Occurs(needle, s)
      /\ invalid <=> ~Accepts(s, FALSE)
      /\ awaiting <=> position > 0 /\ c[position] = "lead"
  BY <1>3, <1>4 DEF Knows
<1>9. awaiting <=> s # <<>> /\ Last(s) = "lead"
  <2>1. s # <<>> <=> position > 0
    BY <1>3, <1>6, EmptySeq
  <2>2. QED
    BY <1>6, <1>8, <2>1 DEF Last
<1>10. ~InvalidUtf8 <=> ValidText(s, Len(s) = n)
  BY <1>3, <1>7, <1>8, <1>9 DEF InvalidUtf8, ValidText
<1> HIDE DEF InvalidUtf8, ScanComplete
<1>11. QED
  BY <1>2, <1>5, <1>7, <1>8, <1>10 DEF RightVerdict

\* The verdict, and what is left of the budget.
LEMMA VerifyArtifactStep ==
  ASSUME EvaluationInv, VerifyArtifact
  PROVE  EvaluationInv'
<1>1. step = "verify" /\ FilesKept /\ Underway /\ step # "over"
  BY DEF VerifyArtifact, Underway
<1>2. PICK v : v = IF revision[Now] # prepared.revision THEN "artifact_changed"
                   ELSE IF short THEN "artifact_unreadable"
                   ELSE IF InvalidUtf8 THEN "artifact_invalid_utf8"
                   ELSE IF matched THEN "met"
                   ELSE IF ~ScanComplete THEN "scan_incomplete"
                   ELSE "assertion_mismatch"
  OBVIOUS
<1>3. Conclude(v) /\ v \in Verdicts
  BY <1>2 DEF VerifyArtifact, Verdicts
<1>4. revision[Now] > 1 => v \in Undecided
  <2>1. prepared.revision = 1 /\ revision[Now] \in Nat
    BY <1>1, InSearch
  <2>2. QED
    BY <1>2, <2>1 DEF Undecided
<1>5. Undisturbed(Now) => RightVerdict(Now, v)
  <2> SUFFICES ASSUME Undisturbed(Now) PROVE RightVerdict(Now, v)
    OBVIOUS
  <2>1. revision[Now] = prepared.revision /\ ~short
    BY <1>1, InSearch DEF Undisturbed
  <2>2. v = IF InvalidUtf8 THEN "artifact_invalid_utf8"
            ELSE IF matched THEN "met"
            ELSE IF ~ScanComplete THEN "scan_incomplete"
            ELSE "assertion_mismatch"
    BY <1>2, <2>1
  <2>3. QED
    BY <1>1, <2>2, VerdictIs
<1>6. rewrites = 0 /\ label = 1 => remaining - position = Allowance("stderr")
  <2> SUFFICES ASSUME rewrites = 0, label = 1
               PROVE  remaining - position = Allowance("stderr")
    OBVIOUS
  <2>1. Now = "stdout"
    BY LabelsAre
  <2>2. /\ EvaluationTypes /\ remaining = Allowance("stdout")
        /\ expected["stdout"] # <<>> /\ replacement["stdout"] = "none"
        /\ position = limit
        /\ limit = Min({Len(content["stdout"]), MaxArtifactBytes, remaining})
    BY <1>1, <2>1, InSearch DEF EvaluationInv, SearchExact, Undisturbed
  <2>3. QED
    BY <2>2, AllowanceIs
<1>7. QED
  BY <1>1, <1>3, <1>4, <1>5, <1>6, ConcludeStep

\* A file that could not be read to its end: an error for it, and no more said
\* of the budget.
LEMMA ArtifactFailsStep ==
  ASSUME EvaluationInv, ArtifactFails
  PROVE  EvaluationInv'
<1>1. Underway /\ FilesKept /\ step # "over" /\ Conclude("artifact_unreadable")
  BY DEF ArtifactFails, Underway
<1>2. "artifact_unreadable" \in Verdicts /\ "artifact_unreadable" \in Undecided
  BY DEF Verdicts, Undecided
<1>3. RightVerdict(Now, "artifact_unreadable")
  BY DEF RightVerdict
<1>4. rewrites = 0 /\ label = 1 => revision["stdout"] = 1
  BY <1>1, LabelsAre, InSearch
<1>5. QED
  BY <1>1, <1>2, <1>3, <1>4, ConcludeStep

\* The invariant holds while an assertion is evaluated.
LEMMA EvaluationInvariance == EvaluationSpec => []EvaluationInv
<1>1. EvaluationInv /\ [EvaluationNext]_evaluationVars => EvaluationInv'
  <2> SUFFICES ASSUME EvaluationInv, [EvaluationNext]_evaluationVars PROVE EvaluationInv'
    OBVIOUS
  <2>1. CASE UNCHANGED evaluationVars
    <3>1. /\ UNCHANGED <<content, revision, rewrites, expected, replacement, label, step,
                         prepared, limit, position, tail, awaiting, matched, invalid, short,
                         remaining, verdict>>
      BY <2>1 DEF evaluationVars, artifact, expectation, search
    <3>2. EvaluationTypes' /\ SearchBounded' /\ RevisionsKept'
      BY <3>1 DEF EvaluationInv, EvaluationTypes, SearchBounded, RevisionsKept, Underway,
                  Concluded, Now, Undecided
    <3>3. Now' = Now /\ FilesKept
      BY <3>1 DEF Now, FilesKept, artifact, expectation
    <3>4. BudgetKept'
      BY <3>1, <3>3, ArtifactsKept DEF EvaluationInv, BudgetKept, Undisturbed, ReadFailed
    <3>5. SearchExact'
      BY <3>1, <3>3 DEF EvaluationInv, SearchExact, Knows, Underway
    <3>6. VerdictsRight'
      <4> SUFFICES ASSUME NEW x \in Range(Labels), Concluded(x)', Undisturbed(x)'
                   PROVE  RightVerdict(x, verdict[x])'
        BY DEF VerdictsRight
      <4>1. PICK w : w = verdict[x]
        OBVIOUS
      <4>2. Concluded(x) /\ Undisturbed(x)
        BY <3>1 DEF Concluded, Undisturbed, ReadFailed
      <4>3. RightVerdict(x, w)'
        BY <3>3, <4>1, <4>2, ArtifactsKept DEF EvaluationInv, VerdictsRight
      <4>4. QED
        BY <3>1, <4>1, <4>3
    <3>7. QED
      BY <3>2, <3>4, <3>5, <3>6 DEF EvaluationInv
  <2>2. QED
    BY <2>1, RewriteStep, PrepareArtifactStep, OpenArtifactStep, ReadArtifactStep,
       VerifyArtifactStep, ArtifactFailsStep DEF EvaluationNext
<1>2. QED
  BY <1>1, EvaluationInitially, PTL DEF EvaluationSpec

\* For any two artifacts, needles, chunk size and limits: an expectation that
\* nobody disturbs gets the verdict of one search of the permitted prefix,
\* although the code reads it in chunks and decodes them one by one; a file
\* that was rewritten gets none; and the budget of both is kept.
THEOREM VerdictsAreExact == EvaluationSpec => []VerdictExact
<1>1. EvaluationInv => VerdictExact
  <2> SUFFICES ASSUME EvaluationInv PROVE VerdictExact
    OBVIOUS
  <2>0. EvaluationTypes /\ SearchBounded /\ RevisionsKept /\ VerdictsRight
    BY DEF EvaluationInv
  <2>1. position <= remaining
    BY <2>0 DEF EvaluationTypes, SearchBounded
  <2>2. ASSUME step = "over", rewrites = 0, NEW x \in Range(Labels), expected[x] # <<>>,
               replacement[x] = "none", revision[x] = 1, Allowance(x) > 0,
               ~ReadFailed(x), ~ReadFailed("stdout")
        PROVE  LET whole == Len(Searched(x)) = Len(content[x])
                   text == ValidText(Searched(x), whole)
                   found == Occurs(expected[x], Searched(x))
               IN /\ verdict[x] = "met" <=> text /\ found
                  /\ verdict[x] = "assertion_mismatch" <=> text /\ ~found /\ whole
                  /\ verdict[x] = "scan_incomplete" <=> text /\ ~found /\ ~whole
    <3>1. RightVerdict(x, verdict[x])
      BY <2>0, <2>2 DEF VerdictsRight, Concluded, Undisturbed
    <3>2. verdict[x] # "artifact_unreadable"
      BY <2>2 DEF ReadFailed
    <3>3. QED
      BY <2>2, <3>1, <3>2, Zenon DEF RightVerdict
  <2>3. ASSUME step = "over", NEW x \in Range(Labels), revision[x] > 1
        PROVE  verdict[x] \in {"artifact_changed", "artifact_unreadable"}
    BY <2>0, <2>3 DEF RevisionsKept, Concluded, Undecided
  <2>4. QED
    BY <2>1, <2>2, <2>3, Zenon DEF VerdictExact
<1>2. QED
  BY <1>1, EvaluationInvariance, PTL

-----------------------------------------------------------------------------
(* TraceTrim: the trace of a proxy that is too large.                      *)

Bare == CapturesOmitted(sealed)
Ids == CallIds(sealed)
Shortened(n) == WithoutCallPrefix(Bare, Ids, n)

TrimTypes ==
  /\ stage \in {"measure", "omit", "remeasure", "search", "collapse", "observe", "written"}
  /\ sealed \in Seq(TraceEvent) /\ overhead \in Nat
  /\ low \in Nat /\ high \in Nat /\ smallestFit \in Nat
  /\ reason \in BOOLEAN

\* What the search of _trim_trace knows: fewer calls than low do not suffice,
\* one more than high does unless that would be more than there are.
SearchKept ==
  /\ callIds = Ids
  /\ 1 <= low /\ low <= high + 1 /\ high <= Len(Ids)
  /\ \A n \in 0 .. low - 1 : ~Fits(Shortened(n))
  /\ \/ smallestFit = 0 /\ high = Len(Ids)
     \/ smallestFit = high + 1 /\ high < Len(Ids) /\ Fits(Shortened(smallestFit))

\* What trimming promises of the events, before the observation is replaced.
Trimmed ==
  LET fitting == {n \in 0 .. Len(Ids) : Fits(Shortened(n))}
  IN /\ IF Fits(sealed) THEN events = sealed
        ELSE IF fitting # {} THEN events = Shortened(Min(fitting))
        ELSE events = <<Head(Bare), Last(Bare)>>
     /\ eventsDropped = Len(sealed) - Len(events)
     /\ omissions = IF Fits(sealed) THEN 0
                    ELSE Cardinality({i \in DOMAIN sealed : Captured(sealed[i])})

ValuesOmitted ==
  /\ events = Bare /\ ~Fits(sealed) /\ eventsDropped = 0 /\ ~reason
  /\ omissions = Cardinality({i \in DOMAIN sealed : Captured(sealed[i])})

TrimPlaces ==
  /\ stage \in {"measure", "omit"} =>
       events = sealed /\ omissions = 0 /\ eventsDropped = 0 /\ ~reason
  /\ stage = "omit" => ~Fits(sealed)
  /\ stage \in {"measure", "omit", "remeasure"} => smallestFit = 0
  /\ stage \in {"remeasure", "search", "collapse"} => ValuesOmitted
  /\ stage = "search" => SearchKept
  /\ stage = "collapse" => \A n \in 0 .. Len(Ids) : ~Fits(Shortened(n))
  /\ stage \in {"observe", "written"} => Trimmed
  /\ stage = "written" => noted = reason

TrimInv == TrimTypes /\ TrimPlaces

-----------------------------------------------------------------------------
(* Computations along a sequence.                                          *)

\* What holds of 0 and of each position after one where it holds, holds of all.
LEMMA PositionsCounted ==
  ASSUME NEW n \in Nat, NEW S, 0 \in S, \A i \in 1 .. n : i - 1 \in S => i \in S
  PROVE  \A i \in 0 .. n : i \in S
<1> DEFINE D == {i \in 0 .. n : i \notin S}
           R == {p \in Nat \X Nat : p[1] < p[2]}
<1> SUFFICES ASSUME D # {} PROVE FALSE
  OBVIOUS
<1>1. D \subseteq Nat /\ IsWellFoundedOn(R, Nat)
  <2>1. IsWellFoundedOn(R, Nat)
    BY NatLessThanWellFounded, Zenon DEF OpToRel
  <2>2. QED
    BY <2>1
<1>2. \A x, y \in Nat : y < x => <<y, x>> \in R
  OBVIOUS
<1>3. \A i \in D : /\ i \in 1 .. n /\ i \notin S /\ (i - 1 \in S \/ i - 1 \in D)
                  /\ i - 1 \in Nat /\ i - 1 < i
  OBVIOUS
<1> HIDE DEF D, R
<1>4. PICK m \in D : \A y \in D : ~ (<<y, m>> \in R)
  BY <1>1, WFMin, Zenon
<1>5. m - 1 \notin D
  <2>1. m \in Nat /\ m - 1 \in Nat /\ m - 1 < m
    BY <1>1, <1>3
  <2>2. <<m - 1, m>> \in R
    BY <1>2, <2>1
  <2>3. QED
    BY <1>4, <2>2
<1>6. QED
  BY <1>3, <1>4, <1>5

Computable(n, T, z, advance) ==
  \E f \in [0 .. n -> T] : f[0] = z /\ \A i \in 1 .. n : f[i] = advance[<<i, f[i - 1]>>]

\* A value for each position can be computed from the one before it.
LEMMA RecursionExists ==
  ASSUME NEW n \in Nat, NEW T, NEW z \in T, NEW advance \in [(1 .. n) \X T -> T]
  PROVE  Computable(n, T, z, advance)
<1> DEFINE Computed(m, f) == f[0] = z /\ \A i \in 1 .. m : f[i] = advance[<<i, f[i - 1]>>]
           S == {m \in 0 .. n : \E f \in [0 .. m -> T] : Computed(m, f)}
<1>1. 0 \in S
  <2>1. [i \in 0 .. 0 |-> z] \in [0 .. 0 -> T] /\ Computed(0, [i \in 0 .. 0 |-> z])
    OBVIOUS
  <2>2. 0 \in 0 .. n
    OBVIOUS
  <2> HIDE DEF Computed
  <2>3. QED
    BY <2>1, <2>2
<1>2. ASSUME NEW m \in 1 .. n, m - 1 \in S PROVE m \in S
  <2>1. PICK g \in [0 .. m - 1 -> T] : Computed(m - 1, g)
    BY <1>2
  <2> DEFINE f == [i \in 0 .. m |-> IF i = m THEN advance[<<m, g[m - 1]>>] ELSE g[i]]
  <2>2. f \in [0 .. m -> T]
    BY <2>1
  <2>3. f[0] = z
    BY <2>1
  <2>4. ASSUME NEW i \in 1 .. m PROVE f[i] = advance[<<i, f[i - 1]>>]
    <3>1. f[i - 1] = g[i - 1]
      OBVIOUS
    <3>2. CASE i = m
      <4>1. f[i] = advance[<<i, g[i - 1]>>]
        BY <3>2
      <4>2. QED
        BY <3>1, <4>1, Zenon
    <3>3. CASE i # m
      BY <2>1, <3>1, <3>3
    <3>4. QED
      BY <3>2, <3>3
  <2>5. Computed(m, f)
    BY <2>3, <2>4
  <2>6. m \in 0 .. n
    OBVIOUS
  <2> HIDE DEF Computed, f
  <2>7. QED
    BY <2>2, <2>5, <2>6
<1> HIDE DEF S
<1>3. n \in S
  BY <1>1, <1>2, PositionsCounted
<1>4. QED
  BY <1>3 DEF S, Computable

Adds(f, s) ==
  /\ f[0] = overhead
  /\ \A i \in 1 .. Len(s) : f[i] = f[i - 1] + s[i].bytes + s[i].capture

\* The bytes of a trace can be added up, and there is one result.
LEMMA SizeAddsUp ==
  ASSUME NEW s \in Seq(TraceEvent), overhead \in Nat
  PROVE  \E f \in [0 .. Len(s) -> Nat] : Adds(f, s) /\ EncodedSize(s) = f[Len(s)]
<1> DEFINE n == Len(s)
           next(h) == [i \in 0 .. n |-> IF i = 0 THEN overhead
                                        ELSE h[i - 1] + s[i].bytes + s[i].capture]
           advance == [p \in (1 .. n) \X Nat |-> p[2] + s[p[1]].bytes + s[p[1]].capture]
           size == CHOOSE h : h = next(h)
<1>1. n \in Nat /\ DOMAIN s = 1 .. n
  OBVIOUS
<1>2. advance \in [(1 .. n) \X Nat -> Nat]
  <2>1. \A i \in 1 .. n, b \in Nat : b + s[i].bytes + s[i].capture \in Nat
    <3>1. \A i \in 1 .. n : s[i] \in TraceEvent
      BY <1>1
    <3>2. \A e \in TraceEvent, b \in Nat : b + e.bytes + e.capture \in Nat
      BY DEF TraceEvent
    <3>3. QED
      BY <3>1, <3>2
  <2>2. \A p \in (1 .. n) \X Nat : p[1] \in 1 .. n /\ p[2] \in Nat
    OBVIOUS
  <2>3. QED
    BY <2>1, <2>2
<1>3. PICK f \in [0 .. n -> Nat] :
        f[0] = overhead /\ \A i \in 1 .. n : f[i] = advance[<<i, f[i - 1]>>]
  <2>1. PICK o \in Nat : o = overhead
    OBVIOUS
  <2> HIDE DEF advance, n
  <2>2. Computable(n, Nat, o, advance)
    BY <1>1, <1>2, <2>1, RecursionExists
  <2>3. QED
    BY <2>1, <2>2, Zenon DEF Computable
<1>4. ASSUME NEW i \in 1 .. n PROVE f[i] = f[i - 1] + s[i].bytes + s[i].capture
  <2>1. f[i - 1] \in Nat
    BY <1>1
  <2>2. QED
    BY <1>3, <2>1
<1>5. f = next(f)
  BY <1>3, <1>4
<1>6. size = next(size)
  BY <1>5, Zenon
<1>7. EncodedSize(s) = size[n]
  BY DEF EncodedSize
<1>8. size \in [0 .. n -> Nat]
  <2> DEFINE S == {i \in 0 .. n : size[i] = f[i]}
  <2> HIDE DEF size
  <2>1. \A i \in 0 .. n : size[i] = IF i = 0 THEN overhead
                                    ELSE size[i - 1] + s[i].bytes + s[i].capture
    BY <1>6
  <2>2. 0 \in S
    BY <1>1, <1>3, <2>1
  <2>3. \A i \in 1 .. n : i - 1 \in S => i \in S
    BY <1>1, <1>4, <2>1
  <2> HIDE DEF S
  <2>4. \A i \in 0 .. n : i \in S
    BY <1>1, <2>2, <2>3, PositionsCounted
  <2>5. \A i \in 0 .. n : size[i] = f[i]
    BY <2>4 DEF S
  <2>6. QED
    BY <1>6, <2>5
<1>9. Adds(size, s)
  <2> HIDE DEF size
  <2>1. \A i \in 0 .. n : size[i] = IF i = 0 THEN overhead
                                    ELSE size[i - 1] + s[i].bytes + s[i].capture
    BY <1>6, Zenon
  <2>2. size[0] = overhead
    BY <1>1, <2>1
  <2>3. \A i \in 1 .. n : size[i] = size[i - 1] + s[i].bytes + s[i].capture
    BY <1>1, <2>1
  <2>4. QED
    BY <2>2, <2>3, Zenon DEF Adds
<1>10. QED
  BY <1>7, <1>8, <1>9

LEMMA SizeIs ==
  ASSUME NEW s \in Seq(TraceEvent), overhead \in Nat, NEW f, Adds(f, s)
  PROVE  EncodedSize(s) = f[Len(s)]
<1> DEFINE n == Len(s)
<1>1. n \in Nat
  OBVIOUS
<1>2. PICK g \in [0 .. n -> Nat] : Adds(g, s) /\ EncodedSize(s) = g[n]
  BY SizeAddsUp
<1> DEFINE S == {i \in 0 .. n : g[i] = f[i]}
<1>3. 0 \in S
  BY <1>1, <1>2 DEF Adds
<1>4. \A i \in 1 .. n : i - 1 \in S => i \in S
  BY <1>1, <1>2 DEF Adds
<1> HIDE DEF S
<1>5. n \in S
  <2> HIDE DEF n
  <2>1. \A i \in 0 .. n : i \in S
    BY <1>1, <1>3, <1>4, PositionsCounted
  <2>2. QED
    BY <1>1, <2>1
<1>6. QED
  BY <1>2, <1>5 DEF S

\* One event more.
LEMMA SizeOfMore ==
  ASSUME overhead \in Nat, NEW s \in Seq(TraceEvent), NEW e \in TraceEvent
  PROVE  /\ EncodedSize(s) \in Nat
         /\ EncodedSize(Append(s, e)) = EncodedSize(s) + e.bytes + e.capture
<1> DEFINE n == Len(s)
           t == Append(s, e)
<1>1. n \in Nat /\ t \in Seq(TraceEvent) /\ Len(t) = n + 1
  OBVIOUS
<1>2. t[n + 1] = e /\ \A i \in 1 .. n : t[i] = s[i]
  OBVIOUS
<1> HIDE DEF n, t
<1>3. PICK f \in [0 .. n -> Nat] : Adds(f, s) /\ EncodedSize(s) = f[n]
  BY SizeAddsUp DEF n
<1> DEFINE g == [i \in 0 .. n + 1 |-> IF i = n + 1 THEN f[n] + e.bytes + e.capture ELSE f[i]]
<1>4. Adds(g, t)
  <2>1. g[0] = overhead
    BY <1>1, <1>3 DEF Adds
  <2>2. ASSUME NEW i \in 1 .. n + 1 PROVE g[i] = g[i - 1] + t[i].bytes + t[i].capture
    <3>1. CASE i = n + 1
      BY <1>1, <1>2, <3>1
    <3>2. CASE i # n + 1
      <4>1. i \in 1 .. n /\ g[i] = f[i] /\ g[i - 1] = f[i - 1] /\ t[i] = s[i]
        BY <1>1, <1>2, <3>2
      <4>2. f[i] = f[i - 1] + s[i].bytes + s[i].capture
        BY <1>3, <4>1 DEF Adds, n
      <4>3. QED
        BY <4>1, <4>2
    <3>3. QED
      BY <3>1, <3>2
  <2>3. QED
    BY <1>1, <2>1, <2>2 DEF Adds
<1>5. EncodedSize(t) = g[n + 1]
  <2> HIDE DEF g
  <2>1. QED
    BY <1>1, <1>4, SizeIs
<1>6. QED
  BY <1>1, <1>3, <1>5 DEF t

Keeps(k, s, D) ==
  /\ k[0] = <<>>
  /\ \A i \in 1 .. Len(s) :
       k[i] = IF s[i].call \in D THEN k[i - 1] ELSE Append(k[i - 1], s[i])

\* The events that are left can be collected along the trace.
LEMMA KeptCollected ==
  ASSUME NEW s \in Seq(TraceEvent), NEW D
  PROVE  \E k \in [0 .. Len(s) -> Seq(TraceEvent)] :
           Keeps(k, s, D) /\ WithoutCalls(s, D) = k[Len(s)]
<1> DEFINE n == Len(s)
           T == Seq(TraceEvent)
           more(i, t) == IF s[i].call \in D THEN t ELSE Append(t, s[i])
           next(h) == [i \in 0 .. n |-> IF i = 0 THEN <<>> ELSE more(i, h[i - 1])]
           advance == [p \in (1 .. n) \X T |-> more(p[1], p[2])]
           kept == CHOOSE h : h = next(h)
<1>1. n \in Nat /\ <<>> \in T /\ \A i \in 1 .. n : s[i] \in TraceEvent
  OBVIOUS
<1>2. \A i \in 1 .. n, t \in T : more(i, t) \in T
  BY <1>1
<1>3. advance \in [(1 .. n) \X T -> T] /\ \A i \in 1 .. n, t \in T : advance[<<i, t>>] = more(i, t)
  <2> HIDE DEF more, T
  <2>1. QED
    BY <1>2
<1> HIDE DEF more, T, n
<1>4. Computable(n, T, <<>>, advance)
  <2> HIDE DEF advance
  <2>1. QED
    BY <1>1, <1>3, RecursionExists
<1>5. PICK f \in [0 .. n -> T] :
        f[0] = <<>> /\ \A i \in 1 .. n : f[i] = advance[<<i, f[i - 1]>>]
  BY <1>4 DEF Computable
<1>6. ASSUME NEW i \in 1 .. n PROVE f[i] = more(i, f[i - 1])
  <2>1. f[i - 1] \in T
    BY <1>1
  <2> HIDE DEF advance
  <2>2. QED
    BY <1>3, <1>5, <2>1
<1>7. f = next(f)
  BY <1>5, <1>6
<1>8. kept = next(kept)
  BY <1>7, Zenon
<1>9. WithoutCalls(s, D) = kept[n]
  BY DEF WithoutCalls, n, more
<1> HIDE DEF kept
<1>10. \A i \in 0 .. n : kept[i] = IF i = 0 THEN <<>> ELSE more(i, kept[i - 1])
  BY <1>8
<1>11. kept \in [0 .. n -> T]
  <2> DEFINE S == {i \in 0 .. n : kept[i] \in T}
  <2>1. 0 \in S
    BY <1>1, <1>10
  <2>2. \A i \in 1 .. n : i - 1 \in S => i \in S
    BY <1>1, <1>2, <1>10
  <2> HIDE DEF S
  <2>3. \A i \in 0 .. n : i \in S
    BY <1>1, <2>1, <2>2, PositionsCounted
  <2>4. \A i \in 0 .. n : kept[i] \in T
    BY <2>3 DEF S
  <2>5. QED
    BY <1>8, <2>4
<1>12. Keeps(kept, s, D)
  BY <1>1, <1>10 DEF Keeps, n, more
<1>13. QED
  BY <1>9, <1>11, <1>12 DEF n, T

\* Dropping nothing changes nothing.
LEMMA NoneDropped ==
  ASSUME NEW s \in Seq(TraceEvent)
  PROVE  WithoutCalls(s, {}) = s
<1> DEFINE n == Len(s)
<1>1. n \in Nat
  OBVIOUS
<1>2. PICK k \in [0 .. n -> Seq(TraceEvent)] : Keeps(k, s, {}) /\ WithoutCalls(s, {}) = k[n]
  BY KeptCollected
<1> DEFINE S == {i \in 0 .. n : k[i] = SubSeq(s, 1, i)}
<1>3. 0 \in S
  <2>1. SubSeq(s, 1, 0) = <<>>
    BY SubSeqEmpty
  <2>2. k[0] = SubSeq(s, 1, 0)
    BY <1>2, <2>1, Zenon DEF Keeps
  <2>3. QED
    BY <1>1, <2>2
<1>4. ASSUME NEW i \in 1 .. n, i - 1 \in S PROVE i \in S
  <2>1. k[i] = Append(SubSeq(s, 1, i - 1), s[i])
    BY <1>2, <1>4 DEF Keeps
  <2>2. SubSeq(s, 1, i) = SubSeq(s, 1, i - 1) \o <<s[i]>>
    <3>1. 1 \in 1 .. Len(s) /\ i \in 1 .. Len(s)
      BY <1>1
    <3>2. QED
      BY <3>1, SubSeqRecursiveSecond
  <2>3. SubSeq(s, 1, i - 1) \in Seq(TraceEvent) /\ s[i] \in TraceEvent
    BY <1>1
  <2>4. k[i] = SubSeq(s, 1, i)
    BY <2>1, <2>2, <2>3, AppendIsConcat
  <2>5. QED
    BY <2>4
<1> HIDE DEF S
<1>5. n \in S
  <2> HIDE DEF n
  <2>1. \A i \in 0 .. n : i \in S
    BY <1>1, <1>3, <1>4, PositionsCounted
  <2>2. QED
    BY <1>1, <2>1
<1>6. SubSeq(s, 1, n) = s
  BY SubSeqFull
<1>7. QED
  BY <1>2, <1>5, <1>6 DEF S

\* A trace without more calls is no larger.
LEMMA FewerCallsFit ==
  ASSUME overhead \in Nat, NEW s \in Seq(TraceEvent), NEW A, NEW B, A \subseteq B
  PROVE  /\ EncodedSize(WithoutCalls(s, B)) \in Nat
         /\ EncodedSize(WithoutCalls(s, A)) \in Nat
         /\ EncodedSize(WithoutCalls(s, B)) <= EncodedSize(WithoutCalls(s, A))
<1> DEFINE n == Len(s)
<1>1. n \in Nat /\ \A i \in 1 .. n : s[i] \in TraceEvent
  OBVIOUS
<1>2. PICK a \in [0 .. n -> Seq(TraceEvent)] : Keeps(a, s, A) /\ WithoutCalls(s, A) = a[n]
  BY KeptCollected
<1>3. PICK b \in [0 .. n -> Seq(TraceEvent)] : Keeps(b, s, B) /\ WithoutCalls(s, B) = b[n]
  BY KeptCollected
<1>4. \A t \in Seq(TraceEvent) : EncodedSize(t) \in Nat
  BY SizeAddsUp
<1>5. \A e \in TraceEvent : e.bytes \in Nat /\ e.capture \in Nat
  BY DEF TraceEvent
<1> DEFINE S == {i \in 0 .. n : EncodedSize(b[i]) <= EncodedSize(a[i])}
<1>6. 0 \in S
  BY <1>1, <1>2, <1>3, <1>4 DEF Keeps
<1>7. ASSUME NEW i \in 1 .. n, i - 1 \in S PROVE i \in S
  <2> DEFINE e == s[i]
             x == a[i - 1]
             y == b[i - 1]
  <2>1. /\ e \in TraceEvent /\ x \in Seq(TraceEvent) /\ y \in Seq(TraceEvent)
        /\ EncodedSize(y) <= EncodedSize(x)
    BY <1>1, <1>7
  <2>2. /\ a[i] = IF e.call \in A THEN x ELSE Append(x, e)
        /\ b[i] = IF e.call \in B THEN y ELSE Append(y, e)
    BY <1>2, <1>3 DEF Keeps
  <2> HIDE DEF e, x, y
  <2>3. /\ EncodedSize(Append(x, e)) = EncodedSize(x) + e.bytes + e.capture
        /\ EncodedSize(Append(y, e)) = EncodedSize(y) + e.bytes + e.capture
    BY <2>1, SizeOfMore
  <2>4. PICK u \in Nat, v \in Nat, p \in Nat :
          /\ u = EncodedSize(x) /\ v = EncodedSize(y) /\ v <= u
          /\ EncodedSize(Append(x, e)) = u + p /\ EncodedSize(Append(y, e)) = v + p
    <3>1. e.bytes \in Nat /\ e.capture \in Nat /\ EncodedSize(x) \in Nat /\ EncodedSize(y) \in Nat
      BY <1>4, <1>5, <2>1
    <3>2. PICK p \in Nat : p = e.bytes + e.capture
      BY <3>1
    <3>3. /\ EncodedSize(Append(x, e)) = EncodedSize(x) + p
          /\ EncodedSize(Append(y, e)) = EncodedSize(y) + p
      BY <2>3, <3>1, <3>2
    <3>4. QED
      BY <2>1, <3>1, <3>2, <3>3
  <2>5. EncodedSize(b[i]) <= EncodedSize(a[i])
    <3>1. CASE e.call \in A
      BY <2>2, <2>4, <3>1
    <3>2. CASE e.call \notin A /\ e.call \in B
      BY <2>2, <2>4, <3>2
    <3>3. CASE e.call \notin A /\ e.call \notin B
      BY <2>2, <2>4, <3>3
    <3>4. QED
      BY <3>1, <3>2, <3>3
  <2>6. QED
    BY <2>5
<1> HIDE DEF S
<1>8. n \in S
  <2> HIDE DEF n
  <2>1. \A i \in 0 .. n : i \in S
    BY <1>1, <1>6, <1>7, PositionsCounted
  <2>2. QED
    BY <1>1, <2>1
<1>9. a[n] \in Seq(TraceEvent) /\ b[n] \in Seq(TraceEvent)
  BY <1>1
<1>10. QED
  BY <1>2, <1>3, <1>4, <1>8, <1>9 DEF S

Lists(c, s) ==
  /\ c[0] = <<>>
  /\ \A i \in 1 .. Len(s) :
       c[i] = IF s[i].call = 0 \/ Contains(c[i - 1], s[i].call) THEN c[i - 1]
              ELSE Append(c[i - 1], s[i].call)

\* The calls can be collected along the trace.
LEMMA CallsCollected ==
  ASSUME NEW s \in Seq(TraceEvent)
  PROVE  \E c \in [0 .. Len(s) -> Seq(Nat)] : Lists(c, s) /\ CallIds(s) = c[Len(s)]
<1> DEFINE n == Len(s)
           T == Seq(Nat)
           more(i, t) == IF s[i].call = 0 \/ Contains(t, s[i].call) THEN t
                         ELSE Append(t, s[i].call)
           next(h) == [i \in 0 .. n |-> IF i = 0 THEN <<>> ELSE more(i, h[i - 1])]
           advance == [p \in (1 .. n) \X T |-> more(p[1], p[2])]
           ids == CHOOSE h : h = next(h)
<1>1. n \in Nat /\ <<>> \in T /\ \A i \in 1 .. n : s[i].call \in Nat
  <2>1. n \in Nat /\ <<>> \in T /\ \A i \in 1 .. n : s[i] \in TraceEvent
    OBVIOUS
  <2>2. \A e \in TraceEvent : e.call \in Nat
    BY DEF TraceEvent
  <2>3. QED
    BY <2>1, <2>2
<1>2. \A i \in 1 .. n, t \in T : more(i, t) \in T
  BY <1>1
<1>3. advance \in [(1 .. n) \X T -> T] /\ \A i \in 1 .. n, t \in T : advance[<<i, t>>] = more(i, t)
  <2> HIDE DEF more, T
  <2>1. QED
    BY <1>2
<1> HIDE DEF more, T, n
<1>4. Computable(n, T, <<>>, advance)
  <2> HIDE DEF advance
  <2>1. QED
    BY <1>1, <1>3, RecursionExists
<1>5. PICK f \in [0 .. n -> T] :
        f[0] = <<>> /\ \A i \in 1 .. n : f[i] = advance[<<i, f[i - 1]>>]
  BY <1>4 DEF Computable
<1>6. ASSUME NEW i \in 1 .. n PROVE f[i] = more(i, f[i - 1])
  <2>1. f[i - 1] \in T
    BY <1>1
  <2> HIDE DEF advance
  <2>2. QED
    BY <1>3, <1>5, <2>1
<1>7. f = next(f)
  BY <1>5, <1>6
<1>8. ids = next(ids)
  BY <1>7, Zenon
<1>9. CallIds(s) = ids[n]
  BY DEF CallIds, n, more
<1> HIDE DEF ids
<1>10. \A i \in 0 .. n : ids[i] = IF i = 0 THEN <<>> ELSE more(i, ids[i - 1])
  BY <1>8
<1>11. ids \in [0 .. n -> T]
  <2> DEFINE S == {i \in 0 .. n : ids[i] \in T}
  <2>1. 0 \in S
    BY <1>1, <1>10
  <2>2. \A i \in 1 .. n : i - 1 \in S => i \in S
    BY <1>1, <1>2, <1>10
  <2> HIDE DEF S
  <2>3. \A i \in 0 .. n : i \in S
    BY <1>1, <2>1, <2>2, PositionsCounted
  <2>4. \A i \in 0 .. n : ids[i] \in T
    BY <2>3 DEF S
  <2>5. QED
    BY <1>8, <2>4
<1>12. Lists(ids, s)
  BY <1>1, <1>10 DEF Lists, n, more
<1>13. QED
  BY <1>9, <1>11, <1>12 DEF n, T

\* They do not depend on what is captured.
LEMMA SameCalls ==
  ASSUME NEW s \in Seq(TraceEvent), NEW t \in Seq(TraceEvent), Len(s) = Len(t),
         \A i \in 1 .. Len(s) : s[i].call = t[i].call
  PROVE  CallIds(s) = CallIds(t) /\ CallIds(s) \in Seq(Nat)
<1> DEFINE n == Len(s)
<1>1. n \in Nat
  OBVIOUS
<1>2. PICK c \in [0 .. n -> Seq(Nat)] : Lists(c, s) /\ CallIds(s) = c[n]
  BY CallsCollected
<1>3. PICK d \in [0 .. n -> Seq(Nat)] : Lists(d, t) /\ CallIds(t) = d[n]
  BY CallsCollected
<1> DEFINE S == {i \in 0 .. n : c[i] = d[i]}
<1>4. 0 \in S
  BY <1>1, <1>2, <1>3 DEF Lists
<1>5. ASSUME NEW i \in 1 .. n, i - 1 \in S PROVE i \in S
  <2>1. c[i - 1] = d[i - 1] /\ s[i].call = t[i].call
    BY <1>5
  <2>2. c[i] = d[i]
    BY <1>2, <1>3, <2>1, Zenon DEF Lists
  <2>3. QED
    BY <2>2
<1> HIDE DEF S
<1>6. n \in S
  <2> HIDE DEF n
  <2>1. \A i \in 0 .. n : i \in S
    BY <1>1, <1>4, <1>5, PositionsCounted
  <2>2. QED
    BY <1>1, <2>1
<1>7. c[n] \in Seq(Nat)
  BY <1>1
<1>8. QED
  BY <1>2, <1>3, <1>6, <1>7 DEF S

-----------------------------------------------------------------------------
(* The trimming of a trace.                                                *)

USE TrimAssumption

LEMMA BareIs ==
  ASSUME TrimTypes
  PROVE  /\ Bare \in Seq(TraceEvent) /\ Len(Bare) = Len(sealed)
         /\ CallIds(Bare) = Ids /\ Ids \in Seq(Nat)
<1>1. sealed \in Seq(TraceEvent) /\ Len(sealed) \in Nat /\ DOMAIN sealed = 1 .. Len(sealed)
  BY DEF TrimTypes
<1>2. \A e \in TraceEvent : WithoutCapture(e) \in TraceEvent /\ WithoutCapture(e).call = e.call
  BY DEF WithoutCapture, TraceEvent
<1>3. \A i \in 1 .. Len(sealed) :
        Bare[i] \in TraceEvent /\ Bare[i].call = sealed[i].call
  BY <1>1, <1>2 DEF Bare, CapturesOmitted
<1>4. Bare \in Seq(TraceEvent) /\ Len(Bare) = Len(sealed)
  BY <1>1, <1>3 DEF Bare, CapturesOmitted
<1>5. PICK b, s : b = Bare /\ s = sealed
  OBVIOUS
<1>6. CallIds(b) = CallIds(s) /\ CallIds(b) \in Seq(Nat)
  BY <1>1, <1>3, <1>4, <1>5, SameCalls
<1>7. QED
  BY <1>4, <1>5, <1>6 DEF Ids

\* The more calls are dropped, the better a trace fits.
LEMMA ShortenedFits ==
  ASSUME TrimTypes
  PROVE  /\ Shortened(0) = Bare
         /\ \A n \in Nat : EncodedSize(Shortened(n)) \in Nat
         /\ \A m, n \in Nat : m <= n /\ Fits(Shortened(m)) => Fits(Shortened(n))
<1>1. PICK b, d : b = Bare /\ d = [n \in Nat |-> {Ids[i] : i \in 1 .. n}]
  OBVIOUS
<1>2. b \in Seq(TraceEvent)
  BY <1>1, BareIs
<1>3. \A n \in Nat : Shortened(n) = WithoutCalls(b, d[n])
  BY <1>1 DEF Shortened, WithoutCallPrefix
<1>4. d[0] = {} /\ \A m, n \in Nat : m <= n => d[m] \subseteq d[n]
  BY <1>1
<1>5. Shortened(0) = Bare
  BY <1>1, <1>2, <1>3, <1>4, NoneDropped
<1>6. ASSUME NEW m \in Nat, NEW n \in Nat, m <= n, Fits(Shortened(m))
      PROVE  Fits(Shortened(n))
  <2>1. PICK x, y : x = WithoutCalls(b, d[n]) /\ y = WithoutCalls(b, d[m])
    OBVIOUS
  <2>2. EncodedSize(x) \in Nat /\ EncodedSize(y) \in Nat /\ EncodedSize(x) <= EncodedSize(y)
    BY <1>2, <1>4, <1>6, <2>1, FewerCallsFit DEF TrimTypes
  <2>3. EncodedSize(y) <= TargetBytes
    BY <1>3, <1>6, <2>1 DEF Fits
  <2>4. EncodedSize(x) <= TargetBytes
    <3>1. TargetBytes \in Nat
      OBVIOUS
    <3>2. QED
      BY <2>2, <2>3, <3>1
  <2>5. QED
    BY <1>3, <2>1, <2>4 DEF Fits
<1>7. ASSUME NEW n \in Nat PROVE EncodedSize(Shortened(n)) \in Nat
  BY <1>2, <1>3, <1>4, FewerCallsFit DEF TrimTypes
<1>8. QED
  BY <1>5, <1>6, <1>7

\* What a step is judged by stays the same.
LEMMA Steady ==
  ASSUME sealed' = sealed, overhead' = overhead
  PROVE  /\ Bare' = Bare /\ Ids' = Ids /\ (Fits(sealed)' <=> Fits(sealed))
         /\ \A n \in Nat : /\ Shortened(n)' = Shortened(n)
                           /\ Fits(Shortened(n))' <=> Fits(Shortened(n))
<1>1. Bare' = Bare /\ Ids' = Ids
  BY Zenon DEF Bare, Ids, CapturesOmitted, CallIds, WithoutCapture, Captured
<1>2. \A n : Shortened(n)' = Shortened(n)
  <2>1. ASSUME NEW n PROVE Shortened(n)' = Shortened(n)
    <3>1. PICK b, c : b = Bare /\ c = Ids
      OBVIOUS
    <3>2. Shortened(n) = WithoutCallPrefix(b, c, n)
      BY <3>1, Zenon DEF Shortened
    <3>3. Shortened(n)' = WithoutCallPrefix(b, c, n)
      BY <1>1, <3>1, Zenon DEF Shortened
    <3>4. QED
      BY <3>2, <3>3, Zenon
  <2>2. QED
    BY <2>1, Zenon
<1>3. \A s : EncodedSize(s)' = EncodedSize(s)
  BY Zenon DEF EncodedSize
<1>4. Fits(sealed)' <=> Fits(sealed)
  BY <1>3 DEF Fits
<1>5. \A n : Fits(Shortened(n))' <=> Fits(Shortened(n))
  BY <1>2, <1>3 DEF Fits
<1>6. QED
  BY <1>1, <1>2, <1>4, <1>5

LEMMA TrimInitially == TrimInit => TrimInv
<1> SUFFICES ASSUME TrimInit PROVE TrimInv
  OBVIOUS
<1>1. TrimTypes
  BY DEF TrimInit, TrimStart, TrimTypes
<1>2. TrimPlaces
  BY DEF TrimInit, TrimStart, TrimPlaces
<1>3. QED
  BY <1>1, <1>2 DEF TrimInv

\* The least of the numbers of calls that can be dropped.
LEMMA LeastFitting ==
  ASSUME NEW m \in Nat, NEW S, m \in S, \A n \in S : m <= n, S \subseteq Nat
  PROVE  Min(S) = m
<1>1. ASSUME NEW x \in S, \A y \in S : x <= y PROVE x = m
  <2>1. x \in Nat /\ x <= m /\ m <= x
    BY <1>1
  <2>2. QED
    BY <2>1
<1>2. QED
  BY <1>1 DEF Min

LEMMA LeastIn ==
  ASSUME NEW S, S \subseteq Nat, S # {}
  PROVE  Min(S) \in S
<1> DEFINE R == {p \in Nat \X Nat : p[1] < p[2]}
<1>1. IsWellFoundedOn(R, Nat)
  BY NatLessThanWellFounded, Zenon DEF OpToRel
<1>2. \A x, y \in Nat : <<y, x>> \notin R => x <= y
  OBVIOUS
<1> HIDE DEF R
<1>3. PICK m \in S : \A y \in S : ~ (<<y, m>> \in R)
  BY <1>1, WFMin, Zenon
<1>4. \A y \in S : m <= y
  BY <1>2, <1>3
<1>5. QED
  BY <1>3, <1>4, LeastFitting

LEMMA MeasureStep ==
  ASSUME TrimInv, Measure
  PROVE  TrimInv'
<1>1. TrimTypes'
  BY DEF TrimInv, TrimTypes, Measure
<1>2. events' = events /\ sealed' = sealed /\ (Fits(sealed)' <=> Fits(sealed))
  BY Steady DEF Measure
<1>3. events = sealed /\ omissions = 0 /\ eventsDropped = 0 /\ ~reason
  BY DEF TrimInv, TrimPlaces, Measure
<1>4. TrimPlaces'
  <2>1. CASE Fits(sealed)
    <3>1. Trimmed'
      <4>1. Len(events) \in Nat
        BY <1>3 DEF TrimInv, TrimTypes
      <4>2. QED
        BY <1>2, <1>3, <2>1, <4>1 DEF Trimmed, Measure
    <3>2. QED
      BY <1>3, <2>1, <3>1 DEF TrimPlaces, Measure
  <2>2. CASE ~Fits(sealed)
    BY <1>2, <1>3, <2>2 DEF TrimInv, TrimPlaces, Measure
  <2>3. QED
    BY <2>1, <2>2
<1>5. QED
  BY <1>1, <1>4 DEF TrimInv

LEMMA OmitStep ==
  ASSUME TrimInv, OmitCaptures
  PROVE  TrimInv'
<1>1. TrimTypes'
  BY DEF TrimInv, TrimTypes, OmitCaptures
<1>2. ValuesOmitted'
  <2>1. events = sealed /\ eventsDropped = 0 /\ ~reason /\ ~Fits(sealed)
    BY DEF TrimInv, TrimPlaces, OmitCaptures
  <2>2. events' = Bare /\ omissions' = Cardinality({i \in DOMAIN sealed : Captured(sealed[i])})
    BY <2>1 DEF OmitCaptures, Bare
  <2>3. Bare' = Bare /\ ~Fits(sealed)'
    BY <2>1, Steady DEF OmitCaptures
  <2>4. sealed' = sealed /\ eventsDropped' = 0 /\ ~reason'
    BY <2>1 DEF OmitCaptures
  <2>5. QED
    BY <2>2, <2>3, <2>4 DEF ValuesOmitted
<1>3. TrimPlaces'
  BY <1>2 DEF TrimInv, TrimPlaces, OmitCaptures
<1>4. QED
  BY <1>1, <1>3 DEF TrimInv

LEMMA BeginStep ==
  ASSUME TrimInv, BeginSearch
  PROVE  TrimInv'
<1>1. ValuesOmitted /\ TrimTypes
  BY DEF TrimInv, TrimPlaces, BeginSearch
<1>2. /\ events = Bare /\ ~Fits(sealed) /\ eventsDropped = 0 /\ ~reason
      /\ omissions = Cardinality({i \in DOMAIN sealed : Captured(sealed[i])})
  BY <1>1 DEF ValuesOmitted
<1>3. /\ Bare \in Seq(TraceEvent) /\ Len(Bare) = Len(sealed)
      /\ CallIds(Bare) = Ids /\ Ids \in Seq(Nat) /\ Len(Ids) \in Nat
  BY <1>1, BareIs
<1>4. Shortened(0) = Bare
  BY <1>1, ShortenedFits
<1>5. /\ Bare' = Bare /\ Ids' = Ids /\ (Fits(sealed)' <=> Fits(sealed)) /\ sealed' = sealed
      /\ \A n \in Nat : /\ Shortened(n)' = Shortened(n)
                        /\ Fits(Shortened(n))' <=> Fits(Shortened(n))
  BY Steady DEF BeginSearch
<1>6. callIds' = Ids
  BY <1>2, <1>3 DEF BeginSearch
<1>7. TrimTypes'
  BY <1>1, <1>3, <1>6 DEF TrimTypes, BeginSearch
<1>8. ValuesOmitted'
  BY <1>2, <1>5 DEF ValuesOmitted, BeginSearch
<1>9. TrimPlaces'
  <2>1. CASE Fits(events)
    <3> DEFINE fitting == {n \in 0 .. Len(Ids) : Fits(Shortened(n))}
    <3>1. 0 \in fitting
      BY <1>2, <1>3, <1>4, <2>1
    <3>2. Min(fitting) = 0
      <4>1. PICK S : S = fitting
        OBVIOUS
      <4>2. 0 \in S /\ S \subseteq Nat
        BY <1>3, <3>1, <4>1
      <4>3. \A n \in S : 0 <= n
        BY <4>2
      <4>4. Min(S) = 0
        BY <4>2, <4>3, LeastFitting
      <4>5. QED
        BY <4>1, <4>4, Zenon
    <3>3. Trimmed'
      <4>1. fitting' = fitting
        BY <1>3, <1>5
      <4>2. Shortened(Min(fitting))' = events
        BY <1>2, <1>4, <1>5, <3>2, <4>1
      <4>3. events' = events /\ eventsDropped' = 0 /\ omissions' = omissions
        BY <1>2 DEF BeginSearch
      <4> HIDE DEF fitting
      <4>4. QED
        BY <1>2, <1>3, <1>5, <3>1, <4>1, <4>2, <4>3 DEF Trimmed, fitting
    <3>4. QED
      BY <2>1, <3>3 DEF TrimPlaces, BeginSearch
  <2>2. CASE ~Fits(events) /\ Ids = <<>>
    <3>1. \A n \in 0 .. Len(Ids) : ~Fits(Shortened(n))
      BY <1>2, <1>4, <2>2
    <3>2. \A n \in 0 .. Len(Ids)' : ~Fits(Shortened(n))'
      BY <1>3, <1>5, <3>1
    <3>3. stage' = "collapse"
      BY <1>6, <2>2 DEF BeginSearch
    <3>4. QED
      BY <1>8, <3>2, <3>3 DEF TrimPlaces
  <2>3. CASE ~Fits(events) /\ Ids # <<>>
    <3>1. stage' = "search" /\ low' = 1 /\ high' = Len(Ids)
      BY <1>6, <2>3 DEF BeginSearch
    <3>2. smallestFit' = 0
      BY DEF BeginSearch, TrimInv, TrimPlaces
    <3>3. \A n \in 0 .. low' - 1 : ~Fits(Shortened(n))'
      <4>1. \A n \in 0 .. low' - 1 : n = 0
        BY <3>1
      <4>2. ~Fits(Shortened(0))
        BY <1>2, <1>4, <2>3
      <4>3. ~Fits(Shortened(0))'
        BY <1>5, <4>2
      <4>4. QED
        BY <4>1, <4>3, Zenon
    <3>4. SearchKept'
      BY <1>3, <1>5, <1>6, <3>1, <3>2, <3>3 DEF SearchKept
    <3>5. QED
      BY <1>8, <3>1, <3>4 DEF TrimPlaces
  <2>4. QED
    BY <2>1, <2>2, <2>3
<1>10. QED
  BY <1>7, <1>9 DEF TrimInv

LEMMA TryStep ==
  ASSUME TrimInv, Try
  PROVE  TrimInv'
<1>1. TrimTypes /\ ValuesOmitted /\ SearchKept /\ stage = "search" /\ low <= high
  BY DEF TrimInv, TrimPlaces, Try, Searching
<1>2. /\ low \in Nat /\ high \in Nat /\ smallestFit \in Nat /\ 1 <= low
      /\ high <= Len(Ids) /\ events = Bare /\ callIds = Ids
      /\ \A n \in 0 .. low - 1 : ~Fits(Shortened(n))
  BY <1>1 DEF TrimTypes, SearchKept, ValuesOmitted
<1>3. Len(Ids) \in Nat
  BY <1>1, BareIs
<1>4. /\ sealed' = sealed /\ overhead' = overhead /\ events' = events /\ callIds' = callIds
      /\ stage' = stage /\ reason' = reason /\ omissions' = omissions
      /\ eventsDropped' = eventsDropped
  BY DEF Try
<1>5. /\ Bare' = Bare /\ Ids' = Ids /\ (Fits(sealed)' <=> Fits(sealed))
      /\ \A n \in Nat : /\ Shortened(n)' = Shortened(n)
                        /\ Fits(Shortened(n))' <=> Fits(Shortened(n))
  BY <1>4, Steady
<1>6. PICK middle : middle = (low + high) \div 2
  OBVIOUS
<1>7. middle \in Nat /\ low <= middle /\ middle <= high
  BY <1>1, <1>2, <1>6
<1>8. IF Fits(Shortened(middle))
      THEN smallestFit' = middle /\ high' = middle - 1 /\ low' = low
      ELSE low' = middle + 1 /\ smallestFit' = smallestFit /\ high' = high
  BY <1>2, <1>6, Zenon DEF Try, Shortened
<1>9. TrimTypes'
  BY <1>1, <1>2, <1>4, <1>7, <1>8 DEF TrimTypes
<1>10. /\ 1 <= low' /\ low' <= high' + 1 /\ high' <= Len(Ids)
       /\ \A n \in 0 .. low' - 1 : n \in Nat /\ ~Fits(Shortened(n))
       /\ \/ smallestFit' = 0 /\ high' = Len(Ids)
          \/ smallestFit' = high' + 1 /\ high' < Len(Ids) /\ Fits(Shortened(smallestFit'))
  <2>1. CASE Fits(Shortened(middle))
    BY <1>2, <1>3, <1>7, <1>8, <2>1
  <2>2. CASE ~Fits(Shortened(middle))
    <3>1. \A n \in 0 .. middle : n \in Nat /\ ~Fits(Shortened(n))
      BY <1>1, <1>7, <2>2, ShortenedFits
    <3>2. low' = middle + 1 /\ smallestFit' = smallestFit /\ high' = high
      BY <1>8, <2>2
    <3>3. \/ smallestFit = 0 /\ high = Len(Ids)
          \/ smallestFit = high + 1 /\ high < Len(Ids) /\ Fits(Shortened(smallestFit))
      BY <1>1 DEF SearchKept
    <3>4. low' - 1 = middle
      BY <1>7, <3>2
    <3>5. QED
      BY <1>2, <1>7, <3>1, <3>2, <3>3, <3>4
  <2>3. QED
    BY <2>1, <2>2
<1>11. SearchKept'
  <2>1. \A n \in 0 .. low' - 1 : ~Fits(Shortened(n))'
    BY <1>5, <1>10
  <2>2. smallestFit' \in Nat
    BY <1>9 DEF TrimTypes
  <2>3. Fits(Shortened(smallestFit')) => Fits(Shortened(smallestFit))'
    BY <1>5, <2>2 DEF Fits, Shortened
  <2>4. QED
    BY <1>2, <1>4, <1>5, <1>10, <2>1, <2>3 DEF SearchKept
<1>12. ValuesOmitted'
  BY <1>1, <1>4, <1>5 DEF ValuesOmitted
<1>13. QED
  BY <1>1, <1>4, <1>9, <1>11, <1>12 DEF TrimInv, TrimPlaces

LEMMA EndStep ==
  ASSUME TrimInv, EndSearch
  PROVE  TrimInv'
<1>1. TrimTypes /\ ValuesOmitted /\ SearchKept /\ stage = "search" /\ high < low
  BY DEF TrimInv, TrimPlaces, EndSearch, Searching, TrimTypes
<1>2. /\ low \in Nat /\ high \in Nat /\ smallestFit \in Nat /\ low = high + 1
      /\ high <= Len(Ids) /\ events = Bare /\ callIds = Ids
      /\ \A n \in 0 .. high : ~Fits(Shortened(n))
  BY <1>1 DEF TrimTypes, SearchKept, ValuesOmitted
<1>3. Len(Ids) \in Nat /\ Len(Bare) = Len(sealed)
  BY <1>1, BareIs
<1>4. /\ sealed' = sealed /\ overhead' = overhead /\ omissions' = omissions
  BY DEF EndSearch
<1>5. /\ Bare' = Bare /\ Ids' = Ids /\ (Fits(sealed)' <=> Fits(sealed))
      /\ \A n \in Nat : /\ Shortened(n)' = Shortened(n)
                        /\ Fits(Shortened(n))' <=> Fits(Shortened(n))
  BY <1>4, Steady
<1>6. TrimTypes'
  BY <1>1 DEF TrimTypes, EndSearch
<1>7. CASE smallestFit = 0
  <2>1. high = Len(Ids)
    BY <1>1, <1>2, <1>7 DEF SearchKept
  <2>2. \A n \in 0 .. Len(Ids)' : ~Fits(Shortened(n))'
    BY <1>2, <1>3, <1>5, <2>1
  <2>3. ValuesOmitted'
    BY <1>1, <1>4, <1>5, <1>7 DEF ValuesOmitted, EndSearch
  <2>4. stage' = "collapse"
    BY <1>7 DEF EndSearch
  <2>5. QED
    BY <1>6, <2>2, <2>3, <2>4 DEF TrimInv, TrimPlaces
<1>8. CASE smallestFit # 0
  <2>1. smallestFit = high + 1 /\ high < Len(Ids) /\ Fits(Shortened(smallestFit))
    BY <1>1, <1>2, <1>8 DEF SearchKept
  <2> DEFINE fitting == {n \in 0 .. Len(Ids) : Fits(Shortened(n))}
  <2>2. smallestFit \in fitting /\ Min(fitting) = smallestFit
    <3>1. PICK S, m : S = fitting /\ m = smallestFit
      OBVIOUS
    <3>2. m \in S /\ S \subseteq Nat /\ m \in Nat
      BY <1>2, <1>3, <2>1, <3>1
    <3>3. \A n \in S : m <= n
      BY <1>2, <1>3, <2>1, <3>1
    <3>4. Min(S) = m
      BY <3>2, <3>3, LeastFitting
    <3>5. QED
      BY <3>1, <3>2, <3>4, Zenon
  <2>3. fitting' = fitting
    BY <1>3, <1>5
  <2>4. events' = Shortened(smallestFit) /\ eventsDropped' = Len(events) - Len(events')
    BY <1>2, <1>8, Zenon DEF EndSearch, Shortened
  <2>5. Shortened(Min(fitting))' = Shortened(smallestFit)
    BY <1>2, <1>5, <2>2, <2>3
  <2>6. ~Fits(sealed) /\ omissions = Cardinality({i \in DOMAIN sealed : Captured(sealed[i])})
    BY <1>1 DEF ValuesOmitted
  <2>7. eventsDropped' = Len(sealed) - Len(events')
    BY <1>2, <1>3, <2>4
  <2>8. Trimmed'
    <3> HIDE DEF fitting
    <3>1. fitting' # {}
      BY <2>2, <2>3
    <3>2. QED
      BY <1>4, <1>5, <2>4, <2>5, <2>6, <2>7, <3>1 DEF Trimmed, fitting
  <2>9. QED
    BY <1>6, <1>8, <2>8 DEF TrimInv, TrimPlaces, EndSearch
<1>9. QED
  BY <1>7, <1>8

LEMMA CollapseStep ==
  ASSUME TrimInv, Collapse
  PROVE  TrimInv'
<1>1. /\ TrimTypes /\ ValuesOmitted /\ \A n \in 0 .. Len(Ids) : ~Fits(Shortened(n))
  BY DEF TrimInv, TrimPlaces, Collapse
<1>2. /\ sealed' = sealed /\ overhead' = overhead /\ omissions' = omissions
      /\ events' = <<Head(events), Last(events)>> /\ eventsDropped' = Len(events) - 2
  BY DEF Collapse
<1>3. Len(Ids) \in Nat /\ Len(Bare) = Len(sealed)
  BY <1>1, BareIs
<1>4. /\ Bare' = Bare /\ Ids' = Ids /\ (Fits(sealed)' <=> Fits(sealed))
      /\ \A n \in Nat : /\ Shortened(n)' = Shortened(n)
                        /\ Fits(Shortened(n))' <=> Fits(Shortened(n))
  BY <1>2, Steady
<1>5. /\ events = Bare /\ ~Fits(sealed)
      /\ omissions = Cardinality({i \in DOMAIN sealed : Captured(sealed[i])})
  BY <1>1 DEF ValuesOmitted
<1>6. {n \in 0 .. Len(Ids) : Fits(Shortened(n))}' = {}
  BY <1>1, <1>3, <1>4
<1>7. events' = <<Head(Bare), Last(Bare)>>' /\ Len(events') = 2
  BY <1>2, <1>4, <1>5 DEF Last
<1>8. eventsDropped' = Len(sealed) - Len(events')
  BY <1>2, <1>3, <1>5, <1>7
<1>9. Trimmed'
  BY <1>2, <1>4, <1>5, <1>6, <1>7, <1>8, Zenon DEF Trimmed
<1>10. TrimTypes'
  BY <1>1 DEF TrimTypes, Collapse
<1>11. QED
  BY <1>9, <1>10 DEF TrimInv, TrimPlaces, Collapse

LEMMA TrimmedKept ==
  ASSUME TrimTypes, Trimmed,
         UNCHANGED <<sealed, overhead, omissions, events, eventsDropped>>
  PROVE  Trimmed'
<1>1. /\ Bare' = Bare /\ Ids' = Ids /\ (Fits(sealed)' <=> Fits(sealed))
      /\ \A n \in Nat : /\ Shortened(n)' = Shortened(n)
                        /\ Fits(Shortened(n))' <=> Fits(Shortened(n))
  BY Steady
<1> DEFINE fitting == {n \in 0 .. Len(Ids) : Fits(Shortened(n))}
<1>2. fitting' = fitting
  BY <1>1, BareIs
<1>3. Shortened(Min(fitting))' = Shortened(Min(fitting))
  BY <1>1, <1>2, Zenon DEF Shortened
<1> HIDE DEF fitting
<1>4. QED
  BY <1>1, <1>2, <1>3, Zenon DEF Trimmed, fitting

LEMMA ObservationStep ==
  ASSUME TrimInv, ReplaceObservation
  PROVE  TrimInv'
<1>1. Trimmed /\ TrimTypes
  BY DEF TrimInv, TrimPlaces, ReplaceObservation
<1>2. Trimmed'
  BY <1>1, TrimmedKept DEF ReplaceObservation
<1>3. TrimTypes'
  BY <1>1 DEF TrimTypes, ReplaceObservation
<1>4. QED
  BY <1>2, <1>3 DEF TrimInv, TrimPlaces, ReplaceObservation

LEMMA TrimStutters ==
  ASSUME TrimInv, UNCHANGED trimVars
  PROVE  TrimInv'
<1>1. /\ Bare' = Bare /\ Ids' = Ids /\ (Fits(sealed)' <=> Fits(sealed))
      /\ \A n \in Nat : /\ Shortened(n)' = Shortened(n)
                        /\ Fits(Shortened(n))' <=> Fits(Shortened(n))
  BY Steady DEF trimVars
<1>2. TrimTypes /\ TrimTypes' /\ Len(Ids) \in Nat
  BY BareIs DEF TrimInv, TrimTypes, trimVars
<1>3. ValuesOmitted => ValuesOmitted'
  BY <1>1 DEF ValuesOmitted, trimVars
<1>4. Trimmed => Trimmed'
  BY <1>2, TrimmedKept DEF trimVars
<1>5. (\A n \in 0 .. Len(Ids) : ~Fits(Shortened(n)))
        => (\A n \in 0 .. Len(Ids) : ~Fits(Shortened(n)))'
  BY <1>1, <1>2
<1>6. SearchKept => SearchKept'
  <2>1. \A n \in 0 .. low - 1 : n \in Nat
    BY <1>2 DEF TrimTypes
  <2>2. (Fits(Shortened(smallestFit)))' <=> Fits(Shortened(smallestFit))
    BY <1>1, <1>2 DEF TrimTypes, Fits, Shortened, trimVars
  <2>3. (\A n \in 0 .. low - 1 : ~Fits(Shortened(n)))
          => (\A n \in 0 .. low - 1 : ~Fits(Shortened(n)))'
    BY <1>1, <2>1 DEF trimVars
  <2>4. QED
    BY <1>1, <2>2, <2>3 DEF SearchKept, trimVars
<1>7. TrimPlaces'
  BY <1>1, <1>3, <1>4, <1>5, <1>6 DEF TrimInv, TrimPlaces, trimVars
<1>8. QED
  BY <1>2, <1>7 DEF TrimInv

LEMMA TrimInvariance == TrimSpec => []TrimInv
<1>1. TrimInv /\ [TrimNext]_trimVars => TrimInv'
  <2> SUFFICES ASSUME TrimInv, [TrimNext]_trimVars PROVE TrimInv'
    OBVIOUS
  <2>1. CASE Measure
    BY <2>1, MeasureStep
  <2>2. CASE OmitCaptures
    BY <2>2, OmitStep
  <2>3. CASE BeginSearch
    BY <2>3, BeginStep
  <2>4. CASE Try
    BY <2>4, TryStep
  <2>5. CASE EndSearch
    BY <2>5, EndStep
  <2>6. CASE Collapse
    BY <2>6, CollapseStep
  <2>7. CASE ReplaceObservation
    BY <2>7, ObservationStep
  <2>8. CASE UNCHANGED trimVars
    BY <2>8, TrimStutters
  <2>9. QED
    BY <2>1, <2>2, <2>3, <2>4, <2>5, <2>6, <2>7, <2>8 DEF TrimNext
<1>2. QED
  BY <1>1, TrimInitially, PTL DEF TrimSpec

(* What is written of a trace that is too large has lost as little as its  *)
(* size allows, each call with both its events, and is accepted by readers *)
(* with the reason added late: TrimExact, for every trace and every limit. *)
THEOREM NoMoreIsLost == TrimSpec => []TrimExact
<1>1. TrimInv => TrimExact
  <2> SUFFICES ASSUME TrimInv, stage = "written"
               PROVE  TrimExact
    BY DEF TrimExact
  <2>1. TrimTypes /\ Trimmed /\ noted = reason
    BY DEF TrimInv, TrimPlaces
  <2>2. Len(Ids) \in Nat
    BY <2>1, BareIs
  <2> DEFINE fitting == {n \in 0 .. Len(Ids) : Fits(Shortened(n))}
  <2>3. ASSUME Fits(sealed) \/ fitting # {} 
        PROVE  Fits(events) /\ EncodedSize(events) \in Nat
    <3>1. CASE Fits(sealed)
      <4>1. PICK s : s = sealed
        OBVIOUS
      <4>2. EncodedSize(s) \in Nat
        <5>1. s \in Seq(TraceEvent) /\ overhead \in Nat /\ Len(s) \in Nat
          BY <2>1, <4>1 DEF TrimTypes
        <5>2. QED
          BY <5>1, SizeAddsUp
      <4>3. QED
        BY <2>1, <3>1, <4>1, <4>2 DEF Trimmed
    <3>2. CASE ~Fits(sealed)
      <4>1. Min(fitting) \in fitting
        <5>1. PICK S, n : S = fitting /\ n \in S
          BY <2>3, <3>2
        <5>2. S \subseteq Nat
          BY <2>2, <5>1
        <5>3. Min(S) \in S
          BY <5>1, <5>2, LeastIn
        <5>4. QED
          BY <5>1, <5>3, Zenon
      <4>2. events = Shortened(Min(fitting))
        BY <2>1, <2>3, <3>2 DEF Trimmed
      <4>3. QED
        BY <2>1, <2>2, <4>1, <4>2, ShortenedFits
    <3>3. QED
      BY <3>1, <3>2
  <2>4. ASSUME Fits(events), EncodedSize(events) \in Nat
        PROVE  EncodedSize(events) + (IF noted THEN ReasonBytes ELSE 0) <= TraceBytes
    <3>1. EncodedSize(events) <= TargetBytes
      BY <2>4 DEF Fits
    <3>2. TargetBytes \in Nat /\ ReasonBytes \in Nat /\ TraceBytes \in Nat
          /\ TargetBytes + ReasonBytes <= TraceBytes
      OBVIOUS
    <3>3. QED
      BY <2>4, <3>1, <3>2
  <2>5. QED
    BY <2>1, <2>3, <2>4 DEF TrimExact, Trimmed, Bare, Ids, Shortened
<1>2. QED
  BY <1>1, TrimInvariance, PTL
=============================================================================
