------------------------------ MODULE RunAccess ------------------------------
(***************************************************************************)
(* Reading runs while they are recorded and imported: `inspect' and        *)
(* `replay' load one trace (load_trace), `assert' loads one and then reads *)
(* an artifact (evaluate_run), `list' reads many within limits             *)
(* (scan_runs).  Readers take no lock.  They note what they see with       *)
(* lstat and fstat and compare before they accept.                         *)
(*                                                                         *)
(* One action of the reader is one system call, or several in a row whose  *)
(* results are only compared with each other.  The other processes are     *)
(* the recorder, the two renames of an import, and a user who writes into  *)
(* a file.  A snapshot of a directory is its object and a stamp that any   *)
(* change of its entries, and any rename of it, moves: its times.          *)
(***************************************************************************)
EXTENDS Naturals, FiniteSets, Sequences, SequencesExt

CONSTANTS
  RunIds,          \* the run ids, numbers in the order of the ids
  CaseKey,         \* run id -> its spelling without case
  Staging, Backup, Lock,  \* the other names an import makes beside the runs
  Jobs,            \* what the reader may do: "load", "assert", "list"
  Sizes,           \* sizes of a trace
  MaxTraceBytes,
  MaxBytes,        \* MAX_LIST_AGGREGATE_BYTES
  MaxCandidates,   \* MAX_LIST_CANDIDATES
  MaxRuns,         \* MAX_LIST_RUNS
  MaxEntries,      \* bound: entries at first
  MaxChanges       \* bound: changes by other processes

Debris == {Staging, Backup, Lock}

Names == RunIds \cup Debris

ASSUME NamesAssumption ==
  /\ RunIds \cup Debris \subseteq Nat \ {0}
  /\ IsFiniteSet(RunIds)
  /\ Cardinality(Debris) = 3
  /\ RunIds \cap Debris = {}

ASSUME LimitsAssumption ==
  /\ Jobs \subseteq {"load", "assert", "list"} /\ Sizes \subseteq Nat
  /\ {MaxTraceBytes, MaxBytes, MaxCandidates, MaxEntries, MaxChanges} \subseteq Nat
  /\ MaxRuns \in Nat \ {0}

VARIABLES
  at,         \* name -> directory there, 0 if none
  dirs,       \* the directories: stamp, revision of each file, size of the trace
  stamp,      \* of the directory of all runs
  changes,
  pc, job,
  wanted,     \* the run to load
  prepared,   \* stamp in prepare_store_for_read
  steady,     \* names there since scandir was opened: it returns them all
  scanned, candidates, overflow,
  queue,      \* candidates that remain, the current one first
  initial,    \* snapshot of the run directory
  reading,    \* "trace" or "stdout"
  file,       \* prepared and opened file: directory, revision, size
  got,        \* revisions of the chunks that were read
  short, growth,
  taken,      \* accepted files of the current run
  attempted, runs, skipped, truncated, result,
  moment      \* history: the entries when the reader last found all as prepared

disk == <<at, dirs, stamp, changes>>
scan == <<scanned, candidates, overflow>>
input == <<initial, reading, file, got, short, growth>>
output == <<taken, attempted, runs, skipped, truncated, result, moment>>
vars == <<disk, steady, pc, job, wanted, prepared, scan, queue, input, output>>

NoFile == [dir |-> 0, rev |-> 0, size |-> 0]

Whole(size) == [stamp |-> 0, trace |-> 1, stdout |-> 1, size |-> size, good |-> TRUE]

InFlight == [Whole(0) EXCEPT !.trace = 0, !.stdout = 0]

Present == {n \in Names : at[n] # 0}

Snapshot(n) == <<at[n], dirs[at[n]].stamp>>

Init ==
  /\ dirs \in UNION {[1 .. k -> {Whole(s) : s \in Sizes} \cup {InFlight}] : k \in 0 .. MaxEntries}
  /\ \E ids \in SUBSET Names :
       /\ Cardinality(ids) = Len(dirs)
       /\ ids \cap Debris \in {{}, {Lock, Staging}}
       /\ at = [n \in Names |->
                  IF n \in ids THEN Cardinality({m \in ids : m <= n}) ELSE 0]
  /\ stamp = 0 /\ changes = 0
  /\ pc = "start" /\ job \in Jobs /\ wanted \in RunIds
  /\ job = "list" => wanted = Min(RunIds)
  /\ prepared = 0
  /\ steady = {} /\ scanned = {} /\ candidates = {} /\ overflow = FALSE
  /\ queue = <<>>
  /\ initial = <<0, 0>> /\ reading = "trace" /\ file = NoFile /\ got = {}
  /\ short = FALSE /\ growth = FALSE
  /\ taken = {} /\ attempted = 0 /\ runs = <<>> /\ skipped = 0
  /\ truncated = FALSE /\ result = "none" /\ moment = at

-----------------------------------------------------------------------------
(* The other processes.                                                    *)

Change ==
  /\ changes < MaxChanges
  /\ changes' = changes + 1
  /\ UNCHANGED <<pc, job, wanted, prepared, scan, queue, input, output>>

\* A directory appears under name n, as a new one.
Appear(n, dir) ==
  /\ at[n] = 0
  /\ dirs' = Append(dirs, dir)
  /\ at' = [at EXCEPT ![n] = Len(dirs) + 1]
  /\ stamp' = stamp + 1

Record(r) == Change /\ Appear(r, InFlight) /\ UNCHANGED steady

RecordOutput(r) ==
  /\ Change
  /\ at[r] # 0 /\ dirs[at[r]].stdout = 0
  /\ dirs' = [dirs EXCEPT ![at[r]].stdout = 1, ![at[r]].stamp = @ + 1]
  /\ UNCHANGED <<at, stamp, steady>>

PublishTrace(r) ==
  /\ Change
  /\ at[r] # 0 /\ dirs[at[r]].stdout # 0 /\ dirs[at[r]].trace = 0
  /\ \E s \in Sizes :
       dirs' = [dirs EXCEPT ![at[r]].trace = 1, ![at[r]].size = s,
                            ![at[r]].stamp = @ + 1]
  /\ UNCHANGED <<at, stamp, steady>>

\* An import creates its lock file, which it never removes, and a complete
\* staging directory.
TakeLock == Change /\ Appear(Lock, InFlight) /\ UNCHANGED steady

Stage ==
  /\ Change
  /\ at[Lock] # 0
  /\ \E s \in Sizes : Appear(Staging, Whole(s))
  /\ UNCHANGED steady

\* A rename: the run to the backup, the staging directory to the run, or the
\* backup back to the run.
Rename(from, to) ==
  /\ Change
  /\ <<from, to>> \in UNION {{<<r, Backup>>, <<Staging, r>>, <<Backup, r>>} : r \in RunIds}
  /\ at[Lock] # 0 /\ at[from] # 0 /\ at[to] = 0
  /\ at' = [at EXCEPT ![from] = 0, ![to] = at[from]]
  /\ dirs' = [dirs EXCEPT ![at[from]].stamp = @ + 1]
  /\ stamp' = stamp + 1
  /\ steady' = steady \ {from}

\* The cleanup of an import.
Discard(n) ==
  /\ Change
  /\ n \in {Staging, Backup}
  /\ at[n] # 0
  /\ at' = [at EXCEPT ![n] = 0]
  /\ stamp' = stamp + 1
  /\ steady' = steady \ {n}
  /\ UNCHANGED dirs

\* A user writes into a file and may spoil the trace.
Edit(r) ==
  /\ Change
  /\ at[r] # 0
  /\ \/ /\ dirs[at[r]].trace # 0
        /\ \E s \in Sizes, g \in BOOLEAN :
             dirs' = [dirs EXCEPT ![at[r]].trace = @ + 1, ![at[r]].size = s,
                                  ![at[r]].good = g]
     \/ /\ dirs[at[r]].stdout # 0
        /\ dirs' = [dirs EXCEPT ![at[r]].stdout = @ + 1]
  /\ UNCHANGED <<at, stamp, steady>>

Others ==
  \/ \E r \in RunIds : Record(r) \/ RecordOutput(r) \/ PublishTrace(r) \/ Edit(r)
  \/ TakeLock \/ Stage
  \/ \E m, n \in Names : Rename(m, n)
  \/ \E n \in Names : Discard(n)

-----------------------------------------------------------------------------
(* Where the reader goes.                                                  *)

\* The current run has failed with a code after n attempted bytes: a listing
\* goes on with the next one, unless its byte budget is used up.
Fail(code, n) ==
  /\ attempted' = attempted + n
  /\ IF job # "list"
     THEN pc' = "done" /\ result' = code /\ UNCHANGED <<queue, skipped, truncated>>
     ELSE /\ IF code = "trace_budget_exceeded"
             THEN pc' = "verify_store" /\ truncated' = TRUE /\ UNCHANGED <<queue, skipped>>
             ELSE pc' = "next" /\ skipped' = skipped + 1 /\ queue' = Tail(queue)
                  /\ UNCHANGED truncated
          /\ UNCHANGED result
  /\ UNCHANGED <<taken, runs, moment>>

Goto(p) == pc' = p /\ UNCHANGED <<queue, output>>

Reader == UNCHANGED <<disk, job, wanted>>

-----------------------------------------------------------------------------
(* scandir, for one run and for a listing.                                 *)

PrepareStore ==
  /\ pc = "start"
  /\ prepared' = stamp
  /\ steady' = Present
  /\ moment' = at
  /\ pc' = "scan"
  /\ Reader
  /\ UNCHANGED <<scan, queue, input, taken, attempted, runs, skipped, truncated, result>>

\* One entry, in no order.  scandir may also return one that has gone since,
\* or miss one that came or went.
Enumerate(n) ==
  /\ pc = "scan"
  /\ n \in (Present \cup steady) \ scanned
  /\ scanned' = scanned \cup {n}
  /\ IF n \notin RunIds
     THEN /\ skipped' = IF job = "list" THEN skipped + 1 ELSE skipped
          /\ UNCHANGED <<candidates, overflow>>
     ELSE /\ IF job # "list" \/ Cardinality(candidates) < MaxCandidates + 1
             THEN candidates' = candidates \cup {n} /\ UNCHANGED overflow
             ELSE /\ overflow' = TRUE
                  /\ candidates' = IF n > Min(candidates)
                                   THEN (candidates \ {Min(candidates)}) \cup {n}
                                   ELSE candidates
          /\ UNCHANGED skipped
  /\ Reader
  /\ UNCHANGED <<steady, pc, prepared, queue, input, taken, attempted, runs,
                 truncated, result, moment>>

\* The greatest MaxCandidates of these ids, in descending order: one sequence.
Retained(ids) ==
  LET places == 1 .. Min({MaxCandidates, Cardinality(ids)})
  IN {q \in [places -> ids] :
        /\ \A i, j \in places : i < j => q[i] > q[j]
        /\ \A n \in ids \ Range(q), i \in places : n < q[i]}

\* The ids that are retained are the candidates, the sentinel is dropped.
BeginListing ==
  /\ pc = "scan" /\ job = "list" /\ steady \subseteq scanned
  /\ queue' \in Retained(candidates)
  /\ candidates' = Range(queue')
  /\ truncated' = (overflow \/ Cardinality(candidates) > MaxCandidates)
  /\ pc' = "next"
  /\ Reader
  /\ UNCHANGED <<steady, prepared, scanned, overflow, input, taken, attempted, runs,
                 skipped, result, moment>>

\* The exact name, and no other that differs in case only.
SelectRun ==
  LET aliases == {n \in candidates : CaseKey[n] = CaseKey[wanted]}
  IN /\ pc = "scan" /\ job # "list" /\ steady \subseteq scanned
     /\ IF aliases = {wanted}
        THEN pc' = "next" /\ queue' = <<wanted>> /\ UNCHANGED output
        ELSE Fail(IF aliases = {} THEN "run_not_found" ELSE "run_identity_mismatch", 0)
             /\ UNCHANGED queue
     /\ Reader
     /\ UNCHANGED <<steady, prepared, scan, input>>

-----------------------------------------------------------------------------
(* One run: resolve_store_candidate and verify_run_directory.              *)

ResolveInitial ==
  /\ pc = "next" /\ queue # <<>>
  /\ IF at[Head(queue)] = 0
     THEN Fail("run_not_found", 0) /\ UNCHANGED initial
     ELSE initial' = Snapshot(Head(queue)) /\ Goto("resolve")
  /\ Reader
  /\ UNCHANGED <<steady, prepared, scan, reading, file, got, short, growth>>

\* Mutants: only that there is a run; only its identity, not its times.
RunUnchanged_AnyRun == at[Head(queue)] # 0

RunUnchanged_SameInode == at[Head(queue)] # 0 /\ at[Head(queue)] = initial[1]

\* The runs directory and the run's are the ones that were prepared.
RunUnchanged ==
  /\ stamp = prepared
  /\ at[Head(queue)] # 0
  /\ Snapshot(Head(queue)) = initial

ResolveVerify ==
  /\ pc = "resolve"
  /\ reading' = "trace"
  /\ IF RunUnchanged THEN Goto("stat") ELSE Fail("run_identity_mismatch", 0)
  /\ Reader
  /\ UNCHANGED <<steady, prepared, scan, initial, file, got, short, growth>>

-----------------------------------------------------------------------------
(* One file below it: prepare_regular_file, open_prepared_file, the reads  *)
(* and verify_opened_file, for a trace and for an artifact.                *)

\* A failure to read is an error for the trace and a failed assertion for an
\* artifact, whose run is verified all the same.
Unreadable(code, n) ==
  IF reading = "trace" THEN Fail(code, n)
  ELSE /\ pc' = "final"
       /\ result' = code
       /\ UNCHANGED <<queue, taken, attempted, runs, skipped, truncated, moment>>

CannotRead == IF reading = "trace" THEN "trace_unreadable" ELSE "artifact_unreadable"

HasChanged == IF reading = "trace" THEN "run_identity_mismatch" ELSE "artifact_changed"

\* The file as lstat of its path, or fstat of descriptor d, sees it.
FileIn(d) ==
  [dir |-> d, rev |-> dirs[d][reading],
   size |-> IF reading = "trace" THEN dirs[d].size ELSE 0]

AtPath == IF at[Head(queue)] = 0 THEN NoFile ELSE FileIn(at[Head(queue)])

Exists(f) == f.rev # 0

Budget == MaxBytes - attempted

PrepareFile ==
  /\ pc = "stat"
  /\ file' = AtPath
  /\ IF ~Exists(AtPath)
     THEN Unreadable(IF reading = "trace" THEN "trace_missing" ELSE "artifact_unreadable", 0)
     ELSE IF reading = "trace" /\ AtPath.size > MaxTraceBytes
     THEN Fail("trace_too_large", 0)
     ELSE IF reading = "trace" /\ job = "list" /\ AtPath.size > Budget
     THEN Fail("trace_budget_exceeded", 0)
     ELSE Goto("open")
  /\ got' = {} /\ short' = FALSE /\ growth' = FALSE
  /\ Reader
  /\ UNCHANGED <<steady, prepared, scan, initial, reading>>

OpenFile ==
  /\ pc = "open"
  /\ IF ~Exists(AtPath)
     THEN Unreadable(CannotRead, 0)
     ELSE IF AtPath # file
     THEN Unreadable(HasChanged, 0)
     ELSE Goto("read")
  /\ Reader
  /\ UNCHANGED <<steady, prepared, scan, input>>

\* Two reads stand for any number: what is there at each of them.
Read ==
  /\ pc \in {"read", "read_rest"}
  /\ LET now == FileIn(file.dir)
     IN /\ got' = got \cup {now.rev}
        /\ short' = (short \/ (reading = "trace" /\ now.size < file.size))
  /\ Goto(IF pc = "read" THEN "read_rest"
          ELSE IF reading = "trace" THEN "probe" ELSE "verify")
  /\ Reader
  /\ UNCHANGED <<steady, prepared, scan, initial, reading, file, growth>>

\* Mutant: the probe is not charged against the budget.
ProbeAllowed_Always == TRUE

ProbeAllowed == job # "list" \/ file.size < Budget

\* One more byte is asked for, unless that would exceed the budget.
Probe ==
  /\ pc = "probe"
  /\ growth' = (~short /\ ProbeAllowed /\ FileIn(file.dir).size > file.size)
  /\ Goto("verify")
  /\ Reader
  /\ UNCHANGED <<steady, prepared, scan, initial, reading, file, got, short>>

ReadBytes ==
  IF reading # "trace" THEN 0
  ELSE file.size + IF ~short /\ ProbeAllowed THEN 1 ELSE 0

FileUnchanged == FileIn(file.dir) = file /\ AtPath = file

VerifyFile ==
  /\ pc = "verify"
  /\ IF ~FileUnchanged
     THEN Unreadable(HasChanged, ReadBytes)
     ELSE IF short \/ growth
     THEN Unreadable(CannotRead, ReadBytes)
     ELSE Goto("final")
  /\ Reader
  /\ UNCHANGED <<steady, prepared, scan, input>>

-----------------------------------------------------------------------------
(* Accepting: what was read counts if the run is still the one resolved.   *)

Take == taken' = {[file |-> file, got |-> got, of |-> reading]} \cup
                 IF reading = "trace" THEN {} ELSE taken

AcceptTrace ==
  /\ pc = "final" /\ reading = "trace"
  /\ IF ~dirs[file.dir].good
     THEN Fail("trace_invalid", ReadBytes) /\ UNCHANGED reading
     ELSE IF ~RunUnchanged
     THEN Fail("run_identity_mismatch", ReadBytes) /\ UNCHANGED reading
     ELSE /\ attempted' = attempted + ReadBytes
          /\ Take
          /\ moment' = at
          /\ runs' = Append(runs, [id |-> Head(queue), dir |-> file.dir])
          /\ CASE job = "load" -> /\ pc' = "done" /\ result' = "loaded"
                                  /\ UNCHANGED <<queue, truncated, reading>>
               [] job = "assert" -> /\ pc' = "stat" /\ reading' = "stdout"
                                    /\ UNCHANGED <<queue, truncated, result>>
               [] job = "list" ->
                    /\ queue' = Tail(queue)
                    /\ IF Len(runs') = MaxRuns /\ queue' # <<>>
                       THEN pc' = "verify_store" /\ truncated' = TRUE
                       ELSE pc' = "next" /\ UNCHANGED truncated
                    /\ UNCHANGED <<result, reading>>
          /\ UNCHANGED skipped
  /\ Reader
  /\ UNCHANGED <<steady, prepared, scan, initial, file, got, short, growth>>

\* The end of evaluate_run.
AcceptAssertion ==
  /\ pc = "final" /\ reading = "stdout"
  /\ IF ~RunUnchanged THEN Fail("run_identity_mismatch", 0)
     ELSE /\ pc' = "done"
          /\ IF result = "none" THEN Take /\ result' = "evaluated"
             ELSE UNCHANGED <<taken, result>>
          /\ UNCHANGED <<queue, attempted, runs, skipped, truncated, moment>>
  /\ Reader
  /\ UNCHANGED <<steady, prepared, scan, input>>

\* verify_prepared_store compares identities only, and the directory of the
\* runs is never replaced here.
EndListing ==
  /\ \/ pc = "verify_store"
     \/ pc = "next" /\ queue = <<>>
  /\ pc' = "done" /\ result' = "listed"
  /\ Reader
  /\ UNCHANGED <<steady, prepared, scan, queue, input, taken, attempted, runs,
                 skipped, truncated, moment>>

-----------------------------------------------------------------------------
ReaderStep ==
  \/ PrepareStore \/ (\E n \in Names : Enumerate(n)) \/ BeginListing \/ SelectRun
  \/ ResolveInitial \/ ResolveVerify
  \/ PrepareFile \/ OpenFile \/ Read \/ Probe \/ VerifyFile
  \/ AcceptTrace \/ AcceptAssertion \/ EndListing

Next == Others \/ ReaderStep

Spec == Init /\ [][Next]_vars

-----------------------------------------------------------------------------
(* Properties.                                                             *)

\* What a reader accepts is one version of one run: each file was read whole
\* in one revision, from the directory that is at the run's place when it is
\* accepted, the artifact from the directory the trace came from.
AcceptsOneVersion ==
  [][taken' # taken =>
       \A t \in taken' : /\ t.got = {t.file.rev}
                         /\ t.file.dir = at[Head(queue)]]_vars

\* docs/ci-json-output.md:130-132: "Replay, assertions, inspect, and list [...]
\* reject case aliases".  No listing returns two runs whose ids differ in case
\* only.  But scan_runs hands its candidates to resolve_store_candidate, and the
\* test is in resolve_run_directory.
AliasesRejected ==
  \A i, j \in DOMAIN runs : CaseKey[runs[i].id] = CaseKey[runs[j].id] => i = j

\* A listing that reports itself complete (nothing skipped, not truncated)
\* and returns a run is what was in the store at one moment of the call,
\* although it locks nothing and runs come, go and are swapped while it
\* reads.  An empty one promises nothing: with no candidate nothing is
\* compared after the scan but the identity of the directory.
CompleteListingIsSnapshot ==
  pc = "done" /\ result = "listed" /\ skipped = 0 /\ ~truncated
  /\ runs # <<>> =>
    {runs[i] : i \in DOMAIN runs} =
      {[id |-> n, dir |-> moment[n]] : n \in {m \in Names : moment[m] # 0}}

\* A listing accounts for every entry: returned, skipped, or left unread
\* because of a limit, and then it says truncated.  Runs come in descending
\* order, what is left unread is older than all of them, and the limits hold.
Left == {n \in scanned \cap RunIds : n \notin candidates} \cup Range(queue)

ListingAccountsForAll ==
  pc = "done" /\ result = "listed" =>
    /\ truncated <=> Len(runs) + skipped < Cardinality(scanned)
    /\ \A i, j \in DOMAIN runs : i < j => runs[i].id > runs[j].id
    /\ \A n \in Left, i \in DOMAIN runs : n < runs[i].id
    /\ attempted <= MaxBytes /\ Len(runs) <= MaxRuns
=============================================================================
