# A TLA+ verification of Tracord

Tracord records what a command or an MCP tool server did into a *run*: a
directory with a `trace.json` and artifacts below `.tracord/runs`. Runs are
listed, replayed, asserted on, exported to zip bundles and imported from them.
The program is small (about 8000 lines of Python below `src/tracord`), but two
of its parts are concurrent or have to survive a crash: the MCP stdio proxy,
which watches a JSON-RPC conversation while it relays it, and the bundle
import, which replaces a run directory by a transaction in the file system.
They come first. Around them are readers that take no lock, a recorder whose
run directory may be taken away while it writes, and exporters that race for one
output path. Paths below are relative to the repository.

## 1. Inventory

| Part | Where | State it keeps | Operations | What is hard about it | What makes it correct |
|---|---|---|---|---|---|
| Tool-call observer | `mcp_proxy.py` `_Observer` | events, table of open calls, keys whose next response is discarded, reserved event slots, capture budget, loss counters and reasons, `sealed` | observe a client or server message, mark losses, seal, record what trimming dropped | ids chosen by the client, reuse, cancellation racing the answer, late answers, caps | calls in a trace are well formed; an answer finishes its own request or the trace says it is incomplete; caps are never exceeded |
| Observation worker | `mcp_proxy.py` `_ObservationWorker` | bounded FIFO, charged items and bytes, counters of what was refused, flags `closed`, `failed`, `finalized` | submit a message or marker (two relay threads), process (worker thread), close and seal (main thread) | condition variable, submissions during close, observer calls that raise, a worker that dies | limits charged exactly; order kept; each submission is observed or counted; close ends |
| Relays and shutdown | `mcp_proxy.py` `_relay_messages`, `_WriteChannel`, `proxy_mcp_stdio` | pending line, write lock and closed flag of the child's stdin, done flags, failures, exit code | relay bytes, end of input, signal, child exit, grace periods, final exit code | three threads and a main loop with timeouts, a write that blocks with the lock held | bytes pass unchanged and in order; bounded shutdown; exit code and status agree with what happened |
| Trace trimming | `mcp_proxy.py` `_trim_trace`, `_collapse_oversized_trace` | the trace under construction | omit captures, drop a prefix of calls, collapse | binary search over sizes, metadata that changes after measuring | result fits the limit, drops as few calls as possible, stays well formed |
| Process launch and termination | `mcp_proxy.py` `_launch_process`, `_terminate_tree`, `_WindowsJob` | process group or job | start, terminate a tree | operating system | no process that holds the server's outputs survives |
| Bundle import | `bundle.py` `import_bundle` and helpers | run directory, staging and backup directories, journal, lock file | lock, recover, stage, swap, roll back, clean up | several processes, kills between any two system calls, failing renames and syncs | the run is never lost or partial; recovery restores what the journal promised; imports exclude each other |
| Bundle export | `bundle.py` `export_run` | temporary bundle | write, verify identity, publish without replacing | exporters and users racing for the output path, a failing link or unlink | a published bundle is complete, none is overwritten, the report is true |
| Export preview | `export_preview.py` | findings and completeness | scan within byte and file limits, combine into readiness, gate | files changing while scanned, limits reached in the middle of a file | the strict gate never passes on uncertainty |
| Run storage | `storage.py`, `paths.py` | prepared run directory and its identity | prepare, write artifact, publish `trace.json` | replacement of directories, failure after the rename | a published trace is whole |
| Recorder, replay | `recorder.py`, `replay.py` | one run | snapshot, execute with timeout, write outputs, publish | interruption or kill between any two steps, publish failure | status agrees with the outcome |
| Trace access, listing | `trace_access.py`, `run_listing.py` | none | resolve, read bounded, probe, scan within limits | runs recorded, imported, swapped and edited while being read | what is accepted is one version of one run; a complete listing is the store at one moment |
| Assertions | `assertions.py`, `assertion_files.py` | remaining byte budget | search both outputs in chunks, verify identities | needles and characters across chunk borders, limits, files changing | the verdict is that of a search of the whole text |
| Git capture | `git_capture.py` | before and after snapshots | start, finish, close | failing git calls at any point, a work tree that changes during a snapshot | what is listed is sound; a failed capture is reported, and its temporary objects are removed if they can be |
| CI output, result codes | `ci_output.py`, `result_codes.py` | none | build and truncate results | byte budget | always valid, never over budget |
| Trace schema | `schema.py` | none | validate | none (pure) | accepts what the writers produce |
| Redaction | `redaction.py` | none | rewrite text | none (pure) | – |
| Command line | `cli.py` | none | parse, dispatch, print | none | – |

How they interact. `proxy_mcp_stdio` starts the worker, the child process and
three relay threads. A relay submits each message to the worker *before* it
forwards the bytes; the worker calls the observer; the main thread closes the
worker, seals the observer, trims the trace with two more calls to the
observer and publishes it through the run storage, as the recorder does.
`import_bundle` shares the runs directory with other imports, which take its
lock, and with recorders and readers, which do not. Exporters share nothing but
the output path, and with the preview the trace and artifacts they read.

The hazards of this code, with the line where each bites and the properties
about it, are listed in `PROJECT.json`.

## 2. Modules

| Module | Models | Extends / instantiates |
|---|---|---|
| `ToolCallTrace` | abstract: what a trace promises about tool calls (`schema.py` `_validate_tool_call_lifecycle`, the `complete` flag) | – |
| `ToolObserver` | `_Observer`: all its methods | instance of `ToolCallTrace` as refinement target |
| `ToolSession` | the observer in a conversation with a client and a server | extends `ToolObserver` |
| `LossLedger` | abstract: what the observation pipeline promises about messages | – |
| `ObservationWorker` | `_ObservationWorker`: relays, worker thread, close | instance of `LossLedger` |
| `MessageRelay` | `_relay_messages` with `_raw_read`, `_raw_write` and `_WriteChannel`: one relay, byte by byte | – |
| `McpProxy` | `proxy_mcp_stdio`: main thread, three relays, channel, signals, the server's processes, exit code, publication | – |
| `AtomicReplace` | abstract: what an import promises about the run | – |
| `ImportTransaction` | `import_bundle` from the lock to the cleanup | instance of `AtomicReplace` |
| `RunAccess` | `trace_access.py`, `run_listing.py`: one reader against recordings, imports and edits | – |
| `RecordRun` | `record_command` with `storage.py` and `git_capture.py` | – |
| `BundleExport` | `export_run`: any number of exporters to one output path | – |
| `AssertionEvaluation` | `_contains_failure`: the chunked search of both outputs | – |
| `ExportPreview` | `preview_export` and `gate_reasons` | – |
| `TraceTrim` | `_trim_trace`, `_collapse_oversized_trace`, the last observation | – |
| `ObservationWorkerProofs`, `ToolObserverProofs`, `BoundedWorkProofs`, `MessageRelayProofs`, `McpProxyProofs`, `ImportTransactionProofs`, `RecordRunProofs`, `RunAccessProofs` | theorems (section 5) | extend their component and TLAPS; `ToolObserverProofs` extends `ToolSession`, `BoundedWorkProofs` extends `BundleExport`, `ExportPreview`, `AssertionEvaluation` and `TraceTrim` |
| `MCBoundedWork` | `AssertionEvaluation`, `ExportPreview`, `BundleExport`, `TraceTrim` and `MessageRelay` side by side; a behaviour is of one of them | extends the five |
| other `MC…` | small instances for TLC | extend their component |

### ToolObserver

Each method takes the observer's lock once (`mark_unobserved` before the
critical section returns), so one method call is one action. A message is
abstracted to its JSON-RPC id and its kind. Ids keep what `_request_key` tells
apart: text and number are different, `1` and `1.0` are the same, and some ids
are unusable. A captured value is the record of what `_capture_locked` asks of
it: whether it is JSON-safe, whether redaction leaves it, changes it or merges
two keys, whether it can be encoded, and its encoded size.

`events` keeps, for each event, its type, call id, outcome and capture; the
`i`-th element is the `i`-th element of the code's list. Times and names are
left out. `messages` is the model's bound and not in the code.

An exception that leaves a method (for example a lone surrogate in an id) is
not modelled here: the worker counts it (`ReportError`), which the observer
sees as a mark.

### ToolSession

Adds the two external programs. The client sends `tools/call` with any id at
any time and cancels any; the server answers each request at most once, in any
order, cancelled requests too. A request is observed before its answer, because
the relay submits before it forwards and the worker keeps the order
(`OrderPreserved` in `ObservationWorker`). `asked` and `answered` are history:
which request a recorded call stands for and which answer finished it.
`saturated` remembers that a key was forgotten because the table was full;
`CompleteAttribution`, which needs it, says so (section 4, observation 1).

### ObservationWorker

One action is one critical section of `condition` or one call of the observer.
`worker` and `closer` are the control locations of the two threads; relays have
none, a submission is one critical section. `condition.wait` is the location
`waiting`, and only `Notify` leads out of it. A call of the observer returns,
raises an `Exception`, or raises beyond it; the error report can raise again.
The observer is abstracted to the ids it processed, its loss counter and its
reasons. Two reasons are merged where the worker does not tell them apart
(every marker reports `marked`).

### MessageRelay

A byte is its position in the input, so that "the wire is unchanged" is
`sent = <<1, 2, ..., n>>`; `ends` is the set of newlines, any set. `chunk` is
what is left of the last read, `todo` what is to be written next and `then`
where control goes afterwards. A read returns any number of bytes, a write
accepts any number, either may raise; the retries after `InterruptedError`,
`BlockingIOError` and `EAGAIN` change nothing and are left out. The rest of the
program is the actions `Shutdown`, `RefuseWrites` and `CloseStream`, each at any
time.
`ObservedMatchesReference` compares the cutting of the code with a definition
of lines on the whole input.

### McpProxy

The main thread goes through the locations of `pc`, one per step of
`proxy_mcp_stdio` that another thread, a signal or a process can come before.
A relay (`at`) reads, is caught in a write, raises, or ends; `writing` of the
client relay is the write channel's lock. Whether a relay has an unfinished
line when it leaves its loop is open. The test of `shutdown` in `except` and
the append to `failures` are two steps (`RelayRaises`, `ReportFailure`).
`failures` is the set of codes with the last one beside it, which is what the
exit code and the last correction of the trace ask for.

Time is left out: a wait with a timeout may end at any moment with what it
waits for or without. `descendants` stands for processes that hold the server's
outputs; a termination may fail to reach them. `Seal` contains the marks for
unfinished relays, the close of the worker, the seal and the first exit code:
what a relay does between them is seen as after them, and whether the worker or
the observer lost anything is open. `kill_failed` and `late_failure` are
history.

Left out: the closing of the proxy's own outputs, the diagnostic line and its
thread, exceptions of the main thread other than a failed launch, and the
Windows branches.

### ImportTransaction

`dir` maps the run, staging and backup directories to the version they hold,
`partial` while it is written or deleted. One action is one system call, or
one followed by the directory sync that the code makes next (`Then`: the sync
may fail after the effect). `RaiseBefore` is a system call failing without
effect, `Crash` a kill between any two. `Handler` says where an exception goes,
read off the nested `try` statements. The lock file follows `_open_import_lock`
call by call: exclusive create, write, sync, `lstat`, open and compare, compare
with the path again, `flock`. Lock files are named after their creator, so that
an unlinked file and its replacement differ.

A journal write is atomic (temporary file, sync, rename). Left out: the
temporary journal file, the empty directory that reserves the name of the
backup, the archive's content, alias and link checks. The file system is
assumed to keep what a rename did when the process dies; a power failure that
loses unsynced data is not modelled.

### RunAccess

One reader (`load`, `assert` or `list`) and everybody else. An action of the
reader is one system call, or several whose results are only compared with each
other. A directory is an object with a stamp that every change of its entries
and every rename of it moves: the times `lstat` shows. That a clock tick
separates two changes is assumed, as the code assumes it. The other processes
create runs, write outputs and traces, take the import lock, stage, rename the
run to the backup, the staging directory to the run and the backup back, remove
staging and backup, and edit files in place. Their renames come in any order,
which is more than one import does. `scandir` returns the names that stay, and
any of those that come or go meanwhile. `Retained` is what `list_run_directory`
keeps of the ids it scans, newest first. Reading a file is two reads that stand
for any number; whether a trace parses and validates is one bit. `moment` is
history: the entries when the reader last found all directories as prepared.

### RecordRun

One recording from `prepare_run` to the end of `finally`, with the Git
capture's three calls per snapshot (`ReadTree`, `ListChanged`, `WriteTree`), the
summary, the patch, its redaction and measurement. Each git call is good, bad or
over its limit. The work tree, the index and HEAD change at any time until the
second tree is written; what is edited later cannot matter and is left out. The
run directory is moved away, or replaced by another, at most once and never
moved back (a directory that returns would be the one that was created, and is
accepted). Removing the temporary trace, and the temporary objects of Git, may
fail, which the code ignores (`Unlink`, `Close`). An interrupt is an exception that only `finally` sees; a kill is a
recording that stops, and the invariants hold of every state it can stop in. A
file's content is `part`, `raw` (not yet redacted) or `whole`. `saw` is history:
the versions each path had while a snapshot was taken. `Visible` is a file as
`git add` will find it: git ignores an ignored path only while the index does not
have it.

### BundleExport

An exporter's bundle is a file object with two possible names, its temporary
path and the output path. `Link`, `RenameNoReplace` and `Replace` are the three
ways of publishing. An exception goes to the handler, whose `unlink` may fail, and
then to `finally`, whose second `unlink` may fail as well. `Interrupt` is an
exception between any two steps. The member count stands for the manifest, the
trace and the artifacts; a member that is missing, changed or over a limit is a
failing `WriteMember`.

### AssertionEvaluation, ExportPreview, TraceTrim

Computations with limits, modelled a step at a time because what they read may
change in between or because a loop can be wrong at its borders.
`AssertionEvaluation` reads chunk by chunk with the carried tail, the
incremental decoder and the budget both outputs share; a byte is one of two
letters, half of a two-byte character, or never valid. Opening, reading or
verifying may fail at any step (`ArtifactFails`). `ExportPreview` goes
through trace, manifest and artifacts, each with preparation, opening, reading
and verification, each of which may fail; a read that raises (`ReadFails`)
charges nothing to the budget, as in the code. A file is its size, the position
of its secret and of a NUL.
`TraceTrim` computes sizes as sums and keeps the loop of the binary search with
its two borders. An event is the call it belongs to and the bytes it and its
capture take.

## 3. Runs

| Run | Question | Bounds and why they are enough |
|---|---|---|
| `MCToolObserver` | are the recorded calls well formed, the tables, reservations and budgets exact, and is the abstract trace implemented? | five messages or marks, ids in two spellings and two types, caps of 2 open calls, 7 events, 4 capture bytes: each cap is reached, and a call can be opened, cancelled, refused and reopened |
| `MCToolSession` | does a complete trace attribute every answer to its request? | six messages, a table of one open call and one remembered key, so that it is full after one cancellation |
| `MCObservationWorker` | are losses counted, charges exact and the order kept? is no wake-up lost, and does close end? | five submissions into two slots and three bytes: overflow by number and by bytes, every failure, close at every moment |
| `MCMcpProxy` | do completeness and exit code agree with what happened, does no process that holds the server's outputs outlive the proxy, and does it return? | all relays, one signal, a server that succeeds or is killed, descendants or none |
| `MCImportTransaction` | exclusion, no partial run, nothing left over, atomic replacement | three imports, so that one can be killed, a second killed while recovering, and a third recover; one failing system call |
| `MCImportFaults` | recovery when rollback and cleanup fail too, and does an import end? | two imports, failing lock files, three failing system calls |
| `MCImportLock` | do imports exclude each other when a lock file cannot be initialised? (violated) | three imports: one that fails, one that has opened its file, one that creates a new one |
| `MCMcpExitCode` | does every written trace tell the exit code of the process? (violated) | as `MCMcpProxy` |
| `MCRunAccess` | is what a reader accepts one version of one run, is a complete listing the store at one moment, and is every entry accounted for? | three ids, two of which differ in case only, up to three entries and two changes by others: a swap of a run takes two renames; two candidates, two runs and three bytes, so that each limit is reached with an entry to spare |
| `MCCaseAliases` | does a listing reject ids that differ in case only? (violated) | the store of `MCRunAccess`, without changes by others |
| `MCRecordRun` | is a published trace whole, is the diff sound, and does anything temporary stay that was not tried to be removed? | a plain and an ignored file, a store outside (with redaction), over one committed file (with and without) or over the whole repository, two edits (a change and its reversal, or one in each snapshot) |
| `MCBoundedWork` | is a verdict that of a search of the whole text, does a passing gate mean that all was seen, does trimming lose as little as will do, does a relay leave the wire unchanged and observe each line, can an output be overwritten or a report be wrong? | texts of up to five bytes in chunks of two, needles up to three, a limit of four per artifact and six for both, one rewriting; up to three artifacts of which two are scanned, one change; traces of up to three calls with values of three sizes; a relay buffer of two bytes, chunks of four, inputs up to six, so that there are lines below, at and above the limit, within one chunk and across several; three exporters with and without `--overwrite`, two members and two changes by the user, so that a third party can appear after the check and after a failed link |

Several invariants have parts, which are named in the modules: `TablesExact` is
the reservations, the exactness of the table of open calls and its separation
from the keys to discard; `ChargesExact` includes that nothing is stranded in a
queue nobody serves; `WakeUpsKept` that a waiting worker is woken and that an
overflow is reported without a further message; `WireExact` that the wire is a
prefix of the input and, at a normal end, all of it. That the run is never lost
by an import is `ImplementsAtomicReplace` with up to one failing call and
`RecoveryComplete` beyond.

`ImplementsAtomicReplace` is checked with one failing call, not three: when the
sync of the committed journal fails *and* the rollback fails, the import
reports failure while the new version stays. The run stays
recoverable, and this double fault is what `MCImportFaults` covers with the
weaker property.

`CHECK_DEADLOCK FALSE` is set where the modelled system ends: after the bounded
number of messages, when the relay's thread or the proxy has ended, when every
import or exporter has, when the recording or the reader is done and the bounded
changes are used up, when a computation has its result. `ObservationWorker`
never ends (a submission after the seal is a step), so there deadlock is
checked.

**Fairness.** `ObservationWorker!FairSpec` assumes that the worker thread runs
when it can and that the main thread, once it is closing, does; nothing of the
relays, of when close is called, or of whether observer calls return or raise.
Python's threads are preemptive and the critical sections short. The wake-up is
not assumed: a worker in `waiting` has no step until somebody notifies it.
`McpProxy!FairSpec` assumes that the main thread goes on and that its timeouts
come; nothing of the relays, the client, the server or the kernel's willingness
to kill, which is what bounded shutdown means.
`ImportTransaction!FairSpec` assumes that a process that has begun goes on
until it ends or is killed; it takes no lock with waiting. The other modules state no fairness:
their properties are about what was done, and a process that stops is a kill.

## 4. Findings and observations

Three runs show a disagreement of the code with a document.

`MCImportLock`. A creator that fails to sync its lock file unlinks a
file another import has opened; with a third import two are past the lock,
against `docs/bundle-v0.md:124` ("hold an OS-level per-run lock").

`MCMcpExitCode`. A relay that raises can test `shutdown` before the main thread
sets it and append its failure after the exit code of the trace was computed: the
trace tells the code of before, the process returns 1, against
`docs/mcp-stdio-proxy.md:99` ("the Tracord proxy process result").
`TraceTellsExitCode`, which `MCMcpProxy` checks and the theorem states, says that
outside this window and that of a store that fails after the rename the two agree;
in both windows the document's promise is broken.

`MCCaseAliases`. A listing resolves its candidates by `resolve_store_candidate`
and does not look for ids that differ in case only; `resolve_run_directory`, which
replay, inspect and assertions use, does. `docs/ci-json-output.md:130-132` says
that all of them "reject case aliases". `AcceptsOneVersion` says nothing of
aliases.

What the models also show. Some of it no document speaks of, some is a limit the
code accepts; where a document says otherwise it is quoted:

1. When `ignored_response_keys` is full, the key of a cancelled or refused call
   is forgotten without a reason. A reused id then does not wait for the late
   response, and the observation still claims to be complete.
2. A kill between creating the import's lock file and writing its byte leaves an
   empty file, and every later import is refused as "already in progress".
3. A read of the preview that raises has its bytes neither counted nor charged
   to the budget of all files (`export_preview.py:410-421`), although
   `docs/bundle-v0.md:98` has `bytes_read` count "bytes loaded from file
   descriptors". `ForgivenScanIsBounded` bounds the bytes that are charged.
4. A partial line that is flushed at shutdown is neither observed nor counted, and
   the trace may still say `complete`: `CompleteMeansRelaysEnded` is about the
   relays having ended and not about such a line.
5. Readers compare the times of the whole directory of runs, so any run that is
   recorded or imported meanwhile makes `inspect`, `replay` and `assert` fail
   with `run_identity_mismatch`, and a listing skip what it had not read.
6. An import never removes its lock file, so after the first import every
   listing skips at least one entry and never reports itself complete.
7. A listing that returns nothing compares nothing after its scan; it need not
   be the store at any moment, which is why `CompleteListingIsSnapshot` excepts
   it.
8. `changes.patch` is written raw and redacted afterwards. If the redaction
   fails the raw patch stays in the run, whose trace says `error`. The patch is
   written by path, and a run directory that was replaced receives it.
9. The publication of a trace can fail after `os.replace`: the run is published
   and the command reports `record_store_unwritable`. `PublishedIsWhole` does not
   forbid that; it says that what is published then is whole.
10. An export reads the trace and the artifacts without comparing the run's
    directory, so that a bundle made during an import can hold files of both
    versions.
11. When the `unlink` in an export's `finally` fails, an error is reported
    although the bundle is published.
12. The preview's readiness does not know the size limits of the export itself,
    nor of artifacts beyond its own limits, which it does not open. A file with a
    NUL is not scanned as text, so a gate that forgives incomplete scans can pass
    over a secret in it.
13. Failures to unlink the temporary trace (`storage.py:233-236`) and to remove
    the temporary objects of Git (`git_capture.py:127-130`, `234-241`) are
    ignored; what could not be removed stays. `NothingLeftBehind` says that
    nothing else does, interrupts of the recording excepted.

## 5. Proofs

Every theorem is `Spec => ...` of the component's own specification (`SSpec` of
`ToolSession`, `ExportSpec`, `PreviewSpec`, `EvaluationSpec` and `TrimSpec` of the
parts `MCBoundedWork` puts side by side), for all values of its constants that satisfy the named assumptions.

**`ObservationWorkerProofs`** (`LimitsAssumption`: limits of at least one item
and one byte; `SizesAssumption`: sizes are naturals; `ShutdownAssumption`,
`SubmissionsAssumption`: types). The inductive invariant `IInv` is `TypeOK`
with six more parts. `Conservation` is the argument: the messages submitted
are those observed, those reported, and those in one of the places a message
can be in (the queue, the worker's hand, the three counters of refused
messages, what `close` has taken and not yet reported). It does not carry
itself through `close`, which reads the counters once and reports later:
`ControlOK` says which phase of shutdown excludes which step of the worker,
`SnapshotOK` what `close` still holds, `ItemsOK` that a queued item stands for
one message, and `SlotsOK` that the charged slots are those in use, which bounds
`outstanding_items` from below. `OrderKept` says of the observed messages, the
item in hand and the queue that each is older than the next, and all of them
than the next submission; a message that goes on to the next place keeps it, and
a failure only empties places. `BytesOK` keeps the bytes: the queue's charge is a
sum over a sequence, so the invariant carries the running sums (`Sums`), each
step says how a queue's sums come from the last ones, and `SumsAgree` says by the
well-foundedness of `<` that there is one such sum. From it:

- `TypeCorrect`: `[]TypeOK`, with the queue within `max_items`;
- `SubmissionOrderKept`: `[]OrderPreserved`, by joining the three ordered places
  (`JoinOrdered`);
- `LimitsAreCharged`: `[]ChargesExact`, items and bytes, through every failure;
- `LossesAreCounted`: `[]EveryLossCounted`, every message is observed or
  reported once by the time of the seal, whichever observer calls raise;
- `PipelineKeepsLedger`: the worker implements `LossLedger`;
- `NoWakeUpIsLost`: a waiting worker has nothing to do (`WaitsOnlyIdle`), which
  is the safety half of `WakeUpsKept`;
- `DrainIsBounded`, `CloseIsBounded`: `StepsToDrain`, five for each item and for
  an overflow, goes down with each step of the worker and up with none of
  anybody once closed; `close` only goes forward, and while it waits for the
  thread that has stopped or has a step left. `WakeUpsKept` and `CloseCompletes`
  follow from these and from fairness.

**`ToolObserverProofs`** (`CapsAssumption`: the caps are naturals, at least one
open call and two events; `PayloadsAssumption`: what is captured has a size and
`null` is among it; `MarksAssumption`, `BoundsAssumption`: types). The
lifecycle of calls is not inductive: that a started id is new needs
`CallsNumbered` (the ids given out are `1 .. next_call - 1`), that a finished
one was open needs `OpenCallsAreInFlight` (the table is exact), and the bounds
need `TablesFinite` and `KeysSeparate`. `StepMeans` reduces the fifteen
disjuncts of `Next` to three cases, a call starts, a call finishes, or the calls
stay, and each part of `IInv` is preserved in each. From it:

- `TypeCorrect`, `LifecycleAlwaysValid`, and `TablesAreExact`, which puts
  `ReservationsHold`, `TableExact` and `TablesBounded` together;
- `SealIsFinal`: the action property `SealedIsFinal`;
- `ObserverImplementsTrace`: the observer implements `ToolCallTrace`; the cap
  on events bounds the call ids, and the three cases above map to `Start`,
  `Finish`, and `Miss`, `Seal` or a stutter;
- `CapturesAreAccounted`: `[]CaptureLedger`. An event never changes once it is
  recorded, so `RunningCharge` follows the sum of what the events store, with
  uniqueness of sums as above;
- of `ToolSession` (`MarkOneAssumption`: one message can be marked unobserved,
  as `mcp_proxy.py:245` does; a step that the session adds is a step of `Next`,
  which carries `IInv` over): `NoCallIsLost`: `[]NoSilentCallLoss`, each request
  sent is a call recorded or a message counted as unobserved, and while no reason
  is given all of them are recorded; `CallsGetTheirAnswers`:
  `[]CompleteAttribution`, for sessions without reasons in which no key had to be
  forgotten (`~saturated`; beyond them observation 1 holds). The second needs that
  there the keys with an answer owed are the open calls and those remembered to be
  ignored, each for one request (`SessionInv`).

**`BoundedWorkProofs`** (of `BundleExport`, `ExportAssumption`: `NoFile` and `Foreign` are no
exporters and differ; the bounds are naturals). The set of exporters is any set.
The properties do not carry themselves: that `exported` means published needs
what control says (`ControlOf`: an exporter that reaches `finally` with nothing
reported has published, one before publication has not), that an incomplete
bundle is never put at the output needs that the publishing places imply
`archived`, and that a success leaves no temporary file needs `TemporaryOf` before
there is one. `StepsApart` says that a step of an exporter disturbs no other
one, `OwnStep` what it does to its own part and to the output; the induction
puts the two together. From it:

- `TypeCorrect`; `ReportsAreFaithful`: `[]ReportFaithful`;
  `TemporariesRemoved`: `[]TemporaryRemoved`;
- `NothingIsOverwritten`: the action property `PublishesAtomically`, for any
  number of exporters, members and changes by the user;
- of `ExportPreview` (`PreviewAssumption`: positive limits, the one for a file
  within the one for all; `CountsAssumption`: a trace names a bounded number of
  artifacts; `ShapesAssumption`: what is in a file is within its size):
  `StrictGateSawAll`: `[]PassedGateSawAll`, `ForgivenScanKeepsLimits`:
  `[]ForgivenScanIsBounded`. The gate compares revisions it cannot see again.
  `PreviewInv` says what an entry vouches for from the moment its file was
  prepared (`Attested`, `ReadingKept`), that what is on disk is in the history
  and no revision there is newer than the changes so far (`HistoryKept`), and
  which files have an entry at each place (`PlacesKept`). Both theorems are about
  the preview; `docs/bundle-v0.md:103-104` says that a later export can find other
  files;
- of `AssertionEvaluation` (`EvaluationAssumption`: contents and needles are
  strings of the model's bytes, a needle fits its limit, limits are positive):
  `VerdictsAreExact`: `[]VerdictExact`, for all contents, needles and chunk
  sizes, of files that could be read and were not rewritten. `EvaluationInv` says what the search knows of the bytes it has read
  (`Knows`: the needle was found or is not there, the text is valid up to a
  character that may be cut, and what it carries is the end of it), what the
  first search leaves to the second (`BudgetKept`) and that a rewrite can still
  be seen (`RevisionsKept`). That an occurrence across two chunks is found is
  `OccursInWindow`;
- of `TraceTrim` (`TrimAssumption`: traces are sequences of events, sizes are
  naturals, and the target leaves room for the reason within what readers
  accept): `NoMoreIsLost`: `[]TrimExact`, for traces of any length. The binary
  search is right because dropping more calls never makes a trace larger
  (`FewerCallsFit`): no number below `low` suffices, and `smallestFit`,
  once set, is the least number tried that does (`SearchKept`);
  `LeastFitting` says that what the search ends with is the least of all.
  `EncodedSize`, `CallIds` and `WithoutCalls` are recursive functions. That such
  a function exists (`RecursionExists`) and what it computes at each position
  (`SizeAddsUp`, `KeptCollected`) is an induction over positions, made
  from a set of positions and the well-foundedness of `<` (`PositionsCounted`).

**`MessageRelayProofs`** (`RelayAssumption`: a buffer and a chunk of at least
one byte). Every byte string the relay holds is an interval of the input,
`Bytes(a, b)`, and `BytesJoin`, `BytesPart` and `BytesSplit` are all the proofs
need of sequences. The invariant has two halves. `Places` says which intervals
adjoin in which control location: what is sent, what is to be written, what is
pending, what is left of the chunk. `LineKept` says where the last line starts
and that it is pending or streamed, and `Watched` that the observer has the
lines of what was cut. That a segment keeps `Watched` is `LastLineKnown`: a
later byte changes the last line only (`LinesReached`). From it:

- `BytesGoThrough`: `[]WireExact`; `LinesAreObserved`:
  `[]ObservedMatchesReference`, for every input and every way of reading and
  cutting it; `ObserverComesFirst`: `[]ObservedBeforeForwarded`.

**`McpProxyProofs`** (`SignalsAssumption`, `CodesAssumption`: what exit codes and
signals are; `"none"` is the model's word for no signal and so no signal's
name). The invariant ties what the main thread concluded to what the relays can
still do: `SealedOnce` (nothing is corrected upwards after the seal),
`CodesAgree` (which code was computed from which failures, up to
`late_failure`), and for the processes `ShutdownHasCause`, `OutputEndsWithTree`
and `TreeIsGone`, which together say why a proxy that was not disturbed has
seen the end of the tree. From it:

- `CompletenessIsTrue`, `ExitCodeIsFaithful`, `TraceAgreesWithProcess` and
  `NothingSurvives` (of processes that hold the server's outputs): the four
  invariants `MCMcpProxy` checks. The two windows of section 4 are hypotheses of
  `TraceAgreesWithProcess`.

**`ImportTransactionProofs`** (`NamesAssumption`: the model's names differ;
`FaultsAssumption`: types).
The theorems assume `~LockMayFail`: with lock files that cannot be initialised
the lock is not exclusive, which is what `MCImportLock` shows. The invariant is
about the directories and not about the order of calls: `StoreSound` is what
kills and failures leave (a backup only with its journal, and never without a
whole run at one of the two places); `JournalOf`, `PlacesOf` and `VersionOf` say
for each control location of the one import in the critical section
(`LocksAgree`) whose journal it is, which directories exist, and which version
is where. A recovery begins from `StoreSound` alone. From it:

- `OneImportAtATime`: `[]LockExclusive`; `ReadersFindWholeRuns`:
  `[]TargetWhole`; `RecoveryRestores`: `[]RecoveryComplete`, all three for any
  number of imports, kills and failing calls;
- `NothingStaysBehind`: `[]NoLeftovers`, which needs to know which import each
  directory belongs to (`AtWork`, `OwnersAtWork`);
- `ImportReplacesAtomically`: the refinement of `AtomicReplace`, with at most
  one failing call (`MaxFaults <= 1`) for the reason in section 3. Kills are not
  bounded;
- `ImportIsBounded`, without `~LockMayFail`: each step of an import lowers
  `StepsLeft`, which is at most 62, so that recovery, rollback and cleanup have no
  loop whatever fails; it needs only to know whose transaction a process rolls
  back (`Known`). `OthersDoNotSetBack`: no other import raises it. This is
  what `ImportEnds` rests on besides fairness.

**`RecordRunProofs`** (`RecordAssumption`: stores and ignored files are paths;
versions are numbers; types of the options). The invariant follows the files of the two
directories (`DirectoryKept`, `OutputsKept`, `TraceKept`, `PatchKept`): once a
check has found the directory, what was written before is in it. `DiffKept` says
that a written tree holds of each path a version that was there while its
snapshot was taken; between `git read-tree`, `ls-files` and `add` that is
`InProgress`. From it:

- `PublishedTraceIsWhole`: `[]PublishedIsWhole`; `NamedFilesChanged`:
  `[]DiffSound`, for any number of edits; `LeftoversAreOfFailedRemovals`:
  `[]NothingLeftBehind`, failing removals included.

This proof found an error of the model. `Visible` asked whether HEAD has an
ignored path, where git asks the index it read from HEAD before; the two differ
when HEAD moves during a snapshot, and with three edits `DiffSound` failed in
the model as it was, not in the code. `MCRecordRun` allows two and did not see
it.

**`RunAccessProofs`** (`NamesAssumption`: names are numbers, finitely many of
them run ids, three the names an import uses; `LimitsAssumption`: the limits are
naturals). A reader locks nothing, so the
invariant says what cannot have changed: if the stamp is the one the reader
prepared with, what it opened is what is there (`AsPrepared`) and what it scanned
is what was there (`Sighted`); if a revision is the same before and after, every
read between them saw it (`OneRevision`). `Scanning` and `Accounted` say where
each scanned entry is: returned, queued, skipped or dropped by the limit.
`LeastNatural`, that a set of naturals has a least element, comes from the
well-foundedness of `<` rather than by induction. From it:

- `OneVersionAccepted`: the action property `AcceptsOneVersion`;
- `EveryEntryAccounted`: `[]ListingAccountsForAll`; `CompleteMeansSnapshot`:
  `[]CompleteListingIsSnapshot`.

Two definitions changed for it: `Retained` replaces a sort by its description,
and reading failures now carry the
error code of `trace_access.py`, `artifact_unreadable`.

Only model-checked:

- the four liveness properties `WakeUpsKept`, `CloseCompletes`, `ImportEnds` and
  `ShutdownEnds`: fairness speaks of ENABLED, which the proof system does not
  expand. The bounds on steps above are proved; that enabled steps are taken, and
  that the steps left are taken to the last, is model-checked.

Every invariant and action property and every refinement that a passing run
checks is proved for all constants that satisfy the named assumptions, with two
restrictions: the five theorems about properties of the import assume
`~LockMayFail`, and its refinement also `MaxFaults <= 1`. `MCImportFaults` lets
lock files fail, so its check of `RecoveryComplete` goes beyond the theorem.

## 6. Plan and what is not modelled

What is left: the composition of `BundleExport` with an import that swaps the run
while it is copied (observation 10), should the code come to compare identities
there.

Not modelled:

- `cli.py`, `ci_output.py`, `result_codes.py`: parsing, printing and the
  projection of one result to bounded JSON; no state survives a call.
- `redaction.py`: text patterns. Its outcomes (unchanged, changed, keys collide,
  fails) are inputs of the other models.
- `schema.py` apart from the lifecycle of tool calls, and the parsing of
  assertion files: shapes of JSON values.
- The validation of an imported archive's names, links and sizes: it comes before
  any shared state is touched.
- Process groups and Windows job objects: `McpProxy` uses their outcomes.
- The comparison of single trace fields by an assertion, and `replay.py`, which
  loads a trace as `RunAccess` does and records as `RecordRun` does.
- Power failures that lose what was written and not synced.
