------------------------------- MODULE McpProxy -------------------------------
(***************************************************************************)
(* proxy_mcp_stdio of mcp_proxy.py from the launch of the server to the    *)
(* exit code: the main thread, the three relays, the write channel to the  *)
(* server's stdin, signals, and the server with whatever else of its       *)
(* process tree holds its pipes.                                           *)
(*                                                                         *)
(* How a relay cuts and copies bytes is MessageRelay; here it reads, is    *)
(* caught in a write, raises, or ends, and whether it has an unfinished    *)
(* line is open.  The worker and the observer are the reasons for an       *)
(* incomplete observation.  Time is left out: a wait with a timeout may    *)
(* end at any moment.  POSIX.                                              *)
(***************************************************************************)
EXTENDS Integers

CONSTANTS Codes,      \* raw exit codes of the server, negative for a signal
          SignalCode  \* signal -> exit code of the proxy

ASSUME CodesAssumption == Codes \subseteq -255 .. 255 /\ Codes # {}
ASSUME SignalsAssumption ==
  /\ "none" \notin DOMAIN SignalCode
  /\ \A s \in DOMAIN SignalCode : SignalCode[s] \in 1 .. 255

Relays == {"client", "server", "stderr"}
None == 999            \* no exit code: poll() returned None
NoTrace == [exit_code |-> None, status |-> "none"]

VARIABLES
  \* the environment
  child,           \* "running", "exited"
  descendants,     \* others of its tree run and hold its outputs
  at,              \* where each relay is: reading, with a message to forward,
                   \* writing it, the same of the last one, failing, flushing...
  \* shared
  shutdown, client_eof, channel_closed, stream_closed,
  failures,        \* codes of the list of failures
  last_failure,    \* its last one
  reasons,         \* reasons marked incomplete before the seal
  \* the main thread
  pc, caught_signal, child_exited, proxy_cleanup, tree_terminated,
  raw_child_code, complete, incomplete_inflight, exit_code,
  trace,           \* exit code and status in the trace
  published,       \* the trace.json on disk
  kill_failed,     \* a termination left somebody running (history)
  late_failure     \* a relay failed after the exit code was computed (history)

environment == <<child, descendants>>
failed == <<failures, last_failure>>
shared == <<shutdown, client_eof, failed, channel_closed, stream_closed>>
control == <<caught_signal, child_exited, proxy_cleanup, tree_terminated>>
result == <<raw_child_code, complete, incomplete_inflight, exit_code, trace, published>>
history == <<kill_failed, late_failure>>
vars == <<environment, at, shared, reasons, pc, control, result, history>>

Init ==
  /\ child = "running" /\ descendants \in BOOLEAN
  /\ at = [r \in Relays |-> "absent"]
  /\ shutdown = FALSE /\ client_eof = FALSE
  /\ failures = {} /\ last_failure = "none"
  /\ channel_closed = FALSE /\ stream_closed = FALSE
  /\ reasons = {}
  /\ pc = "launch"
  /\ caught_signal = "none"
  /\ child_exited = FALSE /\ proxy_cleanup = FALSE
  /\ tree_terminated = FALSE
  /\ raw_child_code = None
  /\ complete = FALSE /\ incomplete_inflight = FALSE
  /\ exit_code = 0
  /\ trace = NoTrace /\ published = NoTrace
  /\ kill_failed = FALSE /\ late_failure = FALSE

-----------------------------------------------------------------------------
(* The environment.                                                        *)

ChildExits ==
  /\ child = "running" /\ pc \notin {"launch", "returned"}
  /\ child' = "exited"
  /\ UNCHANGED <<descendants, at, shared, reasons, pc, control, result, history>>

DescendantsExit ==
  /\ descendants /\ pc \notin {"launch", "returned"}
  /\ descendants' = FALSE
  /\ UNCHANGED <<child, at, shared, reasons, pc, control, result, history>>

BeforeFinally ==
  pc \notin {"seal", "trim", "publish", "compute_final",
             "returned"}

\* request_signal, until the handlers are replaced in `finally'
RequestSignal(s) ==
  /\ BeforeFinally
  /\ caught_signal' = s
  /\ shutdown' = TRUE
  /\ UNCHANGED <<environment, at, client_eof, failed, channel_closed, stream_closed,
                 reasons, pc, child_exited, proxy_cleanup, tree_terminated, result,
                 history>>

-----------------------------------------------------------------------------
(* The relays.                                                             *)

AfterSeal == {"trim", "publish", "compute_final", "returned"}
Sealed == pc \in AfterSeal
LockHeld == at["client"] \in {"writing", "last_writing", "flushing"}

AddFailure(code) ==
  failures' = failures \cup {code} /\ last_failure' = code

Go(r, from, to) == at[r] = from /\ at' = [at EXCEPT ![r] = to]
RelayOnly ==
  /\ pc # "returned"        \* the threads are daemons
  /\ UNCHANGED <<environment, pc, control, result, history>>

\* The channel is tested before a write towards the server.
ToWrite(r) == IF r = "client" THEN "forward" ELSE "writing"

\* A whole message is observed and goes out.
ReadMessage(r) ==
  /\ Go(r, "reading", ToWrite(r))
  /\ RelayOnly /\ UNCHANGED <<shared, reasons>>

\* A part of a line stays in the buffer, and `shutdown' is tested before the
\* next read.
ReadPart(r) ==
  /\ shutdown
  /\ Go(r, "reading", "finally")
  /\ RelayOnly /\ UNCHANGED <<shared, reasons>>

\* The end of the input: an unfinished line is the last message.  An output
\* of the server ends when no other process holds it.
ReadEof(r) ==
  /\ r # "client" => ~descendants
  /\ \/ Go(r, "reading", IF r = "client" THEN "eof" ELSE "finally")
     \/ Go(r, "reading", IF r = "client" THEN "last" ELSE "last_writing")
  /\ RelayOnly /\ UNCHANGED <<shared, reasons>>

ChannelIsOpen ==
  /\ ~channel_closed
  /\ Go("client", "forward", "writing") \/ Go("client", "last", "last_writing")
  /\ RelayOnly /\ UNCHANGED <<shared, reasons>>

\* The loop returns; after the last message on_eof is still called.
ChannelIsClosed ==
  /\ channel_closed
  /\ Go("client", "forward", "finally") \/ Go("client", "last", "eof")
  /\ RelayOnly /\ UNCHANGED <<shared, reasons>>

\* The next message of the same chunk, or the next read unless there is a
\* shutdown.
EndWrite(r) ==
  /\ \/ r = "client" /\ Go(r, "writing", "forward")
     \/ ~shutdown /\ Go(r, "writing", "reading")
     \/ shutdown /\ Go(r, "writing", "finally")
     \/ Go(r, "last_writing", IF r = "client" THEN "eof" ELSE "finally")
  /\ RelayOnly /\ UNCHANGED <<shared, reasons>>

\* on_eof of the client relay
ClientClosed ==
  /\ Go("client", "eof", "finally")
  /\ client_eof' = TRUE
  /\ channel_closed' = TRUE
  /\ stream_closed' = TRUE
  /\ RelayOnly /\ UNCHANGED <<shutdown, failed, reasons>>

\* A read or a write raises.  The relay looks whether a shutdown is under way,
RelayRaises(r) ==
  LET to == IF shutdown THEN "finally" ELSE "failing" IN
  /\ \/ Go(r, "reading", to)
     \/ Go(r, "writing", to) \/ Go(r, "last_writing", to)
  /\ RelayOnly /\ UNCHANGED <<shared, reasons>>

\* and if it found none reports the failure and starts one.
ReportFailure(r) ==
  /\ pc # "returned"
  /\ Go(r, "failing", IF r = "stderr" THEN "done" ELSE "finally")
  /\ AddFailure("relay_failed")
  /\ shutdown' = TRUE
  /\ late_failure' = (late_failure \/ Sealed)
  /\ UNCHANGED <<environment, pc, control, result, kill_failed, client_eof, channel_closed,
                 stream_closed, reasons>>

\* finally: a line may be pending and goes out, without the observer.
Flush(r) ==
  /\ r = "client" => ~channel_closed
  /\ Go(r, "finally", "flushing")
  /\ RelayOnly /\ UNCHANGED <<shared, reasons>>

\* Nothing to flush, or flushed; an OSError is ignored.
RelayDone(r) ==
  /\ Go(r, "finally", "done") \/ Go(r, "flushing", "done")
  /\ RelayOnly /\ UNCHANGED <<shared, reasons>>

\* _relay_stderr keeps no buffer and calls nobody: it ends with its input or
\* a shutdown, or it fails.
StderrEnds ==
  /\ shutdown \/ ~descendants
  /\ Go("stderr", "reading", "done")
  /\ RelayOnly /\ UNCHANGED <<shared, reasons>>

StderrRaises ==
  /\ Go("stderr", "reading", IF shutdown THEN "done" ELSE "failing")
  /\ RelayOnly /\ UNCHANGED <<shared, reasons>>

-----------------------------------------------------------------------------
(* The main thread: launch and poll.                                       *)

Launch ==
  /\ pc = "launch"
  /\ at' = [r \in Relays |-> IF shutdown THEN "done" ELSE "reading"]
  /\ pc' = "poll"
  /\ UNCHANGED <<environment, shared, reasons, control, result, history>>

\* The server does not start, or the worker cannot be created.
LaunchFails ==
  /\ pc = "launch"
  /\ AddFailure("not_started")
  /\ child' = "exited" /\ descendants' = FALSE
  /\ pc' = "finally"
  /\ UNCHANGED <<at, shutdown, client_eof, channel_closed, stream_closed, reasons, control,
                 result, history>>

\* One round of the loop, in the order of its tests.  What happens between
\* two of them may as well happen after the last.
LeaveLoop ==
  /\ pc = "poll"
  /\ caught_signal # "none" \/ failures # {} \/ child = "exited"
  /\ child_exited' = (caught_signal = "none" /\ failures = {})
  /\ pc' = "broken"
  /\ UNCHANGED <<environment, at, shared, reasons, caught_signal, proxy_cleanup,
                 tree_terminated, result, history>>

Mark(reason) == reasons' = reasons \cup {reason}

GraceExpires ==
  /\ pc = "poll"
  /\ caught_signal = "none" /\ failures = {} /\ child = "running"
  /\ client_eof
  /\ proxy_cleanup' = TRUE
  /\ Mark("client_disconnected")
  /\ pc' = "broken"
  /\ UNCHANGED <<environment, at, shared, caught_signal, child_exited, tree_terminated,
                 result, history>>

-----------------------------------------------------------------------------
(* The main thread: shutdown.                                              *)

\* _terminate_tree: whoever is left of the process group goes; it may not be
\* permitted, or somebody may have left the group.
TerminateTree ==
  \/ /\ child' = "exited" /\ descendants' = FALSE
     /\ UNCHANGED kill_failed
  \/ /\ kill_failed' = TRUE
     /\ UNCHANGED environment

KeepTree == UNCHANGED <<environment, tree_terminated, kill_failed>>

TerminateOnce_Swapped ==
  \/ tree_terminated /\ TerminateTree /\ UNCHANGED tree_terminated
  \/ ~tree_terminated /\ KeepTree

TerminateOnce ==
  \/ ~tree_terminated /\ TerminateTree /\ tree_terminated' = TRUE
  \/ tree_terminated /\ KeepTree

MustTerminate ==
  ~child_exited /\ (proxy_cleanup \/ failures # {} \/ caught_signal # "none")

Broken ==
  /\ pc = "broken"
  /\ IF MustTerminate THEN TerminateOnce ELSE KeepTree
  /\ pc' = "close_stdin"
  /\ UNCHANGED <<at, shared, reasons, caught_signal, child_exited, proxy_cleanup, result,
                 late_failure>>

\* _WriteChannel.close refuses further writes before it asks for the lock.
CloseStdin ==
  /\ pc = "close_stdin"
  /\ channel_closed' = TRUE
  /\ pc' = "await_lock"
  /\ UNCHANGED <<environment, at, shutdown, client_eof, failed, stream_closed, reasons,
                 control, result, history>>

StdinClosed ==
  /\ pc = "await_lock"
  /\ stream_closed \/ ~LockHeld
  /\ stream_closed' = TRUE
  /\ pc' = "await_relays"
  /\ UNCHANGED <<environment, at, shutdown, client_eof, failed, channel_closed, reasons,
                 control, result, history>>

StdinBlocked_NoTimeout ==
  /\ pc = "await_lock"
  /\ ~stream_closed /\ LockHeld
  /\ UNCHANGED vars

\* The client relay is caught in a write to the server.
StdinBlocked ==
  /\ pc = "await_lock"
  /\ ~stream_closed /\ LockHeld
  /\ proxy_cleanup' = TRUE
  /\ Mark("client_relay_blocked")
  /\ shutdown' = TRUE
  /\ TerminateOnce
  /\ pc' = "await_client"
  /\ UNCHANGED <<at, client_eof, failed, channel_closed, stream_closed, caught_signal,
                 child_exited, result, late_failure>>

\* The second attempt, after the relay ended or the wait did.
AwaitClient ==
  /\ pc = "await_client"
  /\ stream_closed' = (stream_closed \/ ~LockHeld)
  /\ pc' = "await_relays"
  /\ UNCHANGED <<environment, at, shutdown, client_eof, failed, channel_closed, reasons,
                 control, result, history>>

Done(r) == at[r] = "done"
OutputsDone == Done("server") /\ Done("stderr")

AwaitRelays ==
  /\ pc = "await_relays"
  /\ OutputsDone
  /\ pc' = "reap"
  /\ UNCHANGED <<environment, at, shared, reasons, control, result, history>>

RelaysBlocked ==
  /\ pc = "await_relays"
  /\ ~OutputsDone
  /\ proxy_cleanup' = TRUE
  /\ Mark("descendant_cleanup")
  /\ TerminateOnce
  /\ pc' = "reap"
  /\ UNCHANGED <<at, shared, caught_signal, child_exited, result, late_failure>>

\* process.wait, or once more _terminate_tree and poll: only here is it seen
\* what the server exited with.
Reap ==
  /\ pc = "reap"
  /\ IF child = "exited" THEN UNCHANGED <<environment, kill_failed>> ELSE TerminateTree
  /\ raw_child_code' \in IF child' = "exited" THEN Codes ELSE {None}
  /\ pc' = "finally"
  /\ UNCHANGED <<at, shared, reasons, control, complete, incomplete_inflight, exit_code,
                 trace, published, late_failure>>

\* finally: the relays are told, and no signal is caught from here on.
Finally ==
  /\ pc = "finally"
  /\ shutdown' = TRUE
  /\ pc' = "seal"
  /\ UNCHANGED <<environment, at, client_eof, failed, channel_closed, stream_closed,
                 reasons, control, result, history>>

-----------------------------------------------------------------------------
(* The main thread: the result.                                            *)

Started == at["server"] # "absent"

Unfinished_ServerOnly == IF Started /\ ~Done("server") THEN {"server_relay_unfinished"} ELSE {}

\* Relays that may still submit messages.
Unfinished ==
  (IF Done("client") THEN {} ELSE {"client_relay_unfinished"})
    \cup (IF Started /\ ~Done("server") THEN {"server_relay_unfinished"} ELSE {})

MappedExitCode(raw) ==
  IF raw = None THEN 1
  ELSE IF raw < 0 THEN 128 - raw
  ELSE IF raw # 0 /\ raw % 256 = 0 THEN 1
  ELSE raw % 256

ProxyExitCode_CleanupFirst(fs, unanswered) ==
  IF caught_signal # "none" THEN SignalCode[caught_signal]
  ELSE IF fs # {} \/ unanswered THEN 1
  ELSE IF proxy_cleanup THEN 0
  ELSE MappedExitCode(raw_child_code)

\* _proxy_exit_code
ProxyExitCode(fs, unanswered) ==
  IF caught_signal # "none" THEN SignalCode[caught_signal]
  ELSE IF fs # {} \/ unanswered THEN 1
  ELSE IF child_exited THEN MappedExitCode(raw_child_code)
  ELSE IF proxy_cleanup THEN 0
  ELSE MappedExitCode(raw_child_code)

TraceOf(code) == [exit_code |-> code, status |-> IF code = 0 THEN "passed" ELSE "failed"]

\* observation_worker.close(), observer.seal() and the first exit code.  The
\* worker or the observer may have missed a message, and a call may be open.
Seal ==
  /\ pc = "seal"
  /\ reasons' = reasons \cup Unfinished
  /\ complete' \in {FALSE, reasons' = {}}
  /\ incomplete_inflight' \in {FALSE, complete'}
  /\ exit_code' = ProxyExitCode(failures, incomplete_inflight')
  /\ trace' = TraceOf(exit_code')
  /\ pc' = "trim"
  /\ UNCHANGED <<environment, at, shared, control, raw_child_code, published, history>>

TrimFails_KeepsTrace ==
  /\ pc = "trim"
  /\ AddFailure("mcp_trace_too_large")
  /\ pc' = "publish"
  /\ UNCHANGED <<environment, at, shutdown, client_eof, channel_closed, stream_closed,
                 reasons, control, result, history>>

\* The trace is too large and collapsed to a failed one; a collapsed trace
\* is "failed" whatever its exit code.
TrimFails ==
  /\ pc = "trim"
  /\ AddFailure("mcp_trace_too_large")
  /\ exit_code' = ProxyExitCode(failures', incomplete_inflight)
  /\ trace' = [exit_code |-> exit_code', status |-> "failed"]
  /\ pc' = "publish"
  /\ UNCHANGED <<environment, at, shutdown, client_eof, channel_closed, stream_closed,
                 reasons, control, raw_child_code, complete, incomplete_inflight, published,
                 history>>

Publish ==
  /\ pc \in {"trim", "publish"}
  /\ published' = trace
  /\ pc' = "compute_final"
  /\ UNCHANGED <<environment, at, shared, reasons, control, raw_child_code, complete,
                 incomplete_inflight, exit_code, trace, history>>

\* StoreSafetyError, before or after the rename that publishes the trace
PublishRaises ==
  /\ pc \in {"trim", "publish"}
  /\ published' \in {NoTrace, trace}
  /\ AddFailure("mcp_store_unwritable")
  /\ pc' = "compute_final"
  /\ UNCHANGED <<environment, at, shutdown, client_eof, channel_closed, stream_closed,
                 reasons, control, raw_child_code, complete, incomplete_inflight, exit_code,
                 trace, history>>

\* The exit code of the process; the trace in memory follows only a store
\* that failed last.
ComputeFinal ==
  /\ pc = "compute_final"
  /\ exit_code' = ProxyExitCode(failures, incomplete_inflight)
  /\ trace' = IF last_failure = "mcp_store_unwritable"
              THEN [exit_code |-> exit_code', status |-> "failed"] ELSE trace
  /\ pc' = "returned"
  /\ UNCHANGED <<environment, at, shared, reasons, control, raw_child_code, complete,
                 incomplete_inflight, published, history>>

-----------------------------------------------------------------------------
RelayStep(r) ==
  \/ ReadMessage(r) \/ ReadPart(r) \/ ReadEof(r)
  \/ EndWrite(r)
  \/ RelayRaises(r)
  \/ Flush(r) \/ RelayDone(r)

MainStep ==
  \/ Launch
  \/ LaunchFails
  \/ LeaveLoop \/ GraceExpires
  \/ Broken \/ CloseStdin \/ StdinClosed \/ StdinBlocked \/ AwaitClient
  \/ AwaitRelays \/ RelaysBlocked \/ Reap \/ Finally
  \/ Seal \/ TrimFails
  \/ Publish \/ PublishRaises \/ ComputeFinal

Next ==
  \/ ChildExits
  \/ DescendantsExit
  \/ \E s \in DOMAIN SignalCode : RequestSignal(s)
  \/ \E r \in {"client", "server"} : RelayStep(r)
  \/ \E r \in Relays : ReportFailure(r)
  \/ StderrEnds \/ StderrRaises
  \/ ChannelIsOpen \/ ChannelIsClosed
  \/ ClientClosed
  \/ MainStep

Spec == Init /\ [][Next]_vars

\* The main thread runs and its clock advances; nothing is assumed of the
\* relays, the server or the client.
FairSpec == Spec /\ WF_vars(MainStep)
-----------------------------------------------------------------------------
(* Properties.                                                             *)

\* A trace that claims to be complete was sealed after both message relays
\* had ended.  It is about the relays only: a part of a line that a relay
\* flushes as it ends is neither observed nor counted, and the trace may still
\* be complete.
CompleteMeansRelaysEnded == Sealed /\ complete => Done("client") /\ Done("server")

\* A failure of the server that was seen is never reported as success,
\* whatever was cleaned up after it, and the cleanup after the client's end
\* of input does not invent a failure.
ExitCodeFaithful ==
  pc = "returned" =>
    /\ child_exited /\ raw_child_code # 0 => exit_code # 0
    /\ "client_disconnected" \in reasons /\ failures = {} /\ caught_signal = "none" =>
         exit_code = 0

StoreFailed == "mcp_store_unwritable" \in failures
TraceAgrees ==
  pc = "returned" /\ published # NoTrace => published.exit_code = exit_code

\* The trace on disk tells the exit code of the process, except in the two
\* windows where the code breaks what docs/mcp-stdio-proxy.md:99 promises of
\* every trace: a relay that reports its failure once the exit code of the trace
\* was computed (ExitCodeInTrace), and a store that fails after the rename.
TraceTellsExitCode == ~StoreFailed /\ ~late_failure => TraceAgrees

\* docs/mcp-stdio-proxy.md:99: "The trace's top-level `exit_code` is the Tracord
\* proxy process result", here only of a trace that the store reports as written.
\* A relay that looked at `shutdown' before the main thread set it appends its
\* failure after the seal, when only the exit code of the process can follow.
ExitCodeInTrace == ~StoreFailed => TraceAgrees

\* When the server exited, nothing was signalled and no relay failed, no
\* process that holds its outputs outlives the proxy: those that closed them
\* are not known to the code, nor to this model.
NoSurvivor ==
  pc = "returned" /\ ~kill_failed /\ caught_signal = "none" /\ failures = {} =>
    child = "exited" /\ ~descendants

\* Once a signal was caught, a relay failed, the client closed its end or
\* the server exited, the proxy returns, though relays may be blocked for
\* ever in reads or writes.
ShutdownEnds ==
  (caught_signal # "none" \/ failures # {} \/ client_eof \/ child = "exited")
    ~> pc = "returned"
=============================================================================
