---------------------------- MODULE McpProxyProofs ----------------------------
(***************************************************************************)
(* Proofs about McpProxy, for every set of exit codes of the server and    *)
(* every set of signals the proxy catches.                                 *)
(***************************************************************************)
EXTENDS McpProxy, TLAPS

Places == {"absent", "reading", "forward", "last", "writing", "last_writing",
           "eof", "failing", "finally", "flushing", "done"}

Looping == {"launch", "poll"}

Closing == {"broken", "close_stdin", "await_lock", "await_client", "await_relays", "reap"}

Control == Looping \cup Closing \cup {"finally", "seal"} \cup AfterSeal

TypeOK ==
  /\ at \in [Relays -> Places]
  /\ pc \in Control
  /\ shutdown \in BOOLEAN /\ descendants \in BOOLEAN
  /\ child_exited \in BOOLEAN /\ tree_terminated \in BOOLEAN
  /\ complete \in BOOLEAN /\ incomplete_inflight \in BOOLEAN
  /\ kill_failed \in BOOLEAN /\ late_failure \in BOOLEAN
  /\ caught_signal \in DOMAIN SignalCode \cup {"none"}
  /\ raw_child_code \in Codes \cup {None}
  /\ child \in {"running", "exited"}

\* The relays exist from the launch on, all of them.
RelaysTogether ==
  /\ \A r \in Relays : at[r] = "absent" <=> at["client"] = "absent"
  /\ pc = "launch" => at["client"] = "absent"

\* Whether the loop was left because the server had exited, or because the
\* client's grace period had ended, is settled once.
LoopLeftOnce ==
  /\ pc \in Looping => ~child_exited
  /\ "client_disconnected" \in reasons =>
       proxy_cleanup /\ ~child_exited /\ pc \notin Looping

\* What the seal concluded stays as it was.
SealedOnce ==
  Sealed =>
    /\ incomplete_inflight => complete
    /\ complete => reasons = {} /\ Done("client") /\ Done("server")

\* The exit code is that of the failures so far.
CodeNow == ProxyExitCode(failures, incomplete_inflight)

CodesAgree ==
  /\ pc \in {"trim", "publish"} =>
       trace.exit_code = exit_code /\ (~late_failure => exit_code = CodeNow)
  /\ pc \in {"compute_final", "returned"} /\ ~late_failure /\ ~StoreFailed =>
       published.exit_code = CodeNow
  /\ pc = "returned" => exit_code = CodeNow

\* A shutdown has a cause, and without a signal or a failed relay it is the
\* main thread's, which has terminated the tree by then.
ShutdownHasCause ==
  shutdown /\ pc \in Looping \cup Closing \cup {"finally"} =>
    caught_signal # "none" \/ failures # {} \/ tree_terminated

\* An output relay ends with the tree, with a shutdown or with a failure.
Ending == {"last_writing", "finally", "flushing", "done"}

OutputEndsWithTree ==
  \A r \in {"server", "stderr"} :
    at[r] \in Ending => ~descendants \/ shutdown \/ failures # {}

Undisturbed == ~kill_failed /\ caught_signal = "none" /\ failures = {}

TreeIsGone ==
  /\ tree_terminated /\ ~kill_failed => child = "exited" /\ ~descendants
  /\ pc \notin Looping \cup (Closing \ {"reap"}) /\ Undisturbed => ~descendants
  /\ pc \notin Looping \cup Closing /\ Undisturbed => child = "exited"

IInv ==
  /\ TypeOK
  /\ RelaysTogether
  /\ LoopLeftOnce
  /\ SealedOnce
  /\ CodesAgree
  /\ ShutdownHasCause
  /\ OutputEndsWithTree
  /\ TreeIsGone

-----------------------------------------------------------------------------
(* What a step of a relay may do to the rest of the proxy.                 *)

\* A relay moves and leaves what the main thread and the environment see.
Moves(r, from, to) ==
  /\ pc # "returned"
  /\ at[r] = from /\ from \notin {"absent", "done"}
  /\ to \in Places \ {"absent"}
  /\ at' = [at EXCEPT ![r] = to]
  /\ r # "client" /\ to \in Ending => ~descendants \/ shutdown \/ from \in Ending
  /\ UNCHANGED <<environment, shutdown, failures, last_failure, reasons, pc, control,
                 result, history>>

(* Every step of a relay but its report of a failure moves it alone: the   *)
(* step ends an output only if the tree is gone or a shutdown is under way.*)
LEMMA RelayMoves ==
  ASSUME TypeOK,
         \/ \E r \in {"client", "server"} : RelayStep(r)
         \/ StderrEnds \/ StderrRaises \/ ChannelIsOpen \/ ChannelIsClosed
         \/ ClientClosed
  PROVE  \E r \in Relays, from \in Places, to \in Places : Moves(r, from, to)
<1> USE DEF Moves, Places, Ending, Go, RelayOnly, Relays, shared, failed, TypeOK
<1>1. ASSUME NEW r \in {"client", "server"}, RelayStep(r)
      PROVE  \E from \in Places, to \in Places : Moves(r, from, to)
  <2>1. CASE ReadMessage(r) BY <2>1 DEF ReadMessage, ToWrite
  <2>2. CASE ReadPart(r) BY <2>2 DEF ReadPart
  <2>3. CASE ReadEof(r) BY <2>3 DEF ReadEof
  <2>4. CASE EndWrite(r) BY <2>4 DEF EndWrite
  <2>5. CASE RelayRaises(r) BY <2>5 DEF RelayRaises
  <2>6. CASE Flush(r) BY <2>6 DEF Flush
  <2>7. CASE RelayDone(r) BY <2>7 DEF RelayDone
  <2> QED BY <1>1, <2>1, <2>2, <2>3, <2>4, <2>5, <2>6, <2>7 DEF RelayStep
<1>2. CASE StderrEnds BY <1>2 DEF StderrEnds
<1>3. CASE StderrRaises BY <1>3 DEF StderrRaises
<1>4. CASE ChannelIsOpen BY <1>4 DEF ChannelIsOpen
<1>5. CASE ChannelIsClosed BY <1>5 DEF ChannelIsClosed
<1>6. CASE ClientClosed BY <1>6 DEF ClientClosed
<1> QED BY <1>1, <1>2, <1>3, <1>4, <1>5, <1>6

-----------------------------------------------------------------------------
(* The inductive step, by the kinds of steps.                              *)

(* Before anything has started all parts hold.                             *)
LEMMA Initially == Init => IInv
<1> SUFFICES ASSUME Init PROVE IInv
  OBVIOUS
<1>1. TypeOK
  <2>1. at \in [Relays -> Places] BY DEF Init, Places
  <2> QED BY <2>1 DEF Init, TypeOK, Control, Looping
<1>2. RelaysTogether /\ OutputEndsWithTree BY DEF Init, RelaysTogether, OutputEndsWithTree, Relays, Ending
<1>3. LoopLeftOnce /\ SealedOnce /\ CodesAgree /\ ShutdownHasCause
  BY DEF Init, LoopLeftOnce, SealedOnce, CodesAgree, ShutdownHasCause, Sealed, AfterSeal
<1>4. TreeIsGone BY DEF Init, TreeIsGone, Looping
<1> QED BY <1>1, <1>2, <1>3, <1>4 DEF IInv

(* The server or a descendant exits: only TreeIsGone and                   *)
(* OutputEndsWithTree speak of them, and both want them gone.              *)
LEMMA ExitsKeep ==
  ASSUME IInv, ChildExits \/ DescendantsExit
  PROVE  IInv'
<1>1. /\ UNCHANGED <<at, shutdown, failures, reasons, pc, caught_signal, child_exited,
                     proxy_cleanup, tree_terminated, raw_child_code, complete,
                     incomplete_inflight, exit_code, trace, published, kill_failed,
                     late_failure>>
      /\ child' \in {child, "exited"} /\ descendants' \in {descendants, FALSE}
  BY DEF ChildExits, DescendantsExit, shared, failed, control, result, history, IInv, TypeOK
<1>2. TypeOK' /\ OutputEndsWithTree' /\ TreeIsGone'
  <2>1. TypeOK' BY <1>1, ZenonT(40) DEF IInv, TypeOK
  <2>2. ~descendants => ~descendants' BY <1>1
  <2>3. OutputEndsWithTree' BY <1>1, <2>2 DEF IInv, OutputEndsWithTree
  <2>4. TreeIsGone' BY <1>1, <2>2 DEF IInv, TreeIsGone, Undisturbed
  <2> QED BY <2>1, <2>3, <2>4
<1>3. RelaysTogether' /\ LoopLeftOnce' /\ SealedOnce' /\ ShutdownHasCause'
  BY <1>1 DEF IInv, RelaysTogether, LoopLeftOnce, SealedOnce, ShutdownHasCause, Sealed, Done
<1>4. CodesAgree'
  BY <1>1 DEF IInv, CodesAgree, CodeNow, ProxyExitCode, MappedExitCode, StoreFailed
<1> QED BY <1>2, <1>3, <1>4 DEF IInv

(* A signal is caught before the seal only, and is a cause of the shutdown *)
(* it starts.                                                              *)
LEMMA SignalKeeps ==
  ASSUME IInv, NEW s \in DOMAIN SignalCode, RequestSignal(s)
  PROVE  IInv'
<1>1. /\ pc \notin AfterSeal \cup {"seal"} /\ caught_signal' = s /\ s # "none" /\ shutdown'
      /\ UNCHANGED <<at, failures, reasons, pc, child, descendants, child_exited,
                     proxy_cleanup, tree_terminated, raw_child_code, complete,
                     incomplete_inflight, exit_code, trace, published, kill_failed,
                     late_failure>>
  BY SignalsAssumption
     DEF RequestSignal, BeforeFinally, AfterSeal, environment, failed, result, history
<1>2. TypeOK' /\ OutputEndsWithTree' /\ ShutdownHasCause'
  BY <1>1 DEF IInv, TypeOK, OutputEndsWithTree, ShutdownHasCause
<1>3. RelaysTogether' /\ LoopLeftOnce' /\ SealedOnce' /\ CodesAgree' /\ TreeIsGone'
  BY <1>1 DEF IInv, RelaysTogether, LoopLeftOnce, SealedOnce, CodesAgree, TreeIsGone,
              Undisturbed, Sealed, AfterSeal, Done
<1> QED BY <1>2, <1>3 DEF IInv

(* A relay that moves keeps everything: one that is done stays so.         *)
LEMMA MovesKeep ==
  ASSUME IInv, NEW r \in Relays, NEW from \in Places, NEW to \in Places,
         Moves(r, from, to)
  PROVE  IInv'
<1>1. UNCHANGED <<shutdown, failures, reasons, pc, child, descendants, caught_signal,
                  child_exited, proxy_cleanup, tree_terminated, raw_child_code, complete,
                  incomplete_inflight, exit_code, trace, published, kill_failed,
                  late_failure>>
  BY DEF Moves, environment, control, result, history
<1>2. /\ at \in [Relays -> Places] /\ at' = [at EXCEPT ![r] = to]
      /\ at[r] = from /\ from \notin {"absent", "done"} /\ to # "absent"
      /\ r # "client" /\ to \in Ending => ~descendants \/ shutdown \/ from \in Ending
  BY DEF Moves, IInv, TypeOK
<1>3. TypeOK' /\ RelaysTogether' /\ SealedOnce' /\ OutputEndsWithTree'
  BY <1>1, <1>2 DEF IInv, TypeOK, RelaysTogether, SealedOnce, OutputEndsWithTree, Sealed,
                    Done, Relays
<1>4. LoopLeftOnce' /\ ShutdownHasCause' /\ TreeIsGone'
  BY <1>1 DEF IInv, LoopLeftOnce, ShutdownHasCause, TreeIsGone, Undisturbed
<1>5. CodesAgree'
  BY <1>1 DEF IInv, CodesAgree, CodeNow, ProxyExitCode, MappedExitCode, StoreFailed
<1> QED BY <1>3, <1>4, <1>5 DEF IInv

(* A reported failure is a cause of the shutdown it starts; after the seal *)
(* it counts as late.                                                      *)
LEMMA ReportKeeps ==
  ASSUME IInv, NEW r \in Relays, ReportFailure(r)
  PROVE  IInv'
<1>1. UNCHANGED <<reasons, pc, child, descendants, caught_signal, child_exited,
                  proxy_cleanup, tree_terminated, raw_child_code, complete,
                  incomplete_inflight, exit_code, trace, published, kill_failed>>
  BY DEF ReportFailure, environment, control, result
<1>2. /\ shutdown' /\ failures' # {} /\ pc # "returned"
      /\ late_failure' \in BOOLEAN /\ (Sealed => late_failure')
  BY DEF ReportFailure, AddFailure, IInv, TypeOK
<1>3. /\ at \in [Relays -> Places] /\ at[r] = "failing"
      /\ \E to \in Places \ {"absent"} : at' = [at EXCEPT ![r] = to]
  BY DEF ReportFailure, Go, IInv, TypeOK, Places
<1>4. TypeOK' /\ RelaysTogether' /\ SealedOnce' /\ OutputEndsWithTree'
  BY <1>1, <1>2, <1>3 DEF IInv, TypeOK, RelaysTogether, SealedOnce, OutputEndsWithTree,
                          Sealed, Done, Relays
<1>5. LoopLeftOnce' /\ ShutdownHasCause' /\ TreeIsGone'
  BY <1>1, <1>2 DEF IInv, LoopLeftOnce, ShutdownHasCause, TreeIsGone, Undisturbed
<1>6. CodesAgree'
  BY <1>1, <1>2 DEF IInv, CodesAgree, Sealed, AfterSeal
<1> QED BY <1>4, <1>5, <1>6 DEF IInv

(* What the main thread does: each of its steps keeps every part.          *)
LEMMA MainKeeps ==
  ASSUME IInv, MainStep
  PROVE  IInv'
<1> USE DEF IInv, TypeOK, RelaysTogether, LoopLeftOnce, SealedOnce, CodesAgree,
            ShutdownHasCause, OutputEndsWithTree, TreeIsGone, Undisturbed,
            Looping, Closing, AfterSeal, Sealed, Done, Control,
            environment, failed, shared, control, result, history
<1>1. CASE Launch BY <1>1 DEF Launch, Relays, Places, Ending
<1>2. CASE LaunchFails BY <1>2 DEF LaunchFails, AddFailure
<1>3. CASE LeaveLoop BY <1>3 DEF LeaveLoop
<1>4. CASE GraceExpires BY <1>4 DEF GraceExpires, Mark
<1>5. CASE Broken
  <2> USE <1>5 DEF Broken, TerminateOnce, TerminateTree, KeepTree, MustTerminate
  <2>1. TypeOK' BY ZenonT(40)
  <2>2. RelaysTogether' /\ LoopLeftOnce' /\ SealedOnce' OBVIOUS
  <2>3. CodesAgree' OBVIOUS
  <2>4. ShutdownHasCause' /\ OutputEndsWithTree' OBVIOUS
  <2>5. TreeIsGone' OBVIOUS
  <2> QED BY <2>1, <2>2, <2>3, <2>4, <2>5
<1>6. CASE CloseStdin BY <1>6 DEF CloseStdin
<1>7. CASE StdinClosed BY <1>7 DEF StdinClosed
<1>8. CASE StdinBlocked
  <2> USE <1>8 DEF StdinBlocked, Mark, TerminateOnce, TerminateTree, KeepTree
  <2>1. TypeOK' OBVIOUS
  <2>2. RelaysTogether' /\ LoopLeftOnce' /\ SealedOnce' OBVIOUS
  <2>3. CodesAgree' OBVIOUS
  <2>4. ShutdownHasCause' /\ OutputEndsWithTree' OBVIOUS
  <2>5. TreeIsGone' OBVIOUS
  <2> QED BY <2>1, <2>2, <2>3, <2>4, <2>5
<1>9. CASE AwaitClient BY <1>9 DEF AwaitClient
<1>10. CASE AwaitRelays BY <1>10 DEF AwaitRelays, OutputsDone, Ending
<1>11. CASE RelaysBlocked
  <2> USE <1>11 DEF RelaysBlocked, Mark, TerminateOnce, TerminateTree, KeepTree
  <2>1. TypeOK' BY ZenonT(40)
  <2>2. RelaysTogether' /\ LoopLeftOnce' /\ SealedOnce' OBVIOUS
  <2>3. CodesAgree' OBVIOUS
  <2>4. ShutdownHasCause' /\ OutputEndsWithTree' OBVIOUS
  <2>5. TreeIsGone' OBVIOUS
  <2> QED BY <2>1, <2>2, <2>3, <2>4, <2>5
<1>12. CASE Reap
  <2> USE <1>12 DEF Reap, TerminateTree
  <2>1. TypeOK' OBVIOUS
  <2>2. RelaysTogether' /\ LoopLeftOnce' /\ SealedOnce' OBVIOUS
  <2>3. CodesAgree' OBVIOUS
  <2>4. ShutdownHasCause' /\ OutputEndsWithTree' OBVIOUS
  <2>5. TreeIsGone' OBVIOUS
  <2> QED BY <2>1, <2>2, <2>3, <2>4, <2>5
<1>13. CASE Finally BY <1>13 DEF Finally
<1>14. CASE Seal
  <2> USE <1>14 DEF Seal, Unfinished, Started, TraceOf, Relays
  <2>1. TypeOK' BY ZenonT(40)
  <2>2. RelaysTogether' /\ LoopLeftOnce' /\ SealedOnce' OBVIOUS
  <2>3. CodesAgree' BY DEF CodeNow, ProxyExitCode, MappedExitCode
  <2>4. ShutdownHasCause' /\ OutputEndsWithTree' OBVIOUS
  <2>5. TreeIsGone' OBVIOUS
  <2> QED BY <2>1, <2>2, <2>3, <2>4, <2>5
<1>15. CASE TrimFails BY <1>15 DEF TrimFails, AddFailure, CodeNow, ProxyExitCode, MappedExitCode
<1>16. CASE Publish BY <1>16 DEF Publish, CodeNow, ProxyExitCode, MappedExitCode
<1>17. CASE PublishRaises BY <1>17 DEF PublishRaises, AddFailure, StoreFailed
<1>18. CASE ComputeFinal BY <1>18 DEF ComputeFinal, CodeNow, ProxyExitCode, MappedExitCode, StoreFailed
<1> QED BY <1>1, <1>2, <1>3, <1>4, <1>5, <1>6, <1>7, <1>8, <1>9, <1>10, <1>11, <1>12, <1>13, <1>14, <1>15, <1>16, <1>17, <1>18 DEF MainStep

(* Every step keeps the invariant.                                         *)
LEMMA Inductive == IInv /\ [Next]_vars => IInv'
<1> SUFFICES ASSUME IInv, [Next]_vars PROVE IInv'
  OBVIOUS
<1>1. CASE ChildExits \/ DescendantsExit BY <1>1, ExitsKeep
<1>2. CASE \E s \in DOMAIN SignalCode : RequestSignal(s) BY <1>2, SignalKeeps
<1>3. CASE \/ \E r \in {"client", "server"} : RelayStep(r)
           \/ StderrEnds \/ StderrRaises \/ ChannelIsOpen \/ ChannelIsClosed
           \/ ClientClosed
  BY <1>3, RelayMoves, MovesKeep DEF IInv
<1>4. CASE \E r \in Relays : ReportFailure(r) BY <1>4, ReportKeeps
<1>5. CASE MainStep BY <1>5, MainKeeps
<1>6. CASE UNCHANGED vars
  <2>1. UNCHANGED <<child, descendants, at, shutdown, failures, reasons, pc, caught_signal,
                    child_exited, proxy_cleanup, tree_terminated, raw_child_code, complete,
                    incomplete_inflight, exit_code, trace, published, kill_failed,
                    late_failure>>
    BY <1>6 DEF vars, environment, shared, failed, control, result, history
  <2>2. TypeOK' BY <2>1 DEF IInv, TypeOK
  <2>3. CodesAgree'
    BY <2>1 DEF IInv, CodesAgree, CodeNow, ProxyExitCode, MappedExitCode, StoreFailed
  <2> QED BY <2>1, <2>2, <2>3 DEF IInv, RelaysTogether, LoopLeftOnce, SealedOnce,
             ShutdownHasCause, OutputEndsWithTree, TreeIsGone, Undisturbed, Sealed, Done
<1> QED BY <1>1, <1>2, <1>3, <1>4, <1>5, <1>6 DEF Next

(* The invariant holds of every state of every session.                    *)
LEMMA Invariance == Spec => []IInv
BY Initially, Inductive, PTL DEF Spec

-----------------------------------------------------------------------------
(* An exit code that the server can return is 0 to the shell only if it is *)
(* 0: a signal becomes 128 and its number, a multiple of 256 becomes 1.    *)
LEMMA MappedFaithfully ==
  ASSUME NEW raw \in -255 .. 255, raw # 0
  PROVE  MappedExitCode(raw) # 0
<1>1. CASE raw < 0 BY <1>1 DEF MappedExitCode, None
<1>2. CASE raw > 0
  <2>1. raw % 256 = raw BY <1>2
  <2> QED BY <1>2, <2>1 DEF MappedExitCode, None
<1> QED BY <1>1, <1>2

(* A trace that says its observation is complete was sealed after both     *)
(* message relays had ended, in every interleaving of the proxy's threads. *)
THEOREM CompletenessIsTrue == Spec => []CompleteMeansRelaysEnded
<1>1. IInv => CompleteMeansRelaysEnded BY DEF IInv, SealedOnce, CompleteMeansRelaysEnded
<1> QED BY <1>1, Invariance, PTL

(* The exit code never turns a failure of the server that was seen into    *)
(* success, and cleaning up after the client's end of input into none.     *)
THEOREM ExitCodeIsFaithful == Spec => []ExitCodeFaithful
<1>1. ASSUME IInv, pc = "returned", child_exited, raw_child_code # 0
      PROVE  exit_code # 0
  <2>1. exit_code = CodeNow BY <1>1 DEF IInv, CodesAgree
  <2>2. caught_signal \in DOMAIN SignalCode \cup {"none"} /\ raw_child_code \in Codes \cup {None}
    BY <1>1 DEF IInv, TypeOK
  <2>3. caught_signal # "none" => SignalCode[caught_signal] # 0
    BY <2>2, SignalsAssumption
  <2>4. MappedExitCode(raw_child_code) # 0
    <3>1. CASE raw_child_code = None BY <3>1 DEF MappedExitCode
    <3>2. CASE raw_child_code \in Codes BY <3>2, <1>1, MappedFaithfully, CodesAssumption
    <3> QED BY <2>2, <3>1, <3>2
  <2> QED BY <1>1, <2>1, <2>3, <2>4 DEF CodeNow, ProxyExitCode
<1>2. ASSUME IInv, pc = "returned", "client_disconnected" \in reasons, failures = {},
             caught_signal = "none"
      PROVE  exit_code = 0
  <2>1. exit_code = CodeNow /\ proxy_cleanup /\ ~child_exited
    BY <1>2 DEF IInv, CodesAgree, LoopLeftOnce
  <2>2. ~incomplete_inflight BY <1>2 DEF IInv, SealedOnce, Sealed, AfterSeal
  <2> QED BY <1>2, <2>1, <2>2 DEF CodeNow, ProxyExitCode
<1>3. IInv => ExitCodeFaithful BY <1>1, <1>2 DEF ExitCodeFaithful
<1> QED BY <1>3, Invariance, PTL

(* The trace on disk has the exit code of the process, unless the store or *)
(* a relay failed after the code was computed.                             *)
THEOREM TraceAgreesWithProcess == Spec => []TraceTellsExitCode
<1>1. IInv => TraceTellsExitCode
  BY DEF IInv, CodesAgree, TraceTellsExitCode, TraceAgrees
<1> QED BY <1>1, Invariance, PTL

(* When nothing was signalled and no relay failed, neither the server nor  *)
(* a descendant that holds its pipes outlives the proxy, if the kernel     *)
(* let it terminate them.                                                  *)
THEOREM NothingSurvives == Spec => []NoSurvivor
<1>1. IInv => NoSurvivor
  BY DEF IInv, TreeIsGone, Undisturbed, NoSurvivor, Looping, Closing
<1> QED BY <1>1, Invariance, PTL
=============================================================================
