-------------------------- MODULE ObservationWorker --------------------------
(***************************************************************************)
(* mcp_proxy._ObservationWorker: the bounded FIFO between the relay        *)
(* threads, which submit messages and reason markers without waiting, and  *)
(* one worker thread that hands them to the observer; the main thread      *)
(* closes the worker, waits for its thread, reports what was lost and      *)
(* seals the observer.                                                     *)
(*                                                                         *)
(* One step is one critical section of `condition' or one call of the      *)
(* observer.  The observer is abstracted to what it processed and what was *)
(* reported to it as lost; ToolObserver is its own state machine.  A call  *)
(* of the observer may raise, as an Exception or beyond; it raises before  *)
(* its effect.                                                             *)
(***************************************************************************)
EXTENDS Integers, Sequences, FiniteSets, SequencesExt

CONSTANTS
  MaxItems,          \* max_items
  MaxBytes,          \* max_bytes
  Sizes,             \* lengths of submitted messages
  ShutdownReasons,   \* reasons the main thread may add before it closes
  MaxSubmissions     \* bound of the model: submissions before the seal

ASSUME LimitsAssumption == MaxItems \in Nat \ {0} /\ MaxBytes \in Nat \ {0}
ASSUME SizesAssumption == Sizes \subseteq Nat
ASSUME ShutdownAssumption == ShutdownReasons \subseteq STRING
ASSUME SubmissionsAssumption == MaxSubmissions \in Nat

VARIABLES
  queue,               \* items [kind, id, count, bytes]
  outstanding_items,
  outstanding_bytes,
  overflow,            \* refused submissions not yet reported
  fatal_dropped,       \* lost to a failed worker, not yet reported
  closed_dropped,      \* submitted during close, not yet reported
  incomplete_reasons,
  closed,
  failed,
  finalized,
  worker,              \* control location of the worker thread
  item,                \* the item it is working on
  closer,              \* control location of the main thread
  snapshot,            \* counts close() took and has not reported yet
  observed,            \* ids the observer processed, in order
  unobserved_messages, \* the observer's loss counter
  reasons,             \* the observer's reasons
  sealed,
  submitted            \* submissions so far, each one's id

limits == <<outstanding_items, outstanding_bytes>>
lost == <<overflow, fatal_dropped, closed_dropped>>
flags == <<closed, failed, finalized>>
observer == <<observed, unobserved_messages, reasons, sealed>>
main == <<closer, snapshot, incomplete_reasons>>
vars == <<queue, limits, lost, flags, worker, item, main, observer, submitted>>

-----------------------------------------------------------------------------
Kinds == {"message", "marker", "overflow"}

Item == [kind: Kinds, id: 0 .. MaxSubmissions, count: Nat, bytes: Nat]

NoItem == [kind |-> "overflow", id |-> 0, count |-> 0, bytes |-> 0]

WorkerAt == {"top", "waiting", "process", "report", "failing", "release", "stopped"}

CloserAt == {"open", "joining", "flush_overflow", "flush_failed",
             "flush_closed", "flush_reasons", "flushed", "sealed"}

Snapshot == [overflow: Nat, failed: Nat, closed: Nat]

WorkerReasons ==
  {"marked", "observer_queue_overflow", "observer_error",
   "observer_worker_failed", "observer_dropped_after_close"}

TypeOK ==
  /\ queue \in Seq(Item)
  /\ outstanding_items \in 0 .. MaxItems
  /\ overflow \in Nat
  /\ fatal_dropped \in Nat
  /\ closed_dropped \in Nat
  /\ incomplete_reasons \subseteq ShutdownReasons
  /\ closed \in BOOLEAN
  /\ failed \in BOOLEAN
  /\ finalized \in BOOLEAN
  /\ worker \in WorkerAt
  /\ item \in Item
  /\ closer \in CloserAt
  /\ snapshot \in Snapshot
  /\ observed \in Seq(1 .. MaxSubmissions)
  /\ unobserved_messages \in Nat
  /\ reasons \subseteq WorkerReasons \cup ShutdownReasons
  /\ sealed \in BOOLEAN
  /\ submitted \in 0 .. MaxSubmissions

Init ==
  /\ queue = <<>>
  /\ outstanding_items = 0
  /\ outstanding_bytes = 0
  /\ overflow = 0
  /\ fatal_dropped = 0
  /\ closed_dropped = 0
  /\ incomplete_reasons = {}
  /\ closed = FALSE
  /\ failed = FALSE
  /\ finalized = FALSE
  /\ worker = "top"
  /\ item = NoItem
  /\ closer = "open"
  /\ snapshot = [overflow |-> 0, failed |-> 0, closed |-> 0]
  /\ observed = <<>>
  /\ unobserved_messages = 0
  /\ reasons = {}
  /\ sealed = FALSE
  /\ submitted = 0

-----------------------------------------------------------------------------
(* The observer's counters.                                                *)

\* mark_unobserved_many: nothing to count is no loss, and nothing is
\* counted after the seal.
MarkUnobservedMany(reason, count) ==
  IF count > 0 /\ ~sealed
  THEN /\ unobserved_messages' = unobserved_messages + count
       /\ reasons' = reasons \cup {reason}
  ELSE UNCHANGED <<unobserved_messages, reasons>>

-----------------------------------------------------------------------------
(* Relay threads.                                                          *)

Notify_Nobody == UNCHANGED worker

\* condition.notify: only the worker ever waits.
Notify == worker' = IF worker = "waiting" THEN "top" ELSE worker

\* What becomes of a submission, in the order of the checks.
Reception ==
  IF finalized THEN "late" ELSE IF failed THEN "failed"
  ELSE IF closed THEN "closed" ELSE "open"

Overloaded_QueuedOnly(kind, size) ==
  \/ Len(queue) >= MaxItems
  \/ kind = "message" /\ outstanding_bytes + size > MaxBytes

\* A marker needs an item slot but no bytes.
Overloaded(kind, size) ==
  \/ outstanding_items >= MaxItems
  \/ kind = "message" /\ outstanding_bytes + size > MaxBytes

Submission == submitted < MaxSubmissions /\ submitted' = submitted + 1

Enqueue(kind, size) ==
  /\ Submission
  /\ Reception = "open"
  /\ ~Overloaded(kind, size)
  /\ queue' = Append(queue, [kind |-> kind, id |-> submitted + 1,
                             count |-> 1, bytes |-> size])
  /\ outstanding_items' = outstanding_items + 1
  /\ outstanding_bytes' = outstanding_bytes + size
  /\ Notify
  /\ UNCHANGED <<lost, flags, item, main, observer>>

Overflow(kind, size) ==
  /\ Submission
  /\ Reception = "open"
  /\ Overloaded(kind, size)
  /\ overflow' = overflow + 1
  /\ Notify
  /\ UNCHANGED <<queue, limits, fatal_dropped, closed_dropped, flags, item,
                 main, observer>>

SubmitToFailed ==
  /\ Submission
  /\ Reception = "failed"
  /\ fatal_dropped' = fatal_dropped + 1
  /\ UNCHANGED <<queue, limits, overflow, closed_dropped, flags, worker, item,
                 main, observer>>

SubmitWhileClosing ==
  /\ Submission
  /\ Reception = "closed"
  /\ closed_dropped' = closed_dropped + 1
  /\ UNCHANGED <<queue, limits, overflow, fatal_dropped, flags, worker, item,
                 main, observer>>

\* After close() took the counters the observer is told directly.
SubmitLate ==
  /\ ~sealed
  /\ Submission
  /\ Reception = "late"
  /\ MarkUnobservedMany("observer_dropped_after_close", 1)
  /\ UNCHANGED <<queue, limits, lost, flags, worker, item, main, observed, sealed>>

\* After the seal the observer ignores it.
SubmitAfterSeal ==
  /\ sealed
  /\ Reception = "late"
  /\ UNCHANGED vars

-----------------------------------------------------------------------------
(* The worker thread.                                                      *)

Charged(i) == i.kind \in {"message", "marker"}

Busy == worker \in {"process", "report", "failing"}

\* while not queue and not overflow and not closed: condition.wait()
NothingToDo_IgnoresOverflow == queue = <<>> /\ ~closed

NothingToDo == queue = <<>> /\ overflow = 0 /\ ~closed

Wait ==
  /\ worker = "top"
  /\ NothingToDo
  /\ worker' = "waiting"
  /\ UNCHANGED <<queue, limits, lost, flags, item, main, observer, submitted>>

TakeItem_Newest ==
  /\ item' = Last(queue)
  /\ queue' = Front(queue)

\* queue.popleft
TakeItem ==
  /\ item' = Head(queue)
  /\ queue' = Tail(queue)

Take ==
  /\ worker = "top"
  /\ queue # <<>>
  /\ TakeItem
  /\ worker' = "process"
  /\ UNCHANGED <<limits, lost, flags, main, observer, submitted>>

TakeOverflow ==
  /\ worker = "top"
  /\ ~NothingToDo
  /\ queue = <<>>
  /\ overflow > 0
  /\ item' = [kind |-> "overflow", id |-> 0, count |-> overflow, bytes |-> 0]
  /\ overflow' = 0
  /\ worker' = "process"
  /\ UNCHANGED <<queue, limits, fatal_dropped, closed_dropped, flags, main,
                 observer, submitted>>

Exit ==
  /\ worker = "top"
  /\ queue = <<>> /\ overflow = 0 /\ closed
  /\ worker' = "stopped"
  /\ UNCHANGED <<queue, limits, lost, flags, item, main, observer, submitted>>

\* observer.observe, observer.mark_unobserved or mark_unobserved_many returns
Process ==
  /\ worker = "process"
  /\ \/ /\ item.kind = "message"
        /\ observed' = Append(observed, item.id)
        /\ UNCHANGED <<unobserved_messages, reasons>>
     \/ /\ item.kind = "marker"
        /\ MarkUnobservedMany("marked", 1)
        /\ UNCHANGED observed
     \/ /\ item.kind = "overflow"
        /\ MarkUnobservedMany("observer_queue_overflow", item.count)
        /\ UNCHANGED observed
  /\ worker' = "release"
  /\ UNCHANGED <<queue, limits, lost, flags, item, main, sealed, submitted>>

\* ... or raises an Exception
ProcessRaises ==
  /\ worker = "process"
  /\ worker' = "report"
  /\ UNCHANGED <<queue, limits, lost, flags, item, main, observer, submitted>>

\* ... or anything beyond one
ProcessDies ==
  /\ worker = "process"
  /\ worker' = "failing"
  /\ UNCHANGED <<queue, limits, lost, flags, item, main, observer, submitted>>

\* An item failure is contained: it is counted and the worker goes on.
ReportError ==
  /\ worker = "report"
  /\ unobserved_messages' = unobserved_messages + item.count
  /\ reasons' = reasons \cup {"observer_error"} \cup
       IF item.kind = "overflow" THEN {"observer_queue_overflow"} ELSE {}
  /\ worker' = "release"
  /\ UNCHANGED <<queue, limits, lost, flags, item, main, observed, sealed, submitted>>

\* Counting it raises too, before or after the cause of an overflow was kept.
ReportDies ==
  /\ worker = "report"
  /\ \/ UNCHANGED reasons
     \/ /\ item.kind = "overflow"
        /\ reasons' = reasons \cup {"observer_queue_overflow"}
  /\ worker' = "failing"
  /\ UNCHANGED <<queue, limits, lost, flags, item, main, observed,
                 unobserved_messages, sealed, submitted>>

\* sum(item.size for item in queue), as the running sum along the queue.
BytesUpTo[n \in 0 .. Len(queue)] ==
  IF n = 0 THEN 0 ELSE BytesUpTo[n - 1] + queue[n].bytes

QueuedBytes == BytesUpTo[Len(queue)]

LostToFailure_QueuedOnly == Len(queue)

LostToFailure == item.count + Len(queue)

\* _fail: the item and everything queued is lost, later submissions too.
Fail ==
  /\ worker = "failing"
  /\ queue' = <<>>
  /\ outstanding_items' = outstanding_items - Len(queue)
  /\ outstanding_bytes' = outstanding_bytes - QueuedBytes
  /\ fatal_dropped' = fatal_dropped + LostToFailure
  /\ failed' = TRUE
  /\ closed' = TRUE
  /\ worker' = "release"
  /\ UNCHANGED <<overflow, closed_dropped, finalized, item, main, observer, submitted>>

\* The finally clause; a failed worker returns after it.
Release ==
  /\ worker = "release"
  /\ outstanding_items' = outstanding_items - (IF Charged(item) THEN 1 ELSE 0)
  /\ outstanding_bytes' = outstanding_bytes - (IF Charged(item) THEN item.bytes ELSE 0)
  /\ item' = NoItem
  /\ worker' = IF failed THEN "stopped" ELSE "top"
  /\ UNCHANGED <<queue, lost, flags, main, observer, submitted>>

WorkerStep ==
  \/ Wait \/ Take \/ TakeOverflow \/ Exit
  \/ Process \/ ProcessRaises \/ ProcessDies
  \/ ReportError \/ ReportDies \/ Fail \/ Release

-----------------------------------------------------------------------------
(* The main thread.                                                        *)

MarkIncomplete(reason) ==
  /\ closer = "open"
  /\ reason \notin incomplete_reasons
  /\ incomplete_reasons' = incomplete_reasons \cup {reason}
  /\ UNCHANGED <<queue, limits, lost, flags, worker, item, closer, snapshot,
                 observer, submitted>>

\* close(): from here submissions are refused and the worker drains.
Close ==
  /\ closer = "open"
  /\ closed' = TRUE
  /\ Notify
  /\ closer' = "joining"
  /\ UNCHANGED <<queue, limits, lost, failed, finalized, item, snapshot,
                 incomplete_reasons, observer, submitted>>

\* The thread has ended: take the counters.
Finalize ==
  /\ closer = "joining"
  /\ worker = "stopped"
  /\ finalized' = TRUE
  /\ snapshot' = [overflow |-> overflow, failed |-> fatal_dropped,
                  closed |-> closed_dropped]
  /\ overflow' = 0
  /\ fatal_dropped' = 0
  /\ closed_dropped' = 0
  /\ closer' = "flush_overflow"
  /\ UNCHANGED <<queue, limits, closed, failed, worker, item,
                 incomplete_reasons, observer, submitted>>

Flush(at, field, reason, to) ==
  /\ closer = at
  /\ MarkUnobservedMany(reason, snapshot[field])
  /\ snapshot' = [snapshot EXCEPT ![field] = 0]
  /\ closer' = to
  /\ UNCHANGED <<queue, limits, lost, flags, worker, item, incomplete_reasons,
                 observed, sealed, submitted>>

FlushOverflow ==
  Flush("flush_overflow", "overflow", "observer_queue_overflow", "flush_failed")

FlushFailed ==
  Flush("flush_failed", "failed", "observer_worker_failed", "flush_closed")

FlushClosed ==
  Flush("flush_closed", "closed", "observer_dropped_after_close", "flush_reasons")

\* The loop over incomplete_reasons; a reason is no count, so that other
\* marks in between make no difference.
FlushReasons ==
  /\ closer = "flush_reasons"
  /\ reasons' = reasons \cup incomplete_reasons
  /\ closer' = "flushed"
  /\ UNCHANGED <<queue, limits, lost, flags, worker, item, snapshot,
                 incomplete_reasons, observed, unobserved_messages, sealed, submitted>>

\* observer.seal()
Seal ==
  /\ closer = "flushed"
  /\ sealed' = TRUE
  /\ closer' = "sealed"
  /\ UNCHANGED <<queue, limits, lost, flags, worker, item, snapshot,
                 incomplete_reasons, observed, unobserved_messages, reasons, submitted>>

CloserStep ==
  Finalize \/ FlushOverflow \/ FlushFailed \/ FlushClosed \/ FlushReasons \/ Seal

-----------------------------------------------------------------------------
Submit ==
  \/ \E n \in Sizes : Enqueue("message", n) \/ Overflow("message", n)
  \/ Enqueue("marker", 0)
  \/ Overflow("marker", 0)
  \/ SubmitToFailed
  \/ SubmitWhileClosing
  \/ SubmitLate
  \/ SubmitAfterSeal

Next ==
  \/ Submit
  \/ WorkerStep
  \/ \E r \in ShutdownReasons : MarkIncomplete(r)
  \/ Close
  \/ CloserStep

Spec == Init /\ [][Next]_vars

\* The threads run: the worker, and the main thread once it is closing.
\* Nothing is assumed of the relays, of when close() is called, or of
\* whether a call of the observer returns or raises.
FairSpec == Spec /\ WF_vars(WorkerStep) /\ WF_vars(CloserStep)

-----------------------------------------------------------------------------
(* Properties.                                                             *)

InHand == IF Busy THEN item.count ELSE 0

\* Submissions that are neither observed nor reported yet.
Pending ==
  Len(queue) + InHand + overflow + fatal_dropped + closed_dropped
    + snapshot.overflow + snapshot.failed + snapshot.closed

\* The queued items and the one being worked on until it is released.
HeldItems == Len(queue) + IF worker \in {"process", "report", "failing", "release"}
                             /\ Charged(item) THEN 1 ELSE 0

\* The limits are charged for exactly what is queued or in hand, through item
\* failures, a failed worker and the drain at close; and when close() has taken
\* the counters nothing is left behind, charged or uncounted.
ChargesExact ==
  /\ outstanding_items = HeldItems
  /\ outstanding_items <= MaxItems
  /\ outstanding_bytes = QueuedBytes + item.bytes
  /\ outstanding_bytes <= MaxBytes
  /\ finalized =>
       /\ worker = "stopped"
       /\ queue = <<>>
       /\ <<overflow, fatal_dropped, closed_dropped>> = <<0, 0, 0>>
       /\ <<outstanding_items, outstanding_bytes>> = <<0, 0>>

\* Once sealed, every message submitted before was observed or counted,
\* none twice, and a complete observation has observed all of them.
EveryLossCounted ==
  sealed => /\ submitted = Len(observed) + unobserved_messages
            /\ reasons = {} => submitted = Len(observed)

\* Messages reach the observer in the order of submission, so that a request
\* is observed before its response.
OrderPreserved ==
  LET waiting == [i \in DOMAIN queue |-> queue[i].id]
      line == observed \o (IF Busy /\ Charged(item) THEN <<item.id>> ELSE <<>>) \o waiting
  IN \A i, j \in DOMAIN line : i < j => line[i] < line[j]

\* The pipeline keeps the ledger of losses.
Ledger == INSTANCE LossLedger WITH
  pending <- Pending,
  observed <- Len(observed),
  reported <- unobserved_messages,
  complete <- (reasons = {}),
  sealed <- sealed

ImplementsLossLedger == Ledger!Spec

\* No wake-up is lost: what is queued is taken, and an overflow reported, as
\* soon as the worker can, not when the next message happens to come; only a
\* failed worker leaves an overflow to close().
WakeUpsKept ==
  /\ queue # <<>> ~> queue = <<>>
  /\ overflow > 0 ~> overflow = 0 \/ failed

\* A close that has begun reaches the seal, whatever the worker was doing.
CloseCompletes == closer = "joining" ~> sealed
=============================================================================
