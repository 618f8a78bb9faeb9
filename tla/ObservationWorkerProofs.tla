----------------------- MODULE ObservationWorkerProofs -----------------------
(***************************************************************************)
(* Proofs about ObservationWorker for every queue limit, every message     *)
(* size and every number of submissions: its types, that no message        *)
(* disappears between the relays and the sealed trace, that messages are   *)
(* observed in the order of submission, that the limits are charged for    *)
(* what is held, and that the pipeline implements LossLedger.              *)
(*                                                                         *)
(* None of these is inductive as it stands.  That submitted messages are   *)
(* observed or counted needs the conservation of messages through every    *)
(* place a message can be in (Conservation), which needs to know what the  *)
(* two threads may be doing in which phase of shutdown (ControlOK), what   *)
(* close() still holds (SnapshotOK) and that a queued item stands for one  *)
(* message (ItemsOK).  The order needs that all of what was observed is    *)
(* older than the item in hand, that item than the queue, and the queue    *)
(* than the next submission (OrderKept).                                   *)
(* The charged bytes are a sum over the queue, which BytesOK carries along *)
(* and SumsAgree identifies with the one of the model.                     *)
(* The last section bounds the steps to the end of a drain and of close(). *)
(***************************************************************************)
EXTENDS ObservationWorker, SequenceTheorems, WellFoundedInduction, TLAPS

-----------------------------------------------------------------------------
(* The inductive invariant.                                                *)

\* A queued item is one message or one marker; an overflow report is made
\* from the counter and is never queued.
OneMessage(i) == Charged(i) /\ i.count = 1 /\ i.id > 0

ItemsOK ==
  /\ \A i \in DOMAIN queue : OneMessage(queue[i])
  /\ Charged(item) => OneMessage(item)
  /\ Busy => item.count > 0

\* The slots taken are those of the queue and of the item in hand.
SlotsOK == outstanding_items = HeldItems

\* What a phase of shutdown says of the flags, the queue and the worker.
ControlOK ==
  /\ finalized <=> closer \notin {"open", "joining"}
  /\ sealed <=> closer = "sealed"
  /\ closer # "open" => closed
  /\ failed => closed /\ queue = <<>> /\ worker \in {"release", "stopped"}
  /\ worker = "stopped" => closed /\ queue = <<>> /\ (failed \/ overflow = 0)
  /\ finalized => worker = "stopped" /\ overflow = 0 /\ fatal_dropped = 0
                    /\ closed_dropped = 0

\* close() reports what it took in three steps.
SnapshotOK ==
  /\ closer \notin {"flush_overflow"} => snapshot.overflow = 0
  /\ closer \notin {"flush_overflow", "flush_failed"} => snapshot.failed = 0
  /\ closer \notin {"flush_overflow", "flush_failed", "flush_closed"} => snapshot.closed = 0

\* A message is observed, reported or still in one of the places that
\* Pending counts; and the first report leaves a reason.
Conservation ==
  /\ submitted = Len(observed) + unobserved_messages + Pending
  /\ unobserved_messages > 0 => reasons # {}

\* Of two sequences the first is older: its ids are all smaller.
Older(s, t) == \A i \in DOMAIN s, j \in DOMAIN t : s[i] < t[j]

Increasing(s) == \A i, j \in DOMAIN s : i < j => s[i] < s[j]

\* One sequence is another with one number behind it.
Behind(u, s, e) ==
  /\ DOMAIN u = 1 .. Len(s) + 1 /\ u[Len(s) + 1] = e
  /\ \A i \in 1 .. Len(s) : u[i] = s[i]

\* The places a submission passes through, in the order it passes them.
HeldIds == IF Busy /\ Charged(item) THEN <<item.id>> ELSE <<>>

QueuedIds == [i \in DOMAIN queue |-> queue[i].id]

\* What was observed is older than the item in hand, and that than the queue;
\* all of it was submitted.
OrderKept ==
  /\ Increasing(observed) /\ Increasing(QueuedIds)
  /\ Older(observed, HeldIds) /\ Older(observed, QueuedIds) /\ Older(HeldIds, QueuedIds)
  /\ \A s \in {observed, HeldIds, QueuedIds} : \A i \in DOMAIN s : s[i] <= submitted

\* The item in hand is put down before the next is taken, and only a message
\* has bytes.
HandOK ==
  /\ worker \in {"top", "waiting", "stopped"} => item = NoItem
  /\ item.bytes \in Nat
  /\ ~Charged(item) => item.bytes = 0

\* A sum along the queue; it never falls.
Sums(f, s) ==
  /\ f \in [0 .. Len(s) -> Nat]
  /\ f[0] = 0
  /\ \A i, j \in 0 .. Len(s) : i <= j => f[i] <= f[j]
  /\ \A i \in 1 .. Len(s) : f[i] = f[i - 1] + s[i].bytes

\* The bytes charged are those queued and those in hand.
BytesOK ==
  /\ outstanding_bytes \in Nat
  /\ outstanding_bytes <= MaxBytes
  /\ \E f \in [0 .. Len(queue) -> Nat] :
       Sums(f, queue) /\ outstanding_bytes = f[Len(queue)] + item.bytes

IInv ==
  /\ TypeOK
  /\ ItemsOK
  /\ SlotsOK
  /\ ControlOK
  /\ SnapshotOK
  /\ Conservation
  /\ OrderKept
  /\ HandOK
  /\ BytesOK

-----------------------------------------------------------------------------
(* Sequences, as far as the queue needs them.                              *)

\* An item appended to a queue is its last and leaves the others in place.
LEMMA AppendItem ==
  ASSUME NEW S, NEW s \in Seq(S), NEW e \in S
  PROVE  /\ Append(s, e) \in Seq(S)
         /\ Len(Append(s, e)) = Len(s) + 1
         /\ Append(s, e) # <<>>
         /\ \A i \in DOMAIN Append(s, e) :
              \/ Append(s, e)[i] = e
              \/ i \in DOMAIN s /\ Append(s, e)[i] = s[i]
BY AppendProperties

\* Taking the first item of a queue leaves the others.
LEMMA TakeFirst ==
  ASSUME NEW S, NEW s \in Seq(S), s # <<>>
  PROVE  /\ Head(s) \in S /\ Head(s) = s[1] /\ 1 \in DOMAIN s
         /\ Tail(s) \in Seq(S)
         /\ Len(Tail(s)) = Len(s) - 1
         /\ \A i \in DOMAIN Tail(s) : i + 1 \in DOMAIN s /\ Tail(s)[i] = s[i + 1]
BY HeadTailProperties, LenProperties

LEMMA EmptyQueue ==
  ASSUME NEW S
  PROVE  <<>> \in Seq(S) /\ Len(<<>>) = 0 /\ DOMAIN <<>> = {}
         /\ \A s \in Seq(S) : Len(s) \in Nat /\ (s # <<>> => Len(s) > 0)
BY EmptySeq

-----------------------------------------------------------------------------
(* The initial state.                                                      *)

LEMMA InitInv == Init => IInv
<1> SUFFICES ASSUME Init PROVE IInv
  OBVIOUS
<1> USE EmptyQueue DEF Init, NoItem
<1>1. TypeOK
  <2>1. queue \in Seq(Item) /\ observed \in Seq(1 .. MaxSubmissions)
    OBVIOUS
  <2>2. item \in Item
    BY SubmissionsAssumption DEF Item, Kinds
  <2>3. snapshot \in Snapshot
    BY DEF Snapshot
  <2>4. outstanding_items \in 0 .. MaxItems /\ submitted \in 0 .. MaxSubmissions
    BY LimitsAssumption, SubmissionsAssumption
  <2>5. QED
    BY <2>1, <2>2, <2>3, <2>4 DEF TypeOK, WorkerAt, CloserAt
<1>2. ItemsOK /\ SlotsOK
  BY DEF ItemsOK, OneMessage, SlotsOK, HeldItems, Busy, Charged
<1>3. ControlOK /\ SnapshotOK
  BY DEF ControlOK, SnapshotOK
<1>4. Conservation
  BY DEF Conservation, Pending, InHand, Busy
<1>5. OrderKept
  BY DEF OrderKept, Increasing, Older, HeldIds, QueuedIds, Busy
<1>6. HandOK
  BY DEF HandOK, Charged
<1>7. BytesOK
  <2>1. PICK f : f = [i \in 0 .. 0 |-> 0]
    OBVIOUS
  <2>2. Sums(f, queue) /\ f \in [0 .. Len(queue) -> Nat] /\ f[Len(queue)] = 0
    BY <2>1 DEF Sums
  <2>3. QED
    BY <2>2, LimitsAssumption DEF BytesOK
<1>8. QED
  BY <1>1, <1>2, <1>3, <1>4, <1>5, <1>6, <1>7 DEF IInv

-----------------------------------------------------------------------------
(* Steps.                                                                  *)

\* What the reception of a submission says of the flags.
LEMMA ReceptionMeans ==
  ASSUME TypeOK
  PROVE
  /\ Reception = "late" => finalized
  /\ Reception # "late" => ~finalized
  /\ Reception = "failed" => failed
  /\ Reception = "closed" => closed /\ ~failed
  /\ Reception = "open" => ~closed /\ ~failed
<1>1. CASE finalized
  BY <1>1 DEF Reception
<1>2. CASE ~finalized /\ failed
  BY <1>2 DEF Reception
<1>3. CASE ~finalized /\ ~failed /\ closed
  BY <1>3 DEF Reception
<1>4. CASE ~finalized /\ ~failed /\ ~closed
  BY <1>4 DEF Reception
<1>5. QED
  BY <1>1, <1>2, <1>3, <1>4 DEF TypeOK

\* What enqueueing does to the queue.
LEMMA EnqueueItem ==
  ASSUME TypeOK, NEW kind \in {"message", "marker"}, NEW n \in Nat, Enqueue(kind, n)
  PROVE  /\ queue' \in Seq(Item)
         /\ Len(queue') = Len(queue) + 1
         /\ \A i \in DOMAIN queue' :
              \/ OneMessage(queue'[i])
              \/ i \in DOMAIN queue /\ queue'[i] = queue[i]
<1> DEFINE e == [kind |-> kind, id |-> submitted + 1, count |-> 1, bytes |-> n]
<1>1. e \in Item
  BY SubmissionsAssumption DEF Enqueue, Submission, TypeOK, Item, Kinds
<1>2. OneMessage(e)
  BY DEF OneMessage, Charged, Enqueue, Submission, TypeOK
<1>3. queue' = Append(queue, e) /\ queue \in Seq(Item)
  BY DEF Enqueue, TypeOK
<1> HIDE DEF e
<1>4. QED
  BY <1>1, <1>2, <1>3, AppendItem

\* The items in the queue and in hand.
LEMMA ItemsStep == IInv /\ [Next]_vars => ItemsOK'
<1> SUFFICES ASSUME IInv, [Next]_vars PROVE ItemsOK'
  OBVIOUS
<1> USE DEF IInv, ItemsOK, OneMessage, Charged, Busy
<1>1. ASSUME NEW kind \in {"message", "marker"}, NEW n \in Nat, Enqueue(kind, n)
      PROVE  ItemsOK'
  BY <1>1, EnqueueItem DEF Enqueue, Notify
<1>2. CASE Take
  BY <1>2, TakeFirst DEF Take, TakeItem, TypeOK
<1>3. CASE TakeOverflow
  BY <1>3 DEF TakeOverflow, TypeOK
<1>4. CASE Fail
  BY <1>4, EmptyQueue DEF Fail
<1>5. CASE Release
  BY <1>5 DEF Release, NoItem
<1>6. CASE UNCHANGED <<queue, item>> /\ (Busy' => Busy)
  BY <1>6
<1>7. QED
  BY <1>1, <1>2, <1>3, <1>4, <1>5, <1>6, SizesAssumption
     DEF Next, vars, Submit, Notify, Overflow, SubmitToFailed, SubmitWhileClosing,
         SubmitLate, SubmitAfterSeal, WorkerStep, Wait, Exit, Process, ProcessRaises,
         ProcessDies, ReportError, ReportDies, MarkIncomplete, Close, CloserStep, Finalize,
         FlushOverflow, FlushFailed, FlushClosed, Flush, FlushReasons, Seal

\* The slots follow the queue and the item in hand.
LEMMA SlotsStep == IInv /\ [Next]_vars => SlotsOK'
<1> SUFFICES ASSUME IInv, [Next]_vars PROVE SlotsOK'
  OBVIOUS
<1> USE DEF IInv, SlotsOK, HeldItems, TypeOK, limits
<1>1. ASSUME NEW kind \in {"message", "marker"}, NEW n \in Nat, Enqueue(kind, n)
      PROVE  SlotsOK'
  <2>1. Len(queue') = Len(queue) + 1 /\ Len(queue) \in Nat
    BY <1>1, EnqueueItem, LenProperties
  <2>2. outstanding_items = HeldItems
    OBVIOUS
  <2> HIDE DEF IInv
  <2>3. QED
    BY <1>1, <2>1, <2>2 DEF Enqueue, Notify
<1>2. CASE Take
  BY <1>2, TakeFirst, LenProperties DEF Take, TakeItem, ItemsOK, OneMessage
<1>3. CASE TakeOverflow
  BY <1>3, EmptyQueue DEF TakeOverflow, Charged
<1>4. CASE Fail
  BY <1>4, EmptyQueue, LenProperties DEF Fail
<1>5. CASE Release
  BY <1>5, LenProperties DEF Release
<1>6. CASE /\ UNCHANGED <<queue, outstanding_items, item>>
           /\ worker' # worker =>
                {worker, worker'} \subseteq {"top", "waiting", "stopped"}
                  \/ {worker, worker'} \subseteq {"process", "report", "failing", "release"}
  BY <1>6
<1>7. QED
  BY <1>1, <1>2, <1>3, <1>4, <1>5, <1>6, SizesAssumption
     DEF Next, vars, Submit, Notify, Overflow, SubmitToFailed, SubmitWhileClosing,
         SubmitLate, SubmitAfterSeal, WorkerStep, Wait, Exit, Process, ProcessRaises,
         ProcessDies, ReportError, ReportDies, MarkIncomplete, Close, CloserStep, Finalize,
         FlushOverflow, FlushFailed, FlushClosed, Flush, FlushReasons, Seal

\* The phases of shutdown.
LEMMA ControlStep == IInv /\ [Next]_vars => ControlOK'
<1> SUFFICES ASSUME IInv, [Next]_vars PROVE ControlOK'
  OBVIOUS
<1> USE DEF IInv, ControlOK, vars, limits, lost, flags, main, observer
<1>1. CASE Submit
  <2>1. CASE \E kind \in {"message", "marker"}, n \in Nat :
               Enqueue(kind, n) \/ Overflow(kind, n)
    <3>1. Reception = "open"
      BY <2>1 DEF Enqueue, Overflow
    <3>2. ~closed /\ ~failed /\ ~finalized
      BY <3>1, ReceptionMeans
    <3>3. UNCHANGED <<finalized, failed, closed, closer, sealed>>
      BY <2>1 DEF Enqueue, Overflow
    <3>4. worker' = "stopped" => worker = "stopped"
      BY <2>1 DEF Enqueue, Overflow, Notify
    <3>5. QED
      BY <3>2, <3>3, <3>4
  <2>2. CASE SubmitToFailed \/ SubmitWhileClosing \/ SubmitLate \/ SubmitAfterSeal
    BY <2>2, ReceptionMeans
       DEF SubmitToFailed, SubmitWhileClosing, SubmitLate, SubmitAfterSeal
  <2>3. QED
    BY <1>1, <2>1, <2>2, SizesAssumption DEF Submit
<1>2. CASE WorkerStep
  <2>1. CASE Wait \/ Exit \/ ProcessRaises \/ ProcessDies \/ ReportError \/ ReportDies
    BY <2>1 DEF Wait, Exit, ProcessRaises, ProcessDies, ReportError, ReportDies
  <2>2. CASE Take \/ TakeOverflow
    BY <2>2 DEF Take, TakeOverflow
  <2>3. CASE Process
    BY <2>3 DEF Process
  <2>4. CASE Fail \/ Release
    BY <2>4 DEF Fail, Release
  <2>5. QED
    BY <1>2, <2>1, <2>2, <2>3, <2>4 DEF WorkerStep
<1>3. CASE Close \/ \E r \in ShutdownReasons : MarkIncomplete(r)
  BY <1>3 DEF Close, MarkIncomplete, Notify
<1>4. CASE CloserStep
  BY <1>4 DEF CloserStep, Finalize, FlushOverflow, FlushFailed, FlushClosed, Flush,
              FlushReasons, Seal
<1>5. CASE UNCHANGED vars
  BY <1>5
<1>6. QED
  BY <1>1, <1>2, <1>3, <1>4, <1>5 DEF Next

\* What close() has taken and not reported.
LEMMA SnapshotStep == IInv /\ [Next]_vars => SnapshotOK'
<1> SUFFICES ASSUME IInv, [Next]_vars PROVE SnapshotOK'
  OBVIOUS
<1> USE DEF IInv, SnapshotOK
<1>1. CASE Finalize
  BY <1>1 DEF Finalize
<1>2. CASE FlushOverflow \/ FlushFailed \/ FlushClosed
  BY <1>2 DEF FlushOverflow, FlushFailed, FlushClosed, Flush, TypeOK, Snapshot
<1>3. CASE FlushReasons \/ Seal \/ Close
  BY <1>3 DEF FlushReasons, Seal, Close
<1>4. CASE UNCHANGED <<closer, snapshot>>
  BY <1>4
<1>5. QED
  BY <1>1, <1>2, <1>3, <1>4
     DEF Next, vars, main, Submit, Enqueue, Overflow, SubmitToFailed, SubmitWhileClosing,
         SubmitLate, SubmitAfterSeal, WorkerStep, Wait, Take, TakeOverflow, Exit, Process,
         ProcessRaises, ProcessDies, ReportError, ReportDies, Fail, Release, MarkIncomplete,
         CloserStep

\* Counting a loss: the counter and the reasons keep their types, the
\* counter grows by the count, and a count leaves a reason.
LEMMA MarkEffect ==
  ASSUME TypeOK, NEW r \in WorkerReasons, NEW n \in Nat, MarkUnobservedMany(r, n)
  PROVE  /\ unobserved_messages' \in Nat
         /\ reasons' \subseteq WorkerReasons \cup ShutdownReasons
         /\ reasons \subseteq reasons'
         /\ ~sealed => /\ unobserved_messages' = unobserved_messages + n
                       /\ n > 0 => reasons' # {}
<1>1. CASE n > 0 /\ ~sealed
  <2>1. unobserved_messages' = unobserved_messages + n /\ reasons' = reasons \cup {r}
    BY <1>1 DEF MarkUnobservedMany
  <2>2. r \in reasons' /\ reasons \subseteq reasons'
    BY <2>1
  <2>3. reasons' \subseteq WorkerReasons \cup ShutdownReasons
    BY <2>1 DEF TypeOK
  <2>4. unobserved_messages' \in Nat
    BY <2>1 DEF TypeOK
  <2>5. QED
    BY <2>1, <2>2, <2>3, <2>4
<1>2. CASE ~(n > 0 /\ ~sealed)
  BY <1>2 DEF MarkUnobservedMany, TypeOK
<1>3. QED
  BY <1>1, <1>2

\* Types.
LEMMA TypeStep == IInv /\ [Next]_vars => TypeOK'
<1> SUFFICES ASSUME IInv, [Next]_vars PROVE TypeOK'
  OBVIOUS
<1> USE DEF IInv, TypeOK, vars, limits, lost, flags, main, observer
<1>1. CASE Submit
  <2>1. ASSUME NEW kind \in {"message", "marker"}, NEW n \in Nat, Enqueue(kind, n)
        PROVE  TypeOK'
    <3>1. outstanding_items < MaxItems
      BY <2>1, LimitsAssumption DEF Enqueue, Overloaded
    <3>2. queue' \in Seq(Item)
      BY <2>1, EnqueueItem
    <3>3. QED
      BY <2>1, <3>1, <3>2, LimitsAssumption, SubmissionsAssumption
         DEF Enqueue, Submission, Notify, WorkerAt
  <2>2. ASSUME NEW kind \in {"message", "marker"}, NEW n \in Nat, Overflow(kind, n)
        PROVE  TypeOK'
    BY <2>2, SubmissionsAssumption DEF Overflow, Submission, Notify, WorkerAt
  <2>3. CASE SubmitToFailed \/ SubmitWhileClosing
    BY <2>3, SubmissionsAssumption, SMTT(30) DEF SubmitToFailed, SubmitWhileClosing, Submission
  <2>4. CASE SubmitLate
    <3>1. unobserved_messages' \in Nat /\ reasons' \subseteq WorkerReasons \cup ShutdownReasons
      BY <2>4, MarkEffect DEF SubmitLate, WorkerReasons
    <3>2. QED
      BY <2>4, <3>1, SubmissionsAssumption DEF SubmitLate, Submission
  <2>5. CASE SubmitAfterSeal
    BY <2>5 DEF SubmitAfterSeal
  <2>6. QED
    BY <1>1, <2>1, <2>2, <2>3, <2>4, <2>5, SizesAssumption DEF Submit
<1>2. CASE Take
  <2>1. queue' \in Seq(Item) /\ item' \in Item
    BY <1>2, TakeFirst DEF Take, TakeItem
  <2>2. QED
    BY <1>2, <2>1 DEF Take, WorkerAt
<1>3. CASE TakeOverflow
  <2>1. item' \in Item
    BY <1>3, SubmissionsAssumption DEF TakeOverflow, Item, Kinds
  <2>2. QED
    BY <1>3, <2>1 DEF TakeOverflow, WorkerAt
<1>4. CASE Process
  <2>1. item.id \in 0 .. MaxSubmissions /\ item.count \in Nat
    BY DEF Item
  <2>2. CASE item.kind = "message"
    <3>1. item.id \in 1 .. MaxSubmissions
      BY <2>1, <2>2, SubmissionsAssumption DEF ItemsOK, OneMessage, Charged
    <3>2. observed' \in Seq(1 .. MaxSubmissions) /\ UNCHANGED <<unobserved_messages, reasons>>
      <4>1. observed' = Append(observed, item.id) /\ UNCHANGED <<unobserved_messages, reasons>>
        BY <1>4, <2>2 DEF Process
      <4>2. QED
        BY <4>1, <3>1, AppendItem
    <3>3. QED
      BY <1>4, <3>2 DEF Process, WorkerAt
  <2>3. CASE item.kind = "marker"
    <3>1. MarkUnobservedMany("marked", 1) /\ UNCHANGED observed
      BY <1>4, <2>3 DEF Process
    <3>2. unobserved_messages' \in Nat /\ reasons' \subseteq WorkerReasons \cup ShutdownReasons
      BY <3>1, MarkEffect DEF WorkerReasons
    <3>3. QED
      BY <1>4, <3>1, <3>2 DEF Process, WorkerAt
  <2>4. CASE item.kind = "overflow"
    <3>1. MarkUnobservedMany("observer_queue_overflow", item.count) /\ UNCHANGED observed
      BY <1>4, <2>4 DEF Process
    <3>2. unobserved_messages' \in Nat /\ reasons' \subseteq WorkerReasons \cup ShutdownReasons
      BY <2>1, <3>1, MarkEffect DEF WorkerReasons
    <3>3. QED
      BY <1>4, <3>1, <3>2 DEF Process, WorkerAt
  <2>5. QED
    BY <2>2, <2>3, <2>4 DEF Item, Kinds
<1>5. CASE ReportError
  <2>1. item.count \in Nat
    BY DEF Item
  <2>2. QED
    BY <1>5, <2>1 DEF ReportError, WorkerReasons, WorkerAt
<1>6. CASE ReportDies
  BY <1>6 DEF ReportDies, WorkerReasons, WorkerAt
<1>7. CASE Wait \/ Exit \/ ProcessRaises \/ ProcessDies
  BY <1>7 DEF Wait, Exit, ProcessRaises, ProcessDies, WorkerAt
<1>8. CASE Fail
  <2>1. queue' \in Seq(Item) /\ Len(queue) \in Nat
    BY <1>8, EmptyQueue DEF Fail
  <2>2. LostToFailure \in Nat
    BY <2>1 DEF LostToFailure, Item
  <2>3. outstanding_items' \in 0 .. MaxItems
    BY <1>8, <2>1, LimitsAssumption DEF Fail, SlotsOK, HeldItems
  <2>4. QED
    BY <1>8, <2>1, <2>2, <2>3 DEF Fail, WorkerAt
<1>9. CASE Release
  <2>1. Len(queue) \in Nat /\ item' \in Item
    BY <1>9, LenProperties, SubmissionsAssumption DEF Release, NoItem, Item, Kinds
  <2>2. outstanding_items' \in 0 .. MaxItems
    BY <1>9, <2>1, LimitsAssumption DEF Release, SlotsOK, HeldItems
  <2>3. QED
    BY <1>9, <2>1, <2>2 DEF Release, WorkerAt
<1>10. CASE Close \/ \E r \in ShutdownReasons : MarkIncomplete(r)
  BY <1>10 DEF Close, MarkIncomplete, Notify, WorkerAt, CloserAt
<1>11. CASE Finalize
  <2>1. snapshot' \in Snapshot
    BY <1>11 DEF Finalize, Snapshot
  <2>2. QED
    BY <1>11, <2>1 DEF Finalize, CloserAt
<1>12. ASSUME NEW f \in {"overflow", "failed", "closed"}, NEW r \in WorkerReasons,
              NEW at, NEW to \in CloserAt, Flush(at, f, r, to)
       PROVE  TypeOK'
  <2>1. snapshot[f] \in Nat /\ snapshot' \in Snapshot
    BY <1>12 DEF Flush, Snapshot
  <2>2. unobserved_messages' \in Nat /\ reasons' \subseteq WorkerReasons \cup ShutdownReasons
    BY <1>12, <2>1, MarkEffect DEF Flush
  <2>3. QED
    BY <1>12, <2>1, <2>2 DEF Flush
<1>13. CASE FlushReasons \/ Seal
  BY <1>13 DEF FlushReasons, Seal, CloserAt
<1>14. CASE UNCHANGED vars
  BY <1>14
<1>15. CASE FlushOverflow \/ FlushFailed \/ FlushClosed
  BY <1>15, <1>12 DEF FlushOverflow, FlushFailed, FlushClosed, WorkerReasons, CloserAt
<1>16. QED
  BY <1>1, <1>2, <1>3, <1>4, <1>5, <1>6, <1>7, <1>8, <1>9, <1>10, <1>11, <1>13, <1>14, <1>15
     DEF Next, WorkerStep, CloserStep

-----------------------------------------------------------------------------
(* Every step keeps the ledger of losses.                                  *)

\* A step of the pipeline is a step of the ledger or none, and submissions
\* are those of the ledger.
LedgerStep ==
  \/ (Ledger!Submit \/ Ledger!SubmitAndReport) /\ submitted' = submitted + 1
  \/ /\ \/ Ledger!Observe
        \/ \E n \in 1 .. Pending : Ledger!Report(n)
        \/ Ledger!Doubt
        \/ Ledger!Seal
        \/ UNCHANGED Ledger!vars
     /\ submitted' = submitted

\* What the ledger counts are numbers.
Numbers ==
  /\ Len(queue) \in Nat /\ Len(observed) \in Nat /\ InHand \in Nat
  /\ overflow \in Nat /\ fatal_dropped \in Nat /\ closed_dropped \in Nat
  /\ snapshot.overflow \in Nat /\ snapshot.failed \in Nat /\ snapshot.closed \in Nat
  /\ unobserved_messages \in Nat /\ Pending \in Nat

LEMMA PartsAreNumbers == TypeOK => Numbers
<1> SUFFICES ASSUME TypeOK PROVE Numbers
  OBVIOUS
<1>1. Len(queue) \in Nat /\ Len(observed) \in Nat
  BY LenProperties DEF TypeOK
<1>2. snapshot.overflow \in Nat /\ snapshot.failed \in Nat /\ snapshot.closed \in Nat
  BY DEF TypeOK, Snapshot
<1>3. InHand \in Nat
  BY DEF TypeOK, Item, InHand
<1>4. overflow \in Nat /\ fatal_dropped \in Nat /\ closed_dropped \in Nat
      /\ unobserved_messages \in Nat
  BY DEF TypeOK
<1>5. Pending \in Nat
  BY <1>1, <1>2, <1>3, <1>4, SMTT(30) DEF Pending
<1>6. QED
  BY <1>1, <1>2, <1>3, <1>4, <1>5 DEF Numbers

\* Submissions.
LEMMA SubmitLedger == IInv /\ Submit => LedgerStep
<1> SUFFICES ASSUME IInv, Submit PROVE LedgerStep
  OBVIOUS
<1>0. Numbers
  BY PartsAreNumbers DEF IInv
<1> USE DEF IInv, limits, lost, flags, main, observer, Submission
<1>1. ASSUME NEW kind \in {"message", "marker"}, NEW n \in Nat, Enqueue(kind, n)
      PROVE  LedgerStep
  <2>1. ~sealed
    BY <1>1, ReceptionMeans DEF Enqueue, ControlOK
  <2>2. InHand' = InHand
    BY <1>1 DEF Enqueue, Notify, InHand, Busy
  <2>3. Len(queue') = Len(queue) + 1
    BY <1>1, EnqueueItem
  <2>4. Pending' = Pending + 1
    <3>1. UNCHANGED <<overflow, fatal_dropped, closed_dropped, snapshot>>
      BY <1>1 DEF Enqueue
    <3>2. QED
      BY <1>0, <2>2, <2>3, <3>1, SMTT(30) DEF Numbers, Pending
  <2>5. QED
    BY <1>1, <2>1, <2>4 DEF LedgerStep, Ledger!Submit, Enqueue
<1>2. ASSUME NEW kind \in {"message", "marker"}, NEW n \in Nat, Overflow(kind, n)
      PROVE  LedgerStep
  <2>1. ~sealed
    BY <1>2, ReceptionMeans DEF Overflow, ControlOK
  <2>2. InHand' = InHand
    BY <1>2 DEF Overflow, Notify, InHand, Busy
  <2>3. Pending' = Pending + 1
    BY <1>0, <1>2, <2>2, SMTT(30) DEF Overflow, Numbers, Pending
  <2>4. QED
    BY <1>2, <2>1, <2>3 DEF LedgerStep, Ledger!Submit, Overflow
<1>3. CASE SubmitToFailed
  <2>1. ~sealed
    BY <1>3, ReceptionMeans DEF SubmitToFailed, ControlOK
  <2>2. InHand' = InHand
    BY <1>3 DEF SubmitToFailed, InHand, Busy
  <2>3. Pending' = Pending + 1
    BY <1>0, <1>3, <2>2, SMTT(30) DEF SubmitToFailed, Numbers, Pending
  <2>4. QED
    BY <1>3, <2>1, <2>3 DEF LedgerStep, Ledger!Submit, SubmitToFailed
<1>4. CASE SubmitWhileClosing
  <2>1. ~sealed
    BY <1>4, ReceptionMeans DEF SubmitWhileClosing, ControlOK
  <2>2. InHand' = InHand
    BY <1>4 DEF SubmitWhileClosing, InHand, Busy
  <2>3. Pending' = Pending + 1
    BY <1>0, <1>4, <2>2, SMTT(30) DEF SubmitWhileClosing, Numbers, Pending
  <2>4. QED
    BY <1>4, <2>1, <2>3 DEF LedgerStep, Ledger!Submit, SubmitWhileClosing
<1>5. CASE SubmitLate
  <2>1. Pending' = Pending
    BY <1>5 DEF SubmitLate, Pending, InHand, Busy
  <2>2. unobserved_messages' = unobserved_messages + 1 /\ reasons' # {}
    BY <1>5, MarkEffect DEF SubmitLate, WorkerReasons
  <2>3. QED
    BY <1>5, <2>1, <2>2 DEF SubmitLate, LedgerStep, Ledger!SubmitAndReport
<1>6. CASE SubmitAfterSeal
  BY <1>6 DEF SubmitAfterSeal, vars, LedgerStep, Ledger!vars, Pending, InHand, Busy
<1>7. QED
  BY <1>1, <1>2, <1>3, <1>4, <1>5, <1>6, SizesAssumption DEF Submit

\* The worker moves messages to the observer, reports them or keeps them.
LEMMA WorkerLedger == IInv /\ WorkerStep => LedgerStep
<1> SUFFICES ASSUME IInv, WorkerStep PROVE LedgerStep
  OBVIOUS
<1>0. Numbers
  BY PartsAreNumbers DEF IInv
<1> USE DEF IInv, limits, lost, flags, main, observer
<1>1. CASE Wait \/ Exit \/ Release
  <2>1. InHand' = InHand
    BY <1>1 DEF Wait, Exit, Release, InHand, Busy
  <2>2. QED
    BY <1>1, <2>1 DEF Wait, Exit, Release, LedgerStep, Ledger!vars, Pending
<1>2. CASE ProcessRaises \/ ProcessDies
  <2>1. InHand' = InHand
    BY <1>2 DEF ProcessRaises, ProcessDies, InHand, Busy
  <2>2. QED
    BY <1>2, <2>1 DEF ProcessRaises, ProcessDies, LedgerStep, Ledger!vars, Pending
<1>3. CASE Take
  <2>1. Len(queue') = Len(queue) - 1 /\ item'.count = 1
    BY <1>3, TakeFirst DEF Take, TakeItem, TypeOK, ItemsOK, OneMessage
  <2>2. InHand = 0 /\ InHand' = 1
    BY <1>3, <2>1 DEF Take, InHand, Busy
  <2>3. Pending' = Pending
    BY <1>0, <1>3, <2>1, <2>2 DEF Take, Numbers, Pending
  <2>4. QED
    BY <1>3, <2>3 DEF Take, LedgerStep, Ledger!vars
<1>4. CASE TakeOverflow
  <2>1. InHand = 0 /\ InHand' = overflow /\ overflow' = 0
    BY <1>4 DEF TakeOverflow, InHand, Busy
  <2>2. Pending' = Pending
    BY <1>0, <1>4, <2>1 DEF TakeOverflow, Numbers, Pending
  <2>3. QED
    BY <1>4, <2>2 DEF TakeOverflow, LedgerStep, Ledger!vars
<1>5. CASE Process
  <2>1. ~sealed
    BY <1>5 DEF Process, ControlOK
  <2>2. InHand = item.count /\ InHand' = 0 /\ item.count > 0
    BY <1>5 DEF Process, InHand, Busy, ItemsOK
  <2>3. Pending' = Pending - item.count /\ item.count \in 1 .. Pending
    <3>1. UNCHANGED <<queue, overflow, fatal_dropped, closed_dropped, snapshot>>
      BY <1>5 DEF Process
    <3>2. InHand > 0 /\ InHand' = 0
      BY <2>2
    <3>3. Pending' = Pending - InHand
      BY <1>0, <3>1, <3>2, SMTT(30) DEF Numbers, Pending
    <3>4. InHand \in 1 .. Pending
      BY <1>0, <3>2 DEF Numbers, Pending
    <3>5. QED
      BY <2>2, <3>3, <3>4
  <2>4. CASE item.kind = "message"
    <3>1. observed' = Append(observed, item.id) /\ UNCHANGED <<unobserved_messages, reasons>>
      BY <1>5, <2>4 DEF Process
    <3>2. item.count = 1 /\ item.id \in 1 .. MaxSubmissions
      BY <2>4, SubmissionsAssumption DEF ItemsOK, OneMessage, Charged, TypeOK, Item
    <3>3. Len(observed') = Len(observed) + 1
      BY <3>1, <3>2, AppendItem DEF TypeOK
    <3>4. Pending > 0 /\ Pending' = Pending - 1
      BY <1>0, <2>3, <3>2 DEF Numbers
    <3>5. Ledger!Observe
      BY <1>5, <3>1, <3>3, <3>4 DEF Process, Ledger!Observe
    <3>6. QED
      BY <1>5, <3>5 DEF Process, LedgerStep
  <2>5. CASE item.kind # "message"
    <3>1. \E r \in WorkerReasons : MarkUnobservedMany(r, item.count)
      BY <1>5, <2>5 DEF Process, WorkerReasons, ItemsOK, OneMessage, Charged
    <3>2. unobserved_messages' = unobserved_messages + item.count /\ reasons' # {}
      BY <2>1, <2>2, <3>1, <1>0, MarkEffect DEF Numbers
    <3>3. Ledger!Report(item.count)
      BY <1>5, <2>3, <2>5, <3>2 DEF Process, Ledger!Report
    <3>4. QED
      BY <1>5, <2>3, <3>3 DEF Process, LedgerStep
  <2>6. QED
    BY <2>4, <2>5
<1>6. CASE ReportError
  <2>1. InHand = item.count /\ InHand' = 0 /\ item.count > 0
    BY <1>6 DEF ReportError, InHand, Busy, ItemsOK
  <2>2. Pending' = Pending - item.count /\ item.count \in 1 .. Pending
    <3>1. UNCHANGED <<queue, overflow, fatal_dropped, closed_dropped, snapshot>>
      BY <1>6 DEF ReportError
    <3>2. InHand > 0 /\ InHand' = 0
      BY <2>1
    <3>3. Pending' = Pending - InHand
      BY <1>0, <3>1, <3>2, SMTT(30) DEF Numbers, Pending
    <3>4. InHand \in 1 .. Pending
      BY <1>0, <3>2 DEF Numbers, Pending
    <3>5. QED
      BY <2>1, <3>3, <3>4
  <2>3. reasons' # {}
    BY <1>6 DEF ReportError
  <2>4. Ledger!Report(item.count)
    BY <1>6, <2>2, <2>3 DEF ReportError, Ledger!Report
  <2>5. QED
    BY <1>6, <2>2, <2>4 DEF ReportError, LedgerStep
<1>7. CASE ReportDies
  <2>1. ~sealed
    BY <1>7 DEF ReportDies, ControlOK
  <2>2. Pending' = Pending
    BY <1>7 DEF ReportDies, Pending, InHand, Busy
  <2>3. CASE UNCHANGED reasons
    BY <1>7, <2>2, <2>3 DEF ReportDies, LedgerStep, Ledger!vars
  <2>4. CASE reasons' = reasons \cup {"observer_queue_overflow"}
    BY <1>7, <2>1, <2>2, <2>4 DEF ReportDies, LedgerStep, Ledger!Doubt
  <2>5. QED
    BY <1>7, <2>3, <2>4 DEF ReportDies
<1>8. CASE Fail
  <2>1. InHand = item.count /\ InHand' = 0 /\ Len(queue') = 0
    BY <1>8, EmptyQueue DEF Fail, InHand, Busy
  <2>2. Pending' = Pending
    BY <1>0, <1>8, <2>1, SMTT(30) DEF Fail, LostToFailure, Numbers, Pending
  <2>3. QED
    BY <1>8, <2>2 DEF Fail, LedgerStep, Ledger!vars
<1>9. QED
  BY <1>1, <1>2, <1>3, <1>4, <1>5, <1>6, <1>7, <1>8 DEF WorkerStep

\* Closing moves the counters to what close() holds and from there to the
\* observer, and seals when nothing is left.
LEMMA CloserLedger ==
  IInv /\ (Close \/ CloserStep \/ \E r \in ShutdownReasons : MarkIncomplete(r)) => LedgerStep
<1> SUFFICES ASSUME IInv, Close \/ CloserStep \/ \E r \in ShutdownReasons : MarkIncomplete(r)
             PROVE  LedgerStep
  OBVIOUS
<1>0. Numbers
  BY PartsAreNumbers DEF IInv
<1> USE DEF IInv, limits, lost, flags, main, observer
<1>1. CASE Close \/ \E r \in ShutdownReasons : MarkIncomplete(r)
  <2>1. InHand' = InHand
    BY <1>1 DEF Close, MarkIncomplete, Notify, InHand, Busy
  <2>2. QED
    BY <1>1, <2>1 DEF Close, MarkIncomplete, LedgerStep, Ledger!vars, Pending
<1>2. CASE Finalize
  <2>1. InHand' = InHand
    BY <1>2 DEF Finalize, InHand, Busy
  <2>2. snapshot.overflow = 0 /\ snapshot.failed = 0 /\ snapshot.closed = 0
    BY <1>2 DEF Finalize, SnapshotOK
  <2>3. /\ snapshot'.overflow = overflow
        /\ snapshot'.failed = fatal_dropped
        /\ snapshot'.closed = closed_dropped
        /\ overflow' = 0 /\ fatal_dropped' = 0 /\ closed_dropped' = 0
        /\ UNCHANGED queue
    BY <1>2 DEF Finalize
  <2>4. Pending' = Pending
    BY <1>0, <2>1, <2>2, <2>3 DEF Numbers, Pending
  <2>5. QED
    BY <1>2, <2>4 DEF Finalize, LedgerStep, Ledger!vars
<1>3. ASSUME NEW f \in {"overflow", "failed", "closed"}, NEW r \in WorkerReasons,
             NEW at, NEW to, Flush(at, f, r, to), closer # "sealed"
      PROVE  LedgerStep
  <2>1. ~sealed
    BY <1>3 DEF ControlOK
  <2>2. snapshot[f] \in Nat
    BY DEF TypeOK, Snapshot
  <2>3. /\ snapshot'[f] = 0
        /\ \A g \in {"overflow", "failed", "closed"} \ {f} : snapshot'[g] = snapshot[g]
        /\ UNCHANGED <<queue, overflow, fatal_dropped, closed_dropped, observed, sealed,
                       submitted>>
    BY <1>3 DEF Flush, TypeOK, Snapshot
  <2>4. InHand' = InHand
    BY <1>3 DEF Flush, InHand, Busy
  <2>5. Pending' = Pending - snapshot[f] /\ snapshot[f] \in 0 .. Pending
    <3>1. CASE f = "overflow"
      BY <1>0, <2>2, <2>3, <2>4, <3>1, SMTT(30) DEF Numbers, Pending
    <3>2. CASE f = "failed"
      BY <1>0, <2>2, <2>3, <2>4, <3>2, SMTT(30) DEF Numbers, Pending
    <3>3. CASE f = "closed"
      BY <1>0, <2>2, <2>3, <2>4, <3>3 DEF Numbers, Pending
    <3>4. QED
      BY <3>1, <3>2, <3>3
  <2>6. CASE snapshot[f] = 0
    <3>1. UNCHANGED <<unobserved_messages, reasons>>
      BY <1>3, <2>6 DEF Flush, MarkUnobservedMany
    <3>2. Pending' = Pending
      BY <1>0, <2>5, <2>6 DEF Numbers
    <3>3. QED
      BY <2>3, <3>1, <3>2 DEF LedgerStep, Ledger!vars
  <2>7. CASE snapshot[f] > 0
    <3>1. unobserved_messages' = unobserved_messages + snapshot[f] /\ reasons' # {}
      BY <1>3, <2>1, <2>2, <2>7, MarkEffect DEF Flush
    <3>2. Ledger!Report(snapshot[f]) /\ snapshot[f] \in 1 .. Pending
      BY <2>2, <2>3, <2>5, <2>7, <3>1 DEF Ledger!Report
    <3>3. QED
      BY <2>3, <3>2 DEF LedgerStep
  <2>8. QED
    BY <2>2, <2>6, <2>7
<1>4. CASE FlushOverflow \/ FlushFailed \/ FlushClosed
  <2>1. closer # "sealed"
    BY <1>4 DEF FlushOverflow, FlushFailed, FlushClosed, Flush
  <2>2. QED
    BY <1>3, <1>4, <2>1 DEF FlushOverflow, FlushFailed, FlushClosed, WorkerReasons
<1>5. CASE FlushReasons
  <2>1. ~sealed /\ Pending' = Pending
    BY <1>5 DEF FlushReasons, ControlOK, Pending, InHand, Busy
  <2>2. CASE incomplete_reasons = {}
    BY <1>5, <2>1, <2>2 DEF FlushReasons, LedgerStep, Ledger!vars
  <2>3. CASE incomplete_reasons # {}
    BY <1>5, <2>1, <2>3 DEF FlushReasons, LedgerStep, Ledger!Doubt
  <2>4. QED
    BY <2>2, <2>3
<1>6. CASE Seal
  <2>1. Pending = 0
    <3>1. worker = "stopped" /\ queue = <<>> /\ overflow = 0 /\ fatal_dropped = 0
          /\ closed_dropped = 0
      BY <1>6 DEF Seal, ControlOK
    <3>2. snapshot.overflow = 0 /\ snapshot.failed = 0 /\ snapshot.closed = 0
      BY <1>6 DEF Seal, SnapshotOK
    <3>3. Len(queue) = 0 /\ InHand = 0
      BY <3>1, EmptyQueue DEF InHand, Busy
    <3>4. QED
      BY <3>1, <3>2, <3>3 DEF Pending
  <2>2. Pending' = Pending
    BY <1>6 DEF Seal, Pending, InHand, Busy
  <2>3. QED
    BY <1>6, <2>1, <2>2 DEF Seal, LedgerStep, Ledger!Seal
<1>7. QED
  BY <1>1, <1>2, <1>4, <1>5, <1>6 DEF CloserStep

\* Every step of the pipeline.
LEMMA EveryStepKeepsTheLedger == IInv /\ [Next]_vars => LedgerStep
<1> SUFFICES ASSUME IInv, [Next]_vars PROVE LedgerStep
  OBVIOUS
<1>1. CASE UNCHANGED vars
  BY <1>1 DEF vars, limits, lost, flags, main, observer, LedgerStep, Ledger!vars, Pending,
              InHand, Busy
<1>2. QED
  BY <1>1, SubmitLedger, WorkerLedger, CloserLedger DEF Next

\* ... and the ledger conserves messages.
LEMMA ConservationStep == IInv /\ [Next]_vars => Conservation'
<1> SUFFICES ASSUME IInv, [Next]_vars PROVE Conservation'
  OBVIOUS
<1>0. Numbers /\ submitted \in Nat
  BY PartsAreNumbers, SubmissionsAssumption DEF IInv, TypeOK
<1> USE DEF IInv, Conservation, Numbers
<1>1. LedgerStep
  BY EveryStepKeepsTheLedger
<1>2. CASE Ledger!Submit /\ submitted' = submitted + 1
  BY <1>0, <1>2 DEF Ledger!Submit
<1>3. CASE Ledger!SubmitAndReport /\ submitted' = submitted + 1
  BY <1>0, <1>3 DEF Ledger!SubmitAndReport
<1>4. CASE Ledger!Observe /\ submitted' = submitted
  BY <1>0, <1>4 DEF Ledger!Observe
<1>5. ASSUME NEW n \in 1 .. Pending, Ledger!Report(n), submitted' = submitted
      PROVE  Conservation'
  BY <1>0, <1>5 DEF Ledger!Report
<1>6. CASE (Ledger!Doubt \/ Ledger!Seal \/ UNCHANGED Ledger!vars) /\ submitted' = submitted
  BY <1>0, <1>6 DEF Ledger!Doubt, Ledger!Seal, Ledger!vars
<1>7. QED
  BY <1>1, <1>2, <1>3, <1>4, <1>5, <1>6 DEF LedgerStep

-----------------------------------------------------------------------------
(* The order of submission.                                                *)

\* The ids in the queue are a sequence of numbers, as long as the queue.
LEMMA QueuedIdsAre ==
  ASSUME TypeOK
  PROVE  /\ QueuedIds \in Seq(Nat) /\ Len(QueuedIds) = Len(queue)
         /\ DOMAIN QueuedIds = 1 .. Len(queue) /\ Len(queue) \in Nat
         /\ observed \in Seq(Nat)
         /\ DOMAIN observed = 1 .. Len(observed) /\ Len(observed) \in Nat
         /\ submitted \in Nat
         /\ \A i \in DOMAIN queue : QueuedIds[i] = queue[i].id /\ queue[i].id \in Nat
         /\ HeldIds \in Seq(Nat)
         /\ \A s \in {observed, HeldIds, QueuedIds} : \A i \in DOMAIN s : s[i] \in Nat
<1>1. Len(queue) \in Nat /\ DOMAIN queue = 1 .. Len(queue) /\ submitted \in Nat
  BY LenProperties, SubmissionsAssumption DEF TypeOK
<1>2. \A i \in DOMAIN queue : queue[i].id \in Nat
  <2>1. \A i \in DOMAIN queue : queue[i] \in Item
    BY <1>1, ElementOfSeq DEF TypeOK
  <2>2. \A e \in Item : e.id \in Nat
    BY SubmissionsAssumption DEF Item
  <2>3. QED
    BY <2>1, <2>2
<1>3. QueuedIds \in Seq(Nat) /\ Len(QueuedIds) = Len(queue)
  BY <1>1, <1>2 DEF QueuedIds
<1>4. observed \in Seq(Nat) /\ DOMAIN observed = 1 .. Len(observed) /\ Len(observed) \in Nat
  BY LenProperties, SubmissionsAssumption DEF TypeOK
<1>5. HeldIds \in Seq(Nat)
  BY SubmissionsAssumption DEF HeldIds, TypeOK, Item
<1>6. \A s \in {observed, HeldIds, QueuedIds} : \A i \in DOMAIN s : s[i] \in Nat
  <2>1. \A s \in Seq(Nat) : \A i \in DOMAIN s : s[i] \in Nat
    BY ElementOfSeq, LenProperties
  <2>2. QED
    BY <1>3, <1>4, <1>5, <2>1
<1>7. QED
  BY <1>1, <1>2, <1>3, <1>4, <1>5, <1>6 DEF QueuedIds

\* A number put behind a sequence comes after all that was in it.
LEMMA BehindOrdered ==
  ASSUME NEW s \in Seq(Nat), NEW e \in Nat, NEW u, Behind(u, s, e)
  PROVE  /\ Increasing(s) /\ (\A i \in DOMAIN s : s[i] < e) => Increasing(u)
         /\ \A i \in DOMAIN u : u[i] = e \/ (i \in DOMAIN s /\ u[i] = s[i])
<1>1. DOMAIN s = 1 .. Len(s) /\ Len(s) \in Nat
  BY LenProperties
<1>2. ASSUME Increasing(s), \A i \in DOMAIN s : s[i] < e
      PROVE  Increasing(u)
  BY <1>1, <1>2 DEF Increasing, Behind
<1>3. ASSUME NEW i \in DOMAIN u
      PROVE  u[i] = e \/ (i \in DOMAIN s /\ u[i] = s[i])
  <2>1. i = Len(s) + 1 \/ i \in 1 .. Len(s)
    BY <1>1 DEF Behind
  <2>2. CASE i = Len(s) + 1
    BY <2>2, Zenon DEF Behind
  <2>3. CASE i \in 1 .. Len(s)
    BY <1>1, <2>3 DEF Behind
  <2>4. QED
    BY <2>1, <2>2, <2>3
<1>4. QED
  BY <1>2, <1>3, Zenon

\* Two ordered sequences of which one is older are ordered when joined.
LEMMA JoinOrdered ==
  ASSUME NEW s \in Seq(Nat), NEW t \in Seq(Nat)
  PROVE  /\ s \o t \in Seq(Nat)
         /\ Increasing(s) /\ Increasing(t) /\ Older(s, t) => Increasing(s \o t)
         /\ \A u : Older(s, u) /\ Older(t, u) => Older(s \o t, u)
<1>1. /\ DOMAIN s = 1 .. Len(s) /\ DOMAIN t = 1 .. Len(t)
      /\ Len(s) \in Nat /\ Len(t) \in Nat
  BY LenProperties
<1>2. s \o t \in Seq(Nat) /\ Len(s \o t) = Len(s) + Len(t)
  BY ConcatProperties
<1>3. DOMAIN (s \o t) = 1 .. Len(s) + Len(t)
  BY <1>2, LenProperties
<1>4. \A i \in 1 .. Len(s) + Len(t) :
        (s \o t)[i] = IF i <= Len(s) THEN s[i] ELSE t[i - Len(s)]
  BY ConcatProperties
<1>5. ASSUME Increasing(s), Increasing(t), Older(s, t)
      PROVE  Increasing(s \o t)
  <2> SUFFICES ASSUME NEW i \in 1 .. Len(s) + Len(t), NEW j \in 1 .. Len(s) + Len(t), i < j
               PROVE  (s \o t)[i] < (s \o t)[j]
    BY <1>3 DEF Increasing
  <2>1. CASE j <= Len(s)
    <3>1. i \in DOMAIN s /\ j \in DOMAIN s
      BY <1>1, <2>1
    <3>2. (s \o t)[i] = s[i] /\ (s \o t)[j] = s[j]
      BY <1>1, <1>4, <2>1, <3>1
    <3>3. QED
      BY <1>5, <3>1, <3>2 DEF Increasing
  <2>2. CASE i <= Len(s) /\ j > Len(s)
    <3>1. i \in DOMAIN s /\ j - Len(s) \in DOMAIN t
      BY <1>1, <2>2
    <3>2. (s \o t)[i] = s[i] /\ (s \o t)[j] = t[j - Len(s)]
      BY <1>1, <1>4, <2>2
    <3>3. QED
      BY <1>5, <3>1, <3>2 DEF Older
  <2>3. CASE i > Len(s)
    <3>1. i - Len(s) \in DOMAIN t /\ j - Len(s) \in DOMAIN t /\ i - Len(s) < j - Len(s)
      BY <1>1, <2>3
    <3>2. t[i - Len(s)] < t[j - Len(s)]
      BY <1>5, <3>1 DEF Increasing
    <3>3. QED
      BY <1>1, <1>4, <2>3, <3>2
  <2>4. QED
    BY <1>1, <2>1, <2>2, <2>3
<1>6. ASSUME NEW u, Older(s, u), Older(t, u)
      PROVE  Older(s \o t, u)
  <2> SUFFICES ASSUME NEW i \in 1 .. Len(s) + Len(t), NEW j \in DOMAIN u
               PROVE  (s \o t)[i] < u[j]
    BY <1>3 DEF Older
  <2>1. CASE i <= Len(s)
    BY <1>1, <1>4, <1>6, <2>1 DEF Older
  <2>2. CASE i > Len(s)
    <3>1. i - Len(s) \in DOMAIN t
      BY <1>1, <2>2
    <3>2. (s \o t)[i] = t[i - Len(s)]
      BY <1>1, <1>4, <2>2
    <3>3. QED
      BY <1>6, <3>1, <3>2 DEF Older
  <2>3. QED
    BY <1>1, <2>1, <2>2
<1>7. QED
  BY <1>2, <1>5, <1>6

\* A submission takes its place behind everything submitted before, the
\* worker takes the oldest, and what it observes goes behind what it
\* observed before.
LEMMA OrderStep == IInv /\ [Next]_vars => OrderKept'
<1> SUFFICES ASSUME IInv, [Next]_vars PROVE OrderKept'
  OBVIOUS
<1>0. TypeOK /\ ItemsOK /\ OrderKept
  BY DEF IInv
<1>a. /\ Increasing(observed) /\ Increasing(QueuedIds)
      /\ Older(observed, HeldIds) /\ Older(observed, QueuedIds) /\ Older(HeldIds, QueuedIds)
      /\ \A i \in DOMAIN observed : observed[i] <= submitted
      /\ \A i \in DOMAIN HeldIds : HeldIds[i] <= submitted
      /\ \A i \in DOMAIN QueuedIds : QueuedIds[i] <= submitted
  BY <1>0 DEF OrderKept
<1>b. /\ QueuedIds \in Seq(Nat) /\ Len(QueuedIds) = Len(queue)
      /\ DOMAIN QueuedIds = 1 .. Len(queue) /\ Len(queue) \in Nat
      /\ observed \in Seq(Nat)
      /\ DOMAIN observed = 1 .. Len(observed) /\ Len(observed) \in Nat
      /\ submitted \in Nat
      /\ \A i \in DOMAIN queue : QueuedIds[i] = queue[i].id /\ queue[i].id \in Nat
      /\ HeldIds \in Seq(Nat)
      /\ \A i \in DOMAIN observed : observed[i] \in Nat
      /\ \A i \in DOMAIN HeldIds : HeldIds[i] \in Nat
      /\ \A i \in DOMAIN QueuedIds : QueuedIds[i] \in Nat
  BY <1>0, QueuedIdsAre
<1>c. DOMAIN queue = 1 .. Len(queue)
  BY <1>0, LenProperties DEF TypeOK
<1> USE DEF limits, lost, flags, main, observer
<1>1. ASSUME NEW kind \in {"message", "marker"}, NEW n \in Nat, Enqueue(kind, n)
      PROVE  OrderKept'
  <2>1. /\ observed' = observed /\ submitted' = submitted + 1
        /\ HeldIds' = HeldIds
    BY <1>1 DEF Enqueue, Submission, Notify, HeldIds, Busy, Charged
  <2>2. queue' = Append(queue, [kind |-> kind, id |-> submitted + 1, count |-> 1, bytes |-> n])
    BY <1>1 DEF Enqueue
  <2>3. Behind(QueuedIds', QueuedIds, submitted + 1)
    <3>1. /\ DOMAIN queue' = 1 .. Len(queue) + 1
          /\ \A i \in 1 .. Len(queue) : queue'[i] = queue[i]
          /\ queue'[Len(queue) + 1].id = submitted + 1
      BY <1>b, <1>0, <2>2, AppendProperties, SubmissionsAssumption DEF TypeOK
    <3>2. QueuedIds' = [i \in 1 .. Len(queue) + 1 |->
                          IF i = Len(queue) + 1 THEN submitted + 1 ELSE QueuedIds[i]]
      BY <1>b, <1>c, <3>1 DEF QueuedIds
    <3>3. QED
      BY <1>b, <3>2 DEF Behind
  <2>4. PICK q : q = QueuedIds'
    OBVIOUS
  <2>5. /\ \A i \in DOMAIN q :
             q[i] = submitted + 1 \/ (i \in DOMAIN QueuedIds /\ q[i] = QueuedIds[i])
        /\ Increasing(q)
    <3>1. Behind(q, QueuedIds, submitted + 1) /\ submitted + 1 \in Nat
      BY <1>b, <2>3, <2>4
    <3>2. \A i \in DOMAIN QueuedIds : QueuedIds[i] < submitted + 1
      BY <1>a, <1>b
    <3>3. QueuedIds \in Seq(Nat) /\ Increasing(QueuedIds)
      BY <1>a, <1>b
    <3>4. QED
      BY <3>1, <3>2, <3>3, BehindOrdered
  <2>6. /\ \A i \in DOMAIN q : q[i] <= submitted + 1
        /\ \A i \in DOMAIN observed : observed[i] <= submitted + 1
        /\ \A i \in DOMAIN HeldIds : HeldIds[i] <= submitted + 1
    <3>1. \A x \in Nat : x <= submitted => x < submitted + 1 /\ x <= submitted + 1
      BY <1>b
    <3>2. submitted + 1 <= submitted + 1
      BY <1>b
    <3>3. QED
      BY <1>a, <1>b, <2>5, <3>1, <3>2
  <2>7. Older(observed, q) /\ Older(HeldIds, q)
    <3>1. /\ \A i \in DOMAIN observed : observed[i] < submitted + 1
          /\ \A i \in DOMAIN HeldIds : HeldIds[i] < submitted + 1
      <4>1. \A x \in Nat : x <= submitted => x < submitted + 1
        BY <1>b
      <4>2. QED
        BY <1>a, <1>b, <4>1
    <3>2. QED
      BY <1>a, <2>5, <3>1 DEF Older
  <2>8. /\ Increasing(observed)' /\ Increasing(QueuedIds)'
        /\ Older(observed, HeldIds)' /\ Older(observed, QueuedIds)'
        /\ Older(HeldIds, QueuedIds)'
    BY <1>a, <2>1, <2>4, <2>5, <2>7 DEF Increasing, Older
  <2>9. (\A s \in {observed, HeldIds, QueuedIds} : \A i \in DOMAIN s : s[i] <= submitted)'
    BY <2>1, <2>4, <2>6
  <2>10. QED
    BY <2>8, <2>9 DEF OrderKept
<1>2. CASE Take
  <2>1. /\ observed' = observed /\ submitted' = submitted
        /\ item' = Head(queue) /\ queue' = Tail(queue) /\ queue # <<>>
        /\ worker' = "process"
    BY <1>2 DEF Take, TakeItem
  <2>2. /\ item' = queue[1] /\ 1 \in DOMAIN queue
        /\ DOMAIN queue' = 1 .. Len(queue) - 1
        /\ \A i \in DOMAIN queue' : i + 1 \in DOMAIN queue /\ queue'[i] = queue[i + 1]
    BY <1>0, <1>b, <2>1, TakeFirst, LenProperties DEF TypeOK
  <2>3. HeldIds' = <<QueuedIds[1]>>
    <3>1. Charged(queue[1])
      BY <1>0, <2>2 DEF ItemsOK, OneMessage
    <3>2. QED
      BY <1>b, <2>1, <2>2, <3>1 DEF HeldIds, Busy, Charged
  <2>4. /\ DOMAIN QueuedIds' = DOMAIN queue'
        /\ \A i \in DOMAIN queue' : i + 1 \in DOMAIN QueuedIds /\ QueuedIds'[i] = QueuedIds[i + 1]
    BY <1>b, <1>c, <2>2 DEF QueuedIds
  <2>5. PICK q, h : q = QueuedIds' /\ h = HeldIds'
    OBVIOUS
  <2>6. /\ DOMAIN q = 1 .. Len(queue) - 1 /\ 1 \in DOMAIN QueuedIds
        /\ \A i \in DOMAIN q : i + 1 \in DOMAIN QueuedIds /\ q[i] = QueuedIds[i + 1]
        /\ DOMAIN h = {1} /\ h[1] = QueuedIds[1]
    BY <1>b, <1>c, <2>2, <2>3, <2>4, <2>5
  <2>7. Increasing(q) /\ Older(observed, h) /\ Older(observed, q) /\ Older(h, q)
    <3>1. Older(observed, h) /\ Older(observed, q)
      BY <1>a, <2>6 DEF Older
    <3>2. \A i, j \in DOMAIN QueuedIds : i < j => QueuedIds[i] < QueuedIds[j]
      BY <1>a DEF Increasing
    <3>3. \A i, j \in DOMAIN q : i < j => i + 1 < j + 1
      BY <1>b, <2>6
    <3>4. Increasing(q)
      BY <2>6, <3>2, <3>3 DEF Increasing
    <3>5. \A j \in DOMAIN q : 1 < j + 1
      BY <1>b, <2>6
    <3>6. Older(h, q)
      BY <2>6, <3>2, <3>5 DEF Older
    <3>7. QED
      BY <3>1, <3>4, <3>6
  <2>8. \A s \in {observed, h, q} : \A i \in DOMAIN s : s[i] <= submitted
    BY <1>a, <2>6
  <2>9. /\ Increasing(observed)' /\ Increasing(QueuedIds)'
        /\ Older(observed, HeldIds)' /\ Older(observed, QueuedIds)'
        /\ Older(HeldIds, QueuedIds)'
    BY <1>a, <2>1, <2>5, <2>7 DEF Increasing, Older
  <2>10. (\A s \in {observed, HeldIds, QueuedIds} : \A i \in DOMAIN s : s[i] <= submitted)'
    BY <2>1, <2>5, <2>8
  <2>11. QED
    BY <2>9, <2>10 DEF OrderKept
<1>3. CASE Process /\ item.kind = "message"
  <2>1. /\ observed' = Append(observed, item.id) /\ submitted' = submitted
        /\ HeldIds = <<item.id>> /\ HeldIds' = <<>> /\ QueuedIds' = QueuedIds
    BY <1>3 DEF Process, HeldIds, QueuedIds, Busy, Charged
  <2>2. PICK o : o = observed'
    OBVIOUS
  <2>3. item.id \in Nat
    BY <1>0, SubmissionsAssumption DEF TypeOK, Item
  <2>4. /\ \A i \in DOMAIN observed : observed[i] < item.id
        /\ \A i \in DOMAIN QueuedIds : item.id < QueuedIds[i]
        /\ item.id <= submitted
    BY <1>a, <2>1 DEF Older
  <2>5. /\ Increasing(o)
        /\ \A i \in DOMAIN o : o[i] = item.id \/ (i \in DOMAIN observed /\ o[i] = observed[i])
    <3>1. Behind(o, observed, item.id)
      BY <1>b, <2>1, <2>2, <2>3, AppendProperties DEF Behind
    <3>2. observed \in Seq(Nat) /\ Increasing(observed)
      BY <1>a, <1>b
    <3>3. QED
      BY <2>3, <2>4, <3>1, <3>2, BehindOrdered
  <2>6. Older(o, QueuedIds) /\ \A i \in DOMAIN o : o[i] <= submitted
    BY <1>a, <2>4, <2>5 DEF Older
  <2>7. DOMAIN HeldIds' = {}
    BY <2>1
  <2>8. /\ Increasing(observed)' /\ Increasing(QueuedIds)'
        /\ Older(observed, HeldIds)' /\ Older(observed, QueuedIds)'
        /\ Older(HeldIds, QueuedIds)'
    BY <1>a, <2>1, <2>2, <2>5, <2>6, <2>7 DEF Increasing, Older
  <2>9. (\A s \in {observed, HeldIds, QueuedIds} : \A i \in DOMAIN s : s[i] <= submitted)'
    BY <1>a, <2>1, <2>2, <2>6, <2>7
  <2>10. QED
    BY <2>8, <2>9 DEF OrderKept
<1>4. ASSUME /\ observed' = observed /\ submitted' \in Nat /\ submitted' >= submitted
             /\ HeldIds' \in {HeldIds, <<>>}
             /\ queue' \in {queue, <<>>}
      PROVE  OrderKept'
  <2>1. QueuedIds' = QueuedIds \/ DOMAIN QueuedIds' = {}
    BY <1>4 DEF QueuedIds
  <2>2. HeldIds' = HeldIds \/ DOMAIN HeldIds' = {}
    BY <1>4
  <2>3. /\ Increasing(observed)' /\ Increasing(QueuedIds)'
        /\ Older(observed, HeldIds)' /\ Older(observed, QueuedIds)'
        /\ Older(HeldIds, QueuedIds)'
    BY <1>4, <1>a, <2>1, <2>2 DEF Increasing, Older
  <2>4. (\A s \in {observed, HeldIds, QueuedIds} : \A i \in DOMAIN s : s[i] <= submitted)'
    <3>1. /\ \A i \in DOMAIN observed : observed[i] <= submitted'
          /\ \A i \in DOMAIN HeldIds : HeldIds[i] <= submitted'
          /\ \A i \in DOMAIN QueuedIds : QueuedIds[i] <= submitted'
      BY <1>4, <1>a, <1>b
    <3>2. QED
      BY <1>4, <2>1, <2>2, <3>1
  <2>5. QED
    BY <2>3, <2>4 DEF OrderKept
<1>5. CASE \E kind \in {"message", "marker"}, n \in Nat : Overflow(kind, n)
  BY <1>5, <1>4, <1>b DEF Overflow, Submission, Notify, HeldIds, Busy, Charged
<1>6. CASE SubmitToFailed \/ SubmitWhileClosing \/ SubmitLate
  BY <1>6, <1>4, <1>b
     DEF SubmitToFailed, SubmitWhileClosing, SubmitLate, Submission, HeldIds, Busy, Charged
<1>7. CASE SubmitAfterSeal \/ UNCHANGED vars
  BY <1>7, <1>4, <1>b DEF SubmitAfterSeal, vars, HeldIds, Busy, Charged
<1>8. CASE Submit
  BY <1>1, <1>5, <1>6, <1>7, <1>8, SizesAssumption DEF Submit
<1>9. CASE TakeOverflow
  BY <1>9, <1>4, <1>b DEF TakeOverflow, HeldIds, Busy, Charged
<1>10. CASE Process /\ item.kind # "message"
  BY <1>10, <1>4, <1>b DEF Process, HeldIds, Busy, Charged
<1>11. CASE Wait \/ Exit \/ ProcessRaises \/ ProcessDies
  BY <1>11, <1>4, <1>b DEF Wait, Exit, ProcessRaises, ProcessDies, HeldIds, Busy, Charged
<1>12. CASE ReportError \/ ReportDies
  BY <1>12, <1>4, <1>b DEF ReportError, ReportDies, HeldIds, Busy, Charged
<1>13. CASE Fail \/ Release
  BY <1>13, <1>4, <1>b DEF Fail, Release, HeldIds, Busy, Charged
<1>14. CASE WorkerStep
  BY <1>2, <1>3, <1>9, <1>10, <1>11, <1>12, <1>13, <1>14 DEF WorkerStep
<1>15. CASE Close \/ \E r \in ShutdownReasons : MarkIncomplete(r)
  BY <1>15, <1>4, <1>b DEF Close, MarkIncomplete, Notify, HeldIds, Busy, Charged
<1>16. CASE CloserStep
  BY <1>16, <1>4, <1>b
     DEF CloserStep, Finalize, FlushOverflow, FlushFailed, FlushClosed, Flush, FlushReasons,
         Seal, HeldIds, Busy, Charged
<1>17. QED
  BY <1>7, <1>8, <1>14, <1>15, <1>16 DEF Next

-----------------------------------------------------------------------------
(* Bytes.                                                                  *)

\* The order of the natural numbers has no infinite descent.
LEMMA LessIsWellFounded == IsWellFoundedOn({p \in Nat \X Nat : p[1] < p[2]}, Nat)
BY NatLessThanWellFounded, Zenon DEF OpToRel

\* Two functions on 0 .. n that start alike and whose next value the last one
\* decides in the same way are the same.
LEMMA SumsAgree ==
  ASSUME NEW n \in Nat, NEW f, NEW g, NEW b, f[0] = g[0],
         \A i \in 1 .. n : f[i] = f[i - 1] + b[i] /\ g[i] = g[i - 1] + b[i]
  PROVE  \A i \in 0 .. n : f[i] = g[i]
<1> DEFINE D == {i \in 0 .. n : f[i] # g[i]}
           R == {p \in Nat \X Nat : p[1] < p[2]}
<1> SUFFICES ASSUME D # {} PROVE FALSE
  OBVIOUS
<1>1. D \subseteq Nat /\ IsWellFoundedOn(R, Nat)
  BY LessIsWellFounded
<1>2. \A x, y \in Nat : y < x => <<y, x>> \in R
  OBVIOUS
<1>3. \A i \in D : i \in 1 .. n /\ f[i] # g[i]
  OBVIOUS
<1>4. \A i \in 1 .. n : i - 1 \in Nat /\ i - 1 < i /\ (i - 1 \in D \/ f[i - 1] = g[i - 1])
  OBVIOUS
<1> HIDE DEF D, R
<1>5. PICK m \in D : \A y \in D : ~ (<<y, m>> \in R)
  BY <1>1, WFMin, Zenon
<1>6. m \in 1 .. n /\ f[m] # g[m] /\ m - 1 \notin D
  BY <1>1, <1>2, <1>3, <1>4, <1>5
<1>7. f[m - 1] = g[m - 1]
  BY <1>4, <1>6
<1>8. QED
  BY <1>6, <1>7

\* So what _fail adds up is any sum along the queue.
LEMMA QueuedBytesAre ==
  ASSUME TypeOK, NEW f, Sums(f, queue)
  PROVE  QueuedBytes = f[Len(queue)]
<1> DEFINE n == Len(queue)
           step(h) == [i \in 0 .. n |-> IF i = 0 THEN 0 ELSE h[i - 1] + queue[i].bytes]
<1>1. n \in Nat
  BY LenProperties DEF TypeOK
<1>2. f = step(f)
  BY <1>1 DEF Sums
<1>3. BytesUpTo = CHOOSE h : h = step(h)
  BY DEF BytesUpTo
<1>4. BytesUpTo = step(BytesUpTo)
  BY <1>2, <1>3, Zenon
<1>5. \A i \in 0 .. n : BytesUpTo[i] = IF i = 0 THEN 0 ELSE BytesUpTo[i - 1] + queue[i].bytes
  BY <1>4, Zenon
<1>6. PICK b, g : b = [i \in 1 .. n |-> queue[i].bytes] /\ g = BytesUpTo
  OBVIOUS
<1>7. /\ f[0] = g[0]
      /\ \A i \in 1 .. n : f[i] = f[i - 1] + b[i] /\ g[i] = g[i - 1] + b[i]
  BY <1>1, <1>5, <1>6 DEF Sums
<1>8. \A i \in 0 .. n : f[i] = BytesUpTo[i]
  <2> HIDE DEF n
  <2>1. \A i \in 0 .. n : f[i] = g[i]
    BY <1>1, <1>7, SumsAgree
  <2>2. QED
    BY <1>6, <2>1
<1>9. n \in 0 .. n
  BY <1>1
<1>10. QED
  BY <1>8, <1>9 DEF QueuedBytes

\* The item in hand.
LEMMA HandStep == IInv /\ [Next]_vars => HandOK'
<1> SUFFICES ASSUME IInv, [Next]_vars PROVE HandOK'
  OBVIOUS
<1> USE DEF IInv, HandOK, Charged
<1>1. CASE Take
  <2>1. item' \in Item /\ Charged(item')
    BY <1>1, TakeFirst DEF Take, TakeItem, TypeOK, ItemsOK, OneMessage
  <2>2. QED
    BY <1>1, <2>1 DEF Take, Item
<1>2. CASE TakeOverflow
  BY <1>2 DEF TakeOverflow
<1>3. CASE Release
  BY <1>3 DEF Release, NoItem
<1>4. CASE UNCHANGED item /\ (worker' \in {"top", "waiting", "stopped"} =>
                                worker \in {"top", "waiting", "stopped"})
  BY <1>4
<1>5. QED
  BY <1>1, <1>2, <1>3, <1>4, SizesAssumption
     DEF Next, vars, Submit, Enqueue, Notify, Overflow, SubmitToFailed, SubmitWhileClosing,
         SubmitLate, SubmitAfterSeal, WorkerStep, Wait, Exit, Process, ProcessRaises,
         ProcessDies, ReportError, ReportDies, Fail, MarkIncomplete, Close, CloserStep,
         Finalize, FlushOverflow, FlushFailed, FlushClosed, Flush, FlushReasons, Seal

\* Charging and releasing follow the sum along the queue.
LEMMA BytesStep == IInv /\ [Next]_vars => BytesOK'
<1> SUFFICES ASSUME IInv, [Next]_vars PROVE BytesOK'
  OBVIOUS
<1>0. TypeOK /\ HandOK /\ BytesOK /\ ItemsOK
  BY DEF IInv
<1>a. PICK f \in [0 .. Len(queue) -> Nat] :
        Sums(f, queue) /\ outstanding_bytes = f[Len(queue)] + item.bytes
  BY <1>0 DEF BytesOK
<1>b. /\ Len(queue) \in Nat /\ queue \in Seq(Item) /\ f[Len(queue)] \in Nat
      /\ f[0] = 0
      /\ DOMAIN queue = 1 .. Len(queue)
      /\ \A i \in 1 .. Len(queue) : f[i] = f[i - 1] + queue[i].bytes /\ queue[i].bytes \in Nat
      /\ \A i, j \in 0 .. Len(queue) : i <= j => f[i] <= f[j]
  <2>1. Len(queue) \in Nat /\ queue \in Seq(Item) /\ DOMAIN queue = 1 .. Len(queue)
    BY <1>0, LenProperties DEF TypeOK
  <2>2. \A i \in 1 .. Len(queue) : queue[i] \in Item
    BY <2>1
  <2>3. QED
    BY <1>a, <2>1, <2>2 DEF Sums, Item
<1>c. outstanding_bytes \in Nat /\ outstanding_bytes <= MaxBytes /\ item.bytes \in Nat
  BY <1>0 DEF BytesOK, HandOK
<1> USE DEF limits, lost, flags, main, observer
<1>1. ASSUME NEW kind \in {"message", "marker"}, NEW n \in Nat, Enqueue(kind, n),
             kind = "message" \/ n = 0
      PROVE  BytesOK'
  <2>1. PICK e \in Item : /\ queue' = Append(queue, e)
                          /\ e.bytes = n
    <3>1. [kind |-> kind, id |-> submitted + 1, count |-> 1, bytes |-> n] \in Item
      BY <1>0, <1>1, SubmissionsAssumption DEF Enqueue, Submission, TypeOK, Item, Kinds
    <3>2. QED
      BY <1>1, <3>1 DEF Enqueue
  <2>2. /\ Len(queue') = Len(queue) + 1
        /\ \A i \in 1 .. Len(queue) : queue'[i] = queue[i]
        /\ queue'[Len(queue) + 1] = e
    BY <1>b, <2>1, AppendProperties
  <2>3. item' = item /\ outstanding_bytes' = outstanding_bytes + n
    BY <1>1 DEF Enqueue
  <2>4. outstanding_bytes' <= MaxBytes
    <3>1. ~ Overloaded(kind, n)
      BY <1>1 DEF Enqueue
    <3>2. kind = "message" => ~ (outstanding_bytes + n > MaxBytes)
      BY <3>1 DEF Overloaded
    <3>3. CASE kind = "message"
      BY <1>c, <2>3, <3>2, <3>3, LimitsAssumption
    <3>4. CASE n = 0
      BY <1>c, <2>3, <3>4, LimitsAssumption
    <3>5. QED
      BY <1>1, <3>3, <3>4
  <2> DEFINE g == [i \in 0 .. Len(queue) + 1 |-> IF i = Len(queue) + 1
                                                 THEN f[Len(queue)] + n ELSE f[i]]
  <2>5. g \in [0 .. Len(queue) + 1 -> Nat] /\ g[0] = 0
    BY <1>b
  <2>5a. \A i, j \in 0 .. Len(queue) + 1 : i <= j => g[i] <= g[j]
    <3> SUFFICES ASSUME NEW i \in 0 .. Len(queue) + 1, NEW j \in 0 .. Len(queue) + 1, i <= j
                 PROVE  g[i] <= g[j]
      OBVIOUS
    <3>1. CASE j <= Len(queue)
      BY <1>b, <3>1
    <3>2. CASE i <= Len(queue) /\ j = Len(queue) + 1
      <4>1. f[i] <= f[Len(queue)] /\ f[i] \in Nat
        BY <1>b, <3>2
      <4>2. g[i] = f[i] /\ g[j] = f[Len(queue)] + n
        BY <1>b, <3>2
      <4>3. QED
        BY <1>b, <4>1, <4>2
    <3>3. CASE i = Len(queue) + 1
      BY <1>b, <3>3
    <3>4. QED
      BY <1>b, <3>1, <3>2, <3>3
  <2>6. g[Len(queue) + 1] = f[Len(queue)] + n
    BY <1>b
  <2>7. \A i \in 1 .. Len(queue) + 1 : g[i] = g[i - 1] + queue'[i].bytes
    BY <1>b, <2>1, <2>2
  <2> HIDE DEF g
  <2>8. outstanding_bytes' = g[Len(queue')] + item'.bytes
    BY <1>a, <1>b, <1>c, <2>2, <2>3, <2>6
  <2>9. Sums(g, queue')
    BY <2>2, <2>5, <2>5a, <2>7 DEF Sums
  <2>10. outstanding_bytes' \in Nat
    BY <1>c, <2>3
  <2>11. QED
    BY <2>2, <2>4, <2>5, <2>8, <2>9, <2>10 DEF BytesOK
<1>2. CASE Take
  <2>1. /\ item' = queue[1] /\ 1 \in 1 .. Len(queue)
        /\ Len(queue') = Len(queue) - 1
        /\ \A i \in 1 .. Len(queue') : queue'[i] = queue[i + 1]
        /\ UNCHANGED outstanding_bytes
    <3>1. queue # <<>> /\ item' = Head(queue) /\ queue' = Tail(queue)
          /\ UNCHANGED outstanding_bytes
      BY <1>2 DEF Take, TakeItem
    <3>2. /\ Head(queue) = queue[1] /\ 1 \in DOMAIN queue
          /\ Tail(queue) \in Seq(Item) /\ Len(Tail(queue)) = Len(queue) - 1
          /\ \A i \in DOMAIN Tail(queue) : Tail(queue)[i] = queue[i + 1]
      BY <1>b, <3>1, TakeFirst
    <3>3. DOMAIN Tail(queue) = 1 .. Len(Tail(queue))
      BY <3>2, LenProperties
    <3>4. QED
      BY <1>b, <3>1, <3>2, <3>3
  <2>2. item.bytes = 0
    BY <1>0, <1>2 DEF HandOK, Take, NoItem
  <2> DEFINE g == [i \in 0 .. Len(queue) - 1 |-> f[i + 1] - queue[1].bytes]
  <2>3. f[1] = queue[1].bytes /\ queue[1].bytes \in Nat
    BY <1>b, <2>1
  <2>4. /\ g \in [0 .. Len(queue) - 1 -> Nat] /\ g[0] = 0
        /\ \A i, j \in 0 .. Len(queue) - 1 : i <= j => g[i] <= g[j]
    <3>1. \A i \in 0 .. Len(queue) - 1 : 1 <= i + 1 /\ i + 1 \in 0 .. Len(queue)
      BY <1>b
    <3>2. \A i \in 0 .. Len(queue) - 1 : f[i + 1] \in Nat /\ f[1] <= f[i + 1]
      BY <1>b, <2>1, <3>1
    <3>3. \A i, j \in 0 .. Len(queue) - 1 : i <= j => f[i + 1] <= f[j + 1]
      BY <1>b, <3>1
    <3>4. g[0] = 0
      BY <1>b, <2>1, <2>3
    <3>5. g \in [0 .. Len(queue) - 1 -> Nat]
      BY <2>3, <3>2
    <3>6. \A i \in 0 .. Len(queue) - 1 : g[i] = f[i + 1] - queue[1].bytes
      OBVIOUS
    <3> HIDE DEF g
    <3>7. ASSUME NEW i \in 0 .. Len(queue) - 1, NEW j \in 0 .. Len(queue) - 1, i <= j
          PROVE  g[i] <= g[j]
      <4>1. f[i + 1] \in Nat /\ f[j + 1] \in Nat /\ f[i + 1] <= f[j + 1]
        BY <3>2, <3>3, <3>7
      <4>2. g[i] = f[i + 1] - queue[1].bytes /\ g[j] = f[j + 1] - queue[1].bytes
        BY <3>6
      <4>3. QED
        BY <2>3, <4>1, <4>2
    <3>8. QED
      BY <3>4, <3>5, <3>7
  <2>5. \A i \in 1 .. Len(queue) - 1 : g[i] = g[i - 1] + queue'[i].bytes
    <3> SUFFICES ASSUME NEW i \in 1 .. Len(queue) - 1
                 PROVE  g[i] = g[i - 1] + queue'[i].bytes
      OBVIOUS
    <3>1. i + 1 \in 1 .. Len(queue) /\ i \in 0 .. Len(queue) /\ i + 1 - 1 = i
      BY <1>b
    <3>2. f[i + 1] = f[i] + queue[i + 1].bytes /\ queue[i + 1].bytes \in Nat
          /\ f[i] \in Nat /\ f[i + 1] \in Nat
      BY <1>b, <3>1
    <3>3. queue'[i] = queue[i + 1]
      BY <1>b, <2>1
    <3>4. g[i] = f[i + 1] - queue[1].bytes /\ g[i - 1] = f[i] - queue[1].bytes
      BY <1>b
    <3> HIDE DEF g
    <3>5. PICK x, y, z, q \in Nat :
            x = f[i + 1] /\ y = f[i] /\ z = queue[i + 1].bytes /\ q = queue[1].bytes
      BY <2>3, <3>2
    <3>6. x = y + z /\ g[i] = x - q /\ g[i - 1] = y - q
      BY <3>2, <3>4, <3>5
    <3>7. g[i] = g[i - 1] + z
      BY <3>6
    <3>8. QED
      BY <3>3, <3>5, <3>7
  <2>6. g[Len(queue) - 1] = f[Len(queue)] - queue[1].bytes
    BY <1>b, <2>1
  <2> HIDE DEF g
  <2>7. outstanding_bytes' = g[Len(queue')] + item'.bytes
    BY <1>a, <1>b, <2>1, <2>2, <2>3, <2>6
  <2>8. Sums(g, queue')
    BY <2>1, <2>4, <2>5 DEF Sums
  <2>9. QED
    BY <1>c, <2>1, <2>4, <2>7, <2>8 DEF BytesOK
<1>3. CASE Fail
  <2>1. QueuedBytes = f[Len(queue)]
    BY <1>0, <1>a, QueuedBytesAre
  <2>2. queue' = <<>> /\ Len(queue') = 0 /\ item' = item
        /\ outstanding_bytes' = outstanding_bytes - QueuedBytes
    BY <1>3 DEF Fail
  <2>3. outstanding_bytes' = item.bytes
    BY <1>a, <1>b, <1>c, <2>1, <2>2
  <2>4. outstanding_bytes' \in Nat /\ outstanding_bytes' <= MaxBytes
    BY <1>a, <1>b, <1>c, <2>3, LimitsAssumption
  <2>5. PICK g : g = [i \in 0 .. 0 |-> 0]
    OBVIOUS
  <2>6. Sums(g, queue') /\ g \in [0 .. Len(queue') -> Nat] /\ g[Len(queue')] = 0
    BY <2>2, <2>5 DEF Sums
  <2>7. outstanding_bytes' = g[Len(queue')] + item'.bytes
    BY <1>c, <2>2, <2>3, <2>6
  <2>8. QED
    BY <2>4, <2>6, <2>7 DEF BytesOK
<1>4. CASE Release
  <2>1. UNCHANGED queue /\ item' = NoItem /\ item'.bytes = 0
        /\ outstanding_bytes' = outstanding_bytes - item.bytes
    BY <1>0, <1>4, <1>c DEF Release, NoItem, HandOK
  <2>2. outstanding_bytes' = f[Len(queue)]
    BY <1>a, <1>b, <1>c, <2>1
  <2>3. outstanding_bytes' = f[Len(queue')] + item'.bytes
    BY <1>b, <2>1, <2>2
  <2>4. outstanding_bytes' \in Nat /\ outstanding_bytes' <= MaxBytes
    BY <1>a, <1>b, <1>c, <2>2, LimitsAssumption
  <2>5. QED
    BY <1>a, <2>1, <2>3, <2>4 DEF BytesOK
<1>5. CASE TakeOverflow
  BY <1>0, <1>5, <1>a, <1>c DEF TakeOverflow, HandOK, BytesOK, NoItem
<1>6. CASE UNCHANGED <<queue, item, outstanding_bytes>>
  BY <1>0, <1>6 DEF BytesOK
<1>7. QED
  BY <1>1, <1>2, <1>3, <1>4, <1>5, <1>6, SizesAssumption
     DEF Next, vars, Submit, Overflow, SubmitToFailed, SubmitWhileClosing,
         SubmitLate, SubmitAfterSeal, WorkerStep, Wait, Exit, Process, ProcessRaises,
         ProcessDies, ReportError, ReportDies, MarkIncomplete, Close, CloserStep, Finalize,
         FlushOverflow, FlushFailed, FlushClosed, Flush, FlushReasons, Seal

-----------------------------------------------------------------------------
(* Theorems.                                                               *)

\* The invariant holds in every reachable state.
LEMMA Invariance == Spec => []IInv
<1>1. IInv /\ [Next]_vars => IInv'
  BY ItemsStep, SlotsStep, ControlStep, SnapshotStep, TypeStep, ConservationStep,
     OrderStep, HandStep, BytesStep DEF IInv
<1>2. QED
  BY InitInv, <1>1, PTL DEF Spec

\* Whatever the relays submit and whichever calls of the observer raise, the
\* queue never holds more than max_items and no counter of the worker goes
\* below zero.
THEOREM TypeCorrect == Spec => []TypeOK
BY Invariance, PTL DEF IInv

\* The slots and the bytes taken are exactly those of the queued items and of
\* the item in hand, within both limits, whichever calls raise and wherever the
\* worker fails; when close() has the counters, nothing is left charged.
THEOREM LimitsAreCharged == Spec => []ChargesExact
<1>1. IInv => ChargesExact
  <2> SUFFICES ASSUME IInv PROVE ChargesExact
    OBVIOUS
  <2>0. TypeOK /\ SlotsOK /\ ControlOK /\ HandOK /\ BytesOK
    BY DEF IInv
  <2>1. PICK f \in [0 .. Len(queue) -> Nat] :
          Sums(f, queue) /\ outstanding_bytes = f[Len(queue)] + item.bytes
    BY <2>0 DEF BytesOK
  <2>2. QueuedBytes = f[Len(queue)]
    BY <2>0, <2>1, QueuedBytesAre
  <2>3. outstanding_items = HeldItems /\ outstanding_items <= MaxItems
        /\ outstanding_bytes <= MaxBytes
    BY <2>0, LimitsAssumption DEF SlotsOK, TypeOK, BytesOK
  <2>4. ASSUME finalized
        PROVE  /\ worker = "stopped" /\ queue = <<>>
               /\ overflow = 0 /\ fatal_dropped = 0 /\ closed_dropped = 0
               /\ outstanding_items = 0 /\ outstanding_bytes = 0
    <3>1. worker = "stopped" /\ queue = <<>> /\ Len(queue) = 0
          /\ overflow = 0 /\ fatal_dropped = 0 /\ closed_dropped = 0
      BY <2>0, <2>4, EmptyQueue DEF ControlOK
    <3>2. item.bytes = 0 /\ f[Len(queue)] = 0
      BY <2>0, <2>1, <3>1 DEF HandOK, NoItem, Sums
    <3>3. HeldItems = 0
      BY <3>1 DEF HeldItems
    <3>4. QED
      BY <2>1, <2>3, <3>1, <3>2, <3>3
  <2>5. QED
    BY <2>1, <2>2, <2>3, <2>4 DEF ChargesExact
<1>2. QED
  BY <1>1, Invariance, PTL

\* Every message submitted before the seal was observed or counted as lost,
\* once, for any number of messages, limits and failures, and an observation
\* that claims to be complete observed all of them.
THEOREM LossesAreCounted == Spec => []EveryLossCounted
<1>1. IInv => EveryLossCounted
  <2> SUFFICES ASSUME IInv, sealed PROVE EveryLossCounted
    BY DEF EveryLossCounted
  <2>1. Numbers
    BY PartsAreNumbers DEF IInv
  <2>2. closer = "sealed" /\ finalized
    BY DEF IInv, ControlOK
  <2>3. worker = "stopped" /\ queue = <<>> /\ overflow = 0 /\ fatal_dropped = 0
        /\ closed_dropped = 0
    BY <2>2 DEF IInv, ControlOK
  <2>4. snapshot.overflow = 0 /\ snapshot.failed = 0 /\ snapshot.closed = 0
    BY <2>2 DEF IInv, SnapshotOK
  <2>5. Len(queue) = 0 /\ InHand = 0
    BY <2>3, EmptyQueue DEF InHand, Busy
  <2>6. Pending = 0
    BY <2>3, <2>4, <2>5 DEF Pending
  <2>7. submitted = Len(observed) + unobserved_messages
    BY <2>1, <2>6 DEF IInv, Conservation, Numbers
  <2>8. reasons = {} => unobserved_messages = 0
    BY <2>1 DEF IInv, Conservation, Numbers
  <2>9. QED
    BY <2>1, <2>7, <2>8 DEF EveryLossCounted, Numbers
<1>2. QED
  BY <1>1, Invariance, PTL

\* Whatever fails, messages reach the observer in the order in which the
\* relays submitted them: what is observed, the message in hand and the
\* queue are one increasing line of submissions.
THEOREM SubmissionOrderKept == Spec => []OrderPreserved
<1>1. IInv => OrderPreserved
  <2> SUFFICES ASSUME IInv PROVE OrderPreserved
    OBVIOUS
  <2>0. TypeOK /\ OrderKept
    BY DEF IInv
  <2>1. observed \in Seq(Nat) /\ HeldIds \in Seq(Nat) /\ QueuedIds \in Seq(Nat)
    BY <2>0, QueuedIdsAre
  <2>2. Increasing(HeldIds)
    BY DEF Increasing, HeldIds
  <2>3. Increasing(observed) /\ Increasing(QueuedIds)
        /\ Older(observed, HeldIds) /\ Older(observed, QueuedIds) /\ Older(HeldIds, QueuedIds)
    BY <2>0 DEF OrderKept
  <2>4. PICK front : front = observed \o HeldIds
    OBVIOUS
  <2>5. front \in Seq(Nat) /\ Increasing(front) /\ Older(front, QueuedIds)
    BY <2>1, <2>2, <2>3, <2>4, JoinOrdered
  <2>6. Increasing(front \o QueuedIds)
    BY <2>1, <2>3, <2>5, JoinOrdered
  <2>7. QED
    BY <2>4, <2>6 DEF OrderPreserved, Increasing, HeldIds, QueuedIds
<1>2. QED
  BY <1>1, Invariance, PTL

\* The queue, the worker thread and the shutdown together keep the ledger
\* of losses.
THEOREM PipelineKeepsLedger == Spec => ImplementsLossLedger
<1>1. Init => Ledger!Init
  BY EmptyQueue DEF Init, Ledger!Init, Pending, InHand, Busy
<1>2. IInv /\ [Next]_vars => [Ledger!Next]_(Ledger!vars)
  BY EveryStepKeepsTheLedger DEF LedgerStep, Ledger!Next
<1>3. QED
  BY <1>1, <1>2, Invariance, PTL DEF Spec, ImplementsLossLedger, Ledger!Spec

-----------------------------------------------------------------------------
(* How much is left to do.  The liveness of the pipeline rests on two facts *)
(* about its steps: the worker waits only when there is nothing to do, and  *)
(* each of its steps, but waiting for more, brings the drain nearer.        *)

WorkerSteps ==
  CASE worker = "process" -> 5
    [] worker = "report" -> 4
    [] worker = "failing" -> 3
    [] worker = "release" -> 2
    [] worker = "top" -> 1
    [] OTHER -> 0

\* Steps the worker may still take for what is queued, what overflowed and
\* what it has in hand: five at most for each.
StepsToDrain == 5 * (Len(queue) + (IF overflow > 0 THEN 1 ELSE 0)) + WorkerSteps

CloserSteps ==
  CASE closer = "open" -> 7
    [] closer = "joining" -> 6
    [] closer = "flush_overflow" -> 5
    [] closer = "flush_failed" -> 4
    [] closer = "flush_closed" -> 3
    [] closer = "flush_reasons" -> 2
    [] closer = "flushed" -> 1
    [] OTHER -> 0

\* The worker waits only while nothing is queued, nothing overflowed, and
\* nobody closes: whoever changes that wakes it.
WaitsOnlyIdle == worker = "waiting" => NothingToDo

\* Each step of the worker brings the drain nearer, whether calls of the
\* observer return or raise, and once it is closed nothing adds to it.
DrainAdvances ==
  [][/\ WorkerStep => StepsToDrain' < StepsToDrain
     /\ closed => StepsToDrain' <= StepsToDrain]_vars

\* close() goes forward only, and until the seal either the worker can go on,
\* being neither waiting nor stopped, or it has stopped and close() can.
CloseAdvances ==
  [][/\ CloserSteps' <= CloserSteps
     /\ CloserStep => CloserSteps' < CloserSteps
     /\ closer = "joining" /\ worker # "stopped" => StepsToDrain > 0]_vars

\* The places of the worker count as numbers.
LEMMA StepsAreNumbers ==
  TypeOK => Len(queue) \in Nat /\ overflow \in Nat /\ WorkerSteps \in 0 .. 5
BY DEF TypeOK, WorkerSteps, WorkerAt

\* A wake-up is not lost: no overflow, no item and no close comes while the
\* worker waits without waking it.
THEOREM NoWakeUpIsLost == Spec => []WaitsOnlyIdle
<1>1. Init => WaitsOnlyIdle
  BY DEF Init, WaitsOnlyIdle
<1>2. WaitsOnlyIdle /\ [Next]_vars => WaitsOnlyIdle'
  <2> SUFFICES ASSUME WaitsOnlyIdle, [Next]_vars PROVE WaitsOnlyIdle'
    OBVIOUS
  <2> USE DEF WaitsOnlyIdle, NothingToDo
  <2>1. CASE Submit
    BY <2>1 DEF Submit, Enqueue, Overflow, SubmitToFailed, SubmitWhileClosing, SubmitLate,
                SubmitAfterSeal, Notify, limits, lost, flags, vars
  <2>2. CASE WorkerStep
    BY <2>2 DEF WorkerStep, Wait, Take, TakeOverflow, Exit, Process, ProcessRaises, ProcessDies,
                ReportError, ReportDies, Fail, Release, limits, lost, flags
  <2>3. CASE (\E r \in ShutdownReasons : MarkIncomplete(r)) \/ Close
    BY <2>3 DEF MarkIncomplete, Close, Notify, lost, flags
  <2>4. CASE CloserStep
    BY <2>4 DEF CloserStep, Finalize, FlushOverflow, FlushFailed, FlushClosed, Flush,
                FlushReasons, Seal, lost, flags
  <2>5. CASE UNCHANGED vars
    BY <2>5 DEF vars, lost, flags
  <2>6. QED
    BY <2>1, <2>2, <2>3, <2>4, <2>5 DEF Next
<1>3. QED
  BY <1>1, <1>2, PTL DEF Spec

\* Every step of the worker leaves it less to do.
LEMMA WorkerAdvances == IInv /\ WorkerStep => StepsToDrain' < StepsToDrain
<1> SUFFICES ASSUME IInv, WorkerStep PROVE StepsToDrain' < StepsToDrain
  OBVIOUS
<1>0. Len(queue) \in Nat /\ overflow \in Nat
  BY StepsAreNumbers DEF IInv
<1>1. CASE Wait
  BY <1>0, <1>1 DEF Wait, lost, StepsToDrain, WorkerSteps
<1>2. CASE Take
  <2>1. Len(queue') = Len(queue) - 1
    BY <1>2, TakeFirst DEF Take, TakeItem, IInv, TypeOK
  <2>2. overflow' = overflow /\ worker = "top" /\ worker' = "process"
    BY <1>2 DEF Take, lost
  <2>3. QED
    BY <1>0, <2>1, <2>2 DEF StepsToDrain, WorkerSteps
<1>3. CASE TakeOverflow
  BY <1>0, <1>3 DEF TakeOverflow, StepsToDrain, WorkerSteps
<1>4. CASE Exit
  BY <1>0, <1>4 DEF Exit, lost, StepsToDrain, WorkerSteps
<1>5. CASE Process
  BY <1>0, <1>5 DEF Process, lost, StepsToDrain, WorkerSteps
<1>6. CASE ProcessRaises \/ ProcessDies
  <2>1. queue' = queue /\ overflow' = overflow /\ worker = "process" /\ worker' \in {"report", "failing"}
    BY <1>6 DEF ProcessRaises, ProcessDies, lost
  <2>2. WorkerSteps \in Nat /\ WorkerSteps' \in Nat /\ WorkerSteps' < WorkerSteps
    BY <2>1 DEF WorkerSteps
  <2>3. QED
    BY <1>0, <2>1, <2>2 DEF StepsToDrain
<1>7. CASE ReportError \/ ReportDies
  <2>1. queue' = queue /\ overflow' = overflow /\ worker = "report" /\ worker' \in {"release", "failing"}
    BY <1>7 DEF ReportError, ReportDies, lost
  <2>2. WorkerSteps \in Nat /\ WorkerSteps' \in Nat /\ WorkerSteps' < WorkerSteps
    BY <2>1 DEF WorkerSteps
  <2>3. QED
    BY <1>0, <2>1, <2>2 DEF StepsToDrain
<1>8. CASE Fail
  BY <1>0, <1>8, EmptyQueue DEF Fail, StepsToDrain, WorkerSteps
<1>9. CASE Release
  <2>1. queue' = queue /\ overflow' = overflow /\ worker = "release" /\ worker' \in {"top", "stopped"}
    BY <1>9 DEF Release, lost
  <2>2. WorkerSteps \in Nat /\ WorkerSteps' \in Nat /\ WorkerSteps' < WorkerSteps
    BY <2>1 DEF WorkerSteps
  <2>3. QED
    BY <1>0, <2>1, <2>2 DEF StepsToDrain
<1>10. QED
  BY <1>1, <1>2, <1>3, <1>4, <1>5, <1>6, <1>7, <1>8, <1>9 DEF WorkerStep

\* While it is closed nobody adds to what is left.
LEMMA NothingIsAdded ==
  IInv /\ WaitsOnlyIdle /\ closed /\ [Next]_vars => StepsToDrain' <= StepsToDrain
<1> SUFFICES ASSUME IInv, WaitsOnlyIdle, closed, [Next]_vars
             PROVE  StepsToDrain' <= StepsToDrain
  OBVIOUS
<1>0. /\ Len(queue) \in Nat /\ overflow \in Nat /\ WorkerSteps \in 0 .. 5
      /\ worker # "waiting"
  BY StepsAreNumbers DEF IInv, WaitsOnlyIdle, NothingToDo
<1>1. CASE Submit
  <2>1. queue' = queue /\ overflow' = overflow /\ worker' = worker
    BY <1>1 DEF Submit, Enqueue, Overflow, Reception, SubmitToFailed, SubmitWhileClosing,
                SubmitLate, SubmitAfterSeal, lost, vars
  <2>2. QED
    BY <1>0, <2>1 DEF StepsToDrain, WorkerSteps
<1>2. CASE WorkerStep
  <2>1. StepsToDrain' < StepsToDrain
    BY <1>2, WorkerAdvances
  <2>2. Len(queue') \in Nat /\ WorkerSteps' \in 0 .. 5
    <3>1. TypeOK'
      BY TypeStep
    <3>2. Len(queue') \in Nat
      BY <3>1, LenProperties DEF TypeOK
    <3>3. QED
      BY <3>2 DEF WorkerSteps
  <2>3. QED
    BY <1>0, <2>1, <2>2 DEF StepsToDrain
<1>3. CASE (\E r \in ShutdownReasons : MarkIncomplete(r)) \/ Close
  <2>1. queue' = queue /\ overflow' = overflow /\ worker' = worker
    BY <1>0, <1>3 DEF MarkIncomplete, Close, Notify, lost
  <2>2. QED
    BY <1>0, <2>1 DEF StepsToDrain, WorkerSteps
<1>4. CASE CloserStep
  <2>1. queue' = queue /\ (overflow' = overflow \/ overflow' = 0) /\ worker' = worker
    BY <1>4 DEF CloserStep, Finalize, FlushOverflow, FlushFailed, FlushClosed, Flush,
                FlushReasons, Seal, lost
  <2>2. QED
    BY <1>0, <2>1 DEF StepsToDrain, WorkerSteps
<1>5. CASE UNCHANGED vars
  BY <1>0, <1>5 DEF vars, lost, StepsToDrain, WorkerSteps
<1>6. QED
  BY <1>1, <1>2, <1>3, <1>4, <1>5 DEF Next

\* The worker needs at most five steps for each item and for an overflow, and
\* those bring it to the end of the drain once it is closed.
THEOREM DrainIsBounded == Spec => DrainAdvances
<1>1. IInv /\ WaitsOnlyIdle /\ [Next]_vars =>
        /\ WorkerStep => StepsToDrain' < StepsToDrain
        /\ closed => StepsToDrain' <= StepsToDrain
  BY WorkerAdvances, NothingIsAdded
<1>2. QED
  BY <1>1, Invariance, NoWakeUpIsLost, PTL DEF Spec, DrainAdvances

\* close() never goes back, and while it joins the worker there is a step of
\* the worker left or the worker has stopped.
THEOREM CloseIsBounded == Spec => CloseAdvances
<1>1. IInv /\ WaitsOnlyIdle /\ [Next]_vars =>
        /\ CloserSteps' <= CloserSteps
        /\ CloserStep => CloserSteps' < CloserSteps
        /\ closer = "joining" /\ worker # "stopped" => StepsToDrain > 0
  <2> SUFFICES ASSUME IInv, WaitsOnlyIdle, [Next]_vars
               PROVE  /\ CloserSteps' <= CloserSteps
                      /\ CloserStep => CloserSteps' < CloserSteps
                      /\ closer = "joining" /\ worker # "stopped" => StepsToDrain > 0
    OBVIOUS
  <2>1. ASSUME CloserStep PROVE CloserSteps' < CloserSteps
    BY <2>1 DEF CloserStep, Finalize, FlushOverflow, FlushFailed, FlushClosed, Flush,
                FlushReasons, Seal, CloserSteps
  <2>2. CloserSteps \in 0 .. 7 /\ CloserSteps' \in 0 .. 7
    BY DEF CloserSteps
  <2>3. ASSUME ~CloserStep PROVE CloserSteps' <= CloserSteps
    <3>1. closer' = closer \/ Close
      BY <2>3 DEF Next, Submit, Enqueue, Overflow, SubmitToFailed, SubmitWhileClosing, SubmitLate,
                  SubmitAfterSeal, WorkerStep, Wait, Take, TakeOverflow, Exit, Process,
                  ProcessRaises, ProcessDies, ReportError, ReportDies, Fail, Release,
                  MarkIncomplete, main, vars
    <3>2. QED
      BY <3>1 DEF Close, CloserSteps
  <2>4. ASSUME closer = "joining", worker # "stopped" PROVE StepsToDrain > 0
    <3>1. worker # "waiting"
      BY <2>4 DEF IInv, ControlOK, WaitsOnlyIdle, NothingToDo
    <3>2. WorkerSteps > 0
      BY <2>4, <3>1 DEF IInv, TypeOK, WorkerAt, WorkerSteps
    <3>3. QED
      BY <3>2, StepsAreNumbers DEF IInv, StepsToDrain
  <2>5. QED
    BY <2>1, <2>2, <2>3, <2>4
<1>2. QED
  BY <1>1, Invariance, NoWakeUpIsLost, PTL DEF Spec, CloseAdvances
=============================================================================
