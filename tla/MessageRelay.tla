----------------------------- MODULE MessageRelay -----------------------------
(***************************************************************************)
(* _relay_messages of mcp_proxy.py: one relay thread that forwards a byte  *)
(* stream unchanged while it cuts it into lines for the observer, with     *)
(* _raw_read, _raw_write and, towards the child, the _WriteChannel that    *)
(* the main thread may close.                                              *)
(*                                                                         *)
(* A byte is its position in the input; `ends' is the set of newlines, any *)
(* set.  The observer is the list of messages it was handed and the number *)
(* of "oversized" marks.  A read returns any number of bytes, a write      *)
(* takes any number of them, and either may raise.                         *)
(***************************************************************************)
EXTENDS Naturals, Sequences, FiniteSets

CONSTANTS ObservationBytes,  \* OBSERVATION_BYTES
          ChunkBytes,        \* IO_CHUNK_BYTES
          HasChannel,        \* the client relay: target_channel is given
          MaxInput           \* bound of the model: length of the input

ASSUME RelayAssumption ==
  /\ ObservationBytes \in Nat \ {0}
  /\ ChunkBytes \in Nat \ {0}
  /\ HasChannel \in BOOLEAN
  /\ MaxInput \in Nat

VARIABLES
  ends,           \* positions of newlines in the input (constant)
  taken,          \* bytes read so far
  chunk,          \* bytes of the last read that are not yet cut
  pending,
  streaming,
  todo,           \* byte strings to write next
  then,           \* where control goes once they are written
  pc,
  sent,           \* bytes written to the target
  observed,       \* messages handed to the observer
  oversized,      \* "oversized" marks
  shutdown,
  closed,         \* _WriteChannel.closed
  stream_closed,  \* _WriteChannel.stream_closed
  failed,         \* "mcp_relay_failed" was appended
  broken          \* a read or write raised (history)

cutting == <<chunk, pending, streaming>>
writing == <<todo, then>>
watching == <<observed, oversized>>
channel == <<closed, stream_closed>>
ending == <<shutdown, failed, broken>>
vars == <<ends, taken, cutting, writing, pc, sent, watching, channel, ending>>

Init ==
  /\ ends \in SUBSET (1 .. MaxInput)
  /\ taken = 0
  /\ chunk = <<>> /\ pending = <<>> /\ streaming = FALSE
  /\ todo = <<>> /\ then = "segment"
  /\ pc = "top"
  /\ sent = <<>>
  /\ observed = <<>> /\ oversized = 0
  /\ shutdown = FALSE /\ failed = FALSE /\ broken = FALSE
  /\ closed = FALSE /\ stream_closed = FALSE

-----------------------------------------------------------------------------
(* Reading.                                                                *)

\* while not shutdown.is_set()
Top ==
  /\ pc = "top"
  /\ pc' = IF shutdown THEN "finally" ELSE "read"
  /\ UNCHANGED <<ends, taken, cutting, writing, sent, watching, channel, ending>>

Read(n) ==
  /\ pc = "read"
  /\ taken + n <= MaxInput
  /\ chunk' = [i \in 1 .. n |-> taken + i]
  /\ taken' = taken + n
  /\ pc' = "segment"
  /\ UNCHANGED <<ends, pending, streaming, writing, sent, watching, channel, ending>>

ReadRaises ==
  /\ pc = "read"
  /\ pc' = "except"
  /\ broken' = TRUE
  /\ UNCHANGED <<ends, taken, cutting, writing, sent, watching, channel, shutdown, failed>>

\* The input ends: an unfinished line is a message, unless it is being
\* streamed.
Eof_NotObserved ==
  /\ pc = "read"
  /\ pending' = <<>>
  /\ todo' = IF pending = <<>> THEN <<>> ELSE <<pending>>
  /\ then' = "eof"
  /\ pc' = IF pending = <<>> THEN "eof" ELSE "write"
  /\ UNCHANGED <<ends, taken, chunk, streaming, sent, watching, channel, ending>>

Eof ==
  /\ pc = "read"
  /\ pending' = <<>>
  /\ observed' = IF pending = <<>> \/ streaming THEN observed
                 ELSE Append(observed, pending)
  /\ todo' = IF pending = <<>> THEN <<>> ELSE <<pending>>
  /\ then' = "eof"
  /\ pc' = IF pending = <<>> THEN "eof" ELSE "write"
  /\ UNCHANGED <<ends, taken, chunk, streaming, sent, oversized, channel, ending>>

\* on_eof: the client relay closes the channel itself, for which it takes
\* the lock nobody holds for long then.
EndOfInput ==
  /\ pc = "eof"
  /\ closed' = (closed \/ HasChannel)
  /\ stream_closed' = (stream_closed \/ HasChannel)
  /\ pc' = "finally"
  /\ UNCHANGED <<ends, taken, cutting, writing, sent, watching, ending>>

-----------------------------------------------------------------------------
(* Cutting a chunk into segments, each up to a newline.                    *)

Newlines == {i \in DOMAIN chunk : chunk[i] \in ends}
EndsLine == Newlines # {}
SegmentLength ==
  IF EndsLine THEN CHOOSE i \in Newlines : \A j \in Newlines : i <= j ELSE Len(chunk)
Segment == SubSeq(chunk, 1, SegmentLength)
Remaining == ObservationBytes + 1 - Len(pending)

TakeSegment ==
  /\ pc = "segment"
  /\ chunk' = SubSeq(chunk, SegmentLength + 1, Len(chunk))
  /\ then' = "segment"

AfterSegment == IF chunk' = <<>> THEN "top" ELSE "segment"

TooLong(line) == Len(line) > ObservationBytes

StreamSegment_Forever ==
  /\ TakeSegment
  /\ streaming
  /\ todo' = <<Segment>>
  /\ pc' = "write"
  /\ UNCHANGED <<ends, taken, streaming, pending, sent, watching, channel, ending>>

\* The rest of an oversized line.
StreamSegment ==
  /\ TakeSegment
  /\ streaming
  /\ streaming' = ~EndsLine
  /\ todo' = <<Segment>>
  /\ pc' = "write"
  /\ UNCHANGED <<ends, taken, pending, sent, watching, channel, ending>>

Kept == IF Remaining < SegmentLength THEN Remaining ELSE SegmentLength
Buffered == pending \o SubSeq(Segment, 1, Kept)
Excess == SubSeq(Segment, Kept + 1, SegmentLength)

PassOversized_KeepsPending ==
  /\ TakeSegment
  /\ ~streaming
  /\ TooLong(Buffered)
  /\ oversized' = oversized + 1
  /\ todo' = IF Excess = <<>> THEN <<Buffered>> ELSE <<Buffered, Excess>>
  /\ streaming' = ~EndsLine
  /\ pc' = "write"
  /\ UNCHANGED <<ends, taken, pending, sent, observed, channel, ending>>

\* The line outgrows the buffer: it is marked, and what is buffered goes
\* out, followed by the rest of the segment.
PassOversized ==
  /\ TakeSegment
  /\ ~streaming
  /\ TooLong(Buffered)
  /\ oversized' = oversized + 1
  /\ pending' = <<>>
  /\ todo' = IF Excess = <<>> THEN <<Buffered>> ELSE <<Buffered, Excess>>
  /\ streaming' = ~EndsLine
  /\ pc' = "write"
  /\ UNCHANGED <<ends, taken, sent, observed, channel, ending>>

PassMessage_Unseen ==
  /\ TakeSegment
  /\ ~streaming
  /\ ~TooLong(Buffered)
  /\ EndsLine
  /\ pending' = <<>>
  /\ todo' = <<Buffered>>
  /\ pc' = "write"
  /\ UNCHANGED <<ends, taken, streaming, sent, watching, channel, ending>>

\* A whole message: observed, then forwarded.
PassMessage ==
  /\ TakeSegment
  /\ ~streaming
  /\ ~TooLong(Buffered)
  /\ EndsLine
  /\ pending' = <<>>
  /\ observed' = Append(observed, Buffered)
  /\ todo' = <<Buffered>>
  /\ pc' = "write"
  /\ UNCHANGED <<ends, taken, streaming, sent, oversized, channel, ending>>

KeepPending ==
  /\ TakeSegment
  /\ ~streaming
  /\ ~TooLong(Buffered)
  /\ ~EndsLine
  /\ pending' = Buffered
  /\ pc' = AfterSegment
  /\ UNCHANGED <<ends, taken, streaming, todo, sent, watching, channel, ending>>

-----------------------------------------------------------------------------
(* Writing.                                                                *)

\* _raw_write takes the lock and finds the channel open.
BeginWrite ==
  /\ pc = "write"
  /\ ~closed
  /\ pc' = "writing"
  /\ UNCHANGED <<ends, taken, cutting, writing, sent, watching, channel, ending>>

\* write() returns False: the loop returns, the other two go on.
ChannelIsClosed ==
  /\ pc = "write"
  /\ closed
  /\ todo' = <<>>
  /\ pc' = IF then = "segment" THEN "finally" ELSE then
  /\ UNCHANGED <<ends, taken, cutting, then, sent, watching, channel, ending>>

Written(n) == sent' = sent \o SubSeq(Head(todo), 1, n)

\* os.write accepts n bytes of the view.
Write(n) ==
  /\ pc = "writing"
  /\ n <= Len(Head(todo))
  /\ Written(n)
  /\ IF n < Len(Head(todo))
     THEN /\ todo' = <<SubSeq(Head(todo), n + 1, Len(Head(todo)))>> \o Tail(todo)
          /\ UNCHANGED pc
     ELSE /\ todo' = Tail(todo)
          /\ pc' = IF Tail(todo) # <<>> THEN "write"
                   ELSE IF then # "segment" THEN then
                   ELSE IF chunk = <<>> THEN "top" ELSE "segment"
  /\ UNCHANGED <<ends, taken, cutting, then, watching, channel, ending>>

\* The last write, in `finally', ignores an OSError.
WriteRaises ==
  /\ pc = "writing"
  /\ broken' = TRUE
  /\ todo' = <<>>
  /\ pc' = IF then = "done" THEN "done" ELSE "except"
  /\ UNCHANGED <<ends, taken, cutting, then, sent, watching, channel, shutdown, failed>>

-----------------------------------------------------------------------------
(* Ending.                                                                 *)

\* except BaseException; the test and the append are one step here and two
\* in McpProxy, where it matters what happens between them.
Except ==
  /\ pc = "except"
  /\ failed' = (failed \/ ~shutdown)
  /\ shutdown' = TRUE
  /\ pc' = "finally"
  /\ UNCHANGED <<ends, taken, cutting, writing, sent, watching, channel, broken>>

\* What is pending is flushed, without the observer.
Finally ==
  /\ pc = "finally"
  /\ IF pending = <<>>
     THEN pc' = "done" /\ UNCHANGED writing
     ELSE pc' = "write" /\ todo' = <<pending>> /\ then' = "done"
  /\ UNCHANGED <<ends, taken, cutting, sent, watching, channel, ending>>

\* Some other thread ends the session.
Shutdown ==
  /\ ~shutdown
  /\ shutdown' = TRUE
  /\ UNCHANGED <<ends, taken, cutting, writing, pc, sent, watching, channel, failed, broken>>

\* _WriteChannel.close: refuse further writes, then close the stream once no
\* write holds the lock.
RefuseWrites ==
  /\ HasChannel /\ ~closed
  /\ closed' = TRUE
  /\ UNCHANGED <<ends, taken, cutting, writing, pc, sent, watching, stream_closed, ending>>

CloseStream ==
  /\ closed /\ ~stream_closed
  /\ pc # "writing"
  /\ stream_closed' = TRUE
  /\ UNCHANGED <<ends, taken, cutting, writing, pc, sent, watching, closed, ending>>

Next ==
  \/ Top
  \/ \E n \in 1 .. ChunkBytes : Read(n)
  \/ ReadRaises
  \/ Eof
  \/ EndOfInput
  \/ StreamSegment
  \/ PassOversized
  \/ PassMessage
  \/ KeepPending
  \/ BeginWrite
  \/ ChannelIsClosed
  \/ \E n \in 1 .. ChunkBytes + ObservationBytes : Write(n)
  \/ WriteRaises
  \/ Except
  \/ Finally
  \/ Shutdown
  \/ RefuseWrites
  \/ CloseStream

Spec == Init /\ [][Next]_vars

-----------------------------------------------------------------------------
(* The lines of the first n bytes of the input, by their first byte.       *)

Lines(n) == {p \in 1 .. n : p = 1 \/ p - 1 \in ends}
LineBytes(p, n) == {q \in p .. n : \A e \in ends : e < p \/ q <= e}
Ended(p, n) == LineBytes(p, n) \cap ends # {}
TooLongLines(n) == {p \in Lines(n) : Cardinality(LineBytes(p, n)) > ObservationBytes}
WholeLines(n) == {p \in Lines(n) : Ended(p, n)} \ TooLongLines(n)

-----------------------------------------------------------------------------
(* Properties.                                                             *)

\* The other side gets the bytes that came in, in their order and none twice or
\* invented, however reads and the limit cut the lines; and all of them, also a
\* line that a shutdown cuts in two, unless a read or write raised or the
\* channel was closed.  What is held back meanwhile stays within the limit.
WireExact ==
  /\ sent = [i \in 1 .. Len(sent) |-> i]
  /\ pc \in {"eof", "done"} /\ ~broken /\ ~closed => Len(sent) = taken
  /\ Len(pending) <= ObservationBytes

\* What the observer gets depends on the input alone and not on how it was
\* read: each line that fits the buffer once and in order, one mark for
\* each other line, and at the end of input the unfinished line.
ObservedMatchesReference ==
  pc \in {"top", "read", "eof"} =>
    LET expected == IF pc = "eof" THEN Lines(taken) \ TooLongLines(taken)
                    ELSE WholeLines(taken)
        Line(p) == [i \in 1 .. Cardinality(LineBytes(p, taken)) |-> p + i - 1]
    IN /\ oversized = Cardinality(TooLongLines(taken))
       /\ Len(observed) = Cardinality(expected)
       /\ {observed[i] : i \in DOMAIN observed} = {Line(p) : p \in expected}
       /\ \A i, j \in DOMAIN observed : i < j => observed[i][1] < observed[j][1]

\* No byte of a line leaves before the line was observed or marked, so an
\* answer is never observed before its request; the flush at the end is the
\* exception.
ObservedBeforeForwarded ==
  then # "done" => Cardinality(Lines(Len(sent))) <= Len(observed) + oversized
=============================================================================
