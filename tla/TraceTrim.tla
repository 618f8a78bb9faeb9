------------------------------- MODULE TraceTrim -------------------------------
(***************************************************************************)
(* What proxy_mcp_stdio does with a trace that is too large: _trim_trace   *)
(* omits captured values, then the oldest calls, as few as will do, found  *)
(* by a binary search; if nothing fits _collapse_oversized_trace keeps the *)
(* first and the last event; then the observation, which may have gained a *)
(* reason, replaces the one that was measured.                             *)
(*                                                                         *)
(* An event is what trimming tells apart: its call (0 for the command's),  *)
(* its bytes and those of the value captured with it, 0 for none.          *)
(***************************************************************************)
EXTENDS Naturals, FiniteSets, Sequences, SequencesExt

CONSTANTS
  Traces,       \* the events of sealed traces: sequences
  Overheads,    \* bytes of a trace without its events
  OmittedBytes, \* bytes that stand for an omitted value
  ReasonBytes,  \* bytes of a reason in the observation
  TargetBytes,  \* TRACE_TARGET_BYTES
  TraceBytes    \* MAX_TRACE_BYTES, what readers accept

TraceEvent == [call: Nat, bytes: Nat, capture: Nat, omitted: BOOLEAN]

ASSUME TrimAssumption ==
  /\ Traces \subseteq Seq(TraceEvent)
  /\ Overheads \cup {OmittedBytes, ReasonBytes, TargetBytes, TraceBytes} \subseteq Nat
  /\ TargetBytes + ReasonBytes <= TraceBytes

VARIABLES
  sealed,       \* history: the events as they were sealed
  overhead, events,
  stage,        \* "measure", "omit", "remeasure", "search", "collapse",
                \* "observe", "written"; "idle"
  callIds, low, high, smallestFit,
  omissions, eventsDropped, reason,   \* of the observer
  noted         \* the reason is in the trace's observation

trimVars == <<sealed, overhead, events, stage, callIds, low, high, smallestFit,
              omissions, eventsDropped, reason, noted>>

TrimStart(place) ==
  /\ events = sealed /\ stage = place
  /\ callIds = <<>> /\ low = 1 /\ high = 0 /\ smallestFit = 0
  /\ omissions = 0 /\ eventsDropped = 0
  /\ reason = FALSE /\ noted = FALSE

TrimIdle == sealed = <<>> /\ overhead = 0 /\ TrimStart("idle")

TrimInit == sealed \in Traces /\ overhead \in Overheads /\ TrimStart("measure")

EncodedSize(s) ==
  LET size[n \in 0 .. Len(s)] ==
        IF n = 0 THEN overhead ELSE size[n - 1] + s[n].bytes + s[n].capture
  IN size[Len(s)]

Fits(s) == EncodedSize(s) <= TargetBytes

\* A value that is there and not omitted yet.
Captured(e) == e.capture > 0 /\ ~e.omitted

WithoutCapture(e) ==
  IF Captured(e) THEN [e EXCEPT !.capture = OmittedBytes, !.omitted = TRUE] ELSE e

CapturesOmitted(s) == [i \in DOMAIN s |-> WithoutCapture(s[i])]

\* The calls in the order of their first event.
CallIds(s) ==
  LET ids[n \in 0 .. Len(s)] ==
        IF n = 0 THEN <<>>
        ELSE IF s[n].call = 0 \/ Contains(ids[n - 1], s[n].call) THEN ids[n - 1]
        ELSE Append(ids[n - 1], s[n].call)
  IN ids[Len(s)]

\* The events of all calls but the given ones, in their order.
WithoutCalls(s, droppedIds) ==
  LET kept[n \in 0 .. Len(s)] ==
        IF n = 0 THEN <<>>
        ELSE IF s[n].call \in droppedIds THEN kept[n - 1] ELSE Append(kept[n - 1], s[n])
  IN kept[Len(s)]

WithoutCallPrefix(s, ids, count) == WithoutCalls(s, {ids[i] : i \in 1 .. count})

Measure ==
  /\ stage = "measure"
  /\ stage' = IF Fits(events) THEN "observe" ELSE "omit"
  /\ UNCHANGED <<sealed, overhead, events, callIds, low, high, smallestFit,
                 omissions, eventsDropped, reason, noted>>

OmitCaptures ==
  /\ stage = "omit"
  /\ events' = CapturesOmitted(events)
  /\ omissions' = Cardinality({i \in DOMAIN events : Captured(events[i])})
  /\ stage' = "remeasure"
  /\ UNCHANGED <<sealed, overhead, callIds, low, high, smallestFit,
                 eventsDropped, reason, noted>>

BeginSearch ==
  /\ stage = "remeasure"
  /\ callIds' = CallIds(events)
  /\ low' = 1 /\ high' = Len(callIds')
  /\ stage' = IF Fits(events) THEN "observe"
              ELSE IF callIds' = <<>> THEN "collapse" ELSE "search"
  /\ UNCHANGED <<sealed, overhead, events, smallestFit, omissions, eventsDropped,
                 reason, noted>>

\* Mutant: the last candidate is never tried.
Searching_Strict == low < high

Searching == low <= high

Try ==
  /\ stage = "search" /\ Searching
  /\ LET middle == (low + high) \div 2
     IN IF Fits(WithoutCallPrefix(events, callIds, middle))
        THEN smallestFit' = middle /\ high' = middle - 1 /\ UNCHANGED low
        ELSE low' = middle + 1 /\ UNCHANGED <<smallestFit, high>>
  /\ UNCHANGED <<sealed, overhead, events, stage, callIds, omissions, eventsDropped,
                 reason, noted>>

EndSearch ==
  /\ stage = "search" /\ ~Searching
  /\ IF smallestFit = 0
     THEN stage' = "collapse" /\ UNCHANGED <<events, eventsDropped, reason>>
     ELSE /\ events' = WithoutCallPrefix(events, callIds, smallestFit)
          /\ eventsDropped' = Len(events) - Len(events')
          /\ reason' = TRUE
          /\ stage' = "observe"
  /\ UNCHANGED <<sealed, overhead, callIds, low, high, smallestFit, omissions, noted>>

Collapse ==
  /\ stage = "collapse"
  /\ events' = <<Head(events), Last(events)>>
  /\ eventsDropped' = Len(events) - 2
  /\ reason' = TRUE
  /\ stage' = "observe"
  /\ UNCHANGED <<sealed, overhead, callIds, low, high, smallestFit, omissions, noted>>

\* snapshot_observation: the reason comes after the last measurement.
ReplaceObservation ==
  /\ stage = "observe"
  /\ noted' = reason
  /\ stage' = "written"
  /\ UNCHANGED <<sealed, overhead, events, callIds, low, high, smallestFit, omissions,
                 eventsDropped, reason>>

TrimNext ==
  \/ Measure \/ OmitCaptures \/ BeginSearch \/ Try \/ EndSearch \/ Collapse
  \/ ReplaceObservation

TrimSpec == TrimInit /\ [][TrimNext]_trimVars

-----------------------------------------------------------------------------
(* The trace that is written has lost as little as its size allows: no     *)
(* value if it fits; else every value, and the fewest oldest calls, each   *)
(* with both its events, that make it fit; all calls only if none do.      *)
(* What was lost is counted, and with the reason for it the trace is still *)
(* one that readers accept.                                                *)
TrimExact ==
  stage = "written" =>
    LET bare == CapturesOmitted(sealed)
        ids == CallIds(sealed)
        fitting == {n \in 0 .. Len(ids) : Fits(WithoutCallPrefix(bare, ids, n))}
        lost == Len(sealed) - Len(events)
    IN /\ IF Fits(sealed) THEN events = sealed
          ELSE IF fitting # {} THEN events = WithoutCallPrefix(bare, ids, Min(fitting))
          ELSE events = <<Head(bare), Last(bare)>>
       /\ eventsDropped = lost
       /\ omissions = IF Fits(sealed) THEN 0
                      ELSE Cardinality({i \in DOMAIN sealed : Captured(sealed[i])})
       /\ Fits(sealed) \/ fitting # {} =>
            EncodedSize(events) + (IF noted THEN ReasonBytes ELSE 0) <= TraceBytes
=============================================================================
