----------------------------- MODULE ToolObserver -----------------------------
(***************************************************************************)
(* mcp_proxy._Observer: the state machine that turns the JSON-RPC messages *)
(* the two relays saw into tool.call.started / tool.call.finished events,  *)
(* under caps on calls, events and captured bytes.  Every method takes the *)
(* observer's lock once, so one method call is one step.                   *)
(*                                                                         *)
(* A message is abstracted to what the observer tells apart: its           *)
(* JSON-RPC id, the kind of message, and for a captured value the facts    *)
(* that decide its capture.                                                *)
(***************************************************************************)
EXTENDS Integers, Sequences, FiniteSets, Functions

CONSTANTS
  Ids,              \* JSON-RPC ids that occur on the wire
  Payloads,         \* argument objects and results that occur on the wire
  NullOutput,       \* the output `null' of a cancelled call
  CaptureMode,      \* --tool-data
  MaxInFlight,      \* MAX_IN_FLIGHT
  MaxEvents,        \* MAX_EVENTS
  MaxCaptureValue,  \* MAX_CAPTURE_VALUE_BYTES
  MaxCaptureTotal,  \* MAX_CAPTURE_TOTAL_BYTES
  MarkReasons,      \* reasons the relays and the worker may report
  MarkCounts,       \* counts the worker may report at once
  MaxMessages       \* bound of the model: messages and marks in one session

IdForms == {"text", "int", "whole", "unusable"}

ASSUME IdsAssumption == \A id \in Ids : id.form \in IdForms
ASSUME PayloadsAssumption ==
  /\ NullOutput \in Payloads
  /\ \A p \in Payloads : /\ p.bytes \in Nat
                         /\ p.safe \in BOOLEAN
                         /\ p.encodes \in BOOLEAN
                         /\ p.redaction \in {"same", "changes", "collides"}
ASSUME ModeAssumption == CaptureMode \in {"omitted", "redacted", "captured"}
ASSUME CapsAssumption ==
  /\ MaxInFlight \in Nat \ {0}
  /\ MaxEvents \in Nat \ {0, 1}
  /\ MaxCaptureValue \in Nat
  /\ MaxCaptureTotal \in Nat
ASSUME MarksAssumption == MarkCounts \subseteq Int
ASSUME BoundsAssumption == MaxMessages \in Nat

VARIABLES
  events,                 \* lifecycle events appended so far
  in_flight,              \* correlation key -> call id
  ignored_response_keys,  \* keys whose next response is to be discarded
  next_call,
  reserved_finishes,      \* event slots promised to open calls
  capture_bytes,
  sealed,
  unobserved_messages,
  unmatched_results,
  events_dropped,
  capture_omitted,        \* omission counters by cause
  reasons,                \* why the observation is incomplete
  messages                \* messages and marks received (model bound)

calls == <<events, in_flight, ignored_response_keys, next_call, reserved_finishes>>
losses == <<unobserved_messages, unmatched_results, reasons>>
capturing == <<capture_bytes, capture_omitted>>
vars == <<calls, losses, capturing, sealed, events_dropped, messages>>

-----------------------------------------------------------------------------
(* Correlation keys: JSON ids keep their type, 1 and 1.0 are one number.   *)

NoKey == <<"none">>

\* _request_key; "unusable" stands for null, booleans, other types,
\* non-finite numbers and ids over the size limit.
RequestKey(id) ==
  CASE id.form = "text" -> <<"string", id.value>>
    [] id.form \in {"int", "whole"} -> <<"number", id.value>>
    [] OTHER -> NoKey

Keys == {RequestKey(id) : id \in Ids} \ {NoKey}

-----------------------------------------------------------------------------
(* Captures.                                                               *)

Causes == {"policy", "budget", "unsafe", "final_size"}
CaptureStates == {"omitted", "redacted", "captured"}

\* _json_safe accepts the value, redaction merges no two of its keys, and
\* it can be encoded.
Capturable(p) ==
  /\ p.safe
  /\ CaptureMode = "redacted" => p.redaction # "collides"
  /\ p.encodes

\* The mode, safety, redaction, encoding and budget checks in the order of
\* _capture_locked.  Arguments are objects by the time they are captured
\* and redaction keeps an object an object, so the check that an input is
\* one never fails and is left out.
CaptureVerdict(p) ==
  IF CaptureMode = "omitted" THEN "policy"
  ELSE IF ~Capturable(p) THEN "unsafe"
  ELSE IF p.bytes > MaxCaptureValue \/ capture_bytes + p.bytes > MaxCaptureTotal THEN "budget"
  ELSE IF CaptureMode = "redacted" /\ p.redaction = "changes" THEN "redacted"
  ELSE "captured"

Stored(p) == CaptureVerdict(p) \in CaptureStates
CaptureState(p) == IF Stored(p) THEN CaptureVerdict(p) ELSE "omitted"
StoredBytes(p) == IF Stored(p) THEN p.bytes ELSE 0

Capture_CountsOmitted(p) ==
  /\ capture_bytes' = capture_bytes + p.bytes
  /\ capture_omitted' =
       IF Stored(p) THEN capture_omitted
       ELSE [capture_omitted EXCEPT ![CaptureVerdict(p)] = @ + 1]

Capture(p) ==
  /\ capture_bytes' = capture_bytes + StoredBytes(p)
  /\ capture_omitted' =
       IF Stored(p) THEN capture_omitted
       ELSE [capture_omitted EXCEPT ![CaptureVerdict(p)] = @ + 1]

-----------------------------------------------------------------------------
(* Events.                                                                 *)

EventTypes == {"command.started", "tool.call.started", "tool.call.finished"}
Outcomes == {"succeeded", "failed", "cancelled"}

CommandStarted ==
  [type |-> "command.started", call_id |-> 0, outcome |-> "none",
   capture |-> "omitted", bytes |-> 0]

Started(c, p) ==
  [type |-> "tool.call.started", call_id |-> c, outcome |-> "none",
   capture |-> CaptureState(p), bytes |-> StoredBytes(p)]

Finished(c, o, p) ==
  [type |-> "tool.call.finished", call_id |-> c, outcome |-> o,
   capture |-> CaptureState(p), bytes |-> StoredBytes(p)]

Event == [type: EventTypes, call_id: Nat, outcome: Outcomes \cup {"none"},
          capture: CaptureStates, bytes: Nat]

StartsAt == {i \in DOMAIN events : events[i].type = "tool.call.started"}
FinishesAt == {i \in DOMAIN events : events[i].type = "tool.call.finished"}
StartedCalls == {events[i].call_id : i \in StartsAt}
FinishedCalls == {events[i].call_id : i \in FinishesAt}

-----------------------------------------------------------------------------
UnreadableReasons == {"unparseable", "unsupported_shape", "unsupported_envelope"}

Reasons ==
  MarkReasons \cup UnreadableReasons
    \cup {"invalid_tool_call", "duplicate_id", "observer_cap", "unmatched_result",
          "events_dropped"}

TypeOK ==
  /\ events \in Seq(Event)
  /\ DOMAIN in_flight \subseteq Keys
  /\ \A k \in DOMAIN in_flight : in_flight[k] \in 1 .. next_call - 1
  /\ ignored_response_keys \subseteq Keys
  /\ next_call \in Nat \ {0}
  /\ reserved_finishes \in Nat
  /\ capture_bytes \in 0 .. MaxCaptureTotal
  /\ sealed \in BOOLEAN
  /\ unobserved_messages \in Nat
  /\ unmatched_results \in Nat
  /\ events_dropped \in Nat
  /\ capture_omitted \in [Causes -> Nat]
  /\ reasons \subseteq Reasons
  /\ messages \in 0 .. MaxMessages

Init ==
  /\ events = <<CommandStarted>>
  /\ in_flight = [k \in {} |-> 0]
  /\ ignored_response_keys = {}
  /\ next_call = 1
  /\ reserved_finishes = 0
  /\ capture_bytes = 0
  /\ sealed = FALSE
  /\ unobserved_messages = 0
  /\ unmatched_results = 0
  /\ events_dropped = 0
  /\ capture_omitted = [c \in Causes |-> 0]
  /\ reasons = {}
  /\ messages = 0

Receive == messages < MaxMessages /\ messages' = messages + 1

-----------------------------------------------------------------------------
(* Losses.                                                                 *)

Unobserved_Uncounted(reason, count) ==
  /\ unobserved_messages' = unobserved_messages
  /\ reasons' = reasons \cup {reason}
  /\ UNCHANGED unmatched_results

Unobserved(reason, count) ==
  /\ unobserved_messages' = unobserved_messages + count
  /\ reasons' = reasons \cup {reason}
  /\ UNCHANGED unmatched_results

MarkUnobserved_AfterSeal(reason, count) ==
  /\ Receive
  /\ count > 0
  /\ Unobserved(reason, count)
  /\ UNCHANGED <<calls, capturing, sealed, events_dropped>>

\* mark_unobserved, mark_unobserved_many
MarkUnobserved(reason, count) ==
  /\ Receive
  /\ ~sealed
  /\ count > 0
  /\ Unobserved(reason, count)
  /\ UNCHANGED <<calls, capturing, sealed, events_dropped>>

MarkIncomplete(reason) ==
  /\ Receive
  /\ ~sealed
  /\ reasons' = reasons \cup {reason}
  /\ UNCHANGED <<calls, capturing, sealed, events_dropped,
                 unobserved_messages, unmatched_results>>

\* observe: the line does not parse, is no object, or is no JSON-RPC 2.0
\* envelope.
ObserveUnreadable(reason) ==
  /\ Receive
  /\ ~sealed
  /\ Unobserved(reason, 1)
  /\ UNCHANGED <<calls, capturing, sealed, events_dropped>>

\* A method the observer does not follow, a cancellation of no open call, a
\* server message that is no response or that nothing waits for, a mark with
\* nothing to count.
ObserveOther ==
  /\ Receive
  /\ ~sealed
  /\ UNCHANGED <<calls, losses, capturing, sealed, events_dropped>>

\* Everything that arrives after the seal is discarded.
ObserveAfterSeal ==
  /\ Receive
  /\ sealed
  /\ UNCHANGED <<calls, losses, capturing, sealed, events_dropped>>

-----------------------------------------------------------------------------
(* The life of a call.                                                     *)

Remember_Never(k) == UNCHANGED ignored_response_keys

\* A key whose response must not finish a later call, while there is room.
Remember(k) ==
  ignored_response_keys' =
    IF Cardinality(ignored_response_keys) < MaxInFlight
    THEN ignored_response_keys \cup {k}
    ELSE ignored_response_keys

IsDuplicate_IgnoredOnly(k) == k \in ignored_response_keys

IsDuplicate(k) == k \in DOMAIN in_flight \cup ignored_response_keys

\* Room must remain for this start, its finish and command.finished.
AtCap ==
  \/ Cardinality(DOMAIN in_flight) >= MaxInFlight
  \/ Len(events) + reserved_finishes + 3 > MaxEvents

\* tools/call without a usable id, parameters, name or arguments
InvalidToolCall ==
  /\ Receive
  /\ ~sealed
  /\ Unobserved("invalid_tool_call", 1)
  /\ UNCHANGED <<calls, capturing, sealed, events_dropped>>

RefuseDuplicate(id) ==
  /\ Receive
  /\ ~sealed
  /\ RequestKey(id) \in Keys
  /\ IsDuplicate(RequestKey(id))
  /\ Unobserved("duplicate_id", 1)
  /\ UNCHANGED <<calls, capturing, sealed, events_dropped>>

RefuseAtCap(id) ==
  /\ Receive
  /\ ~sealed
  /\ RequestKey(id) \in Keys
  /\ ~IsDuplicate(RequestKey(id))
  /\ AtCap
  /\ Unobserved("observer_cap", 1)
  /\ Remember(RequestKey(id))
  /\ UNCHANGED <<events, in_flight, next_call, reserved_finishes, capturing,
                 sealed, events_dropped>>

\* The call gets the next id and waits for its response under its key.
Register(k) ==
  /\ next_call' = next_call + 1
  /\ in_flight' = [x \in DOMAIN in_flight \cup {k} |->
                     IF x = k THEN next_call ELSE in_flight[x]]

StartToolCall(id, p) ==
  LET k == RequestKey(id) IN
  /\ Receive
  /\ ~sealed
  /\ k \in Keys
  /\ ~IsDuplicate(k)
  /\ ~AtCap
  /\ Register(k)
  /\ Capture(p)
  /\ events' = Append(events, Started(next_call, p))
  /\ reserved_finishes' = reserved_finishes + 1
  /\ UNCHANGED <<ignored_response_keys, losses, sealed, events_dropped>>

Finish_KeepsEntry(k, outcome, p) ==
  /\ Capture(p)
  /\ events' = Append(events, Finished(in_flight[k], outcome, p))
  /\ reserved_finishes' = reserved_finishes - 1
  /\ UNCHANGED in_flight

\* in_flight.pop(k) followed by _finish_locked
Finish(k, outcome, p) ==
  /\ in_flight' = Restrict(in_flight, DOMAIN in_flight \ {k})
  /\ Capture(p)
  /\ events' = Append(events, Finished(in_flight[k], outcome, p))
  /\ reserved_finishes' = reserved_finishes - 1

CancelToolCall(id) ==
  LET k == RequestKey(id) IN
  /\ Receive
  /\ ~sealed
  /\ k \in DOMAIN in_flight
  /\ Remember(k)
  /\ Finish(k, "cancelled", NullOutput)
  /\ UNCHANGED <<next_call, losses, sealed, events_dropped>>

\* A response to an open call: an error object and a result whose isError
\* is true both finish it as failed.
ObserveResponse(id, outcome, p) ==
  LET k == RequestKey(id) IN
  /\ Receive
  /\ ~sealed
  /\ k \in DOMAIN in_flight
  /\ Finish(k, outcome, p)
  /\ UNCHANGED <<ignored_response_keys, next_call, losses, sealed, events_dropped>>

\* The response of a call that was cancelled or refused.
DiscardResponse(id) ==
  LET k == RequestKey(id) IN
  /\ Receive
  /\ ~sealed
  /\ k \notin DOMAIN in_flight
  /\ k \in ignored_response_keys
  /\ ignored_response_keys' = ignored_response_keys \ {k}
  /\ unmatched_results' = unmatched_results + 1
  /\ reasons' = reasons \cup {"unmatched_result"}
  /\ UNCHANGED <<events, in_flight, next_call, reserved_finishes, capturing,
                 unobserved_messages, sealed, events_dropped>>

-----------------------------------------------------------------------------
(* Finalization.                                                           *)

Seal ==
  /\ ~sealed
  /\ sealed' = TRUE
  /\ UNCHANGED <<calls, losses, capturing, events_dropped, messages>>

\* record_final_size_omission, once for each stored capture that the final
\* trace had no room for.
RecordFinalSizeOmission ==
  /\ sealed
  /\ "events_dropped" \notin reasons
  /\ capture_omitted["final_size"] <
       Cardinality({i \in DOMAIN events : events[i].capture # "omitted"})
  /\ capture_omitted' = [capture_omitted EXCEPT !["final_size"] = @ + 1]
  /\ UNCHANGED <<calls, losses, capture_bytes, sealed, events_dropped, messages>>

\* record_dropped_events: called once, by _trim_trace or by
\* _collapse_oversized_trace (which may have nothing to drop).
RecordDroppedEvents(count) ==
  /\ sealed
  /\ "events_dropped" \notin reasons
  /\ events_dropped' = events_dropped + count
  /\ reasons' = reasons \cup {"events_dropped"}
  /\ UNCHANGED <<calls, capturing, sealed, unobserved_messages,
                 unmatched_results, messages>>

-----------------------------------------------------------------------------
Next ==
  \/ \E r \in MarkReasons, n \in MarkCounts : MarkUnobserved(r, n)
  \/ \E r \in MarkReasons : MarkIncomplete(r)
  \/ \E r \in UnreadableReasons : ObserveUnreadable(r)
  \/ ObserveOther
  \/ ObserveAfterSeal
  \/ InvalidToolCall
  \/ \E id \in Ids : RefuseDuplicate(id)
  \/ \E id \in Ids : RefuseAtCap(id)
  \/ \E id \in Ids, p \in Payloads : StartToolCall(id, p)
  \/ \E id \in Ids : CancelToolCall(id)
  \/ \E id \in Ids, o \in {"succeeded", "failed"}, p \in Payloads :
        ObserveResponse(id, o, p)
  \/ \E id \in Ids : DiscardResponse(id)
  \/ Seal
  \/ RecordFinalSizeOmission
  \/ \E n \in 0 .. Len(events) - 1 : RecordDroppedEvents(n)

Spec == Init /\ [][Next]_vars

-----------------------------------------------------------------------------
(* Properties.                                                             *)

\* The trace validator accepts the calls: a call id is started once,
\* finished once, and finished only after its start, whatever order of
\* duplicates, cancellations and late responses came in.
LifecycleValid ==
  /\ \A i, j \in StartsAt : events[i].call_id = events[j].call_id => i = j
  /\ \A i, j \in FinishesAt : events[i].call_id = events[j].call_id => i = j
  /\ \A j \in FinishesAt : \E i \in StartsAt :
        i < j /\ events[i].call_id = events[j].call_id

\* The correlation table is exact: it holds the calls that are started and
\* not finished, each under one key.
OpenCallsAreInFlight ==
  /\ Range(in_flight) = StartedCalls \ FinishedCalls
  /\ \A k, l \in DOMAIN in_flight : in_flight[k] = in_flight[l] => k = l

\* Every open call keeps one reserved event slot and the last slot is left
\* for command.finished, so a response is never refused for want of room.
ReservationExact ==
  /\ reserved_finishes = Cardinality(DOMAIN in_flight)
  /\ Len(events) + reserved_finishes < MaxEvents

\* A key is never both open and waiting for a response to discard, and both
\* tables respect the cap.
KeysSeparate ==
  /\ DOMAIN in_flight \cap ignored_response_keys = {}
  /\ Cardinality(DOMAIN in_flight) <= MaxInFlight
  /\ Cardinality(ignored_response_keys) <= MaxInFlight

\* The correlation tables and the reservations agree with the events, however
\* requests, responses, cancellations and their duplicates interleave: the
\* three invariants above.
TablesExact == OpenCallsAreInFlight /\ ReservationExact /\ KeysSeparate

\* Every capture that is not stored was counted once under one cause.
OmissionsCounted ==
  Cardinality({i \in StartsAt \cup FinishesAt : events[i].capture = "omitted"}) =
    capture_omitted["policy"] + capture_omitted["budget"] + capture_omitted["unsafe"]

\* The bytes of the captures that the first n events store.
StoredUpTo[n \in 0 .. Len(events)] ==
  IF n = 0 THEN 0 ELSE StoredUpTo[n - 1] + events[n].bytes

\* The capture counters agree with the events: the bytes charged are those
\* of the stored captures, and every capture that is not stored was counted
\* once under one cause.
CaptureLedger ==
  /\ capture_bytes = StoredUpTo[Len(events)]
  /\ OmissionsCounted

\* After the seal the trace no longer changes: only the two records of
\* final trimming may touch the metadata.
SealedIsFinal ==
  [][sealed => /\ UNCHANGED <<calls, capture_bytes, sealed,
                              unobserved_messages, unmatched_results>>
               /\ reasons' \ reasons \subseteq {"events_dropped"}]_vars

\* The observer implements the promise of a trace about tool calls.
ClosedCalls ==
  {[call |-> events[i].call_id, outcome |-> events[i].outcome] : i \in FinishesAt}

Trace == INSTANCE ToolCallTrace WITH
  CallIds <- 1 .. MaxEvents,
  open <- Range(in_flight),
  closed <- ClosedCalls,
  complete <- (reasons = {})

ImplementsToolCallTrace == Trace!Spec
=============================================================================
