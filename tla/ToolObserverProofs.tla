-------------------------- MODULE ToolObserverProofs --------------------------
(***************************************************************************)
(* Proofs about ToolObserver for every set of ids and payloads and every   *)
(* cap: its types, the bounds of its tables and of the trace, that the     *)
(* calls it records are well formed and their captures accounted for; and  *)
(* about ToolSession, what a complete trace attributes to which request.   *)
(*                                                                         *)
(* The lifecycle is not inductive by itself: that a started call id is new *)
(* needs the ids in use to be 1 .. next_call - 1 (CallsNumbered), and that *)
(* a finished one was open needs the correlation table to be exact         *)
(* (OpenCallsAreInFlight).  The bounds need both tables to be finite.      *)
(***************************************************************************)
EXTENDS ToolSession, FiniteSetTheorems, SequenceTheorems, WellFoundedInduction, TLAPS

-----------------------------------------------------------------------------
(* The inductive invariant.                                                *)

TablesFinite ==
  IsFiniteSet(DOMAIN in_flight) /\ IsFiniteSet(ignored_response_keys)

\* The ids given out are those below next_call, and there are at least as
\* many events as that.
CallsNumbered ==
  /\ StartedCalls = 1 .. next_call - 1
  /\ FinishedCalls \subseteq StartedCalls
  /\ next_call <= Len(events)

IInv ==
  /\ TypeOK
  /\ TablesFinite
  /\ ReservationExact
  /\ KeysSeparate
  /\ CallsNumbered
  /\ LifecycleValid
  /\ OpenCallsAreInFlight

-----------------------------------------------------------------------------
(* What a step may do to the calls.                                        *)

StartsCall(k, p) ==
  /\ ~sealed
  /\ k \in Keys \ (DOMAIN in_flight \cup ignored_response_keys)
  /\ ~AtCap
  /\ Register(k)
  /\ Capture(p)
  /\ events' = Append(events, Started(next_call, p))
  /\ reserved_finishes' = reserved_finishes + 1
  /\ UNCHANGED <<ignored_response_keys, losses, sealed>>

FinishesCall(k, o, p) ==
  /\ ~sealed
  /\ k \in DOMAIN in_flight
  /\ Finish(k, o, p)
  /\ Remember(k) \/ UNCHANGED ignored_response_keys
  /\ UNCHANGED <<next_call, losses, sealed>>

KeepsCalls ==
  /\ UNCHANGED <<events, in_flight, next_call, reserved_finishes>>
  /\ \/ ignored_response_keys' \subseteq ignored_response_keys
     \/ \E k \in Keys \ DOMAIN in_flight : Remember(k)

\* Every step starts a call, finishes one or leaves the calls alone.
LEMMA StepMeans ==
  ASSUME TypeOK, [Next]_vars
  PROVE  \/ \E k \in Keys, p \in Payloads : StartsCall(k, p)
         \/ \E k \in Keys, o \in Outcomes, p \in Payloads : FinishesCall(k, o, p)
         \/ KeepsCalls
<1> USE DEF calls, losses, capturing
<1>1. ASSUME NEW id \in Ids, NEW p \in Payloads, StartToolCall(id, p)
      PROVE  \E k \in Keys, q \in Payloads : StartsCall(k, q)
  <2>1. StartsCall(RequestKey(id), p)
    BY <1>1 DEF StartToolCall, StartsCall, IsDuplicate
  <2>2. QED
    BY <2>1 DEF StartsCall
<1>2. ASSUME NEW id \in Ids, CancelToolCall(id)
      PROVE  \E k \in Keys, o \in Outcomes, p \in Payloads : FinishesCall(k, o, p)
  <2>1. FinishesCall(RequestKey(id), "cancelled", NullOutput)
    BY <1>2 DEF CancelToolCall, FinishesCall
  <2>2. RequestKey(id) \in Keys
    BY <2>1 DEF FinishesCall, TypeOK
  <2>3. QED
    BY <2>1, <2>2, PayloadsAssumption DEF Outcomes
<1>3. ASSUME NEW id \in Ids, NEW r \in {"succeeded", "failed"}, NEW q \in Payloads,
             ObserveResponse(id, r, q)
      PROVE  \E k \in Keys, o \in Outcomes, p \in Payloads : FinishesCall(k, o, p)
  <2>1. FinishesCall(RequestKey(id), r, q)
    BY <1>3 DEF ObserveResponse, FinishesCall
  <2>2. RequestKey(id) \in Keys
    BY <2>1 DEF FinishesCall, TypeOK
  <2>3. QED
    BY <2>1, <2>2 DEF Outcomes
<1>4. ASSUME NEW id \in Ids, RefuseAtCap(id)
      PROVE  KeepsCalls
  BY <1>4 DEF RefuseAtCap, KeepsCalls, IsDuplicate
<1>5. ASSUME NEW id \in Ids, DiscardResponse(id)
      PROVE  KeepsCalls
  BY <1>5 DEF DiscardResponse, KeepsCalls
<1>6. ASSUME UNCHANGED calls
      PROVE  KeepsCalls
  BY <1>6 DEF KeepsCalls
<1>7. CASE UNCHANGED vars
  BY <1>6, <1>7 DEF vars
<1>8. CASE Next
  BY <1>1, <1>2, <1>3, <1>4, <1>5, <1>6, <1>8
  DEF Next, MarkUnobserved, MarkIncomplete, ObserveUnreadable, ObserveOther,
      ObserveAfterSeal, InvalidToolCall, RefuseDuplicate, Seal,
      RecordFinalSizeOmission, RecordDroppedEvents
<1>9. QED
  BY <1>7, <1>8

-----------------------------------------------------------------------------
(* Types.                                                                  *)

\* A capture is stored within the budget or has a cause.
LEMMA CaptureType ==
  ASSUME TypeOK, NEW p \in Payloads
  PROVE  /\ CaptureState(p) \in CaptureStates
         /\ StoredBytes(p) \in Nat
         /\ capture_bytes + StoredBytes(p) \in 0 .. MaxCaptureTotal
         /\ ~Stored(p) => CaptureVerdict(p) \in Causes
<1>1. /\ p.bytes \in Nat /\ MaxCaptureTotal \in Nat /\ MaxCaptureValue \in Nat
      /\ capture_bytes \in 0 .. MaxCaptureTotal
  BY PayloadsAssumption, CapsAssumption DEF TypeOK
<1>2. CaptureVerdict(p) \in Causes \cup CaptureStates
  BY DEF CaptureVerdict, Causes, CaptureStates
<1>3. Stored(p) => capture_bytes + p.bytes <= MaxCaptureTotal
  BY <1>1 DEF Stored, CaptureVerdict, CaptureStates
<1>4. QED
  BY <1>1, <1>2, <1>3 DEF Stored, CaptureState, StoredBytes, CaptureStates

LEMMA CaptureStep ==
  ASSUME TypeOK, NEW p \in Payloads, Capture(p)
  PROVE  /\ capture_bytes' \in 0 .. MaxCaptureTotal
         /\ capture_omitted' \in [Causes -> Nat]
<1>1. capture_bytes' \in 0 .. MaxCaptureTotal
  BY CaptureType DEF Capture
<1>2. capture_omitted \in [Causes -> Nat]
  BY DEF TypeOK
<1>3. CASE Stored(p)
  BY <1>1, <1>2, <1>3 DEF Capture
<1>4. CASE ~Stored(p)
  <2>1. CaptureVerdict(p) \in Causes
    BY <1>4, CaptureType
  <2>2. capture_omitted' = [capture_omitted EXCEPT ![CaptureVerdict(p)] = @ + 1]
    BY <1>4 DEF Capture
  <2>3. QED
    BY <1>1, <1>2, <2>1, <2>2
<1>5. QED
  BY <1>3, <1>4

\* What appending does to the trace.
LEMMA AppendEvent ==
  ASSUME NEW es \in Seq(Event), NEW e \in Event
  PROVE  /\ Append(es, e) \in Seq(Event)
         /\ Len(es) \in Nat
         /\ Len(Append(es, e)) = Len(es) + 1
         /\ DOMAIN es = 1 .. Len(es)
         /\ DOMAIN Append(es, e) = 1 .. Len(es) + 1
         /\ \A i \in 1 .. Len(es) : Append(es, e)[i] = es[i]
         /\ Append(es, e)[Len(es) + 1] = e
BY AppendProperties, LenProperties

LEMMA StartedType ==
  ASSUME TypeOK, NEW p \in Payloads
  PROVE  Started(next_call, p) \in Event
BY CaptureType DEF Started, Event, EventTypes, TypeOK

LEMMA FinishedType ==
  ASSUME TypeOK, NEW p \in Payloads, NEW k \in DOMAIN in_flight, NEW o \in Outcomes
  PROVE  Finished(in_flight[k], o, p) \in Event
<1>1. in_flight[k] \in Nat
  BY DEF TypeOK
<1>2. QED
  BY <1>1, CaptureType DEF Finished, Event, EventTypes

\* The types of what belongs to the calls.
CallTypes ==
  /\ events \in Seq(Event)
  /\ DOMAIN in_flight \subseteq Keys
  /\ \A k \in DOMAIN in_flight : in_flight[k] \in 1 .. next_call - 1
  /\ ignored_response_keys \subseteq Keys
  /\ next_call \in Nat \ {0}
  /\ reserved_finishes \in Nat

LEMMA CallTypesStep ==
  ASSUME TypeOK, TablesFinite, ReservationExact, [Next]_vars
  PROVE  CallTypes'
<1>1. ASSUME NEW k \in Keys, NEW p \in Payloads, StartsCall(k, p)
      PROVE  CallTypes'
  <2>1. events' \in Seq(Event)
    BY <1>1, StartedType, AppendEvent DEF StartsCall, TypeOK
  <2>2. next_call' = next_call + 1 /\ next_call \in Nat \ {0}
    BY <1>1 DEF StartsCall, Register, TypeOK
  <2>3. \A x \in DOMAIN in_flight' : in_flight'[x] \in 1 .. next_call' - 1
    BY <1>1, <2>2 DEF StartsCall, Register, TypeOK
  <2>4. QED
    BY <1>1, <2>1, <2>2, <2>3 DEF CallTypes, StartsCall, Register, TypeOK
<1>2. ASSUME NEW k \in Keys, NEW o \in Outcomes, NEW p \in Payloads, FinishesCall(k, o, p)
      PROVE  CallTypes'
  <2>1. events' \in Seq(Event)
    BY <1>2, FinishedType, AppendEvent DEF FinishesCall, Finish, TypeOK
  <2>2. reserved_finishes' \in Nat
    <3>1. Cardinality(DOMAIN in_flight) \in Nat \ {0}
      BY <1>2, FS_CardinalityType, FS_EmptySet DEF FinishesCall, TablesFinite
    <3>2. QED
      BY <1>2, <3>1 DEF FinishesCall, Finish, ReservationExact
  <2>3. ignored_response_keys' \subseteq Keys
    BY <1>2 DEF FinishesCall, Remember, TypeOK
  <2>4. DOMAIN in_flight' \subseteq Keys
        /\ \A x \in DOMAIN in_flight' : in_flight'[x] \in 1 .. next_call' - 1
    BY <1>2 DEF FinishesCall, Finish, Restrict, TypeOK
  <2>5. QED
    BY <1>2, <2>1, <2>2, <2>3, <2>4 DEF CallTypes, FinishesCall, TypeOK
<1>3. ASSUME KeepsCalls
      PROVE  CallTypes'
  BY <1>3 DEF KeepsCalls, CallTypes, Remember, TypeOK
<1>4. QED
  BY <1>1, <1>2, <1>3, StepMeans

\* Marks only raise counters and add known reasons.
LEMMA UnobservedStep ==
  ASSUME TypeOK, NEW r \in Reasons, NEW n \in Nat, Unobserved(r, n)
  PROVE  /\ unobserved_messages' \in Nat
         /\ unmatched_results' \in Nat
         /\ reasons' \subseteq Reasons
BY DEF Unobserved, TypeOK

\* The types of the rest.
OtherTypes ==
  /\ capture_bytes \in 0 .. MaxCaptureTotal
  /\ sealed \in BOOLEAN
  /\ unobserved_messages \in Nat
  /\ unmatched_results \in Nat
  /\ events_dropped \in Nat
  /\ capture_omitted \in [Causes -> Nat]
  /\ reasons \subseteq Reasons
  /\ messages \in 0 .. MaxMessages

LEMMA OtherTypesStep ==
  ASSUME TypeOK, [Next]_vars
  PROVE  OtherTypes'
<1> USE DEF calls, losses, capturing
<1>0. Receive => messages' \in 0 .. MaxMessages
  BY BoundsAssumption DEF Receive, TypeOK
<1>1. ASSUME NEW r \in MarkReasons, NEW n \in MarkCounts, MarkUnobserved(r, n)
      PROVE  OtherTypes'
  <2>1. n \in Nat /\ r \in Reasons
    BY <1>1, MarksAssumption DEF MarkUnobserved, Reasons
  <2>2. QED
    BY <1>0, <1>1, <2>1, UnobservedStep DEF MarkUnobserved, OtherTypes, TypeOK
<1>2. ASSUME NEW r \in MarkReasons, MarkIncomplete(r)
      PROVE  OtherTypes'
  BY <1>0, <1>2 DEF MarkIncomplete, Reasons, OtherTypes, TypeOK
<1>3. ASSUME NEW r \in UnreadableReasons, ObserveUnreadable(r)
      PROVE  OtherTypes'
  <2>1. r \in Reasons
    BY DEF Reasons
  <2>2. QED
    BY <1>0, <1>3, <2>1, UnobservedStep DEF ObserveUnreadable, OtherTypes, TypeOK
<1>4. ASSUME InvalidToolCall \/ \E id \in Ids : RefuseDuplicate(id) \/ RefuseAtCap(id)
      PROVE  OtherTypes'
  <2>1. \E r \in {"invalid_tool_call", "duplicate_id", "observer_cap"} : Unobserved(r, 1)
    BY <1>4 DEF InvalidToolCall, RefuseDuplicate, RefuseAtCap
  <2>2. /\ unobserved_messages' \in Nat
        /\ unmatched_results' \in Nat
        /\ reasons' \subseteq Reasons
    BY <2>1, UnobservedStep DEF Reasons
  <2>3. messages' \in 0 .. MaxMessages
    BY <1>0, <1>4 DEF InvalidToolCall, RefuseDuplicate, RefuseAtCap
  <2>4. UNCHANGED <<capturing, sealed, events_dropped>>
    BY <1>4 DEF InvalidToolCall, RefuseDuplicate, RefuseAtCap
  <2>5. QED
    BY <2>2, <2>3, <2>4 DEF OtherTypes, TypeOK
<1>5. ASSUME NEW id \in Ids, NEW p \in Payloads,
             StartToolCall(id, p) \/ \E o \in Outcomes : ObserveResponse(id, o, p)
      PROVE  OtherTypes'
  <2>1. Capture(p) /\ Receive /\ UNCHANGED <<losses, sealed, events_dropped>>
    BY <1>5 DEF StartToolCall, ObserveResponse, Finish
  <2>2. QED
    BY <1>0, <2>1, CaptureStep DEF OtherTypes, TypeOK
<1>6. ASSUME NEW id \in Ids, CancelToolCall(id)
      PROVE  OtherTypes'
  <2>1. Capture(NullOutput) /\ Receive /\ UNCHANGED <<losses, sealed, events_dropped>>
    BY <1>6 DEF CancelToolCall, Finish
  <2>2. QED
    BY <1>0, <2>1, PayloadsAssumption, CaptureStep DEF OtherTypes, TypeOK
<1>7. ASSUME NEW id \in Ids, DiscardResponse(id)
      PROVE  OtherTypes'
  BY <1>0, <1>7 DEF DiscardResponse, Reasons, OtherTypes, TypeOK
<1>8. ASSUME Seal \/ ObserveOther \/ ObserveAfterSeal \/ UNCHANGED vars
      PROVE  OtherTypes'
  BY <1>0, <1>8 DEF Seal, ObserveOther, ObserveAfterSeal, vars, OtherTypes, TypeOK
<1>9. ASSUME RecordFinalSizeOmission
      PROVE  OtherTypes'
  BY <1>9 DEF RecordFinalSizeOmission, Causes, OtherTypes, TypeOK
<1>10. ASSUME NEW n \in 0 .. Len(events) - 1, RecordDroppedEvents(n)
       PROVE  OtherTypes'
  <2>1. n \in Nat
    BY LenProperties DEF TypeOK
  <2>2. QED
    BY <1>10, <2>1 DEF RecordDroppedEvents, Reasons, OtherTypes, TypeOK
<1>11. QED
  BY <1>1, <1>2, <1>3, <1>4, <1>5, <1>6, <1>7, <1>8, <1>9, <1>10 DEF Next, Outcomes

LEMMA TypeStep ==
  ASSUME TypeOK, TablesFinite, ReservationExact, [Next]_vars
  PROVE  TypeOK'
BY CallTypesStep, OtherTypesStep DEF TypeOK, CallTypes, OtherTypes

-----------------------------------------------------------------------------
(* Tables and reservations.                                                *)

LEMMA RememberStep ==
  ASSUME IsFiniteSet(ignored_response_keys),
         Cardinality(ignored_response_keys) <= MaxInFlight,
         NEW k, Remember(k)
  PROVE  /\ IsFiniteSet(ignored_response_keys')
         /\ Cardinality(ignored_response_keys') <= MaxInFlight
         /\ ignored_response_keys' \subseteq ignored_response_keys \cup {k}
<1>1. MaxInFlight \in Nat
  BY CapsAssumption
<1>2. Cardinality(ignored_response_keys) \in Nat
  BY FS_CardinalityType
<1>3. CASE Cardinality(ignored_response_keys) < MaxInFlight
  <2>1. ignored_response_keys' = ignored_response_keys \cup {k}
    BY <1>3 DEF Remember
  <2>2. /\ IsFiniteSet(ignored_response_keys \cup {k})
        /\ Cardinality(ignored_response_keys \cup {k}) <= Cardinality(ignored_response_keys) + 1
    BY <1>2, FS_AddElement
  <2>3. Cardinality(ignored_response_keys \cup {k}) \in Nat
    BY <2>2, FS_CardinalityType
  <2>4. QED
    BY <1>1, <1>2, <1>3, <2>1, <2>2, <2>3
<1>4. CASE ~(Cardinality(ignored_response_keys) < MaxInFlight)
  BY <1>4 DEF Remember
<1>5. QED
  BY <1>3, <1>4

LEMMA TablesStep ==
  ASSUME TypeOK, TablesFinite, ReservationExact, KeysSeparate, [Next]_vars
  PROVE  TablesFinite' /\ ReservationExact' /\ KeysSeparate'
<1>0. /\ MaxInFlight \in Nat /\ MaxEvents \in Nat
      /\ Len(events) \in Nat /\ reserved_finishes \in Nat
      /\ Cardinality(DOMAIN in_flight) \in Nat
      /\ Cardinality(ignored_response_keys) \in Nat
  BY CapsAssumption, LenProperties, FS_CardinalityType DEF TypeOK, TablesFinite
<1>1. ASSUME NEW k \in Keys, NEW p \in Payloads, StartsCall(k, p)
      PROVE  TablesFinite' /\ ReservationExact' /\ KeysSeparate'
  <2>1. DOMAIN in_flight' = DOMAIN in_flight \cup {k} /\ k \notin DOMAIN in_flight
    BY <1>1 DEF StartsCall, Register
  <2>2. /\ IsFiniteSet(DOMAIN in_flight')
        /\ Cardinality(DOMAIN in_flight') = Cardinality(DOMAIN in_flight) + 1
    BY <2>1, FS_AddElement DEF TablesFinite
  <2>3. Len(events') = Len(events) + 1
    BY <1>1, StartedType, AppendEvent DEF StartsCall, TypeOK
  <2>4. /\ Cardinality(DOMAIN in_flight) < MaxInFlight
        /\ Len(events) + reserved_finishes + 3 <= MaxEvents
    BY <1>0, <1>1 DEF StartsCall, AtCap
  <2>5. reserved_finishes' = reserved_finishes + 1 /\ UNCHANGED ignored_response_keys
    BY <1>1 DEF StartsCall
  <2>6. TablesFinite'
    BY <2>2, <2>5 DEF TablesFinite
  <2>7. ReservationExact'
    BY <1>0, <2>2, <2>3, <2>4, <2>5 DEF ReservationExact
  <2>8. KeysSeparate'
    <3>1. DOMAIN in_flight' \cap ignored_response_keys' = {}
      BY <1>1, <2>1, <2>5 DEF KeysSeparate, StartsCall
    <3>2. Cardinality(DOMAIN in_flight') <= MaxInFlight
      BY <1>0, <2>2, <2>4
    <3>3. QED
      BY <2>5, <3>1, <3>2 DEF KeysSeparate
  <2>9. QED
    BY <2>6, <2>7, <2>8
<1>2. ASSUME NEW k \in Keys, NEW o \in Outcomes, NEW p \in Payloads, FinishesCall(k, o, p)
      PROVE  TablesFinite' /\ ReservationExact' /\ KeysSeparate'
  <2>1. DOMAIN in_flight' = DOMAIN in_flight \ {k} /\ k \in DOMAIN in_flight
    BY <1>2 DEF FinishesCall, Finish, Restrict
  <2>2. /\ IsFiniteSet(DOMAIN in_flight')
        /\ Cardinality(DOMAIN in_flight') = Cardinality(DOMAIN in_flight) - 1
    BY <2>1, FS_RemoveElement DEF TablesFinite
  <2>3. Len(events') = Len(events) + 1
    BY <1>2, FinishedType, AppendEvent DEF FinishesCall, Finish, TypeOK
  <2>4. reserved_finishes' = reserved_finishes - 1
    BY <1>2 DEF FinishesCall, Finish
  <2>5. /\ IsFiniteSet(ignored_response_keys')
        /\ Cardinality(ignored_response_keys') <= MaxInFlight
        /\ ignored_response_keys' \subseteq ignored_response_keys \cup {k}
    BY <1>2, RememberStep DEF FinishesCall, TablesFinite, KeysSeparate
  <2>6. TablesFinite'
    BY <2>2, <2>5 DEF TablesFinite
  <2>7. ReservationExact'
    BY <1>0, <2>2, <2>3, <2>4 DEF ReservationExact
  <2>8. KeysSeparate'
    <3>1. DOMAIN in_flight' \cap ignored_response_keys' = {}
      BY <2>1, <2>5 DEF KeysSeparate
    <3>2. Cardinality(DOMAIN in_flight') <= MaxInFlight
      BY <1>0, <2>2 DEF KeysSeparate
    <3>3. QED
      BY <2>5, <3>1, <3>2 DEF KeysSeparate
  <2>9. QED
    BY <2>6, <2>7, <2>8
<1>3. ASSUME KeepsCalls
      PROVE  TablesFinite' /\ ReservationExact' /\ KeysSeparate'
  <2>1. UNCHANGED <<events, in_flight, reserved_finishes>>
    BY <1>3 DEF KeepsCalls
  <2>2. CASE ignored_response_keys' \subseteq ignored_response_keys
    <3>1. /\ IsFiniteSet(ignored_response_keys')
          /\ Cardinality(ignored_response_keys') <= Cardinality(ignored_response_keys)
      BY <2>2, FS_Subset DEF TablesFinite
    <3>2. Cardinality(ignored_response_keys') \in Nat
      BY <3>1, FS_CardinalityType
    <3>3. Cardinality(ignored_response_keys') <= MaxInFlight
      BY <1>0, <3>1, <3>2 DEF KeysSeparate
    <3>4. QED
      BY <2>1, <2>2, <3>1, <3>3 DEF TablesFinite, ReservationExact, KeysSeparate
  <2>3. ASSUME NEW k \in Keys \ DOMAIN in_flight, Remember(k)
        PROVE  TablesFinite' /\ ReservationExact' /\ KeysSeparate'
    <3>1. /\ IsFiniteSet(ignored_response_keys')
          /\ Cardinality(ignored_response_keys') <= MaxInFlight
          /\ ignored_response_keys' \subseteq ignored_response_keys \cup {k}
      BY <2>3, RememberStep DEF TablesFinite, KeysSeparate
    <3>2. QED
      BY <2>1, <2>3, <3>1 DEF TablesFinite, ReservationExact, KeysSeparate
  <2>4. QED
    BY <1>3, <2>2, <2>3 DEF KeepsCalls
<1>4. QED
  BY <1>1, <1>2, <1>3, StepMeans

-----------------------------------------------------------------------------
(* The calls in the trace.                                                 *)

\* A started event adds one start and no finish.
LEMMA StartRecorded ==
  ASSUME TypeOK, NEW e \in Event, e.type = "tool.call.started",
         events' = Append(events, e)
  PROVE  /\ StartsAt' = StartsAt \cup {Len(events) + 1}
         /\ FinishesAt' = FinishesAt
         /\ StartedCalls' = StartedCalls \cup {e.call_id}
         /\ FinishedCalls' = FinishedCalls
<1>1. events \in Seq(Event)
  BY DEF TypeOK
<1>2. /\ DOMAIN events' = 1 .. Len(events) + 1 /\ DOMAIN events = 1 .. Len(events)
      /\ \A i \in 1 .. Len(events) : events'[i] = events[i]
      /\ events'[Len(events) + 1] = e
      /\ Len(events) \in Nat
  BY <1>1, AppendEvent
<1>3. 1 .. Len(events) + 1 = 1 .. Len(events) \cup {Len(events) + 1}
  BY <1>2
<1>4. StartsAt' = StartsAt \cup {Len(events) + 1}
  BY <1>2, <1>3 DEF StartsAt
<1>5. FinishesAt' = FinishesAt
  BY <1>2, <1>3 DEF FinishesAt
<1>6. StartsAt \subseteq 1 .. Len(events) /\ FinishesAt \subseteq 1 .. Len(events)
  BY <1>2 DEF StartsAt, FinishesAt
<1>7. StartedCalls' = StartedCalls \cup {e.call_id}
  BY <1>2, <1>4, <1>6 DEF StartedCalls
<1>8. FinishedCalls' = FinishedCalls
  BY <1>2, <1>5, <1>6 DEF FinishedCalls
<1>9. QED
  BY <1>4, <1>5, <1>7, <1>8

\* A finished event adds one finish and no start.
LEMMA FinishRecorded ==
  ASSUME TypeOK, NEW e \in Event, e.type = "tool.call.finished",
         events' = Append(events, e)
  PROVE  /\ StartsAt' = StartsAt
         /\ FinishesAt' = FinishesAt \cup {Len(events) + 1}
         /\ StartedCalls' = StartedCalls
         /\ FinishedCalls' = FinishedCalls \cup {e.call_id}
<1>1. events \in Seq(Event)
  BY DEF TypeOK
<1>2. /\ DOMAIN events' = 1 .. Len(events) + 1 /\ DOMAIN events = 1 .. Len(events)
      /\ \A i \in 1 .. Len(events) : events'[i] = events[i]
      /\ events'[Len(events) + 1] = e
      /\ Len(events) \in Nat
  BY <1>1, AppendEvent
<1>3. 1 .. Len(events) + 1 = 1 .. Len(events) \cup {Len(events) + 1}
  BY <1>2
<1>4. StartsAt' = StartsAt
  BY <1>2, <1>3 DEF StartsAt
<1>5. FinishesAt' = FinishesAt \cup {Len(events) + 1}
  BY <1>2, <1>3 DEF FinishesAt
<1>6. StartsAt \subseteq 1 .. Len(events) /\ FinishesAt \subseteq 1 .. Len(events)
  BY <1>2 DEF StartsAt, FinishesAt
<1>7. StartedCalls' = StartedCalls
  BY <1>2, <1>4, <1>6 DEF StartedCalls
<1>8. FinishedCalls' = FinishedCalls \cup {e.call_id}
  BY <1>2, <1>5, <1>6 DEF FinishedCalls
<1>9. QED
  BY <1>4, <1>5, <1>7, <1>8

\* What the two kinds of appended events say of the calls so far.
LEMMA StartedCallIsNew ==
  ASSUME IInv, NEW k \in Keys, NEW p \in Payloads, StartsCall(k, p)
  PROVE  /\ StartsAt' = StartsAt \cup {Len(events) + 1}
         /\ FinishesAt' = FinishesAt
         /\ StartedCalls' = StartedCalls \cup {next_call}
         /\ FinishedCalls' = FinishedCalls
         /\ events'[Len(events) + 1].call_id = next_call
         /\ \A i \in StartsAt : events[i].call_id \in 1 .. next_call - 1
<1>1. Started(next_call, p) \in Event
  BY StartedType DEF IInv
<1>2. events' = Append(events, Started(next_call, p)) /\ events \in Seq(Event)
  BY DEF StartsCall, IInv, TypeOK
<1>3. Started(next_call, p).type = "tool.call.started"
      /\ Started(next_call, p).call_id = next_call
  BY DEF Started
<1>4. events'[Len(events) + 1] = Started(next_call, p)
  BY <1>1, <1>2, AppendEvent
<1>5. \A i \in StartsAt : events[i].call_id \in StartedCalls
  BY DEF StartedCalls
<1>6. QED
  BY <1>1, <1>2, <1>3, <1>4, <1>5, StartRecorded DEF IInv, CallsNumbered

LEMMA FinishedCallIsOpen ==
  ASSUME IInv, NEW k \in Keys, NEW o \in Outcomes, NEW p \in Payloads,
         FinishesCall(k, o, p)
  PROVE  /\ StartsAt' = StartsAt
         /\ FinishesAt' = FinishesAt \cup {Len(events) + 1}
         /\ StartedCalls' = StartedCalls
         /\ FinishedCalls' = FinishedCalls \cup {in_flight[k]}
         /\ events'[Len(events) + 1].call_id = in_flight[k]
         /\ in_flight[k] \in StartedCalls \ FinishedCalls
<1>0. k \in DOMAIN in_flight
  BY DEF FinishesCall
<1>1. Finished(in_flight[k], o, p) \in Event
  BY <1>0, FinishedType DEF IInv
<1>2. events' = Append(events, Finished(in_flight[k], o, p)) /\ events \in Seq(Event)
  BY DEF FinishesCall, Finish, IInv, TypeOK
<1>3. Finished(in_flight[k], o, p).type = "tool.call.finished"
      /\ Finished(in_flight[k], o, p).call_id = in_flight[k]
  BY DEF Finished
<1>4. events'[Len(events) + 1] = Finished(in_flight[k], o, p)
  BY <1>1, <1>2, AppendEvent
<1>5. in_flight[k] \in StartedCalls \ FinishedCalls
  BY <1>0 DEF IInv, OpenCallsAreInFlight, Range
<1>6. QED
  BY <1>1, <1>2, <1>3, <1>4, <1>5, FinishRecorded DEF IInv

\* Events already recorded stay where they are.
LEMMA EventsKept ==
  ASSUME IInv,
         \/ \E k \in Keys, p \in Payloads : StartsCall(k, p)
         \/ \E k \in Keys, o \in Outcomes, p \in Payloads : FinishesCall(k, o, p)
  PROVE  /\ Len(events) \in Nat
         /\ Len(events') = Len(events) + 1
         /\ \A i \in 1 .. Len(events) : events'[i] = events[i]
         /\ StartsAt \subseteq 1 .. Len(events)
         /\ FinishesAt \subseteq 1 .. Len(events)
<1>1. events \in Seq(Event)
  BY DEF IInv, TypeOK
<1>2. \E e \in Event : events' = Append(events, e)
  <2>1. ASSUME NEW k \in Keys, NEW p \in Payloads, StartsCall(k, p)
        PROVE  \E e \in Event : events' = Append(events, e)
    BY <2>1, StartedType DEF StartsCall, IInv
  <2>2. ASSUME NEW k \in Keys, NEW o \in Outcomes, NEW p \in Payloads, FinishesCall(k, o, p)
        PROVE  \E e \in Event : events' = Append(events, e)
    BY <2>2, FinishedType DEF FinishesCall, Finish, IInv
  <2>3. QED
    BY <2>1, <2>2
<1>3. QED
  BY <1>1, <1>2, AppendEvent DEF StartsAt, FinishesAt

LEMMA NumberedStep ==
  ASSUME IInv, [Next]_vars
  PROVE  CallsNumbered'
<1>0. next_call \in Nat \ {0}
  BY DEF IInv, TypeOK
<1>1. ASSUME NEW k \in Keys, NEW p \in Payloads, StartsCall(k, p)
      PROVE  CallsNumbered'
  <2>1. next_call' = next_call + 1
    BY <1>1 DEF StartsCall, Register
  <2>2. Len(events) \in Nat /\ Len(events') = Len(events) + 1
    BY <1>1, EventsKept
  <2>3. StartedCalls' = StartedCalls \cup {next_call} /\ FinishedCalls' = FinishedCalls
    BY <1>1, StartedCallIsNew
  <2>4. 1 .. next_call' - 1 = 1 .. next_call - 1 \cup {next_call}
    BY <1>0, <2>1
  <2>5. next_call' <= Len(events')
    BY <1>0, <2>1, <2>2 DEF IInv, CallsNumbered
  <2>6. QED
    BY <2>3, <2>4, <2>5 DEF IInv, CallsNumbered
<1>2. ASSUME NEW k \in Keys, NEW o \in Outcomes, NEW p \in Payloads, FinishesCall(k, o, p)
      PROVE  CallsNumbered'
  <2>1. next_call' = next_call
    BY <1>2 DEF FinishesCall
  <2>2. Len(events) \in Nat /\ Len(events') = Len(events) + 1
    BY <1>2, EventsKept
  <2>3. /\ StartedCalls' = StartedCalls
        /\ FinishedCalls' = FinishedCalls \cup {in_flight[k]}
        /\ in_flight[k] \in StartedCalls
    BY <1>2, FinishedCallIsOpen
  <2>4. next_call' <= Len(events')
    BY <1>0, <2>1, <2>2 DEF IInv, CallsNumbered
  <2>5. QED
    BY <2>1, <2>3, <2>4 DEF IInv, CallsNumbered
<1>3. ASSUME KeepsCalls
      PROVE  CallsNumbered'
  <2>1. events' = events /\ next_call' = next_call
    BY <1>3 DEF KeepsCalls
  <2>2. StartedCalls' = StartedCalls /\ FinishedCalls' = FinishedCalls
    BY <2>1 DEF StartedCalls, FinishedCalls, StartsAt, FinishesAt
  <2>3. QED
    BY <2>1, <2>2 DEF IInv, CallsNumbered
<1>4. QED
  BY <1>1, <1>2, <1>3, StepMeans DEF IInv

LEMMA OpenStep ==
  ASSUME IInv, [Next]_vars
  PROVE  OpenCallsAreInFlight'
<1>0. /\ Range(in_flight) = StartedCalls \ FinishedCalls
      /\ \A k, l \in DOMAIN in_flight : in_flight[k] = in_flight[l] => k = l
      /\ \A k \in DOMAIN in_flight : in_flight[k] \in 1 .. next_call - 1
      /\ next_call \in Nat
  BY DEF IInv, OpenCallsAreInFlight, TypeOK
<1>1. ASSUME NEW k \in Keys, NEW p \in Payloads, StartsCall(k, p)
      PROVE  OpenCallsAreInFlight'
  <2>1. /\ k \notin DOMAIN in_flight
        /\ in_flight' = [x \in DOMAIN in_flight \cup {k} |->
                           IF x = k THEN next_call ELSE in_flight[x]]
    BY <1>1 DEF StartsCall, Register
  <2>2. Range(in_flight') = Range(in_flight) \cup {next_call}
    BY <2>1 DEF Range
  <2>3. next_call \notin FinishedCalls
    BY <1>0 DEF IInv, CallsNumbered
  <2>4. Range(in_flight') = StartedCalls' \ FinishedCalls'
    BY <1>0, <1>1, <2>2, <2>3, StartedCallIsNew
  <2>5. \A x, y \in DOMAIN in_flight' : in_flight'[x] = in_flight'[y] => x = y
    BY <1>0, <2>1
  <2>6. QED
    BY <2>4, <2>5 DEF OpenCallsAreInFlight
<1>2. ASSUME NEW k \in Keys, NEW o \in Outcomes, NEW p \in Payloads, FinishesCall(k, o, p)
      PROVE  OpenCallsAreInFlight'
  <2>1. /\ k \in DOMAIN in_flight
        /\ in_flight' = [x \in DOMAIN in_flight \ {k} |-> in_flight[x]]
    BY <1>2 DEF FinishesCall, Finish, Restrict
  <2>2. Range(in_flight') = Range(in_flight) \ {in_flight[k]}
    BY <1>0, <2>1 DEF Range
  <2>3. Range(in_flight') = StartedCalls' \ FinishedCalls'
    BY <1>0, <1>2, <2>2, FinishedCallIsOpen
  <2>4. \A x, y \in DOMAIN in_flight' : in_flight'[x] = in_flight'[y] => x = y
    BY <1>0, <2>1
  <2>5. QED
    BY <2>3, <2>4 DEF OpenCallsAreInFlight
<1>3. ASSUME KeepsCalls
      PROVE  OpenCallsAreInFlight'
  BY <1>3 DEF KeepsCalls, IInv, OpenCallsAreInFlight, Range, StartedCalls, FinishedCalls,
              StartsAt, FinishesAt
<1>4. QED
  BY <1>1, <1>2, <1>3, StepMeans DEF IInv

LEMMA LifecycleStep ==
  ASSUME IInv, [Next]_vars
  PROVE  LifecycleValid'
<1>0. /\ \A i, j \in StartsAt : events[i].call_id = events[j].call_id => i = j
      /\ \A i, j \in FinishesAt : events[i].call_id = events[j].call_id => i = j
      /\ \A j \in FinishesAt : \E i \in StartsAt :
            i < j /\ events[i].call_id = events[j].call_id
  BY DEF IInv, LifecycleValid
<1>1. ASSUME NEW k \in Keys, NEW p \in Payloads, StartsCall(k, p)
      PROVE  LifecycleValid'
  <2>1. /\ Len(events) \in Nat
        /\ \A i \in 1 .. Len(events) : events'[i] = events[i]
        /\ StartsAt \subseteq 1 .. Len(events)
        /\ FinishesAt \subseteq 1 .. Len(events)
    BY <1>1, EventsKept
  <2>2. /\ StartsAt' = StartsAt \cup {Len(events) + 1}
        /\ FinishesAt' = FinishesAt
        /\ events'[Len(events) + 1].call_id = next_call
        /\ \A i \in StartsAt : events[i].call_id \in 1 .. next_call - 1
    BY <1>1, StartedCallIsNew
  <2>3. next_call \in Nat
    BY DEF IInv, TypeOK
  <2>4. \A i \in StartsAt : events'[i] = events[i] /\ events[i].call_id # next_call
    BY <2>1, <2>2, <2>3
  <2>5. \A i, j \in StartsAt' : events'[i].call_id = events'[j].call_id => i = j
    BY <1>0, <2>2, <2>4
  <2>6. \A i \in FinishesAt : events'[i] = events[i]
    BY <2>1
  <2>7. QED
    BY <1>0, <2>2, <2>4, <2>5, <2>6 DEF LifecycleValid
<1>2. ASSUME NEW k \in Keys, NEW o \in Outcomes, NEW p \in Payloads, FinishesCall(k, o, p)
      PROVE  LifecycleValid'
  <2>1. /\ Len(events) \in Nat
        /\ \A i \in 1 .. Len(events) : events'[i] = events[i]
        /\ StartsAt \subseteq 1 .. Len(events)
        /\ FinishesAt \subseteq 1 .. Len(events)
    BY <1>2, EventsKept
  <2>2. /\ StartsAt' = StartsAt
        /\ FinishesAt' = FinishesAt \cup {Len(events) + 1}
        /\ events'[Len(events) + 1].call_id = in_flight[k]
        /\ in_flight[k] \in StartedCalls \ FinishedCalls
    BY <1>2, FinishedCallIsOpen
  <2>3. \A i \in StartsAt \cup FinishesAt : events'[i] = events[i]
    BY <2>1
  <2>4. \A i \in FinishesAt : events[i].call_id # in_flight[k]
    BY <2>2 DEF FinishedCalls
  <2>5. PICK i \in StartsAt : events[i].call_id = in_flight[k]
    BY <2>2 DEF StartedCalls
  <2>6. i < Len(events) + 1
    BY <2>1
  <2>7. \A h, j \in FinishesAt' : events'[h].call_id = events'[j].call_id => h = j
    BY <1>0, <2>2, <2>3, <2>4
  <2>8. \A j \in FinishesAt' : \E h \in StartsAt' :
          h < j /\ events'[h].call_id = events'[j].call_id
    BY <1>0, <2>2, <2>3, <2>5, <2>6
  <2>9. QED
    BY <1>0, <2>2, <2>3, <2>7, <2>8 DEF LifecycleValid
<1>3. ASSUME KeepsCalls
      PROVE  LifecycleValid'
  BY <1>3 DEF KeepsCalls, IInv, LifecycleValid, StartsAt, FinishesAt
<1>4. QED
  BY <1>1, <1>2, <1>3, StepMeans DEF IInv

-----------------------------------------------------------------------------
(* Invariance.                                                             *)

LEMMA InitInv == Init => IInv
<1> SUFFICES ASSUME Init PROVE IInv
  OBVIOUS
<1>1. CommandStarted \in Event
  BY DEF CommandStarted, Event, EventTypes, CaptureStates
<1>2. /\ events = <<CommandStarted>>
      /\ events \in Seq(Event) /\ Len(events) = 1 /\ DOMAIN events = {1}
      /\ events[1].type = "command.started"
  BY <1>1 DEF Init, CommandStarted
<1>3. StartsAt = {} /\ FinishesAt = {}
  BY <1>2 DEF StartsAt, FinishesAt
<1>4. StartedCalls = {} /\ FinishedCalls = {}
  BY <1>3 DEF StartedCalls, FinishedCalls
<1>5. DOMAIN in_flight = {} /\ ignored_response_keys = {} /\ next_call = 1
  BY DEF Init
<1>6. TypeOK
  <2>1. capture_bytes \in 0 .. MaxCaptureTotal /\ messages \in 0 .. MaxMessages
    BY CapsAssumption, BoundsAssumption DEF Init
  <2>2. capture_omitted \in [Causes -> Nat]
    BY DEF Init
  <2>3. /\ reserved_finishes \in Nat /\ unobserved_messages \in Nat
        /\ unmatched_results \in Nat /\ events_dropped \in Nat
        /\ next_call \in Nat \ {0}
    BY DEF Init
  <2>4. reasons \subseteq Reasons /\ sealed \in BOOLEAN
    BY Zenon DEF Init
  <2>5. /\ DOMAIN in_flight \subseteq Keys
        /\ \A k \in DOMAIN in_flight : in_flight[k] \in 1 .. next_call - 1
        /\ ignored_response_keys \subseteq Keys
    BY <1>5
  <2>6. QED
    BY <1>2, <2>1, <2>2, <2>3, <2>4, <2>5 DEF TypeOK
<1>7. TablesFinite
  BY <1>5, FS_EmptySet DEF TablesFinite
<1>8. ReservationExact /\ KeysSeparate
  <2>1. MaxInFlight \in Nat /\ MaxEvents \in Nat \ {0, 1}
    BY CapsAssumption
  <2>2. Cardinality(DOMAIN in_flight) = 0 /\ Cardinality(ignored_response_keys) = 0
    BY <1>5, FS_EmptySet
  <2>3. reserved_finishes = 0
    BY DEF Init
  <2>4. QED
    BY <1>2, <1>5, <2>1, <2>2, <2>3 DEF ReservationExact, KeysSeparate
<1>9. CallsNumbered
  BY <1>2, <1>4, <1>5 DEF CallsNumbered
<1>10. LifecycleValid
  BY <1>3 DEF LifecycleValid
<1>11. OpenCallsAreInFlight
  BY <1>4, <1>5 DEF OpenCallsAreInFlight, Range
<1>12. QED
  BY <1>6, <1>7, <1>8, <1>9, <1>10, <1>11 DEF IInv

LEMMA Invariance == Spec => []IInv
<1>1. IInv /\ [Next]_vars => IInv'
  BY TypeStep, TablesStep, NumberedStep, OpenStep, LifecycleStep DEF IInv
<1>2. QED
  BY InitInv, <1>1, PTL DEF Spec

\* Counters stay within their ranges and the captured bytes within
\* MAX_CAPTURE_TOTAL_BYTES, whatever is sent and however captures fail.
THEOREM TypeCorrect == Spec => []TypeOK
BY Invariance, PTL DEF IInv

\* Every open call has its reserved slot and the trace stays below
\* MAX_EVENTS, so that no response and no command.finished is refused.
THEOREM ReservationsHold == Spec => []ReservationExact
BY Invariance, PTL DEF IInv

\* No key is both open and awaiting a response to discard, and neither
\* table outgrows MAX_IN_FLIGHT.
THEOREM TablesBounded == Spec => []KeysSeparate
BY Invariance, PTL DEF IInv

\* The trace validator accepts the calls of every trace the observer
\* produces.
THEOREM LifecycleAlwaysValid == Spec => []LifecycleValid
BY Invariance, PTL DEF IInv

\* The correlation table holds exactly the calls started and not finished.
THEOREM TableExact == Spec => []OpenCallsAreInFlight
BY Invariance, PTL DEF IInv

(* The table of open calls, the table of responses to discard and the      *)
(* reserved slots agree with the events and stay within their limits.      *)
THEOREM TablesAreExact == Spec => []TablesExact
<1>1. IInv => TablesExact BY DEF IInv, TablesExact
<1> QED BY <1>1, Invariance, PTL

-----------------------------------------------------------------------------
(* Steps after the seal.                                                   *)

\* Nothing that arrives after the seal, and neither record of final
\* trimming, changes a call, a counted loss or the captured bytes.
THEOREM SealIsFinal == Spec => SealedIsFinal
<1> USE DEF calls, losses, capturing
<1>1. ASSUME sealed, [Next]_vars
      PROVE  /\ UNCHANGED <<calls, capture_bytes, sealed,
                            unobserved_messages, unmatched_results>>
             /\ reasons' \ reasons \subseteq {"events_dropped"}
  <2>1. CASE UNCHANGED vars
    BY <2>1 DEF vars
  <2>2. CASE ObserveAfterSeal \/ RecordFinalSizeOmission
    BY <2>2 DEF ObserveAfterSeal, RecordFinalSizeOmission
  <2>3. CASE \E n \in 0 .. Len(events) - 1 : RecordDroppedEvents(n)
    BY <2>3 DEF RecordDroppedEvents
  <2>4. QED
    BY <1>1, <2>1, <2>2, <2>3
    DEF Next, MarkUnobserved, MarkIncomplete, ObserveUnreadable, ObserveOther,
        InvalidToolCall, RefuseDuplicate, RefuseAtCap, StartToolCall,
        CancelToolCall, ObserveResponse, DiscardResponse, Seal
<1>2. QED
  BY <1>1, PTL DEF Spec, SealedIsFinal

-----------------------------------------------------------------------------
(* The observer implements ToolCallTrace.                                  *)

LEMMA ClosedNames == Trace!FinishedCalls = FinishedCalls
<1>1. \A i \in FinishesAt :
        [call |-> events[i].call_id, outcome |-> events[i].outcome].call = events[i].call_id
  OBVIOUS
<1>2. ASSUME NEW x \in Trace!FinishedCalls
      PROVE  x \in FinishedCalls
  <2>1. PICK c \in ClosedCalls : x = c.call
    BY <1>2 DEF Trace!FinishedCalls
  <2>2. PICK i \in FinishesAt :
          c = [call |-> events[i].call_id, outcome |-> events[i].outcome]
    BY <2>1 DEF ClosedCalls
  <2>3. QED
    BY <1>1, <2>1, <2>2 DEF FinishedCalls
<1>3. ASSUME NEW x \in FinishedCalls
      PROVE  x \in Trace!FinishedCalls
  <2>1. PICK i \in FinishesAt : x = events[i].call_id
    BY <1>3 DEF FinishedCalls
  <2>2. [call |-> events[i].call_id, outcome |-> events[i].outcome] \in ClosedCalls
    BY <2>1 DEF ClosedCalls
  <2>3. QED
    BY <1>1, <2>1, <2>2 DEF Trace!FinishedCalls
<1>4. QED
  BY <1>2, <1>3

\* A finished event closes one call and no other event closes any.
LEMMA ClosedRecorded ==
  ASSUME TypeOK, NEW e \in Event, events' = Append(events, e)
  PROVE  /\ FinishesAt' = FinishesAt => ClosedCalls' = ClosedCalls
         /\ FinishesAt' = FinishesAt \cup {Len(events) + 1} =>
              ClosedCalls' = ClosedCalls \cup {[call |-> e.call_id, outcome |-> e.outcome]}
<1>0. events \in Seq(Event)
  BY DEF TypeOK
<1>1. /\ \A i \in FinishesAt : events'[i] = events[i]
      /\ events'[Len(events) + 1] = e
  <2>1. /\ DOMAIN events = 1 .. Len(events)
        /\ \A i \in 1 .. Len(events) : events'[i] = events[i]
        /\ events'[Len(events) + 1] = e
    BY <1>0, AppendEvent
  <2>2. FinishesAt \subseteq 1 .. Len(events)
    BY <2>1 DEF FinishesAt
  <2>3. QED
    BY <2>1, <2>2
<1>2. ASSUME FinishesAt' = FinishesAt
      PROVE  ClosedCalls' = ClosedCalls
  BY <1>1, <1>2 DEF ClosedCalls
<1>3. ASSUME FinishesAt' = FinishesAt \cup {Len(events) + 1}
      PROVE  ClosedCalls' = ClosedCalls \cup {[call |-> e.call_id, outcome |-> e.outcome]}
  BY <1>1, <1>3 DEF ClosedCalls
<1>4. QED
  BY <1>2, <1>3

\* Nothing forgives a loss, and only Seal changes `sealed'.
LEMMA FlagsStep ==
  ASSUME [Next]_vars
  PROVE  /\ reasons \subseteq reasons'
         /\ sealed' = sealed \/ (sealed' = TRUE /\ reasons' = reasons)
<1> USE DEF calls, losses, capturing
<1>1. CASE UNCHANGED vars
  BY <1>1 DEF vars
<1>2. CASE Next
  BY <1>2
  DEF Next, MarkUnobserved, MarkIncomplete, ObserveUnreadable, ObserveOther,
      ObserveAfterSeal, InvalidToolCall, RefuseDuplicate, RefuseAtCap, StartToolCall,
      CancelToolCall, ObserveResponse, DiscardResponse, Seal, Unobserved,
      RecordFinalSizeOmission, RecordDroppedEvents
<1>3. QED
  BY <1>1, <1>2

LEMMA TraceInit == Init => Trace!Init
<1> SUFFICES ASSUME Init PROVE Trace!Init
  OBVIOUS
<1>1. Range(in_flight) = {}
  BY DEF Init, Range
<1>2. FinishesAt = {}
  BY DEF Init, FinishesAt, CommandStarted
<1>3. QED
  BY <1>1, <1>2 DEF Init, Trace!Init, ClosedCalls

LEMMA TraceStep ==
  ASSUME IInv, [Next]_vars
  PROVE  [Trace!Next]_(Trace!vars)
<1>0. /\ Range(in_flight) = StartedCalls \ FinishedCalls
      /\ StartedCalls = 1 .. next_call - 1
      /\ FinishedCalls \subseteq StartedCalls
      /\ next_call \in Nat \ {0} /\ next_call <= Len(events)
      /\ TypeOK
  BY DEF IInv, OpenCallsAreInFlight, CallsNumbered, TypeOK
<1>1. Range(in_flight') = StartedCalls' \ FinishedCalls'
  BY OpenStep DEF OpenCallsAreInFlight
<1>2. next_call \in 1 .. MaxEvents
  <2>1. Len(events) \in Nat /\ MaxEvents \in Nat /\ reserved_finishes \in Nat
    BY CapsAssumption DEF IInv, TypeOK
  <2>2. Len(events) + reserved_finishes < MaxEvents
    BY DEF IInv, ReservationExact
  <2>3. QED
    BY <1>0, <2>1, <2>2
<1>3. ASSUME NEW k \in Keys, NEW p \in Payloads, StartsCall(k, p)
      PROVE  Trace!Next
  <2>1. /\ FinishesAt' = FinishesAt /\ FinishedCalls' = FinishedCalls
        /\ StartedCalls' = StartedCalls \cup {next_call}
    BY <1>3, StartedCallIsNew
  <2>2. next_call \notin StartedCalls
    BY <1>0
  <2>3. Range(in_flight') = Range(in_flight) \cup {next_call}
    BY <1>0, <1>1, <2>1, <2>2
  <2>4. ClosedCalls' = ClosedCalls
    <3>1. Started(next_call, p) \in Event
      BY <1>0, StartedType
    <3>2. events' = Append(events, Started(next_call, p))
      BY <1>3 DEF StartsCall
    <3>3. QED
      BY <1>0, <2>1, <3>1, <3>2, ClosedRecorded
  <2>5. ~sealed /\ sealed' = sealed /\ reasons' = reasons
    BY <1>3 DEF StartsCall, losses
  <2>6. next_call \notin Range(in_flight) \cup Trace!FinishedCalls
    BY <1>0, <2>2, ClosedNames
  <2>7. Trace!Start(next_call)
    BY <2>3, <2>4, <2>5, <2>6 DEF Trace!Start
  <2>8. QED
    BY <1>2, <2>7 DEF Trace!Next
<1>4. ASSUME NEW k \in Keys, NEW o \in Outcomes, NEW p \in Payloads, FinishesCall(k, o, p)
      PROVE  Trace!Next
  <2>1. /\ FinishesAt' = FinishesAt \cup {Len(events) + 1}
        /\ StartedCalls' = StartedCalls
        /\ FinishedCalls' = FinishedCalls \cup {in_flight[k]}
        /\ in_flight[k] \in StartedCalls \ FinishedCalls
    BY <1>4, FinishedCallIsOpen
  <2>2. in_flight[k] \in Range(in_flight)
    BY <1>0, <2>1
  <2>3. Range(in_flight') = Range(in_flight) \ {in_flight[k]}
    BY <1>0, <1>1, <2>1
  <2>4. ClosedCalls' = ClosedCalls \cup {[call |-> in_flight[k], outcome |-> o]}
    <3>1. Finished(in_flight[k], o, p) \in Event
      BY <1>0, <1>4, FinishedType DEF FinishesCall
    <3>2. events' = Append(events, Finished(in_flight[k], o, p))
      BY <1>4 DEF FinishesCall, Finish
    <3>3. /\ Finished(in_flight[k], o, p).call_id = in_flight[k]
          /\ Finished(in_flight[k], o, p).outcome = o
      BY DEF Finished
    <3>4. QED
      BY <1>0, <2>1, <3>1, <3>2, <3>3, ClosedRecorded
  <2>5. ~sealed /\ sealed' = sealed /\ reasons' = reasons
    BY <1>4 DEF FinishesCall, losses
  <2>6. Trace!Finish(in_flight[k], o)
    BY <2>2, <2>3, <2>4, <2>5 DEF Trace!Finish
  <2>7. in_flight[k] \in 1 .. MaxEvents
    <3>1. in_flight[k] \in 1 .. next_call - 1
      BY <1>0, <2>1
    <3>2. QED
      BY <1>0, <1>2, <3>1, CapsAssumption
  <2>8. QED
    BY <2>6, <2>7 DEF Trace!Next
<1>5. ASSUME KeepsCalls
      PROVE  [Trace!Next]_(Trace!vars)
  <2>1. Range(in_flight') = Range(in_flight) /\ ClosedCalls' = ClosedCalls
    BY <1>5 DEF KeepsCalls, ClosedCalls, FinishesAt
  <2>2. CASE sealed' = sealed
    <3>1. CASE reasons' = {}
      <4>1. reasons = {}
        BY <3>1, FlagsStep
      <4>2. QED
        BY <2>1, <2>2, <3>1, <4>1 DEF Trace!vars
    <3>2. CASE reasons' # {}
      <4>1. Trace!Miss
        BY <2>1, <2>2, <3>2 DEF Trace!Miss
      <4>2. QED
        BY <4>1 DEF Trace!Next
    <3>3. QED
      BY <3>1, <3>2
  <2>3. CASE sealed' = TRUE /\ reasons' = reasons
    <3>1. Trace!Seal
      BY <2>1, <2>3 DEF Trace!Seal
    <3>2. QED
      BY <3>1 DEF Trace!Next
  <2>4. QED
    BY <2>2, <2>3, FlagsStep
<1>6. QED
  BY <1>0, <1>3, <1>4, <1>5, StepMeans

\* However ids repeat and whenever the caps, cancellations and the seal
\* intervene, the observer behaves as a trace of tool calls promises: calls
\* start once, finish once after their start, and a gap is never retracted.
THEOREM ObserverImplementsTrace == Spec => ImplementsToolCallTrace
<1>1. IInv /\ [Next]_vars => [Trace!Next]_(Trace!vars)
  BY TraceStep
<1>2. QED
  BY TraceInit, <1>1, Invariance, PTL DEF Spec, ImplementsToolCallTrace, Trace!Spec

-----------------------------------------------------------------------------
(* The ledger of captures.                                                 *)

OmittedAt == {i \in StartsAt \cup FinishesAt : events[i].capture = "omitted"}

\* The charge after each event, as a sum that is carried along the events.
RunningCharge ==
  \E charge \in [0 .. Len(events) -> Nat] :
    /\ charge[0] = 0
    /\ \A i \in 1 .. Len(events) : charge[i] = charge[i - 1] + events[i].bytes
    /\ charge[Len(events)] = capture_bytes

\* A capture is stored with its bytes or counted under one cause.
LEMMA VerdictCounted ==
  ASSUME TypeOK, NEW p \in Payloads, Capture(p)
  PROVE  LET sum == capture_omitted["policy"] + capture_omitted["budget"]
                      + capture_omitted["unsafe"]
         IN sum' = sum + IF CaptureState(p) = "omitted" THEN 1 ELSE 0
<1>1. CaptureVerdict(p) \in {"policy", "unsafe", "budget", "redacted", "captured"}
  BY DEF CaptureVerdict
<1>2. capture_omitted \in [Causes -> Nat]
  BY DEF TypeOK
<1>3. CASE Stored(p)
  BY <1>1, <1>2, <1>3 DEF Capture, Stored, CaptureState, CaptureStates, Causes
<1>4. CASE ~Stored(p)
  <2>1. /\ CaptureVerdict(p) \in {"policy", "unsafe", "budget"}
        /\ CaptureState(p) = "omitted"
        /\ capture_omitted' = [capture_omitted EXCEPT ![CaptureVerdict(p)] = @ + 1]
    BY <1>1, <1>4 DEF Capture, Stored, CaptureState, CaptureStates
  <2>2. QED
    BY <1>2, <2>1 DEF Causes
<1>5. QED
  BY <1>3, <1>4

LEMMA CaptureRecorded ==
  ASSUME TypeOK, OmissionsCounted, RunningCharge,
         NEW e \in Event, NEW p \in Payloads, Capture(p),
         events' = Append(events, e),
         e.type \in {"tool.call.started", "tool.call.finished"},
         e.capture = CaptureState(p), e.bytes = StoredBytes(p)
  PROVE  OmissionsCounted' /\ RunningCharge'
<1> DEFINE n == Len(events)
<1>1. /\ n \in Nat /\ Len(events') = n + 1 /\ events' \in Seq(Event)
      /\ DOMAIN events' = 1 .. n + 1 /\ DOMAIN events = 1 .. n
      /\ \A i \in 1 .. n : events'[i] = events[i]
      /\ events'[n + 1] = e
  BY AppendEvent DEF TypeOK
<1>2. 1 .. n + 1 = 1 .. n \cup {n + 1}
  BY <1>1
<1>3. StartsAt \cup FinishesAt \subseteq 1 .. n
  BY <1>1 DEF StartsAt, FinishesAt
<1>4. StartsAt' \cup FinishesAt' = StartsAt \cup FinishesAt \cup {n + 1}
  BY <1>1, StartRecorded, FinishRecorded
<1>5. /\ OmittedAt' = OmittedAt \cup (IF e.capture = "omitted" THEN {n + 1} ELSE {})
      /\ n + 1 \notin OmittedAt
      /\ OmittedAt \subseteq 1 .. n
  BY <1>1, <1>3, <1>4 DEF OmittedAt
<1>6. IsFiniteSet(OmittedAt)
  <2>1. IsFiniteSet(1 .. n)
    BY <1>1, FS_Interval
  <2>2. QED
    BY <1>5, <2>1, FS_Subset
<1>7. /\ Cardinality(OmittedAt) \in Nat
      /\ Cardinality(OmittedAt \cup {n + 1}) = Cardinality(OmittedAt) + 1
  BY <1>5, <1>6, FS_CardinalityType, FS_AddElement
<1>8. Cardinality(OmittedAt') =
        Cardinality(OmittedAt) + IF e.capture = "omitted" THEN 1 ELSE 0
  <2>1. CASE e.capture = "omitted"
    <3>1. OmittedAt' = OmittedAt \cup {n + 1}
      BY <1>5, <2>1
    <3>2. QED
      BY <1>7, <2>1, <3>1
  <2>2. CASE e.capture # "omitted"
    <3>1. OmittedAt' = OmittedAt
      BY <1>5, <2>2
    <3>2. QED
      BY <1>7, <2>2, <3>1
  <2>3. QED
    BY <2>1, <2>2
<1>9. OmissionsCounted'
  BY <1>8, VerdictCounted DEF OmissionsCounted, OmittedAt
<1>10. PICK charge \in [0 .. n -> Nat] :
         /\ charge[0] = 0
         /\ \A i \in 1 .. n : charge[i] = charge[i - 1] + events[i].bytes
         /\ charge[n] = capture_bytes
  BY DEF RunningCharge
<1>11. RunningCharge'
  <2> DEFINE new == [i \in 0 .. n + 1 |-> IF i = n + 1 THEN charge[n] + e.bytes
                                          ELSE charge[i]]
  <2>1. e.bytes \in Nat /\ charge[n] \in Nat
    <3>1. e.bytes \in Nat
      BY DEF Event
    <3>2. n \in 0 .. n
      BY <1>1
    <3>3. QED
      BY <1>10, <3>1, <3>2
  <2>2. new \in [0 .. n + 1 -> Nat] /\ new[0] = 0
    BY <1>1, <1>10, <2>1
  <2>3. new[n + 1] = capture_bytes'
    BY <1>1, <1>10 DEF Capture
  <2>4. \A i \in 1 .. n + 1 : new[i] = new[i - 1] + events'[i].bytes
    BY <1>1, <1>10
  <2>5. QED
    BY <1>1, <2>2, <2>3, <2>4 DEF RunningCharge
<1>12. QED
  BY <1>9, <1>11

\* A step that adds no event leaves the ledger alone; final trimming counts
\* under a cause of its own.
LEMMA CapturesKept ==
  ASSUME TypeOK, [Next]_vars
  PROVE  \/ Len(events') # Len(events)
         \/ /\ UNCHANGED <<events, capture_bytes>>
            /\ \A c \in {"policy", "budget", "unsafe"} :
                 capture_omitted'[c] = capture_omitted[c]
<1> USE DEF calls, capturing
<1>1. ASSUME NEW id \in Ids, NEW p \in Payloads, StartToolCall(id, p)
      PROVE  Len(events') # Len(events)
  BY <1>1, StartedType, AppendEvent DEF StartToolCall, TypeOK
<1>2. ASSUME NEW k \in DOMAIN in_flight, NEW r \in Outcomes, NEW p \in Payloads,
             Finish(k, r, p)
      PROVE  Len(events') # Len(events)
  BY <1>2, FinishedType, AppendEvent DEF Finish, TypeOK
<1>3. ASSUME NEW id \in Ids, CancelToolCall(id)
      PROVE  Len(events') # Len(events)
  BY <1>2, <1>3, PayloadsAssumption DEF CancelToolCall, Outcomes
<1>4. ASSUME NEW id \in Ids, NEW r \in {"succeeded", "failed"}, NEW p \in Payloads,
             ObserveResponse(id, r, p)
      PROVE  Len(events') # Len(events)
  BY <1>2, <1>4 DEF ObserveResponse, Outcomes
<1>5. ASSUME UNCHANGED <<events, capturing>>
      PROVE  /\ UNCHANGED <<events, capture_bytes>>
             /\ \A c \in {"policy", "budget", "unsafe"} :
                  capture_omitted'[c] = capture_omitted[c]
  BY <1>5
<1>6. ASSUME RecordFinalSizeOmission
      PROVE  /\ UNCHANGED <<events, capture_bytes>>
             /\ \A c \in {"policy", "budget", "unsafe"} :
                  capture_omitted'[c] = capture_omitted[c]
  BY <1>6 DEF RecordFinalSizeOmission, TypeOK, Causes
<1>7. CASE UNCHANGED vars
  BY <1>5, <1>7 DEF vars
<1>8. CASE Next
  BY <1>1, <1>3, <1>4, <1>5, <1>6, <1>8
  DEF Next, MarkUnobserved, MarkIncomplete, ObserveUnreadable, ObserveOther,
      ObserveAfterSeal, InvalidToolCall, RefuseDuplicate, RefuseAtCap, DiscardResponse,
      Seal, RecordDroppedEvents
<1>9. QED
  BY <1>7, <1>8

LEMMA LedgerStep ==
  ASSUME IInv, OmissionsCounted, RunningCharge, [Next]_vars
  PROVE  OmissionsCounted' /\ RunningCharge'
<1> USE DEF IInv
<1>1. ASSUME NEW k \in Keys, NEW p \in Payloads, StartsCall(k, p)
      PROVE  OmissionsCounted' /\ RunningCharge'
  <2>1. PICK e \in Event : e = Started(next_call, p)
    BY StartedType
  <2>2. /\ events' = Append(events, e) /\ Capture(p)
        /\ e.type = "tool.call.started"
        /\ e.capture = CaptureState(p) /\ e.bytes = StoredBytes(p)
    BY <1>1, <2>1 DEF StartsCall, Started
  <2>3. QED
    BY <2>2, CaptureRecorded
<1>2. ASSUME NEW k \in Keys, NEW o \in Outcomes, NEW p \in Payloads, FinishesCall(k, o, p)
      PROVE  OmissionsCounted' /\ RunningCharge'
  <2>1. PICK e \in Event : e = Finished(in_flight[k], o, p)
    BY <1>2, FinishedType DEF FinishesCall
  <2>2. /\ events' = Append(events, e) /\ Capture(p)
        /\ e.type = "tool.call.finished"
        /\ e.capture = CaptureState(p) /\ e.bytes = StoredBytes(p)
    BY <1>2, <2>1 DEF FinishesCall, Finish, Finished
  <2>3. QED
    BY <2>2, CaptureRecorded
<1>3. ASSUME KeepsCalls
      PROVE  OmissionsCounted' /\ RunningCharge'
  <2>1. /\ UNCHANGED <<events, capture_bytes>>
        /\ \A c \in {"policy", "budget", "unsafe"} :
             capture_omitted'[c] = capture_omitted[c]
    BY <1>3, CapturesKept DEF KeepsCalls
  <2>2. UNCHANGED <<StartsAt, FinishesAt>>
    BY <2>1 DEF StartsAt, FinishesAt
  <2>3. OmissionsCounted'
    BY <2>1, <2>2 DEF OmissionsCounted
  <2>4. RunningCharge'
    BY <2>1 DEF RunningCharge
  <2>5. QED
    BY <2>3, <2>4
<1>4. QED
  BY <1>1, <1>2, <1>3, StepMeans

LEMMA LedgerInit == Init => OmissionsCounted /\ RunningCharge
<1> SUFFICES ASSUME Init PROVE OmissionsCounted /\ RunningCharge
  OBVIOUS
<1>1. /\ Len(events) = 1 /\ events[1] = CommandStarted /\ DOMAIN events = {1}
      /\ capture_bytes = 0
      /\ \A c \in Causes : capture_omitted[c] = 0
  BY DEF Init
<1>2. OmittedAt = {}
  BY <1>1 DEF OmittedAt, StartsAt, FinishesAt, CommandStarted
<1>3. OmissionsCounted
  BY <1>1, <1>2, FS_EmptySet DEF OmissionsCounted, OmittedAt, Causes
<1>4. RunningCharge
  <2> DEFINE none == [i \in 0 .. 1 |-> 0]
  <2>1. /\ none \in [0 .. Len(events) -> Nat] /\ none[0] = 0 /\ none[Len(events)] = 0
        /\ \A i \in 1 .. Len(events) : none[i] = none[i - 1] + events[i].bytes
    BY <1>1 DEF CommandStarted
  <2>2. QED
    BY <1>1, <2>1 DEF RunningCharge
<1>5. QED
  BY <1>3, <1>4

\* The order of the natural numbers has no infinite descent.
LEMMA LessIsWellFounded == IsWellFoundedOn({p \in Nat \X Nat : p[1] < p[2]}, Nat)
BY NatLessThanWellFounded, Zenon DEF OpToRel

\* f is a running sum of b.
SumsUp(f, b, n) == f[0] = 0 /\ \A i \in 1 .. n : f[i] = f[i - 1] + b[i]

\* Two running sums of the same numbers are the same: a first index where they
\* differ would have one before it.
LEMMA SumsAgree ==
  ASSUME NEW n \in Nat, NEW f, NEW g, NEW b, SumsUp(f, b, n), SumsUp(g, b, n)
  PROVE  \A i \in 0 .. n : f[i] = g[i]
<1> USE DEF SumsUp
<1> DEFINE D == {i \in 0 .. n : f[i] # g[i]}
           R == {p \in Nat \X Nat : p[1] < p[2]}
<1> SUFFICES ASSUME D # {} PROVE FALSE
  OBVIOUS
<1>1. D \subseteq Nat /\ IsWellFoundedOn(R, Nat)
  BY LessIsWellFounded
<1>2. \A x, y \in Nat : y < x => <<y, x>> \in R
  OBVIOUS
<1>3. \A i \in D : i \in 1 .. n /\ f[i] # g[i]
  OBVIOUS
<1>4. \A i \in 1 .. n : i - 1 \in Nat /\ i - 1 < i /\ (i - 1 \in D \/ f[i - 1] = g[i - 1])
  OBVIOUS
<1> HIDE DEF D, R
<1>5. PICK m \in D : \A y \in D : ~ (<<y, m>> \in R)
  BY <1>1, WFMin, Zenon
<1>6. m \in 1 .. n /\ f[m] # g[m] /\ m - 1 \notin D
  BY <1>1, <1>2, <1>3, <1>4, <1>5
<1>7. f[m - 1] = g[m - 1]
  BY <1>4, <1>6
<1>8. QED
  BY <1>6, <1>7

\* So a charge carried along the events is what their captures add up to.
LEMMA ChargeIsStored ==
  ASSUME Len(events) \in Nat, RunningCharge
  PROVE  capture_bytes = StoredUpTo[Len(events)]
<1> DEFINE n == Len(events)
           step(h) == [i \in 0 .. n |-> IF i = 0 THEN 0 ELSE h[i - 1] + events[i].bytes]
<1>1. PICK charge \in [0 .. n -> Nat] :
         /\ charge[0] = 0
         /\ \A i \in 1 .. n : charge[i] = charge[i - 1] + events[i].bytes
         /\ charge[n] = capture_bytes
  BY DEF RunningCharge
<1>2. charge = step(charge)
  BY <1>1
<1>3. StoredUpTo = CHOOSE h : h = step(h)
  BY DEF StoredUpTo
<1>4. StoredUpTo = step(StoredUpTo)
  BY <1>2, <1>3, Zenon
<1>5. \A i \in 0 .. n :
        StoredUpTo[i] = IF i = 0 THEN 0 ELSE StoredUpTo[i - 1] + events[i].bytes
  BY <1>4, Zenon
<1>6. n \in Nat /\ n \in 0 .. n
  OBVIOUS
<1> HIDE DEF n, step
<1>7. PICK b, f, g : /\ b = [i \in 1 .. n |-> events[i].bytes]
                     /\ f = charge /\ g = StoredUpTo
  OBVIOUS
<1>8. SumsUp(f, b, n) /\ SumsUp(g, b, n)
  BY <1>1, <1>5, <1>6, <1>7 DEF SumsUp
<1>9. \A i \in 0 .. n : f[i] = g[i]
  BY <1>6, <1>8, SumsAgree
<1>10. QED
  BY <1>1, <1>6, <1>7, <1>9 DEF n

\* Both halves of the ledger of captures, for every cap, payload and mode: the
\* bytes charged are those of the stored captures, and each capture that was
\* not stored is counted under one cause.
THEOREM CapturesAreAccounted == Spec => []CaptureLedger
<1>1. IInv /\ (OmissionsCounted /\ RunningCharge) /\ [Next]_vars
        => (OmissionsCounted /\ RunningCharge)'
  BY LedgerStep
<1>2. IInv /\ OmissionsCounted /\ RunningCharge => CaptureLedger
  <2> SUFFICES ASSUME IInv, OmissionsCounted, RunningCharge PROVE CaptureLedger
    OBVIOUS
  <2>1. Len(events) \in Nat
    BY LenProperties DEF IInv, TypeOK
  <2>2. QED
    BY <2>1, ChargeIsStored DEF CaptureLedger
<1>3. QED
  BY <1>1, <1>2, LedgerInit, Invariance, PTL DEF Spec

-----------------------------------------------------------------------------
(* The session: the observer listening to a client and a server.           *)

\* Nothing was counted as a loss and no key had to be forgotten.
Faithful == reasons = {} /\ ~saturated

\* Each recorded call has a request, and what is owed or answered is known.
SessionTypes ==
  /\ requests \in Nat /\ saturated \in BOOLEAN
  /\ asked \in Seq(Nat) /\ Len(asked) = next_call - 1
  /\ owed \subseteq [request: Nat, key: Keys]
  /\ \A a \in answered : a.call \in 1 .. next_call - 1

\* A key is used by one unanswered request at a time, which the observer waits
\* for or has remembered to discard.
KeysInUse ==
  Faithful =>
    /\ \A o \in owed : o.key \in DOMAIN in_flight \cup ignored_response_keys
    /\ \A o, u \in owed : o.key = u.key => o = u

SessionInv == SessionTypes /\ NoSilentCallLoss /\ KeysInUse /\ CompleteAttribution


\* Every step of the session is a step of the observer.
LEMMA SessionStepIsNext ==
  ASSUME [SNext]_svars
  PROVE  [Next]_vars
<1>1. CASE UNCHANGED svars
  BY <1>1 DEF svars
<1>2. ASSUME NEW id \in Ids, NEW p \in Payloads, ClientCalls(id, p)
      PROVE  Next
  BY <1>2 DEF ClientCalls, Next
<1>3. ASSUME NEW id \in Ids, ClientRepeatsId(id) \/ ClientCallsAtCap(id) \/ ClientCancels(id)
      PROVE  Next
  BY <1>3 DEF ClientRepeatsId, ClientCallsAtCap, ClientCancels, Next
<1>4. ASSUME NEW id \in Ids, ClientCallUnread(id)
      PROVE  Next
  BY <1>4, MarkOneAssumption DEF ClientCallUnread, Next, UnreadableReasons
<1>5. ASSUME NEW o \in owed, NEW id \in Ids, NEW r \in {"succeeded", "failed"},
             NEW p \in Payloads, ServerAnswers(o, id, r, p)
      PROVE  Next
  BY <1>5 DEF ServerAnswers, Next
<1>6. ASSUME NEW o \in owed, NEW id \in Ids,
             ServerAnswersLate(o, id) \/ ServerAnswerUnread(o, id)
      PROVE  Next
  BY <1>6 DEF ServerAnswersLate, ServerAnswerUnread, Next, UnreadableReasons
<1>7. CASE SessionEnds
  BY <1>7 DEF SessionEnds, Next
<1>8. QED
  BY <1>1, <1>2, <1>3, <1>4, <1>5, <1>6, <1>7 DEF SNext

\* A request is numbered and, if it can be answered, owed an answer.
LEMMA SendStep ==
  ASSUME SessionTypes, NEW id \in Ids, Send(id)
  PROVE  requests' = requests + 1 /\ owed' \subseteq [request: Nat, key: Keys]
<1>1. RequestKey(id) # NoKey => RequestKey(id) \in Keys
  BY DEF Keys
<1>2. QED
  BY <1>1 DEF Send, SessionTypes

\* A step that counts what it lost, if it lost a call, and gives a reason.
RecordsLoss ==
  /\ reasons' # {}
  /\ owed' \subseteq [request: Nat, key: Keys]
  /\ saturated' \in BOOLEAN
  /\ UNCHANGED <<asked, answered, next_call>>
  /\ \/ UNCHANGED <<requests, unobserved_messages>>
     \/ requests' = requests /\ unobserved_messages' = unobserved_messages + 1
     \/ requests' = requests + 1 /\ unobserved_messages' = unobserved_messages + 1

\* A call that is refused or cannot be read, an answer that cannot be read and
\* an answer that is discarded are recorded as losses.
LEMMA LossIsRecorded ==
  ASSUME TypeOK, SessionTypes,
         \/ \E id \in Ids : ClientRepeatsId(id) \/ ClientCallsAtCap(id)
         \/ \E id \in Ids : ClientCallUnread(id)
         \/ \E o \in owed, id \in Ids : ServerAnswerUnread(o, id)
         \/ \E o \in owed, id \in Ids : Answer(o, id) /\ DiscardResponse(id) /\ UNCHANGED answered
  PROVE  RecordsLoss
<1> USE DEF calls, SessionTypes, RecordsLoss
<1>1. ASSUME NEW id \in Ids, ClientRepeatsId(id)
      PROVE  RecordsLoss
  BY <1>1, SendStep DEF ClientRepeatsId, RefuseDuplicate, Unobserved
<1>2. ASSUME NEW id \in Ids, ClientCallsAtCap(id)
      PROVE  RecordsLoss
  <2>1. saturated' \in BOOLEAN
    BY <1>2 DEF ClientCallsAtCap
  <2>2. QED
    BY <1>2, <2>1, SendStep DEF ClientCallsAtCap, RefuseAtCap, Unobserved
<1>3. ASSUME NEW id \in Ids, ClientCallUnread(id)
      PROVE  RecordsLoss
  BY <1>3, SendStep
  DEF ClientCallUnread, InvalidToolCall, ObserveUnreadable, MarkUnobserved, Unobserved
<1>4. ASSUME NEW o \in owed, NEW id \in Ids, ServerAnswerUnread(o, id)
      PROVE  RecordsLoss
  BY <1>4 DEF ServerAnswerUnread, Answer, ObserveUnreadable, Unobserved
<1>5. ASSUME NEW o \in owed, NEW id \in Ids, Answer(o, id), DiscardResponse(id),
             UNCHANGED answered
      PROVE  RecordsLoss
  BY <1>5 DEF Answer, DiscardResponse
<1>6. QED
  BY <1>1, <1>2, <1>3, <1>4, <1>5

\* After a recorded loss the trace no longer claims to be complete.
LEMMA LossStep ==
  ASSUME TypeOK, SessionInv, RecordsLoss
  PROVE  SessionInv'
<1>1. SessionTypes'
  BY DEF RecordsLoss, SessionInv, SessionTypes
<1>2. NoSilentCallLoss'
  BY DEF RecordsLoss, SessionInv, SessionTypes, NoSilentCallLoss, TypeOK
<1>3. KeysInUse' /\ CompleteAttribution'
  BY DEF RecordsLoss, KeysInUse, CompleteAttribution, Faithful
<1>4. QED
  BY <1>1, <1>2, <1>3 DEF SessionInv

\* A recorded call is owed an answer under a key nobody used.
LEMMA CallStep ==
  ASSUME TypeOK, SessionInv, NEW id \in Ids, NEW p \in Payloads, ClientCalls(id, p)
  PROVE  SessionInv'
<1> DEFINE k == RequestKey(id)
           sent == [request |-> requests + 1, key |-> k]
<1>1. /\ k \in Keys \ (DOMAIN in_flight \cup ignored_response_keys)
      /\ Register(k)
      /\ UNCHANGED <<ignored_response_keys, losses, answered, saturated>>
      /\ Send(id)
      /\ asked' = Append(asked, requests + 1)
  BY DEF ClientCalls, StartToolCall, IsDuplicate
<1>2. owed' = owed \cup {sent} /\ requests' = requests + 1
  BY <1>1 DEF Send, Keys
<1>3. /\ DOMAIN in_flight' = DOMAIN in_flight \cup {k}
      /\ in_flight'[k] = next_call
      /\ \A x \in DOMAIN in_flight : in_flight'[x] = in_flight[x]
      /\ next_call' = next_call + 1
  BY <1>1 DEF Register
<1>4. /\ asked' \in Seq(Nat) /\ Len(asked') = next_call
      /\ asked'[next_call] = requests + 1
      /\ \A c \in 1 .. next_call - 1 : asked'[c] = asked[c]
  BY <1>1 DEF SessionInv, SessionTypes, TypeOK
<1>5. SessionTypes'
  BY <1>1, <1>2, <1>3, <1>4 DEF SessionInv, SessionTypes, TypeOK
<1>6. NoSilentCallLoss'
  BY <1>1, <1>2, <1>4 DEF SessionInv, SessionTypes, NoSilentCallLoss, TypeOK, losses
<1>7. Faithful' => Faithful
  BY <1>1 DEF Faithful, losses
<1>8. KeysInUse'
  BY <1>1, <1>2, <1>3, <1>7 DEF SessionInv, KeysInUse
<1>9. CompleteAttribution'
  <2> SUFFICES ASSUME Faithful'
               PROVE  /\ \A a \in answered' : asked'[a.call] = a.request
                      /\ \A x \in DOMAIN in_flight' :
                           [request |-> asked'[in_flight'[x]], key |-> x] \in owed'
    BY DEF CompleteAttribution, Faithful
  <2>1. /\ \A a \in answered : asked[a.call] = a.request
        /\ \A x \in DOMAIN in_flight :
             [request |-> asked[in_flight[x]], key |-> x] \in owed
    BY <1>7 DEF SessionInv, CompleteAttribution, Faithful
  <2>2. \A a \in answered' : asked'[a.call] = a.request
    BY <1>1, <1>4, <2>1 DEF SessionInv, SessionTypes
  <2>3. ASSUME NEW x \in DOMAIN in_flight
        PROVE  [request |-> asked'[in_flight'[x]], key |-> x] \in owed'
    BY <1>2, <1>3, <1>4, <2>1, <2>3 DEF TypeOK
  <2>4. [request |-> asked'[in_flight'[k]], key |-> k] \in owed'
    BY <1>2, <1>3, <1>4
  <2>5. QED
    BY <1>3, <2>2, <2>3, <2>4
<1>10. QED
  BY <1>5, <1>6, <1>8, <1>9 DEF SessionInv

\* A cancelled key is remembered, so that it is not used again before its
\* answer came, unless the session records that it was forgotten.
LEMMA CancelStep ==
  ASSUME TypeOK, TablesFinite, SessionInv, NEW id \in Ids, ClientCancels(id)
  PROVE  SessionInv'
<1> DEFINE k == RequestKey(id)
<1>1. /\ k \in DOMAIN in_flight
      /\ Remember(k)
      /\ in_flight' = Restrict(in_flight, DOMAIN in_flight \ {k})
      /\ UNCHANGED <<next_call, losses, requests, owed, asked, answered>>
      /\ saturated' = (saturated \/ Full)
  BY DEF ClientCancels, CancelToolCall, Finish
<1>2. /\ DOMAIN in_flight' = DOMAIN in_flight \ {k}
      /\ \A x \in DOMAIN in_flight' : in_flight'[x] = in_flight[x]
  BY <1>1 DEF Restrict
<1>3. saturated' \in BOOLEAN
  BY <1>1
<1>4. SessionTypes'
  BY <1>1, <1>3 DEF SessionInv, SessionTypes
<1>5. NoSilentCallLoss'
  BY <1>1 DEF SessionInv, NoSilentCallLoss, losses
<1>6. ASSUME Faithful'
      PROVE  /\ Faithful
             /\ ignored_response_keys' = ignored_response_keys \cup {k}
  <2>1. Cardinality(ignored_response_keys) \in Nat /\ MaxInFlight \in Nat
    BY FS_CardinalityType, CapsAssumption DEF TablesFinite
  <2>2. ~Full /\ ~saturated /\ reasons = {}
    BY <1>1, <1>6 DEF Faithful, losses
  <2>3. QED
    BY <1>1, <2>1, <2>2 DEF Full, Remember, Faithful
<1>7. KeysInUse'
  BY <1>1, <1>2, <1>6 DEF SessionInv, KeysInUse
<1>8. CompleteAttribution'
  BY <1>1, <1>2, <1>6 DEF SessionInv, CompleteAttribution, Faithful
<1>9. QED
  BY <1>4, <1>5, <1>7, <1>8 DEF SessionInv

\* An answer finishes the call of the one request that is owed it.
LEMMA AnswerStep ==
  ASSUME TypeOK, SessionInv, NEW o \in owed, NEW id \in Ids,
         NEW r \in {"succeeded", "failed"}, NEW p \in Payloads,
         ServerAnswers(o, id, r, p)
  PROVE  SessionInv'
<1>1. /\ o.key \in DOMAIN in_flight
      /\ in_flight' = Restrict(in_flight, DOMAIN in_flight \ {o.key})
      /\ owed' = owed \ {o}
      /\ answered' = answered \cup {[call |-> in_flight[o.key], request |-> o.request]}
      /\ UNCHANGED <<ignored_response_keys, next_call, losses, requests, asked, saturated>>
  BY DEF ServerAnswers, Answer, ObserveResponse, Finish
<1>2. /\ DOMAIN in_flight' = DOMAIN in_flight \ {o.key}
      /\ \A x \in DOMAIN in_flight' : in_flight'[x] = in_flight[x]
  BY <1>1 DEF Restrict
<1>3. SessionTypes'
  BY <1>1 DEF SessionInv, SessionTypes, TypeOK
<1>4. NoSilentCallLoss'
  BY <1>1 DEF SessionInv, NoSilentCallLoss, losses
<1>5. Faithful' => Faithful
  BY <1>1 DEF Faithful, losses
<1>6. KeysInUse'
  BY <1>1, <1>2, <1>5 DEF SessionInv, KeysInUse
<1>7. CompleteAttribution'
  <2> SUFFICES ASSUME Faithful'
               PROVE  /\ \A a \in answered' : asked'[a.call] = a.request
                      /\ \A x \in DOMAIN in_flight' :
                           [request |-> asked'[in_flight'[x]], key |-> x] \in owed'
    BY DEF CompleteAttribution, Faithful
  <2>1. /\ \A a \in answered : asked[a.call] = a.request
        /\ \A x \in DOMAIN in_flight :
             [request |-> asked[in_flight[x]], key |-> x] \in owed
    BY <1>5 DEF SessionInv, CompleteAttribution, Faithful
  <2>2. o.key \in DOMAIN in_flight /\ [request |-> asked[in_flight[o.key]], key |-> o.key] = o
    BY <1>1, <1>5, <2>1 DEF SessionInv, KeysInUse
  <2>3. asked[in_flight[o.key]] = o.request
    BY <2>2
  <2>4. QED
    BY <1>1, <1>2, <2>1, <2>3
<1>8. QED
  BY <1>3, <1>4, <1>6, <1>7 DEF SessionInv

\* An answer nobody waits for leaves the calls alone; it can only come when a
\* key was forgotten or a loss was recorded.
LEMMA UnawaitedStep ==
  ASSUME TypeOK, SessionInv, NEW o \in owed, NEW id \in Ids,
         Answer(o, id), RequestKey(id) \notin DOMAIN in_flight \cup ignored_response_keys,
         ObserveOther, UNCHANGED answered
  PROVE  SessionInv'
<1>1. /\ owed' = owed \ {o}
      /\ o.key \notin DOMAIN in_flight \cup ignored_response_keys
      /\ UNCHANGED <<calls, losses, requests, asked, saturated, answered>>
  BY DEF Answer, ObserveOther
<1>2. SessionTypes'
  BY <1>1 DEF SessionInv, SessionTypes, calls
<1>3. NoSilentCallLoss'
  BY <1>1 DEF SessionInv, NoSilentCallLoss, losses
<1>4. ~Faithful'
  BY <1>1 DEF SessionInv, KeysInUse, Faithful, losses
<1>5. QED
  BY <1>2, <1>3, <1>4 DEF SessionInv, KeysInUse, CompleteAttribution, Faithful

\* Every step of the session keeps its invariant.
LEMMA SessionStep ==
  ASSUME IInv, SessionInv, [SNext]_svars
  PROVE  SessionInv'
<1> USE DEF IInv
<1>1. SessionTypes
  BY DEF SessionInv
<1>2. ASSUME UNCHANGED <<calls, losses, session>>
      PROVE  SessionInv'
  BY <1>2 DEF calls, losses, session, SessionInv, SessionTypes, NoSilentCallLoss,
              KeysInUse, CompleteAttribution, Faithful
<1>3. CASE UNCHANGED svars
  BY <1>2, <1>3 DEF svars, vars
<1>4. CASE SessionEnds
  BY <1>2, <1>4 DEF SessionEnds, Seal
<1>5. ASSUME RecordsLoss
      PROVE  SessionInv'
  BY <1>5, LossStep
<1>6. CASE \/ \E id \in Ids : ClientRepeatsId(id) \/ ClientCallsAtCap(id)
           \/ \E id \in Ids : ClientCallUnread(id)
           \/ \E o \in owed, id \in Ids : ServerAnswerUnread(o, id)
  BY <1>1, <1>5, <1>6, LossIsRecorded
<1>7. CASE \E id \in Ids, p \in Payloads : ClientCalls(id, p)
  BY <1>7, CallStep
<1>8. CASE \E id \in Ids : ClientCancels(id)
  BY <1>8, CancelStep
<1>9. CASE \E o \in owed, id \in Ids, r \in {"succeeded", "failed"}, p \in Payloads :
             ServerAnswers(o, id, r, p)
  BY <1>9, AnswerStep
<1>10. ASSUME NEW o \in owed, NEW id \in Ids, ServerAnswersLate(o, id)
       PROVE  SessionInv'
  <2>1. CASE Answer(o, id) /\ DiscardResponse(id) /\ UNCHANGED answered
    BY <1>1, <1>5, <2>1, LossIsRecorded
  <2>2. CASE /\ Answer(o, id) /\ ObserveOther /\ UNCHANGED answered
             /\ RequestKey(id) \notin DOMAIN in_flight \cup ignored_response_keys
    BY <2>2, UnawaitedStep
  <2>3. QED
    BY <1>10, <2>1, <2>2 DEF ServerAnswersLate
<1>11. QED
  BY <1>3, <1>4, <1>6, <1>7, <1>8, <1>9, <1>10 DEF SNext

LEMMA SessionInvariance == SSpec => [](IInv /\ SessionInv)
<1>1. SInit => IInv
  BY InitInv DEF SInit
<1>2. SInit => SessionInv
  <2>1. ASSUME SInit
        PROVE  /\ next_call = 1 /\ reasons = {} /\ unobserved_messages = 0
               /\ DOMAIN in_flight = {}
               /\ requests = 0 /\ owed = {} /\ asked = <<>> /\ answered = {}
               /\ saturated = FALSE
    BY <2>1 DEF SInit, Init
  <2>2. QED
    BY <2>1 DEF SessionInv, SessionTypes, NoSilentCallLoss, KeysInUse,
                CompleteAttribution
<1>3. IInv /\ [SNext]_svars => IInv'
  BY SessionStepIsNext, TypeStep, TablesStep, NumberedStep, OpenStep, LifecycleStep
  DEF IInv
<1>4. IInv /\ SessionInv /\ [SNext]_svars => SessionInv'
  BY SessionStep
<1>5. QED
  BY <1>1, <1>2, <1>3, <1>4, PTL DEF SSpec

\* A tools/call is recorded or counted, and a trace that claims to be complete
\* recorded all of them, however many calls a client sends and whatever is
\* refused, cancelled or unreadable.
THEOREM NoCallIsLost == SSpec => []NoSilentCallLoss
BY SessionInvariance, PTL DEF SessionInv

\* As long as nothing was lost and no key had to be forgotten, each answer that
\* finished a call is the answer to the request the call stands for, and each
\* open call is still owed its own, for every set of ids and every order of
\* answers, cancellations and reuse.
THEOREM CallsGetTheirAnswers == SSpec => []CompleteAttribution
BY SessionInvariance, PTL DEF SessionInv
=============================================================================
