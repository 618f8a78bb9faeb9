----------------------------- MODULE ToolSession -----------------------------
(***************************************************************************)
(* The observer of ToolObserver listening to a conversation: an MCP client *)
(* that sends tools/call and cancellations with ids of its choice, and a   *)
(* server that answers each request at most once, in any order, cancelled  *)
(* requests included.  A relay shows the observer a message before it      *)
(* forwards it, so a request is observed before its answer; client and     *)
(* server messages are otherwise interleaved freely.  Client and server    *)
(* are external programs; what the observer does with each of their        *)
(* messages is the code's.                                                 *)
(***************************************************************************)
EXTENDS ToolObserver

\* mark_unobserved reports one message at a time.
ASSUME MarkOneAssumption == 1 \in MarkCounts

VARIABLES
  requests,   \* tools/call requests sent before the seal
  owed,       \* requests the server has not answered, [request, key]
  asked,      \* asked[c] is the request that call c records
  answered,   \* [call, request]: the call finished by the answer to request
  saturated   \* a key was not remembered because the table was full

session == <<requests, owed, asked, answered, saturated>>
svars == <<vars, session>>

SInit ==
  /\ Init
  /\ requests = 0
  /\ owed = {}
  /\ asked = <<>>
  /\ answered = {}
  /\ saturated = FALSE

Full == Cardinality(ignored_response_keys) >= MaxInFlight

\* A request goes out; one with an unusable id cannot be answered under a key.
Send(id) ==
  /\ requests' = requests + 1
  /\ owed' = IF RequestKey(id) = NoKey THEN owed
             ELSE owed \cup {[request |-> requests + 1, key |-> RequestKey(id)]}

ClientCalls(id, p) ==
  /\ StartToolCall(id, p)
  /\ Send(id)
  /\ asked' = Append(asked, requests + 1)
  /\ UNCHANGED <<answered, saturated>>

ClientRepeatsId(id) ==
  /\ RefuseDuplicate(id)
  /\ Send(id)
  /\ UNCHANGED <<asked, answered, saturated>>

ClientCallsAtCap(id) ==
  /\ RefuseAtCap(id)
  /\ Send(id)
  /\ saturated' = (saturated \/ Full)
  /\ UNCHANGED <<asked, answered>>

\* The server receives a call that the observer could not read or use.
ClientCallUnread(id) ==
  /\ \/ InvalidToolCall
     \/ ObserveUnreadable("unparseable")
     \/ \E r \in MarkReasons : MarkUnobserved(r, 1)
  /\ Send(id)
  /\ UNCHANGED <<asked, answered, saturated>>

ClientCancels(id) ==
  /\ CancelToolCall(id)
  /\ saturated' = (saturated \/ Full)
  /\ UNCHANGED <<requests, owed, asked, answered>>

\* The server answers request o with an id that has its key.
Answer(o, id) ==
  /\ RequestKey(id) = o.key
  /\ owed' = owed \ {o}
  /\ UNCHANGED <<requests, asked, saturated>>

ServerAnswers(o, id, outcome, p) ==
  /\ Answer(o, id)
  /\ ObserveResponse(id, outcome, p)
  /\ answered' = answered \cup
       {[call |-> in_flight[o.key], request |-> o.request]}

ServerAnswersLate(o, id) ==
  /\ Answer(o, id)
  /\ \/ DiscardResponse(id)
     \/ /\ RequestKey(id) \notin DOMAIN in_flight \cup ignored_response_keys
        /\ ObserveOther
  /\ UNCHANGED answered

ServerAnswerUnread(o, id) ==
  /\ Answer(o, id)
  /\ ObserveUnreadable("unparseable")
  /\ UNCHANGED answered

SessionEnds == Seal /\ UNCHANGED session

SNext ==
  \/ \E id \in Ids, p \in Payloads : ClientCalls(id, p)
  \/ \E id \in Ids : ClientRepeatsId(id)
  \/ \E id \in Ids : ClientCallsAtCap(id)
  \/ \E id \in Ids : ClientCallUnread(id)
  \/ \E id \in Ids : ClientCancels(id)
  \/ \E o \in owed, id \in Ids, outcome \in {"succeeded", "failed"}, p \in Payloads :
        ServerAnswers(o, id, outcome, p)
  \/ \E o \in owed, id \in Ids : ServerAnswersLate(o, id)
  \/ \E o \in owed, id \in Ids : ServerAnswerUnread(o, id)
  \/ SessionEnds

SSpec == SInit /\ [][SNext]_svars

-----------------------------------------------------------------------------
(* Properties.                                                             *)

\* Every tools/call the client sent is recorded or counted as unobserved,
\* and a trace that reports itself complete recorded all of them.
NoSilentCallLoss ==
  /\ requests <= Len(asked) + unobserved_messages
  /\ reasons = {} => requests = Len(asked)

\* In a trace that reports itself complete, each call was finished by the
\* answer to its own request, however late answers, cancellations and reused
\* ids interleave, and each open one is really owed an answer, so that the
\* session never fails as incomplete_inflight for a call that was answered;
\* as long as no key had to be forgotten because ignored_response_keys was full.
CompleteAttribution ==
  reasons = {} /\ ~saturated =>
    /\ \A a \in answered : asked[a.call] = a.request
    /\ \A k \in DOMAIN in_flight :
         [request |-> asked[in_flight[k]], key |-> k] \in owed
=============================================================================
