---------------------------- MODULE ToolCallTrace ----------------------------
(***************************************************************************)
(* What a trace promises about tool calls, without saying how they are     *)
(* recognised: the lifecycle that schema.py enforces on `tool.call.*'      *)
(* events (_validate_tool_call_lifecycle) and the `complete' flag of       *)
(* `mcp_proxy.observation'.  A call is started once, finished at most once *)
(* and only after its start; the flag never returns to TRUE; nothing but   *)
(* that flag changes after the seal.                                       *)
(***************************************************************************)
CONSTANTS CallIds,    \* identifiers a call may be given
          Outcomes    \* what a finished call may report

VARIABLES open,       \* calls started and not finished
          closed,     \* finished calls, as records [call, outcome]
          complete,   \* the trace claims that nothing was missed
          sealed      \* no more lifecycle events

vars == <<open, closed, complete, sealed>>

FinishedCalls == {c.call : c \in closed}

TypeOK ==
  /\ open \subseteq CallIds
  /\ closed \subseteq [call: CallIds, outcome: Outcomes]
  /\ complete \in BOOLEAN
  /\ sealed \in BOOLEAN

Init ==
  /\ open = {}
  /\ closed = {}
  /\ complete = TRUE
  /\ sealed = FALSE

Start(c) ==
  /\ ~sealed
  /\ c \notin open \cup FinishedCalls
  /\ open' = open \cup {c}
  /\ UNCHANGED <<closed, complete, sealed>>

Finish(c, o) ==
  /\ ~sealed
  /\ c \in open
  /\ open' = open \ {c}
  /\ closed' = closed \cup {[call |-> c, outcome |-> o]}
  /\ UNCHANGED <<complete, sealed>>

\* Something was missed, refused or dropped.
Miss ==
  /\ complete' = FALSE
  /\ UNCHANGED <<open, closed, sealed>>

Seal ==
  /\ sealed' = TRUE
  /\ complete' \in {complete, FALSE}
  /\ UNCHANGED <<open, closed>>

Next ==
  \/ \E c \in CallIds : Start(c)
  \/ \E c \in CallIds, o \in Outcomes : Finish(c, o)
  \/ Miss
  \/ Seal

Spec == Init /\ [][Next]_vars
=============================================================================
