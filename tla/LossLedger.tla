------------------------------ MODULE LossLedger ------------------------------
(***************************************************************************)
(* What the observation pipeline promises about the messages handed to it, *)
(* whatever queues, faults and shutdowns lie between: a message is         *)
(* observed or reported as lost, once; the complete flag is given up with  *)
(* the first reported loss; nothing is left undecided when the trace is    *)
(* sealed, and nothing changes afterwards.                                 *)
(***************************************************************************)
EXTENDS Integers

VARIABLES pending,    \* messages submitted and undecided
          observed,   \* messages the observer processed
          reported,   \* messages counted as unobserved
          complete,   \* the trace claims that nothing was lost
          sealed

vars == <<pending, observed, reported, complete, sealed>>

Init ==
  /\ pending = 0
  /\ observed = 0
  /\ reported = 0
  /\ complete = TRUE
  /\ sealed = FALSE

Submit ==
  /\ ~sealed
  /\ pending' = pending + 1
  /\ UNCHANGED <<observed, reported, complete, sealed>>

Observe ==
  /\ pending > 0
  /\ pending' = pending - 1
  /\ observed' = observed + 1
  /\ UNCHANGED <<reported, complete, sealed>>

Report(n) ==
  /\ n \in 1 .. pending
  /\ pending' = pending - n
  /\ reported' = reported + n
  /\ complete' = FALSE
  /\ UNCHANGED <<observed, sealed>>

\* A message that arrives during shutdown is reported at once.
SubmitAndReport ==
  /\ ~sealed
  /\ reported' = reported + 1
  /\ complete' = FALSE
  /\ UNCHANGED <<pending, observed, sealed>>

\* The observation is incomplete for a reason that is no message.
Doubt ==
  /\ ~sealed
  /\ complete' = FALSE
  /\ UNCHANGED <<pending, observed, reported, sealed>>

Seal ==
  /\ pending = 0
  /\ sealed' = TRUE
  /\ UNCHANGED <<pending, observed, reported, complete>>

Next ==
  \/ Submit
  \/ Observe
  \/ \E n \in 1 .. pending : Report(n)
  \/ SubmitAndReport
  \/ Doubt
  \/ Seal

Spec == Init /\ [][Next]_vars
=============================================================================
