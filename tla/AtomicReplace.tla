----------------------------- MODULE AtomicReplace -----------------------------
(***************************************************************************)
(* What importing a run promises, whatever directories, journals and locks *)
(* it takes: imports of one run take turns; at each moment the run has one *)
(* recoverable version, the one before the import or the imported one; an  *)
(* import that reports success leaves its version, one that reports        *)
(* failure the version before it, and one that crashes either.             *)
(***************************************************************************)
CONSTANTS Imports,   \* attempts to import a version of the run
          Old,       \* the version recorded before any import
          Absent,    \* no version
          Nobody     \* no import is running

VARIABLES version,   \* the recoverable version of the run
          running,   \* the import whose turn it is
          before,    \* the version when its turn began
          result     \* what each import has reported

vars == <<version, running, before, result>>

Report(i, r) == result' = [result EXCEPT ![i] = r]

Init ==
  /\ version \in {Old, Absent}
  /\ running = Nobody
  /\ before = version
  /\ result = [i \in Imports |-> "none"]

\* An import that does not get its turn.
Refuse(i) ==
  /\ result[i] = "none"
  /\ i # running
  /\ \E r \in {"failure", "crash"} : Report(i, r)
  /\ UNCHANGED <<version, running, before>>

Begin(i) ==
  /\ running = Nobody
  /\ result[i] = "none"
  /\ running' = i
  /\ before' = version
  /\ UNCHANGED <<version, result>>

Publish ==
  /\ running # Nobody
  /\ version' = running
  /\ UNCHANGED <<running, before, result>>

\* A publication whose import goes on to fail is taken back.
TakeBack ==
  /\ running # Nobody
  /\ version' = before
  /\ UNCHANGED <<running, before, result>>

Succeed ==
  /\ running # Nobody
  /\ running' = Nobody
  /\ version' = running
  /\ Report(running, "success")
  /\ UNCHANGED before

Fail ==
  /\ running # Nobody
  /\ running' = Nobody
  /\ version = before
  /\ Report(running, "failure")
  /\ UNCHANGED <<version, before>>

Crash ==
  /\ running # Nobody
  /\ running' = Nobody
  /\ Report(running, "crash")
  /\ UNCHANGED <<version, before>>

Next ==
  \/ \E i \in Imports : Refuse(i) \/ Begin(i)
  \/ Publish \/ TakeBack \/ Succeed \/ Fail \/ Crash

Spec == Init /\ [][Next]_vars
=============================================================================
