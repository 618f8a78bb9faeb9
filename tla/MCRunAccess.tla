---------------------------- MODULE MCRunAccess ----------------------------
(***************************************************************************)
(* A small store: three run ids, two of which differ in case only.         *)
(***************************************************************************)
EXTENDS RunAccess

MCRunIds == 1 .. 3

MCCaseKey == [r \in MCRunIds |-> IF r = 1 THEN 2 ELSE r]
=============================================================================
