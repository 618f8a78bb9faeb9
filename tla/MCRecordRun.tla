---------------------------- MODULE MCRecordRun ----------------------------
(***************************************************************************)
(* A repository with an ignored file and another, which may be below the   *)
(* store's runs; the store may also be the repository, or outside it.      *)
(* Redaction is switched off only where the store is inside: the two meet  *)
(* nowhere but in the patch.  A file below the store is committed, so that *)
(* there is something to take out of the index.                            *)
(***************************************************************************)
EXTENDS RecordRun

CONSTANTS plain, ignored

MCPaths == {plain, ignored}
MCIgnored == {ignored}
MCStores == {{}, {plain}, MCPaths}

MCInit ==
  /\ Init
  /\ IF options.runs = {} THEN options.redact ELSE head[plain] = 1

MCSpec == MCInit /\ [][Next]_vars
=============================================================================
