------------------------- MODULE MCImportTransaction -------------------------
(***************************************************************************)
(* Small instances of ImportTransaction: three import processes, so that   *)
(* one can be interrupted, a second be interrupted while it recovers, and  *)
(* a third recover from both.                                              *)
(***************************************************************************)
EXTENDS ImportTransaction, TLC

CONSTANTS i1, i2, i3

MCImports == {i1, i2, i3}

MCTwoImports == {i1, i2}

Symmetric == Permutations(MCImports)
=============================================================================
