------------------------- MODULE MCObservationWorker -------------------------
(***************************************************************************)
(* Small instance of ObservationWorker: a queue of two items that a large  *)
(* message fills by its bytes and two small ones or markers by their       *)
(* number.                                                                 *)
(***************************************************************************)
EXTENDS ObservationWorker

MCSizes == {1, 3}
=============================================================================
