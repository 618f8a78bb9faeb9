---------------------------- MODULE MCToolSession ----------------------------
(***************************************************************************)
(* Small instance of ToolSession: two keys, one of them with two spellings *)
(* as a number, and an id no response can carry.  One payload: captures    *)
(* are MCToolObserver's subject.                                           *)
(***************************************************************************)
EXTENDS ToolSession

MCIds ==
  {[form |-> "int", value |-> 1], [form |-> "whole", value |-> 1],
   [form |-> "text", value |-> 1], [form |-> "unusable", value |-> 0]}

MCNull == [bytes |-> 1, safe |-> TRUE, encodes |-> TRUE, redaction |-> "same"]

MCPayloads == {MCNull}
=============================================================================
