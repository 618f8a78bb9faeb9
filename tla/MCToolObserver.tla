--------------------------- MODULE MCToolObserver ---------------------------
(***************************************************************************)
(* Small instance of ToolObserver: two numeric spellings of one id, a text *)
(* id of the same value, another text id and an unusable one; payloads     *)
(* that are stored, redacted, unsafe and too large.                        *)
(***************************************************************************)
EXTENDS ToolObserver

MCIds ==
  {[form |-> "int", value |-> 1], [form |-> "whole", value |-> 1],
   [form |-> "text", value |-> 1], [form |-> "text", value |-> 2],
   [form |-> "unusable", value |-> 0]}

Payload(b, s, r) ==
  [bytes |-> b, safe |-> s, encodes |-> TRUE, redaction |-> r]

MCNull == Payload(1, TRUE, "same")

MCPayloads == {MCNull, Payload(2, TRUE, "changes"), Payload(2, FALSE, "same")}
=============================================================================
