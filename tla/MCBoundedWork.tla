---------------------------- MODULE MCBoundedWork ----------------------------
(***************************************************************************)
(* Five parts of Tracord that work within limits and do not meet: the      *)
(* search of an assertion, the preview of an export, exporters that race   *)
(* for one output, the trimming of a proxy's trace and one of its relays.  *)
(* A behaviour is of one of them.                                          *)
(*                                                                         *)
(* Three exporters, each with either option.  The relay has a buffer of    *)
(* two bytes, so that lines of three (the limit plus one) and more are     *)
(* oversized, within one chunk and across several.                         *)
(***************************************************************************)
EXTENDS AssertionEvaluation, ExportPreview, BundleExport, TraceTrim, MessageRelay, TLC

CONSTANTS e1, e2, e3

MCExporters == {e1, e2, e3}

Sym == Permutations(MCExporters)

Upto(S, n) == UNION {[1 .. k -> S] : k \in 0 .. n}

MCContents ==
  [x \in Range(Labels) |->
     IF x = "stdout"
     THEN {<<"b">>, <<"a", "b", "a", "b">>, <<"a", "a", "a", "b", "b">>}
     ELSE Upto({"a", "b"}, 5) \cup [1 .. 3 -> {"a", "lead", "tail", "bad"}]]

MCNeedles == {<<"a">>, <<"a", "b">>, <<"a", "a", "b">>}

MCRewritten == {<<>>, <<"a", "a", "b", "b">>}

\* A clean file, one with a secret at its end, one with a NUL before a secret.
MCShapes == {[size |-> 1, secret |-> 0, nul |-> 0], [size |-> 3, secret |-> 3, nul |-> 0],
             [size |-> 2, secret |-> 2, nul |-> 1]}

\* Two or three calls, open or finished, nested and in turn, with values of
\* different sizes, some omitted before.
Event(call, capture) ==
  [call |-> call, bytes |-> IF call = 0 THEN 1 ELSE 2,
   capture |-> IF capture = 1 THEN 1 ELSE capture, omitted |-> capture = 1]

MCTraces ==
  {<<Event(0, 0)>> \o [i \in DOMAIN calls |-> Event(calls[i], captures[i])]
                   \o <<Event(0, 0)>> :
     calls \in {<<>>, <<1>>, <<1, 1>>, <<1, 2, 1, 2>>, <<1, 2, 2>>, <<1, 1, 2, 3, 3>>},
     captures \in [1 .. 5 -> {0, 1, 3}]}

\* No exporter, no user and no relay has a step left.
ExportIdle ==
  /\ overwrite = [e \in Exporters |-> FALSE] /\ output = NoFile
  /\ temporary = [e \in Exporters |-> FALSE] /\ written = [e \in Exporters |-> 0]
  /\ archived = [e \in Exporters |-> FALSE] /\ published = [e \in Exporters |-> FALSE]
  /\ exportPc = [e \in Exporters |-> "end"] /\ result = [e \in Exporters |-> "error"]
  /\ userSteps = MaxUserSteps

RelayIdle ==
  /\ ends = {} /\ taken = 0 /\ chunk = <<>> /\ pending = <<>> /\ streaming = FALSE
  /\ todo = <<>> /\ then = "segment" /\ pc = "idle" /\ sent = <<>>
  /\ observed = <<>> /\ oversized = 0
  /\ shutdown = TRUE /\ failed = FALSE /\ broken = FALSE
  /\ closed = TRUE /\ stream_closed = TRUE

evaluated == evaluationVars
previewed == previewVars
exported == exportVars
trimmed == trimVars
relayed == vars
workVars == <<evaluated, previewed, exported, trimmed, relayed>>

WorkInit ==
  \/ EvaluationInit /\ PreviewIdle /\ ExportIdle /\ TrimIdle /\ RelayIdle
  \/ EvaluationIdle /\ PreviewInit /\ ExportIdle /\ TrimIdle /\ RelayIdle
  \/ EvaluationIdle /\ PreviewIdle /\ ExportInit /\ TrimIdle /\ RelayIdle
  \/ EvaluationIdle /\ PreviewIdle /\ ExportIdle /\ TrimInit /\ RelayIdle
  \/ EvaluationIdle /\ PreviewIdle /\ ExportIdle /\ TrimIdle /\ Init

WorkNext ==
  \/ EvaluationNext /\ UNCHANGED <<previewed, exported, trimmed, relayed>>
  \/ PreviewNext /\ UNCHANGED <<evaluated, exported, trimmed, relayed>>
  \/ ExportNext /\ UNCHANGED <<evaluated, previewed, trimmed, relayed>>
  \/ TrimNext /\ UNCHANGED <<evaluated, previewed, exported, relayed>>
  \/ Next /\ UNCHANGED <<evaluated, previewed, exported, trimmed>>

WorkSpec == WorkInit /\ [][WorkNext]_workVars
=============================================================================
