-------------------------- MODULE AssertionEvaluation --------------------------
(***************************************************************************)
(* evaluate_run's search for --stdout-contains and --stderr-contains: each *)
(* artifact is read in chunks within a limit of its own and a budget both  *)
(* share, searched over the chunk borders, checked to be UTF-8 as it       *)
(* comes, and verified to be the file that was prepared, while a user may  *)
(* write into it.                                                          *)
(*                                                                         *)
(* A byte is "a" or "b" (text), "lead" and "tail" (a character of two      *)
(* bytes), or "bad" (never valid).  A file has a content and a revision    *)
(* that its times and size show.                                           *)
(***************************************************************************)
EXTENDS Naturals, FiniteSets, Sequences, SequencesExt

CONSTANTS
  Contents,          \* label -> what its artifact may contain: sequences of bytes
  Rewritten,         \* what the user may write into it
  Needles,           \* what may be expected: sequences of bytes, not empty
  MaxArtifactBytes, MaxTotalArtifactBytes, ReadChunkBytes,
  MaxNeedleBytes,
  MaxRewrites        \* bound: changes by the user

Labels == <<"stdout", "stderr">>

Bytes == {"a", "b", "lead", "tail", "bad"}

ASSUME EvaluationAssumption ==
  /\ \A x \in Range(Labels) : Contents[x] \subseteq Seq(Bytes)
  /\ Rewritten \subseteq Seq(Bytes)
  /\ Needles \subseteq Seq(Bytes)
  /\ \A n \in Needles : Len(n) \in 1 .. MaxNeedleBytes
  /\ {MaxArtifactBytes, MaxTotalArtifactBytes, ReadChunkBytes, MaxNeedleBytes}
       \subseteq Nat \ {0}
  /\ MaxRewrites \in Nat

VARIABLES
  content, revision,   \* label -> of its file; revision 0: there is none
  rewrites,
  label,       \* position in Labels
  step,        \* "begin", "open", "read", "verify", "over"; "idle"
  expected, replacement,   \* label -> needle, decode_replacement
  prepared,    \* size and revision at lstat
  limit, position, tail, awaiting,   \* awaiting: a lead byte awaits its tail
  matched, invalid, short,
  remaining,
  verdict      \* label -> failure code, "met" or "none"

artifact == <<content, revision, rewrites>>
expectation == <<expected, replacement>>
search == <<limit, position, tail, awaiting, matched, invalid, short>>
evaluationVars == <<artifact, expectation, label, step, prepared, search,
                    remaining, verdict>>

Now == Labels[label]

EvaluationIdle ==
  /\ content = [x \in Range(Labels) |-> <<>>]
  /\ revision = [x \in Range(Labels) |-> 0] /\ rewrites = 0
  /\ label = 1 /\ step = "idle"
  /\ expected = [x \in Range(Labels) |-> <<>>]
  /\ replacement = [x \in Range(Labels) |-> "none"]
  /\ prepared = [size |-> 0, revision |-> 0]
  /\ limit = 0 /\ position = 0 /\ tail = <<>> /\ awaiting = FALSE
  /\ matched = FALSE /\ invalid = FALSE /\ short = FALSE
  /\ remaining = MaxTotalArtifactBytes
  /\ verdict = [x \in Range(Labels) |-> "none"]

\* An artifact that no search will read has no content here.
EvaluationInit ==
  /\ expected \in [Range(Labels) -> Needles \cup {<<>>}]
  /\ replacement \in [Range(Labels) -> {"none", "present", "unknown"}]
  /\ revision \in [Range(Labels) -> {0, 1}] /\ rewrites = 0
  /\ content \in [Range(Labels) -> UNION {Contents[x] : x \in Range(Labels)}]
  /\ \A x \in Range(Labels) :
       /\ expected[x] = <<>> => replacement[x] = "none" /\ revision[x] = 0
       /\ replacement[x] # "none" => revision[x] = 0
       /\ content[x] \in IF revision[x] = 0 THEN {<<>>} ELSE Contents[x]
  /\ label = 1 /\ step = "begin"
  /\ prepared = [size |-> 0, revision |-> 0]
  /\ limit = 0 /\ position = 0 /\ tail = <<>> /\ awaiting = FALSE
  /\ matched = FALSE /\ invalid = FALSE /\ short = FALSE
  /\ remaining = MaxTotalArtifactBytes
  /\ verdict = [x \in Range(Labels) |-> "none"]

-----------------------------------------------------------------------------
\* The user writes into the file that is being read.
Rewrite ==
  /\ step \in {"open", "read", "verify"} /\ rewrites < MaxRewrites
  /\ rewrites' = rewrites + 1
  /\ \E c \in Rewritten : content' = [content EXCEPT ![Now] = c]
  /\ revision' = [revision EXCEPT ![Now] = @ + 1]
  /\ UNCHANGED <<expectation, label, step, prepared, search, remaining, verdict>>

\* _contains_failure returns: the next label starts with what is left.
Conclude(v) ==
  /\ verdict' = [verdict EXCEPT ![Now] = v]
  /\ label' = IF label = 1 THEN 2 ELSE label
  /\ step' = IF label = 1 THEN "begin" ELSE "over"
  /\ remaining' = remaining - position
  /\ position' = 0 /\ limit' = 0 /\ tail' = <<>> /\ awaiting' = FALSE
  /\ matched' = FALSE /\ invalid' = FALSE /\ short' = FALSE
  /\ prepared' = [size |-> 0, revision |-> 0]

FilesKept == UNCHANGED <<artifact, expectation>>

\* The checks that come before the file, in their order, and prepare_regular_file.
Prepare ==
  /\ step = "begin"
  /\ IF expected[Now] = <<>> THEN Conclude("met")
     ELSE IF replacement[Now] = "present" THEN Conclude("artifact_decode_replaced")
     ELSE IF replacement[Now] = "unknown" THEN Conclude("artifact_decode_unknown")
     ELSE IF remaining <= 0 THEN Conclude("scan_incomplete")
     ELSE IF revision[Now] = 0 THEN Conclude("artifact_unreadable")
     ELSE /\ prepared' = [size |-> Len(content[Now]), revision |-> revision[Now]]
          /\ limit' = Min({prepared'.size, MaxArtifactBytes, remaining})
          /\ step' = "open"
          /\ UNCHANGED <<label, position, tail, awaiting, matched, invalid, short,
                         remaining, verdict>>
  /\ FilesKept

OpenArtifact ==
  /\ step = "open"
  /\ IF revision[Now] # prepared.revision THEN Conclude("artifact_changed")
     ELSE /\ step' = IF limit = 0 THEN "verify" ELSE "read"
          /\ UNCHANGED <<label, prepared, search, remaining, verdict>>
  /\ FilesKept

\* The incremental decoder: whether bytes may follow, and end with a lead byte.
Accepts(bytes, lead) ==
  \A i \in DOMAIN bytes :
    /\ bytes[i] # "bad"
    /\ bytes[i] = "tail" <=> IF i = 1 THEN lead ELSE bytes[i - 1] = "lead"

Occurs(needle, bytes) ==
  \E i \in 0 .. Len(bytes) - Len(needle) :
    SubSeq(bytes, i + 1, i + Len(needle)) = needle

\* Mutant: one byte less is kept.
Carried_Short(bytes) ==
  SubSeq(bytes, IF Len(bytes) > MaxNeedleBytes - 2
                THEN Len(bytes) - MaxNeedleBytes + 3 ELSE 1, Len(bytes))

\* (tail + chunk)[-TAIL_BYTES:], the longest part of a needle that can come
\* before a chunk border.
Carried(bytes) ==
  SubSeq(bytes, IF Len(bytes) > MaxNeedleBytes - 1
                THEN Len(bytes) - MaxNeedleBytes + 2 ELSE 1, Len(bytes))

ReadChunk ==
  /\ step = "read"
  /\ LET requested == Min({ReadChunkBytes, limit - position})
         end == Min({position + requested, Len(content[Now])})
         chunk == IF end <= position THEN <<>>
                  ELSE SubSeq(content[Now], position + 1, end)
     IN IF chunk = <<>>
        THEN /\ short' = TRUE /\ step' = "verify"
             /\ UNCHANGED <<position, tail, awaiting, matched, invalid>>
        ELSE /\ position' = position + Len(chunk)
             /\ invalid' = (invalid \/ ~Accepts(chunk, awaiting))
             /\ awaiting' = (Last(chunk) = "lead")
             /\ matched' = (matched \/ Occurs(expected[Now], tail \o chunk))
             /\ tail' = Carried(tail \o chunk)
             /\ step' = IF position' < limit THEN "read" ELSE "verify"
             /\ UNCHANGED short
  /\ FilesKept /\ UNCHANGED <<label, prepared, limit, remaining, verdict>>

ScanComplete == prepared.size <= limit

\* A character that the end of the whole file cuts is invalid, one that the
\* limit cuts is not.
InvalidUtf8 == invalid \/ (ScanComplete /\ ~short /\ awaiting)

\* verify_opened_file, then the verdict in its order.
VerifyArtifact ==
  /\ step = "verify"
  /\ Conclude(IF revision[Now] # prepared.revision THEN "artifact_changed"
              ELSE IF short THEN "artifact_unreadable"
              ELSE IF InvalidUtf8 THEN "artifact_invalid_utf8"
              ELSE IF matched THEN "met"
              ELSE IF ~ScanComplete THEN "scan_incomplete"
              ELSE "assertion_mismatch")
  /\ FilesKept

\* Opening, reading or verifying the file fails, or who it is cannot be told:
\* what was read until then is charged.
ArtifactFails ==
  /\ step \in {"open", "read", "verify"}
  /\ Conclude("artifact_unreadable")
  /\ FilesKept

EvaluationNext ==
  Rewrite \/ Prepare \/ OpenArtifact \/ ReadChunk \/ VerifyArtifact \/ ArtifactFails

EvaluationSpec == EvaluationInit /\ [][EvaluationNext]_evaluationVars

-----------------------------------------------------------------------------
\* What is searched of label x: its file, up to both limits.
Allowance(x) ==
  IF x = "stdout" THEN MaxTotalArtifactBytes
  ELSE MaxTotalArtifactBytes -
       IF expected["stdout"] = <<>> \/ replacement["stdout"] # "none" THEN 0
       ELSE Min({Len(content["stdout"]), MaxArtifactBytes, MaxTotalArtifactBytes})

Searched(x) ==
  SubSeq(content[x], 1, Min({Len(content[x]), MaxArtifactBytes, Allowance(x)}))

ValidText(bytes, whole) ==
  Accepts(bytes, FALSE) /\ ~(whole /\ bytes # <<>> /\ Last(bytes) = "lead")

\* A file that nobody rewrote is reported unreadable only if that failed.
ReadFailed(x) == revision[x] = 1 /\ verdict[x] = "artifact_unreadable"

(* However the chunks fall, what is concluded of an artifact that was      *)
(* searched is what a search of its permitted prefix at once concludes:    *)
(* the expectation is met only if the needle occurs there and that is      *)
(* text, and is contradicted only by a whole file of text without it.  A   *)
(* file that was rewritten in between gets no verdict on its content; both *)
(* files together are never read past the budget.  A file that could not   *)
(* be read to its end gets an error and no verdict; how much of the budget *)
(* that leaves to the second search depends on where it failed, so nothing *)
(* exact is said of the second search then.                                *)
VerdictExact ==
  /\ position <= remaining
  /\ step = "over" /\ rewrites = 0 =>
       \A x \in {l \in Range(Labels) : expected[l] # <<>> /\ replacement[l] = "none"
                                       /\ revision[l] = 1 /\ Allowance(l) > 0
                                       /\ ~ReadFailed(l) /\ ~ReadFailed("stdout")} :
         LET whole == Len(Searched(x)) = Len(content[x])
             text == ValidText(Searched(x), whole)
             found == Occurs(expected[x], Searched(x))
         IN /\ verdict[x] = "met" <=> text /\ found
            /\ verdict[x] = "assertion_mismatch" <=> text /\ ~found /\ whole
            /\ verdict[x] = "scan_incomplete" <=> text /\ ~found /\ ~whole
  /\ step = "over" =>
       \A x \in Range(Labels) :
         revision[x] > 1 => verdict[x] \in {"artifact_changed", "artifact_unreadable"}
=============================================================================
