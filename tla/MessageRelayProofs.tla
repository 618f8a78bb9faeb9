-------------------------- MODULE MessageRelayProofs --------------------------
(***************************************************************************)
(* Proofs about MessageRelay for every input, every limit and every chunk  *)
(* size: the bytes go through unchanged, the observer gets the lines of    *)
(* the input however they were read, and no line leaves before the         *)
(* observer had it.                                                        *)
(*                                                                         *)
(* Every byte string that the relay holds is an interval of the input, so  *)
(* that the argument has two parts: that these intervals adjoin (Places),  *)
(* and what the lines of the input up to one position are, given those up  *)
(* to the start of the last one (Reached, Watched).                        *)
(***************************************************************************)
EXTENDS MessageRelay, SequenceTheorems, FiniteSetTheorems, TLAPS

\* The bytes after position a, up to position b.
Bytes(a, b) == [i \in 1 .. b - a |-> a + i]

\* What has been cut so far.
Cut == taken - Len(chunk)

Cutting == {"top", "read", "segment"}
Writing == {"write", "writing"}
Unharmed == ~broken /\ ~closed

Types ==
  /\ ends \subseteq 1 .. MaxInput
  /\ taken \in Nat /\ streaming \in BOOLEAN
  /\ chunk \in Seq(Nat) /\ pending \in Seq(Nat) /\ sent \in Seq(Nat)
  /\ observed \in Seq(Seq(Nat)) /\ oversized \in Nat
  /\ then \in {"segment", "eof", "done"}
  /\ pc \in Cutting \cup Writing \cup {"eof", "except", "finally", "done"}

\* These are the bytes from a to b, in one piece or in two.
Adjoins(pieces, a, b) ==
  \/ a <= b /\ pieces = <<Bytes(a, b)>>
  \/ \E m \in a .. b : pieces = <<Bytes(a, m), Bytes(m, b)>>

\* The last write is what was pending.
Flushing ==
  \E b \in Len(sent) .. taken : /\ todo = <<Bytes(Len(sent), b)>>
                                /\ Unharmed => b = taken

\* Where the bytes are: sent, to be written, pending, cut from the chunk.
Places ==
  /\ Cut \in Nat /\ sent = Bytes(0, Len(sent)) /\ chunk = Bytes(Cut, taken)
  /\ Len(pending) <= ObservationBytes
  /\ streaming /\ then = "segment" => pending = <<>>
  /\ pc \in Cutting =>
       /\ then = "segment" /\ todo = <<>>
       /\ Len(sent) + Len(pending) = Cut /\ pending = Bytes(Len(sent), Cut)
       /\ chunk = <<>> <=> pc # "segment"
  /\ pc \in Writing =>
       IF then = "done"
       THEN Flushing
       ELSE /\ Adjoins(todo, Len(sent), Cut) /\ pending = <<>>
            /\ then = "eof" => Cut = taken
  /\ pc = "eof" => /\ then = "eof" /\ todo = <<>> /\ pending = <<>> /\ Len(sent) <= taken
                   /\ Unharmed => Len(sent) = taken
  /\ pc \in {"except", "finally"} =>
       /\ then # "done" /\ todo = <<>>
       /\ Len(sent) + Len(pending) <= taken
       /\ pending = Bytes(Len(sent), Len(sent) + Len(pending))
       /\ Unharmed => Len(sent) + Len(pending) = taken
  /\ pc = "except" => broken
  /\ pc = "done" /\ Unharmed => Len(sent) = taken

-----------------------------------------------------------------------------
(* Lines.                                                                  *)

\* Position q starts the last line of the first n bytes, or the next one.
Reached(q, n) ==
  /\ q <= n + 1
  /\ q = 1 \/ q - 1 \in ends
  /\ \A e \in ends : e < q \/ e >= n

LineOf(p, n) == [i \in 1 .. Cardinality(LineBytes(p, n)) |-> p + i - 1]

\* These messages are these lines of the first n bytes, in their order.
Handed(messages, lines, n) ==
  /\ Len(messages) = Cardinality(lines)
  /\ {messages[i] : i \in DOMAIN messages} = {LineOf(p, n) : p \in lines}
  /\ \A i, j \in DOMAIN messages : i < j => messages[i][1] < messages[j][1]

\* A line that has begun is pending, or streamed because it is too long.
LineKept ==
  then = "segment" /\ pc \in Cutting \cup Writing =>
    \E q \in 1 .. Cut + 1 :
      /\ Reached(q, Cut) /\ (q <= Cut => Cut \notin ends)
      /\ IF streaming THEN Cut + 1 - q > ObservationBytes
         ELSE q = Cut + 1 - Len(pending)

\* What the observer knows is what has been cut.
Watched ==
  /\ pc \in Cutting \cup Writing /\ then = "segment" =>
       oversized = Cardinality(TooLongLines(Cut)) /\ Handed(observed, WholeLines(Cut), Cut)
  /\ pc \in Writing \cup {"eof"} /\ then = "eof" =>
       /\ oversized = Cardinality(TooLongLines(taken))
       /\ Handed(observed, Lines(taken) \ TooLongLines(taken), taken)

IInv == Types /\ Places /\ LineKept /\ Watched /\ ObservedBeforeForwarded

-----------------------------------------------------------------------------
(* Lemmas about intervals.                                                 *)

\* The order of the natural numbers has no infinite descent.
LEMMA LessIsWellFounded == IsWellFoundedOn({p \in Nat \X Nat : p[1] < p[2]}, Nat)
BY NatLessThanWellFounded, Zenon DEF OpToRel

\* A set of natural numbers has a least one.
LEMMA LeastNatural ==
  ASSUME NEW S \in SUBSET Nat, S # {}
  PROVE  \E m \in S : \A y \in S : m <= y
<1> DEFINE R == {p \in Nat \X Nat : p[1] < p[2]}
<1>1. IsWellFoundedOn(R, Nat)
  BY LessIsWellFounded
<1>2. \A x, y \in Nat : y < x => <<y, x>> \in R
  OBVIOUS
<1> HIDE DEF R
<1>3. \E x \in S : \A y \in S : ~ (<<y, x>> \in R)
  BY WFMin, <1>1
<1>4. PICK m \in S : \A y \in S : ~ (<<y, m>> \in R)
  BY <1>3, Zenon
<1>5. ASSUME NEW y \in S
      PROVE  m <= y
  <2>1. m \in Nat /\ y \in Nat
    OBVIOUS
  <2>2. ~ (y < m)
    BY <1>2, <1>4, <2>1
  <2>3. QED
    BY <2>1, <2>2
<1>6. QED
  BY <1>5

\* An interval of bytes, and what joining two or cutting one gives.
LEMMA BytesAre ==
  ASSUME NEW a \in Nat, NEW b \in Nat, a <= b
  PROVE  /\ Bytes(a, b) \in Seq(Nat) /\ Len(Bytes(a, b)) = b - a
         /\ DOMAIN Bytes(a, b) = 1 .. b - a
         /\ \A i \in 1 .. b - a : Bytes(a, b)[i] = a + i
         /\ Bytes(a, b) = <<>> <=> a = b
<1>1. b - a \in Nat
  OBVIOUS
<1>2. Bytes(a, b) \in [1 .. b - a -> Nat]
  BY DEF Bytes
<1>3. Bytes(a, b) \in Seq(Nat) /\ Len(Bytes(a, b)) = b - a
  BY <1>1, <1>2
<1>4. \A i \in 1 .. b - a : Bytes(a, b)[i] = a + i
  BY DEF Bytes
<1>5. QED
  BY <1>1, <1>2, <1>3, <1>4

LEMMA BytesJoin ==
  ASSUME NEW a \in Nat, NEW b \in Nat, NEW c \in Nat, a <= b, b <= c
  PROVE  Bytes(a, b) \o Bytes(b, c) = Bytes(a, c)
<1> DEFINE s == Bytes(a, b)
           t == Bytes(b, c)
           u == Bytes(a, c)
<1>1. s \in Seq(Nat) /\ Len(s) = b - a /\ \A i \in 1 .. b - a : s[i] = a + i
  BY BytesAre
<1>2. t \in Seq(Nat) /\ Len(t) = c - b /\ \A i \in 1 .. c - b : t[i] = b + i
  BY BytesAre
<1>3. u \in Seq(Nat) /\ Len(u) = c - a /\ \A i \in 1 .. c - a : u[i] = a + i
  <2>1. a <= c
    OBVIOUS
  <2>2. QED
    BY <2>1, BytesAre
<1> HIDE DEF s, t, u
<1>4. s \o t \in Seq(Nat) /\ Len(s \o t) = c - a
  <2>1. s \in Seq(Nat) /\ t \in Seq(Nat)
    BY <1>1, <1>2
  <2>2. s \o t \in Seq(Nat) /\ Len(s \o t) = Len(s) + Len(t)
    BY <2>1, ConcatProperties, Zenon
  <2>3. (b - a) + (c - b) = c - a
    OBVIOUS
  <2>4. QED
    BY <1>1, <1>2, <2>2, <2>3
<1>5. \A i \in 1 .. Len(s) + Len(t) :
        (s \o t)[i] = IF i <= Len(s) THEN s[i] ELSE t[i - Len(s)]
  <2>1. s \in Seq(Nat) /\ t \in Seq(Nat)
    BY <1>1, <1>2
  <2>2. QED
    BY <2>1, ConcatProperties, Zenon
<1>6. ASSUME NEW i \in 1 .. c - a
      PROVE  (s \o t)[i] = u[i]
  <2>1. CASE i <= b - a
    <3>1. (s \o t)[i] = s[i] /\ i \in 1 .. b - a
      BY <1>1, <1>2, <1>5, <2>1
    <3>2. QED
      BY <1>1, <1>3, <3>1
  <2>2. CASE ~ (i <= b - a)
    <3>1. i - (b - a) \in 1 .. c - b
      BY <2>2
    <3>2. i \in 1 .. Len(s) + Len(t) /\ ~ (i <= Len(s)) /\ Len(s) = b - a
      BY <1>1, <1>2, <2>2
    <3>3. (s \o t)[i] = t[i - (b - a)]
      BY <1>5, <3>2
    <3>4. QED
      BY <1>2, <1>3, <3>1, <3>3
  <2>3. QED
    BY <2>1, <2>2
<1>7. s \o t = u
  BY <1>3, <1>4, <1>6, SeqEqual
<1>8. QED
  BY <1>7 DEF s, t, u

LEMMA BytesPart ==
  ASSUME NEW a \in Nat, NEW b \in Nat, NEW x \in Nat, NEW y \in Nat, a <= x, x <= y, y <= b,
         NEW m \in Nat, NEW n \in Nat, m = x - a + 1, n = y - a
  PROVE  SubSeq(Bytes(a, b), m, n) = Bytes(x, y)
<1> DEFINE s == Bytes(a, b)
           u == Bytes(x, y)
<1>1. s \in Seq(Nat) /\ Len(s) = b - a /\ \A i \in 1 .. b - a : s[i] = a + i
  <2>1. a <= b
    OBVIOUS
  <2>2. QED
    BY <2>1, BytesAre
<1>2. u \in Seq(Nat) /\ Len(u) = y - x /\ \A i \in 1 .. y - x : u[i] = x + i
  BY BytesAre
<1> HIDE DEF s, u
<1>3. m \in 1 .. Len(s) + 1 /\ n \in 0 .. Len(s) /\ n + 1 - m = y - x
  BY <1>1
<1>4. /\ SubSeq(s, m, n) \in Seq(Nat) /\ Len(SubSeq(s, m, n)) = y - x
      /\ \A i \in 1 .. y - x : SubSeq(s, m, n)[i] = s[m + i - 1]
  BY <1>1, <1>3
<1>5. \A i \in 1 .. y - x : SubSeq(s, m, n)[i] = u[i]
  BY <1>1, <1>2, <1>3, <1>4
<1>6. SubSeq(s, m, n) = u
  BY <1>2, <1>4, <1>5, SeqEqual
<1>7. QED
  BY <1>6 DEF s, u

\* The first n bytes of an interval and the rest.
LEMMA BytesSplit ==
  ASSUME NEW a \in Nat, NEW e \in Nat, NEW s \in Nat, a <= s, s <= e
  PROVE  /\ SubSeq(Bytes(a, e), 1, s - a) = Bytes(a, s)
         /\ SubSeq(Bytes(a, e), s - a + 1, e - a) = Bytes(s, e)
<1> DEFINE o == 1
           n == s - a
           m == s - a + 1
           l == e - a
<1>1. /\ n \in Nat /\ m \in Nat /\ l \in Nat /\ o \in Nat
      /\ o = a - a + 1 /\ n = s - a /\ m = s - a + 1 /\ l = e - a /\ a <= a /\ e <= e
  OBVIOUS
<1> HIDE DEF n, m, l, o
<1>2. SubSeq(Bytes(a, e), o, n) = Bytes(a, s)
  BY <1>1, BytesPart
<1>3. SubSeq(Bytes(a, e), m, l) = Bytes(s, e)
  BY <1>1, BytesPart
<1>4. QED
  BY <1>2, <1>3 DEF n, m, l, o

-----------------------------------------------------------------------------
(* Lemmas about lines.                                                     *)

\* The newlines are positions, from 1 on.
Positions == ends \subseteq Nat \ {0}

LEMMA EndsArePositions == Types => Positions
BY RelayAssumption DEF Types, Positions

\* A line before the last one is not changed by what follows it.
LEMMA EarlierLine ==
  ASSUME Positions, NEW q \in Nat \ {0}, NEW n \in Nat, Reached(q, n), NEW p \in Lines(q - 1)
  PROVE  /\ LineBytes(p, n) = LineBytes(p, q - 1)
         /\ Ended(p, n) /\ Ended(p, q - 1) /\ p \in LineBytes(p, q - 1)
<1>1. p \in Nat /\ 1 <= p /\ p <= q - 1 /\ q - 1 \in ends /\ q - 1 <= n
  BY DEF Lines, Reached
<1>2. ends \subseteq Nat
  BY DEF Positions
<1>3. LineBytes(p, n) = LineBytes(p, q - 1)
  BY <1>1, <1>2 DEF LineBytes
<1>4. PICK e \in {x \in ends : x >= p} : \A y \in {x \in ends : x >= p} : e <= y
  <2>1. {x \in ends : x >= p} \in SUBSET Nat /\ q - 1 \in {x \in ends : x >= p}
    BY <1>1, <1>2
  <2>2. QED
    BY <2>1, LeastNatural
<1>5. e \in LineBytes(p, q - 1)
  BY <1>1, <1>2, <1>4 DEF LineBytes
<1>6. p \in LineBytes(p, q - 1)
  BY <1>1, <1>2 DEF LineBytes
<1>7. QED
  BY <1>3, <1>4, <1>5, <1>6 DEF Ended

\* The last line of n bytes.
LEMMA LastLine ==
  ASSUME Positions, NEW q \in Nat \ {0}, NEW n \in Nat, Reached(q, n), q <= n
  PROVE  /\ Cardinality(LineBytes(q, n)) = n + 1 - q
         /\ Ended(q, n) <=> n \in ends
         /\ LineOf(q, n) = Bytes(q - 1, n)
         /\ Lines(n) = Lines(q - 1) \cup {q} /\ q \notin Lines(q - 1)
<1>1. ends \subseteq Nat
  BY DEF Positions
<1>2. LineBytes(q, n) = q .. n
  BY <1>1 DEF LineBytes, Reached
<1>3. Cardinality(q .. n) = n + 1 - q
  BY FS_Interval
<1>4. Ended(q, n) <=> n \in ends
  BY <1>1, <1>2 DEF Ended, Reached
<1>5. LineOf(q, n) = Bytes(q - 1, n)
  <2>1. LineOf(q, n) = [i \in 1 .. n + 1 - q |-> q + i - 1]
    BY <1>2, <1>3 DEF LineOf
  <2>2. n - (q - 1) = n + 1 - q /\ \A i \in 1 .. n + 1 - q : q - 1 + i = q + i - 1
    OBVIOUS
  <2>3. QED
    BY <2>1, <2>2 DEF Bytes
<1>6. \A p : p \in Lines(n) <=> p \in Lines(q - 1) \/ p = q
  BY <1>1 DEF Lines, Reached
<1>7. q \notin Lines(q - 1)
  BY DEF Lines
<1>8. QED
  BY <1>2, <1>3, <1>4, <1>5, <1>6, <1>7

\* There are finitely many lines.
LEMMA LinesFinite ==
  ASSUME NEW n \in Nat
  PROVE  /\ IsFiniteSet(Lines(n)) /\ IsFiniteSet(TooLongLines(n)) /\ IsFiniteSet(WholeLines(n))
         /\ TooLongLines(n) \subseteq Lines(n) /\ WholeLines(n) \subseteq Lines(n)
         /\ Lines(n) \subseteq 1 .. n
<1>1. /\ Lines(n) \subseteq 1 .. n
      /\ TooLongLines(n) \subseteq Lines(n) /\ WholeLines(n) \subseteq Lines(n)
  BY DEF Lines, TooLongLines, WholeLines
<1>2. IsFiniteSet(1 .. n)
  BY FS_Interval
<1>3. QED
  BY <1>1, <1>2, FS_Subset

\* The lines of n bytes: those before the last one, and the last one.
LEMMA LinesReached ==
  ASSUME Positions, NEW q \in Nat \ {0}, NEW n \in Nat, Reached(q, n)
  PROVE  /\ Lines(n) = Lines(q - 1) \cup {p \in {q} : q <= n}
         /\ TooLongLines(n) = TooLongLines(q - 1) \cup
                                {p \in {q} : q <= n /\ n + 1 - q > ObservationBytes}
         /\ WholeLines(n) = (Lines(q - 1) \ TooLongLines(q - 1)) \cup
                              {p \in {q} : q <= n /\ n \in ends /\ n + 1 - q <= ObservationBytes}
         /\ q \notin Lines(q - 1)
         /\ \A p \in Lines(q - 1) : LineOf(p, n) = LineOf(p, q - 1)
<1>1. q - 1 \in Nat /\ q \notin Lines(q - 1)
  BY DEF Lines
<1>2. \A p \in Lines(q - 1) : LineOf(p, n) = LineOf(p, q - 1)
  BY EarlierLine DEF LineOf
<1>3. \A p \in Lines(q - 1) : Ended(p, n)
  BY EarlierLine
<1>4. \A p \in Lines(q - 1) : p \in TooLongLines(n) <=> p \in TooLongLines(q - 1)
  <2>1. q - 1 <= n
    BY DEF Reached
  <2>2. Lines(q - 1) \subseteq Lines(n)
    BY <1>1, <2>1 DEF Lines
  <2>3. QED
    BY <2>2, EarlierLine DEF TooLongLines
<1>5. CASE q <= n
  <2>1. /\ Cardinality(LineBytes(q, n)) = n + 1 - q
        /\ Ended(q, n) <=> n \in ends
        /\ Lines(n) = Lines(q - 1) \cup {q}
    BY <1>5, LastLine
  <2>2. q \in TooLongLines(n) <=> n + 1 - q > ObservationBytes
    BY <2>1 DEF TooLongLines
  <2>3. q \in WholeLines(n) <=> n \in ends /\ n + 1 - q <= ObservationBytes
    BY <2>1, <2>2, RelayAssumption DEF WholeLines
  <2>4. TooLongLines(n) = TooLongLines(q - 1) \cup
                            {p \in {q} : q <= n /\ n + 1 - q > ObservationBytes}
    BY <1>4, <1>5, <2>1, <2>2, LinesFinite, <1>1
  <2>5. WholeLines(n) = (Lines(q - 1) \ TooLongLines(q - 1)) \cup
                          {p \in {q} : q <= n /\ n \in ends /\ n + 1 - q <= ObservationBytes}
    <3>1. \A p \in Lines(q - 1) : p \in WholeLines(n) <=> p \notin TooLongLines(q - 1)
      BY <1>3, <1>4, <2>1 DEF WholeLines
    <3>2. QED
      BY <1>1, <1>5, <2>1, <2>3, <3>1, LinesFinite
  <2>6. QED
    BY <1>1, <1>2, <1>5, <2>1, <2>4, <2>5
<1>6. CASE ~ (q <= n)
  <2>1. n = q - 1
    BY <1>6 DEF Reached
  <2>2. WholeLines(n) = Lines(q - 1) \ TooLongLines(q - 1)
    BY <1>3, <2>1 DEF WholeLines
  <2>3. QED
    BY <1>1, <1>2, <1>6, <2>1, <2>2
<1>7. QED
  BY <1>5, <1>6

-----------------------------------------------------------------------------
(* What a segment is, and what a write sends.                              *)

USE DEF cutting, writing, watching, channel, ending

\* A segment goes up to the first newline of the chunk, or to its end.
LEMMA SegmentIs ==
  ASSUME Types, Places, pc = "segment"
  PROVE  LET d == Cut + SegmentLength
         IN /\ SegmentLength \in Nat \ {0} /\ d \in Nat /\ d <= taken /\ Cut < d
            /\ SegmentLength <= Len(chunk)
            /\ Segment = Bytes(Cut, d)
            /\ SubSeq(chunk, SegmentLength + 1, Len(chunk)) = Bytes(d, taken)
            /\ \A e \in ends : e <= Cut \/ e >= d
            /\ EndsLine <=> d \in ends
<1> USE DEF Types
<1>1. /\ Cut \in Nat /\ taken \in Nat /\ Len(chunk) = taken - Cut /\ Cut < taken
      /\ chunk = Bytes(Cut, taken)
      /\ DOMAIN chunk = 1 .. taken - Cut
      /\ \A i \in 1 .. taken - Cut : chunk[i] = Cut + i
  <2>1. /\ Cut \in Nat /\ chunk = Bytes(Cut, taken) /\ chunk # <<>>
    BY DEF Places, Cutting
  <2>2. Len(chunk) \in Nat /\ Len(chunk) # 0
    BY <2>1
  <2>3. Len(chunk) = taken - Cut /\ Cut < taken
    BY <2>1, <2>2 DEF Cut
  <2>4. Cut \in Nat /\ taken \in Nat /\ Cut <= taken
    BY <2>1, <2>3
  <2>5. /\ DOMAIN Bytes(Cut, taken) = 1 .. taken - Cut
        /\ \A i \in 1 .. taken - Cut : Bytes(Cut, taken)[i] = Cut + i
    BY <2>4, BytesAre
  <2>6. QED
    BY <2>1, <2>3, <2>4, <2>5
<1>2. ends \subseteq Nat \ {0}
  BY EndsArePositions DEF Positions
<1> DEFINE L == SegmentLength
<1>3. /\ L \in 1 .. taken - Cut
      /\ \A i \in 1 .. taken - Cut : i < L => Cut + i \notin ends
      /\ EndsLine <=> Cut + L \in ends
  <2>1. Newlines = {i \in 1 .. taken - Cut : Cut + i \in ends}
    BY <1>1 DEF Newlines
  <2>2. CASE EndsLine
    <3>1. \E i \in Newlines : \A j \in Newlines : i <= j
      <4>1. Newlines \in SUBSET Nat /\ Newlines # {}
        BY <2>1, <2>2 DEF EndsLine
      <4>2. QED
        BY <4>1, LeastNatural
    <3>2. L \in Newlines /\ \A j \in Newlines : L <= j
      BY <2>2, <3>1 DEF SegmentLength
    <3>3. QED
      BY <2>1, <2>2, <3>2
  <2>3. CASE ~EndsLine
    <3>1. L = taken - Cut
      BY <1>1, <2>3 DEF SegmentLength
    <3>2. \A i \in 1 .. taken - Cut : Cut + i \notin ends
      BY <2>1, <2>3 DEF EndsLine
    <3>3. taken - Cut \in 1 .. taken - Cut
      BY <1>1
    <3>4. Cut + L \notin ends
      BY <3>1, <3>2, <3>3
    <3>5. QED
      BY <2>3, <3>1, <3>2, <3>3, <3>4
  <2>4. QED
    BY <2>2, <2>3
<1>4. /\ L \in Nat \ {0} /\ Cut + L \in Nat /\ Cut + L <= taken /\ Cut < Cut + L
      /\ L <= Len(chunk)
  BY <1>1, <1>3
<1>5. \A e \in ends : e <= Cut \/ e >= Cut + L
  <2>1. SUFFICES ASSUME NEW e \in ends, e > Cut, e < Cut + L
                 PROVE  FALSE
    BY <1>1, <1>2, <1>4
  <2>2. e - Cut \in 1 .. taken - Cut /\ e - Cut < L /\ Cut + (e - Cut) = e
    BY <1>1, <1>2, <1>4, <2>1
  <2>3. QED
    BY <1>3, <2>1, <2>2
<1> HIDE DEF L
<1> DEFINE d == Cut + L
<1>6. d \in Nat /\ Cut <= d /\ d <= taken /\ L = d - Cut /\ L + 1 = d - Cut + 1
  BY <1>1, <1>4
<1> HIDE DEF d
<1>7. SubSeq(chunk, 1, L) = Bytes(Cut, d)
  <2> DEFINE i == 1
             j == L
  <2>1. /\ Cut \in Nat /\ taken \in Nat /\ Cut \in Nat /\ d \in Nat
        /\ Cut <= Cut /\ Cut <= d /\ d <= taken
        /\ i \in Nat /\ j \in Nat /\ i = Cut - Cut + 1 /\ j = d - Cut
    BY <1>1, <1>3, <1>6
  <2> HIDE DEF i, j
  <2>2. SubSeq(Bytes(Cut, taken), i, j) = Bytes(Cut, d)
    BY <2>1, BytesPart, SMTT(30)
  <2>3. QED
    BY <1>1, <2>2 DEF i, j
<1>8. SubSeq(chunk, L + 1, Len(chunk)) = Bytes(d, taken)
  <2> DEFINE i == L + 1
             j == taken - Cut
  <2>1. /\ Cut \in Nat /\ taken \in Nat /\ d \in Nat /\ taken \in Nat
        /\ Cut <= d /\ d <= taken /\ taken <= taken
        /\ i \in Nat /\ j \in Nat /\ i = d - Cut + 1 /\ j = taken - Cut
    BY <1>1, <1>3, <1>6
  <2> HIDE DEF i, j
  <2>2. SubSeq(Bytes(Cut, taken), i, j) = Bytes(d, taken)
    BY <2>1, BytesPart, SMTT(30)
  <2>3. QED
    BY <1>1, <2>2 DEF i, j
<1>9. QED
  BY <1>3, <1>4, <1>5, <1>7, <1>8 DEF L, d, Segment

\* What is buffered of a segment goes up to the limit plus one byte.
LEMMA BufferedIs ==
  ASSUME Types, Places, pc = "segment"
  PROVE  LET d == Cut + SegmentLength
         IN /\ Kept \in Nat \ {0} /\ Kept <= SegmentLength
            /\ Buffered = Bytes(Len(sent), Cut + Kept) /\ Excess = Bytes(Cut + Kept, d)
            /\ Len(Buffered) = Len(pending) + Kept
            /\ TooLong(Buffered) <=> Len(pending) + SegmentLength > ObservationBytes
            /\ ~TooLong(Buffered) => Kept = SegmentLength
            /\ Excess = <<>> <=> Kept = SegmentLength
<1> DEFINE L == SegmentLength
           d == Cut + L
           k == Kept
<1>1. /\ L \in Nat \ {0} /\ d \in Nat /\ Cut \in Nat /\ Segment = Bytes(Cut, d) /\ d = Cut + L
      /\ Len(sent) \in Nat /\ Len(pending) \in Nat /\ Len(sent) + Len(pending) = Cut
      /\ pending = Bytes(Len(sent), Cut) /\ Len(pending) <= ObservationBytes
      /\ ObservationBytes \in Nat
  BY SegmentIs, RelayAssumption, SMTT(30) DEF Types, Places, Cutting
<1>2. k = IF ObservationBytes + 1 - Len(pending) < L THEN ObservationBytes + 1 - Len(pending) ELSE L
  BY DEF Kept, Remaining
<1>3. Buffered = pending \o SubSeq(Segment, 1, k) /\ Excess = SubSeq(Segment, k + 1, L)
  BY DEF Buffered, Excess
<1> HIDE DEF L, d, k
<1> DEFINE c == Cut + k
           a == Len(sent)
<1>4. /\ k \in Nat \ {0} /\ k <= L /\ c \in Nat /\ c <= d /\ Cut <= c /\ a <= Cut /\ a <= c
      /\ k = c - Cut /\ k + 1 = c - Cut + 1 /\ L = d - Cut /\ c - a = Len(pending) + k
      /\ a \in Nat /\ Cut <= d /\ (c = d <=> k = L)
  BY <1>1, <1>2
<1> HIDE DEF c, a
<1>5. SubSeq(Segment, 1, k) = Bytes(Cut, c)
  <2> DEFINE i == 1
             j == k
  <2>1. /\ Cut \in Nat /\ d \in Nat /\ Cut \in Nat /\ c \in Nat
        /\ Cut <= Cut /\ Cut <= c /\ c <= d
        /\ i \in Nat /\ j \in Nat /\ i = Cut - Cut + 1 /\ j = c - Cut
    BY <1>1, <1>4
  <2> HIDE DEF i, j
  <2>2. SubSeq(Bytes(Cut, d), i, j) = Bytes(Cut, c)
    BY <2>1, BytesPart
  <2>3. QED
    BY <1>1, <2>2 DEF i, j
<1>6. Excess = Bytes(c, d)
  <2> DEFINE i == k + 1
             j == L
  <2>1. /\ Cut \in Nat /\ d \in Nat /\ c \in Nat /\ d \in Nat
        /\ Cut <= c /\ c <= d /\ d <= d
        /\ i \in Nat /\ j \in Nat /\ i = c - Cut + 1 /\ j = d - Cut
    BY <1>1, <1>4
  <2> HIDE DEF i, j
  <2>2. SubSeq(Bytes(Cut, d), i, j) = Bytes(c, d)
    BY <2>1, BytesPart
  <2>3. QED
    BY <1>1, <1>3, <2>2 DEF i, j
<1>7. Buffered = Bytes(a, c)
  <2>1. pending = Bytes(a, Cut)
    BY <1>1 DEF a
  <2>2. Bytes(a, Cut) \o Bytes(Cut, c) = Bytes(a, c)
    <3>1. a \in Nat /\ Cut \in Nat /\ c \in Nat /\ a <= Cut /\ Cut <= c
      BY <1>1, <1>4
    <3>2. QED
      BY <3>1, BytesJoin
  <2>3. QED
    BY <1>3, <1>5, <2>1, <2>2
<1>8. Len(Buffered) = Len(pending) + k
  <2>1. Len(Bytes(a, c)) = c - a
    BY <1>4, BytesAre
  <2>2. QED
    BY <1>4, <1>7, <2>1
<1>9. Excess = <<>> <=> k = L
  <2>1. Bytes(c, d) = <<>> <=> c = d
    BY <1>1, <1>4, BytesAre
  <2>2. QED
    BY <1>4, <1>6, <2>1
<1>10. TooLong(Buffered) <=> Len(pending) + k > ObservationBytes
  BY <1>8 DEF TooLong
<1>11. Len(pending) + k > ObservationBytes <=> Len(pending) + L > ObservationBytes
  BY <1>1, <1>2, <1>4
<1>12. Len(pending) + k <= ObservationBytes => k = L
  BY <1>1, <1>2, <1>4
<1>13. ~TooLong(Buffered) => k = L
  BY <1>1, <1>4, <1>10, <1>12
<1>14. QED
  BY <1>3, <1>4, <1>6, <1>7, <1>8, <1>9, <1>10, <1>11, <1>13 DEF L, d, k, c, a

\* A segment that is taken moves the cut.
LEMMA CutMoves ==
  ASSUME Types, Places, TakeSegment, taken' = taken
  PROVE  LET d == Cut + SegmentLength
         IN /\ pc = "segment" /\ then' = "segment" /\ chunk' = Bytes(d, taken) /\ Cut' = d
            /\ chunk' \in Seq(Nat) /\ (chunk' = <<>> <=> d = taken)
<1> DEFINE d == Cut + SegmentLength
<1>1. pc = "segment" /\ then' = "segment"
      /\ chunk' = SubSeq(chunk, SegmentLength + 1, Len(chunk))
  BY DEF TakeSegment
<1>2. chunk' = Bytes(d, taken) /\ d \in Nat /\ d <= taken /\ taken \in Nat
  BY <1>1, SegmentIs DEF Types
<1> HIDE DEF d
<1>3. chunk' \in Seq(Nat) /\ Len(chunk') = taken - d /\ (chunk' = <<>> <=> d = taken)
  BY <1>2, BytesAre
<1>4. Cut' = d
  BY <1>2, <1>3 DEF Cut
<1>5. QED
  BY <1>1, <1>2, <1>3, <1>4 DEF d

\* Sequences of one and of two.
LEMMA OneOrTwo ==
  ASSUME NEW x, NEW y, NEW z
  PROVE  /\ Head(<<x>>) = x /\ Tail(<<x>>) = <<>>
         /\ Head(<<x, y>>) = x /\ Tail(<<x, y>>) = <<y>>
         /\ <<z>> \o <<>> = <<z>> /\ <<z>> \o <<y>> = <<z, y>>
         /\ <<x>> # <<>> /\ <<x, y>> # <<>>
<1>1. Head(<<x>>) = x /\ Head(<<x, y>>) = x
  OBVIOUS
<1>2. Tail(<<x>>) = <<>>
  OBVIOUS
<1>3. Tail(<<x, y>>) = <<y>>
  OBVIOUS
<1>4. <<z>> \o <<>> = <<z>>
  OBVIOUS
<1>5. <<z>> \o <<y>> = <<z, y>>
  <2> DEFINE S == {y, z}
  <2>1. <<z>> \in Seq(S) /\ <<y>> \in Seq(S) /\ <<z, y>> \in Seq(S)
    OBVIOUS
  <2>2. /\ Len(<<z>> \o <<y>>) = 2 /\ (<<z>> \o <<y>>)[1] = z /\ (<<z>> \o <<y>>)[2] = y
        /\ <<z>> \o <<y>> \in Seq(S)
    BY <2>1, ConcatProperties
  <2>3. Len(<<z, y>>) = 2 /\ <<z, y>>[1] = z /\ <<z, y>>[2] = y
    OBVIOUS
  <2>4. \A i \in 1 .. 2 : i = 1 \/ i = 2
    OBVIOUS
  <2> HIDE DEF S
  <2>5. QED
    BY <2>1, <2>2, <2>3, <2>4, SeqEqual
<1>6. QED
  BY <1>1, <1>2, <1>3, <1>4, <1>5

\* A write of n bytes of the first piece.
LEMMA PieceWritten ==
  ASSUME Types, Places, NEW e \in Nat, Len(sent) <= e, Head(todo) = Bytes(Len(sent), e),
         NEW n \in Nat \ {0}, Write(n)
  PROVE  LET s == Len(sent) + n
         IN /\ s <= e /\ sent' = Bytes(0, s) /\ Len(sent') = s
            /\ s = e => /\ todo' = Tail(todo)
                        /\ pc' = IF Tail(todo) # <<>> THEN "write"
                                 ELSE IF then # "segment" THEN then
                                 ELSE IF chunk = <<>> THEN "top" ELSE "segment"
            /\ s # e => todo' = <<Bytes(s, e)>> \o Tail(todo) /\ pc' = pc
<1> DEFINE h == Head(todo)
           a == Len(sent)
<1>1. a \in Nat /\ sent = Bytes(0, a) /\ h = Bytes(a, e) /\ a <= e /\ n \in Nat
  BY DEF Types, Places
<1>2. n <= Len(h) /\ sent' = sent \o SubSeq(h, 1, n)
  BY DEF Write, Written
<1>3. /\ n < Len(h) => todo' = <<SubSeq(h, n + 1, Len(h))>> \o Tail(todo) /\ pc' = pc
      /\ ~ (n < Len(h)) => /\ todo' = Tail(todo)
                           /\ pc' = IF Tail(todo) # <<>> THEN "write"
                                    ELSE IF then # "segment" THEN then
                                    ELSE IF chunk = <<>> THEN "top" ELSE "segment"
  BY DEF Write
<1> HIDE DEF h, a
<1> DEFINE s == a + n
<1>4. Len(h) = e - a
  BY <1>1, BytesAre
<1>5. /\ s \in Nat /\ s <= e /\ a <= s /\ n = s - a /\ n + 1 = s - a + 1 /\ 0 <= a
      /\ s = a + n /\ 0 \in Nat /\ 0 <= s
  BY <1>1, <1>2, <1>4
<1> HIDE DEF s
<1>6. SubSeq(h, 1, n) = Bytes(a, s)
  <2>1. SubSeq(Bytes(a, e), 1, s - a) = Bytes(a, s)
    BY <1>1, <1>5, BytesSplit, ZenonT(40)
  <2>2. QED
    BY <1>1, <1>5, <2>1
<1>7. sent' = Bytes(0, s)
  <2>1. Bytes(0, a) \o Bytes(a, s) = Bytes(0, s)
    BY <1>1, <1>5, BytesJoin, ZenonT(40)
  <2>2. QED
    BY <1>1, <1>2, <1>6, <2>1
<1>8. Len(sent') = s
  <2>1. Len(Bytes(0, s)) = s - 0
    BY <1>5, BytesAre
  <2>2. QED
    BY <1>5, <1>7, <2>1
<1>9. SubSeq(h, n + 1, Len(h)) = Bytes(s, e)
  <2>1. a \in Nat /\ e \in Nat /\ s \in Nat /\ a <= s /\ s <= e
    BY <1>1, <1>5
  <2>2. SubSeq(Bytes(a, e), s - a + 1, e - a) = Bytes(s, e)
    BY <2>1, BytesSplit, ZenonT(30)
  <2>3. QED
    BY <1>1, <1>4, <1>5, <2>2
<1>10. n < Len(h) <=> s # e
  BY <1>1, <1>2, <1>4, <1>5
<1>11. QED
  BY <1>3, <1>5, <1>7, <1>8, <1>9, <1>10 DEF a, h, s

-----------------------------------------------------------------------------
(* Where the bytes are.                                                    *)

\* A write moves the border between what is sent and what is to be written.
LEMMA WriteEffect ==
  ASSUME Types, Places, NEW n \in Nat \ {0}, Write(n)
  PROVE  LET s == Len(sent')
         IN /\ s \in Nat /\ sent' = Bytes(0, s) /\ sent' \in Seq(Nat) /\ pc = "writing"
            /\ UNCHANGED <<ends, taken, cutting, then, watching, channel, ending>>
            /\ \/ /\ todo' # <<>> /\ pc' \in Writing
                  /\ then # "done" => Adjoins(todo', s, Cut)
                  /\ then = "done" => \E b \in s .. taken : /\ todo' = <<Bytes(s, b)>>
                                                            /\ Unharmed => b = taken
               \/ /\ todo' = <<>>
                  /\ pc' = IF then # "segment" THEN then
                           ELSE IF chunk = <<>> THEN "top" ELSE "segment"
                  /\ then # "done" => s = Cut
                  /\ then = "done" /\ Unharmed => s = taken
<1> DEFINE a == Len(sent)
           s == a + n
<1>1. /\ pc = "writing" /\ UNCHANGED <<ends, taken, cutting, then, watching, channel, ending>>
      /\ a \in Nat /\ n \in Nat /\ n # 0 /\ s \in Nat
  BY DEF Write, Types
<1> HIDE DEF a
<1>2. /\ then # "done" => Adjoins(todo, a, Cut) /\ Cut \in Nat
      /\ then = "done" => \E b \in a .. taken : todo = <<Bytes(a, b)>> /\ (Unharmed => b = taken)
      /\ taken \in Nat
  BY <1>1 DEF Places, Flushing, Writing, Types, a
<1>3. ASSUME NEW e \in Nat, a <= e, todo = <<Bytes(a, e)>>
      PROVE  /\ s <= e /\ sent' = Bytes(0, s) /\ Len(sent') = s
             /\ s = e => /\ todo' = <<>>
                         /\ pc' = IF then # "segment" THEN then
                                  ELSE IF chunk = <<>> THEN "top" ELSE "segment"
             /\ s # e => todo' = <<Bytes(s, e)>> /\ pc' \in Writing
  <2>1. Head(todo) = Bytes(a, e) /\ Tail(todo) = <<>>
    BY <1>3, OneOrTwo
  <2>2. /\ s <= e /\ sent' = Bytes(0, s) /\ Len(sent') = s
        /\ s = e => /\ todo' = Tail(todo)
                    /\ pc' = IF Tail(todo) # <<>> THEN "write"
                             ELSE IF then # "segment" THEN then
                             ELSE IF chunk = <<>> THEN "top" ELSE "segment"
        /\ s # e => todo' = <<Bytes(s, e)>> \o Tail(todo) /\ pc' = pc
    BY <1>3, <2>1, PieceWritten DEF a
  <2>3. <<Bytes(s, e)>> \o <<>> = <<Bytes(s, e)>>
    BY OneOrTwo
  <2>4. QED
    BY <1>1, <2>1, <2>2, <2>3 DEF Writing
<1>4. ASSUME NEW m \in Nat, a <= m, m <= Cut, todo = <<Bytes(a, m), Bytes(m, Cut)>>
      PROVE  /\ s <= m /\ sent' = Bytes(0, s) /\ Len(sent') = s
             /\ todo' = <<Bytes(m, Cut)>> \/ todo' = <<Bytes(s, m), Bytes(m, Cut)>>
             /\ todo' = <<Bytes(m, Cut)>> => s = m
             /\ pc' \in Writing
  <2>1. Head(todo) = Bytes(a, m) /\ Tail(todo) = <<Bytes(m, Cut)>> /\ Tail(todo) # <<>>
    BY <1>4, OneOrTwo
  <2>2. /\ s <= m /\ sent' = Bytes(0, s) /\ Len(sent') = s
        /\ s = m => todo' = Tail(todo) /\ pc' = "write"
        /\ s # m => todo' = <<Bytes(s, m)>> \o Tail(todo) /\ pc' = pc
    BY <1>4, <2>1, PieceWritten DEF a
  <2>3. <<Bytes(s, m)>> \o <<Bytes(m, Cut)>> = <<Bytes(s, m), Bytes(m, Cut)>>
    BY OneOrTwo
  <2>4. <<Bytes(s, m), Bytes(m, Cut)>> # <<Bytes(m, Cut)>>
    OBVIOUS
  <2>5. QED
    BY <1>1, <2>1, <2>2, <2>3, <2>4 DEF Writing
<1> HIDE DEF s
<1>5. s \in Nat => Bytes(0, s) \in Seq(Nat)
  <2>1. s \in Nat => 0 \in Nat /\ 0 <= s
    OBVIOUS
  <2>2. QED
    BY <2>1, BytesAre
<1>6. CASE then = "done"
  <2>1. PICK b \in a .. taken : todo = <<Bytes(a, b)>> /\ (Unharmed => b = taken)
    BY <1>2, <1>6
  <2>2. b \in Nat /\ a <= b /\ b <= taken
    BY <1>1, <1>2, <2>1
  <2>3. CASE s = b
    BY <1>1, <1>3, <1>5, <1>6, <2>1, <2>2, <2>3
  <2>4. CASE s # b
    <3>1. todo' = <<Bytes(s, b)>> /\ todo' # <<>> /\ b \in s .. taken
      <4>1. todo' = <<Bytes(s, b)>> /\ s <= b
        BY <1>3, <2>1, <2>2, <2>4
      <4>2. <<Bytes(s, b)>> # <<>>
        OBVIOUS
      <4>3. QED
        BY <1>1, <1>2, <2>2, <4>1, <4>2
    <3>2. QED
      BY <1>1, <1>3, <1>5, <1>6, <2>1, <2>2, <2>4, <3>1
  <2>5. QED
    BY <2>3, <2>4
<1>7. CASE then # "done" /\ a <= Cut /\ todo = <<Bytes(a, Cut)>>
  <2>1. CASE s = Cut
    BY <1>1, <1>2, <1>3, <1>5, <1>7, <2>1
  <2>2. CASE s # Cut
    <3>1. todo' = <<Bytes(s, Cut)>> /\ todo' # <<>> /\ s <= Cut
      <4>1. todo' = <<Bytes(s, Cut)>> /\ s <= Cut
        BY <1>2, <1>3, <1>7, <2>2
      <4>2. <<Bytes(s, Cut)>> # <<>>
        OBVIOUS
      <4>3. QED
        BY <4>1, <4>2
    <3>2. QED
      BY <1>1, <1>2, <1>3, <1>5, <1>7, <2>2, <3>1 DEF Adjoins
  <2>3. QED
    BY <2>1, <2>2
<1>8. CASE then # "done" /\ \E m \in a .. Cut : todo = <<Bytes(a, m), Bytes(m, Cut)>>
  <2>1. PICK m \in a .. Cut : todo = <<Bytes(a, m), Bytes(m, Cut)>>
    BY <1>8
  <2>2. m \in Nat /\ a <= m /\ m <= Cut
    BY <1>1, <1>2, <1>8, <2>1
  <2>3. todo' # <<>>
    BY <1>4, <2>1, <2>2
  <2>4. Adjoins(todo', s, Cut)
    <3>1. CASE todo' = <<Bytes(m, Cut)>>
      BY <1>4, <2>1, <2>2, <3>1 DEF Adjoins
    <3>2. CASE todo' = <<Bytes(s, m), Bytes(m, Cut)>>
      <4>1. m \in s .. Cut
        BY <1>1, <1>2, <1>4, <1>8, <2>1, <2>2
      <4>2. QED
        BY <3>2, <4>1 DEF Adjoins
    <3>3. QED
      BY <1>4, <2>1, <2>2, <3>1, <3>2
  <2>5. QED
    BY <1>1, <1>4, <1>5, <1>8, <2>1, <2>2, <2>3, <2>4
<1>9. QED
  BY <1>2, <1>6, <1>7, <1>8 DEF Adjoins

\* A read makes a chunk of the bytes that follow.
LEMMA ReadEffect ==
  ASSUME Types, Places, NEW n \in Nat \ {0}, Read(n)
  PROVE  /\ pc = "read" /\ pc' = "segment" /\ taken' = taken + n /\ taken' \in Nat
         /\ chunk' = Bytes(taken, taken') /\ chunk' \in Seq(Nat) /\ chunk' # <<>>
         /\ Cut = taken /\ Cut' = taken
         /\ UNCHANGED <<ends, pending, streaming, writing, sent, watching, channel, ending>>
<1>1. /\ pc = "read" /\ pc' = "segment" /\ taken' = taken + n /\ taken \in Nat /\ n \in Nat
      /\ chunk' = [i \in 1 .. n |-> taken + i] /\ n # 0
      /\ UNCHANGED <<ends, pending, streaming, writing, sent, watching, channel, ending>>
  BY DEF Read, Types
<1>2. taken' - taken = n /\ taken' \in Nat /\ taken <= taken' /\ taken # taken'
  BY <1>1
<1>3. chunk' = Bytes(taken, taken')
  BY <1>1, <1>2 DEF Bytes
<1>4. chunk' \in Seq(Nat) /\ Len(chunk') = n /\ chunk' # <<>>
  <2>1. taken \in Nat /\ taken' \in Nat /\ taken <= taken'
    BY <1>1, <1>2
  <2>2. /\ Bytes(taken, taken') \in Seq(Nat) /\ Len(Bytes(taken, taken')) = taken' - taken
        /\ Bytes(taken, taken') = <<>> <=> taken = taken'
    BY <2>1, BytesAre
  <2>3. QED
    BY <1>2, <1>3, <2>2
<1>5. Cut' = taken
  BY <1>1, <1>4 DEF Cut
<1>6. Cut = taken
  <2>1. chunk = <<>>
    BY <1>1 DEF Places, Cutting
  <2>2. Len(chunk) = 0
    BY <2>1
  <2>3. QED
    BY <1>1, <2>2 DEF Cut
<1>7. QED
  BY <1>1, <1>2, <1>3, <1>4, <1>5, <1>6

\* Every step keeps the types.
LEMMA TypesKeep ==
  ASSUME Types, Places, Next
  PROVE  Types'
<1>1. CASE Top
  BY <1>1 DEF Top, Types, Cutting, Writing
<1>2. CASE \E n \in 1 .. ChunkBytes : Read(n)
  <2>1. PICK n \in 1 .. ChunkBytes : Read(n)
    BY <1>2
  <2>2. n \in Nat \ {0}
    BY RelayAssumption
  <2>3. QED
    BY <2>1, <2>2, ReadEffect DEF Types, Cutting, Writing
<1>3. CASE ReadRaises
  BY <1>3 DEF ReadRaises, Types, Cutting, Writing
<1>4. CASE Eof
  BY <1>4 DEF Eof, Types, Cutting, Writing
<1>5. CASE EndOfInput
  BY <1>5 DEF EndOfInput, Types, Cutting, Writing
<1>6. CASE StreamSegment
  <2>1. chunk' \in Seq(Nat) /\ then' = "segment"
    BY <1>6, CutMoves DEF StreamSegment
  <2>2. QED
    BY <1>6, <2>1 DEF StreamSegment, Types, Cutting, Writing
<1>7. CASE PassOversized
  <2>1. chunk' \in Seq(Nat) /\ then' = "segment"
    BY <1>7, CutMoves DEF PassOversized
  <2>2. QED
    BY <1>7, <2>1 DEF PassOversized, Types, Cutting, Writing
<1>8. CASE PassMessage
  <2>1. pc = "segment" /\ chunk' \in Seq(Nat) /\ then' = "segment"
    BY <1>8, CutMoves DEF PassMessage
  <2>2. Buffered \in Seq(Nat)
    <3>1. /\ Len(sent) \in Nat /\ Cut + Kept \in Nat /\ Len(sent) <= Cut + Kept
          /\ Buffered = Bytes(Len(sent), Cut + Kept)
      <4>1. /\ Kept \in Nat \ {0} /\ Buffered = Bytes(Len(sent), Cut + Kept)
        BY <2>1, BufferedIs
      <4>2. Len(sent) \in Nat /\ Cut \in Nat /\ Len(sent) <= Cut
        BY <2>1 DEF Places, Types, Cutting
      <4>3. QED
        BY <4>1, <4>2
    <3>2. QED
      BY <3>1, BytesAre
  <2>3. QED
    BY <1>8, <2>1, <2>2 DEF PassMessage, AfterSegment, Types, Cutting, Writing
<1>9. CASE KeepPending
  <2>1. pc = "segment" /\ chunk' \in Seq(Nat) /\ then' = "segment"
    BY <1>9, CutMoves DEF KeepPending
  <2>2. Buffered \in Seq(Nat)
    <3>1. /\ Len(sent) \in Nat /\ Cut + Kept \in Nat /\ Len(sent) <= Cut + Kept
          /\ Buffered = Bytes(Len(sent), Cut + Kept)
      <4>1. /\ Kept \in Nat \ {0} /\ Buffered = Bytes(Len(sent), Cut + Kept)
        BY <2>1, BufferedIs
      <4>2. Len(sent) \in Nat /\ Cut \in Nat /\ Len(sent) <= Cut
        BY <2>1 DEF Places, Types, Cutting
      <4>3. QED
        BY <4>1, <4>2
    <3>2. QED
      BY <3>1, BytesAre
  <2>3. QED
    BY <1>9, <2>1, <2>2 DEF KeepPending, AfterSegment, Types, Cutting, Writing
<1>10. CASE BeginWrite
  BY <1>10 DEF BeginWrite, Types, Cutting, Writing
<1>11. CASE ChannelIsClosed
  BY <1>11 DEF ChannelIsClosed, Types, Cutting, Writing
<1>12. CASE \E n \in 1 .. ChunkBytes + ObservationBytes : Write(n)
  <2>1. PICK n \in 1 .. ChunkBytes + ObservationBytes : Write(n)
    BY <1>12
  <2>2. n \in Nat \ {0}
    BY RelayAssumption
  <2>3. QED
    BY <2>1, <2>2, WriteEffect DEF Types, Cutting, Writing
<1>13. CASE WriteRaises
  BY <1>13 DEF WriteRaises, Types, Cutting, Writing
<1>14. CASE Except
  BY <1>14 DEF Except, Types, Cutting, Writing
<1>15. CASE Finally
  BY <1>15 DEF Finally, Types, Cutting, Writing
<1>16. CASE Shutdown
  BY <1>16 DEF Shutdown, Types, Cutting, Writing
<1>17. CASE RefuseWrites
  BY <1>17 DEF RefuseWrites, Types, Cutting, Writing
<1>18. CASE CloseStream
  BY <1>18 DEF CloseStream, Types, Cutting, Writing
<1>19. QED
  BY <1>1, <1>2, <1>3, <1>4, <1>5, <1>6, <1>7, <1>8, <1>9, <1>10, <1>11, <1>12, <1>13,
     <1>14, <1>15, <1>16, <1>17, <1>18
    DEF Next
\* A step that takes no byte and cuts none leaves the cut where it is.
LEMMA CutStays ==
  ASSUME Types, taken' = taken, chunk' = chunk
  PROVE  /\ Cut' = Cut
         /\ chunk = <<>> => Cut = taken
<1>1. Cut' = Cut
  BY DEF Cut
<1>2. chunk = <<>> => Cut = taken
  <2>1. taken \in Nat /\ (chunk = <<>> => Len(chunk) = 0)
    BY DEF Types
  <2>2. QED
    BY <2>1 DEF Cut
<1>3. QED
  BY <1>1, <1>2

\* The last write stays what it is.
LEMMA FlushingStays ==
  ASSUME UNCHANGED <<taken, sent, todo>>, Unharmed' => Unharmed
  PROVE  Flushing => Flushing'
BY DEF Flushing

\* What is to be written lies between what is sent and what is cut.
LEMMA SentBeforeCut ==
  ASSUME Types, Places, pc \in Writing
  PROVE  /\ Len(sent) \in Nat /\ Len(sent) <= taken /\ Bytes(Len(sent), Len(sent)) = <<>>
         /\ then # "done" => pending = <<>> /\ Len(sent) <= Cut /\ Len(pending) = 0
<1>1. Len(sent) \in Nat
  BY DEF Types
<1>2. Bytes(Len(sent), Len(sent)) = <<>>
  BY <1>1, BytesAre
<1>3. Cut \in Nat /\ Cut <= taken /\ taken \in Nat
  BY DEF Places, Types, Cut
<1>4. CASE then = "done"
  <2>1. \E b \in Len(sent) .. taken : TRUE
    BY <1>4 DEF Places, Flushing
  <2>2. QED
    BY <1>1, <1>2, <1>3, <1>4, <2>1
<1>5. CASE then # "done"
  <2>1. Adjoins(todo, Len(sent), Cut) /\ pending = <<>>
    BY <1>5 DEF Places
  <2>2. Len(sent) <= Cut
    BY <1>1, <1>3, <2>1 DEF Adjoins
  <2>3. Len(pending) = 0
    BY <2>1
  <2>4. QED
    BY <1>1, <1>2, <1>3, <2>1, <2>2, <2>3
<1>6. QED
  BY <1>4, <1>5

\* Every step keeps the bytes where they belong.
LEMMA PlacesKeep ==
  ASSUME Types, Places, Next
  PROVE  Places'
<1>1. CASE Top
  <2>1. Cut' = Cut /\ (chunk = <<>> => Cut = taken)
    BY <1>1, CutStays DEF Top
  <2>2. QED
    BY <1>1, <2>1 DEF Top, Places, Types, Cutting, Writing, Unharmed
<1>2. CASE \E n \in 1 .. ChunkBytes : Read(n)
  <2>1. PICK n \in 1 .. ChunkBytes : Read(n)
    BY <1>2
  <2>2. n \in Nat \ {0}
    BY RelayAssumption
  <2>3. QED
    BY <2>1, <2>2, ReadEffect DEF Places, Types, Cutting, Writing, Unharmed
<1>3. CASE ReadRaises
  <2>1. Cut' = Cut /\ (chunk = <<>> => Cut = taken)
    BY <1>3, CutStays DEF ReadRaises
  <2>2. QED
    BY <1>3, <2>1 DEF ReadRaises, Places, Types, Cutting, Writing, Unharmed
<1>4. CASE Eof
  <2>1. Cut' = Cut /\ (chunk = <<>> => Cut = taken)
    BY <1>4, CutStays DEF Eof
  <2>2. /\ Len(sent) \in Nat /\ Cut = taken /\ Len(sent) + Len(pending) = Cut
        /\ Len(pending) \in Nat /\ pending = Bytes(Len(sent), Cut) /\ Len(sent) <= Cut
        /\ pending = <<>> => Len(pending) = 0
    BY <1>4, <2>1 DEF Eof, Places, Types, Cutting
  <2>3. /\ Len(<<>>) = 0
        /\ pending # <<>> => Adjoins(<<pending>>, Len(sent), Cut)
    BY <2>2 DEF Adjoins
  <2>4. QED
    BY <1>4, <2>1, <2>2, <2>3, RelayAssumption
      DEF Eof, Places, Types, Cutting, Writing, Unharmed
<1>5. CASE EndOfInput
  <2>1. Cut' = Cut /\ (chunk = <<>> => Cut = taken)
    BY <1>5, CutStays DEF EndOfInput
  <2>2. closed' = (closed \/ HasChannel) /\ broken' = broken
    BY <1>5 DEF EndOfInput
  <2>3. Unharmed' => Unharmed
    BY <2>2, Zenon DEF Unharmed
  <2>4. pc = "eof" => /\ Len(sent) + Len(pending) = Len(sent) /\ Len(sent) \in Nat
                      /\ pending = Bytes(Len(sent), Len(sent) + Len(pending))
    <3>1. pc = "eof" => /\ Len(sent) + Len(pending) = Len(sent) /\ Len(sent) \in Nat
                        /\ pending = <<>>
      BY DEF Places, Types
    <3>2. Len(sent) \in Nat => Bytes(Len(sent), Len(sent)) = <<>>
      BY BytesAre
    <3>3. QED
      BY <3>1, <3>2, Zenon
  <2>5. QED
    BY <1>5, <2>1, <2>3, <2>4 DEF EndOfInput, Places, Types, Cutting, Writing
<1>6. CASE StreamSegment
  <2> DEFINE d == Cut + SegmentLength
  <2>1. /\ pc = "segment" /\ then' = "segment" /\ chunk' = Bytes(d, taken) /\ Cut' = d
        /\ chunk' = <<>> <=> d = taken
    BY <1>6, CutMoves DEF StreamSegment
  <2>2. /\ SegmentLength \in Nat \ {0} /\ d \in Nat /\ d <= taken /\ Cut < d /\ Cut \in Nat
        /\ Segment = Bytes(Cut, d) /\ d = Cut + SegmentLength
    BY <2>1, SegmentIs DEF Places
  <2>3. /\ Len(sent) \in Nat /\ Len(sent) + Len(pending) = Cut /\ Len(pending) \in Nat
        /\ Len(sent) <= d /\ Len(<<>>) = 0 /\ (streaming => pending = <<>>)
    BY <2>1, <2>2 DEF Places, Types, Cutting
  <2>4. /\ Kept \in Nat \ {0} /\ Kept <= SegmentLength
        /\ Buffered = Bytes(Len(sent), Cut + Kept) /\ Excess = Bytes(Cut + Kept, d)
        /\ Len(Buffered) = Len(pending) + Kept
        /\ ~TooLong(Buffered) => Kept = SegmentLength
        /\ Excess = <<>> <=> Kept = SegmentLength
    BY <2>1, BufferedIs
  <2> HIDE DEF d
  <2>5. Adjoins(<<Segment>>, Len(sent), d)
    <3>1. Len(sent) = Cut
      BY <1>6, <2>3 DEF StreamSegment
    <3>2. QED
      BY <2>2, <2>3, <3>1 DEF Adjoins
  <2>6. /\ todo' = <<Segment>> /\ pending' = <<>> /\ pc' = "write"
        /\ UNCHANGED <<ends, taken, pending, sent, watching, channel, ending>>
    BY <1>6, <2>3 DEF StreamSegment
  <2>7. QED
    BY <2>1, <2>2, <2>3, <2>5, <2>6, RelayAssumption
      DEF Places, Types, Cutting, Writing, Unharmed
<1>7. CASE PassOversized
  <2> DEFINE d == Cut + SegmentLength
  <2>1. /\ pc = "segment" /\ then' = "segment" /\ chunk' = Bytes(d, taken) /\ Cut' = d
        /\ chunk' = <<>> <=> d = taken
    BY <1>7, CutMoves DEF PassOversized
  <2>2. /\ SegmentLength \in Nat \ {0} /\ d \in Nat /\ d <= taken /\ Cut < d /\ Cut \in Nat
        /\ Segment = Bytes(Cut, d) /\ d = Cut + SegmentLength
    BY <2>1, SegmentIs DEF Places
  <2>3. /\ Len(sent) \in Nat /\ Len(sent) + Len(pending) = Cut /\ Len(pending) \in Nat
        /\ Len(sent) <= d /\ Len(<<>>) = 0 /\ (streaming => pending = <<>>)
    BY <2>1, <2>2 DEF Places, Types, Cutting
  <2>4. /\ Kept \in Nat \ {0} /\ Kept <= SegmentLength
        /\ Buffered = Bytes(Len(sent), Cut + Kept) /\ Excess = Bytes(Cut + Kept, d)
        /\ Len(Buffered) = Len(pending) + Kept
        /\ ~TooLong(Buffered) => Kept = SegmentLength
        /\ Excess = <<>> <=> Kept = SegmentLength
    BY <2>1, BufferedIs
  <2> HIDE DEF d
  <2>5. Adjoins(todo', Len(sent), d)
    <3>1. CASE Excess = <<>>
      <4>1. Cut + Kept = d /\ todo' = <<Buffered>>
        BY <1>7, <2>2, <2>4, <3>1 DEF PassOversized
      <4>2. QED
        BY <2>2, <2>3, <2>4, <4>1 DEF Adjoins
    <3>2. CASE Excess # <<>>
      <4>1. todo' = <<Buffered, Excess>>
        BY <1>7, <3>2 DEF PassOversized
      <4>2. Cut + Kept \in Len(sent) .. d
        BY <2>2, <2>3, <2>4
      <4>3. QED
        BY <2>4, <4>1, <4>2 DEF Adjoins
    <3>3. QED
      BY <3>1, <3>2
  <2>6. /\ pending' = <<>> /\ pc' = "write"
        /\ UNCHANGED <<ends, taken, sent, observed, channel, ending>>
    BY <1>7 DEF PassOversized
  <2>7. QED
    BY <2>1, <2>2, <2>3, <2>5, <2>6, RelayAssumption
      DEF Places, Types, Cutting, Writing, Unharmed
<1>8. CASE PassMessage
  <2> DEFINE d == Cut + SegmentLength
  <2>1. /\ pc = "segment" /\ then' = "segment" /\ chunk' = Bytes(d, taken) /\ Cut' = d
        /\ chunk' = <<>> <=> d = taken
    BY <1>8, CutMoves DEF PassMessage
  <2>2. /\ SegmentLength \in Nat \ {0} /\ d \in Nat /\ d <= taken /\ Cut < d /\ Cut \in Nat
        /\ Segment = Bytes(Cut, d) /\ d = Cut + SegmentLength
    BY <2>1, SegmentIs DEF Places
  <2>3. /\ Len(sent) \in Nat /\ Len(sent) + Len(pending) = Cut /\ Len(pending) \in Nat
        /\ Len(sent) <= d /\ Len(<<>>) = 0 /\ (streaming => pending = <<>>)
    BY <2>1, <2>2 DEF Places, Types, Cutting
  <2>4. /\ Kept \in Nat \ {0} /\ Kept <= SegmentLength
        /\ Buffered = Bytes(Len(sent), Cut + Kept) /\ Excess = Bytes(Cut + Kept, d)
        /\ Len(Buffered) = Len(pending) + Kept
        /\ ~TooLong(Buffered) => Kept = SegmentLength
        /\ Excess = <<>> <=> Kept = SegmentLength
    BY <2>1, BufferedIs
  <2> HIDE DEF d
  <2>5. Adjoins(<<Buffered>>, Len(sent), d)
    <3>1. Cut + Kept = d
      BY <1>8, <2>2, <2>4 DEF PassMessage
    <3>2. QED
      BY <2>2, <2>3, <2>4, <3>1 DEF Adjoins
  <2>6. /\ todo' = <<Buffered>> /\ pending' = <<>> /\ pc' = "write"
        /\ UNCHANGED <<ends, taken, streaming, sent, oversized, channel, ending>>
    BY <1>8 DEF PassMessage
  <2>7. QED
    BY <2>1, <2>2, <2>3, <2>5, <2>6, RelayAssumption
      DEF Places, Types, Cutting, Writing, Unharmed
<1>9. CASE KeepPending
  <2> DEFINE d == Cut + SegmentLength
  <2>1. /\ pc = "segment" /\ then' = "segment" /\ chunk' = Bytes(d, taken) /\ Cut' = d
        /\ chunk' = <<>> <=> d = taken
    BY <1>9, CutMoves DEF KeepPending
  <2>2. /\ SegmentLength \in Nat \ {0} /\ d \in Nat /\ d <= taken /\ Cut < d /\ Cut \in Nat
        /\ Segment = Bytes(Cut, d) /\ d = Cut + SegmentLength
    BY <2>1, SegmentIs DEF Places
  <2>3. /\ Len(sent) \in Nat /\ Len(sent) + Len(pending) = Cut /\ Len(pending) \in Nat
        /\ Len(sent) <= d /\ Len(<<>>) = 0 /\ (streaming => pending = <<>>)
    BY <2>1, <2>2 DEF Places, Types, Cutting
  <2>4. /\ Kept \in Nat \ {0} /\ Kept <= SegmentLength
        /\ Buffered = Bytes(Len(sent), Cut + Kept) /\ Excess = Bytes(Cut + Kept, d)
        /\ Len(Buffered) = Len(pending) + Kept
        /\ ~TooLong(Buffered) => Kept = SegmentLength
        /\ Excess = <<>> <=> Kept = SegmentLength
    BY <2>1, BufferedIs
  <2> HIDE DEF d
  <2>5. /\ pending' = Bytes(Len(sent), d) /\ Len(pending') = Len(pending) + Kept
        /\ Len(pending') <= ObservationBytes /\ Kept = SegmentLength
        /\ ~streaming
    BY <1>9, <2>2, <2>3, <2>4, RelayAssumption DEF KeepPending, TooLong
  <2>6. /\ pc' = (IF chunk' = <<>> THEN "top" ELSE "segment") /\ todo = <<>>
        /\ UNCHANGED <<ends, taken, streaming, todo, sent, watching, channel, ending>>
    BY <1>9, <2>1 DEF KeepPending, AfterSegment, Places, Cutting
  <2>7. /\ Len(sent) + Len(pending') = d /\ sent = Bytes(0, Len(sent)) /\ taken \in Nat
        /\ chunk' = <<>> <=> pc' # "segment"
        /\ pc' \in {"top", "segment"} /\ d \in Nat
    <3>1. Len(sent) + Len(pending') = d
      BY <2>2, <2>3, <2>4, <2>5
    <3>2. sent = Bytes(0, Len(sent)) /\ taken \in Nat
      BY DEF Places, Types
    <3>3. pc' \in {"top", "segment"} /\ (chunk' = <<>> <=> pc' # "segment")
      BY <2>6
    <3>4. QED
      BY <2>2, <3>1, <3>2, <3>3
  <2>8. QED
    BY <2>1, <2>5, <2>6, <2>7 DEF Places, Types, Cutting, Writing, Unharmed
<1>10. CASE BeginWrite
  <2>1. Cut' = Cut /\ (chunk = <<>> => Cut = taken)
    BY <1>10, CutStays DEF BeginWrite
  <2>2. UNCHANGED <<taken, sent, todo>> /\ (Unharmed' => Unharmed)
    BY <1>10 DEF BeginWrite, Unharmed
  <2>3. Flushing => Flushing'
    BY <2>2, FlushingStays
  <2>4. QED
    BY <1>10, <2>1, <2>3 DEF BeginWrite, Places, Types, Cutting, Writing, Unharmed
<1>11. CASE ChannelIsClosed
  <2>1. Cut' = Cut /\ (chunk = <<>> => Cut = taken)
    BY <1>11, CutStays DEF ChannelIsClosed
  <2>2. /\ Len(sent) \in Nat /\ Len(sent) <= taken /\ Bytes(Len(sent), Len(sent)) = <<>>
        /\ then # "done" => pending = <<>> /\ Len(sent) <= Cut /\ Len(pending) = 0
    BY <1>11, SentBeforeCut DEF ChannelIsClosed, Writing
  <2>3. QED
    BY <1>11, <2>1, <2>2 DEF ChannelIsClosed, Places, Types, Cutting, Writing, Unharmed
<1>12. CASE \E n \in 1 .. ChunkBytes + ObservationBytes : Write(n)
  <2>1. PICK n \in 1 .. ChunkBytes + ObservationBytes : Write(n)
    BY <1>12
  <2>2. n \in Nat \ {0}
    BY RelayAssumption
  <2> DEFINE s == Len(sent')
  <2>3. /\ s \in Nat /\ sent' = Bytes(0, s) /\ sent' \in Seq(Nat) /\ pc = "writing"
        /\ UNCHANGED <<ends, taken, cutting, then, watching, channel, ending>>
        /\ \/ /\ todo' # <<>> /\ pc' \in Writing
              /\ then # "done" => Adjoins(todo', s, Cut)
              /\ then = "done" => \E b \in s .. taken : /\ todo' = <<Bytes(s, b)>>
                                                        /\ Unharmed => b = taken
           \/ /\ todo' = <<>>
              /\ pc' = IF then # "segment" THEN then
                       ELSE IF chunk = <<>> THEN "top" ELSE "segment"
              /\ then # "done" => s = Cut
              /\ then = "done" /\ Unharmed => s = taken
    BY <2>1, <2>2, WriteEffect
  <2>4. Cut' = Cut /\ (chunk = <<>> => Cut = taken)
    BY <2>3, CutStays
  <2>5. /\ then # "done" => pending = <<>> /\ Len(pending) = 0
        /\ Cut \in Nat /\ chunk = Bytes(Cut, taken) /\ (then = "eof" => Cut = taken)
        /\ Len(pending) <= ObservationBytes /\ taken \in Nat
        /\ streaming /\ then = "segment" => pending = <<>>
        /\ then \in {"segment", "eof", "done"} /\ Bytes(Cut, Cut) = <<>>
    <3>1. then # "done" => pending = <<>> /\ Len(pending) = 0
      BY <2>3, SentBeforeCut DEF Writing
    <3>2. Cut \in Nat /\ chunk = Bytes(Cut, taken) /\ Len(pending) <= ObservationBytes
      BY DEF Places
    <3>3. Bytes(Cut, Cut) = <<>>
      BY <3>2, BytesAre
    <3>4. QED
      BY <2>3, <3>1, <3>2, <3>3 DEF Places, Writing, Types
  <2>6. CASE todo' # <<>> /\ pc' \in Writing /\ then = "done"
    <3>1. \E b \in s .. taken : /\ todo' = <<Bytes(s, b)>>
                                /\ Unharmed => b = taken
      BY <2>3, <2>6, Zenon
    <3>2. PICK b \in s .. taken : /\ todo' = <<Bytes(s, b)>>
                                  /\ Unharmed => b = taken
      BY <3>1
    <3>3. b \in s .. taken /\ then' = "done" /\ taken' = taken /\ (Unharmed' => Unharmed)
      BY <2>3, <2>6, <3>2 DEF Unharmed
    <3>4. Flushing'
      <4>1. b \in Len(sent') .. taken'
        BY <3>3
      <4>2. todo' = <<Bytes(Len(sent'), b)>> /\ (Unharmed' => b = taken')
        <5>1. todo' = <<Bytes(Len(sent'), b)>>
          BY <3>2
        <5>2. Unharmed' => b = taken'
          BY <3>2, <3>3
        <5>3. QED
          BY <5>1, <5>2
      <4>3. QED
        BY <4>1, <4>2, Zenon DEF Flushing
    <3>5. pc' \in {"write", "writing"}
      BY <2>6 DEF Writing
    <3>6. QED
      BY <2>3, <2>4, <2>5, <3>3, <3>4, <3>5 DEF Places, Cutting, Writing
  <2>7. CASE todo' # <<>> /\ pc' \in Writing /\ then # "done"
    <3>1. Adjoins(todo', s, Cut)
      BY <2>3, <2>7
    <3>2. QED
      BY <2>3, <2>4, <2>5, <2>7, <3>1 DEF Places, Types, Cutting, Writing, Unharmed
  <2>8. CASE todo' = <<>>
    <3>1. /\ pc' = IF then # "segment" THEN then
                   ELSE IF chunk = <<>> THEN "top" ELSE "segment"
          /\ then # "done" => s = Cut
          /\ then = "done" /\ Unharmed => s = taken
      <4>1. ~ (todo' # <<>>)
        BY <2>8
      <4>2. QED
        BY <2>3, <4>1, Zenon
    <3>2. CASE then = "segment"
      BY <2>3, <2>4, <2>5, <2>8, <3>1, <3>2
        DEF Places, Types, Cutting, Writing, Unharmed
    <3>3. CASE then = "eof"
      BY <2>3, <2>4, <2>5, <2>8, <3>1, <3>3
        DEF Places, Types, Cutting, Writing, Unharmed
    <3>4. CASE then = "done"
      BY <2>3, <2>4, <2>5, <2>8, <3>1, <3>4
        DEF Places, Types, Cutting, Writing, Unharmed
    <3>5. QED
      BY <2>5, <3>2, <3>3, <3>4
  <2>9. QED
    BY <2>3, <2>6, <2>7, <2>8
<1>13. CASE WriteRaises
  <2>1. Cut' = Cut /\ (chunk = <<>> => Cut = taken)
    BY <1>13, CutStays DEF WriteRaises
  <2>2. /\ Len(sent) \in Nat /\ Len(sent) <= taken /\ Bytes(Len(sent), Len(sent)) = <<>>
        /\ then # "done" => pending = <<>> /\ Len(sent) <= Cut /\ Len(pending) = 0
    BY <1>13, SentBeforeCut DEF WriteRaises, Writing
  <2>3. /\ broken' = TRUE /\ todo' = <<>>
        /\ pc' = IF then = "done" THEN "done" ELSE "except"
        /\ UNCHANGED <<ends, taken, cutting, then, sent, watching, channel, shutdown, failed>>
    BY <1>13 DEF WriteRaises
  <2>4. broken' /\ ~Unharmed'
    BY <2>3, Zenon DEF Unharmed
  <2>5. then # "done" => pending = Bytes(Len(sent), Len(sent) + Len(pending))
    <3>1. then # "done" => Len(sent) + Len(pending) = Len(sent)
      BY <2>2
    <3>2. QED
      BY <2>2, <3>1, Zenon
  <2>6. CASE then = "done"
    BY <2>1, <2>2, <2>3, <2>4, <2>6 DEF Places, Types, Cutting, Writing
  <2>7. CASE then # "done"
    BY <2>1, <2>2, <2>3, <2>4, <2>5, <2>7 DEF Places, Types, Cutting, Writing
  <2>8. QED
    BY <2>6, <2>7
<1>14. CASE Except
  <2>1. Cut' = Cut /\ (chunk = <<>> => Cut = taken)
    BY <1>14, CutStays DEF Except
  <2>2. QED
    BY <1>14, <2>1 DEF Except, Places, Types, Cutting, Writing, Unharmed
<1>15. CASE Finally
  <2>1. Cut' = Cut
    BY <1>15, CutStays DEF Finally
  <2>2. CASE pending = <<>>
    <3>1. Len(pending) = 0
      BY <2>2
    <3>2. QED
      BY <1>15, <2>1, <2>2, <3>1 DEF Finally, Places, Types, Cutting, Writing, Unharmed
  <2>3. CASE pending # <<>>
    <3> DEFINE b == Len(sent) + Len(pending)
    <3>1. /\ Len(sent) \in Nat /\ Len(pending) \in Nat /\ taken \in Nat
          /\ b <= taken /\ pending = Bytes(Len(sent), b) /\ (Unharmed => b = taken)
      BY <1>15 DEF Finally, Places, Types
    <3>2. b \in Len(sent) .. taken
      BY <3>1
    <3>3. /\ todo' = <<Bytes(Len(sent), b)>> /\ then' = "done" /\ pc' = "write"
          /\ UNCHANGED <<ends, taken, cutting, sent, watching, channel, ending>>
      BY <1>15, <2>3, <3>1 DEF Finally
    <3> HIDE DEF b
    <3>4. Flushing'
      <4>1. b \in Len(sent') .. taken' /\ todo' = <<Bytes(Len(sent'), b)>> /\ (Unharmed' => b = taken')
        BY <3>1, <3>2, <3>3 DEF Unharmed
      <4>2. QED
        BY <4>1, Zenon DEF Flushing
    <3>5. QED
      BY <2>1, <3>1, <3>3, <3>4 DEF Places, Types, Cutting, Writing, Unharmed
  <2>4. QED
    BY <2>2, <2>3
<1>16. CASE Shutdown
  <2>1. Cut' = Cut /\ (chunk = <<>> => Cut = taken)
    BY <1>16, CutStays DEF Shutdown
  <2>2. UNCHANGED <<taken, sent, todo>> /\ (Unharmed' => Unharmed)
    BY <1>16 DEF Shutdown, Unharmed
  <2>3. Flushing => Flushing'
    BY <2>2, FlushingStays
  <2>4. QED
    BY <1>16, <2>1, <2>3 DEF Shutdown, Places, Types, Cutting, Writing, Unharmed
<1>17. CASE RefuseWrites
  <2>1. Cut' = Cut /\ (chunk = <<>> => Cut = taken)
    BY <1>17, CutStays DEF RefuseWrites
  <2>2. UNCHANGED <<taken, sent, todo>> /\ (Unharmed' => Unharmed)
    BY <1>17 DEF RefuseWrites, Unharmed
  <2>3. Flushing => Flushing'
    BY <2>2, FlushingStays
  <2>4. QED
    BY <1>17, <2>1, <2>3 DEF RefuseWrites, Places, Types, Cutting, Writing, Unharmed
<1>18. CASE CloseStream
  <2>1. Cut' = Cut /\ (chunk = <<>> => Cut = taken)
    BY <1>18, CutStays DEF CloseStream
  <2>2. UNCHANGED <<taken, sent, todo>> /\ (Unharmed' => Unharmed)
    BY <1>18 DEF CloseStream, Unharmed
  <2>3. Flushing => Flushing'
    BY <2>2, FlushingStays
  <2>4. QED
    BY <1>18, <2>1, <2>3 DEF CloseStream, Places, Types, Cutting, Writing, Unharmed
<1>19. QED
  BY <1>1, <1>2, <1>3, <1>4, <1>5, <1>6, <1>7, <1>8, <1>9, <1>10, <1>11, <1>12, <1>13,
     <1>14, <1>15, <1>16, <1>17, <1>18
    DEF Next
-----------------------------------------------------------------------------
(* What the observer knows.                                                *)

\* The lines of the input do not change.
LEMMA LinesStay ==
  ASSUME ends' = ends, NEW c, Cut' = c, NEW t, taken' = t
  PROVE  /\ Lines(Cut)' = Lines(c)
         /\ TooLongLines(Cut)' = TooLongLines(c)
         /\ WholeLines(Cut)' = WholeLines(c)
         /\ Handed(observed, WholeLines(Cut), Cut)' <=> Handed(observed', WholeLines(c), c)
         /\ TooLongLines(taken)' = TooLongLines(t)
         /\ Handed(observed, Lines(taken) \ TooLongLines(taken), taken)' <=>
              Handed(observed', Lines(t) \ TooLongLines(t), t)
<1>1. Lines(Cut)' = Lines(c)
  BY DEF Lines
<1>2. \A p : LineBytes(p, Cut)' = LineBytes(p, c)
  BY DEF LineBytes
<1>3. \A p : LineOf(p, Cut)' = LineOf(p, c)
  BY <1>2 DEF LineOf
<1>4. TooLongLines(Cut)' = TooLongLines(c)
  BY <1>1, <1>2 DEF TooLongLines
<1>5. WholeLines(Cut)' = WholeLines(c)
  BY <1>1, <1>2, <1>4 DEF WholeLines, Ended
<1>6. Handed(observed, WholeLines(Cut), Cut)' <=> Handed(observed', WholeLines(c), c)
  BY <1>3, <1>5, ZenonT(40) DEF Handed
<1>7. Lines(taken)' = Lines(t) /\ \A p : LineBytes(p, taken)' = LineBytes(p, t)
  BY DEF Lines, LineBytes
<1>8. TooLongLines(taken)' = TooLongLines(t)
  BY <1>7 DEF TooLongLines
<1>9. \A p : LineOf(p, taken)' = LineOf(p, t)
  BY <1>7 DEF LineOf
<1>10. Handed(observed, Lines(taken) \ TooLongLines(taken), taken)' <=>
         Handed(observed', Lines(t) \ TooLongLines(t), t)
  BY <1>7, <1>8, <1>9, ZenonT(40) DEF Handed
<1>11. QED
  BY <1>1, <1>4, <1>5, <1>6, <1>8, <1>10

\* The bytes of an earlier line begin with its first one.
LEMMA FirstByte ==
  ASSUME Positions, NEW q \in Nat \ {0}, NEW n \in Nat, Reached(q, n), NEW p \in Lines(q - 1)
  PROVE  LineOf(p, q - 1)[1] = p /\ p < q /\ p \in Nat
<1>1. p \in LineBytes(p, q - 1)
  BY EarlierLine
<1>2. q - 1 \in Nat /\ p \in 1 .. q - 1
  BY DEF Lines
<1>3. LineBytes(p, q - 1) \subseteq p .. q - 1
  BY DEF LineBytes
<1>4. IsFiniteSet(LineBytes(p, q - 1))
  <2>1. IsFiniteSet(p .. q - 1)
    BY <1>2, FS_Interval
  <2>2. QED
    BY <1>3, <2>1, FS_Subset
<1>5. Cardinality(LineBytes(p, q - 1)) \in Nat /\ Cardinality(LineBytes(p, q - 1)) # 0
  BY <1>1, <1>4, FS_CardinalityType, FS_EmptySet
<1> DEFINE k == Cardinality(LineBytes(p, q - 1))
<1>6. LineOf(p, q - 1) = [i \in 1 .. k |-> p + i - 1]
  BY DEF LineOf
<1>7. k \in Nat /\ k # 0
  BY <1>5
<1> HIDE DEF k
<1>8. 1 \in 1 .. k
  BY <1>7
<1>9. LineOf(p, q - 1)[1] = p
  <2>1. LineOf(p, q - 1)[1] = p + 1 - 1
    BY <1>6, <1>8
  <2>2. p \in Nat
    BY <1>2
  <2>3. p + 1 - 1 = p
    BY <2>2
  <2>4. QED
    BY <2>1, <2>3
<1>10. QED
  BY <1>2, <1>9

\* The same messages are the same lines of a longer part of the input.
LEMMA HandedStays ==
  ASSUME NEW m, NEW S, NEW c, NEW d, Handed(m, S, c), \A p \in S : LineOf(p, d) = LineOf(p, c)
  PROVE  Handed(m, S, d)
<1>1. {LineOf(p, d) : p \in S} = {LineOf(p, c) : p \in S}
  OBVIOUS
<1>2. QED
  BY <1>1 DEF Handed

\* One more line is handed over.
LEMMA HandedNext ==
  ASSUME NEW m \in Seq(Seq(Nat)), NEW S \in SUBSET Nat, NEW c, NEW d, NEW q \in Nat, IsFiniteSet(S), q \notin S,
         Handed(m, S, c),
         \A p \in S : LineOf(p, d) = LineOf(p, c) /\ LineOf(p, c)[1] = p /\ p < q,
         LineOf(q, d)[1] = q, LineOf(q, d) \in Seq(Nat)
  PROVE  Handed(Append(m, LineOf(q, d)), S \cup {q}, d)
<1> DEFINE l == LineOf(q, d)
           a == Append(m, l)
           k == Len(m)
<1>1. /\ k \in Nat /\ Len(a) = k + 1 /\ a[k + 1] = l /\ \A i \in 1 .. k : a[i] = m[i]
      /\ DOMAIN m = 1 .. k /\ DOMAIN a = 1 .. k + 1
  OBVIOUS
<1>2. Cardinality(S \cup {q}) = Cardinality(S) + 1
  BY FS_AddElement
<1>3. k = Cardinality(S) /\ {m[i] : i \in 1 .. k} = {LineOf(p, c) : p \in S}
  BY <1>1 DEF Handed
<1>4. \A i, j \in 1 .. k : i < j => m[i][1] < m[j][1]
  BY <1>1 DEF Handed
<1>5. \A i \in 1 .. k : m[i][1] \in Nat /\ m[i][1] < q
  <2>1. TAKE i \in 1 .. k
  <2>2. m[i] \in {LineOf(p, c) : p \in S}
    BY <1>3
  <2>3. PICK p \in S : m[i] = LineOf(p, c)
    BY <2>2
  <2>4. m[i][1] = p /\ p < q /\ p \in Nat
    BY <2>3
  <2>5. QED
    BY <2>4
<1>6. {a[i] : i \in 1 .. k + 1} = {m[i] : i \in 1 .. k} \cup {l}
  <2>1. k \in Nat
    BY <1>1
  <2> HIDE DEF a, k
  <2>2. 1 .. k + 1 = (1 .. k) \cup {k + 1}
    BY <2>1
  <2>3. {a[i] : i \in 1 .. k + 1} = {a[i] : i \in 1 .. k} \cup {a[k + 1]}
    BY <2>2
  <2>4. {a[i] : i \in 1 .. k} = {m[i] : i \in 1 .. k}
    BY <1>1
  <2>5. QED
    BY <1>1, <2>3, <2>4
<1>7. {LineOf(p, d) : p \in S \cup {q}} = {LineOf(p, c) : p \in S} \cup {l}
  OBVIOUS
<1>8. ASSUME NEW i \in 1 .. k + 1, NEW j \in 1 .. k + 1, i < j
      PROVE  a[i][1] < a[j][1]
  <2>1. k \in Nat
    BY <1>1
  <2>2. l[1] = q
    OBVIOUS
  <2> HIDE DEF a, l, k
  <2>3. i \in 1 .. k /\ (j \in 1 .. k \/ j = k + 1)
    BY <1>8, <2>1
  <2>4. QED
    BY <1>1, <1>4, <1>5, <1>8, <2>2, <2>3
<1> HIDE DEF a, l, k
<1>9. Handed(a, S \cup {q}, d)
  BY <1>1, <1>2, <1>3, <1>6, <1>7, <1>8 DEF Handed
<1>10. QED
  BY <1>9 DEF a, l

\* What a segment makes of the last line, which starts at q: d is where the
\* segment ends.
LEMMA LastLineGrows ==
  ASSUME Types, Places, pc = "segment", NEW q \in 1 .. Cut + 1, Reached(q, Cut),
         q <= Cut => Cut \notin ends, NEW d, d = Cut + SegmentLength
  PROVE  /\ q \in Nat \ {0} /\ d \in Nat /\ Cut \in Nat /\ Cut < d /\ Reached(q, d)
         /\ EndsLine <=> d \in ends
         /\ d \in ends => Reached(d + 1, d)
<1>1. /\ d \in Nat /\ Cut \in Nat /\ Cut < d /\ q \in Nat \ {0} /\ q <= Cut + 1
      /\ \A e \in ends : e <= Cut \/ e >= d
      /\ EndsLine <=> d \in ends
  BY SegmentIs DEF Places
<1>2. Positions
  BY EndsArePositions
<1>3. \A e \in ends : e \in Nat /\ (e < q \/ e >= Cut)
  BY <1>2 DEF Reached, Positions
<1>4. \A e \in ends : e < q \/ e >= d
  <2>1. TAKE e \in ends
  <2>2. CASE e = Cut
    BY <1>1, <2>2
  <2>3. CASE e # Cut
    BY <1>1, <1>3, <2>3
  <2>4. QED
    BY <2>2, <2>3
<1>5. Reached(q, d)
  BY <1>1, <1>4 DEF Reached
<1>6. d \in ends => Reached(d + 1, d)
  BY <1>1, <1>3 DEF Reached
<1>7. QED
  BY <1>1, <1>5, <1>6

\* What the observer has to know when the last line, which starts at q, has
\* not ended, and what it has to know a segment later.
LEMMA LastLineKnown ==
  ASSUME Positions, NEW q \in Nat \ {0}, NEW n \in Nat, NEW d \in Nat, n < d, q <= n + 1,
         Reached(q, n), Reached(q, d), q <= n => n \notin ends
  PROVE  /\ q \notin WholeLines(n) /\ WholeLines(n) \in SUBSET Nat /\ IsFiniteSet(WholeLines(n))
         /\ \A p \in WholeLines(n) : /\ LineOf(p, d) = LineOf(p, n)
                                     /\ LineOf(p, n)[1] = p /\ p < q
         /\ WholeLines(d) = IF d \in ends /\ d + 1 - q <= ObservationBytes
                            THEN WholeLines(n) \cup {q} ELSE WholeLines(n)
         /\ Cardinality(TooLongLines(d)) =
              IF n + 1 - q <= ObservationBytes /\ d + 1 - q > ObservationBytes
              THEN Cardinality(TooLongLines(n)) + 1 ELSE Cardinality(TooLongLines(n))
<1> DEFINE T == TooLongLines(q - 1)
           W == Lines(q - 1) \ TooLongLines(q - 1)
<1>1. /\ TooLongLines(n) = T \cup {p \in {q} : q <= n /\ n + 1 - q > ObservationBytes}
      /\ WholeLines(n) = W \cup {p \in {q} : q <= n /\ n \in ends /\ n + 1 - q <= ObservationBytes}
      /\ q \notin Lines(q - 1)
      /\ \A p \in Lines(q - 1) : LineOf(p, n) = LineOf(p, q - 1)
  BY LinesReached
<1>2. /\ TooLongLines(d) = T \cup {p \in {q} : q <= d /\ d + 1 - q > ObservationBytes}
      /\ WholeLines(d) = W \cup {p \in {q} : q <= d /\ d \in ends /\ d + 1 - q <= ObservationBytes}
      /\ \A p \in Lines(q - 1) : LineOf(p, d) = LineOf(p, q - 1)
  BY LinesReached
<1>3. /\ T \subseteq Lines(q - 1) /\ W \subseteq Lines(q - 1)
      /\ IsFiniteSet(TooLongLines(n)) /\ IsFiniteSet(WholeLines(n))
      /\ WholeLines(n) \subseteq Nat
  <2>1. q - 1 \in Nat
    OBVIOUS
  <2>2. /\ IsFiniteSet(TooLongLines(n)) /\ IsFiniteSet(WholeLines(n))
        /\ WholeLines(n) \subseteq Lines(n) /\ Lines(n) \subseteq 1 .. n
    BY LinesFinite
  <2>3. T \subseteq Lines(q - 1)
    BY <2>1, LinesFinite
  <2>4. QED
    BY <2>2, <2>3
<1>4. \A p \in Lines(q - 1) : LineOf(p, q - 1)[1] = p /\ p < q
  BY FirstByte
<1> HIDE DEF T, W
<1>5. WholeLines(n) = W
  BY <1>1
<1>6. WholeLines(d) = IF d \in ends /\ d + 1 - q <= ObservationBytes
                      THEN WholeLines(n) \cup {q} ELSE WholeLines(n)
  BY <1>2, <1>5
<1>7. q <= d /\ (n + 1 - q > ObservationBytes => q <= n /\ d + 1 - q > ObservationBytes)
  BY RelayAssumption
<1>8. CASE n + 1 - q <= ObservationBytes /\ d + 1 - q > ObservationBytes
  <2>1. TooLongLines(n) = T /\ TooLongLines(d) = T \cup {q} /\ q \notin T
    BY <1>1, <1>2, <1>3, <1>7, <1>8, RelayAssumption
  <2>2. Cardinality(TooLongLines(d)) = Cardinality(TooLongLines(n)) + 1
    BY <1>3, <2>1, FS_AddElement
  <2>3. QED
    BY <1>1, <1>2, <1>3, <1>4, <1>5, <1>6, <1>8, <2>2
<1>9. CASE ~ (n + 1 - q <= ObservationBytes /\ d + 1 - q > ObservationBytes)
  <2>1. TooLongLines(n) = TooLongLines(d)
    BY <1>1, <1>2, <1>7, <1>9, RelayAssumption
  <2>2. QED
    BY <1>1, <1>2, <1>3, <1>4, <1>5, <1>6, <1>9, <2>1
<1>10. QED
  BY <1>8, <1>9

\* A line that is kept starts somewhere.
LEMMA LineStart ==
  ASSUME LineKept, then = "segment", pc \in Cutting \cup Writing
  PROVE  \E q \in 1 .. Cut + 1 :
           /\ Reached(q, Cut) /\ (q <= Cut => Cut \notin ends)
           /\ IF streaming THEN Cut + 1 - q > ObservationBytes
              ELSE q = Cut + 1 - Len(pending)
BY DEF LineKept

\* A line that starts somewhere is kept.
LEMMA LineKeptThen ==
  ASSUME ends' = ends, NEW c, Cut' = c, NEW q \in 1 .. c + 1,
         Reached(q, c), q <= c => c \notin ends,
         IF streaming' THEN c + 1 - q > ObservationBytes ELSE q = c + 1 - Len(pending')
  PROVE  LineKept'
BY DEF LineKept, Reached

\* A step that cuts nothing leaves the last line and what the observer knows.
LEMMA LinesUntouched ==
  ASSUME Cut' = Cut, UNCHANGED <<ends, watching>>, UNCHANGED taken \/ then' # "eof",
         pc' \in Cutting \cup Writing /\ then' = "segment" =>
           pc \in Cutting \cup Writing /\ then = "segment" /\ UNCHANGED <<pending, streaming>>,
         pc' \in Writing \cup {"eof"} /\ then' = "eof" =>
           pc \in Writing \cup {"eof"} /\ then = "eof"
  PROVE  /\ LineKept => LineKept'
         /\ Watched => Watched'
<1>1. LineKept => LineKept'
  BY DEF LineKept, Reached
<1>2. ASSUME Watched
      PROVE  Watched'
  <2>1. PICK c, t : Cut' = c /\ taken' = t
    OBVIOUS
  <2>2. /\ TooLongLines(Cut)' = TooLongLines(c)
        /\ Handed(observed, WholeLines(Cut), Cut)' <=> Handed(observed', WholeLines(c), c)
        /\ TooLongLines(taken)' = TooLongLines(t)
        /\ Handed(observed, Lines(taken) \ TooLongLines(taken), taken)' <=>
             Handed(observed', Lines(t) \ TooLongLines(t), t)
    BY <2>1, LinesStay
  <2>3. c = Cut /\ (then' = "eof" => t = taken)
    BY <2>1
  <2>4. QED
    BY <1>2, <2>2, <2>3 DEF Watched
<1>3. QED
  BY <1>1, <1>2

\* A segment: the last line goes on or ends, and the observer knows it.
LEMMA SegmentKnown ==
  ASSUME Types, Places, LineKept, Watched,
         StreamSegment \/ PassOversized \/ PassMessage \/ KeepPending
  PROVE  LineKept' /\ Watched'
<1>1. TakeSegment /\ pc = "segment" /\ UNCHANGED <<ends, taken>>
  BY DEF StreamSegment, PassOversized, PassMessage, KeepPending, TakeSegment
<1>2. pc \in Cutting /\ then = "segment" /\ (streaming => pending = <<>>)
  BY <1>1 DEF Cutting, Places
<1>3. PICK q \in 1 .. Cut + 1 :
        /\ Reached(q, Cut) /\ (q <= Cut => Cut \notin ends)
        /\ IF streaming THEN Cut + 1 - q > ObservationBytes
           ELSE q = Cut + 1 - Len(pending)
  BY <1>2, LineStart
<1>4. PICK d : d = Cut + SegmentLength
  OBVIOUS
<1>5. /\ q \in Nat \ {0} /\ d \in Nat /\ Cut \in Nat /\ Cut < d /\ Reached(q, d)
      /\ EndsLine <=> d \in ends
      /\ d \in ends => Reached(d + 1, d)
  BY <1>1, <1>3, <1>4, LastLineGrows
<1>6. Cut' = d /\ then' = "segment"
  BY <1>1, <1>4, CutMoves
<1>7. /\ Len(Buffered) = Len(pending) + Kept /\ Buffered = Bytes(Len(sent), Cut + Kept)
      /\ TooLong(Buffered) <=> Len(pending) + SegmentLength > ObservationBytes
      /\ ~TooLong(Buffered) => Kept = SegmentLength
      /\ SegmentLength \in Nat /\ Len(pending) \in Nat
      /\ Len(sent) \in Nat /\ Len(sent) + Len(pending) = Cut /\ Len(pending) <= ObservationBytes
  <2>1. SegmentLength \in Nat
    BY <1>1, SegmentIs
  <2>2. /\ Len(Buffered) = Len(pending) + Kept /\ Buffered = Bytes(Len(sent), Cut + Kept)
        /\ TooLong(Buffered) <=> Len(pending) + SegmentLength > ObservationBytes
        /\ ~TooLong(Buffered) => Kept = SegmentLength
    BY <1>1, BufferedIs
  <2>3. /\ Len(pending) \in Nat /\ Len(sent) \in Nat
        /\ Len(pending) <= ObservationBytes
    BY <1>2 DEF Places, Types
  <2>4. Len(sent) + Len(pending) = Cut
    BY <1>2 DEF Places, Types
  <2>5. QED
    BY <2>1, <2>2, <2>3, <2>4
<1>8. ObservationBytes \in Nat /\ q <= d /\ q \in 1 .. d + 1 /\ d + 1 \in 1 .. d + 1 /\ d + 1 > d
  BY <1>5, RelayAssumption
<1>9. /\ streaming => d + 1 - q > ObservationBytes /\ Cut + 1 - q > ObservationBytes
      /\ ~streaming => /\ Cut + 1 - q = Len(pending) /\ q - 1 = Len(sent)
                       /\ d + 1 - q = Len(pending) + SegmentLength
                       /\ Cut + 1 - q <= ObservationBytes
  BY <1>3, <1>4, <1>5, <1>7, <1>8
<1>10. LineKept'
  <2>1. CASE EndsLine
    <3>1. streaming' = FALSE /\ Len(pending') = 0
      <4>1. Len(<<>>) = 0
        OBVIOUS
      <4>2. QED
        BY <1>2, <2>1, <4>1
          DEF StreamSegment, PassOversized, PassMessage, KeepPending, Types
    <3>2. PICK x : x = d + 1
      OBVIOUS
    <3>3. /\ x \in 1 .. d + 1 /\ Reached(x, d) /\ (x <= d => d \notin ends)
          /\ IF streaming' THEN d + 1 - x > ObservationBytes ELSE x = d + 1 - Len(pending')
      BY <1>5, <1>8, <2>1, <3>1, <3>2
    <3>4. QED
      BY <1>1, <1>6, <3>3, LineKeptThen
  <2>2. CASE ~EndsLine
    <3>1. IF streaming' THEN d + 1 - q > ObservationBytes ELSE q = d + 1 - Len(pending')
      <4>1. CASE KeepPending
        <5>1. streaming' = streaming /\ ~streaming /\ pending' = Buffered /\ ~TooLong(Buffered)
          BY <4>1 DEF KeepPending
        <5>2. QED
          BY <1>5, <1>7, <1>8, <1>9, <5>1, SMTT(30)
      <4>2. CASE StreamSegment
        <5>1. streaming' /\ streaming
          BY <2>2, <4>2 DEF StreamSegment
        <5>2. QED
          BY <1>9, <5>1
      <4>3. CASE PassOversized
        <5>1. streaming' /\ ~streaming /\ TooLong(Buffered)
          BY <2>2, <4>3 DEF PassOversized
        <5>2. QED
          BY <1>7, <1>9, <5>1
      <4>4. QED
        BY <2>2, <4>1, <4>2, <4>3 DEF PassMessage
    <3>2. QED
      BY <1>1, <1>3, <1>5, <1>6, <1>8, <2>2, <3>1, LineKeptThen
  <2>3. QED
    BY <2>1, <2>2
<1>11. /\ q \notin WholeLines(Cut)
       /\ WholeLines(Cut) \in SUBSET Nat /\ IsFiniteSet(WholeLines(Cut))
       /\ \A p \in WholeLines(Cut) : /\ LineOf(p, d) = LineOf(p, Cut)
                                     /\ LineOf(p, Cut)[1] = p /\ p < q
       /\ WholeLines(d) = IF d \in ends /\ d + 1 - q <= ObservationBytes
                          THEN WholeLines(Cut) \cup {q} ELSE WholeLines(Cut)
       /\ Cardinality(TooLongLines(d)) =
            IF Cut + 1 - q <= ObservationBytes /\ d + 1 - q > ObservationBytes
            THEN Cardinality(TooLongLines(Cut)) + 1 ELSE Cardinality(TooLongLines(Cut))
  <2>1. Positions /\ q <= Cut + 1
    BY <1>3, <1>5, EndsArePositions
  <2>2. QED
    BY <1>3, <1>5, <2>1, LastLineKnown
<1>12. oversized = Cardinality(TooLongLines(Cut)) /\ Handed(observed, WholeLines(Cut), Cut)
  BY <1>2 DEF Watched
<1>13. oversized' = Cardinality(TooLongLines(d)) /\ Handed(observed', WholeLines(d), d)
  <2>1. CASE StreamSegment \/ PassOversized \/ KeepPending
    <3>1. WholeLines(d) = WholeLines(Cut) /\ UNCHANGED observed
      <4>1. CASE StreamSegment
        BY <1>5, <1>8, <1>9, <1>11, <4>1 DEF StreamSegment
      <4>2. CASE PassOversized
        BY <1>7, <1>8, <1>9, <1>11, <4>2 DEF PassOversized
      <4>3. CASE KeepPending
        BY <1>5, <1>11, <4>3 DEF KeepPending
      <4>4. QED
        BY <2>1, <4>1, <4>2, <4>3
    <3>2. Handed(observed, WholeLines(Cut), d)
      BY <1>11, <1>12, HandedStays
    <3>3. oversized' = Cardinality(TooLongLines(d))
      <4>1. CASE StreamSegment
        BY <1>5, <1>8, <1>9, <1>11, <1>12, <4>1 DEF StreamSegment
      <4>2. CASE PassOversized
        BY <1>7, <1>8, <1>9, <1>11, <1>12, <4>2 DEF PassOversized
      <4>3. CASE KeepPending
        BY <1>7, <1>8, <1>9, <1>11, <1>12, <4>3 DEF KeepPending
      <4>4. QED
        BY <2>1, <4>1, <4>2, <4>3
    <3>4. QED
      BY <3>1, <3>2, <3>3
  <2>2. CASE PassMessage
    <3>1. /\ observed' = Append(observed, Buffered) /\ oversized' = oversized
          /\ ~streaming /\ ~TooLong(Buffered) /\ EndsLine
      BY <2>2 DEF PassMessage
    <3>2. d \in ends /\ d + 1 - q <= ObservationBytes /\ Buffered = Bytes(q - 1, d)
      BY <1>4, <1>5, <1>7, <1>8, <1>9, <3>1
    <3>3. LineOf(q, d) = Bytes(q - 1, d)
      <4>1. Positions
        BY EndsArePositions
      <4>2. QED
        BY <1>5, <1>8, <4>1, LastLine
    <3>4. LineOf(q, d) \in Seq(Nat) /\ LineOf(q, d)[1] = q
      <4>1. q - 1 \in Nat /\ d \in Nat /\ q - 1 <= d /\ 1 \in 1 .. d - (q - 1) /\ q - 1 + 1 = q
        BY <1>5, <1>8
      <4>2. /\ Bytes(q - 1, d) \in Seq(Nat)
            /\ \A i \in 1 .. d - (q - 1) : Bytes(q - 1, d)[i] = q - 1 + i
        BY <4>1, BytesAre
      <4>3. Bytes(q - 1, d)[1] = q - 1 + 1
        BY <4>1, <4>2
      <4>4. QED
        BY <3>3, <4>1, <4>2, <4>3
    <3>5. observed \in Seq(Seq(Nat))
      BY DEF Types
    <3>6. Handed(Append(observed, LineOf(q, d)), WholeLines(Cut) \cup {q}, d)
      BY <1>5, <1>11, <1>12, <3>4, <3>5, HandedNext
    <3>7. WholeLines(d) = WholeLines(Cut) \cup {q} /\ oversized = Cardinality(TooLongLines(d))
      BY <1>8, <1>9, <1>11, <1>12, <3>2, <1>5
    <3>8. QED
      BY <3>1, <3>2, <3>3, <3>6, <3>7
  <2>3. QED
    BY <2>1, <2>2
<1>14. Watched'
  <2>1. PICK t : taken' = t
    OBVIOUS
  <2>2. /\ TooLongLines(Cut)' = TooLongLines(d)
        /\ Handed(observed, WholeLines(Cut), Cut)' <=> Handed(observed', WholeLines(d), d)
    BY <1>1, <1>6, <2>1, LinesStay
  <2>3. QED
    BY <1>6, <1>13, <2>2 DEF Watched
<1>15. QED
  BY <1>10, <1>14

\* At the end of the input the unfinished line is the last message.
LEMMA LastMessage ==
  ASSUME Types, Places, LineKept, Watched, Eof, Cut = taken
  PROVE  Handed(observed', Lines(taken) \ TooLongLines(taken), taken)
<1>1. /\ pc = "read"
      /\ observed' = IF pending = <<>> \/ streaming THEN observed ELSE Append(observed, pending)
  BY DEF Eof
<1>2. /\ pc \in Cutting /\ then = "segment" /\ (streaming => pending = <<>>)
      /\ Len(sent) + Len(pending) = Cut /\ pending = Bytes(Len(sent), Cut)
      /\ Len(sent) \in Nat /\ Len(pending) \in Nat /\ pending \in Seq(Nat)
      /\ Len(pending) <= ObservationBytes /\ Cut \in Nat /\ observed \in Seq(Seq(Nat))
      /\ pending = <<>> <=> Len(pending) = 0
  BY <1>1 DEF Cutting, Places, Types
<1>3. PICK q \in 1 .. Cut + 1 :
        /\ Reached(q, Cut) /\ (q <= Cut => Cut \notin ends)
        /\ IF streaming THEN Cut + 1 - q > ObservationBytes
           ELSE q = Cut + 1 - Len(pending)
  BY <1>2, LineStart
<1>4. PICK n : n = Cut
  OBVIOUS
<1>5. /\ Positions /\ q \in Nat \ {0} /\ n \in Nat /\ Reached(q, n) /\ q <= n + 1
      /\ ObservationBytes \in Nat
  BY <1>2, <1>3, <1>4, EndsArePositions, RelayAssumption
<1>6. /\ Lines(n) = Lines(q - 1) \cup {p \in {q} : q <= n}
      /\ TooLongLines(n) = TooLongLines(q - 1) \cup
                             {p \in {q} : q <= n /\ n + 1 - q > ObservationBytes}
      /\ WholeLines(n) = (Lines(q - 1) \ TooLongLines(q - 1)) \cup
                           {p \in {q} : q <= n /\ n \in ends /\ n + 1 - q <= ObservationBytes}
      /\ q \notin Lines(q - 1)
      /\ \A p \in Lines(q - 1) : LineOf(p, n) = LineOf(p, q - 1)
  BY <1>5, LinesReached
<1>7. Handed(observed, WholeLines(n), n)
  BY <1>2, <1>4 DEF Watched
<1>8. TooLongLines(q - 1) \subseteq Lines(q - 1)
  <2>1. q - 1 \in Nat
    BY <1>5
  <2>2. QED
    BY <2>1, LinesFinite
<1>9. WholeLines(n) = Lines(q - 1) \ TooLongLines(q - 1)
  BY <1>3, <1>4, <1>6
<1>10. CASE pending = <<>> \/ streaming
  <2>1. q > n \/ n + 1 - q > ObservationBytes
    BY <1>2, <1>3, <1>4, <1>5, <1>10
  <2>2. Lines(n) \ TooLongLines(n) = WholeLines(n)
    BY <1>5, <1>6, <1>8, <1>9, <2>1
  <2>3. QED
    BY <1>1, <1>4, <1>7, <1>10, <2>2
<1>11. CASE ~ (pending = <<>> \/ streaming)
  <2>1. q <= n /\ n + 1 - q <= ObservationBytes /\ q - 1 = Len(sent)
    BY <1>2, <1>3, <1>4, <1>5, <1>11
  <2>2. Lines(n) \ TooLongLines(n) = WholeLines(n) \cup {q}
    BY <1>5, <1>6, <1>8, <1>9, <2>1
  <2>3. LineOf(q, n) = pending
    BY <1>2, <1>4, <1>5, <2>1, LastLine
  <2>4. LineOf(q, n)[1] = q
    <3>1. q - 1 \in Nat /\ q - 1 <= n /\ 1 \in 1 .. n - (q - 1) /\ q - 1 + 1 = q
      BY <1>5, <2>1
    <3>2. \A i \in 1 .. n - (q - 1) : Bytes(q - 1, n)[i] = q - 1 + i
      BY <1>5, <3>1, BytesAre
    <3>3. Bytes(q - 1, n)[1] = q - 1 + 1
      BY <3>1, <3>2
    <3>4. QED
      BY <1>2, <1>4, <2>1, <2>3, <3>1, <3>3
  <2>5. /\ WholeLines(n) \in SUBSET Nat /\ IsFiniteSet(WholeLines(n)) /\ q \notin WholeLines(n)
        /\ \A p \in WholeLines(n) : LineOf(p, n) = LineOf(p, n) /\ LineOf(p, n)[1] = p /\ p < q
    <3>1. \A p \in Lines(q - 1) : LineOf(p, q - 1)[1] = p /\ p < q
      BY <1>5, FirstByte
    <3>2. /\ IsFiniteSet(WholeLines(n)) /\ WholeLines(n) \subseteq Lines(n)
          /\ Lines(n) \subseteq 1 .. n
      BY <1>5, LinesFinite
    <3>3. QED
      BY <1>6, <1>9, <3>1, <3>2
  <2>6. Handed(Append(observed, LineOf(q, n)), WholeLines(n) \cup {q}, n)
    BY <1>2, <1>5, <1>7, <2>3, <2>4, <2>5, HandedNext
  <2>7. QED
    BY <1>1, <1>4, <1>11, <2>2, <2>3, <2>6
<1>12. QED
  BY <1>10, <1>11

\* Every step keeps the last line, and the observer up to date.
LEMMA LinesKeep ==
  ASSUME Types, Places, LineKept, Watched, Next
  PROVE  LineKept' /\ Watched'
<1>1. CASE Top
  <2>1. Cut' = Cut
    BY <1>1, CutStays DEF Top
  <2>2. /\ UNCHANGED <<ends, watching, taken>>
        /\ pc' \in Cutting \cup Writing /\ then' = "segment" =>
             pc \in Cutting \cup Writing /\ then = "segment" /\ UNCHANGED <<pending, streaming>>
        /\ pc' \in Writing \cup {"eof"} /\ then' = "eof" =>
             pc \in Writing \cup {"eof"} /\ then = "eof"
    BY <1>1 DEF Top, Cutting, Writing, Places
  <2>3. QED
    BY <2>1, <2>2, LinesUntouched
<1>2. CASE \E n \in 1 .. ChunkBytes : Read(n)
  <2>1. PICK n \in 1 .. ChunkBytes : Read(n)
    BY <1>2
  <2>2. n \in Nat \ {0}
    BY RelayAssumption
  <2>3. /\ Cut' = Cut /\ pc = "read" /\ pc' = "segment" /\ then = "segment"
        /\ UNCHANGED <<ends, pending, streaming, writing, sent, watching, channel, ending>>
    BY <2>1, <2>2, ReadEffect DEF Places, Cutting
  <2>4. pc \in Cutting
    BY <2>3 DEF Cutting
  <2>5. QED
    BY <2>3, <2>4, LinesUntouched
<1>3. CASE ReadRaises
  <2>1. Cut' = Cut
    BY <1>3, CutStays DEF ReadRaises
  <2>2. /\ UNCHANGED <<ends, watching, taken>>
        /\ pc' \in Cutting \cup Writing /\ then' = "segment" =>
             pc \in Cutting \cup Writing /\ then = "segment" /\ UNCHANGED <<pending, streaming>>
        /\ pc' \in Writing \cup {"eof"} /\ then' = "eof" =>
             pc \in Writing \cup {"eof"} /\ then = "eof"
    BY <1>3 DEF ReadRaises, Cutting, Writing, Places
  <2>3. QED
    BY <2>1, <2>2, LinesUntouched
<1>4. CASE Eof
  <2>1. then' = "eof" /\ pc = "read" /\ UNCHANGED <<ends, taken, chunk, oversized>>
    BY <1>4 DEF Eof
  <2>2. LineKept'
    BY <2>1 DEF LineKept
  <2>3. PICK c, t : Cut' = c /\ taken' = t
    OBVIOUS
  <2>4. /\ TooLongLines(taken)' = TooLongLines(t)
        /\ Handed(observed, Lines(taken) \ TooLongLines(taken), taken)' <=>
             Handed(observed', Lines(t) \ TooLongLines(t), t)
    BY <2>1, <2>3, LinesStay
  <2>5. t = Cut /\ t = taken /\ Cut \in Nat
    <3>1. chunk = <<>> => Cut = taken
      BY <2>1, CutStays
    <3>2. chunk = <<>> /\ Cut \in Nat
      BY <2>1 DEF Places, Cutting
    <3>3. QED
      BY <2>1, <2>3, <3>1, <3>2
  <2>6. Handed(observed', Lines(t) \ TooLongLines(t), t)
    BY <1>4, <2>5, LastMessage
  <2>7. oversized = Cardinality(TooLongLines(t))
    BY <2>1, <2>5 DEF Watched, Places, Cutting
  <2>8. Watched'
    BY <2>1, <2>4, <2>6, <2>7 DEF Watched
  <2>9. QED
    BY <2>2, <2>8
<1>5. CASE EndOfInput
  <2>1. Cut' = Cut
    BY <1>5, CutStays DEF EndOfInput
  <2>2. /\ UNCHANGED <<ends, watching, taken>>
        /\ pc' \in Cutting \cup Writing /\ then' = "segment" =>
             pc \in Cutting \cup Writing /\ then = "segment" /\ UNCHANGED <<pending, streaming>>
        /\ pc' \in Writing \cup {"eof"} /\ then' = "eof" =>
             pc \in Writing \cup {"eof"} /\ then = "eof"
    BY <1>5 DEF EndOfInput, Cutting, Writing, Places
  <2>3. QED
    BY <2>1, <2>2, LinesUntouched
<1>6. CASE StreamSegment
  <2>1. Cut' = Cut + SegmentLength /\ pc = "segment" /\ then = "segment"
    BY <1>6, CutMoves DEF StreamSegment, Places, Cutting
  <2>2. QED
    BY <1>6, <2>1, SegmentKnown
<1>7. CASE PassOversized
  <2>1. Cut' = Cut + SegmentLength /\ pc = "segment" /\ then = "segment"
    BY <1>7, CutMoves DEF PassOversized, Places, Cutting
  <2>2. QED
    BY <1>7, <2>1, SegmentKnown
<1>8. CASE PassMessage
  <2>1. Cut' = Cut + SegmentLength /\ pc = "segment" /\ then = "segment"
    BY <1>8, CutMoves DEF PassMessage, Places, Cutting
  <2>2. QED
    BY <1>8, <2>1, SegmentKnown
<1>9. CASE KeepPending
  <2>1. Cut' = Cut + SegmentLength /\ pc = "segment" /\ then = "segment"
    BY <1>9, CutMoves DEF KeepPending, Places, Cutting
  <2>2. QED
    BY <1>9, <2>1, SegmentKnown
<1>10. CASE BeginWrite
  <2>1. Cut' = Cut
    BY <1>10, CutStays DEF BeginWrite
  <2>2. /\ UNCHANGED <<ends, watching, taken>>
        /\ pc' \in Cutting \cup Writing /\ then' = "segment" =>
             pc \in Cutting \cup Writing /\ then = "segment" /\ UNCHANGED <<pending, streaming>>
        /\ pc' \in Writing \cup {"eof"} /\ then' = "eof" =>
             pc \in Writing \cup {"eof"} /\ then = "eof"
    BY <1>10 DEF BeginWrite, Cutting, Writing, Places
  <2>3. QED
    BY <2>1, <2>2, LinesUntouched
<1>11. CASE ChannelIsClosed
  <2>1. Cut' = Cut
    BY <1>11, CutStays DEF ChannelIsClosed
  <2>2. /\ UNCHANGED <<ends, watching, taken>>
        /\ pc' \in Cutting \cup Writing /\ then' = "segment" =>
             pc \in Cutting \cup Writing /\ then = "segment" /\ UNCHANGED <<pending, streaming>>
        /\ pc' \in Writing \cup {"eof"} /\ then' = "eof" =>
             pc \in Writing \cup {"eof"} /\ then = "eof"
    BY <1>11 DEF ChannelIsClosed, Cutting, Writing, Places
  <2>3. QED
    BY <2>1, <2>2, LinesUntouched
<1>12. CASE \E n \in 1 .. ChunkBytes + ObservationBytes : Write(n)
  <2>1. PICK n \in 1 .. ChunkBytes + ObservationBytes : Write(n)
    BY <1>12
  <2>2. pc = "writing" /\ UNCHANGED <<ends, taken, cutting, then, watching, channel, ending>>
    BY <2>1 DEF Write
  <2>3. Cut' = Cut
    BY <2>2, CutStays
  <2>4. pc \in Writing
    BY <2>2 DEF Writing
  <2>5. QED
    BY <2>2, <2>3, <2>4, LinesUntouched
<1>13. CASE WriteRaises
  <2>1. Cut' = Cut
    BY <1>13, CutStays DEF WriteRaises
  <2>2. /\ UNCHANGED <<ends, watching, taken>>
        /\ pc' \in Cutting \cup Writing /\ then' = "segment" =>
             pc \in Cutting \cup Writing /\ then = "segment" /\ UNCHANGED <<pending, streaming>>
        /\ pc' \in Writing \cup {"eof"} /\ then' = "eof" =>
             pc \in Writing \cup {"eof"} /\ then = "eof"
    BY <1>13 DEF WriteRaises, Cutting, Writing, Places
  <2>3. QED
    BY <2>1, <2>2, LinesUntouched
<1>14. CASE Except
  <2>1. Cut' = Cut
    BY <1>14, CutStays DEF Except
  <2>2. /\ UNCHANGED <<ends, watching, taken>>
        /\ pc' \in Cutting \cup Writing /\ then' = "segment" =>
             pc \in Cutting \cup Writing /\ then = "segment" /\ UNCHANGED <<pending, streaming>>
        /\ pc' \in Writing \cup {"eof"} /\ then' = "eof" =>
             pc \in Writing \cup {"eof"} /\ then = "eof"
    BY <1>14 DEF Except, Cutting, Writing, Places
  <2>3. QED
    BY <2>1, <2>2, LinesUntouched
<1>15. CASE Finally
  <2>1. Cut' = Cut
    BY <1>15, CutStays DEF Finally
  <2>2. /\ UNCHANGED <<ends, watching, taken>>
        /\ pc' \in Cutting \cup Writing /\ then' = "segment" =>
             pc \in Cutting \cup Writing /\ then = "segment" /\ UNCHANGED <<pending, streaming>>
        /\ pc' \in Writing \cup {"eof"} /\ then' = "eof" =>
             pc \in Writing \cup {"eof"} /\ then = "eof"
    BY <1>15 DEF Finally, Cutting, Writing, Places
  <2>3. QED
    BY <2>1, <2>2, LinesUntouched
<1>16. CASE Shutdown
  <2>1. Cut' = Cut
    BY <1>16, CutStays DEF Shutdown
  <2>2. /\ UNCHANGED <<ends, watching, taken>>
        /\ pc' \in Cutting \cup Writing /\ then' = "segment" =>
             pc \in Cutting \cup Writing /\ then = "segment" /\ UNCHANGED <<pending, streaming>>
        /\ pc' \in Writing \cup {"eof"} /\ then' = "eof" =>
             pc \in Writing \cup {"eof"} /\ then = "eof"
    BY <1>16 DEF Shutdown, Cutting, Writing, Places
  <2>3. QED
    BY <2>1, <2>2, LinesUntouched
<1>17. CASE RefuseWrites
  <2>1. Cut' = Cut
    BY <1>17, CutStays DEF RefuseWrites
  <2>2. /\ UNCHANGED <<ends, watching, taken>>
        /\ pc' \in Cutting \cup Writing /\ then' = "segment" =>
             pc \in Cutting \cup Writing /\ then = "segment" /\ UNCHANGED <<pending, streaming>>
        /\ pc' \in Writing \cup {"eof"} /\ then' = "eof" =>
             pc \in Writing \cup {"eof"} /\ then = "eof"
    BY <1>17 DEF RefuseWrites, Cutting, Writing, Places
  <2>3. QED
    BY <2>1, <2>2, LinesUntouched
<1>18. CASE CloseStream
  <2>1. Cut' = Cut
    BY <1>18, CutStays DEF CloseStream
  <2>2. /\ UNCHANGED <<ends, watching, taken>>
        /\ pc' \in Cutting \cup Writing /\ then' = "segment" =>
             pc \in Cutting \cup Writing /\ then = "segment" /\ UNCHANGED <<pending, streaming>>
        /\ pc' \in Writing \cup {"eof"} /\ then' = "eof" =>
             pc \in Writing \cup {"eof"} /\ then = "eof"
    BY <1>18 DEF CloseStream, Cutting, Writing, Places
  <2>3. QED
    BY <2>1, <2>2, LinesUntouched
<1>19. QED
  BY <1>1, <1>2, <1>3, <1>4, <1>5, <1>6, <1>7, <1>8, <1>9, <1>10, <1>11, <1>12, <1>13,
     <1>14, <1>15, <1>16, <1>17, <1>18
    DEF Next
\* Fewer bytes hold no more lines.
LEMMA FewerLines ==
  ASSUME NEW m \in Nat, NEW n \in Nat, m <= n
  PROVE  Cardinality(Lines(m)) <= Cardinality(Lines(n)) /\ Cardinality(Lines(m)) \in Nat
<1>1. Lines(m) \subseteq Lines(n)
  BY DEF Lines
<1>2. IsFiniteSet(Lines(n)) /\ IsFiniteSet(Lines(m))
  BY LinesFinite
<1>3. QED
  BY <1>1, <1>2, FS_Subset, FS_CardinalityType

\* While a segment or the end of the input is written, every line that has
\* begun was observed or marked.
LEMMA WritingIsObserved ==
  ASSUME Types, Places, LineKept, Watched, pc \in Writing, then # "done"
  PROVE  Cardinality(Lines(Cut)) <= Len(observed) + oversized
<1>1. PICK n : n = Cut
  OBVIOUS
<1>2. n \in Nat
  BY <1>1 DEF Places
<1>3. /\ IsFiniteSet(Lines(n)) /\ IsFiniteSet(TooLongLines(n)) /\ IsFiniteSet(WholeLines(n))
      /\ TooLongLines(n) \subseteq Lines(n)
  BY <1>2, LinesFinite
<1> DEFINE S == Lines(n) \ TooLongLines(n)
<1>4. Len(observed) = Cardinality(S) /\ oversized = Cardinality(TooLongLines(n))
  <2>1. CASE then = "eof"
    <3>1. n = taken
      BY <1>1, <2>1 DEF Places
    <3>2. QED
      BY <2>1, <3>1 DEF Watched, Handed
  <2>2. CASE then = "segment"
    <3>1. pending = <<>> /\ Len(pending) = 0
      BY SentBeforeCut
    <3>2. PICK q \in 1 .. Cut + 1 :
            /\ Reached(q, Cut) /\ (q <= Cut => Cut \notin ends)
            /\ IF streaming THEN Cut + 1 - q > ObservationBytes
               ELSE q = Cut + 1 - Len(pending)
      BY <2>2, LineStart
    <3>3. Positions /\ q \in Nat \ {0} /\ q <= n + 1 /\ Reached(q, n)
      BY <1>1, <1>2, <3>2, EndsArePositions
    <3>4. q > n \/ n + 1 - q > ObservationBytes
      BY <1>1, <1>2, <3>1, <3>2, <3>3
    <3>5. /\ Lines(n) = Lines(q - 1) \cup {p \in {q} : q <= n}
          /\ TooLongLines(n) = TooLongLines(q - 1) \cup
                                 {p \in {q} : q <= n /\ n + 1 - q > ObservationBytes}
          /\ WholeLines(n) = (Lines(q - 1) \ TooLongLines(q - 1)) \cup
                               {p \in {q} : q <= n /\ n \in ends /\ n + 1 - q <= ObservationBytes}
          /\ q \notin Lines(q - 1)
      BY <1>2, <3>3, LinesReached
    <3>6. TooLongLines(q - 1) \subseteq Lines(q - 1)
      <4>1. q - 1 \in Nat
        BY <3>3
      <4>2. QED
        BY <4>1, LinesFinite
    <3>7. S = WholeLines(n)
      BY <1>1, <1>2, <3>2, <3>3, <3>4, <3>5, <3>6
    <3>8. QED
      BY <1>1, <2>2, <3>7 DEF Watched, Handed
  <2>3. QED
    BY <2>1, <2>2 DEF Types
<1>5. Cardinality(Lines(n)) = Cardinality(S) + Cardinality(TooLongLines(n))
  <2>1. IsFiniteSet(S) /\ S \cap TooLongLines(n) = {} /\ Lines(n) = S \cup TooLongLines(n)
    <3>1. IsFiniteSet(S)
      BY <1>3, FS_Subset
    <3>2. QED
      BY <1>3, <3>1
  <2> HIDE DEF S
  <2>2. Cardinality(S \cup TooLongLines(n)) =
          Cardinality(S) + Cardinality(TooLongLines(n)) - Cardinality(S \cap TooLongLines(n))
    BY <1>3, <2>1, FS_Union
  <2>3. Cardinality(S \cap TooLongLines(n)) = 0
    BY <2>1, FS_EmptySet
  <2>4. Cardinality(S) \in Nat /\ Cardinality(TooLongLines(n)) \in Nat
    BY <1>3, <2>1, FS_CardinalityType
  <2>5. QED
    BY <2>1, <2>2, <2>3, <2>4
<1>6. Cardinality(Lines(n)) \in Nat
  BY <1>3, FS_CardinalityType
<1>7. QED
  BY <1>1, <1>4, <1>5, <1>6

\* Nothing is sent, nothing is forgotten, and no flush ends.
LEMMA StillObserved ==
  ASSUME Types, Types', UNCHANGED <<ends, sent>>, then = "done" => then' = "done",
         Len(observed) <= Len(observed'), oversized <= oversized', ObservedBeforeForwarded
  PROVE  ObservedBeforeForwarded'
<1>1. Lines(Len(sent))' = Lines(Len(sent))
  BY DEF Lines
<1>2. /\ Len(observed) \in Nat /\ Len(observed') \in Nat
      /\ oversized \in Nat /\ oversized' \in Nat /\ Len(sent) \in Nat
  BY DEF Types
<1>3. Cardinality(Lines(Len(sent))) \in Nat
  BY <1>2, FewerLines
<1>4. QED
  BY <1>1, <1>2, <1>3 DEF ObservedBeforeForwarded

\* Every step keeps the observer ahead of the target.
LEMMA ObservedKeeps ==
  ASSUME Types, Types', Places, Places', LineKept, Watched, ObservedBeforeForwarded, Next
  PROVE  ObservedBeforeForwarded'
<1>1. CASE Top
  <2>1. UNCHANGED <<ends, sent>> /\ (then = "done" => then' = "done")
    BY <1>1 DEF Top, TakeSegment, Places, Cutting
  <2>2. Len(observed) <= Len(observed') /\ oversized <= oversized'
    BY <1>1 DEF Top, Types
  <2>3. QED
    BY <2>1, <2>2, StillObserved
<1>2. CASE \E n \in 1 .. ChunkBytes : Read(n)
  <2>1. UNCHANGED <<ends, sent, then>>
    BY <1>2 DEF Read
  <2>2. Len(observed) <= Len(observed') /\ oversized <= oversized'
    BY <1>2 DEF Read, Types
  <2>3. QED
    BY <2>1, <2>2, StillObserved
<1>3. CASE ReadRaises
  <2>1. UNCHANGED <<ends, sent>> /\ (then = "done" => then' = "done")
    BY <1>3 DEF ReadRaises, TakeSegment, Places, Cutting
  <2>2. Len(observed) <= Len(observed') /\ oversized <= oversized'
    BY <1>3 DEF ReadRaises, Types
  <2>3. QED
    BY <2>1, <2>2, StillObserved
<1>4. CASE Eof
  <2>1. UNCHANGED <<ends, sent>> /\ (then = "done" => then' = "done")
    BY <1>4 DEF Eof, TakeSegment, Places, Cutting
  <2>2. Len(observed) <= Len(observed') /\ oversized <= oversized'
    BY <1>4 DEF Eof, Types
  <2>3. QED
    BY <2>1, <2>2, StillObserved
<1>5. CASE EndOfInput
  <2>1. UNCHANGED <<ends, sent>> /\ (then = "done" => then' = "done")
    BY <1>5 DEF EndOfInput, TakeSegment, Places, Cutting
  <2>2. Len(observed) <= Len(observed') /\ oversized <= oversized'
    BY <1>5 DEF EndOfInput, Types
  <2>3. QED
    BY <2>1, <2>2, StillObserved
<1>6. CASE StreamSegment
  <2>1. UNCHANGED <<ends, sent>> /\ (then = "done" => then' = "done")
    BY <1>6 DEF StreamSegment, TakeSegment, Places, Cutting
  <2>2. Len(observed) <= Len(observed') /\ oversized <= oversized'
    BY <1>6 DEF StreamSegment, Types
  <2>3. QED
    BY <2>1, <2>2, StillObserved
<1>7. CASE PassOversized
  <2>1. UNCHANGED <<ends, sent>> /\ (then = "done" => then' = "done")
    BY <1>7 DEF PassOversized, TakeSegment, Places, Cutting
  <2>2. Len(observed) <= Len(observed') /\ oversized <= oversized'
    BY <1>7 DEF PassOversized, Types
  <2>3. QED
    BY <2>1, <2>2, StillObserved
<1>8. CASE PassMessage
  <2>1. UNCHANGED <<ends, sent>> /\ (then = "done" => then' = "done")
    BY <1>8 DEF PassMessage, TakeSegment, Places, Cutting
  <2>2. Len(observed) <= Len(observed') /\ oversized <= oversized'
    BY <1>8 DEF PassMessage, Types
  <2>3. QED
    BY <2>1, <2>2, StillObserved
<1>9. CASE KeepPending
  <2>1. UNCHANGED <<ends, sent>> /\ (then = "done" => then' = "done")
    BY <1>9 DEF KeepPending, TakeSegment, Places, Cutting
  <2>2. Len(observed) <= Len(observed') /\ oversized <= oversized'
    BY <1>9 DEF KeepPending, Types
  <2>3. QED
    BY <2>1, <2>2, StillObserved
<1>10. CASE BeginWrite
  <2>1. UNCHANGED <<ends, sent>> /\ (then = "done" => then' = "done")
    BY <1>10 DEF BeginWrite, TakeSegment, Places, Cutting
  <2>2. Len(observed) <= Len(observed') /\ oversized <= oversized'
    BY <1>10 DEF BeginWrite, Types
  <2>3. QED
    BY <2>1, <2>2, StillObserved
<1>11. CASE ChannelIsClosed
  <2>1. UNCHANGED <<ends, sent>> /\ (then = "done" => then' = "done")
    BY <1>11 DEF ChannelIsClosed, TakeSegment, Places, Cutting
  <2>2. Len(observed) <= Len(observed') /\ oversized <= oversized'
    BY <1>11 DEF ChannelIsClosed, Types
  <2>3. QED
    BY <2>1, <2>2, StillObserved
<1>12. CASE \E n \in 1 .. ChunkBytes + ObservationBytes : Write(n)
  <2>1. PICK n \in 1 .. ChunkBytes + ObservationBytes : Write(n)
    BY <1>12
  <2>2. n \in Nat \ {0}
    BY RelayAssumption
  <2>3. /\ pc = "writing" /\ UNCHANGED <<ends, taken, cutting, then, watching, channel, ending>>
        /\ then # "done" => Len(sent') <= Cut
    <3>1. /\ pc = "writing" /\ UNCHANGED <<ends, taken, cutting, then, watching, channel, ending>>
      BY <2>1 DEF Write
    <3>2. Cut' = Cut
      BY <3>1, CutStays
    <3>3. pc' \in Writing /\ then # "done" => Len(sent') <= Cut
      <4>1. PICK c : c = Cut
        OBVIOUS
      <4>2. pc' \in Writing /\ then # "done" => Adjoins(todo', Len(sent'), c)
        BY <3>1, <3>2, <4>1 DEF Places
      <4>3. Len(sent') \in Nat /\ c \in Nat
        BY <4>1 DEF Types, Places
      <4>4. QED
        BY <4>1, <4>2, <4>3 DEF Adjoins
    <3>4. /\ Len(sent') \in Nat /\ Cut \in Nat
          /\ pc' \notin Writing /\ then # "done" => Len(sent') = Cut
      <4>1. then # "segment" => then \notin Writing
        BY DEF Types, Writing
      <4>2. QED
        BY <2>1, <2>2, <4>1, WriteEffect DEF Writing, Places
    <3>5. QED
      BY <3>1, <3>3, <3>4
  <2>4. Len(sent') \in Nat /\ Cut \in Nat
    BY DEF Types, Places
  <2>5. then # "done" => Cardinality(Lines(Cut)) <= Len(observed) + oversized
    BY <2>3, WritingIsObserved DEF Writing
  <2>6. PICK m : m = Len(sent')
    OBVIOUS
  <2>7. then # "done" => /\ Cardinality(Lines(m)) <= Cardinality(Lines(Cut))
                         /\ Cardinality(Lines(m)) \in Nat
    BY <2>3, <2>4, <2>6, FewerLines
  <2>8. Lines(Len(sent))' = Lines(m)
    BY <2>3, <2>6 DEF Lines
  <2>9. /\ Cardinality(Lines(Cut)) \in Nat /\ Len(observed) \in Nat /\ oversized \in Nat
        /\ UNCHANGED <<observed, oversized, then>>
    <3>1. Cardinality(Lines(Cut)) \in Nat
      BY <2>4, LinesFinite, FS_CardinalityType
    <3>2. QED
      BY <2>3, <3>1 DEF Types
  <2>10. QED
    BY <2>5, <2>7, <2>8, <2>9 DEF ObservedBeforeForwarded
<1>13. CASE WriteRaises
  <2>1. UNCHANGED <<ends, sent>> /\ (then = "done" => then' = "done")
    BY <1>13 DEF WriteRaises, TakeSegment, Places, Cutting
  <2>2. Len(observed) <= Len(observed') /\ oversized <= oversized'
    BY <1>13 DEF WriteRaises, Types
  <2>3. QED
    BY <2>1, <2>2, StillObserved
<1>14. CASE Except
  <2>1. UNCHANGED <<ends, sent>> /\ (then = "done" => then' = "done")
    BY <1>14 DEF Except, TakeSegment, Places, Cutting
  <2>2. Len(observed) <= Len(observed') /\ oversized <= oversized'
    BY <1>14 DEF Except, Types
  <2>3. QED
    BY <2>1, <2>2, StillObserved
<1>15. CASE Finally
  <2>1. UNCHANGED <<ends, sent>> /\ (then = "done" => then' = "done")
    BY <1>15 DEF Finally, TakeSegment, Places, Cutting
  <2>2. Len(observed) <= Len(observed') /\ oversized <= oversized'
    BY <1>15 DEF Finally, Types
  <2>3. QED
    BY <2>1, <2>2, StillObserved
<1>16. CASE Shutdown
  <2>1. UNCHANGED <<ends, sent>> /\ (then = "done" => then' = "done")
    BY <1>16 DEF Shutdown, TakeSegment, Places, Cutting
  <2>2. Len(observed) <= Len(observed') /\ oversized <= oversized'
    BY <1>16 DEF Shutdown, Types
  <2>3. QED
    BY <2>1, <2>2, StillObserved
<1>17. CASE RefuseWrites
  <2>1. UNCHANGED <<ends, sent>> /\ (then = "done" => then' = "done")
    BY <1>17 DEF RefuseWrites, TakeSegment, Places, Cutting
  <2>2. Len(observed) <= Len(observed') /\ oversized <= oversized'
    BY <1>17 DEF RefuseWrites, Types
  <2>3. QED
    BY <2>1, <2>2, StillObserved
<1>18. CASE CloseStream
  <2>1. UNCHANGED <<ends, sent>> /\ (then = "done" => then' = "done")
    BY <1>18 DEF CloseStream, TakeSegment, Places, Cutting
  <2>2. Len(observed) <= Len(observed') /\ oversized <= oversized'
    BY <1>18 DEF CloseStream, Types
  <2>3. QED
    BY <2>1, <2>2, StillObserved
<1>19. QED
  BY <1>1, <1>2, <1>3, <1>4, <1>5, <1>6, <1>7, <1>8, <1>9, <1>10, <1>11, <1>12, <1>13,
     <1>14, <1>15, <1>16, <1>17, <1>18
    DEF Next

-----------------------------------------------------------------------------
(* The inductive invariant.                                                *)

\* The relay starts with no byte read.
LEMMA Initially == Init => IInv
<1> SUFFICES ASSUME Init
             PROVE  IInv
  OBVIOUS
<1>0. /\ <<>> \in Seq(Nat) /\ <<>> \in Seq(Seq(Nat)) /\ Len(<<>>) = 0
      /\ chunk = <<>> /\ pending = <<>> /\ sent = <<>> /\ observed = <<>> /\ taken = 0
  BY DEF Init
<1>1. Cut = 0 /\ Len(sent) = 0 /\ Len(pending) = 0 /\ Len(observed) = 0
  <2>1. Len(sent) = 0 /\ Len(pending) = 0 /\ Len(observed) = 0 /\ Len(chunk) = 0
    BY <1>0
  <2>2. taken = 0
    BY <1>0
  <2>3. QED
    BY <2>1, <2>2 DEF Cut
<1>2. Types
  <2>1. chunk \in Seq(Nat) /\ pending \in Seq(Nat) /\ sent \in Seq(Nat) /\ observed \in Seq(Seq(Nat))
    BY <1>0
  <2>2. QED
    BY <2>1 DEF Init, Types, Cutting
<1>3. Bytes(0, 0) = <<>>
  BY BytesAre
<1>4. Places
  BY <1>1, <1>3, RelayAssumption DEF Init, Places, Cutting, Writing, Unharmed
<1>5. Positions
  BY <1>2, EndsArePositions
<1>6. LineKept
  <2>1. 1 \in 1 .. Cut + 1 /\ Reached(1, Cut) /\ 1 > Cut /\ 1 = Cut + 1 - Len(pending)
    BY <1>1, <1>5 DEF Reached, Positions
  <2>2. QED
    BY <1>1, <2>1 DEF Init, LineKept
<1>7. Lines(0) = {} /\ TooLongLines(0) = {} /\ WholeLines(0) = {} /\ Cardinality({}) = 0
  <2>1. Lines(0) = {}
    BY DEF Lines
  <2>2. QED
    BY <2>1, FS_EmptySet DEF TooLongLines, WholeLines
<1>8. Watched
  <2>1. Handed(<<>>, {}, 0)
    <3>1. Len(<<>>) = 0 /\ DOMAIN <<>> = {}
      OBVIOUS
    <3>2. QED
      BY <1>7, <3>1 DEF Handed
  <2>2. oversized = 0 /\ pc = "top" /\ then = "segment"
    BY DEF Init
  <2>3. QED
    BY <1>0, <1>1, <1>7, <2>1, <2>2 DEF Watched, Writing
<1>9. ObservedBeforeForwarded
  <2>1. oversized = 0
    BY DEF Init
  <2>2. Cardinality(Lines(Len(sent))) = 0
    BY <1>1, <1>7, Zenon
  <2>3. Len(observed) + oversized = 0
    BY <1>1, <2>1
  <2>4. QED
    BY <2>2, <2>3 DEF ObservedBeforeForwarded
<1>10. QED
  BY <1>2, <1>4, <1>6, <1>8, <1>9 DEF IInv

\* Every step keeps the invariant.
LEMMA Inductive == IInv /\ [Next]_vars => IInv'
<1> SUFFICES ASSUME IInv, [Next]_vars
             PROVE  IInv'
  OBVIOUS
<1>1. Types /\ Places /\ LineKept /\ Watched /\ ObservedBeforeForwarded
  BY DEF IInv
<1>2. CASE Next
  <2>1. Types'
    BY <1>1, <1>2, TypesKeep
  <2>2. Places'
    BY <1>1, <1>2, PlacesKeep
  <2>3. LineKept' /\ Watched'
    BY <1>1, <1>2, LinesKeep
  <2>4. ObservedBeforeForwarded'
    BY <1>1, <1>2, <2>1, <2>2, ObservedKeeps
  <2>5. QED
    BY <2>1, <2>2, <2>3, <2>4 DEF IInv
<1>3. CASE UNCHANGED vars
  <2>1. /\ UNCHANGED <<ends, taken, chunk, pending, streaming, todo, then, pc, sent>>
        /\ UNCHANGED <<observed, oversized, shutdown, closed, stream_closed, failed, broken>>
    BY <1>3 DEF vars
  <2>2. Cut' = Cut
    BY <2>1 DEF Cut
  <2>3. Types'
    BY <1>1, <2>1 DEF Types
  <2>4. Places'
    <3>1. Unharmed' => Unharmed
      BY <2>1 DEF Unharmed
    <3>2. Flushing => Flushing'
      BY <2>1, <3>1, FlushingStays
    <3>3. QED
      BY <1>1, <2>1, <2>2, <3>1, <3>2 DEF Places
  <2>5. LineKept' /\ Watched'
    BY <1>1, <2>1, <2>2, LinesUntouched
  <2>6. ObservedBeforeForwarded'
    <3>1. Len(observed) <= Len(observed') /\ oversized <= oversized'
      BY <1>1, <2>1 DEF Types
    <3>2. QED
      BY <1>1, <2>1, <2>3, <3>1, StillObserved
  <2>7. QED
    BY <2>3, <2>4, <2>5, <2>6 DEF IInv
<1>4. QED
  BY <1>2, <1>3

\* The relay keeps its invariant.
LEMMA Invariance == Spec => []IInv
BY Initially, Inductive, PTL DEF Spec

-----------------------------------------------------------------------------
(* What the relay promises.                                                *)

\* The bytes that _relay_messages writes are the bytes it read, in their order and none
\* twice; all of them when it ends unharmed, and never more than the limit is
\* held back.
THEOREM BytesGoThrough == Spec => []WireExact
<1>1. IInv => WireExact
  <2> SUFFICES ASSUME Types, Places
               PROVE  WireExact
    BY DEF IInv
  <2>1. Len(sent) \in Nat /\ sent = Bytes(0, Len(sent)) /\ Len(pending) <= ObservationBytes
    BY DEF Types, Places
  <2>2. \A n \in Nat : Bytes(0, n) = [i \in 1 .. n |-> i]
    BY DEF Bytes
  <2>3. pc \in {"eof", "done"} /\ ~broken /\ ~closed => Len(sent) = taken
    BY DEF Places, Unharmed
  <2>4. QED
    BY <2>1, <2>2, <2>3 DEF WireExact
<1>2. QED
  BY <1>1, Invariance, PTL

\* The observer gets the lines of the input and one mark for each line that
\* is too long, whatever the reads were.
THEOREM LinesAreObserved == Spec => []ObservedMatchesReference
<1>1. IInv => ObservedMatchesReference
  <2> SUFFICES ASSUME Types, Places, Watched
               PROVE  ObservedMatchesReference
    BY DEF IInv
  <2>1. CASE pc \in {"top", "read"}
    <3>1. Cut = taken
      <4>1. chunk = <<>>
        BY <2>1 DEF Places, Cutting
      <4>2. Len(chunk) = 0
        BY <4>1
      <4>3. QED
        BY <4>2 DEF Cut, Types
    <3>2. oversized = Cardinality(TooLongLines(taken)) /\ Handed(observed, WholeLines(taken), taken)
      BY <2>1, <3>1 DEF Watched, Places, Cutting
    <3>3. QED
      BY <2>1, <3>2 DEF ObservedMatchesReference, Handed, LineOf
  <2>2. CASE pc = "eof"
    <3>1. /\ oversized = Cardinality(TooLongLines(taken))
          /\ Handed(observed, Lines(taken) \ TooLongLines(taken), taken)
      BY <2>2 DEF Watched, Places
    <3>2. QED
      BY <2>2, <3>1 DEF ObservedMatchesReference, Handed, LineOf
  <2>3. QED
    BY <2>1, <2>2 DEF ObservedMatchesReference
<1>2. QED
  BY <1>1, Invariance, PTL

\* No byte of a line is written before the observer had the line or its mark.
THEOREM ObserverComesFirst == Spec => []ObservedBeforeForwarded
<1>1. IInv => ObservedBeforeForwarded
  BY DEF IInv
<1>2. QED
  BY <1>1, Invariance, PTL
===============================================================================
