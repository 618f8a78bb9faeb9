--------------------------- MODULE RunAccessProofs ---------------------------
(***************************************************************************)
(* Proofs about RunAccess for every store, every limit and any number of   *)
(* changes by other processes: a reader accepts one version of one run, a  *)
(* listing that says it is complete is what was there at one moment, and   *)
(* every listing accounts for all it saw.                                  *)
(*                                                                         *)
(* A reader locks nothing, so that the argument is about what cannot have  *)
(* changed if a stamp has not (AsPrepared, Sighted) or if a revision has   *)
(* not (OneRevision), and about where each entry of the scan has gone      *)
(* (Scanning, Accounted).                                                  *)
(***************************************************************************)
EXTENDS RunAccess, SequenceTheorems, FiniteSetTheorems, TLAPS

-----------------------------------------------------------------------------
(* Types.                                                                  *)

Dir == [stamp : Nat, trace : Nat, stdout : Nat, size : Nat, good : BOOLEAN]
File == [dir : Nat, rev : Nat, size : Nat]
Run == [id : RunIds, dir : Nat]
Working == {"resolve", "stat", "open", "read", "read_rest", "probe", "verify", "final"}
Opened == {"open", "read", "read_rest", "probe", "verify"}

DiskTypes ==
  /\ dirs \in Seq(Dir)
  /\ at \in [Names -> Nat] /\ \A n \in Names : at[n] <= Len(dirs)
  /\ stamp \in Nat

ReaderTypes ==
  /\ pc \in {"start", "scan", "next", "verify_store", "done"} \cup Working
  /\ job \in Jobs /\ wanted \in RunIds /\ prepared \in Nat
  /\ scanned \subseteq Names /\ IsFiniteSet(scanned)
  /\ candidates \subseteq scanned \cap RunIds
  /\ overflow \in BOOLEAN /\ truncated \in BOOLEAN
  /\ queue \in Seq(RunIds)
  /\ attempted \in Nat /\ skipped \in Nat
  /\ runs \in Seq(Run)
  /\ moment \in [Names -> Nat]

FileTypes ==
  /\ reading \in {"trace", "stdout"}
  /\ file \in File /\ got \subseteq Nat
  /\ short \in BOOLEAN /\ growth \in BOOLEAN

-----------------------------------------------------------------------------
(* The inductive invariant.                                                *)

\* Where the reader is with which job.
ControlKept ==
  /\ pc \in Working => queue # <<>>
  /\ reading = "stdout" => job = "assert" /\ pc \notin {"next", "resolve"}
  /\ pc = "next" /\ job # "list" => queue # <<>>
  /\ pc \in {"start", "scan"} => reading = "trace"
  /\ pc # "done" /\ ~(pc = "final" /\ reading = "stdout") => result = "none"
  /\ pc = "verify_store" => job = "list"
  /\ result = "listed" => pc = "done" /\ job = "list"

\* If no entry has come or gone since the store was prepared, what the reader
\* has opened is what is there now, and so is what it noted at the time.
AsPrepared ==
  pc # "start" =>
    /\ prepared <= stamp
    /\ prepared = stamp =>
         /\ moment = at
         /\ pc \in Opened \/ (pc = "final" /\ result = "none") => file.dir = at[Head(queue)]
         /\ reading = "stdout" => \A t \in taken : t.file.dir = at[Head(queue)]

\* A revision only grows: two that are the same have none between them.
OneRevision ==
  /\ pc \in Opened => /\ file.dir \in 1 .. Len(dirs)
                      /\ \A rev \in got : file.rev <= rev /\ rev <= dirs[file.dir][reading]
                      /\ file.rev <= dirs[file.dir][reading]
  /\ pc \in {"read_rest", "probe", "verify"} => got # {}
  /\ pc = "final" /\ result = "none" => file.dir \in 1 .. Len(dirs) /\ got = {file.rev}
  /\ reading = "stdout" => \A t \in taken : t.got = {t.file.rev}

\* While entries are scanned, the greatest ids are kept.
Scanning ==
  pc \in {"start", "scan"} =>
    /\ queue = <<>> /\ runs = <<>> /\ attempted = 0 /\ ~truncated
    /\ pc = "start" => scanned = {} /\ candidates = {} /\ ~overflow
    /\ job = "list" =>
         /\ skipped = Cardinality(scanned \ RunIds)
         /\ Cardinality(candidates) <= MaxCandidates + 1
         /\ IF overflow
            THEN /\ Cardinality(candidates) = MaxCandidates + 1
                 /\ \A n \in (scanned \cap RunIds) \ candidates, c \in candidates : n < c
            ELSE candidates = scanned \cap RunIds

Dropped == (scanned \cap RunIds) \ candidates

Returned == {runs[i].id : i \in DOMAIN runs}

\* A listing has every scanned entry in one place, and the runs in order.
Accounted ==
  job = "list" /\ pc \notin {"start", "scan"} =>
    /\ Len(runs) + Len(queue) + skipped + Cardinality(Dropped) = Cardinality(scanned)
    /\ skipped = 0 => scanned \subseteq RunIds /\ candidates \subseteq Returned \cup Range(queue)
    /\ Returned \cup Range(queue) \subseteq candidates
    /\ \A i, j \in DOMAIN queue : i < j => queue[i] > queue[j]
    /\ \A i, j \in DOMAIN runs : i < j => runs[i].id > runs[j].id
    /\ \A n \in Range(queue) \cup Dropped, i \in DOMAIN runs : n < runs[i].id
    /\ \A n \in Dropped, c \in candidates : n < c
    /\ IF pc = "verify_store" THEN truncated /\ queue # <<>>
       ELSE IF pc = "done" THEN truncated <=> queue # <<>> \/ Dropped # {}
       ELSE truncated <=> Dropped # {}

\* The limits of a listing.
Limited ==
  job = "list" /\ pc \notin {"start", "scan"} =>
    /\ attempted <= MaxBytes /\ Len(runs) <= MaxRuns
    /\ pc \in Working \/ (pc = "next" /\ queue # <<>>) => Len(runs) < MaxRuns
    /\ pc \in Opened \cup {"final"} => attempted + file.size <= MaxBytes

There == {n \in Names : moment[n] # 0}

\* What a scan has seen, if no entry has come or gone.
Sighted ==
  /\ pc = "scan" /\ prepared = stamp => steady = There /\ scanned \subseteq There
  /\ pc \notin {"start", "scan"} /\ (prepared = stamp \/ runs # <<>>) => scanned = There
  /\ \A i \in DOMAIN runs : runs[i].dir = moment[runs[i].id]

IInv ==
  /\ DiskTypes /\ ReaderTypes /\ FileTypes
  /\ ControlKept /\ AsPrepared /\ OneRevision
  /\ Scanning /\ Accounted /\ Limited /\ Sighted

-----------------------------------------------------------------------------
(* Lemmas about numbers and sequences.                                     *)

USE DEF disk, scan, input, output, Reader

\* The order of the natural numbers has no infinite descent.
LEMMA LessIsWellFounded == IsWellFoundedOn({p \in Nat \X Nat : p[1] < p[2]}, Nat)
BY NatLessThanWellFounded, Zenon DEF OpToRel

\* A set of natural numbers has a least one.
LEMMA LeastNatural ==
  ASSUME NEW S \in SUBSET Nat, S # {}
  PROVE  \E m \in S : \A y \in S : m <= y
<1> DEFINE R == {p \in Nat \X Nat : p[1] < p[2]}
<1>1. IsWellFoundedOn(R, Nat)
  BY LessIsWellFounded
<1>2. \A x, y \in Nat : y < x => <<y, x>> \in R
  OBVIOUS
<1> HIDE DEF R
<1>3. \E x \in S : \A y \in S : ~ (<<y, x>> \in R)
  BY WFMin, <1>1
<1>4. PICK m \in S : \A y \in S : ~ (<<y, m>> \in R)
  BY <1>3, Zenon
<1>5. ASSUME NEW y \in S
      PROVE  m <= y
  <2>1. m \in Nat /\ y \in Nat
    OBVIOUS
  <2>2. ~ (y < m)
    BY <1>2, <1>4, <2>1
  <2>3. QED
    BY <2>1, <2>2
<1>6. QED
  BY <1>5

\* So Min of such a set is its least element.
LEMMA MinIsLeast ==
  ASSUME NEW S \in SUBSET Nat, S # {}
  PROVE  Min(S) \in S /\ \A y \in S : Min(S) <= y
BY LeastNatural DEF Min

\* A finite set in two parts.
LEMMA TwoParts ==
  ASSUME NEW S, IsFiniteSet(S), NEW T \in SUBSET S
  PROVE  /\ Cardinality(S) = Cardinality(T) + Cardinality(S \ T)
         /\ Cardinality(T) \in Nat /\ Cardinality(S \ T) \in Nat
<1>1. S \cap T = T
  OBVIOUS
<1>2. Cardinality(S \ T) = Cardinality(S) - Cardinality(T)
  BY <1>1, FS_Difference
<1>3. Cardinality(S) \in Nat /\ Cardinality(T) \in Nat /\ Cardinality(S \ T) \in Nat
  BY FS_Subset, FS_CardinalityType
<1>4. QED
  BY <1>2, <1>3

\* The run ids are natural numbers, of which there are finitely many.
LEMMA RunIdsAreNumbers ==
  /\ RunIds \subseteq Nat /\ IsFiniteSet(RunIds) /\ RunIds \subseteq Names
  /\ IsFiniteSet(Names)
<1>1. IsFiniteSet(Debris)
  <2>1. Debris = ({Staging} \cup {Backup}) \cup {Lock}
    BY DEF Debris
  <2>2. IsFiniteSet({Staging} \cup {Backup})
    BY FS_Singleton, FS_Union
  <2>3. QED
    BY <2>1, <2>2, FS_Singleton, FS_Union
<1>2. QED
  BY <1>1, NamesAssumption, FS_Union DEF Names

\* The first of the queue and the rest.
LEMMA QueueTail ==
  ASSUME queue \in Seq(RunIds), queue # <<>>
  PROVE  /\ Head(queue) \in RunIds /\ Head(queue) = queue[1]
         /\ Tail(queue) \in Seq(RunIds) /\ Len(queue) \in Nat /\ Len(queue) >= 1
         /\ Len(Tail(queue)) = Len(queue) - 1
         /\ \A i \in 1 .. Len(Tail(queue)) : Tail(queue)[i] = queue[i + 1]
         /\ DOMAIN Tail(queue) = 1 .. Len(Tail(queue))
         /\ DOMAIN queue = 1 .. Len(queue)
OBVIOUS

\* The candidates that remain are the current one and the rest.
LEMMA QueueRange ==
  ASSUME queue \in Seq(RunIds), queue # <<>>
  PROVE  Range(queue) = {Head(queue)} \cup Range(Tail(queue))
<1>1. Range(queue) = {queue[i] : i \in 1 .. Len(queue)}
  BY QueueTail DEF Range
<1>2. Range(Tail(queue)) = {queue[i + 1] : i \in 1 .. Len(queue) - 1}
  BY QueueTail DEF Range
<1>3. \A x : (\E i \in 1 .. Len(queue) : x = queue[i])
                <=> x = queue[1] \/ \E i \in 1 .. Len(queue) - 1 : x = queue[i + 1]
  <2>1. ASSUME NEW x, NEW i \in 1 .. Len(queue), x = queue[i], i # 1
        PROVE  \E j \in 1 .. Len(queue) - 1 : x = queue[j + 1]
    <3>1. i - 1 \in 1 .. Len(queue) - 1 /\ queue[(i - 1) + 1] = x
      BY <2>1, QueueTail
    <3>2. QED
      BY <3>1
  <2>2. QED
    BY <2>1, QueueTail
<1>4. QED
  BY <1>1, <1>2, <1>3, QueueTail, SMTT(30)

-----------------------------------------------------------------------------
(* The other processes.                                                    *)

\* What a directory is, and what a change makes of one.
LEMMA DirFields ==
  ASSUME NEW d \in Dir
  PROVE  /\ d.stamp \in Nat /\ d.trace \in Nat /\ d.stdout \in Nat /\ d.size \in Nat
         /\ d.trace <= d.trace /\ d.stdout <= d.stdout
BY DEF Dir

\* A directory whose field has changed is a directory.
LEMMA FieldUpdate ==
  ASSUME NEW d \in Dir, NEW x \in Nat, NEW g \in BOOLEAN
  PROVE  /\ [d EXCEPT !.stamp = x] \in Dir /\ [d EXCEPT !.size = x] \in Dir
         /\ [d EXCEPT !.trace = x] \in Dir /\ [d EXCEPT !.stdout = x] \in Dir
         /\ [d EXCEPT !.good = g] \in Dir
<1>1. [d EXCEPT !.stamp = x] \in Dir
  BY DEF Dir
<1>2. [d EXCEPT !.size = x] \in Dir
  BY DEF Dir
<1>3. [d EXCEPT !.trace = x] \in Dir
  BY DEF Dir
<1>4. [d EXCEPT !.stdout = x] \in Dir
  BY DEF Dir
<1>5. [d EXCEPT !.good = g] \in Dir
  BY DEF Dir
<1>6. QED
  BY <1>1, <1>2, <1>3, <1>4, <1>5

\* The recorder, or a user, writes the output.
LEMMA OutputUpdate ==
  ASSUME NEW d \in Dir, NEW x \in Nat, NEW y \in Nat, d.stdout <= x
  PROVE  /\ LET e == [d EXCEPT !.stdout = x]
            IN e \in Dir /\ d.trace <= e.trace /\ d.stdout <= e.stdout
         /\ LET e == [d EXCEPT !.stdout = x, !.stamp = y]
            IN e \in Dir /\ d.trace <= e.trace /\ d.stdout <= e.stdout
<1>1. [d EXCEPT !.stdout = x] \in Dir
  BY FieldUpdate
<1>2. [[d EXCEPT !.stdout = x] EXCEPT !.stamp = y] \in Dir
  BY <1>1, FieldUpdate
<1>3. QED
  BY <1>1, <1>2, DirFields DEF Dir

\* The recorder publishes the trace.
LEMMA PublishUpdate ==
  ASSUME NEW d \in Dir, NEW x \in Nat, NEW y \in Nat, NEW z \in Nat, d.trace <= x
  PROVE  LET e == [d EXCEPT !.trace = x, !.size = y, !.stamp = z]
         IN e \in Dir /\ d.trace <= e.trace /\ d.stdout <= e.stdout
<1>1. [d EXCEPT !.trace = x] \in Dir
  BY FieldUpdate
<1>2. [d EXCEPT !.trace = x, !.size = y] \in Dir
  BY <1>1, FieldUpdate
<1>3. [d EXCEPT !.trace = x, !.size = y, !.stamp = z] \in Dir
  BY <1>2, FieldUpdate
<1>4. QED
  BY <1>3, DirFields DEF Dir

\* A user writes into the trace.
LEMMA TraceUpdate ==
  ASSUME NEW d \in Dir, NEW x \in Nat, NEW y \in Nat, NEW g \in BOOLEAN, d.trace <= x
  PROVE  LET e == [d EXCEPT !.trace = x, !.size = y, !.good = g]
         IN e \in Dir /\ d.trace <= e.trace /\ d.stdout <= e.stdout
<1>1. [d EXCEPT !.trace = x] \in Dir
  BY FieldUpdate
<1>2. [d EXCEPT !.trace = x, !.size = y] \in Dir
  BY <1>1, FieldUpdate
<1>3. [d EXCEPT !.trace = x, !.size = y, !.good = g] \in Dir
  BY <1>2, FieldUpdate
<1>4. QED
  BY <1>3, DirFields DEF Dir

\* An import renames the directory.
LEMMA RenameUpdate ==
  ASSUME NEW d \in Dir, NEW x \in Nat
  PROVE  LET e == [d EXCEPT !.stamp = x]
         IN e \in Dir /\ d.trace <= e.trace /\ d.stdout <= e.stdout
BY FieldUpdate, DirFields DEF Dir

\* Of a change by another process: either no entry comes or goes, or the stamp
\* of the runs moves; and no directory is lost, and no revision goes back.
LEMMA OthersEffect ==
  ASSUME DiskTypes, Others
  PROVE  /\ DiskTypes'
         /\ Len(dirs) \in Nat /\ Len(dirs') \in Nat /\ Len(dirs) <= Len(dirs')
         /\ \A d \in 1 .. Len(dirs), f \in {"trace", "stdout"} : dirs[d][f] <= dirs'[d][f]
         /\ \/ stamp' = stamp /\ at' = at /\ steady' = steady
            \/ stamp' = stamp + 1
         /\ UNCHANGED <<pc, job, wanted, prepared, scan, queue, input, output>>
<1> USE DEF DiskTypes, Change
<1>1. \A d \in 1 .. Len(dirs) : dirs[d] \in Dir
  OBVIOUS
<1>2. ASSUME NEW n \in Names, NEW dir \in Dir, Appear(n, dir)
      PROVE  /\ DiskTypes' /\ Len(dirs') = Len(dirs) + 1 /\ stamp' = stamp + 1
             /\ \A d \in 1 .. Len(dirs) : dirs'[d] = dirs[d]
  BY <1>2, AppendProperties DEF Appear
<1>3. ASSUME NEW d \in 1 .. Len(dirs), NEW e \in Dir, dirs' = [dirs EXCEPT ![d] = e],
             dirs[d].trace <= e.trace, dirs[d].stdout <= e.stdout
      PROVE  /\ dirs' \in Seq(Dir) /\ Len(dirs') = Len(dirs)
             /\ \A c \in 1 .. Len(dirs), f \in {"trace", "stdout"} : dirs[c][f] <= dirs'[c][f]
  <2>1. /\ dirs' \in Seq(Dir) /\ Len(dirs') = Len(dirs)
        /\ \A c \in 1 .. Len(dirs) : dirs'[c] = IF c = d THEN e ELSE dirs[c]
    BY <1>3, ExceptSeq
  <2>2. ASSUME NEW c \in 1 .. Len(dirs)
        PROVE  dirs[c].trace <= dirs'[c].trace /\ dirs[c].stdout <= dirs'[c].stdout
    <3>1. dirs[c] \in Dir
      BY <1>1
    <3>2. QED
      BY <1>3, <2>1, <3>1, DirFields
  <2>3. QED
    BY <2>1, <2>2
<1>4. \A s \in Nat : Whole(s) \in Dir
  BY DEF Whole, Dir
<1>5. InFlight \in Dir
  BY DEF InFlight, Whole, Dir
<1>6. RunIds \subseteq Names /\ Debris \subseteq Names /\ Sizes \subseteq Nat
  BY LimitsAssumption DEF Names
<1>7. \A n \in Names : at[n] # 0 => at[n] \in 1 .. Len(dirs)
  OBVIOUS
<1>8. ASSUME NEW c \in 1 .. Len(dirs)
      PROVE  dirs[c].trace <= dirs[c].trace /\ dirs[c].stdout <= dirs[c].stdout
  BY <1>1, <1>8, DirFields
<1>9. ASSUME NEW r \in RunIds, Record(r)
      PROVE  Appear(r, InFlight) /\ Change
  BY <1>9 DEF Record
<1>10. ASSUME NEW n \in Names, NEW dir \in Dir, Appear(n, dir), Change, UNCHANGED steady
       PROVE  /\ DiskTypes'
              /\ Len(dirs) \in Nat /\ Len(dirs') \in Nat /\ Len(dirs) <= Len(dirs')
              /\ \A d \in 1 .. Len(dirs), f \in {"trace", "stdout"} : dirs[d][f] <= dirs'[d][f]
              /\ stamp' = stamp + 1
  BY <1>2, <1>8, <1>10
<1>11. CASE \E r \in RunIds : Record(r)
  BY <1>5, <1>6, <1>10, <1>11 DEF Record
<1>12. ASSUME NEW r \in RunIds, RecordOutput(r) \/ PublishTrace(r) \/ Edit(r)
       PROVE  \E e \in Dir : /\ dirs' = [dirs EXCEPT ![at[r]] = e]
                             /\ dirs[at[r]].trace <= e.trace /\ dirs[at[r]].stdout <= e.stdout
                             /\ at[r] # 0 /\ UNCHANGED <<at, stamp, steady>>
  <2> DEFINE old == dirs[at[r]]
  <2>1. at[r] # 0 /\ at[r] \in 1 .. Len(dirs)
    BY <1>6, <1>7, <1>12 DEF RecordOutput, PublishTrace, Edit
  <2>2. old \in Dir
    BY <1>1, <2>1
  <2>3. CASE RecordOutput(r)
    <3>1. dirs' = [dirs EXCEPT ![at[r]] = [old EXCEPT !.stdout = 1, !.stamp = old.stamp + 1]]
      BY <2>1, <2>3 DEF RecordOutput
    <3>2. old.stamp + 1 \in Nat /\ old.stdout <= 1
      BY <2>2, <2>3, DirFields DEF RecordOutput
    <3>3. LET e == [old EXCEPT !.stdout = 1, !.stamp = old.stamp + 1]
          IN e \in Dir /\ old.trace <= e.trace /\ old.stdout <= e.stdout
      BY <2>2, <3>2, OutputUpdate
    <3>4. QED
      BY <2>1, <2>3, <3>1, <3>3 DEF RecordOutput
  <2>4. CASE PublishTrace(r)
    <3>1. PICK s \in Sizes : dirs' = [dirs EXCEPT ![at[r]].trace = 1, ![at[r]].size = s,
                                                  ![at[r]].stamp = @ + 1]
      BY <2>4 DEF PublishTrace
    <3>2. dirs' = [dirs EXCEPT ![at[r]] =
                     [old EXCEPT !.trace = 1, !.size = s, !.stamp = old.stamp + 1]]
      BY <2>1, <3>1
    <3>3. old.stamp + 1 \in Nat /\ old.trace <= 1 /\ s \in Nat
      BY <1>6, <2>2, <2>4, DirFields DEF PublishTrace
    <3>4. LET e == [old EXCEPT !.trace = 1, !.size = s, !.stamp = old.stamp + 1]
          IN e \in Dir /\ old.trace <= e.trace /\ old.stdout <= e.stdout
      BY <2>2, <3>3, PublishUpdate
    <3>5. QED
      BY <2>1, <2>4, <3>2, <3>4 DEF PublishTrace
  <2>5. CASE Edit(r) /\ \E s \in Sizes, g \in BOOLEAN :
               dirs' = [dirs EXCEPT ![at[r]].trace = @ + 1, ![at[r]].size = s,
                                    ![at[r]].good = g]
    <3>1. PICK s \in Sizes, g \in BOOLEAN :
            dirs' = [dirs EXCEPT ![at[r]].trace = @ + 1, ![at[r]].size = s, ![at[r]].good = g]
      BY <2>5
    <3>2. dirs' = [dirs EXCEPT ![at[r]] =
                     [old EXCEPT !.trace = old.trace + 1, !.size = s, !.good = g]]
      BY <2>1, <3>1
    <3>3. old.trace + 1 \in Nat /\ old.trace <= old.trace + 1 /\ s \in Nat
      BY <1>6, <2>2, DirFields
    <3>4. LET e == [old EXCEPT !.trace = old.trace + 1, !.size = s, !.good = g]
          IN e \in Dir /\ old.trace <= e.trace /\ old.stdout <= e.stdout
      BY <2>2, <3>3, TraceUpdate
    <3>5. QED
      BY <2>1, <2>5, <3>2, <3>4 DEF Edit
  <2>6. CASE Edit(r) /\ dirs' = [dirs EXCEPT ![at[r]].stdout = @ + 1]
    <3>1. dirs' = [dirs EXCEPT ![at[r]] = [old EXCEPT !.stdout = old.stdout + 1]]
      BY <2>1, <2>6
    <3>2. old.stdout + 1 \in Nat /\ old.stdout <= old.stdout + 1
      BY <2>2, DirFields
    <3>3. LET e == [old EXCEPT !.stdout = old.stdout + 1]
          IN e \in Dir /\ old.trace <= e.trace /\ old.stdout <= e.stdout
      BY <2>2, <3>2, OutputUpdate
    <3>4. QED
      BY <2>1, <2>6, <3>1, <3>3 DEF Edit
  <2>7. QED
    BY <1>12, <2>3, <2>4, <2>5, <2>6 DEF Edit
<1>13. ASSUME NEW r \in RunIds, RecordOutput(r) \/ PublishTrace(r) \/ Edit(r)
       PROVE  /\ DiskTypes' /\ Len(dirs') = Len(dirs)
              /\ \A d \in 1 .. Len(dirs), f \in {"trace", "stdout"} : dirs[d][f] <= dirs'[d][f]
              /\ stamp' = stamp /\ at' = at /\ steady' = steady /\ Change
  <2>1. PICK e \in Dir : /\ dirs' = [dirs EXCEPT ![at[r]] = e]
                         /\ dirs[at[r]].trace <= e.trace /\ dirs[at[r]].stdout <= e.stdout
                         /\ at[r] # 0 /\ UNCHANGED <<at, stamp, steady>>
    BY <1>12, <1>13
  <2>2. at[r] \in 1 .. Len(dirs)
    BY <1>6, <1>7, <2>1
  <2>3. /\ dirs' \in Seq(Dir) /\ Len(dirs') = Len(dirs)
        /\ \A c \in 1 .. Len(dirs), f \in {"trace", "stdout"} : dirs[c][f] <= dirs'[c][f]
    BY <1>3, <2>1, <2>2
  <2>4. Change
    BY <1>13 DEF RecordOutput, PublishTrace, Edit
  <2>5. QED
    BY <2>1, <2>3, <2>4
<1>14. CASE TakeLock
  BY <1>5, <1>6, <1>10, <1>14 DEF TakeLock, Debris
<1>15. CASE Stage
  <2>1. PICK s \in Sizes : Appear(Staging, Whole(s))
    BY <1>15 DEF Stage
  <2>2. Whole(s) \in Dir /\ Staging \in Names
    BY <1>4, <1>6 DEF Debris
  <2>3. QED
    BY <1>10, <1>15, <2>1, <2>2 DEF Stage
<1>16. CASE \E m, n \in Names : Rename(m, n)
  <2>1. PICK m \in Names, n \in Names : Rename(m, n)
    BY <1>16
  <2>2. /\ at[m] \in 1 .. Len(dirs) /\ Change /\ stamp' = stamp + 1
        /\ at' = [at EXCEPT ![m] = 0, ![n] = at[m]]
        /\ dirs' = [dirs EXCEPT ![at[m]].stamp = @ + 1]
    BY <1>7, <2>1 DEF Rename
  <2> DEFINE old == dirs[at[m]]
             new == [old EXCEPT !.stamp = old.stamp + 1]
  <2>3. dirs' = [dirs EXCEPT ![at[m]] = new]
    BY <2>2
  <2>4. old \in Dir
    BY <1>1, <2>2
  <2>5. new \in Dir /\ old.trace <= new.trace /\ old.stdout <= new.stdout
    <3>1. old.stamp + 1 \in Nat
      BY <2>4, DirFields
    <3>2. QED
      BY <2>4, <3>1, RenameUpdate
  <2>6. /\ dirs' \in Seq(Dir) /\ Len(dirs') = Len(dirs)
        /\ \A c \in 1 .. Len(dirs), f \in {"trace", "stdout"} : dirs[c][f] <= dirs'[c][f]
    BY <1>3, <2>2, <2>3, <2>5
  <2>7. QED
    BY <2>2, <2>6
<1>17. CASE \E n \in Names : Discard(n)
  <2>1. PICK n \in Names : Discard(n)
    BY <1>17
  <2>2. /\ at' = [at EXCEPT ![n] = 0] /\ dirs' = dirs /\ stamp' = stamp + 1 /\ Change
    BY <2>1 DEF Discard
  <2>3. QED
    BY <1>8, <2>2
<1>18. QED
  BY <1>11, <1>13, <1>14, <1>15, <1>16, <1>17 DEF Others, Record, TakeLock, Stage

\* Other processes keep the invariant.
LEMMA OthersKeep ==
  ASSUME IInv, Others
  PROVE  IInv'
<1> USE OthersEffect DEF IInv
<1>1. DiskTypes' /\ ReaderTypes' /\ FileTypes'
  BY DEF ReaderTypes, FileTypes
<1>2. ControlKept'
  BY DEF ControlKept
<1>3. AsPrepared'
  BY DEF AsPrepared, ReaderTypes, DiskTypes
<1>4. OneRevision'
  <2>1. ASSUME pc \in Opened
        PROVE  /\ file.dir \in 1 .. Len(dirs')
               /\ \A rev \in got : file.rev <= rev /\ rev <= dirs'[file.dir][reading]
               /\ file.rev <= dirs'[file.dir][reading]
    <3>1. dirs[file.dir][reading] <= dirs'[file.dir][reading]
      BY <2>1 DEF OneRevision, FileTypes
    <3>2. dirs[file.dir][reading] \in Nat /\ dirs'[file.dir][reading] \in Nat
      <4>1. dirs[file.dir] \in Dir /\ dirs'[file.dir] \in Dir
        BY <2>1 DEF OneRevision, DiskTypes
      <4>2. QED
        BY <4>1 DEF FileTypes, Dir
    <3>3. QED
      BY <2>1, <3>1, <3>2 DEF OneRevision, FileTypes, File
  <2>2. QED
    BY <2>1 DEF OneRevision
<1>5. Scanning' /\ Accounted' /\ Limited'
  BY DEF Scanning, Accounted, Dropped, Returned, Limited
<1>6. Sighted'
  BY SMTT(30) DEF Sighted, AsPrepared, There, ReaderTypes, DiskTypes
<1>7. QED
  BY <1>1, <1>2, <1>3, <1>4, <1>5, <1>6

-----------------------------------------------------------------------------
(* The reader: types and control.                                          *)

\* What the reader sees of a file.
LEMMA FileInTypes ==
  ASSUME DiskTypes, FileTypes, NEW d \in 1 .. Len(dirs)
  PROVE  FileIn(d) \in File /\ FileIn(d).dir = d /\ FileIn(d).rev = dirs[d][reading]
<1>1. dirs[d] \in Dir
  BY DEF DiskTypes
<1>2. d \in Nat /\ dirs[d].trace \in Nat /\ dirs[d].stdout \in Nat /\ dirs[d].size \in Nat
  BY <1>1, DirFields DEF DiskTypes
<1>3. QED
  BY <1>2 DEF FileIn, File, FileTypes

\* What the reader finds at the path of the run: a file or none.
LEMMA AtPathTypes ==
  ASSUME DiskTypes, FileTypes, queue \in Seq(RunIds), queue # <<>>
  PROVE  /\ AtPath \in File
         /\ AtPath.dir = at[Head(queue)]
         /\ Exists(AtPath) => /\ AtPath.dir \in 1 .. Len(dirs)
                              /\ AtPath.rev = dirs[AtPath.dir][reading]
<1>1. Head(queue) \in Names
  BY RunIdsAreNumbers, QueueTail
<1>2. CASE at[Head(queue)] = 0
  BY <1>2 DEF AtPath, NoFile, File, Exists
<1>3. CASE at[Head(queue)] # 0
  <2>1. at[Head(queue)] \in 1 .. Len(dirs)
    BY <1>1, <1>3 DEF DiskTypes
  <2>2. QED
    BY <1>3, <2>1, FileInTypes DEF AtPath
<1>4. QED
  BY <1>2, <1>3

\* What a read costs.
LEMMA ReadBytesTypes ==
  ASSUME FileTypes, ReaderTypes
  PROVE  /\ ReadBytes \in Nat
         /\ job = "list" /\ attempted + file.size <= MaxBytes
              => attempted + ReadBytes <= MaxBytes
BY LimitsAssumption, SMTT(30) DEF FileTypes, ReaderTypes, File, ReadBytes, ProbeAllowed, Budget

\* What becomes of a run that fails after n bytes, and of an artifact that
\* cannot be read.
Failed(n) ==
  /\ attempted' = attempted + n /\ UNCHANGED <<taken, runs, moment>>
  /\ \/ /\ job # "list" /\ pc' = "done" /\ result' \notin {"none", "listed"}
        /\ UNCHANGED <<queue, skipped, truncated>>
     \/ /\ job = "list" /\ pc' = "verify_store" /\ truncated' = TRUE
        /\ UNCHANGED <<queue, skipped, result>>
     \/ /\ job = "list" /\ pc' = "next" /\ skipped' = skipped + 1
        /\ queue' = Tail(queue) /\ UNCHANGED <<truncated, result>>

Spoiled ==
  /\ reading = "stdout" /\ pc' = "final" /\ result' \notin {"none", "listed"}
  /\ UNCHANGED <<queue, taken, attempted, runs, skipped, truncated, moment>>

\* Fail does what Failed says.
LEMMA FailEffect ==
  ASSUME NEW code, NEW n, code \notin {"none", "listed"}, Fail(code, n)
  PROVE  Failed(n)
BY DEF Fail, Failed

\* Unreadable does what Failed says for a trace, and Spoiled for an artifact.
LEMMA UnreadableEffect ==
  ASSUME NEW code, NEW n, code \notin {"none", "listed"}, Unreadable(code, n), FileTypes
  PROVE  (reading = "trace" /\ Failed(n)) \/ Spoiled
BY FailEffect DEF Unreadable, Spoiled, FileTypes

\* What the end of a scan for one run changes.
LEMMA SelectRunEffect ==
  ASSUME SelectRun
  PROVE  /\ pc = "scan" /\ job # "list" /\ steady \subseteq scanned
         /\ UNCHANGED <<disk, job, wanted, steady, prepared, scan, input>>
         /\ \/ pc' = "next" /\ queue' = <<wanted>> /\ UNCHANGED output
            \/ Failed(0) /\ queue' = queue
BY FailEffect DEF SelectRun

\* What the first look at the run's directory changes.
LEMMA ResolveInitialEffect ==
  ASSUME ResolveInitial
  PROVE  /\ pc = "next" /\ queue # <<>>
         /\ UNCHANGED <<disk, job, wanted, steady, prepared, scan, reading, file, got,
                        short, growth>>
         /\ \/ pc' = "resolve" /\ UNCHANGED <<queue, output>>
            \/ Failed(0)
BY FailEffect DEF ResolveInitial, Goto

\* What the second look at the run's directory changes.
LEMMA ResolveVerifyEffect ==
  ASSUME ResolveVerify
  PROVE  /\ pc = "resolve" /\ reading' = "trace"
         /\ UNCHANGED <<disk, job, wanted, steady, prepared, scan, initial, file, got,
                        short, growth>>
         /\ \/ pc' = "stat" /\ UNCHANGED <<queue, output>>
            \/ Failed(0)
BY FailEffect DEF ResolveVerify, Goto

\* What the lstat of a file changes.
LEMMA PrepareFileEffect ==
  ASSUME PrepareFile, FileTypes
  PROVE  /\ pc = "stat" /\ file' = AtPath /\ got' = {} /\ short' = FALSE /\ growth' = FALSE
         /\ UNCHANGED <<disk, job, wanted, steady, prepared, scan, initial, reading>>
         /\ \/ /\ pc' = "open" /\ Exists(AtPath) /\ UNCHANGED <<queue, output>>
               /\ reading = "trace" /\ job = "list" => ~ (AtPath.size > Budget)
            \/ Failed(0)
            \/ Spoiled
<1>1. CASE ~Exists(AtPath)
  <2>1. Unreadable(IF reading = "trace" THEN "trace_missing" ELSE "artifact_unreadable", 0)
    BY <1>1 DEF PrepareFile
  <2>2. Failed(0) \/ Spoiled
    BY <2>1, UnreadableEffect
  <2>3. QED
    BY <2>2 DEF PrepareFile
<1>2. CASE Exists(AtPath)
  BY <1>2, FailEffect DEF PrepareFile, Goto
<1>3. QED
  BY <1>1, <1>2

\* What the opening of a file changes.
LEMMA OpenFileEffect ==
  ASSUME OpenFile, FileTypes
  PROVE  /\ pc = "open"
         /\ UNCHANGED <<disk, job, wanted, steady, prepared, scan, input>>
         /\ \/ pc' = "read" /\ UNCHANGED <<queue, output>>
            \/ Failed(0)
            \/ Spoiled
<1>1. CASE Unreadable(CannotRead, 0)
  BY <1>1, UnreadableEffect DEF OpenFile, CannotRead
<1>2. CASE Unreadable(HasChanged, 0)
  BY <1>2, UnreadableEffect DEF OpenFile, HasChanged
<1>3. QED
  BY <1>1, <1>2 DEF OpenFile, Goto

\* What the comparison after the reads changes.
LEMMA VerifyFileEffect ==
  ASSUME VerifyFile, FileTypes
  PROVE  /\ pc = "verify"
         /\ UNCHANGED <<disk, job, wanted, steady, prepared, scan, input>>
         /\ \/ pc' = "final" /\ FileUnchanged /\ UNCHANGED <<queue, output>>
            \/ reading = "trace" /\ Failed(ReadBytes)
            \/ Spoiled
<1>1. CASE Unreadable(CannotRead, ReadBytes)
  BY <1>1, UnreadableEffect DEF VerifyFile, CannotRead
<1>2. CASE Unreadable(HasChanged, ReadBytes)
  BY <1>2, UnreadableEffect DEF VerifyFile, HasChanged
<1>3. QED
  BY <1>1, <1>2 DEF VerifyFile, Goto

\* What the end of evaluate_run changes.
LEMMA AcceptAssertionEffect ==
  ASSUME AcceptAssertion
  PROVE  /\ pc = "final" /\ reading = "stdout"
         /\ UNCHANGED <<disk, job, wanted, steady, prepared, scan, input>>
         /\ \/ Failed(0)
            \/ /\ RunUnchanged /\ pc' = "done"
               /\ UNCHANGED <<queue, attempted, runs, skipped, truncated, moment>>
               /\ \/ /\ result = "none" /\ result' = "evaluated"
                     /\ taken' = {[file |-> file, got |-> got, of |-> reading]} \cup taken
                  \/ result # "none" /\ UNCHANGED <<taken, result>>
BY FailEffect DEF AcceptAssertion, Take

\* What becomes of a trace that was read.
LEMMA AcceptTraceEffect ==
  ASSUME ReaderTypes, AcceptTrace
  PROVE  /\ pc = "final" /\ reading = "trace"
         /\ UNCHANGED <<disk, job, wanted, steady, prepared, scan, initial, file, got,
                        short, growth>>
         /\ \/ Failed(ReadBytes) /\ reading' = reading
            \/ /\ RunUnchanged /\ attempted' = attempted + ReadBytes
               /\ taken' = {[file |-> file, got |-> got, of |-> reading]}
               /\ moment' = at /\ skipped' = skipped
               /\ runs' = Append(runs, [id |-> Head(queue), dir |-> file.dir])
               /\ \/ /\ job = "load" /\ pc' = "done" /\ result' = "loaded"
                     /\ UNCHANGED <<queue, truncated, reading>>
                  \/ /\ job = "assert" /\ pc' = "stat" /\ reading' = "stdout"
                     /\ UNCHANGED <<queue, truncated, result>>
                  \/ /\ job = "list" /\ queue' = Tail(queue)
                     /\ UNCHANGED <<result, reading>>
                     /\ \/ /\ Len(runs') = MaxRuns /\ queue' # <<>>
                           /\ pc' = "verify_store" /\ truncated' = TRUE
                        \/ /\ ~ (Len(runs') = MaxRuns /\ queue' # <<>>)
                           /\ pc' = "next" /\ UNCHANGED truncated
<1>1. job \in {"load", "assert", "list"}
  BY LimitsAssumption DEF ReaderTypes
<1>2. CASE job = "load"
  BY <1>2, FailEffect DEF AcceptTrace, Take
<1>3. CASE job = "assert"
  BY <1>3, FailEffect DEF AcceptTrace, Take
<1>4. CASE job = "list"
  BY <1>4, FailEffect DEF AcceptTrace, Take
<1>5. QED
  BY <1>1, <1>2, <1>3, <1>4

\* What is retained of the candidates of a listing: the greatest, in order, and
\* all of them if they are not too many.
LEMMA RetainedEffect ==
  ASSUME ReaderTypes, NEW q \in Retained(candidates)
  PROVE  /\ IsFiniteSet(candidates)
         /\ q \in Seq(RunIds) /\ Range(q) \subseteq candidates
         /\ Len(q) = Cardinality(Range(q)) /\ Len(q) <= MaxCandidates
         /\ \A i, j \in DOMAIN q : i < j => q[i] > q[j]
         /\ \A n \in candidates \ Range(q), k \in Range(q) : n < k
         /\ Cardinality(candidates) <= MaxCandidates <=> Range(q) = candidates
<1> DEFINE n == Min({MaxCandidates, Cardinality(candidates)})
<1>1. IsFiniteSet(candidates) /\ Cardinality(candidates) \in Nat
  BY RunIdsAreNumbers, FS_Subset, FS_CardinalityType DEF ReaderTypes
<1>2. /\ n \in Nat /\ n <= MaxCandidates /\ n <= Cardinality(candidates)
      /\ n = MaxCandidates \/ n = Cardinality(candidates)
  BY <1>1, MinIsLeast, LimitsAssumption
<1>3. /\ q \in [1 .. n -> candidates]
      /\ \A i, j \in 1 .. n : i < j => q[i] > q[j]
      /\ \A x \in candidates \ Range(q), i \in 1 .. n : x < q[i]
  BY DEF Retained
<1> HIDE DEF n
<1>4. candidates \subseteq RunIds /\ RunIds \subseteq Nat
  BY RunIdsAreNumbers DEF ReaderTypes
<1>5. q \in Seq(RunIds) /\ Len(q) = n /\ DOMAIN q = 1 .. n
  <2>1. q \in [1 .. n -> RunIds]
    BY <1>3, <1>4
  <2>2. QED
    BY <1>2, <2>1
<1>6. Range(q) \subseteq candidates /\ q \in [1 .. n -> Range(q)]
  BY <1>3 DEF Range
<1>7. \A i, j \in 1 .. n : q[i] = q[j] => i = j
  <2>1. SUFFICES ASSUME NEW i \in 1 .. n, NEW j \in 1 .. n, q[i] = q[j], i < j
                 PROVE  FALSE
    BY <1>2
  <2>2. q[i] \in Nat /\ q[i] > q[j]
    BY <1>3, <1>4, <2>1
  <2>3. QED
    BY <2>1, <2>2
<1>8. q \in Bijection(1 .. n, Range(q))
  BY <1>5, <1>6, <1>7 DEF Bijection, Injection, Surjection, IsInjective, Range
<1>9. Cardinality(Range(q)) = n
  BY <1>2, <1>8, FS_CountingElements DEF ExistsBijection
<1>10. Cardinality(candidates) <= MaxCandidates => Range(q) = candidates
  BY <1>1, <1>2, <1>6, <1>9, FS_Subset, LimitsAssumption
<1>11. Range(q) = candidates => Cardinality(candidates) <= MaxCandidates
  BY <1>2, <1>9
<1>12. \A x \in candidates \ Range(q), k \in Range(q) : x < k
  BY <1>3, <1>5 DEF Range
<1>13. QED
  BY <1>1, <1>2, <1>3, <1>5, <1>6, <1>9, <1>10, <1>11, <1>12

\* A failure leaves the reader's types.
LEMMA FailedTypes ==
  ASSUME ReaderTypes, NEW n \in Nat, Failed(n), job = "list" => queue # <<>>,
         UNCHANGED <<job, wanted, prepared, scan>>
  PROVE  ReaderTypes'
<1>1. queue' \in Seq(RunIds)
  BY QueueTail DEF Failed, ReaderTypes
<1>2. pc' \in {"done", "verify_store", "next"}
  BY DEF Failed
<1>3. attempted' \in Nat
  BY DEF Failed, ReaderTypes
<1>4. skipped' \in Nat
  BY DEF Failed, ReaderTypes
<1>5. truncated' \in BOOLEAN
  BY DEF Failed, ReaderTypes
<1>6. UNCHANGED <<runs, moment>>
  BY DEF Failed
<1>7. QED
  BY <1>1, <1>2, <1>3, <1>4, <1>5, <1>6 DEF ReaderTypes

\* The files that the reader holds keep their types.
LEMMA FileTypesKeep ==
  ASSUME IInv, ReaderStep
  PROVE  FileTypes'
<1> USE DEF IInv, DiskTypes, ReaderTypes, FileTypes, ControlKept, Working, Opened
<1>1. CASE PrepareStore
  BY <1>1 DEF PrepareStore
<1>2. CASE \E n \in Names : Enumerate(n)
  BY <1>2 DEF Enumerate
<1>3. CASE BeginListing
  BY <1>3 DEF BeginListing
<1>4. CASE SelectRun
  BY <1>4, SelectRunEffect
<1>5. CASE ResolveInitial
  BY <1>5, ResolveInitialEffect
<1>6. CASE ResolveVerify
  BY <1>6, ResolveVerifyEffect
<1>7. CASE PrepareFile
  BY <1>7, PrepareFileEffect, AtPathTypes
<1>8. CASE OpenFile
  BY <1>8, OpenFileEffect
<1>9. CASE Read
  <2>1. file.dir \in 1 .. Len(dirs)
    BY <1>9 DEF Read, OneRevision
  <2>2. FileIn(file.dir).rev \in Nat
    BY <2>1, FileInTypes DEF File
  <2>3. QED
    BY <1>9, <2>2 DEF Read, Goto
<1>10. CASE Probe
  BY <1>10 DEF Probe, Goto
<1>11. CASE VerifyFile
  BY <1>11, VerifyFileEffect
<1>12. CASE AcceptTrace
  BY <1>12, AcceptTraceEffect
<1>13. CASE AcceptAssertion
  BY <1>13, AcceptAssertionEffect
<1>14. CASE EndListing
  BY <1>14 DEF EndListing
<1>15. QED
  BY <1>1, <1>2, <1>3, <1>4, <1>5, <1>6, <1>7, <1>8, <1>9, <1>10, <1>11, <1>12, <1>13,
     <1>14
    DEF ReaderStep

\* The reader changes nothing of the store.
LEMMA DiskTypesKeep ==
  ASSUME IInv, ReaderStep
  PROVE  DiskTypes'
<1> USE DEF IInv, DiskTypes
<1>1. CASE PrepareStore
  BY <1>1 DEF PrepareStore
<1>2. CASE \E n \in Names : Enumerate(n)
  BY <1>2 DEF Enumerate
<1>3. CASE BeginListing
  BY <1>3 DEF BeginListing
<1>4. CASE SelectRun
  BY <1>4, SelectRunEffect
<1>5. CASE ResolveInitial
  BY <1>5, ResolveInitialEffect
<1>6. CASE ResolveVerify
  BY <1>6, ResolveVerifyEffect
<1>7. CASE PrepareFile
  BY <1>7, PrepareFileEffect
<1>8. CASE OpenFile
  BY <1>8, OpenFileEffect
<1>9. CASE Read
  BY <1>9 DEF Read, Goto
<1>10. CASE Probe
  BY <1>10 DEF Probe, Goto
<1>11. CASE VerifyFile
  BY <1>11, VerifyFileEffect
<1>12. CASE AcceptTrace
  BY <1>12, AcceptTraceEffect
<1>13. CASE AcceptAssertion
  BY <1>13, AcceptAssertionEffect
<1>14. CASE EndListing
  BY <1>14 DEF EndListing
<1>15. QED
  BY <1>1, <1>2, <1>3, <1>4, <1>5, <1>6, <1>7, <1>8, <1>9, <1>10, <1>11, <1>12, <1>13,
     <1>14
    DEF ReaderStep

\* The reader stays where its job lets it be.
LEMMA ControlKeeps ==
  ASSUME IInv, ReaderStep
  PROVE  ControlKept'
<1> USE DEF IInv, ReaderTypes, FileTypes, ControlKept, Working, Failed, Spoiled
<1>1. CASE PrepareStore
  BY <1>1 DEF PrepareStore
<1>2. CASE \E n \in Names : Enumerate(n)
  BY <1>2 DEF Enumerate
<1>3. CASE BeginListing
  BY <1>3 DEF BeginListing
<1>4. CASE SelectRun
  <2>1. CASE pc' = "next" /\ queue' = <<wanted>> /\ UNCHANGED output
    <3>1. queue' # <<>>
      BY <2>1
    <3>2. QED
      BY <1>4, <2>1, <3>1, SelectRunEffect
  <2>2. CASE Failed(0) /\ queue' = queue
    <3>1. pc' = "done" /\ result' \notin {"none", "listed"}
      BY <1>4, <2>2, SelectRunEffect
    <3>2. QED
      BY <1>4, <3>1, SelectRunEffect
  <2>3. QED
    BY <1>4, <2>1, <2>2, SelectRunEffect
<1>5. CASE ResolveInitial
  BY <1>5, ResolveInitialEffect
<1>6. CASE ResolveVerify
  BY <1>6, ResolveVerifyEffect
<1>7. CASE PrepareFile
  BY <1>7, PrepareFileEffect
<1>8. CASE OpenFile
  BY <1>8, OpenFileEffect
<1>9. CASE Read
  BY <1>9 DEF Read, Goto
<1>10. CASE Probe
  BY <1>10 DEF Probe, Goto
<1>11. CASE VerifyFile
  BY <1>11, VerifyFileEffect
<1>12. CASE AcceptTrace
  BY <1>12, AcceptTraceEffect
<1>13. CASE AcceptAssertion
  BY <1>13, AcceptAssertionEffect
<1>14. CASE EndListing
  BY <1>14 DEF EndListing
<1>15. QED
  BY <1>1, <1>2, <1>3, <1>4, <1>5, <1>6, <1>7, <1>8, <1>9, <1>10, <1>11, <1>12, <1>13,
     <1>14
    DEF ReaderStep

\* The reader keeps its types.
LEMMA ReaderTypesKeep ==
  ASSUME IInv, ReaderStep
  PROVE  ReaderTypes'
<1> USE DEF IInv, ReaderTypes, FileTypes, ControlKept, DiskTypes, Working
<1>1. CASE PrepareStore
  BY <1>1 DEF PrepareStore
<1>2. CASE \E n \in Names : Enumerate(n)
  <2>1. PICK n \in Names : Enumerate(n)
    BY <1>2
  <2>2. IsFiniteSet(scanned \cup {n})
    BY FS_AddElement
  <2>3. candidates' \subseteq scanned' \cap RunIds
    BY <2>1 DEF Enumerate
  <2>4. overflow' \in BOOLEAN /\ skipped' \in Nat
    <3>1. CASE n \in RunIds
      BY <2>1, <3>1 DEF Enumerate
    <3>2. CASE n \notin RunIds
      BY <2>1, <3>2 DEF Enumerate
    <3>3. QED
      BY <3>1, <3>2
  <2>5. QED
    BY <2>1, <2>2, <2>3, <2>4 DEF Enumerate
<1>3. CASE BeginListing
  BY <1>3, RetainedEffect DEF BeginListing
<1>4. CASE SelectRun
  <2>1. <<wanted>> \in Seq(RunIds)
    OBVIOUS
  <2>2. CASE Failed(0)
    BY <1>4, <2>2, SelectRunEffect, FailedTypes
  <2>3. CASE pc' = "next" /\ queue' = <<wanted>> /\ UNCHANGED output
    BY <1>4, <2>1, <2>3, SelectRunEffect
  <2>4. QED
    BY <1>4, <2>2, <2>3, SelectRunEffect
<1>5. CASE ResolveInitial
  <2>1. CASE Failed(0)
    BY <1>5, <2>1, ResolveInitialEffect, FailedTypes, ReadBytesTypes
  <2>2. CASE ~Failed(0)
    BY <1>5, <2>2, ResolveInitialEffect DEF Spoiled
  <2>3. QED
    BY <2>1, <2>2
<1>6. CASE ResolveVerify
  <2>1. CASE Failed(0)
    BY <1>6, <2>1, ResolveVerifyEffect, FailedTypes, ReadBytesTypes
  <2>2. CASE ~Failed(0)
    BY <1>6, <2>2, ResolveVerifyEffect DEF Spoiled
  <2>3. QED
    BY <2>1, <2>2
<1>7. CASE PrepareFile
  <2>1. CASE Failed(0)
    BY <1>7, <2>1, PrepareFileEffect, FailedTypes, ReadBytesTypes
  <2>2. CASE ~Failed(0)
    BY <1>7, <2>2, PrepareFileEffect DEF Spoiled
  <2>3. QED
    BY <2>1, <2>2
<1>8. CASE OpenFile
  <2>1. CASE Failed(0)
    BY <1>8, <2>1, OpenFileEffect, FailedTypes, ReadBytesTypes
  <2>2. CASE ~Failed(0)
    BY <1>8, <2>2, OpenFileEffect DEF Spoiled
  <2>3. QED
    BY <2>1, <2>2
<1>9. CASE Read
  BY <1>9 DEF Read, Goto
<1>10. CASE Probe
  BY <1>10 DEF Probe, Goto
<1>11. CASE VerifyFile
  <2>1. CASE Failed(ReadBytes)
    BY <1>11, <2>1, VerifyFileEffect, FailedTypes, ReadBytesTypes
  <2>2. CASE ~Failed(ReadBytes)
    BY <1>11, <2>2, VerifyFileEffect DEF Spoiled
  <2>3. QED
    BY <2>1, <2>2
<1>12. CASE AcceptTrace
  <2>1. Append(runs, [id |-> Head(queue), dir |-> file.dir]) \in Seq(Run)
    <3>1. [id |-> Head(queue), dir |-> file.dir] \in Run
      BY <1>12, AcceptTraceEffect, QueueTail DEF File, Run
    <3>2. QED
      BY <3>1
  <2>2. Tail(queue) \in Seq(RunIds) /\ ReadBytes \in Nat
    BY <1>12, AcceptTraceEffect, QueueTail, ReadBytesTypes
  <2>3. CASE Failed(ReadBytes)
    BY <1>12, <2>2, <2>3, AcceptTraceEffect, FailedTypes
  <2>4. CASE ~Failed(ReadBytes)
    <3>1. runs' \in Seq(Run)
      BY <1>12, <2>1, <2>4, AcceptTraceEffect
    <3>2. queue' \in Seq(RunIds)
      BY <1>12, <2>2, <2>4, AcceptTraceEffect
    <3>3. attempted' \in Nat
      <4>1. attempted' = attempted + ReadBytes
        BY <1>12, <2>4, AcceptTraceEffect
      <4>2. QED
        BY <2>2, <4>1
    <3>4. truncated' \in BOOLEAN
      BY <1>12, <2>4, AcceptTraceEffect
    <3>5. pc' \in {"done", "stat", "verify_store", "next"}
      BY <1>12, <2>4, AcceptTraceEffect
    <3>6. skipped' = skipped /\ moment' = at /\ UNCHANGED <<job, wanted, prepared, scan>>
      BY <1>12, <2>4, AcceptTraceEffect
    <3>7. QED
      BY <3>1, <3>2, <3>3, <3>4, <3>5, <3>6
  <2>5. QED
    BY <2>3, <2>4
<1>13. CASE AcceptAssertion
  <2>1. CASE Failed(0)
    BY <1>13, <2>1, AcceptAssertionEffect, FailedTypes, ReadBytesTypes
  <2>2. CASE ~Failed(0)
    BY <1>13, <2>2, AcceptAssertionEffect DEF Spoiled
  <2>3. QED
    BY <2>1, <2>2
<1>14. CASE EndListing
  BY <1>14 DEF EndListing
<1>15. QED
  BY <1>1, <1>2, <1>3, <1>4, <1>5, <1>6, <1>7, <1>8, <1>9, <1>10, <1>11, <1>12, <1>13,
     <1>14
    DEF ReaderStep

-----------------------------------------------------------------------------
(* The reader: what has not changed since it looked.                       *)

\* What the reader holds stays what is there, if no entry comes or goes.
LEMMA AsPreparedKeeps ==
  ASSUME IInv, ReaderStep
  PROVE  AsPrepared'
<1> USE DEF IInv, DiskTypes, ReaderTypes, FileTypes, ControlKept, AsPrepared, Working,
            Opened, Failed, Spoiled
<1>1. CASE PrepareStore
  BY <1>1 DEF PrepareStore
<1>2. CASE \E n \in Names : Enumerate(n)
  BY <1>2 DEF Enumerate
<1>3. CASE BeginListing
  BY <1>3 DEF BeginListing
<1>4. CASE SelectRun
  BY <1>4, SelectRunEffect
<1>5. CASE ResolveInitial
  BY <1>5, ResolveInitialEffect
<1>6. CASE ResolveVerify
  BY <1>6, ResolveVerifyEffect
<1>7. CASE PrepareFile
  BY <1>7, PrepareFileEffect, AtPathTypes
<1>8. CASE OpenFile
  BY <1>8, OpenFileEffect
<1>9. CASE Read
  BY <1>9 DEF Read, Goto
<1>10. CASE Probe
  BY <1>10 DEF Probe, Goto
<1>11. CASE VerifyFile
  BY <1>11, VerifyFileEffect
<1>12. CASE AcceptTrace
  <2>1. CASE Failed(ReadBytes)
    BY <1>12, <2>1, AcceptTraceEffect
  <2>2. CASE ~Failed(ReadBytes)
    <3>1. file.dir = at[Head(queue)] /\ prepared = stamp
      BY <1>12, <2>2, AcceptTraceEffect DEF RunUnchanged
    <3>2. /\ taken' = {[file |-> file, got |-> got, of |-> reading]} /\ moment' = at
          /\ pc' \in {"done", "stat", "verify_store", "next"}
          /\ UNCHANGED <<at, stamp, prepared>>
          /\ reading' = "stdout" => queue' = queue
      BY <1>12, <2>2, AcceptTraceEffect
    <3>3. \A u \in taken' : u.file.dir = file.dir
      BY <3>2
    <3>4. QED
      BY <3>1, <3>2, <3>3
  <2>3. QED
    BY <2>1, <2>2
<1>13. CASE AcceptAssertion
  BY <1>13, AcceptAssertionEffect
<1>14. CASE EndListing
  BY <1>14 DEF EndListing
<1>15. QED
  BY <1>1, <1>2, <1>3, <1>4, <1>5, <1>6, <1>7, <1>8, <1>9, <1>10, <1>11, <1>12, <1>13,
     <1>14
    DEF ReaderStep

\* Revisions that were read stay between the first and the one that is there.
LEMMA OneRevisionKeeps ==
  ASSUME IInv, ReaderStep
  PROVE  OneRevision'
<1> USE DEF IInv, DiskTypes, ReaderTypes, FileTypes, ControlKept, OneRevision, Working,
            Opened, Failed, Spoiled
<1>1. CASE PrepareStore
  BY <1>1 DEF PrepareStore
<1>2. CASE \E n \in Names : Enumerate(n)
  BY <1>2 DEF Enumerate
<1>3. CASE BeginListing
  BY <1>3 DEF BeginListing
<1>4. CASE SelectRun
  BY <1>4, SelectRunEffect
<1>5. CASE ResolveInitial
  BY <1>5, ResolveInitialEffect
<1>6. CASE ResolveVerify
  BY <1>6, ResolveVerifyEffect
<1>7. CASE PrepareFile
  <2>1. CASE pc' = "open" /\ Exists(AtPath) /\ UNCHANGED <<queue, output>>
    <3>1. /\ AtPath \in File /\ AtPath.dir \in 1 .. Len(dirs)
          /\ AtPath.rev = dirs[AtPath.dir][reading]
      BY <1>7, <2>1, PrepareFileEffect, AtPathTypes
    <3>2. file' = AtPath /\ got' = {} /\ UNCHANGED <<disk, reading, taken>>
      BY <1>7, <2>1, PrepareFileEffect
    <3>3. AtPath.rev \in Nat
      BY <3>1 DEF File
    <3>4. QED
      BY <2>1, <3>1, <3>2, <3>3
  <2>2. CASE Failed(0) \/ Spoiled
    BY <1>7, <2>2, PrepareFileEffect
  <2>3. QED
    BY <1>7, <2>1, <2>2, PrepareFileEffect
<1>8. CASE OpenFile
  BY <1>8, OpenFileEffect
<1>9. CASE Read
  <2> DEFINE now == dirs[file.dir][reading]
  <2>1. file.dir \in 1 .. Len(dirs) /\ FileIn(file.dir).rev = now /\ now \in Nat
    <3>1. file.dir \in 1 .. Len(dirs)
      BY <1>9 DEF Read
    <3>2. QED
      BY <3>1, FileInTypes DEF File
  <2>2. got' = got \cup {now} /\ UNCHANGED <<disk, reading, file, output>>
    BY <1>9, <2>1 DEF Read, Goto
  <2>3. /\ file.rev <= now /\ \A rev \in got : file.rev <= rev /\ rev <= now
        /\ pc' \in {"read_rest", "probe", "verify"}
    BY <1>9 DEF Read, Goto
  <2>4. ASSUME NEW rev \in got'
        PROVE  file.rev <= rev /\ rev <= now
    <3>1. CASE rev \in got
      BY <2>3, <3>1
    <3>2. CASE rev = now
      BY <2>1, <2>3, <3>2
    <3>3. QED
      BY <2>2, <2>4, <3>1, <3>2
  <2>5. reading' = "stdout" => \A u \in taken' : u.got = {u.file.rev}
    BY <2>2
  <2>6. QED
    BY <2>1, <2>2, <2>3, <2>4, <2>5
<1>10. CASE Probe
  BY <1>10 DEF Probe, Goto
<1>11. CASE VerifyFile
  <2>1. CASE pc' = "final" /\ FileUnchanged /\ UNCHANGED <<queue, output>>
    <3>1. file.dir \in 1 .. Len(dirs) /\ got # {} /\ file.rev \in Nat /\ got \subseteq Nat
      BY <1>11, VerifyFileEffect DEF File
    <3>2. dirs[file.dir][reading] = file.rev
      BY <2>1, <3>1, FileInTypes DEF FileUnchanged
    <3>3. \A rev \in got : file.rev <= rev /\ rev <= file.rev
      BY <1>11, <3>2, VerifyFileEffect
    <3>4. got = {file.rev}
      BY <3>1, <3>3
    <3>5. QED
      BY <1>11, <2>1, <3>1, <3>4, VerifyFileEffect
  <2>2. CASE Failed(ReadBytes) \/ Spoiled
    BY <1>11, <2>2, VerifyFileEffect
  <2>3. QED
    BY <1>11, <2>1, <2>2, VerifyFileEffect
<1>12. CASE AcceptTrace
  <2>1. CASE Failed(ReadBytes)
    BY <1>12, <2>1, AcceptTraceEffect
  <2>2. CASE ~Failed(ReadBytes)
    <3>1. got = {file.rev}
      BY <1>12, <2>2, AcceptTraceEffect
    <3>2. /\ taken' = {[file |-> file, got |-> got, of |-> reading]}
          /\ pc' \in {"done", "stat", "verify_store", "next"}
      BY <1>12, <2>2, AcceptTraceEffect
    <3>3. \A u \in taken' : u.got = {u.file.rev}
      BY <3>1, <3>2
    <3>4. QED
      BY <3>2, <3>3
  <2>3. QED
    BY <2>1, <2>2
<1>13. CASE AcceptAssertion
  BY <1>13, AcceptAssertionEffect
<1>14. CASE EndListing
  BY <1>14 DEF EndListing
<1>15. QED
  BY <1>1, <1>2, <1>3, <1>4, <1>5, <1>6, <1>7, <1>8, <1>9, <1>10, <1>11, <1>12, <1>13,
     <1>14
    DEF ReaderStep

-----------------------------------------------------------------------------
(* The reader: the scan of the store and the account of a listing.         *)

\* One more entry of a scan: the greatest ids are kept.
LEMMA EnumerateKeeps ==
  ASSUME ReaderTypes, Scanning, job = "list", NEW n \in Names, Enumerate(n)
  PROVE  Scanning'
<1> USE DEF ReaderTypes, Scanning
<1>1. /\ pc = "scan" /\ n \notin scanned /\ scanned' = scanned \cup {n}
      /\ UNCHANGED <<pc, job, queue, runs, attempted, truncated>>
  BY DEF Enumerate
<1>2. /\ IsFiniteSet(scanned \ RunIds) /\ IsFiniteSet(candidates)
      /\ Cardinality(candidates) \in Nat /\ MaxCandidates \in Nat
  <2>1. IsFiniteSet(scanned \ RunIds) /\ IsFiniteSet(candidates)
    BY FS_Subset
  <2>2. QED
    BY <2>1, FS_CardinalityType, LimitsAssumption
<1>3. CASE n \notin RunIds
  <2>1. scanned' \ RunIds = (scanned \ RunIds) \cup {n} /\ scanned' \cap RunIds = scanned \cap RunIds
    BY <1>1, <1>3
  <2>2. Cardinality(scanned' \ RunIds) = Cardinality(scanned \ RunIds) + 1
    BY <1>1, <1>2, <2>1, FS_AddElement
  <2>3. skipped' = skipped + 1 /\ UNCHANGED <<candidates, overflow>>
    BY <1>3 DEF Enumerate
  <2>4. QED
    BY <1>1, <2>1, <2>2, <2>3
<1>4. CASE n \in RunIds
  <2> DEFINE m == Min(candidates)
  <2>1. /\ scanned' \ RunIds = scanned \ RunIds
        /\ scanned' \cap RunIds = (scanned \cap RunIds) \cup {n}
        /\ n \notin candidates /\ skipped' = skipped
    BY <1>1, <1>4 DEF Enumerate
  <2>2. candidates \subseteq Nat /\ n \in Nat
    BY <1>4, RunIdsAreNumbers
  <2>3. CASE Cardinality(candidates) < MaxCandidates + 1
    <3>1. candidates' = candidates \cup {n} /\ overflow' = overflow
      BY <1>4, <2>3 DEF Enumerate
    <3>2. ~overflow
      BY <1>1, <1>2, <2>3
    <3>3. Cardinality(candidates') <= MaxCandidates + 1
      <4>1. Cardinality(candidates \cup {n}) = Cardinality(candidates) + 1
        BY <1>2, <2>1, FS_AddElement
      <4>2. QED
        BY <1>2, <2>3, <3>1, <4>1
    <3>4. candidates' = scanned' \cap RunIds
      BY <1>1, <2>1, <3>1, <3>2
    <3>5. QED
      BY <1>1, <2>1, <3>1, <3>2, <3>3, <3>4
  <2>4. CASE ~ (Cardinality(candidates) < MaxCandidates + 1)
    <3>1. /\ overflow' = TRUE
          /\ candidates' = IF n > m THEN (candidates \ {m}) \cup {n} ELSE candidates
      BY <1>4, <2>4 DEF Enumerate
    <3>2. Cardinality(candidates) = MaxCandidates + 1
      BY <1>1, <1>2, <2>4
    <3>3. m \in candidates /\ \A c \in candidates : m <= c
      <4>1. candidates # {}
        BY <1>2, <3>2, FS_EmptySet
      <4>2. QED
        BY <2>2, <4>1, MinIsLeast
    <3> HIDE DEF m
    <3>4. \A d \in (scanned \cap RunIds) \ candidates, c \in candidates : d < c
      BY <1>1
    <3>5. \A d \in scanned \cap RunIds : d \in Nat
      BY RunIdsAreNumbers
    <3>6. CASE n > m
      <4>1. candidates' = (candidates \ {m}) \cup {n}
        BY <3>1, <3>6
      <4>2. IsFiniteSet(candidates \ {m}) /\ Cardinality(candidates \ {m}) = MaxCandidates
        <5>1. /\ IsFiniteSet(candidates \ {m})
              /\ Cardinality(candidates \ {m}) = Cardinality(candidates) - 1
          BY <1>2, <3>3, FS_RemoveElement
        <5>2. QED
          BY <1>2, <3>2, <5>1
      <4>3. Cardinality(candidates') = MaxCandidates + 1
        BY <2>1, <4>1, <4>2, FS_AddElement
      <4>4. ASSUME NEW d \in (scanned' \cap RunIds) \ candidates', NEW c \in candidates'
            PROVE  d < c
        <5>1. d = m \/ d \in (scanned \cap RunIds) \ candidates
          BY <2>1, <4>1, <4>4
        <5>2. c = n \/ (c \in candidates /\ c # m)
          BY <4>1, <4>4
        <5>3. d \in Nat /\ m \in Nat /\ c \in Nat /\ n \in Nat
          BY <2>2, <3>3, <3>5, <5>1, <5>2
        <5>4. d <= m
          BY <3>3, <3>4, <5>1, <5>3
        <5>5. m < c
          BY <3>3, <3>6, <5>2, <5>3
        <5>6. QED
          BY <5>3, <5>4, <5>5
      <4>5. overflow' /\ skipped' = Cardinality(scanned' \ RunIds)
        BY <1>1, <2>1, <3>1
      <4>6. QED
        BY <1>1, <1>2, <4>3, <4>4, <4>5
    <3>7. CASE ~ (n > m)
      <4>1. candidates' = candidates
        BY <3>1, <3>7
      <4>2. ASSUME NEW d \in (scanned' \cap RunIds) \ candidates', NEW c \in candidates'
            PROVE  d < c
        <5>1. d = n \/ d \in (scanned \cap RunIds) \ candidates
          BY <2>1, <4>1, <4>2
        <5>2. n < m /\ m <= c /\ m \in Nat /\ c \in Nat /\ n \in Nat /\ c \in candidates
          <6>1. m \in Nat /\ n # m /\ c \in candidates
            BY <2>1, <2>2, <3>3, <4>1, <4>2
          <6>2. QED
            BY <2>2, <3>3, <3>7, <6>1
        <5>3. CASE d = n
          BY <5>2, <5>3
        <5>4. CASE d \in (scanned \cap RunIds) \ candidates
          BY <3>4, <5>2, <5>4
        <5>5. QED
          BY <5>1, <5>3, <5>4
      <4>3. QED
        BY <1>1, <2>1, <3>1, <3>2, <4>1, <4>2
    <3>8. QED
      BY <3>6, <3>7
  <2>5. QED
    BY <2>3, <2>4
<1>5. QED
  BY <1>3, <1>4

\* Every entry that a scan has seen is kept, counted as skipped or smaller.
LEMMA ScanningKeeps ==
  ASSUME IInv, ReaderStep
  PROVE  Scanning'
<1> USE DEF IInv, ReaderTypes, FileTypes, ControlKept, Scanning, Working, Failed,
            Spoiled
<1>1. CASE PrepareStore
  BY <1>1 DEF PrepareStore
<1>2. CASE \E n \in Names : Enumerate(n)
  <2>1. CASE job = "list"
    BY <1>2, <2>1, EnumerateKeeps
  <2>2. CASE job # "list"
    BY <1>2, <2>2 DEF Enumerate
  <2>3. QED
    BY <2>1, <2>2
<1>3. CASE BeginListing
  BY <1>3 DEF BeginListing
<1>4. CASE SelectRun
  BY <1>4, SelectRunEffect
<1>5. CASE ResolveInitial
  BY <1>5, ResolveInitialEffect
<1>6. CASE ResolveVerify
  BY <1>6, ResolveVerifyEffect
<1>7. CASE PrepareFile
  BY <1>7, PrepareFileEffect
<1>8. CASE OpenFile
  BY <1>8, OpenFileEffect
<1>9. CASE Read
  BY <1>9 DEF Read, Goto
<1>10. CASE Probe
  BY <1>10 DEF Probe, Goto
<1>11. CASE VerifyFile
  BY <1>11, VerifyFileEffect
<1>12. CASE AcceptTrace
  BY <1>12, AcceptTraceEffect
<1>13. CASE AcceptAssertion
  BY <1>13, AcceptAssertionEffect
<1>14. CASE EndListing
  BY <1>14 DEF EndListing
<1>15. QED
  BY <1>1, <1>2, <1>3, <1>4, <1>5, <1>6, <1>7, <1>8, <1>9, <1>10, <1>11, <1>12, <1>13,
     <1>14
    DEF ReaderStep

\* A run that fails is skipped, or left unread because the budget is used up.
LEMMA FailedAccounts ==
  ASSUME ReaderTypes, Accounted, NEW n, Failed(n), queue # <<>>, UNCHANGED <<job, scan>>,
         pc \notin {"start", "scan", "verify_store", "done"}
  PROVE  Accounted'
<1> USE DEF ReaderTypes, Accounted, Dropped, Returned, Failed
<1>1. CASE queue' = queue
  BY <1>1
<1>2. CASE job = "list" /\ pc' = "next" /\ skipped' = skipped + 1 /\ queue' = Tail(queue)
           /\ truncated' = truncated
  <2>1. Range(queue') \subseteq Range(queue)
    BY <1>2, QueueRange
  <2>2. \A i, j \in DOMAIN queue' : i < j => queue'[i] > queue'[j]
    <3>1. SUFFICES ASSUME NEW i \in DOMAIN queue', NEW j \in DOMAIN queue', i < j
                   PROVE  queue'[i] > queue'[j]
      OBVIOUS
    <3>2. /\ i + 1 \in DOMAIN queue /\ j + 1 \in DOMAIN queue /\ i + 1 < j + 1
          /\ queue'[i] = queue[i + 1] /\ queue'[j] = queue[j + 1]
      BY <1>2, <3>1, QueueTail
    <3>3. QED
      BY <1>2, <3>2
  <2>3. Len(queue') = Len(queue) - 1 /\ Len(queue) \in Nat /\ Len(runs) \in Nat
    BY <1>2, QueueTail
  <2>4. Cardinality(Dropped) \in Nat
    BY FS_Subset, FS_CardinalityType
  <2>5. UNCHANGED <<runs, scanned, candidates, Dropped, Returned>>
    OBVIOUS
  <2>6. skipped' # 0
    BY <1>2
  <2>7. Len(runs) + Len(queue) + skipped + Cardinality(Dropped) = Cardinality(scanned)
    BY <1>2
  <2>8. Len(runs') + Len(queue') + skipped' + Cardinality(Dropped') = Cardinality(scanned')
    BY <1>2, <2>3, <2>4, <2>5, <2>7
  <2>9. QED
    BY <1>2, <2>1, <2>2, <2>5, <2>6, <2>8
<1>3. QED
  BY <1>1, <1>2

\* A run that is accepted moves from the front of the queue to the result.
LEMMA AcceptedAccounts ==
  ASSUME ReaderTypes, Accounted, job = "list", queue # <<>>, NEW d \in Nat,
         pc = "final", UNCHANGED <<job, scan, skipped>>,
         runs' = Append(runs, [id |-> Head(queue), dir |-> d]), queue' = Tail(queue),
         \/ pc' = "verify_store" /\ truncated' = TRUE /\ queue' # <<>>
         \/ pc' = "next" /\ truncated' = truncated
  PROVE  Accounted'
<1> DEFINE new == [id |-> Head(queue), dir |-> d]
<1> USE DEF ReaderTypes
<1>1. /\ runs \in Seq(Run) /\ new \in Run /\ Len(runs) \in Nat
      /\ Len(runs') = Len(runs) + 1 /\ DOMAIN runs' = 1 .. Len(runs) + 1
      /\ DOMAIN runs = 1 .. Len(runs)
      /\ \A i \in 1 .. Len(runs) : runs'[i] = runs[i]
      /\ runs'[Len(runs) + 1] = new
  <2>1. new \in Run
    BY QueueTail DEF Run
  <2>2. QED
    BY <2>1, AppendProperties
<1> HIDE DEF new
<1>2. new.id = Head(queue)
  BY DEF new
<1>3. Range(queue) = {Head(queue)} \cup Range(queue')
  BY QueueRange
<1>4. Returned' = Returned \cup {Head(queue)}
  BY <1>1, <1>2 DEF Returned
<1>5. /\ Head(queue) \in Range(queue) /\ Head(queue) \in candidates
      /\ \A x \in Range(queue') : x < Head(queue)
  <2>1. SUFFICES ASSUME NEW x \in Range(queue')
                 PROVE  x < Head(queue)
    BY <1>3 DEF Accounted
  <2>2. PICK i \in 1 .. Len(queue') : x = queue[i + 1]
    BY QueueTail DEF Range
  <2>3. /\ 1 \in DOMAIN queue /\ i + 1 \in DOMAIN queue /\ 1 < i + 1
    BY <2>2, QueueTail
  <2>4. queue[1] > queue[i + 1]
    BY <2>3 DEF Accounted
  <2>5. queue[1] \in RunIds /\ queue[i + 1] \in RunIds
    BY <2>3
  <2>6. QED
    BY <2>2, <2>4, <2>5, QueueTail, RunIdsAreNumbers
<1>6. \A i, j \in DOMAIN queue' : i < j => queue'[i] > queue'[j]
  <2>1. SUFFICES ASSUME NEW i \in DOMAIN queue', NEW j \in DOMAIN queue', i < j
                 PROVE  queue'[i] > queue'[j]
    OBVIOUS
  <2>2. /\ i + 1 \in DOMAIN queue /\ j + 1 \in DOMAIN queue /\ i + 1 < j + 1
        /\ queue'[i] = queue[i + 1] /\ queue'[j] = queue[j + 1]
    BY <2>1, QueueTail
  <2>3. QED
    BY <2>2 DEF Accounted
<1>7. ASSUME NEW i \in DOMAIN runs', NEW j \in DOMAIN runs', i < j
      PROVE  runs'[i].id > runs'[j].id
  <2>1. i \in DOMAIN runs /\ runs'[i] = runs[i] /\ runs[i] \in Run
    BY <1>1, <1>7
  <2>2. CASE j \in DOMAIN runs
    BY <1>1, <1>7, <2>1, <2>2 DEF Accounted
  <2>3. CASE j = Len(runs) + 1
    <3>1. Head(queue) < runs[i].id
      BY <1>5, <2>1 DEF Accounted
    <3>2. Head(queue) \in Nat /\ runs[i].id \in Nat
      BY <2>1, QueueTail, RunIdsAreNumbers DEF Run
    <3>3. QED
      BY <1>1, <1>2, <2>1, <2>3, <3>1, <3>2
  <2>4. QED
    BY <1>1, <2>2, <2>3
<1>8. ASSUME NEW x \in Range(queue') \cup Dropped', NEW i \in DOMAIN runs'
      PROVE  x < runs'[i].id
  <2>1. Dropped' = Dropped
    BY DEF Dropped
  <2>2. CASE i \in DOMAIN runs
    BY <1>1, <1>3, <2>1, <2>2 DEF Accounted
  <2>3. CASE i = Len(runs) + 1
    BY <1>1, <1>2, <1>5, <2>1, <2>3 DEF Accounted
  <2>4. QED
    BY <1>1, <2>2, <2>3
<1>9. Len(runs') + Len(queue') + skipped' + Cardinality(Dropped') = Cardinality(scanned')
  <2>1. Cardinality(Dropped) \in Nat
    BY FS_Subset, FS_CardinalityType DEF Dropped
  <2>2. Len(runs) + Len(queue) + skipped + Cardinality(Dropped) = Cardinality(scanned)
    BY DEF Accounted
  <2>3. Len(queue') = Len(queue) - 1 /\ Len(queue) \in Nat /\ Dropped' = Dropped
    BY QueueTail DEF Dropped
  <2>4. QED
    BY <1>1, <2>1, <2>2, <2>3
<1>10. /\ skipped' = 0 => /\ scanned' \subseteq RunIds
                          /\ candidates' \subseteq Returned' \cup Range(queue')
       /\ Returned' \cup Range(queue') \subseteq candidates'
       /\ \A x \in Dropped', c \in candidates' : x < c
  BY <1>3, <1>4, <1>5 DEF Accounted, Dropped
<1>11. IF pc' = "verify_store" THEN truncated' /\ queue' # <<>>
       ELSE pc' = "next" /\ (truncated' <=> Dropped' # {})
  BY DEF Accounted, Dropped
<1>12. QED
  BY <1>6, <1>7, <1>8, <1>9, <1>10, <1>11 DEF Accounted

\* At the end of a scan the greatest ids are in the queue and the others are
\* dropped, and then the listing says that it is truncated.
LEMMA ListingBegins ==
  ASSUME ReaderTypes, Scanning, BeginListing
  PROVE  Accounted'
<1> USE DEF ReaderTypes
<1> DEFINE kept == Range(queue')
           entries == scanned \cap RunIds
<1>1. /\ pc = "scan" /\ job = "list" /\ queue' \in Retained(candidates)
      /\ candidates' = kept /\ pc' = "next"
      /\ truncated' = (overflow \/ Cardinality(candidates) > MaxCandidates)
      /\ UNCHANGED <<job, scanned, overflow, runs, skipped>>
  BY DEF BeginListing
<1>2. /\ queue' \in Seq(RunIds) /\ kept \subseteq candidates /\ Len(queue') = Cardinality(kept)
      /\ \A i, j \in DOMAIN queue' : i < j => queue'[i] > queue'[j]
      /\ \A n \in candidates \ kept, k \in kept : n < k
      /\ Cardinality(candidates) <= MaxCandidates <=> kept = candidates
      /\ IsFiniteSet(candidates)
  BY <1>1, RetainedEffect
<1> HIDE DEF kept
<1>3. /\ runs = <<>> /\ skipped = Cardinality(scanned \ RunIds)
      /\ Cardinality(candidates) \in Nat /\ MaxCandidates \in Nat
      /\ IF overflow
         THEN /\ Cardinality(candidates) = MaxCandidates + 1
              /\ \A n \in entries \ candidates, c \in candidates : n < c
         ELSE candidates = entries
  BY <1>1, <1>2, FS_CardinalityType, LimitsAssumption DEF Scanning
<1>4. Dropped' = entries \ kept
  BY <1>1 DEF Dropped
<1>5. Len(runs') + Len(queue') + skipped' + Cardinality(Dropped') = Cardinality(scanned')
  <2>1. IsFiniteSet(entries) /\ kept \subseteq entries /\ scanned \ entries = scanned \ RunIds
    BY <1>2, FS_Subset
  <2>2. /\ Cardinality(scanned) = Cardinality(entries) + Cardinality(scanned \ RunIds)
        /\ Cardinality(entries) \in Nat /\ Cardinality(scanned \ RunIds) \in Nat
    BY <2>1, TwoParts
  <2>3. /\ Cardinality(entries) = Cardinality(kept) + Cardinality(entries \ kept)
        /\ Cardinality(kept) \in Nat /\ Cardinality(entries \ kept) \in Nat
    BY <2>1, TwoParts
  <2>4. Len(runs') = 0 /\ scanned' = scanned /\ skipped' = Cardinality(scanned \ RunIds)
    BY <1>1, <1>3
  <2>5. QED
    BY <1>2, <1>4, <2>2, <2>3, <2>4
<1>6. skipped' = 0 => scanned' \subseteq RunIds
  <2>1. IsFiniteSet(scanned \ RunIds)
    BY FS_Subset
  <2>2. Cardinality(scanned \ RunIds) = 0 => scanned \ RunIds = {}
    BY <2>1, FS_EmptySet
  <2>3. QED
    BY <1>1, <1>3, <2>2
<1>7. \A n \in Dropped', c \in candidates' : n < c
  BY <1>1, <1>2, <1>3, <1>4
<1>8. truncated' <=> Dropped' # {}
  <2>1. candidates \subseteq entries
    OBVIOUS
  <2>2. kept # candidates => Dropped' # {}
    BY <1>2, <1>4, <2>1
  <2>3. truncated' <=> overflow \/ kept # candidates
    <3>1. Cardinality(candidates) > MaxCandidates <=> kept # candidates
      BY <1>2, <1>3
    <3>2. QED
      BY <1>1, <3>1, Zenon
  <2>4. CASE overflow
    <3>1. kept # candidates
      BY <1>2, <1>3, <2>4
    <3>2. QED
      BY <2>2, <2>3, <2>4, <3>1
  <2>5. CASE ~overflow
    <3>1. candidates = entries
      BY <1>3, <2>5
    <3>2. kept = candidates => Dropped' = {}
      BY <1>4, <3>1
    <3>3. QED
      BY <2>2, <2>3, <2>5, <3>2
  <2>6. QED
    BY <2>4, <2>5
<1>9. Returned' = {} /\ DOMAIN runs' = {} /\ Range(queue') = candidates'
  BY <1>1, <1>3 DEF Returned, kept
<1>10. QED
  BY <1>1, <1>2, <1>5, <1>6, <1>7, <1>8, <1>9 DEF Accounted

\* A listing keeps its account.
LEMMA AccountedKeeps ==
  ASSUME IInv, ReaderStep
  PROVE  Accounted'
<1> USE DEF IInv, ReaderTypes, FileTypes, ControlKept, Accounted, Dropped, Returned,
            Working, Spoiled
<1>1. CASE PrepareStore
  BY <1>1 DEF PrepareStore
<1>2. CASE \E n \in Names : Enumerate(n)
  BY <1>2 DEF Enumerate
<1>3. CASE BeginListing
  BY <1>3, ListingBegins DEF BeginListing
<1>4. CASE SelectRun
  BY <1>4, SelectRunEffect
<1>5. CASE ResolveInitial
  <2>1. CASE Failed(0)
    BY <1>5, <2>1, ResolveInitialEffect, FailedAccounts
  <2>2. CASE ~Failed(0)
    BY <1>5, <2>2, ResolveInitialEffect
  <2>3. QED
    BY <2>1, <2>2
<1>6. CASE ResolveVerify
  <2>1. CASE Failed(0)
    BY <1>6, <2>1, ResolveVerifyEffect, FailedAccounts
  <2>2. CASE ~Failed(0)
    BY <1>6, <2>2, ResolveVerifyEffect
  <2>3. QED
    BY <2>1, <2>2
<1>7. CASE PrepareFile
  <2>1. CASE Failed(0)
    BY <1>7, <2>1, PrepareFileEffect, FailedAccounts
  <2>2. CASE Spoiled
    BY <1>7, <2>2, PrepareFileEffect
  <2>3. CASE ~Failed(0) /\ ~Spoiled
    <3>1. UNCHANGED <<queue, output, job, scan>> /\ pc \in Working /\ pc' \in Working
      BY <1>7, <2>3, PrepareFileEffect
    <3>2. QED
      BY <3>1
  <2>4. QED
    BY <2>1, <2>2, <2>3
<1>8. CASE OpenFile
  <2>1. CASE Failed(0)
    BY <1>8, <2>1, OpenFileEffect, FailedAccounts
  <2>2. CASE Spoiled
    BY <1>8, <2>2, OpenFileEffect
  <2>3. CASE ~Failed(0) /\ ~Spoiled
    <3>1. UNCHANGED <<queue, output, job, scan>> /\ pc \in Working /\ pc' \in Working
      BY <1>8, <2>3, OpenFileEffect
    <3>2. QED
      BY <3>1
  <2>4. QED
    BY <2>1, <2>2, <2>3
<1>9. CASE Read
  BY <1>9 DEF Read, Goto
<1>10. CASE Probe
  BY <1>10 DEF Probe, Goto
<1>11. CASE VerifyFile
  <2>1. CASE Failed(ReadBytes)
    BY <1>11, <2>1, VerifyFileEffect, FailedAccounts
  <2>2. CASE Spoiled
    BY <1>11, <2>2, VerifyFileEffect
  <2>3. CASE ~Failed(ReadBytes) /\ ~Spoiled
    <3>1. UNCHANGED <<queue, output, job, scan>> /\ pc \in Working /\ pc' \in Working
      BY <1>11, <2>3, VerifyFileEffect
    <3>2. QED
      BY <3>1
  <2>4. QED
    BY <2>1, <2>2, <2>3
<1>12. CASE AcceptTrace
  <2>1. CASE Failed(ReadBytes)
    BY <1>12, <2>1, AcceptTraceEffect, FailedAccounts
  <2>2. CASE ~Failed(ReadBytes) /\ job = "list"
    <3>1. file.dir \in Nat
      BY DEF File
    <3>2. QED
      BY <1>12, <2>2, <3>1, AcceptTraceEffect, AcceptedAccounts
  <2>3. CASE ~Failed(ReadBytes) /\ job # "list"
    BY <1>12, <2>3, AcceptTraceEffect
  <2>4. QED
    BY <2>1, <2>2, <2>3
<1>13. CASE AcceptAssertion
  BY <1>13, AcceptAssertionEffect
<1>14. CASE EndListing
  BY <1>14 DEF EndListing
<1>15. QED
  BY <1>1, <1>2, <1>3, <1>4, <1>5, <1>6, <1>7, <1>8, <1>9, <1>10, <1>11, <1>12, <1>13,
     <1>14
    DEF ReaderStep

\* A run that fails keeps the listing within its limits.
LEMMA FailedLimits ==
  ASSUME ReaderTypes, FileTypes, Limited, NEW n \in Nat, Failed(n), UNCHANGED job, queue # <<>>,
         pc = "next" \/ pc \in Working, job = "list" => attempted + n <= MaxBytes
  PROVE  Limited'
BY DEF Limited, Failed, ReaderTypes, Working, Opened

\* A listing keeps within its limits.
LEMMA LimitedKeeps ==
  ASSUME IInv, ReaderStep
  PROVE  Limited'
<1> USE DEF IInv, ReaderTypes, FileTypes, ControlKept, Scanning, Limited, Working,
            Opened, Spoiled
<1>1. CASE PrepareStore
  BY <1>1 DEF PrepareStore
<1>2. CASE \E n \in Names : Enumerate(n)
  BY <1>2 DEF Enumerate
<1>3. CASE BeginListing
  BY <1>3, LimitsAssumption DEF BeginListing
<1>4. CASE SelectRun
  BY <1>4, SelectRunEffect
<1>5. CASE ResolveInitial
  <2>1. CASE Failed(0)
    BY <1>5, <2>1, ResolveInitialEffect, FailedLimits
  <2>2. CASE ~Failed(0)
    BY <1>5, <2>2, ResolveInitialEffect
  <2>3. QED
    BY <2>1, <2>2
<1>6. CASE ResolveVerify
  <2>1. CASE Failed(0)
    BY <1>6, <2>1, ResolveVerifyEffect, FailedLimits
  <2>2. CASE ~Failed(0)
    BY <1>6, <2>2, ResolveVerifyEffect
  <2>3. QED
    BY <2>1, <2>2
<1>7. CASE PrepareFile
  <2>1. CASE Failed(0)
    <3>1. pc = "stat" /\ UNCHANGED job /\ queue # <<>>
      BY <1>7, PrepareFileEffect
    <3>2. job = "list" => attempted + 0 <= MaxBytes
      BY <3>1
    <3>3. QED
      BY <2>1, <3>1, <3>2, FailedLimits
  <2>2. CASE Spoiled
    BY <1>7, <2>2, PrepareFileEffect
  <2>3. CASE ~Failed(0) /\ ~Spoiled /\ job = "list"
    <3>1. /\ pc = "stat" /\ pc' = "open" /\ file' = AtPath /\ ~ (AtPath.size > Budget)
          /\ UNCHANGED <<queue, output, job>>
      BY <1>7, <2>3, PrepareFileEffect
    <3>2. AtPath.size \in Nat /\ MaxBytes \in Nat
      BY <1>7, AtPathTypes, LimitsAssumption, PrepareFileEffect DEF File
    <3>3. attempted' + file'.size <= MaxBytes
      BY <3>1, <3>2 DEF Budget
    <3>4. QED
      BY <3>1, <3>3
  <2>4. CASE job # "list"
    BY <1>7, <2>4, PrepareFileEffect
  <2>5. QED
    BY <2>1, <2>2, <2>3, <2>4
<1>8. CASE OpenFile
  <2>1. CASE Failed(0)
    BY <1>8, <2>1, OpenFileEffect, FailedLimits
  <2>2. CASE ~Failed(0)
    BY <1>8, <2>2, OpenFileEffect
  <2>3. QED
    BY <2>1, <2>2
<1>9. CASE Read
  BY <1>9 DEF Read, Goto
<1>10. CASE Probe
  BY <1>10 DEF Probe, Goto
<1>11. CASE VerifyFile
  <2>1. CASE Failed(ReadBytes)
    BY <1>11, <2>1, VerifyFileEffect, FailedLimits, ReadBytesTypes
  <2>2. CASE ~Failed(ReadBytes)
    BY <1>11, <2>2, VerifyFileEffect
  <2>3. QED
    BY <2>1, <2>2
<1>12. CASE AcceptTrace
  <2>1. ReadBytes \in Nat /\ (job = "list" => attempted + ReadBytes <= MaxBytes)
    BY <1>12, AcceptTraceEffect, ReadBytesTypes
  <2>2. CASE Failed(ReadBytes)
    BY <1>12, <2>1, <2>2, AcceptTraceEffect, FailedLimits
  <2>3. CASE ~Failed(ReadBytes) /\ job = "list"
    <3>1. /\ attempted' <= MaxBytes /\ pc' \in {"verify_store", "next"}
          /\ runs' = Append(runs, [id |-> Head(queue), dir |-> file.dir])
          /\ pc' = "next" => ~ (Len(runs') = MaxRuns /\ queue' # <<>>)
      BY <1>12, <2>1, <2>3, AcceptTraceEffect
    <3>2. Len(runs) < MaxRuns /\ Len(runs) \in Nat /\ MaxRuns \in Nat
      <4>1. pc = "final"
        BY <1>12, AcceptTraceEffect
      <4>2. MaxRuns \in Nat
        BY LimitsAssumption
      <4>3. runs \in Seq(Run)
        OBVIOUS
      <4>4. Len(runs) \in Nat
        BY <4>3
      <4>5. QED
        BY <2>3, <4>1, <4>2, <4>4
    <3>3. Len(runs') = Len(runs) + 1
      BY <3>1
    <3>4. QED
      BY <3>1, <3>2, <3>3
  <2>4. CASE ~Failed(ReadBytes) /\ job # "list"
    BY <1>12, <2>4, AcceptTraceEffect
  <2>5. QED
    BY <2>2, <2>3, <2>4
<1>13. CASE AcceptAssertion
  BY <1>13, AcceptAssertionEffect
<1>14. CASE EndListing
  BY <1>14 DEF EndListing
<1>15. QED
  BY <1>1, <1>2, <1>3, <1>4, <1>5, <1>6, <1>7, <1>8, <1>9, <1>10, <1>11, <1>12, <1>13,
     <1>14
    DEF ReaderStep

\* What a scan has seen stays what is there, if no entry comes or goes.
LEMMA SightedKeeps ==
  ASSUME IInv, ReaderStep
  PROVE  Sighted'
<1> USE DEF IInv, DiskTypes, ReaderTypes, FileTypes, ControlKept, AsPrepared, Scanning,
            Sighted, There, Working, Opened, Failed, Spoiled
<1>1. CASE PrepareStore
  BY <1>1 DEF PrepareStore, Present
<1>2. CASE \E n \in Names : Enumerate(n)
  BY <1>2 DEF Enumerate, Present
<1>3. CASE BeginListing
  BY <1>3 DEF BeginListing
<1>4. CASE SelectRun
  BY <1>4, SelectRunEffect
<1>5. CASE ResolveInitial
  BY <1>5, ResolveInitialEffect
<1>6. CASE ResolveVerify
  BY <1>6, ResolveVerifyEffect
<1>7. CASE PrepareFile
  BY <1>7, PrepareFileEffect
<1>8. CASE OpenFile
  BY <1>8, OpenFileEffect
<1>9. CASE Read
  BY <1>9 DEF Read, Goto
<1>10. CASE Probe
  BY <1>10 DEF Probe, Goto
<1>11. CASE VerifyFile
  BY <1>11, VerifyFileEffect
<1>12. CASE AcceptTrace
  <2>1. CASE Failed(ReadBytes)
    BY <1>12, <2>1, AcceptTraceEffect
  <2>2. CASE ~Failed(ReadBytes)
    <3> DEFINE new == [id |-> Head(queue), dir |-> file.dir]
    <3>1. /\ prepared = stamp /\ moment' = at /\ moment = at /\ file.dir = at[Head(queue)]
          /\ scanned = There /\ scanned' = scanned /\ runs' = Append(runs, new)
          /\ pc' \notin {"start", "scan"}
      BY <1>12, <2>2, AcceptTraceEffect DEF RunUnchanged
    <3>2. new \in Run
      BY <1>12, QueueTail, AcceptTraceEffect DEF Run, File
    <3>3. /\ DOMAIN runs' = 1 .. Len(runs) + 1 /\ DOMAIN runs = 1 .. Len(runs)
          /\ \A i \in 1 .. Len(runs) : runs'[i] = runs[i]
          /\ runs'[Len(runs) + 1] = new /\ Len(runs) \in Nat
      BY <3>1, <3>2, AppendProperties
    <3>4. ASSUME NEW i \in DOMAIN runs'
          PROVE  runs'[i].dir = moment'[runs'[i].id]
      <4>1. CASE i \in DOMAIN runs
        BY <3>1, <3>3, <4>1
      <4>2. CASE i = Len(runs) + 1
        BY <3>1, <3>3, <4>2
      <4>3. QED
        BY <3>3, <3>4, <4>1, <4>2
    <3>5. QED
      BY <3>1, <3>4
  <2>3. QED
    BY <2>1, <2>2
<1>13. CASE AcceptAssertion
  BY <1>13, AcceptAssertionEffect
<1>14. CASE EndListing
  BY <1>14 DEF EndListing
<1>15. QED
  BY <1>1, <1>2, <1>3, <1>4, <1>5, <1>6, <1>7, <1>8, <1>9, <1>10, <1>11, <1>12, <1>13,
     <1>14
    DEF ReaderStep

-----------------------------------------------------------------------------
(* The invariant holds.                                                    *)

\* The invariant holds at first.
LEMMA Initially == Init => IInv
<1> SUFFICES ASSUME Init PROVE IInv
  OBVIOUS
<1> USE DEF Init
<1>1. DiskTypes
  <2>1. \A s \in Sizes : Whole(s) \in Dir
    BY LimitsAssumption DEF Whole, Dir
  <2>2. InFlight \in Dir
    BY DEF InFlight, Whole, Dir
  <2>3. PICK k \in 0 .. MaxEntries :
          dirs \in [1 .. k -> {Whole(s) : s \in Sizes} \cup {InFlight}]
    OBVIOUS
  <2>4. k \in Nat
    BY LimitsAssumption
  <2>5. dirs \in [1 .. k -> Dir]
    BY <2>1, <2>2, <2>3
  <2>6. dirs \in Seq(Dir)
    BY <2>4, <2>5
  <2>7. PICK ids \in SUBSET Names :
          /\ Cardinality(ids) = Len(dirs)
          /\ at = [n \in Names |-> IF n \in ids THEN Cardinality({m \in ids : m <= n}) ELSE 0]
    OBVIOUS
  <2>8. ASSUME NEW n \in Names
        PROVE  at[n] \in Nat /\ at[n] <= Len(dirs)
    <3>1. IsFiniteSet(ids)
      BY RunIdsAreNumbers, FS_Subset
    <3>2. {m \in ids : m <= n} \subseteq ids
      OBVIOUS
    <3>3. /\ Cardinality({m \in ids : m <= n}) \in Nat
          /\ Cardinality({m \in ids : m <= n}) <= Len(dirs)
      BY <2>7, <3>1, <3>2, FS_Subset, FS_CardinalityType
    <3>4. at[n] = IF n \in ids THEN Cardinality({m \in ids : m <= n}) ELSE 0
      BY <2>7
    <3>5. Len(dirs) \in Nat
      BY <2>6
    <3>6. QED
      BY <3>3, <3>4, <3>5
  <2>9. DOMAIN at = Names /\ at = [n \in Names |-> at[n]]
    BY <2>7
  <2>10. QED
    BY <2>6, <2>8, <2>9 DEF DiskTypes
<1>2. IsFiniteSet({}) /\ Cardinality({}) = 0
  BY FS_EmptySet
<1>3. ReaderTypes /\ FileTypes
  <2>1. at \in [Names -> Nat]
    BY <1>1 DEF DiskTypes
  <2>2. ReaderTypes
    <3>1. queue = <<>> /\ runs = <<>> /\ moment = at /\ scanned = {} /\ candidates = {}
      OBVIOUS
    <3>2. queue \in Seq(RunIds) /\ runs \in Seq(Run)
      BY <3>1
    <3>3. /\ pc = "start" /\ job \in Jobs /\ wanted \in RunIds /\ prepared \in Nat
          /\ overflow \in BOOLEAN /\ truncated \in BOOLEAN /\ attempted \in Nat /\ skipped \in Nat
      OBVIOUS
    <3>4. QED
      BY <1>2, <2>1, <3>1, <3>2, <3>3 DEF ReaderTypes
  <2>3. FileTypes
    BY DEF FileTypes, File, NoFile
  <2>4. QED
    BY <2>2, <2>3
<1>4. ControlKept /\ AsPrepared /\ OneRevision
  BY DEF ControlKept, AsPrepared, OneRevision, Working, Opened
<1>5. Scanning
  <2>1. scanned \ RunIds = {} /\ scanned \cap RunIds = {}
    OBVIOUS
  <2>2. MaxCandidates \in Nat
    BY LimitsAssumption
  <2>3. QED
    BY <1>2, <2>1, <2>2 DEF Scanning
<1>6. Accounted /\ Limited /\ Sighted
  BY DEF Accounted, Limited, Sighted
<1>7. QED
  BY <1>1, <1>3, <1>4, <1>5, <1>6 DEF IInv

\* Every step keeps the invariant.
LEMMA Inductive == IInv /\ [Next]_vars => IInv'
<1> SUFFICES ASSUME IInv, [Next]_vars PROVE IInv'
  OBVIOUS
<1>1. CASE Others
  BY <1>1, OthersKeep
<1>2. CASE ReaderStep
  BY <1>2, DiskTypesKeep, ReaderTypesKeep, FileTypesKeep, ControlKeeps, AsPreparedKeeps,
     OneRevisionKeeps, ScanningKeeps, AccountedKeeps, LimitedKeeps, SightedKeeps DEF IInv
<1>3. CASE UNCHANGED vars
  <2> USE <1>3 DEF vars
  <2>1. DiskTypes' /\ ReaderTypes' /\ FileTypes' /\ ControlKept'
    BY DEF IInv, DiskTypes, ReaderTypes, FileTypes, ControlKept
  <2>2. AsPrepared' /\ OneRevision' /\ Sighted'
    BY DEF IInv, AsPrepared, OneRevision, Sighted, There
  <2>3. Scanning' /\ Accounted' /\ Limited'
    BY DEF IInv, Scanning, Accounted, Dropped, Returned, Limited
  <2>4. QED
    BY <2>1, <2>2, <2>3 DEF IInv
<1>4. QED
  BY <1>1, <1>2, <1>3 DEF Next

\* The invariant of all behaviours of RunAccess.
LEMMA Invariance == Spec => []IInv
<1>1. QED
  BY Initially, Inductive, PTL DEF Spec

-----------------------------------------------------------------------------
(* The theorems.                                                           *)

\* A step that takes what was read is one of the two acceptances, and what it
\* takes is one revision from the directory that is at the run's place.
LEMMA TakesOneVersion ==
  IInv /\ [Next]_vars =>
    [taken' # taken =>
       \A t \in taken' : /\ t.got = {t.file.rev}
                         /\ t.file.dir = at[Head(queue)]]_vars
<1> SUFFICES ASSUME IInv, Next, taken' # taken
             PROVE  \A t \in taken' : t.got = {t.file.rev} /\ t.file.dir = at[Head(queue)]
  OBVIOUS
<1> USE DEF IInv, FileTypes
<1>1. ReaderStep
  <2>1. Others => taken' = taken
    BY OthersEffect
  <2>2. QED
    BY <2>1 DEF Next
<1>2. AcceptTrace \/ AcceptAssertion
  <2>1. UNCHANGED taken \/ AcceptTrace \/ AcceptAssertion
    BY <1>1, SelectRunEffect, ResolveInitialEffect, ResolveVerifyEffect,
       PrepareFileEffect,
       OpenFileEffect, VerifyFileEffect
       DEF ReaderStep, PrepareStore, Enumerate, BeginListing, Read, Probe, EndListing, Goto,
           Failed, Spoiled
  <2>2. QED
    BY <2>1
<1>3. CASE AcceptTrace
  <2>1. /\ pc = "final" /\ reading = "trace" /\ RunUnchanged
        /\ taken' = {[file |-> file, got |-> got, of |-> reading]}
    BY <1>3, AcceptTraceEffect DEF Failed
  <2>2. result = "none" /\ prepared = stamp
    BY <2>1 DEF ControlKept, RunUnchanged
  <2>3. got = {file.rev} /\ file.dir = at[Head(queue)]
    BY <2>1, <2>2 DEF OneRevision, AsPrepared
  <2>4. QED
    BY <2>1, <2>3
<1>4. CASE AcceptAssertion
  <2>1. /\ pc = "final" /\ reading = "stdout" /\ RunUnchanged /\ result = "none"
        /\ taken' = {[file |-> file, got |-> got, of |-> reading]} \cup taken
    BY <1>4, AcceptAssertionEffect DEF Failed
  <2>2. prepared = stamp
    BY <2>1 DEF RunUnchanged
  <2>3. /\ got = {file.rev} /\ file.dir = at[Head(queue)]
        /\ \A t \in taken : t.got = {t.file.rev} /\ t.file.dir = at[Head(queue)]
    BY <2>1, <2>2 DEF OneRevision, AsPrepared
  <2>4. QED
    BY <2>1, <2>3
<1>5. QED
  BY <1>2, <1>3, <1>4

\* What a reader accepts is one version of one run (trace_access and
\* run_access compare the stamps and revisions before and after they read).
THEOREM OneVersionAccepted == Spec => AcceptsOneVersion
<1>1. QED
  BY Invariance, TakesOneVersion, PTL DEF Spec, AcceptsOneVersion

\* A listing accounts for every entry of the scan, in order and within its
\* limits, and says that it is truncated exactly if some entry was left.
THEOREM EveryEntryAccounted == Spec => []ListingAccountsForAll
<1>1. ASSUME IInv, pc = "done", result = "listed"
      PROVE  /\ truncated <=> Len(runs) + skipped < Cardinality(scanned)
             /\ \A i, j \in DOMAIN runs : i < j => runs[i].id > runs[j].id
             /\ \A n \in Left, i \in DOMAIN runs : n < runs[i].id
             /\ attempted <= MaxBytes /\ Len(runs) <= MaxRuns
  <2> USE <1>1 DEF IInv
  <2>1. job = "list"
    BY DEF ControlKept
  <2>2. Left = Range(queue) \cup Dropped
    BY DEF Left, Dropped
  <2>3. /\ Len(runs) \in Nat /\ Len(queue) \in Nat /\ skipped \in Nat
        /\ Cardinality(Dropped) \in Nat
        /\ Cardinality(Dropped) = 0 <=> Dropped = {}
        /\ Len(queue) = 0 <=> queue = <<>>
    <3>1. IsFiniteSet(Dropped)
      BY FS_Subset DEF Dropped, ReaderTypes
    <3>2. Cardinality(Dropped) \in Nat /\ (Cardinality(Dropped) = 0 <=> Dropped = {})
      BY <3>1, FS_EmptySet, FS_CardinalityType
    <3>3. QED
      BY <3>2 DEF ReaderTypes
  <2>4. /\ Len(runs) + Len(queue) + skipped + Cardinality(Dropped) = Cardinality(scanned)
        /\ truncated <=> queue # <<>> \/ Dropped # {}
    BY <2>1 DEF Accounted
  <2>5. truncated <=> Len(runs) + skipped < Cardinality(scanned)
    <3>1. Len(queue) + Cardinality(Dropped) > 0 <=> queue # <<>> \/ Dropped # {}
      BY <2>3
    <3>2. Len(runs) + skipped < Cardinality(scanned) <=> Len(queue) + Cardinality(Dropped) > 0
      BY <2>3, <2>4
    <3>3. QED
      BY <2>4, <3>1, <3>2, Zenon
  <2>6. QED
    BY <2>1, <2>2, <2>5 DEF Accounted, Limited
<1>2. IInv => ListingAccountsForAll
  BY <1>1 DEF ListingAccountsForAll
<1>3. QED
  BY <1>2, Invariance, PTL

\* A listing that returns a run and says it is complete is what was in the
\* store when the last of its runs was accepted.
THEOREM CompleteMeansSnapshot == Spec => []CompleteListingIsSnapshot
<1>1. ASSUME IInv, pc = "done", result = "listed", skipped = 0, ~truncated, runs # <<>>
      PROVE  {runs[i] : i \in DOMAIN runs} =
               {[id |-> n, dir |-> moment[n]] : n \in {m \in Names : moment[m] # 0}}
  <2> USE <1>1 DEF IInv
  <2>1. job = "list"
    BY DEF ControlKept
  <2>2. queue = <<>> /\ Dropped = {}
    BY <2>1 DEF Accounted
  <2>3. Range(queue) = {}
    BY <2>2 DEF Range
  <2>4. Returned = scanned
    <3>1. /\ scanned \subseteq RunIds /\ candidates \subseteq Returned \cup Range(queue)
          /\ Returned \cup Range(queue) \subseteq candidates
      BY <2>1 DEF Accounted
    <3>2. candidates \subseteq scanned
      BY DEF ReaderTypes
    <3>3. QED
      BY <2>2, <2>3, <3>1, <3>2 DEF Dropped
  <2>5. scanned = There
    BY DEF Sighted
  <2>6. \A i \in DOMAIN runs : runs[i] = [id |-> runs[i].id, dir |-> moment[runs[i].id]]
    <3>1. SUFFICES ASSUME NEW i \in DOMAIN runs
                   PROVE  runs[i] = [id |-> runs[i].id, dir |-> moment[runs[i].id]]
      OBVIOUS
    <3>2. runs[i] \in Run
      BY DEF ReaderTypes
    <3>3. runs[i].dir = moment[runs[i].id]
      BY DEF Sighted
    <3>4. QED
      BY <3>2, <3>3 DEF Run
  <2>7. {runs[i] : i \in DOMAIN runs} = {[id |-> n, dir |-> moment[n]] : n \in Returned}
    <3>1. ASSUME NEW i \in DOMAIN runs
          PROVE  runs[i] \in {[id |-> n, dir |-> moment[n]] : n \in Returned}
      BY <2>6 DEF Returned
    <3>2. ASSUME NEW n \in Returned
          PROVE  [id |-> n, dir |-> moment[n]] \in {runs[i] : i \in DOMAIN runs}
      BY <2>6 DEF Returned
    <3>3. QED
      BY <3>1, <3>2
  <2>8. QED
    BY <2>4, <2>5, <2>7 DEF There
<1>2. IInv => CompleteListingIsSnapshot
  BY <1>1 DEF CompleteListingIsSnapshot
<1>3. QED
  BY <1>2, Invariance, PTL
===============================================================================
