----------------------------- MODULE SweepProofs -----------------------------
(* What readers of a sweep are told is true and complete, for any number   *)
(* of runs and steps, any time-outs and any page sizes.  A step changes    *)
(* one run (Becomes says how), adds one, or moves the reader.              *)
EXTENDS Sweep, TLAPS, SequenceTheorems, WellFoundedInduction

\* What a document says of itself.
Truthful(sections) ==
    \A s \in DOMAIN sections : sections[s].status = "error" => sections[s].records = <<>>

Honest(doc) ==
    /\ doc.status = "ready" =>
          /\ DOMAIN doc.sections = Sections
          /\ \A s \in Sections : doc.sections[s].status = "ok"
    /\ doc.status = "error" =>
          \A s \in DOMAIN doc.sections : doc.sections[s].records = <<>>

Sound(run) ==
    /\ Truthful(run.sections) /\ Len(run.sections) <= Steps
    /\ run.sweeping => Len(run.sections) < Steps /\ run.doc = NoSweep
    /\ Honest(run.doc)
    /\ run.told # "none" /\ run.row => run.doc.status = run.told

\* What a step may make of a run: its document is written once, and goes
\* with its row.
Becomes(old, new) ==
    /\ new.row => old.row
    /\ old.doc # NoSweep => new.doc = old.doc \/ (new.doc = NoSweep /\ ~new.row)
    /\ old.doc = NoSweep /\ new.doc # NoSweep => old.row

Least(a, b) == IF a <= b THEN a ELSE b

\* What a reader who has turned a page has in hand.
InHand(r, records) ==
    /\ r.pages = PageCount(records, r.size)
    /\ r.got = SubSeq(records, 1, Least(r.page * r.size, Len(records)))

Reading ==
    reader.on =>
        /\ reader.page = 0 => reader.pages = 1 /\ reader.got = <<>>
        /\ reader.page > 0 =>
              /\ reader.run \in Ids
              /\ runs[reader.run].row => reader.run \in Swept
              /\ ~reader.mixed /\ reader.run \in Swept =>
                    /\ reader.section \in DOMAIN runs[reader.run].doc.sections
                    /\ InHand(reader, runs[reader.run].doc.sections[reader.section].records)

Inv == TypeOK /\ (\A n \in Ids : Sound(runs[n])) /\ Reading

-----------------------------------------------------------------------------
(* Numbers.                                                                *)

LEMMA MaxOfTwo ==
    ASSUME NEW a \in Int, NEW b \in Int
    PROVE  Max({a, b}) = IF a >= b THEN a ELSE b
<1>1. \E x \in {a, b} : \A y \in {a, b} : x >= y
  OBVIOUS
<1>2. Max({a, b}) \in {a, b} /\ \A y \in {a, b} : Max({a, b}) >= y
  BY <1>1 DEF Max
<1> QED BY <1>2

LEMMA MinOfTwo ==
    ASSUME NEW a \in Int, NEW b \in Int
    PROVE  Min({a, b}) = Least(a, b)
<1>1. \E x \in {a, b} : \A y \in {a, b} : x =< y
  OBVIOUS
<1>2. Min({a, b}) \in {a, b} /\ \A y \in {a, b} : Min({a, b}) =< y
  BY <1>1 DEF Min
<1> QED BY <1>2 DEF Least

(* A nonempty set of positions has a greatest one.                         *)
LEMMA MaxOfPositions ==
    ASSUME NEW n \in Nat, NEW S \in SUBSET (1..n), S # {}
    PROVE  Max(S) \in S /\ \A y \in S : Max(S) >= y
<1> DEFINE T == {n - x : x \in S}
<1>1. T \subseteq Nat /\ T # {}
  <2>1. \A x \in S : n - x \in Nat
    <3> TAKE x \in S
    <3> x \in 1..n
      OBVIOUS
    <3> QED OBVIOUS
  <2>2. PICK x \in S : TRUE
    OBVIOUS
  <2> QED BY <2>1, <2>2
<1>2. PICK d \in T : \A e \in T : ~(<<e, d>> \in OpToRel(<, Nat))
  <2> HIDE DEF T
  <2> QED BY <1>1, NatLessThanWellFounded, WFMin
<1>3. \A e \in T : ~(e < d)
  BY <1>1, <1>2 DEF OpToRel
<1>4. PICK x \in S : d = n - x
  BY <1>2
<1>5. \A y \in S : x >= y
  <2> TAKE y \in S
  <2>1. n - y \in T /\ x \in 1..n /\ y \in 1..n
    OBVIOUS
  <2> QED BY <1>3, <1>4, <2>1
<1> QED BY <1>5 DEF Max

LEMMA PagesCover ==
    ASSUME NEW records \in Seq(Record), NEW size \in Nat \ {0}
    PROVE  /\ PageCount(records, size) \in Nat \ {0}
           /\ PageCount(records, size) * size >= Len(records)
<1> DEFINE q == (Len(records) + size - 1) \div size
<1>1. q \in Nat /\ q * size >= Len(records)
  <2>1. Len(records) \in Nat
    OBVIOUS
  <2> QED BY <2>1
<1> HIDE DEF q
<1>2. PageCount(records, size) = IF 1 >= q THEN 1 ELSE q
  BY <1>1, MaxOfTwo DEF PageCount, q
<1> QED BY <1>1, <1>2

(* The next page is what follows the pages in hand.                        *)
LEMMA Adjacent ==
    ASSUME NEW records \in Seq(Record), NEW a \in Nat, NEW size \in Nat,
           NEW b, b = Least(a + size, Len(records)),
           NEW c, c = Least(a, Len(records))
    PROVE  /\ SubSeq(records, a + 1, b) \in Seq(Record)
           /\ SubSeq(records, 1, c) \o SubSeq(records, a + 1, b) = SubSeq(records, 1, b)
<1>1. Len(records) \in Nat /\ b \in Nat /\ b <= Len(records) /\ c \in Nat
  BY DEF Least
<1>2. SubSeq(records, a + 1, b) \in Seq(Record)
  <2>1. \A i \in (a + 1)..b : records[i] \in Record
    BY <1>1
  <2>2. a + 1 \in Int /\ b \in Int
    BY <1>1
  <2> QED BY <2>1, <2>2, SubSeqProperties
<1>3. CASE a <= Len(records)
  <2>1. c = a /\ a <= b
    BY <1>1, <1>3 DEF Least
  <2>2. 1 \in 1..Len(records) + 1 /\ a \in (1 - 1)..Len(records) /\ b \in a..Len(records)
    BY <1>1, <1>3, <2>1
  <2>3. SubSeq(records, 1, a) \o SubSeq(records, a + 1, b) = SubSeq(records, 1, b)
    BY <2>2, ConcatAdjacentSubSeq
  <2> QED BY <1>2, <2>1, <2>3
<1>4. CASE a > Len(records)
  <2>1. b = Len(records) /\ c = Len(records) /\ b < a + 1
    BY <1>1, <1>4 DEF Least
  <2>2. SubSeq(records, a + 1, b) = <<>>
    BY <1>1, <2>1, SubSeqEmpty
  <2>3. SubSeq(records, 1, Len(records)) = records
    BY SubSeqFull
  <2>4. records \o <<>> = records
    BY ConcatEmptySeq
  <2>5. SubSeq(records, 1, c) \o SubSeq(records, a + 1, b) = SubSeq(records, 1, b)
    BY <2>1, <2>2, <2>3, <2>4
  <2> QED BY <1>2, <2>5
<1>5. a <= Len(records) \/ a > Len(records)
  BY <1>1
<1> QED BY <1>3, <1>4, <1>5

LEMMA PageBounds ==
    ASSUME NEW size \in Nat, NEW page \in Nat, NEW next, next = page + 1
    PROVE  /\ page * size \in Nat
           /\ next * size = page * size + size
           /\ (next - 1) * size + 1 = page * size + 1
<1>1. next - 1 = page
  OBVIOUS
<1>2. page * size \in Nat /\ (page + 1) * size = page * size + size
  OBVIOUS
<1> QED BY <1>1, <1>2, Zenon

LEMMA NextPage ==
    ASSUME NEW records \in Seq(Record), NEW size \in Nat \ {0}, NEW page \in Nat,
           NEW next, next = page + 1
    PROVE  /\ PageOf(records, next, size) \in Seq(Record)
           /\ SubSeq(records, 1, Least(page * size, Len(records))) \o PageOf(records, next, size)
              = SubSeq(records, 1, Least(next * size, Len(records)))
<1>1. PICK a : a = page * size
  OBVIOUS
<1>2. PICK b : b = Least(next * size, Len(records))
  OBVIOUS
<1>3. PICK c : c = Least(page * size, Len(records))
  OBVIOUS
<1>4. /\ size \in Nat /\ a \in Nat
      /\ next * size = a + size /\ (next - 1) * size + 1 = a + 1
  <2>1. size \in Nat
    OBVIOUS
  <2> QED BY <1>1, <2>1, PageBounds
<1>5. PageOf(records, next, size) = SubSeq(records, a + 1, b)
  <2>1. a + size \in Int /\ Len(records) \in Int
    BY <1>4
  <2>2. Min({next * size, Len(records)}) = b
    BY <1>2, <1>4, <2>1, MinOfTwo
  <2>3. PageOf(records, next, size) = SubSeq(records, (next - 1) * size + 1,
                                             Min({next * size, Len(records)}))
    BY DEF PageOf
  <2> QED BY <1>4, <2>2, <2>3
<1>6. b = Least(a + size, Len(records)) /\ c = Least(a, Len(records))
  BY <1>1, <1>2, <1>3, <1>4
<1>7. /\ SubSeq(records, a + 1, b) \in Seq(Record)
      /\ SubSeq(records, 1, c) \o SubSeq(records, a + 1, b) = SubSeq(records, 1, b)
  BY <1>4, <1>6, Adjacent
<1> QED BY <1>2, <1>3, <1>5, <1>7

-----------------------------------------------------------------------------
(* What a step does to the runs.                                           *)

LEMMA EmptyDomain == \A s \in DOMAIN <<>> : FALSE
<1>1. <<>> \in Seq({}) /\ Len(<<>>) = 0
  BY EmptySeq
<1>2. DOMAIN <<>> = 1..0
  BY <1>1, LenProperties
<1>3. 1..0 = {}
  OBVIOUS
<1> QED BY <1>2, <1>3, Zenon

LEMMA Failure ==
    ASSUME NEW detail \in {"none", "timed out", "gateway"}
    PROVE  /\ SweepFailure(detail) \in SweepData
           /\ Honest(SweepFailure(detail))
           /\ SweepFailure(detail).status # "none"
<1>1. SweepFailure(detail).sections = <<>> /\ SweepFailure(detail).status = "error"
  BY DEF SweepFailure
<1>2. SweepFailure(detail) \in SweepData
  <2>1. <<>> \in Seq(Section)
    BY EmptySeq
  <2> QED BY <2>1 DEF SweepFailure, SweepData, Statuses
<1> QED BY <1>1, <1>2, EmptyDomain DEF Honest

LEMMA Nothing == NoSweep \in SweepData /\ Honest(NoSweep)
<1>1. <<>> \in Seq(Section)
  OBVIOUS
<1> QED BY <1>1 DEF NoSweep, SweepData, Statuses, Honest

(* A document that holds every section is what its status says.            *)
LEMMA DocumentIsHonest ==
    ASSUME NEW sections \in Seq(Section), Len(sections) = Steps, Truthful(sections)
    PROVE  /\ Document(sections) \in SweepData
           /\ Honest(Document(sections))
           /\ Document(sections).status # "none"
<1> DEFINE statuses == {sections[s].status : s \in DOMAIN sections}
<1>1. /\ Document(sections).status = Overall(statuses)
      /\ Document(sections).sections = sections
      /\ Document(sections).errors = "none"
  BY DEF Document
<1>2. Overall(statuses) \in {"ready", "partial", "error"}
  BY DEF Overall
<1>3. Document(sections) \in SweepData
  BY <1>2 DEF Document, SweepData, Statuses
<1>4. DOMAIN sections = Sections
  BY DEF Sections
<1>5. ASSUME Overall(statuses) = "ready", NEW s \in Sections
      PROVE  sections[s].status = "ok"
  BY <1>4, <1>5 DEF Overall
<1>6. ASSUME Overall(statuses) = "error", NEW s \in DOMAIN sections
      PROVE  sections[s].records = <<>>
  <2>1. sections[s].status = "error"
    BY <1>6 DEF Overall
  <2> QED BY <2>1 DEF Truthful
<1> HIDE DEF statuses
<1> QED BY <1>1, <1>2, <1>3, <1>4, <1>5, <1>6 DEF Honest

LEMMA NewSection ==
    ASSUME SweepAssumption, NEW n \in Nat, NEW s \in Sections, NEW o \in Outcomes
    PROVE  /\ SectionOf(n, s, o) \in Section
           /\ SectionOf(n, s, o).status = "error" => SectionOf(n, s, o).records = <<>>
<1>1. o.errors \in BOOLEAN /\ o.callsOk \in BOOLEAN /\ o.count \in Nat
  BY DEF SweepAssumption
<1>2. StatusOf(o) \in {"ok", "partial", "error"}
  BY <1>1 DEF StatusOf
<1>3. StatusOf(o) = "error" => o.count = 0
  BY <1>1 DEF StatusOf
<1>4. [i \in 1..o.count |-> <<n, s, i>>] \in Seq(Record)
  BY <1>1 DEF Record
<1>5. o.count = 0 => [i \in 1..o.count |-> <<n, s, i>>] = <<>>
  OBVIOUS
<1> QED BY <1>2, <1>3, <1>4, <1>5 DEF SectionOf, Section

(* The end of a sweep, whatever it ends with.                              *)
LEMMA FinishedRun ==
    ASSUME NEW old \in Run, NEW run \in Run, NEW doc \in SweepData,
           Honest(doc), doc.status # "none",
           run.row = old.row, run.open = old.open, run.doc = NoSweep, old.doc = NoSweep,
           Truthful(run.sections), Len(run.sections) <= Steps,
           SweepAssumption
    PROVE  LET new == [run EXCEPT !.sweeping = FALSE, !.elapsed = 0,
                                  !.doc = IF run.row THEN doc ELSE NoSweep,
                                  !.told = IF run.open THEN doc.status ELSE "none"]
           IN  new \in Run /\ Sound(new) /\ Becomes(old, new)
<1> DEFINE new == [run EXCEPT !.sweeping = FALSE, !.elapsed = 0,
                              !.doc = IF run.row THEN doc ELSE NoSweep,
                              !.told = IF run.open THEN doc.status ELSE "none"]
<1>1. 0 \in 0..(SweepTimeout - 1)
  BY DEF SweepAssumption
<1>2. new \in Run
  BY <1>1, Nothing DEF Run, SweepData, Statuses
<1>3. /\ new.row = run.row /\ new.sweeping = FALSE /\ new.sections = run.sections
      /\ new.doc = IF run.row THEN doc ELSE NoSweep
      /\ new.told = IF run.open THEN doc.status ELSE "none"
  BY DEF Run
<1> HIDE DEF new
<1>4. Sound(new)
  BY <1>3, Nothing DEF Sound
<1>5. Becomes(old, new)
  BY <1>3 DEF Becomes
<1> QED BY <1>2, <1>4, <1>5 DEF new

(* One run changes: what a reader has in hand stays right.                 *)
LEMMA RunChanges ==
    ASSUME Inv, NEW n \in Ids, NEW run \in Run, Sound(run), Becomes(runs[n], run),
           runs' = [runs EXCEPT ![n] = run], reader' = reader
    PROVE  Inv'
<1>1. runs \in Seq(Run) /\ n \in 1..Len(runs) /\ Len(runs) <= MaxRuns
  BY LenProperties DEF Inv, TypeOK, Ids
<1>2. /\ runs' \in Seq(Run) /\ Len(runs') = Len(runs)
      /\ runs'[n] = run
      /\ \A m \in 1..Len(runs) : m # n => runs'[m] = runs[m]
  BY <1>1, ExceptSeq
<1>3. Ids' = Ids /\ Ids = 1..Len(runs)
  BY <1>1, <1>2, LenProperties DEF Ids
<1>4. \A m \in Ids' : Sound(runs'[m])
  BY <1>2, <1>3 DEF Inv
<1>5. TypeOK'
  <2>1. \A m \in Ids' : Len(runs'[m].sections) <= Steps
    BY <1>4 DEF Sound
  <2> QED BY <1>1, <1>2, <2>1 DEF TypeOK, Inv
<1>6. Reading'
  <2> SUFFICES ASSUME reader.on, reader.page > 0
               PROVE  /\ reader.run \in Ids'
                      /\ runs'[reader.run].row => reader.run \in Swept'
                      /\ ~reader.mixed /\ reader.run \in Swept' =>
                            /\ reader.section \in DOMAIN runs'[reader.run].doc.sections
                            /\ InHand(reader,
                                      runs'[reader.run].doc.sections[reader.section].records)
    BY DEF Inv, Reading, InHand
  <2>1. /\ reader.run \in Ids
        /\ runs[reader.run].row => reader.run \in Swept
        /\ ~reader.mixed /\ reader.run \in Swept =>
              /\ reader.section \in DOMAIN runs[reader.run].doc.sections
              /\ InHand(reader, runs[reader.run].doc.sections[reader.section].records)
    BY DEF Inv, Reading
  <2>2. CASE reader.run # n
    <3>1. runs'[reader.run] = runs[reader.run]
      BY <1>2, <1>3, <2>1, <2>2
    <3>2. reader.run \in Swept' <=> reader.run \in Swept
      BY <1>3, <3>1 DEF Swept
    <3> QED BY <1>3, <2>1, <3>1, <3>2
  <2>3. CASE reader.run = n
    <3>1. runs'[reader.run] = run
      BY <1>2, <2>3
    <3>2. run.row => n \in Swept
      BY <2>1, <2>3 DEF Becomes
    <3>3. run.row => run.doc = runs[n].doc /\ n \in Swept'
      BY <1>3, <2>3, <3>1, <3>2 DEF Becomes, Swept
    <3>4. n \in Swept' => n \in Swept /\ run.doc = runs[n].doc
      BY <1>3, <2>1, <2>3, <3>1 DEF Becomes, Swept
    <3> QED BY <1>3, <2>1, <2>3, <3>1, <3>3, <3>4
  <2> QED BY <2>2, <2>3
<1> QED BY <1>4, <1>5, <1>6 DEF Inv

LEMMA OneRun ==
    ASSUME Inv, NEW n \in Ids
    PROVE  n \in Nat /\ runs[n] \in Run /\ Sound(runs[n])
<1>1. runs \in Seq(Run)
  BY DEF Inv, TypeOK
<1>2. Ids = 1..Len(runs) /\ runs \in [1..Len(runs) -> Run] /\ Len(runs) \in Nat
  BY <1>1, LenProperties DEF Ids
<1> QED BY <1>2 DEF Inv

LEMMA BeginRunKeeps ==
    ASSUME SweepAssumption, Inv, BeginRun
    PROVE  Inv'
<1>1. runs \in Seq(Run) /\ Len(runs) < MaxRuns /\ MaxRuns \in Nat
  BY DEF Inv, TypeOK, BeginRun, SweepAssumption
<1>2. NewRun \in Run /\ Sound(NewRun)
  <2>1. <<>> \in Seq(Section) /\ Len(<<>>) = 0
    BY EmptySeq
  <2>2. 0 \in 0..(SweepTimeout - 1) /\ 0 < Steps
    BY DEF SweepAssumption
  <2>3. NewRun \in Run
    BY <2>1, <2>2, Nothing DEF NewRun, Run, Statuses
  <2>4. Sound(NewRun)
    BY <2>1, <2>2, Nothing, EmptyDomain DEF NewRun, Sound, Truthful
  <2> QED BY <2>3, <2>4
<1>3. /\ runs' \in Seq(Run) /\ Len(runs') = Len(runs) + 1
      /\ \A m \in 1..Len(runs) : runs'[m] = runs[m]
      /\ runs'[Len(runs) + 1] = NewRun
  BY <1>1, <1>2, AppendProperties DEF BeginRun
<1>4. Ids = 1..Len(runs) /\ Ids' = 1..(Len(runs) + 1) /\ Len(runs) \in Nat
  BY <1>1, <1>3, LenProperties DEF Ids
<1>5. \A m \in Ids' : Sound(runs'[m])
  <2> TAKE m \in Ids'
  <2>1. CASE m \in Ids
    BY <1>3, <1>4, <2>1 DEF Inv
  <2>2. CASE m \notin Ids
    <3>1. m = Len(runs) + 1
      BY <1>4, <2>2
    <3> QED BY <1>2, <1>3, <3>1
  <2> QED BY <2>1, <2>2
<1>6. reader' = reader
  BY DEF BeginRun
<1>7. TypeOK'
  <2>1. \A m \in Ids' : Len(runs'[m].sections) <= Steps
    BY <1>5 DEF Sound
  <2>2. Len(runs') <= MaxRuns
    BY <1>1, <1>3, <1>4
  <2> QED BY <1>3, <1>6, <2>1, <2>2 DEF TypeOK, Inv
<1>8. Reading'
  <2>1. \A m \in Ids : m \in Ids' /\ runs'[m] = runs[m] /\ (m \in Swept' <=> m \in Swept)
    BY <1>3, <1>4 DEF Swept
  <2> QED BY <1>6, <2>1 DEF Inv, Reading, InHand
<1> QED BY <1>5, <1>7, <1>8 DEF Inv

LEMMA LapseKeeps ==
    ASSUME Inv, NEW n \in Ids, Lapse(n)
    PROVE  Inv'
<1> DEFINE run == [runs[n] EXCEPT !.open = FALSE]
<1>1. runs' = [runs EXCEPT ![n] = run] /\ reader' = reader
  BY DEF Lapse
<1>2. run \in Run /\ Sound(run) /\ Becomes(runs[n], run)
  BY OneRun DEF Run, Sound, Becomes
<1> HIDE DEF run
<1> QED BY <1>1, <1>2, RunChanges

LEMMA DeleteKeeps ==
    ASSUME Inv, NEW n \in Ids, Delete(n)
    PROVE  Inv'
<1> DEFINE run == [runs[n] EXCEPT !.row = FALSE, !.open = FALSE, !.doc = NoSweep]
<1>1. runs' = [runs EXCEPT ![n] = run] /\ reader' = reader
  BY DEF Delete
<1>2. run \in Run /\ Sound(run) /\ Becomes(runs[n], run)
  BY OneRun, Nothing DEF Run, Sound, Becomes
<1> HIDE DEF run
<1> QED BY <1>1, <1>2, RunChanges

(* A sweep ends, with the sections it has and the document it leaves.      *)
LEMMA FinishKeeps ==
    ASSUME SweepAssumption, Inv, NEW n \in Ids, NEW run \in Run, NEW doc \in SweepData,
           Honest(doc), doc.status # "none",
           run.row = runs[n].row, run.open = runs[n].open,
           run.doc = NoSweep, runs[n].doc = NoSweep,
           Truthful(run.sections), Len(run.sections) <= Steps,
           Finish(n, run, doc), reader' = reader
    PROVE  Inv'
<1> DEFINE new == [run EXCEPT !.sweeping = FALSE, !.elapsed = 0,
                              !.doc = IF run.row THEN doc ELSE NoSweep,
                              !.told = IF run.open THEN doc.status ELSE "none"]
<1>1. runs' = [runs EXCEPT ![n] = new]
  BY DEF Finish
<1>2. new \in Run /\ Sound(new) /\ Becomes(runs[n], new)
  BY OneRun, FinishedRun
<1> HIDE DEF new
<1> QED BY <1>1, <1>2, RunChanges

LEMMA SweepFailureKeeps ==
    ASSUME SweepAssumption, Inv, NEW n \in Ids, TimesOut(n) \/ GatewayFails(n)
    PROVE  Inv'
<1>1. PICK detail \in {"timed out", "gateway"} :
         runs[n].sweeping /\ Finish(n, runs[n], SweepFailure(detail)) /\ reader' = reader
  BY DEF TimesOut, GatewayFails
<1>2. /\ SweepFailure(detail) \in SweepData /\ Honest(SweepFailure(detail))
      /\ SweepFailure(detail).status # "none"
  BY Failure
<1>3. /\ runs[n] \in Run /\ runs[n].doc = NoSweep
      /\ Truthful(runs[n].sections) /\ Len(runs[n].sections) <= Steps
  BY <1>1, OneRun DEF Sound
<1> QED BY <1>1, <1>2, <1>3, FinishKeeps

LEMMA SweepCrashesKeeps ==
    ASSUME SweepAssumption, Inv, NEW n \in Ids, SweepCrashes(n)
    PROVE  Inv'
<1>1. PICK open \in {FALSE, runs[n].open} :
         runs' = [runs EXCEPT ![n].sweeping = FALSE, ![n].elapsed = 0,
                              ![n].refused = TRUE, ![n].open = open]
  BY DEF SweepCrashes
<1> DEFINE run == [runs[n] EXCEPT !.sweeping = FALSE, !.elapsed = 0,
                                  !.refused = TRUE, !.open = open]
<1>2. runs' = [runs EXCEPT ![n] = run] /\ reader' = reader
  BY <1>1 DEF SweepCrashes
<1>3. 0 \in 0..(SweepTimeout - 1) /\ runs[n] \in Run /\ Sound(runs[n])
  BY OneRun DEF SweepAssumption
<1>4. run \in Run
  BY <1>3 DEF Run
<1>5. /\ run.row = runs[n].row /\ run.doc = runs[n].doc /\ run.sweeping = FALSE
      /\ run.sections = runs[n].sections /\ run.told = runs[n].told
  BY <1>3 DEF Run
<1> HIDE DEF run
<1>6. Sound(run) /\ Becomes(runs[n], run)
  BY <1>3, <1>5 DEF Sound, Becomes
<1> QED BY <1>2, <1>4, <1>6, RunChanges

LEMMA StepEndsKeeps ==
    ASSUME SweepAssumption, Inv, NEW n \in Ids, StepEnds(n)
    PROVE  Inv'
<1>1. /\ runs[n] \in Run /\ runs[n].doc = NoSweep /\ n \in Nat
      /\ Truthful(runs[n].sections) /\ Len(runs[n].sections) < Steps
      /\ Sound(runs[n]) /\ runs[n].sweeping
  BY OneRun DEF Sound, StepEnds
<1> DEFINE s == Len(runs[n].sections) + 1
<1>2. PICK outcome \in Outcomes, took \in 0..StepTime :
         LET run == [runs[n] EXCEPT !.elapsed = @ + took,
                                    !.sections = Append(@, SectionOf(n, s, outcome))]
         IN  /\ run.elapsed < SweepTimeout
             /\ IF s = Steps THEN Finish(n, run, Document(run.sections))
                ELSE runs' = [runs EXCEPT ![n] = run]
  BY DEF StepEnds
<1> DEFINE section == SectionOf(n, s, outcome)
           sections == Append(runs[n].sections, section)
           run == [runs[n] EXCEPT !.elapsed = @ + took, !.sections = sections]
<1>3. reader' = reader
  BY DEF StepEnds
<1>4. runs[n].sections \in Seq(Section) /\ runs[n].elapsed \in Nat
  BY <1>1 DEF Run
<1>5. s \in Sections /\ Steps \in Nat /\ s \in Nat /\ s = Len(runs[n].sections) + 1
  BY <1>1, <1>4, LenProperties DEF Sections, SweepAssumption
<1>6. section \in Section /\ (section.status = "error" => section.records = <<>>)
  BY <1>1, <1>5, NewSection
<1> HIDE DEF s, section
<1>7. /\ sections \in Seq(Section) /\ Len(sections) = s
      /\ \A i \in 1..Len(runs[n].sections) : sections[i] = runs[n].sections[i]
      /\ sections[s] = section
  BY <1>4, <1>5, <1>6, AppendProperties
<1>8. Truthful(sections)
  <2>1. DOMAIN sections = 1..s /\ DOMAIN runs[n].sections = 1..Len(runs[n].sections)
    BY <1>4, <1>7, LenProperties
  <2> SUFFICES ASSUME NEW i \in 1..s, sections[i].status = "error"
               PROVE  sections[i].records = <<>>
    BY <2>1 DEF Truthful
  <2>2. CASE i = s
    BY <1>6, <1>7, <2>2
  <2>3. CASE i # s
    <3>1. i \in 1..Len(runs[n].sections)
      BY <1>4, <1>5, <2>3, LenProperties
    <3> QED BY <1>1, <1>7, <2>1, <3>1 DEF Truthful
  <2> QED BY <2>2, <2>3
<1>9. /\ run.elapsed < SweepTimeout
      /\ IF s = Steps THEN Finish(n, run, Document(run.sections))
         ELSE runs' = [runs EXCEPT ![n] = run]
  BY <1>2 DEF section
<1> HIDE DEF sections
<1>10. /\ run.sections = sections /\ run.row = runs[n].row /\ run.open = runs[n].open
       /\ run.doc = runs[n].doc /\ run.told = runs[n].told
       /\ run.elapsed = runs[n].elapsed + took
  BY <1>1 DEF Run
<1>11. run \in Run
  <2>1. run.elapsed \in 0..(SweepTimeout - 1)
    BY <1>4, <1>9, <1>10 DEF SweepAssumption
  <2> HIDE DEF run
  <2>2. runs[n].elapsed + took \in 0..(SweepTimeout - 1)
    BY <1>10, <2>1
  <2> QED BY <1>1, <1>7, <2>2 DEF run, Run
<1> HIDE DEF run
<1>12. CASE s = Steps
  <2>1. /\ Document(sections) \in SweepData /\ Honest(Document(sections))
        /\ Document(sections).status # "none"
    BY <1>7, <1>8, <1>12, DocumentIsHonest
  <2>2. Len(run.sections) <= Steps /\ Truthful(run.sections)
    BY <1>5, <1>7, <1>8, <1>10, <1>12
  <2>3. Finish(n, run, Document(sections))
    BY <1>9, <1>10, <1>12
  <2> QED BY <1>1, <1>3, <1>10, <1>11, <2>1, <2>2, <2>3, FinishKeeps
<1>13. CASE s # Steps
  <2>1. Sound(run)
    <3>1. Len(run.sections) < Steps /\ Len(run.sections) <= Steps
      BY <1>1, <1>4, <1>5, <1>7, <1>10, <1>13, LenProperties
    <3> QED BY <1>1, <1>8, <1>10, <3>1 DEF Sound
  <2>2. Becomes(runs[n], run)
    BY <1>1, <1>10 DEF Becomes
  <2> QED BY <1>3, <1>9, <1>11, <1>13, <2>1, <2>2, RunChanges
<1> QED BY <1>12, <1>13

-----------------------------------------------------------------------------
(* What a step does to the reader.                                         *)

LEMMA SweptRuns ==
    ASSUME Inv, Swept # {}
    PROVE  Latest \in Swept /\ \A n \in Swept : Latest >= n
<1>1. Len(runs) \in Nat /\ Swept \in SUBSET (1..Len(runs))
  BY LenProperties DEF Inv, TypeOK, Swept, Ids
<1> QED BY <1>1, MaxOfPositions DEF Latest

LEMMA NamedRun ==
    ASSUME Inv, reader.on, Served(reader)
    PROVE  /\ Named(reader) \in Swept /\ Named(reader) \in Ids /\ Named(reader) \in Nat
           /\ reader.section \in DOMAIN runs[Named(reader)].doc.sections
           /\ runs[Named(reader)].doc.sections[reader.section].records \in Seq(Record)
<1>1. Named(reader) \in Swept /\ Named(reader) \in Ids
  BY DEF Served, Swept
<1>2. runs[Named(reader)] \in Run /\ Named(reader) \in Nat
  BY <1>1, OneRun
<1>3. runs[Named(reader)].doc.sections \in Seq(Section)
  BY <1>2 DEF Run, SweepData
<1>4. reader.section \in DOMAIN runs[Named(reader)].doc.sections
  BY DEF Served
<1>5. runs[Named(reader)].doc.sections[reader.section] \in Section
  BY <1>3, <1>4, LenProperties
<1> QED BY <1>1, <1>2, <1>4, <1>5 DEF Section

LEMMA TurnPageKeeps ==
    ASSUME SweepAssumption, Inv, TurnPage
    PROVE  Inv'
<1> DEFINE n == Named(reader)
           records == runs[n].doc.sections[reader.section].records
           size == reader.size
           page == reader.page
<1>1. reader.on /\ Served(reader) /\ runs' = runs
  BY DEF TurnPage
<1>2. reader \in Reader
  BY <1>1 DEF Inv, TypeOK
<1>3. /\ n \in Swept /\ n \in Ids /\ n \in Nat
      /\ reader.section \in DOMAIN runs[n].doc.sections
      /\ records \in Seq(Record)
  BY <1>1, NamedRun
<1>4. /\ size \in Nat \ {0} /\ size \in PageSizes /\ page \in Nat
      /\ reader.got \in Seq(Record) /\ reader.mixed \in BOOLEAN
  BY <1>2 DEF Reader, SweepAssumption
<1>5. /\ reader' = [reader EXCEPT
            !.run = n, !.page = @ + 1, !.pages = PageCount(records, size),
            !.got = @ \o PageOf(records, reader.page + 1, size),
            !.mixed = @ \/ (reader.page > 0 /\ n # reader.run)]
  BY DEF TurnPage
<1> HIDE DEF n, records
<1>6. PageCount(records, size) \in Nat
  BY <1>3, <1>4, PagesCover
<1>7. /\ PageOf(records, page + 1, size) \in Seq(Record)
      /\ SubSeq(records, 1, Least(page * size, Len(records)))
            \o PageOf(records, page + 1, size)
         = SubSeq(records, 1, Least((page + 1) * size, Len(records)))
  BY <1>3, <1>4, NextPage
<1>8. reader.got \o PageOf(records, page + 1, size) \in Seq(Record)
  BY <1>4, <1>7, ConcatProperties
<1>9. /\ reader'.on = reader.on /\ reader'.run = n /\ reader'.page = page + 1
      /\ reader'.pages = PageCount(records, size)
      /\ reader'.got = reader.got \o PageOf(records, page + 1, size)
      /\ reader'.section = reader.section /\ reader'.size = size
      /\ reader'.mixed = (reader.mixed \/ (page > 0 /\ n # reader.run))
  BY <1>2, <1>5 DEF Reader
<1>10. reader' \in Reader
  <2>1. PICK got \in Seq(Record) : got = reader.got \o PageOf(records, reader.page + 1, size)
    BY <1>8
  <2>2. PICK mixed \in BOOLEAN : mixed = (reader.mixed \/ (reader.page > 0 /\ n # reader.run))
    OBVIOUS
  <2>3. reader' = [reader EXCEPT !.run = n, !.page = @ + 1,
                      !.pages = PageCount(records, size), !.got = got, !.mixed = mixed]
    BY <1>5, <2>1, <2>2
  <2>4. PICK next \in Nat : next = reader.page + 1
    BY <1>4
  <2>5. PICK count \in Nat : count = PageCount(records, size)
    BY <1>6
  <2>6. reader' = [reader EXCEPT !.run = n, !.page = next, !.pages = count,
                                 !.got = got, !.mixed = mixed]
    BY <2>3, <2>4, <2>5
  <2> QED BY <1>2, <1>3, <2>6 DEF Reader
<1>11. TypeOK'
  BY <1>1, <1>10 DEF Inv, TypeOK, Ids
<1>12. ASSUME ~reader'.mixed
       PROVE  reader.got = SubSeq(records, 1, Least(page * size, Len(records)))
  <2>1. CASE page = 0
    <3>1. reader.got = <<>>
      BY <1>1, <2>1 DEF Inv, Reading
    <3>2. page * size = 0
      BY <1>4, <2>1
    <3>3. Len(records) \in Nat
      BY <1>3, LenProperties
    <3>4. Least(page * size, Len(records)) = 0
      BY <3>2, <3>3 DEF Least
    <3>5. SubSeq(records, 1, 0) = <<>>
      BY SubSeqEmpty
    <3> QED BY <3>1, <3>4, <3>5
  <2>2. CASE page # 0
    <3>1. page > 0
      BY <1>4, <2>2
    <3>2. n = reader.run /\ ~reader.mixed
      BY <1>9, <1>12, <3>1
    <3>3. InHand(reader, runs[n].doc.sections[reader.section].records)
      BY <1>1, <1>3, <3>1, <3>2 DEF Inv, Reading
    <3> QED BY <3>3 DEF InHand, records
  <2> QED BY <2>1, <2>2
<1>13. ASSUME ~reader'.mixed PROVE InHand(reader', records)
  BY <1>7, <1>9, <1>12, <1>13 DEF InHand
<1>14. Reading'
  <2>1. Ids' = Ids /\ Swept' = Swept
    BY <1>1 DEF Ids, Swept
  <2>2. reader'.page # 0 /\ reader'.page > 0
    BY <1>4, <1>9
  <2>3. ~reader'.mixed =>
           /\ reader'.section \in DOMAIN runs'[n].doc.sections
           /\ InHand(reader', runs'[n].doc.sections[reader'.section].records)
    BY <1>1, <1>3, <1>9, <1>13 DEF records
  <2>4. /\ reader'.run \in Ids'
        /\ reader'.run \in Swept'
        /\ ~reader'.mixed =>
              /\ reader'.section \in DOMAIN runs'[reader'.run].doc.sections
              /\ InHand(reader', runs'[reader'.run].doc.sections[reader'.section].records)
    BY <1>3, <1>9, <2>1, <2>3
  <2> QED BY <2>2, <2>4 DEF Reading, InHand
<1>15. \A m \in Ids' : Sound(runs'[m])
  BY <1>1 DEF Inv, Ids
<1> QED BY <1>11, <1>14, <1>15 DEF Inv

LEMMA OpenSectionKeeps ==
    ASSUME Inv, OpenSection
    PROVE  Inv'
<1>1. runs' = runs
  BY DEF OpenSection
<1>2. PICK by \in {"run", "report"}, n \in Swept, s \in Sections, size \in PageSizes :
         reader' = [on |-> TRUE, by |-> by, run |-> n, section |-> s, size |-> size,
                    page |-> 0, pages |-> 1, got |-> <<>>, mixed |-> FALSE]
  BY DEF OpenSection
<1>3. n \in Nat
  BY OneRun DEF Swept
<1>4. reader' \in Reader
  <2>1. <<>> \in Seq(Record)
    BY EmptySeq
  <2> QED BY <1>2, <1>3, <2>1 DEF Reader
<1>5. reader'.page = 0 /\ reader'.pages = 1 /\ reader'.got = <<>>
  BY <1>2
<1>6. Reading'
  BY <1>5 DEF Reading
<1> QED BY <1>1, <1>4, <1>6 DEF Inv, TypeOK, Ids

LEMMA Invariance == Spec => []Inv
<1>1. SweepAssumption /\ Init => Inv
  <2> SUFFICES ASSUME SweepAssumption, Init PROVE Inv
    OBVIOUS
  <2>1. runs \in Seq(Run) /\ Len(runs) = 0
    BY EmptySeq DEF Init
  <2>2. Ids = {}
    BY <2>1, EmptyDomain DEF Ids, Init
  <2>3. Len(runs) <= MaxRuns
    BY <2>1 DEF SweepAssumption
  <2>4. reader = [on |-> FALSE] /\ ~reader.on
    BY DEF Init
  <2> QED BY <2>1, <2>2, <2>3, <2>4 DEF Inv, TypeOK, Reading
<1>2. SweepAssumption /\ Inv /\ [Next]_vars => Inv'
  <2> SUFFICES ASSUME SweepAssumption, Inv, [Next]_vars PROVE Inv'
    OBVIOUS
  <2>1. CASE BeginRun
    BY <2>1, BeginRunKeeps
  <2>2. CASE TurnPage
    BY <2>2, TurnPageKeeps
  <2>3. CASE OpenSection
    BY <2>3, OpenSectionKeeps
  <2>4. CASE Leave
    <3>1. runs' = runs /\ reader' = [on |-> FALSE] /\ ~reader'.on
      BY <2>4 DEF Leave
    <3> QED BY <3>1 DEF Inv, TypeOK, Reading, Ids
  <2>5. ASSUME NEW n \in Ids, Lapse(n) PROVE Inv'
    BY <2>5, LapseKeeps
  <2>6. ASSUME NEW n \in Ids, Delete(n) PROVE Inv'
    BY <2>6, DeleteKeeps
  <2>7. ASSUME NEW n \in Ids, Sweeping(n) PROVE Inv'
    BY <2>7, StepEndsKeeps, SweepFailureKeeps, SweepCrashesKeeps DEF Sweeping
  <2>8. CASE UNCHANGED vars
    BY <2>8 DEF vars, Inv, TypeOK, Reading, Ids, Swept, InHand
  <2> QED BY <2>1, <2>2, <2>3, <2>4, <2>5, <2>6, <2>7, <2>8 DEF Next
<1> QED BY <1>1, <1>2, SweepAssumption, PTL DEF Spec

-----------------------------------------------------------------------------
(* Every reachable run, document and reader is well typed.                 *)
THEOREM TypeCorrect == Spec => []TypeOK
<1>1. Inv => TypeOK
  BY DEF Inv
<1> QED BY <1>1, Invariance, PTL

(* The status a gatherer was sent is that of the document it will read,    *)
(* and the document is what that status says (sweep_run, get_sweep_index). *)
THEOREM StatusIsTrue == Spec => []ToldIsTrue
<1>1. Inv => ToldIsTrue
  BY DEF Inv, Sound, Honest, ToldIsTrue
<1> QED BY <1>1, Invariance, PTL

(* Pages make up their section, for any page size and number of records    *)
(* (get_sweep_page, page_count of get_sweep).                              *)
THEOREM PagesAreComplete == Spec => []PagesMakeTheSection
<1>1. ASSUME SweepAssumption, Inv PROVE PagesMakeTheSection
  <2> SUFFICES ASSUME reader.on, reader.page = reader.pages, ~reader.mixed, reader.run \in Swept
               PROVE  reader.got = runs[reader.run].doc.sections[reader.section].records
    BY DEF PagesMakeTheSection
  <2> DEFINE records == runs[reader.run].doc.sections[reader.section].records
  <2>1. reader \in Reader
    BY <1>1 DEF Inv, TypeOK
  <2>2. reader.page \in Nat /\ reader.size \in Nat \ {0}
    BY <1>1, <2>1 DEF Reader, SweepAssumption
  <2>3. reader.page > 0
    BY <1>1, <2>2 DEF Inv, Reading
  <2>4. /\ reader.section \in DOMAIN runs[reader.run].doc.sections
        /\ InHand(reader, records)
    BY <1>1, <2>3 DEF Inv, Reading
  <2>5. records \in Seq(Record)
    <3>1. runs[reader.run] \in Run
      BY <1>1, OneRun DEF Swept
    <3>2. runs[reader.run].doc.sections \in Seq(Section)
      BY <3>1 DEF Run, SweepData
    <3>3. runs[reader.run].doc.sections[reader.section] \in Section
      BY <2>4, <3>2, LenProperties
    <3> QED BY <3>3 DEF Section
  <2> HIDE DEF records
  <2>6. reader.page * reader.size >= Len(records) /\ Len(records) \in Nat
    BY <2>2, <2>4, <2>5, PagesCover, LenProperties DEF InHand
  <2>7. Least(reader.page * reader.size, Len(records)) = Len(records)
    <3>1. reader.page * reader.size \in Nat
      BY <2>2
    <3> QED BY <2>6, <3>1 DEF Least
  <2>8. reader.got = SubSeq(records, 1, Len(records))
    BY <2>4, <2>7 DEF InHand
  <2>9. reader.got = records
    BY <2>5, <2>8, SubSeqFull
  <2> QED BY <2>9 DEF records
<1> QED BY <1>1, Invariance, SweepAssumption, PTL

(* A reader who names the report is never sent back to an older run        *)
(* (latest_sweep_run_id), unless the newer one was deleted.                *)
THEOREM ReadersGoForward == Spec => NeverBack
<1>1. ASSUME Inv, [Next]_vars, reader.on, reader'.on, reader.page > 0,
             reader'.page > reader.page
      PROVE  reader'.run >= reader.run \/ ~runs[reader.run].row
  <2>1. reader \in Reader
    BY <1>1 DEF Inv, TypeOK
  <2>2. reader.page \in Nat
    BY <2>1 DEF Reader
  <2>3. reader' # reader
    BY <1>1, <2>2
  <2>4. TurnPage
    <3>1. ~BeginRun /\ ~OpenSection
      BY <1>1, <2>3 DEF BeginRun, OpenSection
    <3>2. ~Leave
      BY <1>1 DEF Leave
    <3>3. \A n \in Ids : ~Lapse(n) /\ ~Delete(n)
      BY <2>3 DEF Lapse, Delete
    <3>4. \A n \in Ids : ~StepEnds(n) /\ ~TimesOut(n) /\ ~GatewayFails(n) /\ ~SweepCrashes(n)
      BY <2>3 DEF StepEnds, TimesOut, GatewayFails, SweepCrashes
    <3> QED BY <1>1, <2>3, <3>1, <3>2, <3>3, <3>4 DEF Next, vars, Sweeping
  <2>5. reader'.run = Named(reader) /\ Served(reader)
    BY <2>1, <2>4 DEF TurnPage, Reader
  <2>6. CASE reader.by = "run"
    <3>1. reader'.run = reader.run /\ reader.run \in Nat
      BY <2>1, <2>5, <2>6 DEF Named, Reader
    <3> QED BY <3>1
  <2>7. CASE reader.by = "report"
    <3>1. reader'.run = Latest /\ Swept # {}
      BY <2>5, <2>7 DEF Named, Served
    <3>2. runs[reader.run].row => reader.run \in Swept
      BY <1>1 DEF Inv, Reading
    <3> QED BY <1>1, <3>1, <3>2, SweptRuns
  <2> QED BY <2>1, <2>6, <2>7 DEF Reader
<1>2. Inv /\ [Next]_vars =>
         [reader.on /\ reader'.on /\ reader.page > 0 /\ reader'.page > reader.page
             => reader'.run >= reader.run \/ ~runs[reader.run].row]_vars
  BY <1>1
<1> QED BY <1>2, Invariance, PTL DEF Spec, NeverBack
==============================================================================
