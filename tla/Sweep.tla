------------------------------- MODULE Sweep -------------------------------
(* The sweeps of one report, from the steps of run_sweep to the pages that *)
(* get_sweep serves.  A run may lapse while it is swept; its successor is  *)
(* then swept at the same time, and the older sweep may end last.  Readers *)
(* turn pages meanwhile, naming a run or only the report.                  *)
EXTENDS Naturals, SequencesExt

CONSTANTS
    Steps,          \* the steps of the definition's sweep, 1..Steps
    StepTime,       \* the longest a step can take
    SweepTimeout,   \* METSUKE_SWEEP_TIMEOUT_SECONDS
    MaxRuns,        \* bound on runs
    Outcomes,       \* how a collector may end, [errors, callsOk, count of records]
    PageSizes       \* page sizes readers ask for

ASSUME SweepAssumption ==
    /\ {Steps, StepTime, SweepTimeout, MaxRuns} \subseteq Nat \ {0}
    /\ PageSizes \subseteq Nat \ {0}
    /\ Outcomes \subseteq [errors : BOOLEAN, callsOk : BOOLEAN, count : Nat]
    /\ \A o \in Outcomes : o.count > 0 => o.callsOk

VARIABLES
    runs,       \* the runs of the report, oldest first, and their sweeps
    reader      \* somebody reading a section

vars == <<runs, reader>>

Sections == 1..Steps
Ids == DOMAIN runs

(* A collector that raised is recorded like one with no successful call.   *)
StatusOf(o) ==
    CASE ~o.errors -> "ok"
      [] o.errors /\ o.count = 0 /\ ~o.callsOk -> "error"
      [] OTHER -> "partial"

SectionOf(n, s, o) ==
    [status |-> StatusOf(o), records |-> [i \in 1..o.count |-> <<n, s, i>>]]

NoSweep == [status |-> "none", errors |-> "none", sections |-> <<>>]

(* _sweep_failure: the cause, and no sections at all.                      *)
SweepFailure(detail) == [status |-> "error", errors |-> detail, sections |-> <<>>]

Overall_Slip(statuses) ==
    IF "ok" \in statuses THEN "ready" ELSE IF "partial" \in statuses THEN "partial" ELSE "error"

Overall(statuses) ==
    IF statuses = {"ok"} THEN "ready" ELSE IF statuses = {"error"} THEN "error" ELSE "partial"

Document(sections) ==
    [status |-> Overall({sections[s].status : s \in DOMAIN sections}),
     errors |-> "none", sections |-> sections]

(* A run: is it in the table, is it gathering, is its sweep under way, and *)
(* since when; the sections so far, the stored document, the status its    *)
(* gatherer was sent, and a history field: did set_sweep raise?            *)
NewRun ==
    [row |-> TRUE, open |-> TRUE, sweeping |-> TRUE, elapsed |-> 0,
     sections |-> <<>>, doc |-> NoSweep, told |-> "none", refused |-> FALSE]

Init == runs = <<>> /\ reader = [on |-> FALSE]

----------------------------------------------------------------------------
(* The lock lets a run open when there is none.                            *)
BeginRun ==
    /\ Len(runs) < MaxRuns
    /\ \A n \in Ids : ~runs[n].open
    /\ runs' = Append(runs, NewRun)
    /\ UNCHANGED reader

(* The run lapses, fails or is saved; its sweep goes on.                   *)
Lapse(n) ==
    /\ runs[n].open
    /\ runs' = [runs EXCEPT ![n].open = FALSE]
    /\ UNCHANGED reader

Delete(n) ==
    /\ runs[n].row
    /\ runs' = [runs EXCEPT ![n].row = FALSE, ![n].open = FALSE, ![n].doc = NoSweep]
    /\ UNCHANGED reader

(* set_sweep, which finds no row if the run is deleted; then the callback, *)
(* unless the run is over.                                                 *)
Finish(n, run, doc) ==
    runs' = [runs EXCEPT ![n] =
        [run EXCEPT !.sweeping = FALSE, !.elapsed = 0,
                    !.doc = IF run.row THEN doc ELSE NoSweep,
                    !.told = IF run.open THEN doc.status ELSE "none"]]

StepEnds_Slip(n) ==
    /\ runs[n].sweeping
    /\ \E outcome \in Outcomes, took \in 0..StepTime :
          LET s == Len(runs[n].sections) + 1
              run == [runs[n] EXCEPT !.elapsed = @ + took,
                                     !.sections = Append(@, SectionOf(n, s, outcome))]
          IN  IF s = Steps THEN Finish(n, run, Document(run.sections))
              ELSE runs' = [runs EXCEPT ![n] = run]
    /\ UNCHANGED reader

(* A step ends; after the last one the document is stored.                 *)
StepEnds(n) ==
    /\ runs[n].sweeping
    /\ \E outcome \in Outcomes, took \in 0..StepTime :
          LET s == Len(runs[n].sections) + 1
              run == [runs[n] EXCEPT !.elapsed = @ + took,
                                     !.sections = Append(@, SectionOf(n, s, outcome))]
          IN  /\ run.elapsed < SweepTimeout
              /\ IF s = Steps THEN Finish(n, run, Document(run.sections))
                 ELSE runs' = [runs EXCEPT ![n] = run]
    /\ UNCHANGED reader

TimesOut_Slip(n) ==
    /\ runs[n].sweeping
    /\ runs[n].elapsed + StepTime >= SweepTimeout
    /\ runs' = [runs EXCEPT ![n].sweeping = FALSE]
    /\ UNCHANGED reader

(* wait_for cancels run_sweep; what its steps had found goes with it.      *)
TimesOut(n) ==
    /\ runs[n].sweeping
    /\ runs[n].elapsed + StepTime >= SweepTimeout
    /\ Finish(n, runs[n], SweepFailure("timed out"))
    /\ UNCHANGED reader

(* The gateway is not configured, cannot be reached, or its session breaks *)
(* down, in the middle of a step or when it is closed.                     *)
GatewayFails(n) ==
    /\ runs[n].sweeping
    /\ Finish(n, runs[n], SweepFailure("gateway"))
    /\ UNCHANGED reader

(* The sweep is over, whatever it found, and set_sweep raises ("database   *)
(* is locked"): no document and no callback, and fail_run if that does not *)
(* raise as well.                                                          *)
SweepCrashes(n) ==
    /\ runs[n].sweeping
    /\ \E open \in {FALSE, runs[n].open} :
          runs' = [runs EXCEPT ![n].sweeping = FALSE, ![n].elapsed = 0,
                               ![n].refused = TRUE, ![n].open = open]
    /\ UNCHANGED reader

----------------------------------------------------------------------------
(* Readers.                                                                *)

Swept == {n \in Ids : runs[n].doc # NoSweep}

(* latest_sweep_run_id: runs are dated when they begin.                    *)
Latest_Slip == Min(Swept)

Latest == Max(Swept)

PageOf_Slip(records, page, size) ==
    SubSeq(records, (page - 1) * size + 1, Min({page * size - 1, Len(records)}))

PageOf(records, page, size) ==
    SubSeq(records, (page - 1) * size + 1, Min({page * size, Len(records)}))

PageCount(records, size) == Max({1, (Len(records) + size - 1) \div size})

Named(r) == IF r.by = "report" THEN Latest ELSE r.run

Served(r) ==
    /\ r.by = "report" => Swept # {}
    /\ Named(r) \in Swept
    /\ r.section \in DOMAIN runs[Named(r)].doc.sections

(* get_sweep, one page.  The reader notes which run answered.              *)
TurnPage ==
    /\ reader.on /\ Served(reader) /\ reader.page < reader.pages
    /\ LET n == Named(reader)
           records == runs[n].doc.sections[reader.section].records
       IN  reader' = [reader EXCEPT
              !.run = n,
              !.page = @ + 1,
              !.pages = PageCount(records, reader.size),
              !.got = @ \o PageOf(records, reader.page + 1, reader.size),
              !.mixed = @ \/ (reader.page > 0 /\ n # reader.run)]
    /\ UNCHANGED runs

OpenSection ==
    /\ ~reader.on
    /\ \E by \in {"run", "report"}, n \in Swept, s \in Sections, size \in PageSizes :
          /\ by = "report" => n = Latest
          /\ reader' = [on |-> TRUE, by |-> by, run |-> n, section |-> s, size |-> size,
                        page |-> 0, pages |-> 1, got |-> <<>>, mixed |-> FALSE]
    /\ UNCHANGED runs

(* RunNotFoundError, or the reader is done.                                *)
Leave ==
    /\ reader.on
    /\ ~Served(reader) \/ reader.page >= reader.pages
    /\ reader' = [on |-> FALSE]
    /\ UNCHANGED runs

Sweeping(n) == StepEnds(n) \/ TimesOut(n) \/ GatewayFails(n) \/ SweepCrashes(n)

Next ==
    \/ BeginRun \/ TurnPage \/ OpenSection \/ Leave
    \/ \E n \in Ids : Lapse(n) \/ Delete(n) \/ Sweeping(n)

(* The loop a sweep runs on goes on, and wait_for bounds it.               *)
Spec == Init /\ [][Next]_vars /\ \A n \in 1..MaxRuns : WF_vars(n \in Ids /\ Sweeping(n))

----------------------------------------------------------------------------
Record == Nat \X Sections \X Nat
Section == [status : {"ok", "partial", "error"}, records : Seq(Record)]
Statuses == {"none", "ready", "partial", "error"}
SweepData == [status : Statuses, errors : {"none", "timed out", "gateway"},
              sections : Seq(Section)]
Run == [row : BOOLEAN, open : BOOLEAN, sweeping : BOOLEAN, elapsed : 0..(SweepTimeout - 1),
        sections : Seq(Section), doc : SweepData, told : Statuses, refused : BOOLEAN]
Reader == [on : {TRUE}, by : {"run", "report"}, run : Nat, section : Sections,
           size : PageSizes, page : Nat, pages : Nat, got : Seq(Record), mixed : BOOLEAN]

TypeOK ==
    /\ runs \in Seq(Run)
    /\ Len(runs) <= MaxRuns
    /\ \A n \in Ids : Len(runs[n].sections) <= Steps
    /\ reader \in Reader \cup {[on |-> FALSE]}

(* Who reads a section of one run page by page gets every record of it     *)
(* once and in order, whatever is swept, read or deleted meanwhile, and    *)
(* so does who names the report, unless another run answered in between.   *)
PagesMakeTheSection ==
    reader.on /\ reader.page = reader.pages /\ ~reader.mixed /\ reader.run \in Swept =>
        reader.got = runs[reader.run].doc.sections[reader.section].records

(* The status sent with the callback is that of the document the gatherer  *)
(* will read by run id, and it can be trusted: "ready" means that every    *)
(* step did well, "error" that there is nothing to read.                   *)
ToldIsTrue ==
    \A n \in Ids :
        /\ runs[n].told # "none" /\ runs[n].row => runs[n].doc.status = runs[n].told
        /\ runs[n].doc.status = "ready" =>
              /\ DOMAIN runs[n].doc.sections = Sections
              /\ \A s \in Sections : runs[n].doc.sections[s].status = "ok"
        /\ runs[n].doc.status = "error" =>
              \A s \in DOMAIN runs[n].doc.sections : runs[n].doc.sections[s].records = <<>>

(* Who names only the report is never sent back to an older run, though    *)
(* its sweep may have ended last, unless the newer one was deleted.        *)
NeverBack ==
    [][reader.on /\ reader'.on /\ reader.page > 0 /\ reader'.page > reader.page
          => reader'.run >= reader.run \/ ~runs[reader.run].row]_vars

(* Every sweep comes to an end, whatever times out or fails in it, and     *)
(* leaves a document behind, unless its run is deleted or the database     *)
(* refuses the document.                                                   *)
EverySweepIsStored ==
    \A n \in 1..MaxRuns :
        (n \in Ids) ~> (n \in Ids /\ (runs[n].doc # NoSweep \/ ~runs[n].row \/ runs[n].refused))
============================================================================
