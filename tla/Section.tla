------------------------------ MODULE Section ------------------------------
(* What every collector builds and returns to run_sweep: the section of a  *)
(* sweep.  A gateway call either counts as answered or leaves an error     *)
(* that names it; an answer that cannot be parsed does both.               *)
EXTENDS Integers, FiniteSetsExt, SequencesExt, Order

NewSection == [errors |-> {}, callsOk |-> FALSE, records |-> <<>>]

NoteError(section, where) == [section EXCEPT !.errors = @ \cup {where}]

\* Slip: an answer is not counted once something has failed.
CountOk_Slip(section) == [section EXCEPT !.callsOk = @ \/ section.errors = {}]

CountOk(section) == [section EXCEPT !.callsOk = TRUE]

BadJson(section, where) == NoteError(CountOk(section), where)

AddRecords(section, records) == [section EXCEPT !.records = @ \o records]

(* _finish: "error" says that there is nothing to read because nothing     *)
(* could be asked.                                                         *)
StatusOf(section) ==
    CASE section.errors = {} -> "ok"
      [] section.errors # {} /\ section.records = <<>> /\ ~section.callsOk -> "error"
      [] OTHER -> "partial"
============================================================================
