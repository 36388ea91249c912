---------------------------- MODULE NagiosHealth ----------------------------
(* One run of the nagios_health collector: it asks Nagios four questions,  *)
(* one call each, and merges the answers into one record per check.  Any   *)
(* of the calls may fail, and checks break, page and recover in between.   *)
(*                                                                         *)
(* `history' holds the problem events of the last opts.hours hours, oldest *)
(* first, those during scheduled downtime left out as the tool leaves them *)
(* out; a position in it is a time.  Plugin output is abstracted.          *)
EXTENDS Section

CONSTANTS
    Checks,         \* hosts and services, numbered as their names sort
    MinEvents,      \* opts.min_events
    RollupSize,     \* how many rows the alert roll-up lists
    MaxHistory      \* bound on the problem events

Constants ==
    /\ Checks \subseteq Nat /\ IsFiniteSet(Checks)
    /\ {MinEvents, RollupSize, MaxHistory} \subseteq Nat \ {0}

VARIABLES
    bad,        \* the checks that are not OK
    history,    \* problem events: [check, paged]
    phase,      \* the question asked next, or "done"
    checks,     \* the records made so far, by check
    section,
    counts,      \* the numbers the section carries
    began,      \* history: how many events there were when the run began
    broken      \* history: the checks that were not OK ever since

vars == <<bad, history, phase, checks, section, counts, began, broken>>

----------------------------------------------------------------------------
(* Nagios.                                                                 *)

Breaks(c, paged) ==
    /\ phase # "done" /\ Len(history) < MaxHistory
    /\ bad' = bad \cup {c}
    /\ history' = Append(history, [check |-> c, paged |-> paged])
    /\ UNCHANGED <<phase, checks, section, counts, began, broken>>

Recovers(c) ==
    /\ phase # "done" /\ c \in bad
    /\ bad' = bad \ {c} /\ broken' = broken \ {c}
    /\ UNCHANGED <<history, phase, checks, section, counts, began>>

EventsBy(c, n) == Quantify(1..n, LAMBDA i : history[i].check = c)

Events(c) == EventsBy(c, Len(history))

PagesBy(c, n) == Quantify(1..n, LAMBDA i : history[i].check = c /\ history[i].paged)

Pages(c) == PagesBy(c, Len(history))

Noisy == {c \in Checks : Events(c) > 0}

(* What the roll-up lists: its noisiest rows.  Ties go either way.         *)
Rollups ==
    {rows \in kSubset(Min({RollupSize, Cardinality(Noisy)}), Noisy) :
        \A c \in rows, d \in Noisy \ rows : Events(c) >= Events(d)}

----------------------------------------------------------------------------
(* check(): a record is made when a check is first seen.                   *)
Blank == [open |-> FALSE, pages |-> 0, lastPage |-> 0, events |-> 0]

With(seen) ==
    [c \in DOMAIN checks \cup seen |-> IF c \in DOMAIN checks THEN checks[c] ELSE Blank]

Open == [c \in DOMAIN With(bad) |-> [With(bad)[c] EXCEPT !.open = c \in bad]]

(* Rows come newest first and each overwrites last_page: the oldest stays. *)
Paged ==
    LET paging == {c \in Checks : Pages(c) > 0}
        Oldest(c) == Min({i \in DOMAIN history : history[i].check = c /\ history[i].paged})
        rec == With(paging)
    IN  [c \in DOMAIN rec |->
            IF c \in paging THEN [rec[c] EXCEPT !.pages = Pages(c), !.lastPage = Oldest(c)]
                            ELSE rec[c]]

\* Slip: a row counts only if there is a record already.
Kept_Slip(rows) == rows \cap DOMAIN checks

\* Slip: every row counts.
Kept_Slip2(rows) == rows

(* _merge_rollup: a row of a check not seen yet must have min_events.      *)
Kept(rows) == {c \in rows : c \in DOMAIN checks \/ Events(c) >= MinEvents}

Merged(rows) ==
    LET rec == With(Kept(rows))
    IN  [c \in DOMAIN rec |->
            IF c \in Kept(rows) THEN [rec[c] EXCEPT !.events = Events(c)] ELSE rec[c]]

(* The order of the records: what is open first, then the noisiest.        *)
Before(c, d) ==
    LET Rank(e) == <<IF checks[e].open THEN 0 ELSE 1, -checks[e].events, -checks[e].pages, e>>
    IN  \E i \in 1..4 :
            Rank(c)[i] < Rank(d)[i] /\ \A j \in 1..(i - 1) : Rank(c)[j] = Rank(d)[j]

RecordOrder == InOrder(DOMAIN checks, Before)

----------------------------------------------------------------------------
Init ==
    /\ bad = {} /\ history = <<>>
    /\ phase = "idle" /\ checks = <<>> /\ section = NewSection
    /\ counts = [pages |-> 0, listed |-> 0, more |-> 0]
    /\ began = 0 /\ broken = {}

Begin ==
    /\ phase = "idle"
    /\ phase' = "problems" /\ began' = Len(history) /\ broken' = bad
    /\ UNCHANGED <<bad, history, checks, section, counts>>

NextQuestion == [problems |-> "pages", pages |-> "rollup", rollup |-> "downtimes"]

Answered(question, next, result) ==
    /\ phase = question /\ phase' = next
    /\ section' = result
    /\ UNCHANGED <<bad, history, began, broken>>

Problems ==
    /\ Answered("problems", "pages", CountOk(section))
    /\ checks' = Open
    /\ UNCHANGED counts

Notifications ==
    /\ Answered("pages", "rollup", CountOk(section))
    /\ checks' = Paged
    /\ counts' = [counts EXCEPT !.pages = Quantify(DOMAIN history, LAMBDA i : history[i].paged)]

Rollup ==
    /\ Answered("rollup", "downtimes", CountOk(section))
    /\ \E rows \in Rollups :
          /\ checks' = Merged(rows)
          /\ counts' = [counts EXCEPT !.listed = Cardinality(rows),
                                    !.more = Cardinality(Noisy \ rows)]

(* With the last call, answered or not, the section is put together.       *)
Downtimes ==
    /\ Answered("downtimes", "done", AddRecords(CountOk(section), RecordOrder))
    /\ UNCHANGED <<checks, counts>>

DowntimesFail ==
    /\ Answered("downtimes", "done", AddRecords(NoteError(section, "downtimes"), RecordOrder))
    /\ UNCHANGED <<checks, counts>>

(* A call that fails is recorded, and the next question is asked.          *)
Fails ==
    /\ \E q \in DOMAIN NextQuestion : Answered(q, NextQuestion[q], NoteError(section, q))
    /\ UNCHANGED <<checks, counts>>

Next ==
    \/ \E c \in Checks, paged \in BOOLEAN : Breaks(c, paged)
    \/ \E c \in Checks : Recovers(c)
    \/ Begin \/ Problems \/ Notifications \/ Rollup \/ Downtimes \/ DowntimesFail \/ Fails

Spec == Init /\ [][Next]_vars

----------------------------------------------------------------------------
TypeOK ==
    /\ bad \subseteq Checks /\ history \in Seq([check : Checks, paged : BOOLEAN])
    /\ phase \in {"idle", "problems", "pages", "rollup", "downtimes", "done"}
    /\ DOMAIN checks \subseteq Checks
    /\ \A c \in DOMAIN checks :
          checks[c] \in [open : BOOLEAN, pages : Nat, lastPage : Nat, events : Nat]
    /\ section.errors \subseteq {"problems", "pages", "rollup", "downtimes"}
    /\ section.callsOk \in BOOLEAN /\ section.records \in Seq(Checks)
    /\ counts \in [pages : Nat, listed : 0..RollupSize, more : Nat]
    /\ began \in 0..Len(history) /\ broken \subseteq bad

IsListed(c) == \E i \in DOMAIN section.records : section.records[i] = c

(* "A check qualifies when it is not OK now, had min_events or more        *)
(* problem events in hours, or paged" (nagios_health): one that did when   *)
(* the run began, and has not recovered since, is listed as what it is,    *)
(* whatever happens during the run; or the call that would have said so    *)
(* failed, or the roll-up had more rows than it lists.                     *)
WhatQualifiesIsListed ==
    phase = "done" =>
        \A c \in Checks :
            /\ c \in broken /\ "problems" \notin section.errors =>
                    IsListed(c) /\ checks[c].open
            /\ PagesBy(c, began) > 0 /\ "pages" \notin section.errors =>
                    IsListed(c) /\ checks[c].pages >= PagesBy(c, began)
            /\ EventsBy(c, began) >= MinEvents /\ "rollup" \notin section.errors =>
                    \/ IsListed(c) /\ checks[c].events >= EventsBy(c, began)
                    \/ counts.more > 0

(* A record is there for a reason, once, and what four answers of four     *)
(* moments say of its check is true of one history: no more pages or       *)
(* events than there were, and, where the roll-up lists it, no more pages  *)
(* than events, for every page comes with an event.                        *)
RecordsAreTrue ==
    phase = "done" =>
        /\ ToSet(section.records) = DOMAIN checks /\ IsInjective(section.records)
        /\ \A c \in DOMAIN checks :
              /\ checks[c].open \/ checks[c].pages > 0 \/ checks[c].events >= MinEvents
              /\ checks[c].pages <= Pages(c) /\ checks[c].events <= Events(c)
              /\ checks[c].events > 0 => checks[c].pages <= checks[c].events
              /\ checks[c].pages > 0 => history[checks[c].lastPage] = [check |-> c, paged |-> TRUE]
============================================================================
