---------------------------- MODULE CalendarDay ----------------------------
(* One run of the calendar_day collector: one call for the events from the *)
(* report day to the end of the lookahead, from which the meetings of that *)
(* day, its all-day events and the invites still to answer are kept.  The  *)
(* report day is today or, on a weekend, the Monday after.                 *)
EXTENDS Section, Window

CONSTANTS
    CalendarEvents, \* what may be in a calendar: [start, end, allDay, status]
    Moments,        \* when a run may be
    Lookahead,      \* opts.lookahead_days
    MaxResults,     \* CALENDAR_MAX_RESULTS
    MaxEvents       \* bound on the events of a calendar

Constants ==
    /\ \A e \in CalendarEvents :
          {e.start, e.end} \subseteq Nat /\ e.start < e.end /\ e.allDay \in BOOLEAN
    /\ Moments \subseteq Nat /\ Lookahead \in Nat /\ MaxResults \in Nat \ {0} /\ MaxEvents \in Nat

VARIABLES
    calendar,   \* the events
    phase,      \* "idle", "query", "done"
    now,        \* when the run is
    section     \* records: [event, kind, overlaps]

vars == <<calendar, phase, now, section>>

----------------------------------------------------------------------------
Day0 == ReportDay(now)

\* Slip: the last day of the lookahead is left out.
Horizon_Slip == 24 * (Day0 + Lookahead)

(* The first hour that the call no longer asks for.                        *)
Horizon == 24 * (Day0 + Lookahead + 1)

Asked == {i \in DOMAIN calendar : calendar[i].end > 24 * Day0 /\ calendar[i].start < Horizon}

(* The backend answers with what touches that time, earliest first, and no *)
(* more than it is asked for.                                              *)
Answer ==
    LET order == InOrder(Asked, LAMBDA i, j :
                     \/ calendar[i].start < calendar[j].start
                     \/ calendar[i].start = calendar[j].start /\ i < j)
    IN  [n \in 1..Min({Cardinality(Asked), MaxResults}) |-> calendar[order[n]]]

(* _event_kind; "none" is dropped.                                         *)
EventKind(e) ==
    CASE e.status # "declined" /\ Day(e.start) = Day0 /\ e.allDay -> "all_day"
      [] e.status \notin {"declined", "needsAction"} /\ Day(e.start) = Day0 /\ ~e.allDay -> "meeting"
      [] e.status = "needsAction" /\ Day(e.start) >= Day0
            /\ ~(Day(e.start) = Day0 /\ e.allDay) -> "pending_invite"
      [] OTHER -> "none"

Timed(e) == ~e.allDay /\ Day(e.start) = Day0

\* Slip: what ends as the next begins overlaps it.
Overlap_Slip(e, f) == Timed(e) /\ Timed(f) /\ e.start <= f.end /\ f.start <= e.end

Overlap(e, f) == Timed(e) /\ Timed(f) /\ e.start < f.end /\ f.start < e.end

(* The records, each with the start of every other one it overlaps.        *)
Records ==
    LET kept == Selected(Answer, LAMBDA e : EventKind(e) # "none")
    IN  [i \in DOMAIN kept |->
            [event |-> kept[i], kind |-> EventKind(kept[i]),
             overlaps |-> {kept[j].start :
                             j \in {k \in DOMAIN kept \ {i} : Overlap(kept[i], kept[k])}}]]

----------------------------------------------------------------------------
Init == calendar = <<>> /\ phase = "idle" /\ now = Min(Moments) /\ section = NewSection

Enter ==
    /\ phase = "idle" /\ Len(calendar) < MaxEvents
    /\ \E e \in CalendarEvents : calendar' = Append(calendar, e)
    /\ UNCHANGED <<phase, now, section>>

Begin ==
    /\ phase = "idle" /\ phase' = "query"
    /\ now' \in Moments
    /\ UNCHANGED <<calendar, section>>

Answered ==
    /\ phase = "query" /\ phase' = "done"
    /\ section' = AddRecords(CountOk(section), Records)
    /\ UNCHANGED <<calendar, now>>

Fails ==
    /\ phase = "query" /\ phase' = "done"
    /\ section' = NoteError(section, "get_events")
    /\ UNCHANGED <<calendar, now>>

Next == Enter \/ Begin \/ Answered \/ Fails

Spec == Init /\ [][Next]_vars

----------------------------------------------------------------------------
TypeOK ==
    /\ calendar \in Seq(CalendarEvents) /\ Len(calendar) <= MaxEvents
    /\ phase \in {"idle", "query", "done"} /\ now \in Moments
    /\ section.errors \subseteq {"get_events"} /\ section.callsOk \in BOOLEAN
    /\ \A i \in DOMAIN section.records :
          /\ section.records[i].event \in CalendarEvents
          /\ section.records[i].kind \in {"all_day", "meeting", "pending_invite"}
          /\ section.records[i].overlaps \subseteq Nat

Shown(e, kinds) ==
    \E i \in DOMAIN section.records :
        section.records[i].event = e /\ section.records[i].kind \in kinds

(* A report has every event of its day that was not declined; and with a   *)
(* lookahead of three days, the default, an invite that is to be answered  *)
(* for the next weekday is in it as well, on a Friday that of Monday: no   *)
(* invite reaches its day without a report of an earlier one, unless the   *)
(* calendar had more than one call returns.                                *)
DayIsComplete ==
    phase = "done" /\ StatusOf(section) = "ok" /\ Len(Answer) < MaxResults =>
        \A i \in DOMAIN calendar :
            LET e == calendar[i]
            IN  /\ e.status # "declined" /\ Day(e.start) = Day0 =>
                        Shown(e, {"all_day", "meeting", "pending_invite"})
                /\ e.status = "needsAction" /\ Lookahead >= 3
                        /\ PreviousWeekday(Day(e.start)) = Day0 => Shown(e, {"pending_invite"})

Hours(e) == e.start..(e.end - 1)

(* A clash is marked on both sides and is one: two records of the day that *)
(* share an hour name each other, and a record names nothing else.         *)
ClashesAreMutual ==
    \A i \in DOMAIN section.records :
        LET r == section.records[i]
            clashing == {j \in DOMAIN section.records \ {i} :
                            /\ Timed(r.event) /\ Timed(section.records[j].event)
                            /\ Hours(r.event) \cap Hours(section.records[j].event) # {}}
        IN  /\ r.overlaps = {section.records[j].event.start : j \in clashing}
            /\ \A j \in clashing : r.event.start \in section.records[j].overlaps
============================================================================
