------------------------------- MODULE Window -------------------------------
(* window.py: reporting windows.  A time is a number of hours on the local *)
(* clock of the report, counted from the midnight a week begins at; days   *)
(* are numbered, and day 0 is a Monday.                                    *)
EXTENDS Integers

Day(t) == t \div 24

Hour(t) == t % 24

Weekday(d) == d % 7

IsWeekend(d) == Weekday(d) >= 5

\* Slip: Monday's window starts on Sunday.
PreviousWeekday_Slip(d) == d - 1

(* One day back, then on until it is no weekend.                           *)
PreviousWeekday(d) ==
    CHOOSE e \in (d - 3)..(d - 1) :
        ~IsWeekend(e) /\ \A f \in (e + 1)..(d - 1) : IsWeekend(f)

(* previous_weekday_at: where the window of a run at t starts.             *)
WindowStart(t, hour) == 24 * PreviousWeekday(Day(t)) + hour

(* next_weekday: the day a report at t is about.                           *)
ReportDay(t) ==
    CHOOSE e \in Day(t)..(Day(t) + 2) :
        ~IsWeekend(e) /\ \A f \in Day(t)..(e - 1) : IsWeekend(f)
============================================================================
