---------------------------- MODULE MCCollectors ---------------------------
EXTENDS Collectors

Symmetry == Permutations(Threads)

MCVersions == {[n |-> 1, rc |-> 0], [n |-> 2, rc |-> 1], [n |-> 2, rc |-> 0]}

At(day, hour, length, status) ==
    [start |-> 24 * day + hour, end |-> 24 * day + hour + length,
     allDay |-> FALSE, status |-> status]

WholeDays(day, days, status) ==
    [start |-> 24 * day, end |-> 24 * (day + days), allDay |-> TRUE, status |-> status]

(* On Thursday, Friday (day 4) and Monday (day 7), one of them overnight.  *)
MCEvents ==
    {At(day, hour, length, status) :
        day \in {4, 7}, hour \in {9, 10}, length \in {1, 2},
        status \in {"accepted", "needsAction"}}
    \cup {At(3, 22, 14, "accepted"), At(4, 9, 2, "declined"), At(8, 9, 1, "needsAction")}
    \cup {WholeDays(day, 2, status) :
            day \in {3, 7}, status \in {"accepted", "needsAction", "declined"}}
============================================================================
