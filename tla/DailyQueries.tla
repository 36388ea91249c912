---------------------------- MODULE DailyQueries ----------------------------
(* The feed_entries and jira_issues collectors, run after run.  A run asks *)
(* its queries (feed categories, JQL queries) in order, one gateway call   *)
(* each, for what appeared since some time in the past; all of them share  *)
(* one budget of records.  What appears between two runs should be in the  *)
(* second.                                                                 *)
EXTENDS Section, Window

CONSTANTS
    Queries,            \* how many queries a run asks
    Limit,              \* the limit of each of them
    MaxRecords,         \* MAX_FEED_RECORDS, MAX_JIRA_RECORDS
    WindowHour,         \* spec.window_hour
    SinceDays,          \* opts.since_days
    SinceAfterWeekend,  \* opts.since_days_after_weekend
    Moments,            \* the times at which anything happens
    MaxItems            \* bound on what appears

Constants ==
    /\ {Queries, Limit, MaxRecords, SinceDays, SinceAfterWeekend} \subseteq Nat \ {0}
    /\ WindowHour \in 0..23 /\ MaxItems \in Nat
    /\ Moments \subseteq Nat \ {0} /\ Moments # {} /\ IsFiniteSet(Moments)

VARIABLES
    kind,       \* the collector
    now,        \* the clock
    items,      \* entries and issues in the order they appear: [query, at]
    phase,      \* "idle", or "query" while a run asks
    query,      \* the query it asks next
    section,    \* of the latest run
    start,      \* when the latest run began, 0 if none did
    before      \* history: when the one before it began

vars == <<kind, now, items, phase, query, section, start, before>>

Kinds == {"feed_entries", "jira_issues"}

----------------------------------------------------------------------------
Since(t) == IF Weekday(Day(t)) = 0 \/ IsWeekend(Day(t)) THEN SinceAfterWeekend ELSE SinceDays

(* How far back a run that began at t asks.                                *)
PublishedAfter(t) == Min({WindowStart(t, WindowHour), t - 24 * Since(t)})

CreatedSince(t) == WindowStart(t, WindowHour)

After(t) == IF kind = "feed_entries" THEN PublishedAfter(t) ELSE CreatedSince(t)

(* A backend answers with the newest matches.                              *)
Answer(q) ==
    LET matches == {i \in DOMAIN items : items[i].query = q /\ items[i].at >= After(start)}
    IN  SubSeq(InOrder(matches, LAMBDA i, j : i > j), 1, Min({Limit, Cardinality(matches)}))

\* Slip: every query has the whole budget.
Taken_Slip(answer) == SubSeq(answer, 1, Min({MaxRecords, Len(answer)}))

(* The records made of an answer: as many as there is room for.            *)
Taken(answer) ==
    LET room == MaxRecords - Len(section.records)
    IN  SubSeq(answer, 1, Min({room, Len(answer)}))

----------------------------------------------------------------------------
Init ==
    /\ now = Min(Moments) /\ items = <<>>
    /\ phase = "idle" /\ query = 1 /\ section = NewSection /\ start = 0 /\ before = 0

Clock ==
    /\ phase = "idle" /\ now < Max(Moments)
    /\ now' = Min({m \in Moments : m > now})
    /\ UNCHANGED <<kind, items, phase, query, section, start, before>>

Appear(q) ==
    /\ Len(items) < MaxItems
    /\ items' = Append(items, [query |-> q, at |-> now])
    /\ UNCHANGED <<kind, now, phase, query, section, start, before>>

Begin ==
    /\ phase = "idle" /\ start < now
    /\ phase' = "query" /\ query' = 1 /\ section' = NewSection
    /\ start' = now /\ before' = start
    /\ UNCHANGED <<kind, now, items>>

NextQuery ==
    /\ query' = query + 1
    /\ phase' = IF query = Queries THEN "idle" ELSE "query"
    /\ UNCHANGED <<kind, now, items, start, before>>

Answered ==
    /\ phase = "query"
    /\ section' = AddRecords(CountOk(section), Taken(Answer(query)))
    /\ NextQuery

(* A query that fails is recorded and the remaining ones still run.        *)
Fails ==
    /\ phase = "query"
    /\ section' = NoteError(section, query)
    /\ NextQuery

Unparseable ==
    /\ phase = "query"
    /\ section' = BadJson(section, query)
    /\ NextQuery

Next ==
    \/ \E q \in 1..Queries : Appear(q)
    \/ Clock \/ Begin \/ Answered \/ Fails \/ Unparseable

Spec == kind \in Kinds /\ Init /\ [][Next]_vars

----------------------------------------------------------------------------
TypeOK ==
    /\ kind \in Kinds /\ now \in Moments /\ phase \in {"idle", "query"}
    /\ items \in Seq([query : 1..Queries, at : Moments])
    /\ query \in 1..(Queries + 1) /\ phase = "query" => query <= Queries
    /\ section.errors \subseteq 1..Queries /\ section.callsOk \in BOOLEAN
    /\ section.records \in Seq(DOMAIN items) /\ Len(section.records) <= MaxRecords
    /\ start \in Moments \cup {0} /\ before \in Moments \cup {0}
    /\ start <= now /\ (before < start \/ start = 0)

RecordsOf(q) == {i \in DOMAIN section.records : items[section.records[i]].query = q}

Recorded(i) == \E j \in DOMAIN section.records : section.records[j] = i

(* No weekday was left out since the run before, and that one came at or   *)
(* after the hour the windows start at.  A feed looks back whole days as   *)
(* well: there an earlier hour will do, if runs keep to it.                *)
KeptUp ==
    /\ before > 0
    /\ \A d \in (Day(before) + 1)..(Day(start) - 1) : IsWeekend(d)
    /\ \/ Hour(before) >= WindowHour
       \/ /\ kind = "feed_entries" /\ SinceAfterWeekend >= 3
          /\ Hour(start) <= Hour(before)

(* Nothing falls between two runs, over weekends and whatever the hours:   *)
(* what appeared from the run before on, until this one began, is in the   *)
(* section, or its query is among the errors, reached its own limit, or    *)
(* found the common budget spent.                                          *)
NothingFallsBetween ==
    phase = "idle" /\ KeptUp =>
        \A i \in DOMAIN items : items[i].at >= before /\ items[i].at < start =>
            \/ Recorded(i)
            \/ items[i].query \in section.errors
            \/ Cardinality(RecordsOf(items[i].query)) = Limit
            \/ Len(section.records) = MaxRecords
============================================================================
