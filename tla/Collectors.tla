----------------------------- MODULE Collectors -----------------------------
(* One step of a sweep: the collector it names (COLLECTORS) is run and     *)
(* makes a section.  Each collector is a module of its own; only one runs, *)
(* so what they have alike is shared, and what is another's stays as it is. *)
(* slack_waiting, the largest of them, is checked by itself.               *)
EXTENDS Section

CONSTANTS
    Threads, SearchPageSize, MaxPages, MaxThreads, StartDay, Start, MinAges, MaxLog,
    Queries, Limit, MaxRecords, WindowHour, SinceDays, SinceAfterWeekend, Moments, MaxItems,
    Checks, MinEvents, RollupSize, MaxHistory,
    Repos, Versions, Published, OtherPart, MaxParsed, MaxListed, MaxContainers, MaxLines,
    CalendarEvents, Lookahead, MaxResults, MaxEvents

VARIABLES
    collector,  \* the collector the step names
    phase,      \* how far it is
    section,    \* what it has made
    log, minAge, page, found, at, stats,        \* of gmail_waiting
    items, query, start, before,                \* of feed_entries, jira_issues
    bad, history, checks, counts, broken,       \* of nagios_health
    body, parts, containers, listing,           \* of ashigaru_issue, crunchtools_releases
    calendar,                                   \* of calendar_day
    now, began                                  \* of two of them each

gmailVars == <<log, minAge, page, found, at, stats>>
dailyVars == <<items, query, start, before>>
nagiosVars == <<bad, history, checks, counts, broken>>
issueVars == <<body, parts, containers, listing>>

vars == <<collector, phase, section, gmailVars, dailyVars, nagiosVars, issueVars,
          calendar, now, began>>

Gmail == INSTANCE GmailWaiting
Daily == INSTANCE DailyQueries WITH kind <- collector
Nagios == INSTANCE NagiosHealth
Issue == INSTANCE RecordIssue
Calendar == INSTANCE CalendarDay

ASSUME CollectorsAssumption ==
    Gmail!Constants /\ Daily!Constants /\ Nagios!Constants /\ Issue!Constants /\ Calendar!Constants

Names == {"gmail_waiting", "nagios_health", "calendar_day"} \cup Daily!Kinds \cup Issue!Kinds

----------------------------------------------------------------------------
Init ==
    /\ collector \in Names
    /\ Gmail!Init /\ Daily!Init /\ Nagios!Init /\ Issue!Init /\ Calendar!Init

IsGmail ==
    /\ collector = "gmail_waiting"
    /\ UNCHANGED <<collector, dailyVars, nagiosVars, issueVars, calendar, now>>

IsDaily ==
    /\ collector \in Daily!Kinds
    /\ UNCHANGED <<gmailVars, nagiosVars, issueVars, calendar, began>>

IsNagios ==
    /\ collector = "nagios_health"
    /\ UNCHANGED <<collector, gmailVars, dailyVars, issueVars, calendar, now>>

IsIssue ==
    /\ collector \in Issue!Kinds
    /\ UNCHANGED <<gmailVars, dailyVars, nagiosVars, calendar, now, began>>

IsCalendar ==
    /\ collector = "calendar_day"
    /\ UNCHANGED <<collector, gmailVars, dailyVars, nagiosVars, issueVars, began>>

Next ==
    \/ IsGmail /\ \E t \in Threads, m \in Gmail!Kinds : Gmail!Arrive(t, m)
    \/ IsGmail /\ Gmail!Begin
    \/ IsGmail /\ Gmail!SearchPage
    \/ IsGmail /\ Gmail!SearchFails
    \/ IsGmail /\ Gmail!ReadThread
    \/ IsGmail /\ Gmail!ReadFails
    \/ IsDaily /\ \E q \in 1..Queries : Daily!Appear(q)
    \/ IsDaily /\ Daily!Clock
    \/ IsDaily /\ Daily!Begin
    \/ IsDaily /\ Daily!Answered
    \/ IsDaily /\ Daily!Fails
    \/ IsDaily /\ Daily!Unparseable
    \/ IsNagios /\ \E c \in Checks, paged \in BOOLEAN : Nagios!Breaks(c, paged)
    \/ IsNagios /\ \E c \in Checks : Nagios!Recovers(c)
    \/ IsNagios /\ Nagios!Begin
    \/ IsNagios /\ Nagios!Problems
    \/ IsNagios /\ Nagios!Notifications
    \/ IsNagios /\ Nagios!Rollup
    \/ IsNagios /\ Nagios!Downtimes
    \/ IsNagios /\ Nagios!DowntimesFail
    \/ IsNagios /\ Nagios!Fails
    \/ IsIssue /\ Issue!WriteLine
    \/ IsIssue /\ Issue!Begin
    \/ IsIssue /\ Issue!NotFound
    \/ IsIssue /\ Issue!Found
    \/ IsIssue /\ Issue!ListItems
    \/ IsIssue /\ Issue!Lotor
    \/ IsIssue /\ Issue!LotorFails
    \/ IsCalendar /\ Calendar!Enter
    \/ IsCalendar /\ Calendar!Begin
    \/ IsCalendar /\ Calendar!Answered
    \/ IsCalendar /\ Calendar!Fails

Spec == Init /\ [][Next]_vars

----------------------------------------------------------------------------
TypeOK ==
    /\ collector \in Names
    /\ collector = "gmail_waiting" => Gmail!TypeOK
    /\ collector \in Daily!Kinds => Daily!TypeOK
    /\ collector = "nagios_health" => Nagios!TypeOK
    /\ collector \in Issue!Kinds => Issue!TypeOK
    /\ collector = "calendar_day" => Calendar!TypeOK

(* What module Sweep assumes of every collector's outcome: where there are *)
(* records a call was answered, so a step whose status is "error" has      *)
(* nothing to read; and an end without records or errors was answered too. *)
FitsTheSweep ==
    /\ section.records # <<>> => section.callsOk
    /\ phase = "done" => section.callsOk \/ StatusOf(section) = "error"

(* The properties of the collectors, each where it is stated.              *)
NoMailLost == collector = "gmail_waiting" => Gmail!NoMailLost
EachThreadOnce == collector = "gmail_waiting" => Gmail!EachThreadOnce
NothingFallsBetween == collector \in Daily!Kinds => Daily!NothingFallsBetween
WhatQualifiesIsListed == collector = "nagios_health" => Nagios!WhatQualifiesIsListed
RecordsAreTrue == collector = "nagios_health" => Nagios!RecordsAreTrue
PartsAddUp == collector \in Issue!Kinds => Issue!PartsAddUp
DeployStatusIsTrue == collector \in Issue!Kinds => Issue!DeployStatusIsTrue
DayIsComplete == collector = "calendar_day" => Calendar!DayIsComplete
ClashesAreMutual == collector = "calendar_day" => Calendar!ClashesAreMutual
============================================================================
