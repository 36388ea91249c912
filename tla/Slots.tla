------------------------------- MODULE Slots --------------------------------
(***************************************************************************)
(* When the scheduler fires: the cron slots of one definition, the poll    *)
(* that notices them, last_fired_at and the startup guard, across slow and *)
(* failing callbacks, failing writes, restarts and edits of the            *)
(* definition.  Time is discrete; a schedule is its period (a slot every   *)
(* that many units) and 0 is "manual only".  Other due reports of the same *)
(* poll are seen as delay between the SELECT of the definitions and this   *)
(* one's turn, and as a poll that ends before that turn.                   *)
(***************************************************************************)
EXTENDS Naturals, Sequences

CONSTANTS
    Periods,   \* the schedules a caller may set
    Poll,      \* METSUKE_SCHEDULER_POLL_SECONDS
    ListDelay, \* longest wait for this definition's turn in a poll
    PostMax,   \* _HTTP_TIMEOUT
    MaxTime,   \* bound on the clock
    MaxFires   \* bound on the runs the scheduler opens

ASSUME SlotsAssumption ==
    /\ Periods \subseteq Nat \ {0}
    /\ Poll \in Nat \ {0} /\ ListDelay \in Nat /\ PostMax \in Nat

VARIABLES
    now,
    schedule,  \* report_definitions.schedule, 0 for NULL
    push,      \* is the report dispatched inline (no sweep, owner not pull)?
    configured, \* has the process an alert endpoint to post to?
    lastFired, \* report_definitions.last_fired_at, 0 for NULL
    lock,      \* who holds the report's run lock
    phase,     \* what the scheduler thread is at
    by,        \* when it leaves that phase at the latest
    started,   \* started_at of _loop
    snap,      \* the row list_scheduled returned to this poll
    found,     \* history: how the latest slot found the scheduler, while
               \* neither a restart nor another schedule has come since
    since,     \* history: when that slot elapsed, a poll last raised or the
               \* lock last came free, whichever was last
    fires      \* history: the runs _tick opened, in order

vars == <<now, schedule, push, configured, lastFired, lock, phase, by,
          started, snap, found, since, fires>>

Locks == {"free", "fire", "other"}
Phases == {"down", "sleep", "listed", "posting"}
Definition == [schedule : Periods \cup {0}, push : BOOLEAN, lastFired : Nat]

\* "no": down, or started, edited or restarted at or after the slot.
FoundAs == {"no", "idle", "busy"}

\* slot is what the fire was for.  "deferred" leaves the callback to a sweep
\* or the run to its owner; "failed" is CallbackDispatchError, whether the
\* callback arrived or not; "unrecorded" was accepted or deferred, and
\* set_last_fired raised.
Outcomes == {"posting", "accepted", "deferred", "failed", "crashed",
             "unconfigured", "unrecorded"}
Firing == [slot : Nat, outcome : Outcomes]

NoDefinition == [schedule |-> 0, push |-> FALSE, lastFired |-> 0]

Init ==
    /\ now = 0
    /\ schedule = 0 /\ push = FALSE /\ lastFired = 0
    /\ configured = FALSE
    /\ lock = "free"
    /\ phase = "down" /\ by = 0 /\ started = 0
    /\ snap = NoDefinition
    /\ found = "no" /\ since = 0
    /\ fires = <<>>
-----------------------------------------------------------------------------
\* croniter.get_prev: the latest slot strictly before t.
PrevSlot(period, t) == IF t = 0 THEN 0 ELSE ((t - 1) \div period) * period

\* Slip: the guard of _is_due against slots before startup is gone.
IsDue_Slip(row, t) ==
    /\ row.schedule # 0
    /\ PrevSlot(row.schedule, t) > row.lastFired

\* _is_due
IsDue(row, t) ==
    /\ row.schedule # 0
    /\ PrevSlot(row.schedule, t) > started
    /\ PrevSlot(row.schedule, t) > row.lastFired

FoundNow ==
    CASE phase = "down" \/ started = now -> "no"
      [] phase = "sleep" /\ started < now /\ lastFired < now -> "idle"
      [] OTHER -> "busy"

\* Time passes only as far as the thread's next deadline.
Clock ==
    /\ now < MaxTime
    /\ phase = "down" \/ now < by
    /\ now' = now + 1
    /\ IF schedule # 0 /\ PrevSlot(schedule, now + 1) = now
       THEN found' = FoundNow /\ since' = now
       ELSE UNCHANGED <<found, since>>
    /\ UNCHANGED <<schedule, push, configured, lastFired, lock, phase, by,
                   started, snap, fires>>

\* run_scheduler on a thread of a new process, with its own environment; the
\* first poll is at once.
Start ==
    /\ phase = "down"
    /\ phase' = "sleep" /\ by' = now /\ started' = now
    /\ configured' \in BOOLEAN
    /\ UNCHANGED <<now, schedule, push, lastFired, lock, snap, found, since, fires>>

\* list_scheduled's rows without a schedule are not in it.
Listing ==
    /\ phase = "sleep" /\ now = by
    /\ IF schedule = 0
       THEN by' = now + Poll /\ UNCHANGED <<phase, snap>>
       ELSE /\ phase' = "listed" /\ by' = now + ListDelay
            /\ snap' = [schedule |-> schedule, push |-> push, lastFired |-> lastFired]
    /\ UNCHANGED <<now, schedule, push, configured, lastFired, lock, found,
                   since, fires>>

\* Slip: started_at is taken anew for each poll.
ListScheduled_Slip == Listing /\ started' = now

\* list_scheduled, at the start of a poll.
ListScheduled == Listing /\ UNCHANGED started

Sleep == phase' = "sleep" /\ by' = now + Poll /\ snap' = NoDefinition

\* Not due, or begin_run raised RunInFlightError.
Skip ==
    /\ phase = "listed"
    /\ ~IsDue(snap, now) \/ lock # "free"
    /\ Sleep
    /\ UNCHANGED <<now, schedule, push, configured, lastFired, lock, started,
                   found, since, fires>>

\* list_scheduled, the turn of an earlier report or this one's begin_run
\* raised: _loop logs it and sleeps, and this report's turn is lost.
PollRaises ==
    /\ phase = "listed" \/ (phase = "sleep" /\ now = by)
    /\ Sleep
    /\ since' = now
    /\ UNCHANGED <<now, schedule, push, configured, lastFired, lock, started,
                   found, fires>>

Opens(o) == fires' = Append(fires, [slot |-> PrevSlot(snap.schedule, now),
                                    outcome |-> o])

\* begin_run opens a run, which the three actions below dispatch.
Begins ==
    /\ phase = "listed"
    /\ IsDue(snap, now) /\ lock = "free" /\ Len(fires) < MaxFires
    /\ UNCHANGED <<now, schedule, push, configured, started, found, since>>

\* _post_alert is awaited.
Post ==
    /\ Begins /\ snap.push /\ configured
    /\ Opens("posting")
    /\ lock' = "fire" /\ phase' = "posting" /\ by' = now + PostMax
    /\ UNCHANGED <<lastFired, snap>>

\* CallbackNotConfiguredError leaves _tick: the run stays open.
Unconfigured ==
    /\ Begins /\ snap.push /\ ~configured
    /\ Opens("unconfigured")
    /\ lock' = "other" /\ Sleep
    /\ UNCHANGED lastFired

\* Left to the background sweep or to the owner; set_last_fired may raise.
Defer ==
    /\ Begins /\ ~snap.push
    /\ \/ Opens("deferred") /\ lastFired' = now
       \/ Opens("unrecorded") /\ UNCHANGED lastFired
    /\ lock' = "other" /\ Sleep

Outcome(o) == fires' = [fires EXCEPT ![Len(fires)].outcome = o]

\* The callback has its answer: the thread goes back to sleep.
Answered(o) ==
    /\ phase = "posting"
    /\ Outcome(o)
    /\ Sleep
    /\ UNCHANGED <<now, schedule, push, configured, started, found, since>>

\* Slip: the next slot is recorded instead of the time.
Accepted_Slip ==
    /\ Answered("accepted")
    /\ lastFired' = PrevSlot(snap.schedule, now) + snap.schedule
    /\ lock' = IF lock = "fire" THEN "other" ELSE lock

\* The alert endpoint answered 2xx: set_last_fired, with the time of the answer.
Accepted ==
    /\ Answered("accepted")
    /\ lastFired' = now
    /\ lock' = IF lock = "fire" THEN "other" ELSE lock

\* The same answer, and set_last_fired raised.
Unrecorded ==
    /\ Answered("unrecorded")
    /\ lock' = IF lock = "fire" THEN "other" ELSE lock
    /\ UNCHANGED lastFired

\* CallbackDispatchError: fail_run, which may raise; last_fired_at stays.
Failed ==
    /\ Answered("failed")
    /\ IF lock = "fire" THEN lock' \in {"free", "other"} ELSE UNCHANGED lock
    /\ UNCHANGED lastFired

\* The process dies; the run it was dispatching keeps the lock.
Crash ==
    /\ phase # "down"
    /\ phase' = "down" /\ snap' = NoDefinition
    /\ IF phase = "posting" THEN Outcome("crashed") ELSE UNCHANGED fires
    /\ lock' = IF lock = "fire" THEN "other" ELSE lock
    /\ by' = 0 /\ started' = 0 /\ configured' = FALSE
    /\ found' = "no"
    /\ UNCHANGED <<now, schedule, push, lastFired, since>>

\* A gatherer saves, the TTL lapses, or the row is deleted.
RunEnds ==
    /\ lock # "free"
    /\ lock' = "free" /\ since' = now
    /\ UNCHANGED <<now, schedule, push, configured, lastFired, phase, by,
                   started, snap, found, fires>>

\* trigger_report opens a run; last_fired_at is the scheduler's alone.
Trigger ==
    /\ phase # "down" /\ lock = "free"
    /\ lock' = "other"
    /\ UNCHANGED <<now, schedule, push, configured, lastFired, phase, by,
                   started, snap, found, since, fires>>

\* upsert_definition: everything but last_fired_at.
Upsert(s, p) ==
    /\ phase # "down"
    /\ schedule' = s /\ push' = p
    /\ found' = IF s = schedule THEN found ELSE "no"
    /\ UNCHANGED <<now, configured, lastFired, lock, phase, by, started, snap,
                   since, fires>>

Next ==
    \/ Clock \/ Start \/ ListScheduled \/ Skip \/ PollRaises
    \/ Post \/ Unconfigured \/ Defer
    \/ Accepted \/ Unrecorded \/ Failed
    \/ Crash \/ RunEnds \/ Trigger
    \/ \E s \in Periods \cup {0}, p \in BOOLEAN : Upsert(s, p)

Spec == Init /\ [][Next]_vars
-----------------------------------------------------------------------------
TypeOK ==
    /\ now \in Nat /\ by \in Nat /\ since \in 0..now /\ found \in FoundAs
    /\ started \in 0..now /\ lastFired \in 0..now
    /\ schedule \in Periods \cup {0} /\ push \in BOOLEAN
    /\ configured \in BOOLEAN
    /\ lock \in Locks /\ phase \in Phases
    /\ phase # "down" => now <= by
    /\ snap \in Definition
    /\ fires \in Seq(Firing)

(* A slot whose callback was accepted and recorded, whose run was left to  *)
(* a sweep or to its owner and recorded, or whose dispatch a crash cut     *)
(* short is spent: whatever is edited, restarted or raised later, only a   *)
(* fire that left last_fired_at as it was (a dispatch reported as failed,  *)
(* an endpoint not configured, a set_last_fired that raised) lets the      *)
(* scheduler fire that slot, or an older one, again.                       *)
OnlyUnrecordedRefires ==
    \A i, j \in DOMAIN fires :
        i < j /\ fires[j].slot <= fires[i].slot
            => fires[i].outcome \in {"failed", "unconfigured", "unrecorded"}

(* A slot that elapsed with the scheduler up is fired as soon as it can be *)
(* once: the longest poll and callback after it, or after the last thing   *)
(* that stood in the way (a poll that raised, a run that held the lock),   *)
(* it has been.  Neither the startup guard nor the dedup by last_fired_at  *)
(* swallows it, and of all that may happen in between only one does: the   *)
(* fire of a poll that was under way as the slot elapsed, recorded after   *)
(* it.  Holds while that delay fits between two slots.                     *)
EverySlotFires ==
    LET slot == PrevSlot(schedule, now)
        delay == Poll + PostMax + 2 * ListDelay
    IN  found # "no" /\ lock = "free" /\ since + delay < now /\ Len(fires) < MaxFires
            => \/ \E i \in DOMAIN fires : fires[i].slot = slot
               \/ found = "busy" /\ lastFired >= slot

(* "Fires at most once per cron slot during a continuous run" (_is_due),   *)
(* even of the fires that nothing raised out of _tick.                     *)
AtMostOncePerSlot ==
    \A i, j \in DOMAIN fires :
        i < j /\ fires[i].slot = fires[j].slot
            => fires[i].outcome \in {"unconfigured", "unrecorded"}
=============================================================================
