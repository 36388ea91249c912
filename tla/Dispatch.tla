------------------------------ MODULE Dispatch ------------------------------
(***************************************************************************)
(* How a run travels from a fire to its gatherer on the two event loops of *)
(* the process: the server's, where trigger_report runs, and the           *)
(* scheduler's, where _tick goes through the definitions.  A run is swept  *)
(* in the background first if its definition has a sweep, then its callback*)
(* is posted unless its owner pulls.  A step is what a loop does between   *)
(* two awaits, and less where what the other thread writes meanwhile makes *)
(* a difference.  Runs counts the statements inside begin_run; here it is  *)
(* one step, as RunLifecycle allows.  A write of the scheduler's or of a   *)
(* task's may be refused ("database is locked").                           *)
(***************************************************************************)
EXTENDS Naturals, Sequences, FiniteSets, Functions

CONSTANTS
    Reports,    \* definitions
    Swept,      \* those whose source_config has a sweep
    Pull,       \* those owned by one of METSUKE_PULL_OWNERS
    Scheduled,  \* those with a cron schedule
    Callbacks,  \* may TRENTINA_ALERT_URL and METSUKE_ALERT_TOKEN be set?  unset?
    SweepSlots, \* MAX_CONCURRENT_SWEEPS
    MaxRuns,    \* bound on the runs open or in work at once
    MaxCrashes  \* bound on restarts

ASSUME DispatchAssumption ==
    /\ Swept \subseteq Reports /\ Pull \subseteq Reports /\ Scheduled \subseteq Reports
    /\ Callbacks \subseteq BOOLEAN
    /\ SweepSlots \in Nat \ {0} /\ MaxRuns \in Nat

VARIABLES
    configured, \* callback_configured, fixed when the process starts
    runs,    \* the runs that hold a lock or have work left, by a number
    queue,   \* per loop, the runs waiting for a sweep slot
    due,     \* the scheduled reports with an unfired slot
    todo,    \* what is left of the scheduler's current poll
    crashes  \* restarts so far

vars == <<configured, runs, queue, due, todo, crashes>>

Loops == {"server", "scheduler"}
Ids == 1..MaxRuns

\* What the process still has to do for a run: "done" is nothing.
Stages == {"queued", "sweeping", "swept", "posting", "done"}

\* open is status = 'gathering', stale an age past the lock TTL, swept a sweep
\* column that is set, told a callback that was accepted.  cut is a history
\* field: was the work on this run interrupted by a restart, or was a fail_run
\* of it refused?
Run == [report : Reports, loop : Loops, stage : Stages, open : BOOLEAN,
        stale : BOOLEAN, swept : BOOLEAN, told : BOOLEAN, cut : BOOLEAN]

Init ==
    /\ configured \in Callbacks
    /\ runs = [n \in {} |-> {}]
    /\ queue = [l \in Loops |-> <<>>]
    /\ due = {} /\ todo = {}
    /\ crashes = 0

\* A run that is over and needs no more work is of no further interest.
Tidy(f) == Restrict(f, {n \in DOMAIN f : f[n].open \/ f[n].stage # "done"})

Update(n, run) == runs' = Tidy([runs EXCEPT ![n] = run])

\* fail_run
Fail(n) == Update(n, [runs[n] EXCEPT !.stage = "done", !.open = FALSE])

\* fail_run raised: the run stays as it is.
Abandon(n) == Update(n, [runs[n] EXCEPT !.stage = "done", !.cut = TRUE])

In(l, stage) == {n \in DOMAIN runs : runs[n].loop = l /\ runs[n].stage = stage}
-----------------------------------------------------------------------------
(* begin_run and what follows it at once.                                  *)

Held(r) == {n \in DOMAIN runs : runs[n].report = r /\ runs[n].open}

\* Slip: begin_run without _expire_stale_runs.
Locked_Slip(r) == Held(r) # {}

\* RunInFlightError: a run that outlived the TTL is expired and does not count.
Locked(r) == \E n \in Held(r) : ~runs[n].stale

\* Slip: dispatch_after_sweep starts the task and answers False.
NewRun_Slip(r, l) ==
    [report |-> r, loop |-> l, stage |-> IF r \in Pull THEN "done" ELSE "posting",
     open |-> TRUE, stale |-> FALSE, swept |-> FALSE, told |-> FALSE, cut |-> FALSE]

NewRun(r, l) ==
    [report |-> r, loop |-> l,
     stage |-> IF r \in Swept THEN "queued"
               ELSE IF r \in Pull THEN "done" ELSE "posting",
     open |-> TRUE, stale |-> FALSE, swept |-> FALSE, told |-> FALSE, cut |-> FALSE]

\* begin_run, dispatch_after_sweep and the choice between pull and callback.
Begin(r, l) ==
    LET expired == Tidy([n \in DOMAIN runs |-> IF n \in Held(r)
                                               THEN [runs[n] EXCEPT !.open = FALSE]
                                               ELSE runs[n]])
    IN  \E id \in Ids \ DOMAIN runs :
          /\ \A n \in Ids : n < id => n \in DOMAIN runs
          /\ runs' = [n \in DOMAIN expired \cup {id} |->
                         IF n = id THEN NewRun(r, l) ELSE expired[n]]
          /\ queue' = IF r \in Swept THEN [queue EXCEPT ![l] = Append(@, id)] ELSE queue

\* Room for one more run, besides those of the reports that are due.
Roomy == Cardinality(DOMAIN runs) + Cardinality(due) < MaxRuns

\* trigger_report
Trigger(r) ==
    /\ configured \/ r \in Pull
    /\ ~Locked(r)
    /\ Roomy
    /\ Begin(r, "server")
    /\ UNCHANGED <<due, todo, crashes, configured>>
-----------------------------------------------------------------------------
(* The scheduler's poll.                                                   *)

\* A cron slot passes.
Elapse(r) ==
    /\ r \notin due
    /\ Roomy
    /\ due' = due \cup {r}
    /\ UNCHANGED <<runs, queue, todo, crashes, configured>>

\* The callback _tick awaits itself.
TickPosts == {n \in In("scheduler", "posting") : runs[n].report \notin Swept}

Poll ==
    /\ todo = {} /\ TickPosts = {}
    /\ todo' = Scheduled
    /\ UNCHANGED <<runs, queue, due, crashes, configured>>

Skip(r) ==
    /\ r \in todo /\ TickPosts = {}
    /\ r \notin due \/ Locked(r)
    /\ todo' = todo \ {r}
    /\ UNCHANGED <<runs, queue, due, crashes, configured>>

\* begin_run raised, or the turn of a definition without a fire of its own:
\* the poll is over for every report that is left.
PollRaises ==
    /\ todo # {} /\ TickPosts = {}
    /\ todo' = {}
    /\ UNCHANGED <<runs, queue, due, crashes, configured>>

\* set_last_fired; if it raises, the poll is over and the slot still due.
MarkFired(r, left) ==
    \/ due' = due \ {r} /\ todo' = left
    \/ due' = due /\ todo' = {}

\* A swept or pulled report counts as fired at once, the others when the
\* callback was accepted.
Fire(r) ==
    /\ r \in todo /\ TickPosts = {}
    /\ r \in due /\ ~Locked(r)
    /\ Begin(r, "scheduler")
    /\ IF r \in Swept \cup Pull
       THEN MarkFired(r, todo \ {r})
       ELSE todo' = todo \ {r} /\ UNCHANGED due
    /\ UNCHANGED <<crashes, configured>>
-----------------------------------------------------------------------------
(* sweep_and_dispatch, a task of the loop that fired the run.              *)

\* Slip: an expired run goes back into the queue.
SweepStart_Slip(l) ==
    /\ queue[l] # <<>>
    /\ Cardinality(In(l, "sweeping")) < SweepSlots
    /\ LET n == Head(queue[l])
       IN  IF runs[n].open
           THEN /\ runs' = [runs EXCEPT ![n].stage = "sweeping"]
                /\ queue' = [queue EXCEPT ![l] = Tail(@)]
           ELSE queue' = [queue EXCEPT ![l] = Append(Tail(@), n)] /\ UNCHANGED runs
    /\ UNCHANGED <<due, todo, crashes, configured>>

\* A free slot goes to the task that waits longest; an expired run is dropped.
SweepStart(l) ==
    /\ queue[l] # <<>>
    /\ Cardinality(In(l, "sweeping")) < SweepSlots
    /\ LET n == Head(queue[l])
       IN  Update(n, [runs[n] EXCEPT !.stage = IF runs[n].open THEN "sweeping" ELSE "done"])
    /\ queue' = [queue EXCEPT ![l] = Tail(@)]
    /\ UNCHANGED <<due, todo, crashes, configured>>

\* set_sweep, whatever became of the run; a pulled one is left to its owner.
SweepEnd(n) ==
    /\ runs[n].stage = "sweeping"
    /\ Update(n, [runs[n] EXCEPT
           !.swept = TRUE,
           !.stage = IF runs[n].report \in Pull THEN "done" ELSE "swept"])
    /\ UNCHANGED <<queue, due, todo, crashes, configured>>

\* run_is_open, once more; then the callback, whatever becomes of the run
\* before it is sent.
Recheck(n) ==
    /\ runs[n].stage = "swept"
    /\ Update(n, [runs[n] EXCEPT !.stage = IF runs[n].open THEN "posting" ELSE "done"])
    /\ UNCHANGED <<queue, due, todo, crashes, configured>>

\* set_sweep or run_is_open raised: "sweep/dispatch crashed", fail_run.
SweepCrashed(n) ==
    /\ runs[n].stage \in {"sweeping", "swept"}
    /\ Fail(n) \/ Abandon(n)
    /\ UNCHANGED <<queue, due, todo, crashes, configured>>
-----------------------------------------------------------------------------
(* The callback: _post_alert, for _tick, trigger_report or a task.         *)

PostAccepted(n) ==
    /\ configured
    /\ runs[n].stage = "posting"
    /\ Update(n, [runs[n] EXCEPT !.stage = "done", !.told = TRUE])
    /\ IF n \in TickPosts THEN MarkFired(runs[n].report, todo) ELSE UNCHANGED <<due, todo>>
    /\ UNCHANGED <<queue, crashes, configured>>

\* Slip: the failure is logged and the run left as it is.
PostFailed_Slip(n) ==
    /\ configured
    /\ runs[n].stage = "posting"
    /\ Update(n, [runs[n] EXCEPT !.stage = "done"])
    /\ UNCHANGED <<queue, due, todo, crashes, configured>>

\* CallbackDispatchError: fail_run, which ends the poll if it raises.
PostFailed(n) ==
    /\ configured
    /\ runs[n].stage = "posting"
    /\ \/ Fail(n) /\ UNCHANGED todo
       \/ Abandon(n) /\ todo' = IF n \in TickPosts THEN {} ELSE todo
    /\ UNCHANGED <<queue, due, crashes, configured>>

\* CallbackNotConfiguredError: a task fails its run; _tick does not catch it,
\* so the poll ends there.
PostUnconfigured(n) ==
    /\ ~configured
    /\ runs[n].stage = "posting"
    /\ IF n \in TickPosts
       THEN Update(n, [runs[n] EXCEPT !.stage = "done"]) /\ todo' = {}
       ELSE (Fail(n) \/ Abandon(n)) /\ UNCHANGED todo
    /\ UNCHANGED <<queue, due, crashes, configured>>
-----------------------------------------------------------------------------
\* save_output or delete_output, by a gatherer, an owner or anybody else.
Close(n) ==
    /\ runs[n].open
    /\ Update(n, [runs[n] EXCEPT !.open = FALSE])
    /\ UNCHANGED <<queue, due, todo, crashes, configured>>

\* The run outlives METSUKE_RUN_LOCK_TTL_SECONDS.
Lapse(n) ==
    /\ runs[n].open /\ ~runs[n].stale
    /\ Update(n, [runs[n] EXCEPT !.stale = TRUE])
    /\ UNCHANGED <<queue, due, todo, crashes, configured>>

\* Tasks and the poll are gone, and slots that passed before the restart are
\* never fired.
Restart ==
    /\ crashes < MaxCrashes
    /\ crashes' = crashes + 1
    /\ runs' = Tidy([n \in DOMAIN runs |->
                        [runs[n] EXCEPT !.stage = "done",
                                        !.cut = @ \/ runs[n].stage # "done"]])
    /\ queue' = [l \in Loops |-> <<>>]
    /\ due' = {} /\ todo' = {}
    /\ UNCHANGED configured

Next ==
    \/ \E r \in Reports : Trigger(r)
    \/ \E r \in Scheduled : Elapse(r) \/ Skip(r) \/ Fire(r)
    \/ Poll \/ PollRaises
    \/ \E l \in Loops : SweepStart(l)
    \/ \E n \in DOMAIN runs :
          \/ SweepEnd(n) \/ Recheck(n) \/ SweepCrashed(n)
          \/ PostAccepted(n) \/ PostFailed(n) \/ PostUnconfigured(n)
          \/ Close(n) \/ Lapse(n)
    \/ Restart

Posted(n) == PostAccepted(n) \/ PostFailed(n) \/ PostUnconfigured(n)

\* Both loops run: a poll goes on, waiting tasks are served, and sweeps and
\* POSTs end because both have a timeout.  Polls may raise, but not every one
\* before the turn of the same report.  Time passes: a TTL lapses, and cron
\* slots keep coming although the bound on runs may delay one.  No gatherer
\* ever has to answer, and nobody has to trigger a report.
Fairness ==
    /\ WF_vars(Poll)
    /\ \A r \in Scheduled : SF_vars(Skip(r) \/ Fire(r)) /\ SF_vars(Elapse(r))
    /\ \A l \in Loops : WF_vars(SweepStart(l))
    /\ \A n \in Ids :
          /\ WF_vars(n \in DOMAIN runs /\ (SweepEnd(n) \/ Recheck(n) \/ SweepCrashed(n)))
          /\ WF_vars(n \in DOMAIN runs /\ Posted(n))
          /\ WF_vars(n \in DOMAIN runs /\ Lapse(n))

Spec == Init /\ [][Next]_vars

FairSpec == Spec /\ Fairness
-----------------------------------------------------------------------------
TypeOK ==
    /\ configured \in BOOLEAN
    /\ DOMAIN runs \subseteq Ids /\ runs \in [DOMAIN runs -> Run]
    /\ queue \in [Loops -> Seq(DOMAIN runs)]
    /\ \A l \in Loops : {queue[l][i] : i \in DOMAIN queue[l]} = In(l, "queued")
    /\ due \subseteq Scheduled /\ todo \subseteq Scheduled
    /\ crashes \in Nat

Queued(n) == n \in DOMAIN runs /\ runs[n].stage = "queued"

Attended(run) ==
    \/ run.stage # "done"
    \/ run.told
    \/ run.report \in Pull /\ (run.report \in Swept => run.swept)
    \/ run.cut

(* No fire is forgotten: an open run has work in progress, an accepted     *)
(* callback, or an owner who finds it swept as its definition says; only a *)
(* restart or a database that refuses fail_run leaves one to its TTL.      *)
OpenRunIsAttended == \A n \in DOMAIN runs : runs[n].open => Attended(runs[n])

(* The same, for a process that can post callbacks at all.                 *)
AttendedIfConfigured == configured => OpenRunIsAttended

(* Sweep slots are handed on whatever happens to the run that had one: a   *)
(* queued run gets its turn.                                               *)
QueuedRunGetsItsTurn == \A n \in Ids : Queued(n) ~> ~Queued(n)

(* "This self-heals a dead gatherer" (spec 002): the lock of a scheduled   *)
(* report is not held for ever by one run, even if no gatherer answers.    *)
LockHeals ==
    \A n \in Ids, r \in Scheduled :
        (n \in DOMAIN runs /\ n \in Held(r)) ~> ~(n \in DOMAIN runs /\ n \in Held(r))
=============================================================================
