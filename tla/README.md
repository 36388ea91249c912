# A TLA+ model of mcp-metsuke

mcp-metsuke is one Python process that keeps *report definitions* (a gather prompt, an owner, a
cron schedule, a source configuration) and *report outputs*, one row per **run** of a report, in
one SQLite file. It fires a run when a cron slot comes due or a caller asks for it, collects raw
records for it (the *sweep*) through the Trentina gateway when its definition says so, and POSTs a
*callback* that starts a gatherer, an agent outside the process. The gatherer writes its findings
back with `save_output`. This directory specifies and checks that machinery; paths below are
relative to `src/mcp_metsuke_crunchtools/` of the repository.

## 1. Inventory

| component | state it keeps | operations | where |
|---|---|---|---|
| run store | table `report_outputs`: status, `run_id`, `gathered_at`, payload, sweep columns; two partial unique indexes (one run per `run_id`, one `gathering` run per report, the **lock**) | `begin_run`, `complete_run`, `insert_output`, `fail_run`, `_expire_stale_runs`, `delete_output`, `prune_outputs`, `set_sweep`, readers | `database.py`, `tools/outputs.py` |
| definitions store | table `report_definitions`: schedule, owner, `last_fired_at` | `upsert_definition`, `list_scheduled`, `set_last_fired` | `database.py`, `tools/definitions.py` |
| SQLite connections | one connection for the server thread, one for the scheduler thread, WAL, `busy_timeout` | implicit transactions, commit, rollback | `database.py` |
| scheduler | `started_at`, the poll in progress | `_loop`, `_tick`, `_is_due`, `_post_alert` | `scheduler.py` |
| manual trigger | the tool call that awaits a POST | `trigger_report`, `trigger_now` | `tools/definitions.py` |
| background sweeps | tasks on each loop, a semaphore per loop | `sweep_and_dispatch`, `sweep_run` | `scheduler.py` |
| sweep engine, client | one gateway session, results per section | `run_sweep`, `TrentinaGateway` | `sweep/engine.py`, `sweep/client.py` |
| collectors, windows, parsers | none beyond a call | paging, dedup, budgets, reply state, rollups | `sweep/` |
| server, config, models, errors | configuration read once | tool declarations, start-up | `server.py`, `config.py`, ... |

How they interact: the server's event loop and the scheduler's event loop run in **two threads**
of the process. They share nothing but the database file, each over its own connection; the
statements of the two interleave freely. On each loop, several coroutines interleave at `await`s:
tool calls on one, the poll and the background sweeps on the other, and each fire may leave a
background sweep on the loop it was made on. Gatherers and owners are other processes that call
tools at any time, or never.

What is hard, and what would be right:

* **run store**: three-statement `begin_run` on two threads, a `save_output` that reads and then
  writes, retention that selects and then deletes, ids with one second of granularity and row ids
  that are reused. Right: one open run per report, runs that are over stay as they are, findings
  stored once, a save that frees the lock, one order of runs by time.
* **cron slots**: `last_fired_at` and the startup guard against slow and failing callbacks,
  refused writes, polls that raise, restarts and edits. Right: no slot fired twice that was recorded,
  none lost.
* **dispatch**: locks that lapse while a run waits, is swept or is being announced; failures at
  each stage, of a write too; tasks lost in a restart. Right: no open run that nobody works on, no run
  stuck in the queue, no lock held for ever. (That no callback goes out for a run that is over cannot be
  had: the run may end between the check and the POST. Its gatherer's save then changes nothing, see
  `Runs`.)
* **connections**: a statement that fails inside Python's implicit transaction. Right: nothing is
  left open, and a thread never works on an old snapshot.
* **sweep**: one step's failure must not reach another's; pages must be put together in order and
  without losses or duplicates; budgets cut where they say; a failed page is reported.
* **latest output**: the compiler reads the newest readable run while late saves, expiry and
  retention go on. Right: it is not sent back to an older one.
* **readers of a sweep**: sweeps of a run that lapsed and of its successor end in any order while
  `get_sweep` is called page by page. Right: the pages of a run make up what its steps found, the
  status sent with the callback is true, nobody is sent back to an older run.
* **Slack**: the conversation goes on between two pages; searches shift; threads are read oldest
  first and history newest first; calls fail, pages are capped and flagged. Right: nobody is said
  not to have answered who had, no ask gets lost without notice, flagged text stays out.
* **Gmail**: mail arrives between the pages of a search that lists the newest first, and between
  the search and the reading; a thread may come without an analysis; searches are capped. Right:
  nobody who waits for an answer is left out unnoticed, and every thread is counted once.
* **feeds and Jira**: windows that must reach back to the run before over weekends and whatever the
  hours; queries that fail or starve each other. Right: nothing falls between two runs unnoticed.
* **Nagios**: four answers of four moments merged into one record per check. Right: what is broken,
  paged or noisy is listed, and a record is true of one history.
* **record issues** (Ashigaru, releases): two caps on one list, versions with candidates, containers
  read or not. Right: what is listed and what is "more" add up, and a status is what was running.
* **calendar**: a horizon of days over a weekend, overlaps. Right: no invite reaches its day without
  having been in an earlier report, and a clash is marked on both sides.

## 2. Modules

| module | models | state and actions against the code |
|---|---|---|
| `RunLifecycle` | the abstract promise: a lock per report, taken in one step by a run that is born holding it, let go once | `holder[r]`, `births`; `Open`, `SaveDirect`, `Close` |
| `RunStore` | the table as a function from row ids to rows, and every statement run on it as an operator | `ExpireStaleRuns`, `IsMinted`, `BreaksUniqueIndex`, `CompleteRun`, `FailRun`, `BeyondNewest`, ... are the SQL of `database.py` |
| `Runs` | the run lifecycle as the two threads execute it, one committed statement per step | `pc[t]` is the statement a thread is at, `call[t]` its locals; `BeginRun`, `MintRunId`, `InsertRun`/`RefuseRun` are `begin_run`; `SaveByRunId`, `SaveWithoutRunId`, `Adopt`, `InsertDirect`/`RefuseDirect` are `save_output`; `PruneSelect`, `PruneDelete`, `DeleteOutput` retention |
| `Slots` | when the scheduler fires one definition | `ListScheduled`, `Skip`, `PollRaises`, `Post`, `Unconfigured`, `Defer`, `Accepted`, `Unrecorded`, `Failed` are one report's ways through `_tick`; `IsDue` is `_is_due`; `Upsert` edits the definition under it |
| `Dispatch` | what happens to a run between the fire and its gatherer, on both loops | `Trigger`; `Poll`, `Skip`, `Fire`, `PollRaises`; `SweepStart`, `SweepEnd`, `Recheck`, `SweepCrashed` (the second `run_is_open` and the POST are steps of their own); `PostAccepted`, `PostFailed`, `PostUnconfigured`; `MarkFired`, `Fail` or `Abandon` are `set_last_fired` and `fail_run`, which may raise; `Lapse` is the TTL, `Restart` a crash |
| `Connections` | transactions, snapshots and the write lock of the two connections | `Read`, `Write`, `Commit`, and the three ways a write fails: `BeginRunRefused`, `InsertOutputRefused`, `WriteLocked` |
| `Sweep` | the sweeps of one report and those who read them | `StepEnds` is one turn of `run_sweep`'s loop, `TimesOut` and `GatewayFails` the exceptions `sweep_run` catches, each with the `set_sweep` and the status of the callback (`Finish`); `SweepCrashes` a `set_sweep` that raises; `OpenSection`, `TurnPage`, `Leave` a caller of `get_sweep` |
| `SlackWaiting` | one run of the `slack_waiting` collector while people write and react | `SearchPage`, `ReadPage`, `ResolveNames` are one gateway call each, `SearchFails` and `ReadFails` the same call failing; `found` is the dictionary of `_add_match`, `reading` the locals of `_fetch_conversation`, `Verdict` the record |
| `Order` | sorting and filtering | `InOrder` is a `sorted` whose keys have no ties, `Selected` a filter that keeps the order |
| `Section` | what every collector writes into | `NoteError`, `BadJson`, `CountOk`, `AddRecords`, `StatusOf` are the methods of a section and the status it ends with |
| `Window` | `window.py` on a clock of hours | `PreviousWeekday`, `WindowStart`, `ReportDay` |
| `GmailWaiting` | one run of `gmail_waiting` while mail arrives | `SearchPage`, `SearchFails`, `ReadThread`, `ReadFails` are one gateway call each; `WithPage` is the dedup, `DropReason` is `_drop_reason` |
| `DailyQueries` | `feed_entries` and `jira_issues`, run after run | `Answered`, `Fails`, `Unparseable` are one query's ways to end; `After` is how far back it asks, `Taken` the common budget |
| `NagiosHealth` | one run of `nagios_health` while checks break, page and recover | `Problems`, `Notifications`, `Rollup`, `Downtimes` are its four calls, each with the merge it makes into `checks`; `RecordOrder` the final sort |
| `RecordIssue` | `ashigaru_issue` and `crunchtools_releases`, which read the same kind of issue | `Found` parses and caps it, `ListItems` and `Lotor` put the records together; `Parsed`, `Semver`, `DeployStatus`, `RepoRecord` are the functions behind |
| `CalendarDay` | one run of `calendar_day` | `Answered`, with `Answer`, `EventKind` and `Overlap` |
| `Collectors` | one step of a sweep: one of the seven collectors above, by name | the five modules by INSTANCE, with `section`, `phase` and the clocks shared |
| `MCRuns`, `MCSweep`, `MCSlackWaiting`, `MCCollectors` | symmetry and the values of constants for TLC | |
| `RunsProofs`, `SlotsProofs`, `DispatchProofs`, `ConnectionsProofs`, `SweepProofs`, `SlackProofs`, `CollectorsProofs` | the theorems | |
| `OrderTheorems` | the lemmas on sorting, least and greatest elements and prefixes the last two use | |

The modules divide the process by question. `Runs` looks inside the database calls and treats a
dispatch as "it ended well or badly"; `Dispatch` looks inside the dispatch and treats a database
call as one step. `RunLifecycle` is the joint: `Runs` implements it (checked and proved), and
`Dispatch` uses `begin_run` and the closing of a run the way it promises. `Slots` has time and one
definition, where `Dispatch` has several definitions and only "due". `Connections` asks what a
failed statement of `Runs` (its `RefuseRun` and `RefuseDirect`) leaves behind. `Sweep` opens what
`Dispatch` calls a run being swept, and `SlackWaiting` opens one step of `Sweep`: its `SectionStatus`
is what `Sweep` takes from a step as an outcome. `Collectors` does that for the other seven, and
its `FitsTheSweep` is what `Sweep` assumes of every outcome (`SweepAssumption`): a section with
records had a call that was answered, so that a step in state "error" has nothing to read.

Data is abstracted to what the properties tell apart. A payload is the number of the `save_output`
call that wrote it. A `run_id` is its report, second and suffix. A schedule is a period; croniter's
`get_prev` is the last multiple of it strictly before now. Columns that no property reads (window,
trigger, detail, gatherer_run_ref) are left out. Two histories make the properties sayable: `birth`
numbers the rows ever inserted (row ids are reused after a DELETE) and `fires` remembers what the
code handed out.

Definitions named `X_Slip` are wrong versions of `X`, each a mistake one could make in the code `X`
models (a dropped guard, a missing rollback). No specification uses them; put in X's place they show
that a property notices the mistake.

## 3. What is checked

### Runs that pass

* `runs` (`MCRuns.cfg`): one report, three rows, two saves, a TTL of one second, retention and
  restarts. `OneOpenRunPerReport` is the lock; `IdsFollowTime` says that the reuse of row ids never
  turns the order of runs round; `SaveLandsOnce` that findings land in one row, and in none when the
  call raised; `TerminalIsForever` that a late save, a late `fail_run` or an expiry never rewrites a
  run that is over; `SaveReleasesLock` that a save frees the lock of the run that was open when it
  began; `LatestMovesForward` that who reads the latest output, and reads again, is not given an
  older one while the first is there; `PruneHitsWhatItSelected` that a row id prune has still to delete
  goes on naming the run it selected, though the scheduler opens runs meanwhile and SQLite reuses ids:
  that holds because no other tool call runs between its statements; `LifecycleSpec` the refinement
  of `RunLifecycle`. One report is enough because every
  statement carries a report and no index spans two; three rows and two saves are what it takes for
  an expired run, its successor and a direct save to meet. Saves with status `gathering` are
  included: all the properties above hold with them. A lock that such a save leaves behind is not ruled
  out; it goes with its TTL or with the next save, which adopts the run.
* `slots` (`MCSlots.cfg`): periods 2 and 5, a poll every unit, up to one unit's wait for the turn
  and one for the callback, ten units, two fires, an endpoint configured or not.
  `OnlyUnrecordedRefires`: whatever is edited, restarted or raised, a slot, or an older one, is fired
  again only if its fire left `last_fired_at` as it was: a dispatch reported as failed, an endpoint not
  configured, a `set_last_fired` that raised. `EverySlotFires`: a slot that found the scheduler up has
  been fired when the longest poll and callback have passed after it, or after whatever stood in the
  way: a poll that raised before this report's turn (`since` moves on), or a run that held the lock.
  The one exception is said in the property: a fire of a poll under way as the slot elapsed is
  recorded with a later time, and swallows it. Period 5 leaves room between two
  slots for the delay (4) after which one is judged, and ten units suffice to judge the one at five;
  period 2 puts a poll with an older slot in its hands, or its callback in the air, as that one
  elapses.
* `dispatch` (`MCDispatch.cfg`): a swept, a plain and a pulled report, one sweep slot, three runs
  at once, one restart, callback configured or not; `begin_run`, `set_last_fired`, `set_sweep` and
  `fail_run` may raise. `AttendedIfConfigured`: an open run has work in progress, an accepted callback,
  or an owner to pull it; only a restart, or a `fail_run` the database refuses, leaves one to its TTL.
  One slot and three runs give a run being swept, one waiting behind it, and one more.
* `dispatch_live` (`MCDispatchLive.cfg`): one swept report with the same bounds.
  `QueuedRunGetsItsTurn` and `LockHeals` (the lock of a scheduled report is not held for ever by one
  run, though gatherers need never answer).
* `connections` (`MCConnections.cfg`): four commits. `QuietBetweenCalls`: unless `insert_output`
  raised, no connection keeps a transaction between its calls. `ServerSeesLatest`: tool calls work
  on the latest version even then.

* `sweep` (`MCSweep.cfg`): two runs, two steps, sections of up to two records read in pages of one or
  two. Two runs are what it takes for an older sweep to end last, two steps for one to be done when
  the other fails or the sweep times out, two records for a section to have a second page.
  `PagesMakeTheSection`: the pages a reader turned are the records of the section, once and in order.
  `ToldIsTrue`: the status sent with the callback is that of the document served under the run id,
  and "ready" and "error" mean what they say. `NeverBack`: who names the report only is not sent back
  to an older run between two pages. `EverySweepIsStored`: a sweep always ends, and with a document
  unless its run was deleted or `set_sweep` raised.
* `slack` (`MCSlack.cfg`): two conversations of any kind, three entries in the log of messages and
  reactions, two pages of one hit per search, two pages of one message per conversation, one
  conversation read. Three entries are an ask, what hides or answers it, and something newer, before,
  between and after the pages; pages of one hit are what it takes for a new hit to push an older one
  to the next page, or beyond the last one read. `WaitingIsOpen` and `AnsweredIsAnswered`: what the collector says of a
  conversation was true when its reading began. `NoAskLost`: an open ask that a search can find is
  reported, or the section says that it did not read everything (see `slack_no_ask` for the
  exception). `FlaggedIsWithheld`: no text of a flagged page is in a record. Assumed: messages are
  not deleted while the collector runs. A thread inside a DM counts as a thread, found by its
  mentions only.

* `collectors` (`MCCollectors.cfg`): each of the seven collectors by itself, over the inputs and
  failures below; a run ends, so there may be no next step (CHECK_DEADLOCK FALSE). About four
  million states; threads are symmetric.
  * Gmail: three threads, four messages, a search of up to three pages of one thread, two threads
    read: a thread can move up between two pages, be repeated by the next, and be cut off, and there
    is a message left to come while the threads are read. `NoMailLost`: a thread whose turn is the
    user's is a record, or the section says that a call for it failed or that there was more.
    `EachThreadOnce`: a thread found is a record, dropped, failed or cut, exactly one of them, and
    the numbers of the section say so.
  * feeds and Jira: two queries with a limit of two and a budget of two, three items, and runs at
    six moments from a Friday (before and after the hour windows start at) over the weekend to a
    Tuesday. `NothingFallsBetween`: what appeared between two runs is in the second, or its query is
    among the errors, reached its limit, or found the budget spent; provided that no weekday was
    left out and the first run was not before the window's hour (see below).
  * Nagios: two checks, four events, a roll-up of one row, `min_events` two: each check can be
    listed by any of the answers and missed by the others. `WhatQualifiesIsListed`: what was not OK
    all through the run, paged before it or was noisy enough is a record, or the call that would
    have said so failed, or the roll-up had more rows. `RecordsAreTrue`: a record has a reason to be
    there, its numbers are no more than happened, and its last page is one.
  * record issues: four lines, of two repositories and three versions one of which is a candidate,
    two parts; three items parsed, two listed; up to two containers. Three items are what the
    collector's cap needs, and one line more for a heading. `PartsAddUp`: listed and "more" are what
    the issue has and says there is more of. `DeployStatusIsTrue`: per repository one record, with
    its newest version, the number of its releases, and the status the containers justify.
  * calendar: up to three events of Thursday to Tuesday, timed, overnight and of whole days, runs at
    the same six moments, three days of lookahead, three results. `DayIsComplete`: the events of the
    report day that were not declined are there, and so is an invite to answer for the next weekday.
    `ClashesAreMutual`: two meetings share an hour if and only if each names the other.
  * `FitsTheSweep` is about all of them, as said above.

**Fairness.** In `Sweep`, weak fairness of each sweep: the loop it runs on goes on, and `wait_for`
bounds it (a restart, which loses sweeps, is `Dispatch`'s concern). In `Dispatch`,
weak fairness of the poll, of a waiting sweep and of the end of sweeps and POSTs, because the two loops run for ever and both awaits have a timeout
(`sweep_timeout_seconds`, `_HTTP_TIMEOUT`); strong fairness of each report's turn in the poll, which
says that polls may raise but not every one of them before that report's turn, hence that the
scheduler can write (`connections_wedged` is the case where it cannot, and there locks stay); weak
fairness of a run growing older than the TTL; strong fairness of the next cron slot, because slots
keep coming and it is only the model's bound on runs that can put one off. Nothing is assumed of gatherers, owners and callers, and a
restart is never forced.

### Disagreements between the code and its documentation

Each is a run whose one property states what the repository says, and which TLC refutes.

* `slots_once`: a failed dispatch leaves `last_fired_at` unset and the slot fires again at every
  poll, against "at most once per cron slot" and "no retry" (spec 001). An endpoint that is not
  configured and a refused `set_last_fired` do the same; the run sets them aside, to show that no
  such fault is needed.
* `dispatch_orphan`: `_tick` does not catch `CallbackNotConfiguredError`. A scheduler that runs for
  pull owners opens a run for a push report, abandons it and ends the poll.
* `connections_wedged`: `insert_output` does not roll back; the scheduler's next write fails as
  locked and leaves a transaction of its own, whose snapshot the next poll's SELECT pins. After the
  server's next commit the scheduler can never write again. (It escapes if the server commits before
  that SELECT.)
* `slack_no_ask`: history is read newest first and only the latest search hit is remembered. A DM
  with more messages than the pages read, or with a page that failed, is dropped as holding no ask
  when that hit is read and asks nothing, though an older hit was the ask. (The run's specification
  has no threads; those are read oldest first and can lose an ask newer than the hit.)

Smaller ones were met while modelling and are not kept as runs: a schedule set after today's slot
fires that slot at the next poll, while the answer to the upsert announced the next one;
`save_output(status="gathering")` gives a run a finish time and leaves it open; a run deleted in the
second it was opened hands its `run_id` to the next; and queued sweeps can outnumber swept
definitions (the comment in `sweep_and_dispatch`), because a run that is saved, deleted or outlived
in the queue frees its lock and keeps its place. In the sweep, its collectors and retention:

* `set_sweep` is outside every `try` of `sweep_run`, which `scheduler.py:163` says "never raises": when
  the database refuses it, what was collected is gone, without a document or a callback, and
  `sweep_and_dispatch` fails the run, if it can (`SweepCrashes`; `EverySweepIsStored` says so);
* a sweep that times out throws the finished sections away with the one that was slow, where
  `sweep/collectors.py:6` says that "one bad backend can never take out the rest of a sweep";
* Nagios' `last_page` is overwritten row by row while the tool lists the newest first: a check that
  paged twice shows its oldest page (`Paged` has it as the code does);
* a run before `window_hour`, or a weekday without one, leaves a gap that no later Jira window
  covers; feeds, which also look back whole days, have it when the next run is later in the day;
* the budgets of feeds and Jira and the calendar's cap on results are not reported: Jira queries
  that spend the budget starve the ones after them without a word;
* an event of several days that began before the report day is dropped, and a meeting on a weekend
  is in no report;
* `MAX_ASHIGARU_RECORDS` is applied before the releases of a repository are compared, so its newest
  may be cut; what the parser's own cap drops is not in "more"; two candidates of one version
  compare equal; a repository whose containers carry no version counts as "not-deployed";
* `prune_outputs` counts failed runs among the newest it keeps, and so may delete the only one that
  can be read.

## 4. What is proved

For every value of the constants (`LockTTL` a positive number, `SaveStatuses` statuses, `NoCall` no
call, `Nobody` no connection, times and sizes positive, a collector that has records had a call that
succeeded: the named assumptions), checked by TLAPS.

`RunsProofs`, of `Runs`: `TypeCorrect`, `LockIsExclusive`, `IdOrderIsTimeOrder`, `FinishedRunsStay`,
`LatestIsMonotone`, `PruneSparesNewRuns` and `RunsImplementLifecycle`. The argument: whatever action it is, a step is either
an *insert step* (one new row that breaks no index, under the next id, at the present second) or a
*release step*
(rows disappear, or keep their identity and never become `gathering` again); this is lemma
`StepShape`, one case per action. The inductive invariant adds to the properties that `run_id`s are
unique and that every row is dated at or before the present and numbered at or below `births`;
without these, a new row could be older than an existing one or two rows could answer to one
`complete_run`. The refinement maps `holder[r]` to the number of the row that is `gathering`: an
insert step is `Open` or `SaveDirect`, a release step `Close` or a stutter, and at most one lock
changes because a statement names one report or one run.

Its second half: `SavesLandOnce` and `SavesFreeTheLock`. The two properties
speak of a `save_output` call over its several statements, so the invariant (`SaveInv`, on top of the
one above) says what holds between them: the findings of a save in progress are in no row and it has
not raised; and of its report no run is in flight that is older than the call, save the one it is
about to adopt. The scheduler may open a run meanwhile, but only a newer one.
`PruneSparesNewRuns` needs that the rows still to be deleted are there, and that there are none unless
prune is at work (`Doomed`): a fresh row gets an id above every row, so above those too.

`SlotsProofs`, of `Slots`: `TypeCorrect`, `SlotsAreSpent` and `SlotsAreFired`. For the second: each fire
has left a mark at or past its slot, unless its outcome is one of the three that leave none:
`last_fired_at` if it was recorded, the startup guard if a crash took it; both marks only grow; and
the snapshot a poll works on still has the `last_fired_at` of the table, since only the scheduler
writes it. For the third, the invariant (`SlotInv`) follows the scheduler from the moment a slot
elapses, or a poll raises, or the lock comes free (`since`): until the slot is fired or swallowed,
both marks are older, and the thread sleeps, holds a list of definitions or waits for a callback with
a deadline that leaves time for the next poll (`SlotWaits`); a poll that raises starts the count anew.
`Deadlines` says how far each phase's deadline lies ahead.

`OrderTheorems`, of sequences and finite sets: a finite set of numbers has a least and a greatest
element; a finite set in a strict total order can be sorted, and what `InOrder` picks holds every
element once and in order. The provers cannot instantiate the library's induction theorems, so
these are proved from a smallest counterexample instead: a set is replaced by the sets of elements
above each of its members, and a smallest of those is picked.

`SlackProofs`, of `SlackWaiting`: `SlackTypeOK`, `WaitingTheorem`, `AnsweredTheorem`,
`WithheldTheorem` and `NoAskLostTheorem`, for any workspace, page sizes and caps. What the
collector says of a conversation is said of the moment its reading began, so the invariant follows
that reading page by page: `ReadingInv` says which part of the conversation the pages read so far
cover (threads from the oldest on, history from the newest back) and that nothing in it is missing
from what was collected; `VerdictInv` what each verdict promised of the log as it was then, which
later entries do not change. For `NoAskLost` it also needs that nothing is lost before the reading:
`SearchInv` says that a search that goes well has found every hit that was on its pages when the
run began, because new hits only push the older ones to later pages; `FoundFits`, that a
conversation's entry spans the hits it stands for; `KeptInv`, that what was found and not cut has a
verdict or is still to be read.

`CollectorsProofs`, of `Collectors`, the longest:

* `CollectorsFitTheSweep` discharges for seven collectors what `SweepProofs` assumes of a step's
  outcome: no collector adds a record before a call has been counted, and a run that ends
  unanswered has noted an error.
* Gmail: `NoMailTheorem` and `EachThreadTheorem`. A thread where a reply is owed has had no mail
  since the run began, so that it only moves down the listing: `GmailSearched` says that the pages
  read so far hold every such thread that has less above it than they have room for. `GmailRead`
  says that each thread read is reported, failed or not owed (what was dropped stays dropped: mail
  that arrives later makes a thread not owed), `GmailCounts` that records, failures and drops add
  up to the threads read.
* feeds and Jira: `WindowsMeet`, the arithmetic for every day, hour and window length: a
  window starts at the last weekday, so a run before it that left no weekday out and was not ahead
  of the hour is inside; a whole number of days bridges a weekend if it is at least three.
  `NothingFallsTheorem` follows from it and from `DailyFact`: what a query asked already covers is
  among the records, unless the query failed, reached its limit or found the budget spent.
* Nagios: `RecordsTheorem` and `QualifiesTheorem`. `RecordFits` says of a record, after any of
  the four answers, that it is there for a reason and says no more than has happened; `OpenIsThere`,
  `PagedIsThere` and `NoisyIsThere` what each answer that came has put there. History only grows,
  so that both survive whatever happens between two calls.
* Ashigaru's issues: `PartsTheorem` and `DeployTheorem`. `Parsed` is a recursive function of the number
  of lines read. The prover has no induction over data, so that such a function exists, and what it
  makes of any issue, are both had from a least counterexample among the numbers `0..Len(body)`
  (`ParseIsThere`, `ParseFitsAll`): after n lines, a part is there for each heading read, holds the
  items under it, and has the tail under it (`ParseFits`; it needs that Ashigaru writes a heading
  once, `BodyFits`). `IssueInv` says that `parts` and `listing` are what the cap makes of that
  parse, and the records what the parts make of them, from the answer to the end of the run; the
  two properties follow from the functions alone (`CappedIs`, `ListedFirst`, `RepoRecordIs`,
  `DeployStatusIs`). `DeployStatusIsTrue` compares versions as versions, the code as numbers:
  `OlderIs` says that they agree.
* calendar: `ClashesTheorem` and `DayTheorem`. All is decided by one answer; the proof is about the
  functions: `AnswerIs` (the answer holds all that was asked for if it had room), `EventKindIs`,
  `KeptEventsAre`, `RecordsClash`.
* all of them: `CollectorsTypeTheorem`. The type invariant of a component is part of its invariant
  above; here they are put together, with what the others leave alone.

`ConnectionsProofs`, of `Connections`: `TypeCorrect`, `CallsLeaveNothing`, `ServerStaysCurrent` and
`WedgedIsForGood`. The invariant
says that a connection without a transaction pins nothing, that the server's transactions always
hold the write lock and that the scheduler holds it only between a write and its commit. From the
last two, nobody can commit behind the server's back. A scheduler that was left behind (what
`connections_wedged` reaches) stays so: it may not write, so neither a commit nor the rollback of a
refused `begin_run` ends its transaction, and versions only grow.

`DispatchProofs`, of `Dispatch`: `TypeCorrect` and `FiresAreAttended`, for any reports and bounds. The
invariant is `AttendedIfConfigured` and the shape of `runs`; it is inductive because a step changes
one run (`Update`), all of them alike (`Restart`) or adds one (`Begin`), so that each action need only
show its one record `Proper`: attended if open. `TypeCorrect` says among others that a loop's queue
holds exactly the runs that wait there; its invariant (`QueueInv`) adds that it holds each of them
once, so that the run that gets a slot is not in the queue any more.

`SweepProofs`, of `Sweep`: `TypeCorrect`, `StatusIsTrue`, `PagesAreComplete` and `ReadersGoForward`.
A step changes one run, adds one, or moves the reader. `Becomes` says what a run may turn into: its
document is written once, while its row is there, and goes only with the row; so what a reader has
in hand stays right. The invariant adds that a section in state "error" holds no records, that a run
being swept has no document yet, and that the pages in hand are the first `page * size` records; the
page count covers the section, so that the last page completes it.

Model-checked only: the liveness properties (`QueuedRunGetsItsTurn` and `LockHeals` of `Dispatch`,
`EverySweepIsStored` of `Sweep`), which are beyond the prover. Every invariant and every action
property of the passing runs is a theorem.

## 5. Not modelled

How the parsers get their facts out of text (regular expressions, HTML, quoting), beyond what they
decide on them; options that only choose what a record shows, and the withholding of flagged text in
the collectors that make one record of one answer; the gateway session and the check of its URL;
`get_output` by date or id and `list_outputs`, single SELECTs; in Slack, the cap on name lookups and
the one second of margin in `oldest`; wording, logging and JSON; MCP transport, start-up and
configuration parsing, which keep no state the models need beyond their constants. SQLite and Python's `sqlite3`
are external: `Connections` models as much of them as `database.py` relies on. croniter's calendar,
Slack and the gateway are external too.

## 6. Plan

Done: the run store and its lifecycle, cron slots, dispatch, connections, the sweep and its readers,
the collectors; proofs of the safety properties of all of them, and that a wedged
scheduler stays wedged. Left:

1. `Slots` composed with `Dispatch`, so that the lock in `Slots` is the run's own.
