-------------------------------- MODULE Runs --------------------------------
(***************************************************************************)
(* The run lifecycle as two threads execute it on one SQLite file.  The    *)
(* server thread runs the tools: their database calls are synchronous, so  *)
(* one tool call is in progress at a time.  The scheduler thread opens and *)
(* fails runs on a connection of its own.  Between two statements of one   *)
(* thread the other may run: the unit of a step is the committed statement *)
(* (one UPDATE, one INSERT, one SELECT), not the tool call.                *)
(***************************************************************************)
EXTENDS RunStore

CONSTANTS
    SaveStatuses,  \* the statuses callers pass to save_output
    MaxTime,       \* bound on the clock
    MaxRows,       \* bound on row ids
    MaxBirths,     \* bound on rows ever inserted
    MaxSaves,      \* bound on save_output calls
    MaxKeep,       \* bound on prune_outputs' keep_last
    NoCall         \* no call in progress

ASSUME SaveStatusesAssumption == SaveStatuses \subseteq Statuses

Threads == {"server", "scheduler"}

\* What a thread does next.  "mint" and "insert" are begin_run past its expiry
\* statement; the rest belong to save_output and prune_outputs.
Steps == {"idle", "mint", "insert", "adopt", "mintDirect", "insertDirect", "prune"}

\* Locals of the call in progress.  since is a history field of save_output: the
\* births there were when the call began.
Call == [report : Reports, run_id : RunIds, status : Statuses,
         payload : Nat, since : Nat]

\* A run begin_run returned to a caller: poster is the thread that still waits
\* for its callback (or the sweep before it) to end, "nobody" once it has.
Fire == [poster : Threads \cup {"nobody"}, run_id : RunIds, birth : Nat]

ASSUME NoCallAssumption == NoCall \notin Call

VARIABLES
    rows,     \* report_outputs
    now,      \* the clock, in seconds
    pc, call, \* per thread
    doomed,   \* ids prune_outputs selected and has still to delete
    fires,    \* the runs begin_run returned to a caller
    births,   \* history: rows ever inserted
    saves,    \* history: save_output calls ever made
    refused   \* history: the save_output calls that raised

vars == <<rows, now, pc, call, doomed, fires, births, saves, refused>>

Init ==
    /\ rows = [i \in {} |-> NoCall]
    /\ now = 0
    /\ pc = [t \in Threads |-> "idle"]
    /\ call = [t \in Threads |-> NoCall]
    /\ doomed = {}
    /\ fires = {}
    /\ births = 0
    /\ saves = 0
    /\ refused = {}

Goto(t, step, c) ==
    /\ pc' = [pc EXCEPT ![t] = step]
    /\ call' = [call EXCEPT ![t] = c]

Return(t) == Goto(t, "idle", NoCall)

\* The clock may move between any two statements.
Clock ==
    /\ now < MaxTime
    /\ now' = now + 1
    /\ UNCHANGED <<rows, pc, call, doomed, fires, births, saves, refused>>
-----------------------------------------------------------------------------
(* begin_run: expire and commit, mint an id, insert and commit.            *)

BeginRun(t, r) ==
    /\ pc[t] = "idle"
    /\ births < MaxBirths
    /\ rows' = ExpireStaleRuns(rows, r, now)
    /\ Goto(t, "mint", [report |-> r, run_id |-> NoRunId(r), status |-> "gathering",
                        payload |-> 0, since |-> 0])
    /\ UNCHANGED <<now, doomed, fires, births, saves, refused>>

MintRunId(t) ==
    /\ pc[t] \in {"mint", "mintDirect"}
    /\ \E s \in 1..(MaxBirths + 1) :
          LET id == [report |-> call[t].report, at |-> now, suffix |-> s]
          IN  /\ IsMinted(rows, id)
              /\ Goto(t, IF pc[t] = "mint" THEN "insert" ELSE "insertDirect",
                      [call[t] EXCEPT !.run_id = id])
    /\ UNCHANGED <<rows, now, doomed, fires, births, saves, refused>>

\* Slip: insert the row without the id that was minted for it.
NewRow_Slip(t) ==
    [report |-> call[t].report, run_id |-> NoRunId(call[t].report),
     gathered_at |-> now, status |-> call[t].status, finished |-> FALSE,
     payload |-> call[t].payload, birth |-> births + 1]

\* The row the thread's pending INSERT carries.
NewRow(t) ==
    [report |-> call[t].report, run_id |-> call[t].run_id, gathered_at |-> now,
     status |-> call[t].status, finished |-> pc[t] = "insertDirect",
     payload |-> call[t].payload, birth |-> births + 1]

Insert(t) ==
    /\ births < MaxBirths
    /\ ~BreaksUniqueIndex(rows, NewRow(t))
    /\ \E id \in 1..MaxRows :
          IsNextId(rows, id) /\ rows' = Inserted(rows, id, NewRow(t))
    /\ births' = births + 1
    /\ Return(t)

InsertRun(t) ==
    /\ pc[t] = "insert"
    /\ Insert(t)
    /\ fires' = fires \cup {[poster |-> t, run_id |-> call[t].run_id,
                             birth |-> births + 1]}
    /\ UNCHANGED <<now, doomed, saves, refused>>

\* IntegrityError, rolled back: RunInFlightError to the caller.
RefuseRun(t) ==
    /\ pc[t] = "insert"
    /\ BreaksUniqueIndex(rows, NewRow(t))
    /\ Return(t)
    /\ UNCHANGED <<rows, now, doomed, fires, births, saves, refused>>

Settled(f) == [f EXCEPT !.poster = "nobody"]

\* The callback was accepted.
Dispatched(f) ==
    /\ f.poster # "nobody"
    /\ fires' = (fires \ {f}) \cup {Settled(f)}
    /\ UNCHANGED <<rows, now, pc, call, doomed, births, saves, refused>>

\* fail_run by whoever opened the run: the callback failed, or seemed to (the
\* gatherer may have it and the answer been lost), or the sweep crashed.
DispatchFailed(f) ==
    /\ f.poster # "nobody"
    /\ pc[f.poster] = "idle"
    /\ rows' = FailRun(rows, f.run_id)
    /\ fires' = (fires \ {f}) \cup {Settled(f)}
    /\ UNCHANGED <<now, pc, call, doomed, births, saves, refused>>
-----------------------------------------------------------------------------
(* save_output, on the server thread.                                      *)

Save == /\ pc["server"] = "idle"
        /\ saves < MaxSaves
        /\ saves' = saves + 1

\* A gatherer echoes the run_id its callback carried: complete_run, once.
SaveByRunId(f, status) ==
    /\ Save
    /\ rows' = CompleteRun(rows, f.run_id, f.run_id.report, status, saves + 1)
    /\ refused' = IF Completable(rows, f.run_id, f.run_id.report) = {}
                  THEN refused \cup {saves + 1}
                  ELSE refused
    /\ UNCHANGED <<now, pc, call, doomed, fires, births>>

\* Slip: a direct save, whatever is in flight.
SaveWithoutRunId_Slip(r, status) ==
    /\ Save
    /\ Goto("server", "mintDirect",
            [report |-> r, run_id |-> NoRunId(r), status |-> status,
             payload |-> saves + 1, since |-> births])
    /\ UNCHANGED <<rows, now, doomed, fires, births, refused>>

\* No run_id: read the in-flight run to adopt, if there is one.
SaveWithoutRunId(r, status) ==
    LET c == [report |-> r, run_id |-> NoRunId(r), status |-> status,
              payload |-> saves + 1, since |-> births]
    IN  /\ Save
        /\ \/ /\ InFlight(rows, r) = {}
              /\ Goto("server", "mintDirect", c)
           \/ \E i \in InFlight(rows, r) :
                 Goto("server", "adopt", [c EXCEPT !.run_id = rows[i].run_id])
        /\ UNCHANGED <<rows, now, doomed, fires, births, refused>>

\* Slip: no return after the adopted run was completed.
Adopt_Slip ==
    LET c == call["server"]
    IN  /\ pc["server"] = "adopt"
        /\ rows' = CompleteRun(rows, c.run_id, c.report, c.status, c.payload)
        /\ Goto("server", "mintDirect", [c EXCEPT !.run_id = NoRunId(c.report)])
        /\ UNCHANGED <<now, doomed, fires, births, saves, refused>>

\* complete_run on the adopted run; a run that ended meanwhile falls through
\* to a direct save.
Adopt ==
    LET c == call["server"]
    IN  /\ pc["server"] = "adopt"
        /\ rows' = CompleteRun(rows, c.run_id, c.report, c.status, c.payload)
        /\ IF Completable(rows, c.run_id, c.report) # {}
           THEN Return("server")
           ELSE Goto("server", "mintDirect", [c EXCEPT !.run_id = NoRunId(c.report)])
        /\ UNCHANGED <<now, doomed, fires, births, saves, refused>>

InsertDirect ==
    /\ pc["server"] = "insertDirect"
    /\ Insert("server")
    /\ UNCHANGED <<now, doomed, fires, saves, refused>>

\* IntegrityError out of insert_output: the tool call raises.
RefuseDirect ==
    /\ pc["server"] = "insertDirect"
    /\ BreaksUniqueIndex(rows, NewRow("server"))
    /\ refused' = refused \cup {call["server"].payload}
    /\ Return("server")
    /\ UNCHANGED <<rows, now, doomed, fires, births, saves>>
-----------------------------------------------------------------------------
(* Retention, on the server thread.                                        *)

\* Slip: another tool call may delete between two statements of prune_outputs.
DeleteOutput_Slip(i) ==
    /\ rows' = Deleted(rows, i)
    /\ UNCHANGED <<now, pc, call, doomed, fires, births, saves, refused>>

DeleteOutput(i) ==
    /\ pc["server"] = "idle"
    /\ rows' = Deleted(rows, i)
    /\ UNCHANGED <<now, pc, call, doomed, fires, births, saves, refused>>

\* One SELECT of the ids, then one DELETE and commit for each.
PruneSelect(ids) ==
    /\ pc["server"] = "idle"
    /\ ids # {}
    /\ doomed' = ids
    /\ pc' = [pc EXCEPT !["server"] = "prune"]
    /\ UNCHANGED <<rows, now, call, fires, births, saves, refused>>

PruneDelete ==
    /\ pc["server"] = "prune"
    /\ \E i \in doomed :
          /\ \A j \in doomed \ {i} : Newer(rows, i, j)
          /\ rows' = Deleted(rows, i)
          /\ doomed' = doomed \ {i}
    /\ pc' = [pc EXCEPT !["server"] = IF doomed' = {} THEN "idle" ELSE "prune"]
    /\ UNCHANGED <<now, call, fires, births, saves, refused>>

\* The process dies and comes back: both threads, their calls and the answers
\* they waited for are gone, the committed rows stay.
Restart ==
    /\ pc' = [t \in Threads |-> "idle"]
    /\ call' = [t \in Threads |-> NoCall]
    /\ doomed' = {}
    /\ fires' = {Settled(f) : f \in fires}
    /\ UNCHANGED <<rows, now, births, saves, refused>>

Next ==
    \/ Clock
    \/ \E t \in Threads :
          \/ \E r \in Reports : BeginRun(t, r)
          \/ MintRunId(t)
          \/ InsertRun(t)
          \/ RefuseRun(t)
    \/ \E f \in fires :
          \/ Dispatched(f)
          \/ DispatchFailed(f)
          \/ \E status \in SaveStatuses : SaveByRunId(f, status)
    \/ \E r \in Reports, status \in SaveStatuses : SaveWithoutRunId(r, status)
    \/ Adopt
    \/ InsertDirect
    \/ RefuseDirect
    \/ \E i \in DOMAIN rows : DeleteOutput(i)
    \/ \E r \in Reports :
          \/ \E keep \in 0..MaxKeep : PruneSelect(BeyondNewest(rows, r, keep))
          \/ \E date \in 1..MaxTime : PruneSelect(GatheredBefore(rows, r, date))
    \/ PruneDelete
    \/ Restart

Spec == Init /\ [][Next]_vars
-----------------------------------------------------------------------------
(* Types, and the relations between variables every operation relies on.   *)
TypeOK ==
    /\ IsTable(rows)
    /\ now \in Nat /\ births \in Nat /\ saves \in Nat
    /\ pc \in [Threads -> Steps]
    /\ call \in [Threads -> Call \cup {NoCall}]
    /\ \A t \in Threads : pc[t] \notin {"idle", "prune"} => call[t] \in Call
    /\ \A t \in Threads :
          pc[t] \in {"insert", "insertDirect"} => call[t].run_id.suffix > 0
    /\ doomed \subseteq RowIds
    /\ fires \subseteq Fire
    /\ refused \subseteq Nat

(* idx_outputs_inflight, the per-report lock: however the statements of    *)
(* begin_run and save_output interleave on the two connections, a report   *)
(* has at most one gathering run.                                          *)
OneOpenRunPerReport ==
    \A i, j \in DOMAIN rows :
        /\ rows[i].report = rows[j].report
        /\ rows[i].status = "gathering"
        /\ rows[j].status = "gathering"
        => i = j

(* Ids are reused after a DELETE, yet ordering by id never contradicts     *)
(* ordering by time: "gathered_at DESC, id DESC" (get_latest_output,       *)
(* list_outputs, prune_outputs) is one total order, newest run first.      *)
IdsFollowTime ==
    \A i, j \in DOMAIN rows :
        i < j => /\ rows[i].gathered_at <= rows[j].gathered_at
                 /\ rows[i].birth < rows[j].birth

(* A save_output call leaves its findings in one row at most, and one that *)
(* raised left them in none: falling through from an adopted run that      *)
(* expired to a direct save never stores the report twice.                 *)
SaveLandsOnce ==
    \A i \in DOMAIN rows : rows[i].payload # 0 =>
        /\ rows[i].payload \notin refused
        /\ \A j \in DOMAIN rows : rows[j].payload = rows[i].payload => i = j

(* The guards of complete_run, fail_run and _expire_stale_runs: a run that *)
(* was saved, failed or expired is never written again by a late save, a   *)
(* late dispatch failure or the other thread's expiry.  It may be deleted. *)
TerminalIsForever ==
    [][\A i \in DOMAIN rows \cap DOMAIN rows' :
          rows[i].status # "gathering" => rows'[i] = rows[i]]_vars

(* What get_latest_output answers only moves forward: a compiler that read *)
(* a report once is never given an older one later, nor none, as long as   *)
(* the row it read is not deleted, in whatever order two runs of a report  *)
(* and a direct save end, and though runs of one second share a time.      *)
LatestMovesForward ==
    [][\A r \in Reports : \A i \in LatestOutput(rows, r) : i \in DOMAIN rows' =>
          /\ i \in Readable(rows', r)
          /\ \A j \in LatestOutput(rows', r) : rows'[j].birth >= rows[i].birth]_vars

(* save_output adopts "so the per-report lock is released instead of       *)
(* orphaned until its TTL": when a save's findings land as a finished run, *)
(* no run of the report that was in flight when the call began still is.   *)
SaveReleasesLock ==
    [][\A i \in DOMAIN rows' :
          LET landed == /\ rows'[i].payload # 0
                        /\ rows'[i].status # "gathering"
                        /\ \A j \in DOMAIN rows :
                              rows[j].payload # rows'[i].payload
              since == IF call["server"] = NoCall THEN births
                       ELSE call["server"].since
          IN  landed => \A j \in InFlight(rows', rows'[i].report) :
                           rows'[j].birth > since]_vars

(* prune_outputs deletes by row id what it selected some commits ago, and  *)
(* SQLite gives the id of a deleted row out again: an id prune has still   *)
(* to delete goes on naming the run it named, never one the other thread   *)
(* opened since.                                                           *)
PruneHitsWhatItSelected ==
    [][\A i \in doomed \cap doomed' : i \in DOMAIN rows' =>
          i \in DOMAIN rows /\ rows'[i].birth = rows[i].birth]_vars

(* The two-threaded table keeps the promise of RunLifecycle: taking the    *)
(* lock is one atomic step although begin_run is three statements.         *)
Holder(table, r) ==
    IF InFlight(table, r) = {} THEN 0
    ELSE table[CHOOSE i \in InFlight(table, r) : TRUE].birth

Lifecycle == INSTANCE RunLifecycle
                WITH holder <- [r \in Reports |-> Holder(rows, r)]

LifecycleSpec == Lifecycle!Spec
=============================================================================
