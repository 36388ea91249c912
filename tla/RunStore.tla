------------------------------ MODULE RunStore ------------------------------
(***************************************************************************)
(* The report_outputs table of database.py and the statements run on it,   *)
(* as operators on a table value: a function from row ids to rows.  A run  *)
(* IS a row.  Columns no lifecycle property tells apart (window, trigger,  *)
(* gatherer_run_ref, detail) are left out; a payload is 0 for '[]' and     *)
(* otherwise the number of the save_output call that wrote it.             *)
(***************************************************************************)
EXTENDS Naturals, FiniteSets

CONSTANTS Reports,   \* names of the report definitions
          LockTTL    \* METSUKE_RUN_LOCK_TTL_SECONDS

ASSUME LockTTLAssumption == LockTTL \in Nat \ {0}

RowIds == Nat \ {0}

\* models.Status: what the column holds and what save_output accepts.
Statuses == {"gathering", "ready", "compiled", "failed"}

\* "<report>@<second>", then "-2", "-3" ... ; suffix 1 is the bare id and 0
\* stands for "no id minted yet".
RunIds == [report : Reports, at : Nat, suffix : Nat]

NoRunId(r) == [report |-> r, at |-> 0, suffix |-> 0]

\* birth is a history column: the how-manyth row ever inserted this is.  The
\* database has no such column (id is reused after a DELETE of the largest).
Row == [report : Reports, run_id : {id \in RunIds : id.suffix > 0}, gathered_at : Nat,
        status : Statuses, finished : BOOLEAN, payload : Nat, birth : Nat \ {0}]

IsTable(rows) == DOMAIN rows \subseteq RowIds /\ rows \in [DOMAIN rows -> Row]

(***************************************************************************)
(* Definitions named X_Slip are wrong versions of X, each a slip one could *)
(* make in the code X models.  Nothing uses them: substituted for X they   *)
(* show that a property notices.                                           *)
(***************************************************************************)
-----------------------------------------------------------------------------
InFlight(rows, r) ==
    {i \in DOMAIN rows : rows[i].report = r /\ rows[i].status = "gathering"}

\* gathered_at <= datetime('now', '-ttl seconds')
Stale(row, now) == row.status = "gathering" /\ row.gathered_at + LockTTL <= now

Failed(row) == [row EXCEPT !.status = "failed", !.finished = TRUE]

ExpireStaleRuns(rows, r, now) ==
    [i \in DOMAIN rows |-> IF rows[i].report = r /\ Stale(rows[i], now)
                           THEN Failed(rows[i])
                           ELSE rows[i]]

RunIdUsed(rows, id) == \E i \in DOMAIN rows : rows[i].run_id = id

\* The loop of _make_run_id stops at the first suffix no row carries.
IsMinted(rows, id) ==
    /\ ~RunIdUsed(rows, id)
    /\ \A s \in 1..(id.suffix - 1) : RunIdUsed(rows, [id EXCEPT !.suffix = s])

\* Slip: fill the gap a DELETE left.
IsNextId_Slip(rows, id) ==
    /\ id \notin DOMAIN rows
    /\ 1..(id - 1) \subseteq DOMAIN rows

\* INTEGER PRIMARY KEY without AUTOINCREMENT: one more than the largest id.
IsNextId(rows, id) ==
    /\ \A i \in DOMAIN rows : i < id
    /\ id = 1 \/ id - 1 \in DOMAIN rows

\* Slip: the migration never created idx_outputs_inflight.
BreaksUniqueIndex_Slip(rows, row) == RunIdUsed(rows, row.run_id)

\* idx_outputs_run_id and idx_outputs_inflight, the two unique indexes.
BreaksUniqueIndex(rows, row) ==
    \/ RunIdUsed(rows, row.run_id)
    \/ row.status = "gathering" /\ InFlight(rows, row.report) # {}

Inserted(rows, id, row) ==
    [i \in DOMAIN rows \cup {id} |-> IF i = id THEN row ELSE rows[i]]

Deleted(rows, id) == [i \in DOMAIN rows \ {id} |-> rows[i]]

\* Slip: complete_run without "AND status = 'gathering'".
Completable_Slip(rows, run_id, r) ==
    {i \in DOMAIN rows : rows[i].report = r /\ rows[i].run_id = run_id}

\* The rows complete_run's UPDATE matches.
Completable(rows, run_id, r) ==
    {i \in InFlight(rows, r) : rows[i].run_id = run_id}

CompleteRun(rows, run_id, r, status, payload) ==
    [i \in DOMAIN rows |->
        IF i \in Completable(rows, run_id, r)
        THEN [rows[i] EXCEPT !.status = status, !.finished = TRUE,
                             !.payload = payload]
        ELSE rows[i]]

\* Slip: fail_run without "AND status = 'gathering'".
FailRun_Slip(rows, run_id) ==
    [i \in DOMAIN rows |->
        IF rows[i].run_id = run_id THEN Failed(rows[i]) ELSE rows[i]]

FailRun(rows, run_id) ==
    [i \in DOMAIN rows |->
        IF rows[i].run_id = run_id /\ rows[i].status = "gathering"
        THEN Failed(rows[i])
        ELSE rows[i]]

\* Slip: ORDER BY gathered_at DESC.
Newer_Slip(rows, i, j) == rows[i].gathered_at > rows[j].gathered_at

\* ORDER BY gathered_at DESC, id DESC
Newer(rows, i, j) ==
    \/ rows[i].gathered_at > rows[j].gathered_at
    \/ rows[i].gathered_at = rows[j].gathered_at /\ i > j

RowsOf(rows, r) == {i \in DOMAIN rows : rows[i].report = r}

\* Rows past "LIMIT -1 OFFSET keep" of the report's rows, newest first.
BeyondNewest(rows, r, keep) ==
    {i \in RowsOf(rows, r) :
        Cardinality({j \in RowsOf(rows, r) : Newer(rows, j, i)}) >= keep}

GatheredBefore(rows, r, date) ==
    {i \in RowsOf(rows, r) : rows[i].gathered_at < date}

\* status IN ('ready', 'compiled')
Readable(rows, r) == {i \in RowsOf(rows, r) : rows[i].status \in {"ready", "compiled"}}

\* get_latest_output: the newest of them, or none.
LatestOutput(rows, r) ==
    {i \in Readable(rows, r) : \A j \in Readable(rows, r) : ~Newer(rows, j, i)}
=============================================================================
