----------------------------- MODULE RunsProofs -----------------------------
(***************************************************************************)
(* Proofs about Runs, for every set of reports, lock TTL and bound.        *)
(***************************************************************************)
EXTENDS Runs, TLAPS

(* What a statement that inserts nothing may do to a table: rows disappear *)
(* or change columns, but none moves to another report and none that was   *)
(* not gathering starts to be.                                             *)
OnlyReleases(T, U) ==
    /\ DOMAIN U \subseteq DOMAIN T
    /\ \A i \in DOMAIN U :
          /\ U[i].report = T[i].report
          /\ U[i].run_id = T[i].run_id
          /\ U[i].gathered_at = T[i].gathered_at
          /\ U[i].birth = T[i].birth
          /\ T[i].status # "gathering" => U[i] = T[i]

-----------------------------------------------------------------------------
(* Every statement maps a table to a table, and all but INSERT only        *)
(* release.                                                                *)

LEMMA ExpireIsStatement ==
    ASSUME NEW T, IsTable(T), NEW r, NEW n
    PROVE  /\ IsTable(ExpireStaleRuns(T, r, n))
           /\ OnlyReleases(T, ExpireStaleRuns(T, r, n))
BY DEF IsTable, ExpireStaleRuns, Stale, Failed, Row, OnlyReleases, Statuses

LEMMA FailIsStatement ==
    ASSUME NEW T, IsTable(T), NEW id
    PROVE  IsTable(FailRun(T, id)) /\ OnlyReleases(T, FailRun(T, id))
BY DEF IsTable, FailRun, Failed, Row, OnlyReleases, Statuses

LEMMA CompleteIsStatement ==
    ASSUME NEW T, IsTable(T), NEW id, NEW r, NEW status \in Statuses, NEW p \in Nat
    PROVE  /\ IsTable(CompleteRun(T, id, r, status, p))
           /\ OnlyReleases(T, CompleteRun(T, id, r, status, p))
BY DEF IsTable, CompleteRun, Completable, InFlight, Row, OnlyReleases

LEMMA DeleteIsStatement ==
    ASSUME NEW T, IsTable(T), NEW i
    PROVE  IsTable(Deleted(T, i)) /\ OnlyReleases(T, Deleted(T, i))
BY DEF IsTable, Deleted, OnlyReleases

LEMMA InsertIsStatement ==
    ASSUME NEW T, IsTable(T), NEW i \in RowIds, NEW row \in Row, IsNextId(T, i)
    PROVE  IsTable(Inserted(T, i, row))
BY DEF IsTable, Inserted, IsNextId, RowIds
-----------------------------------------------------------------------------
LEMMA InitTypeOK == Init => TypeOK
<1> SUFFICES ASSUME Init PROVE TypeOK
    OBVIOUS
<1>1. IsTable(rows)
    BY DEF Init, IsTable
<1>2. QED
    BY <1>1 DEF Init, TypeOK, Threads, Steps

LEMMA NewRowIsRow ==
    ASSUME TypeOK, NEW t \in Threads, pc[t] \in {"insert", "insertDirect"}
    PROVE  NewRow(t) \in Row
<1>1. call[t] \in Call /\ call[t].run_id.suffix > 0
    BY DEF TypeOK, Steps
<1>2. QED
    BY <1>1 DEF NewRow, TypeOK, Row, Call

LEMMA InsertKeepsTable ==
    ASSUME TypeOK, NEW t \in Threads, pc[t] \in {"insert", "insertDirect"}, Insert(t)
    PROVE  IsTable(rows') /\ births' \in Nat
<1>1. NewRow(t) \in Row
    BY NewRowIsRow
<1>2. PICK id \in 1..MaxRows : IsNextId(rows, id) /\ rows' = Inserted(rows, id, NewRow(t))
    BY DEF Insert
<1>3. id \in RowIds
    BY <1>2 DEF RowIds
<1>4. IsTable(Inserted(rows, id, NewRow(t)))
    BY <1>1, <1>2, <1>3, InsertIsStatement DEF TypeOK
<1>5. births' \in Nat
    BY DEF TypeOK, Insert
<1>6. QED
    BY <1>2, <1>4, <1>5

LEMMA GotoTyped ==
    ASSUME TypeOK, NEW t \in Threads, NEW step \in Steps, NEW c \in Call \cup {NoCall},
           Goto(t, step, c), step \notin {"idle", "prune"} => c \in Call,
           step \in {"insert", "insertDirect"} => c.run_id.suffix > 0
    PROVE  /\ pc' \in [Threads -> Steps]
           /\ call' \in [Threads -> Call \cup {NoCall}]
           /\ \A u \in Threads : pc'[u] \notin {"idle", "prune"} => call'[u] \in Call
           /\ \A u \in Threads :
                 pc'[u] \in {"insert", "insertDirect"} => call'[u].run_id.suffix > 0
BY DEF TypeOK, Goto

LEMMA ReturnTyped ==
    ASSUME TypeOK, NEW t \in Threads, Return(t)
    PROVE  /\ pc' \in [Threads -> Steps]
           /\ call' \in [Threads -> Call \cup {NoCall}]
           /\ \A u \in Threads : pc'[u] \notin {"idle", "prune"} => call'[u] \in Call
           /\ \A u \in Threads :
                 pc'[u] \in {"insert", "insertDirect"} => call'[u].run_id.suffix > 0
BY GotoTyped DEF Return, Steps

LEMMA NextTypeOK == TypeOK /\ [Next]_vars => TypeOK'
<1> SUFFICES ASSUME TypeOK, [Next]_vars PROVE TypeOK'
    OBVIOUS
<1>t. "server" \in Threads /\ "scheduler" \in Threads
    BY DEF Threads
<1>1. CASE Clock
    BY <1>1 DEF Clock, TypeOK
<1>2. ASSUME NEW t \in Threads, NEW r \in Reports, BeginRun(t, r) PROVE TypeOK'
    <2> DEFINE c == [report |-> r, run_id |-> NoRunId(r), status |-> "gathering",
                     payload |-> 0, since |-> 0]
    <2>1. c \in Call
        BY DEF Call, RunIds, NoRunId, Statuses
    <2>2. IsTable(rows')
        BY <1>2, ExpireIsStatement DEF BeginRun, TypeOK
    <2>3. Goto(t, "mint", c)
        BY <1>2 DEF BeginRun
    <2> HIDE DEF c
    <2>4. QED
        BY <1>2, <2>1, <2>2, <2>3, GotoTyped DEF BeginRun, TypeOK, Steps
<1>3. ASSUME NEW t \in Threads, MintRunId(t) PROVE TypeOK'
    <2>1. PICK s \in 1..(MaxBirths + 1) :
              LET id == [report |-> call[t].report, at |-> now, suffix |-> s]
              IN  Goto(t, IF pc[t] = "mint" THEN "insert" ELSE "insertDirect",
                       [call[t] EXCEPT !.run_id = id])
        BY <1>3 DEF MintRunId
    <2> DEFINE id == [report |-> call[t].report, at |-> now, suffix |-> s]
               c  == [call[t] EXCEPT !.run_id = id]
               step == IF pc[t] = "mint" THEN "insert" ELSE "insertDirect"
    <2>2. call[t] \in Call
        BY <1>3 DEF MintRunId, TypeOK
    <2>3. s \in Nat /\ s > 0
        BY <2>1
    <2>4. c \in Call /\ c.run_id.suffix > 0
        BY <2>2, <2>3 DEF Call, RunIds, TypeOK
    <2>5. step \in Steps
        BY DEF Steps
    <2>6. Goto(t, step, c)
        BY <2>1
    <2> HIDE DEF c, step
    <2>7. QED
        BY <1>3, <2>4, <2>5, <2>6, GotoTyped DEF MintRunId, TypeOK
<1>4. ASSUME NEW t \in Threads, InsertRun(t) PROVE TypeOK'
    <2>1. IsTable(rows') /\ births' \in Nat
        BY <1>4, InsertKeepsTable DEF InsertRun
    <2>2. Return(t)
        BY <1>4 DEF InsertRun, Insert
    <2>3. call[t] \in Call
        BY <1>4 DEF InsertRun, TypeOK
    <2>4. fires' \subseteq Fire
        BY <1>4, <2>3 DEF InsertRun, TypeOK, Call, Fire
    <2>5. UNCHANGED <<now, doomed, saves, refused>>
        BY <1>4 DEF InsertRun
    <2>6. QED
        BY <2>1, <2>2, <2>4, <2>5, ReturnTyped DEF TypeOK
<1>5. ASSUME NEW t \in Threads, RefuseRun(t) PROVE TypeOK'
    BY <1>5, ReturnTyped DEF RefuseRun, TypeOK
<1>6. ASSUME NEW f \in fires, Dispatched(f) PROVE TypeOK'
    BY <1>6 DEF Dispatched, Settled, TypeOK, Fire
<1>7. ASSUME NEW f \in fires, DispatchFailed(f) PROVE TypeOK'
    <2>1. IsTable(rows')
        BY <1>7, FailIsStatement DEF DispatchFailed, TypeOK
    <2>2. QED
        BY <1>7, <2>1 DEF DispatchFailed, Settled, TypeOK, Fire
<1>8. ASSUME NEW f \in fires, NEW status \in SaveStatuses, SaveByRunId(f, status)
      PROVE  TypeOK'
    <2>1. status \in Statuses /\ saves + 1 \in Nat
        BY SaveStatusesAssumption DEF TypeOK
    <2>2. IsTable(rows')
        BY <1>8, <2>1, CompleteIsStatement DEF SaveByRunId, TypeOK
    <2>3. QED
        BY <1>8, <2>1, <2>2 DEF SaveByRunId, Save, TypeOK
<1>9. ASSUME NEW r \in Reports, NEW status \in SaveStatuses, SaveWithoutRunId(r, status)
      PROVE  TypeOK'
    <2> DEFINE c == [report |-> r, run_id |-> NoRunId(r), status |-> status,
                     payload |-> saves + 1, since |-> births]
    <2>1. c \in Call
        BY SaveStatusesAssumption DEF TypeOK, Call, RunIds, NoRunId
    <2>2. ASSUME NEW i \in InFlight(rows, r)
          PROVE  [c EXCEPT !.run_id = rows[i].run_id] \in Call
        <3>1. rows[i].run_id \in RunIds
            BY DEF InFlight, TypeOK, IsTable, Row
        <3>2. QED
            BY <2>1, <3>1 DEF Call
    <2>3. \/ Goto("server", "mintDirect", c)
          \/ \E i \in InFlight(rows, r) :
                Goto("server", "adopt", [c EXCEPT !.run_id = rows[i].run_id])
        BY <1>9 DEF SaveWithoutRunId
    <2>4. /\ saves' = saves + 1
          /\ UNCHANGED <<rows, now, doomed, fires, births, refused>>
        BY <1>9 DEF SaveWithoutRunId, Save
    <2>5. PICK step \in {"mintDirect", "adopt"}, d \in Call : Goto("server", step, d)
        BY <2>1, <2>2, <2>3
    <2>6. QED
        BY <1>t, <2>4, <2>5, GotoTyped DEF TypeOK, Steps
<1>10. CASE Adopt
    <2> DEFINE c == call["server"]
               d == [c EXCEPT !.run_id = NoRunId(c.report)]
    <2>1. c \in Call
        BY <1>t, <1>10 DEF Adopt, TypeOK
    <2>2. d \in Call
        BY <2>1 DEF Call, NoRunId, RunIds
    <2>3. IsTable(rows')
        BY <1>10, <2>1, CompleteIsStatement DEF Adopt, TypeOK, Call
    <2>4. Return("server") \/ Goto("server", "mintDirect", d)
        BY <1>10 DEF Adopt
    <2>5. UNCHANGED <<now, doomed, fires, births, saves, refused>>
        BY <1>10 DEF Adopt
    <2> HIDE DEF c, d
    <2>6. QED
        BY <1>t, <2>2, <2>3, <2>4, <2>5, GotoTyped, ReturnTyped DEF TypeOK, Steps
<1>11. CASE InsertDirect
    <2>1. IsTable(rows') /\ births' \in Nat
        BY <1>t, <1>11, InsertKeepsTable DEF InsertDirect
    <2>2. Return("server")
        BY <1>11 DEF InsertDirect, Insert
    <2>3. UNCHANGED <<now, doomed, fires, saves, refused>>
        BY <1>11 DEF InsertDirect
    <2>4. QED
        BY <1>t, <2>1, <2>2, <2>3, ReturnTyped DEF TypeOK
<1>12. CASE RefuseDirect
    <2>1. call["server"].payload \in Nat
        BY <1>t, <1>12 DEF RefuseDirect, TypeOK, Call
    <2>2. QED
        BY <1>t, <1>12, <2>1, ReturnTyped DEF RefuseDirect, TypeOK
<1>13. ASSUME NEW i \in DOMAIN rows, DeleteOutput(i) PROVE TypeOK'
    <2>1. IsTable(rows')
        BY <1>13, DeleteIsStatement DEF DeleteOutput, TypeOK
    <2>2. QED
        BY <1>13, <2>1 DEF DeleteOutput, TypeOK
<1>14. ASSUME NEW ids \in SUBSET DOMAIN rows, PruneSelect(ids) PROVE TypeOK'
    BY <1>t, <1>14 DEF PruneSelect, TypeOK, IsTable, Steps
<1>15. CASE PruneDelete
    <2>1. IsTable(rows')
        BY <1>15, DeleteIsStatement DEF PruneDelete, TypeOK
    <2>2. doomed' \subseteq RowIds
        BY <1>15 DEF PruneDelete, TypeOK
    <2>3. PICK step \in {"idle", "prune"} : pc' = [pc EXCEPT !["server"] = step]
        BY <1>15 DEF PruneDelete
    <2>4. QED
        BY <1>t, <1>15, <2>1, <2>2, <2>3 DEF PruneDelete, TypeOK, Steps
<1>16. CASE Restart
    BY <1>16 DEF Restart, Settled, TypeOK, Steps, Fire
<1>17. CASE UNCHANGED vars
    BY <1>17 DEF vars, TypeOK
<1>18. QED
    BY <1>1, <1>2, <1>3, <1>4, <1>5, <1>6, <1>7, <1>8, <1>9, <1>10, <1>11, <1>12,
       <1>13, <1>14, <1>15, <1>16, <1>17
       DEF Next, BeyondNewest, GatheredBefore, RowsOf

(* The type invariant, with the one relation a later INSERT relies on: an  *)
(* id has been minted by the time the row is inserted.                     *)
THEOREM TypeCorrect == Spec => []TypeOK
BY InitTypeOK, NextTypeOK, PTL DEF Spec
-----------------------------------------------------------------------------
(* Every step runs at most one statement: it inserts one row that breaks   *)
(* neither unique index, or it releases, and then rows of one report only. *)

UniqueRunIds ==
    \A i, j \in DOMAIN rows : rows[i].run_id = rows[j].run_id => i = j

(* What an INSERT meets: every row is older than the one to come.          *)
PastIsBehind ==
    \A i \in DOMAIN rows : rows[i].gathered_at <= now /\ rows[i].birth <= births

Inv ==
    /\ TypeOK
    /\ UniqueRunIds
    /\ OneOpenRunPerReport
    /\ PastIsBehind
    /\ IdsFollowTime

InsertStep(t, id) ==
    /\ NewRow(t) \in Row
    /\ id \in RowIds
    /\ IsNextId(rows, id)
    /\ ~BreaksUniqueIndex(rows, NewRow(t))
    /\ rows' = Inserted(rows, id, NewRow(t))
    /\ births' = births + 1
    /\ now' = now

ReleaseStep(r) ==
    /\ OnlyReleases(rows, rows')
    /\ \A i \in DOMAIN rows : rows[i].report # r =>
          i \in DOMAIN rows' /\ rows'[i] = rows[i]
    /\ births' = births
    /\ now' \in Nat /\ now' >= now

LEMMA InsertIsInsertStep ==
    ASSUME TypeOK, NEW t \in Threads, pc[t] \in {"insert", "insertDirect"},
           Insert(t), UNCHANGED now
    PROVE  \E id \in RowIds : InsertStep(t, id)
<1>1. PICK id \in 1..MaxRows : IsNextId(rows, id) /\ rows' = Inserted(rows, id, NewRow(t))
    BY DEF Insert
<1>2. id \in RowIds
    BY DEF RowIds
<1>3. ~BreaksUniqueIndex(rows, NewRow(t)) /\ births' = births + 1
    BY DEF Insert
<1>4. QED
    BY <1>1, <1>2, <1>3, NewRowIsRow DEF InsertStep

LEMMA UnchangedReleases ==
    ASSUME TypeOK, UNCHANGED <<rows, births>>, now' \in Nat, now' >= now, NEW r
    PROVE  ReleaseStep(r)
BY DEF ReleaseStep, OnlyReleases, TypeOK

LEMMA NowStays == TypeOK /\ UNCHANGED now => now' \in Nat /\ now' >= now
BY DEF TypeOK

LEMMA StepShape ==
    ASSUME TypeOK, UniqueRunIds, [Next]_vars
    PROVE  \/ \E t \in Threads, id \in RowIds : InsertStep(t, id)
           \/ \E r : ReleaseStep(r)
<1> DEFINE Goal == \/ \E t \in Threads, id \in RowIds : InsertStep(t, id)
                   \/ \E r : ReleaseStep(r)
<1> SUFFICES Goal
    OBVIOUS
<1>t. "server" \in Threads /\ "scheduler" \in Threads
    BY DEF Threads
<1>T. IsTable(rows)
    BY DEF TypeOK
<1>q. ASSUME UNCHANGED <<rows, births, now>> PROVE Goal
    BY <1>q, UnchangedReleases, NowStays
<1>1. CASE Clock
    <2>1. now' \in Nat /\ now' >= now
        BY <1>1 DEF Clock, TypeOK
    <2>2. QED
        BY <1>1, <2>1, UnchangedReleases DEF Clock
<1>2. ASSUME NEW t \in Threads, NEW r \in Reports, BeginRun(t, r) PROVE Goal
    <2>1. rows' = ExpireStaleRuns(rows, r, now) /\ births' = births /\ now' = now
        BY <1>2 DEF BeginRun
    <2>2. \A i \in DOMAIN rows : rows[i].report # r =>
             i \in DOMAIN rows' /\ rows'[i] = rows[i]
        BY <2>1 DEF ExpireStaleRuns
    <2>3. QED
        BY <1>T, <2>1, <2>2, ExpireIsStatement, NowStays DEF ReleaseStep
<1>3. ASSUME NEW t \in Threads, MintRunId(t) PROVE Goal
    BY <1>3, <1>q DEF MintRunId
<1>4. ASSUME NEW t \in Threads, InsertRun(t) PROVE Goal
    BY <1>4, InsertIsInsertStep DEF InsertRun
<1>5. ASSUME NEW t \in Threads, RefuseRun(t) PROVE Goal
    BY <1>5, <1>q DEF RefuseRun
<1>6. ASSUME NEW f \in fires, Dispatched(f) PROVE Goal
    BY <1>6, <1>q DEF Dispatched
<1>7. ASSUME NEW f \in fires, DispatchFailed(f) PROVE Goal
    <2>1. rows' = FailRun(rows, f.run_id) /\ births' = births /\ now' = now
        BY <1>7 DEF DispatchFailed
    <2>2. PICK r : \A i \in DOMAIN rows : rows[i].run_id = f.run_id => rows[i].report = r
        BY DEF UniqueRunIds
    <2>3. \A i \in DOMAIN rows : rows[i].report # r =>
             i \in DOMAIN rows' /\ rows'[i] = rows[i]
        BY <2>1, <2>2 DEF FailRun
    <2>4. QED
        BY <1>T, <2>1, <2>3, FailIsStatement, NowStays DEF ReleaseStep
<1>c. ASSUME NEW id, NEW r, NEW status \in Statuses, NEW p \in Nat,
             rows' = CompleteRun(rows, id, r, status, p), UNCHANGED <<births, now>>
      PROVE  Goal
    <2>1. \A i \in DOMAIN rows : rows[i].report # r =>
             i \in DOMAIN rows' /\ rows'[i] = rows[i]
        BY <1>c DEF CompleteRun, Completable, InFlight
    <2>2. QED
        BY <1>T, <1>c, <2>1, CompleteIsStatement, NowStays DEF ReleaseStep
<1>8. ASSUME NEW f \in fires, NEW status \in SaveStatuses, SaveByRunId(f, status)
      PROVE  Goal
    <2>1. status \in Statuses /\ saves + 1 \in Nat
        BY SaveStatusesAssumption DEF TypeOK
    <2>2. QED
        BY <1>8, <2>1, <1>c DEF SaveByRunId
<1>9. ASSUME NEW r \in Reports, NEW status \in SaveStatuses, SaveWithoutRunId(r, status)
      PROVE  Goal
    BY <1>9, <1>q DEF SaveWithoutRunId
<1>10. CASE Adopt
    <2>1. call["server"] \in Call
        BY <1>t, <1>10 DEF Adopt, TypeOK
    <2>2. QED
        BY <1>10, <2>1, <1>c DEF Adopt, Call
<1>11. CASE InsertDirect
    BY <1>t, <1>11, InsertIsInsertStep DEF InsertDirect
<1>12. CASE RefuseDirect
    BY <1>12, <1>q DEF RefuseDirect
<1>d. ASSUME NEW i, rows' = Deleted(rows, i), UNCHANGED <<births, now>> PROVE Goal
    <2>1. PICK r : i \in DOMAIN rows => rows[i].report = r
        OBVIOUS
    <2>2. \A j \in DOMAIN rows : rows[j].report # r =>
             j \in DOMAIN rows' /\ rows'[j] = rows[j]
        BY <1>d, <2>1 DEF Deleted
    <2>3. QED
        BY <1>T, <1>d, <2>2, DeleteIsStatement, NowStays DEF ReleaseStep
<1>13. ASSUME NEW i \in DOMAIN rows, DeleteOutput(i) PROVE Goal
    BY <1>13, <1>d DEF DeleteOutput
<1>14. ASSUME NEW ids, PruneSelect(ids) PROVE Goal
    BY <1>14, <1>q DEF PruneSelect
<1>15. CASE PruneDelete
    BY <1>15, <1>d DEF PruneDelete
<1>16. CASE Restart
    BY <1>16, <1>q DEF Restart
<1>17. CASE UNCHANGED vars
    BY <1>17, <1>q DEF vars
<1>18. QED
    BY <1>1, <1>2, <1>3, <1>4, <1>5, <1>6, <1>7, <1>8, <1>9, <1>10, <1>11, <1>12,
       <1>13, <1>14, <1>15, <1>16, <1>17 DEF Next
-----------------------------------------------------------------------------
(* The inductive invariant.  The index guards one INSERT at a time; that   *)
(* no other statement makes a run gathering again is what keeps the lock.  *)

LEMMA InsertStepEffect ==
    ASSUME TypeOK, NEW t \in Threads, NEW id \in RowIds, InsertStep(t, id)
    PROVE  /\ DOMAIN rows' = DOMAIN rows \cup {id}
           /\ id \notin DOMAIN rows
           /\ rows'[id] = NewRow(t)
           /\ \A j \in DOMAIN rows : rows'[j] = rows[j] /\ j < id
<1> DEFINE new == Inserted(rows, id, NewRow(t))
<1>1. IsTable(rows) /\ NewRow(t) \in Row /\ IsNextId(rows, id) /\ rows' = new
    BY DEF InsertStep, TypeOK
<1>2. /\ id \notin DOMAIN rows
      /\ DOMAIN new = DOMAIN rows \cup {id}
      /\ new[id] = NewRow(t)
      /\ \A j \in DOMAIN rows : new[j] = rows[j]
    BY <1>1 DEF Inserted, IsNextId, IsTable, RowIds
<1>3. \A j \in DOMAIN rows : j < id
    BY <1>1 DEF IsNextId
<1> HIDE DEF new
<1>4. QED
    BY <1>1, <1>2, <1>3

LEMMA InsertKeepsInv ==
    ASSUME Inv, NEW t \in Threads, NEW id \in RowIds, InsertStep(t, id), TypeOK'
    PROVE  Inv'
<1> DEFINE row == NewRow(t)
<1>1. /\ DOMAIN rows' = DOMAIN rows \cup {id}
      /\ id \notin DOMAIN rows
      /\ rows'[id] = row
      /\ \A j \in DOMAIN rows : rows'[j] = rows[j] /\ j < id
    BY InsertStepEffect DEF Inv
<1>2. row.gathered_at = now /\ row.birth = births + 1
    BY DEF NewRow
<1>3. /\ \A j \in DOMAIN rows : rows[j].run_id # row.run_id
      /\ row.status = "gathering" => InFlight(rows, row.report) = {}
    BY DEF InsertStep, BreaksUniqueIndex, RunIdUsed
<1>4. \A j \in DOMAIN rows : /\ rows[j].gathered_at \in Nat
                             /\ rows[j].birth \in Nat
                             /\ j \in Nat
    BY DEF Inv, TypeOK, IsTable, Row, RowIds
<1>5. births' = births + 1 /\ now' = now /\ births \in Nat /\ now \in Nat
    BY DEF InsertStep, Inv, TypeOK
<1>6. id \in Nat
    BY DEF RowIds
<1> HIDE DEF row
<1>7. UniqueRunIds'
    BY <1>1, <1>3 DEF UniqueRunIds, Inv
<1>8. OneOpenRunPerReport'
    <2> SUFFICES ASSUME NEW i \in DOMAIN rows', NEW j \in DOMAIN rows',
                        rows'[i].report = rows'[j].report,
                        rows'[i].status = "gathering", rows'[j].status = "gathering"
                 PROVE  i = j
        BY DEF OneOpenRunPerReport
    <2>1. CASE i \in DOMAIN rows /\ j \in DOMAIN rows
        BY <1>1, <2>1 DEF OneOpenRunPerReport, Inv
    <2>2. CASE i = id \/ j = id
        BY <1>1, <1>3, <2>2 DEF InFlight
    <2>3. QED
        BY <1>1, <2>1, <2>2
<1>9. PastIsBehind'
    BY <1>1, <1>2, <1>4, <1>5 DEF PastIsBehind, Inv
<1>10. IdsFollowTime'
    <2> SUFFICES ASSUME NEW i \in DOMAIN rows', NEW j \in DOMAIN rows', i < j
                 PROVE  /\ rows'[i].gathered_at <= rows'[j].gathered_at
                        /\ rows'[i].birth < rows'[j].birth
        BY DEF IdsFollowTime
    <2>1. CASE i \in DOMAIN rows /\ j \in DOMAIN rows
        BY <1>1, <2>1 DEF IdsFollowTime, Inv
    <2>2. CASE i \in DOMAIN rows /\ j = id
        BY <1>1, <1>2, <1>4, <1>5, <2>2 DEF PastIsBehind, Inv
    <2>3. i # id
        BY <1>1, <1>4, <1>6
    <2>4. QED
        BY <1>1, <2>1, <2>2, <2>3
<1>11. QED
    BY <1>7, <1>8, <1>9, <1>10 DEF Inv

LEMMA ReleaseKeepsInv ==
    ASSUME Inv, NEW r, ReleaseStep(r), TypeOK'
    PROVE  Inv'
<1>1. \A i \in DOMAIN rows' :
         /\ i \in DOMAIN rows
         /\ rows'[i].report = rows[i].report
         /\ rows'[i].run_id = rows[i].run_id
         /\ rows'[i].gathered_at = rows[i].gathered_at
         /\ rows'[i].birth = rows[i].birth
         /\ rows'[i].status = "gathering" => rows[i].status = "gathering"
    BY DEF ReleaseStep, OnlyReleases
<1>2. \A i \in DOMAIN rows : rows[i].gathered_at \in Nat
    BY DEF Inv, TypeOK, IsTable, Row
<1>3. births' = births /\ now' \in Nat /\ now \in Nat /\ now' >= now
    BY DEF ReleaseStep, Inv, TypeOK
<1>4. UniqueRunIds'
    BY <1>1 DEF UniqueRunIds, Inv
<1>5. OneOpenRunPerReport'
    BY <1>1 DEF OneOpenRunPerReport, Inv
<1>6. PastIsBehind'
    BY <1>1, <1>2, <1>3 DEF PastIsBehind, Inv
<1>7. IdsFollowTime'
    BY <1>1 DEF IdsFollowTime, Inv
<1>8. QED
    BY <1>4, <1>5, <1>6, <1>7 DEF Inv

LEMMA InitInv == Init => Inv
<1> SUFFICES ASSUME Init PROVE Inv
    OBVIOUS
<1>1. DOMAIN rows = {}
    BY DEF Init
<1>2. QED
    BY <1>1, InitTypeOK
       DEF Inv, UniqueRunIds, OneOpenRunPerReport, PastIsBehind, IdsFollowTime

LEMMA NextInv == Inv /\ [Next]_vars => Inv'
<1> SUFFICES ASSUME Inv, [Next]_vars PROVE Inv'
    OBVIOUS
<1>1. TypeOK'
    BY NextTypeOK DEF Inv
<1>2. QED
    BY <1>1, StepShape, InsertKeepsInv, ReleaseKeepsInv DEF Inv

LEMMA InvHolds == Spec => []Inv
BY InitInv, NextInv, PTL DEF Spec

(* The per-report lock, under every interleaving of the two threads'       *)
(* statements, crashes included.                                           *)
THEOREM LockIsExclusive == Spec => []OneOpenRunPerReport
<1>1. Inv => OneOpenRunPerReport
    BY DEF Inv
<1>2. QED
    BY <1>1, InvHolds, PTL

(* Newest-first is one order although ids are reused.                      *)
THEOREM IdOrderIsTimeOrder == Spec => []IdsFollowTime
<1>1. Inv => IdsFollowTime
    BY DEF Inv
<1>2. QED
    BY <1>1, InvHolds, PTL

(* A finished run is never written again.                                  *)
THEOREM FinishedRunsStay == Spec => TerminalIsForever
<1> DEFINE Stays == \A i \in DOMAIN rows \cap DOMAIN rows' :
                       rows[i].status # "gathering" => rows'[i] = rows[i]
<1>1. Inv /\ [Next]_vars => [Stays]_vars
    <2> SUFFICES ASSUME Inv, [Next]_vars PROVE Stays
        OBVIOUS
    <2>1. ASSUME NEW t \in Threads, NEW id \in RowIds, InsertStep(t, id) PROVE Stays
        BY <2>1, InsertStepEffect DEF Inv
    <2>2. ASSUME NEW r, ReleaseStep(r) PROVE Stays
        BY <2>2 DEF ReleaseStep, OnlyReleases
    <2>3. QED
        BY <2>1, <2>2, StepShape DEF Inv
<1>2. QED
    BY <1>1, InvHolds, PTL DEF Spec, TerminalIsForever

(* What get_latest_output answers is never older than what it answered.    *)
THEOREM LatestIsMonotone == Spec => LatestMovesForward
<1> DEFINE Stays == \A i \in DOMAIN rows \cap DOMAIN rows' :
                       rows[i].status # "gathering" => rows'[i] = rows[i]
           Forward == \A r \in Reports : \A i \in LatestOutput(rows, r) : i \in DOMAIN rows' =>
                         /\ i \in Readable(rows', r)
                         /\ \A j \in LatestOutput(rows', r) : rows'[j].birth >= rows[i].birth
<1>1. Inv' /\ [Stays]_vars => [Forward]_vars
    <2> SUFFICES ASSUME Inv', Stays, NEW r \in Reports,
                        NEW i \in LatestOutput(rows, r), i \in DOMAIN rows'
                 PROVE  /\ i \in Readable(rows', r)
                        /\ \A j \in LatestOutput(rows', r) : rows'[j].birth >= rows[i].birth
        OBVIOUS
    <2>1. i \in DOMAIN rows /\ rows[i].report = r /\ rows[i].status \in {"ready", "compiled"}
        BY DEF LatestOutput, Readable, RowsOf
    <2>2. rows'[i] = rows[i]
        BY <2>1
    <2>3. i \in Readable(rows', r)
        BY <2>1, <2>2 DEF Readable, RowsOf
    <2>4. ASSUME NEW j \in LatestOutput(rows', r) PROVE rows'[j].birth >= rows'[i].birth
        <3>1. j \in DOMAIN rows' /\ ~Newer(rows', i, j)
            BY <2>3, <2>4 DEF LatestOutput, Readable, RowsOf
        <3>2. /\ i \in Nat /\ j \in Nat
              /\ rows'[i].birth \in Nat /\ rows'[j].birth \in Nat
              /\ rows'[i].gathered_at \in Nat /\ rows'[j].gathered_at \in Nat
            BY <3>1 DEF Inv, TypeOK, IsTable, Row, RowIds
        <3>3. i > j => /\ rows'[j].gathered_at <= rows'[i].gathered_at
                       /\ rows'[j].birth < rows'[i].birth
            BY <3>1 DEF Inv, IdsFollowTime
        <3>4. i < j => rows'[i].birth < rows'[j].birth
            BY <3>1 DEF Inv, IdsFollowTime
        <3>5. QED
            BY <3>1, <3>2, <3>3, <3>4 DEF Newer
    <2>5. QED
        BY <2>2, <2>3, <2>4
<1>2. Spec => [][Stays]_vars
    BY FinishedRunsStay DEF TerminalIsForever
<1>3. QED
    BY <1>1, <1>2, InvHolds, PTL DEF LatestMovesForward
-----------------------------------------------------------------------------
(* The table implements RunLifecycle.                                      *)

LEMMA HolderOfOpenRun ==
    ASSUME NEW T, NEW r, \A i, j \in InFlight(T, r) : i = j
    PROVE  /\ InFlight(T, r) = {} => Holder(T, r) = 0
           /\ \A i \in InFlight(T, r) : Holder(T, r) = T[i].birth
BY DEF Holder

LEMMA OneInFlight ==
    ASSUME OneOpenRunPerReport, NEW r
    PROVE  \A i, j \in InFlight(rows, r) : i = j
BY DEF OneOpenRunPerReport, InFlight

LEMMA SameInFlightSameHolder ==
    ASSUME OneOpenRunPerReport, NEW r, InFlight(rows', r) = InFlight(rows, r),
           \A i \in InFlight(rows, r) : rows'[i].birth = rows[i].birth
    PROVE  Holder(rows', r) = Holder(rows, r)
<1>1. \A i, j \in InFlight(rows, r) : i = j
    BY OneInFlight
<1>2. CASE InFlight(rows, r) = {}
    BY <1>2 DEF Holder
<1>3. CASE InFlight(rows, r) # {}
    <2>1. PICK i \in InFlight(rows, r) : TRUE
        BY <1>3
    <2>2. Holder(rows, r) = rows[i].birth /\ Holder(rows', r) = rows'[i].birth
        BY <1>1, <2>1, HolderOfOpenRun
    <2>3. QED
        BY <2>1, <2>2
<1>4. QED
    BY <1>2, <1>3

LEMMA InsertImplements ==
    ASSUME Inv, Inv', NEW t \in Threads, NEW id \in RowIds, InsertStep(t, id)
    PROVE  Lifecycle!Next
<1> DEFINE row == NewRow(t)
           holder == [r \in Reports |-> Holder(rows, r)]
<1>1. /\ DOMAIN rows' = DOMAIN rows \cup {id}
      /\ id \notin DOMAIN rows
      /\ rows'[id] = row
      /\ \A j \in DOMAIN rows : rows'[j] = rows[j]
    BY InsertStepEffect DEF Inv
<1>2. row.birth = births + 1
    BY DEF NewRow
<1>3. row.report \in Reports /\ births' = births + 1
    BY DEF InsertStep, Row
<1>4. row.status = "gathering" => InFlight(rows, row.report) = {}
    BY DEF InsertStep, BreaksUniqueIndex
<1>5. ASSUME NEW r \in Reports, r # row.report \/ row.status # "gathering"
      PROVE  Holder(rows', r) = Holder(rows, r)
    <2>1. InFlight(rows', r) = InFlight(rows, r)
        BY <1>1, <1>5 DEF InFlight
    <2>2. \A i \in InFlight(rows, r) : rows'[i].birth = rows[i].birth
        BY <1>1 DEF InFlight
    <2>3. QED
        BY <2>1, <2>2, SameInFlightSameHolder DEF Inv
<1>6. CASE row.status = "gathering"
    <2>1. Holder(rows, row.report) = 0
        BY <1>4, <1>6 DEF Holder
    <2>2. InFlight(rows', row.report) = {id}
        BY <1>1, <1>4, <1>6 DEF InFlight
    <2>3. Holder(rows', row.report) = births + 1
        BY <1>1, <1>2, <2>2, HolderOfOpenRun
    <2>4. holder' = [holder EXCEPT ![row.report] = births + 1]
        BY <1>3, <1>5, <2>3
    <2>5. Lifecycle!Open(row.report)
        BY <1>3, <2>1, <2>4 DEF Lifecycle!Open
    <2>6. QED
        BY <1>3, <2>5 DEF Lifecycle!Next
<1>7. CASE row.status # "gathering"
    <2>1. holder' = holder
        BY <1>5, <1>7
    <2>2. QED
        BY <1>3, <2>1 DEF Lifecycle!Next, Lifecycle!SaveDirect
<1>8. QED
    BY <1>6, <1>7

LEMMA ReleaseImplements ==
    ASSUME Inv, NEW r, ReleaseStep(r)
    PROVE  [Lifecycle!Next]_(Lifecycle!vars)
<1> DEFINE holder == [s \in Reports |-> Holder(rows, s)]
<1>1. births' = births
    BY DEF ReleaseStep
<1>2. \A i \in DOMAIN rows' :
         /\ i \in DOMAIN rows
         /\ rows'[i].report = rows[i].report
         /\ rows'[i].birth = rows[i].birth
         /\ rows'[i].status = "gathering" => rows[i].status = "gathering"
    BY DEF ReleaseStep, OnlyReleases
<1>3. ASSUME NEW s \in Reports, s # r PROVE Holder(rows', s) = Holder(rows, s)
    <2>1. InFlight(rows', s) = InFlight(rows, s)
        BY <1>2, <1>3 DEF ReleaseStep, InFlight
    <2>2. \A i \in InFlight(rows', s) : rows'[i].birth = rows[i].birth
        BY <1>2 DEF InFlight
    <2>3. QED
        BY <2>1, <2>2, SameInFlightSameHolder DEF Inv
<1>4. InFlight(rows', r) \subseteq InFlight(rows, r)
    BY <1>2 DEF InFlight
<1>5. CASE InFlight(rows', r) = InFlight(rows, r)
    <2>1. \A i \in InFlight(rows', r) : rows'[i].birth = rows[i].birth
        BY <1>2 DEF InFlight
    <2>2. Holder(rows', r) = Holder(rows, r)
        BY <1>5, <2>1, SameInFlightSameHolder DEF Inv
    <2>3. holder' = holder
        BY <1>3, <2>2
    <2>4. QED
        BY <1>1, <2>3 DEF Lifecycle!vars
<1>6. CASE InFlight(rows', r) # InFlight(rows, r)
    <2>1. PICK i \in InFlight(rows, r) : i \notin InFlight(rows', r)
        BY <1>4, <1>6
    <2>2. \A j \in InFlight(rows, r) : j = i
        BY OneInFlight DEF Inv
    <2>3. InFlight(rows', r) = {}
        BY <1>4, <2>1, <2>2
    <2>4. r \in Reports /\ rows[i].birth # 0
        BY <2>1 DEF InFlight, Inv, TypeOK, IsTable, Row
    <2>5. Holder(rows, r) # 0
        BY <2>2, <2>4, HolderOfOpenRun
    <2>6. Holder(rows', r) = 0
        BY <2>3 DEF Holder
    <2>7. holder' = [holder EXCEPT ![r] = 0]
        BY <1>3, <2>4, <2>6
    <2>8. Lifecycle!Close(r)
        BY <1>1, <2>4, <2>5, <2>7 DEF Lifecycle!Close
    <2>9. QED
        BY <2>4, <2>8 DEF Lifecycle!Next
<1>7. QED
    BY <1>5, <1>6

(* Taking the per-report lock is atomic, and a run that let go of it never *)
(* holds it again, although begin_run and save_output are several          *)
(* statements each and two threads interleave them.                        *)
THEOREM RunsImplementLifecycle == Spec => LifecycleSpec
<1>1. Init => Lifecycle!Init
    BY DEF Init, Lifecycle!Init, Holder, InFlight
<1>2. Inv /\ Inv' /\ [Next]_vars => [Lifecycle!Next]_(Lifecycle!vars)
    BY StepShape, InsertImplements, ReleaseImplements DEF Inv
<1>3. QED
    BY <1>1, <1>2, InvHolds, PTL DEF Spec, LifecycleSpec, Lifecycle!Spec

-----------------------------------------------------------------------------
(***************************************************************************)
(* Where the findings of a save_output call end up, for every set of       *)
(* reports, lock TTL and bound: in one row, in none when the call raised,  *)
(* and with the lock they found held let go.                               *)
(***************************************************************************)

\* The steps of save_output that come after its first statement.
Saving == {"adopt", "mintDirect", "insertDirect"}

(* What the locals of the calls in progress are.                           *)
Calls ==
    /\ pc["scheduler"] \notin Saving
    /\ \A t \in Threads : pc[t] \in {"mint", "insert"} => call[t].payload = 0
    /\ pc["server"] \in {"idle", "prune"} => call["server"] = NoCall

(* A save that has stored nothing yet: its findings are in no row, it has  *)
(* not raised, and of its report only the run it adopted may be older.     *)
Pending ==
    LET c == call["server"]
    IN  /\ c.payload \in 1..saves
        /\ c.payload \notin refused
        /\ c.since <= births
        /\ \A i \in DOMAIN rows : rows[i].payload # c.payload
        /\ \A i \in InFlight(rows, c.report) :
              \/ rows[i].birth > c.since
              \/ pc["server"] = "adopt" /\ rows[i].run_id = c.run_id

Numbered ==
    /\ \A i \in DOMAIN rows : rows[i].payload <= saves
    /\ \A n \in refused : n <= saves

SaveInv ==
    /\ Inv
    /\ Calls
    /\ Numbered
    /\ SaveLandsOnce
    /\ pc["server"] \in Saving => Pending

\* The body of SaveReleasesLock.
Since == IF call["server"] = NoCall THEN births ELSE call["server"].since

Lands(i) ==
    /\ rows'[i].payload # 0
    /\ rows'[i].status # "gathering"
    /\ \A j \in DOMAIN rows : rows[j].payload # rows'[i].payload

Frees ==
    \A i \in DOMAIN rows' : Lands(i) =>
        \A j \in InFlight(rows', rows'[i].report) : rows'[j].birth > Since
-----------------------------------------------------------------------------
LEMMA NextCalls == TypeOK /\ Calls /\ [Next]_vars => Calls'
<1> SUFFICES ASSUME TypeOK, Calls, [Next]_vars PROVE Calls'
    OBVIOUS
<1>t. "server" \in Threads /\ "scheduler" \in Threads /\ Threads = {"server", "scheduler"}
    BY DEF Threads
<1>y. pc \in [Threads -> Steps] /\ call \in [Threads -> Call \cup {NoCall}]
    BY DEF TypeOK
<1>s. ASSUME UNCHANGED <<pc, call>> PROVE Calls'
    BY <1>s DEF Calls
<1>r. ASSUME NEW t \in Threads, Return(t) PROVE Calls'
    BY <1>r, <1>t, <1>y DEF Return, Goto, Calls, Saving
<1>1. ASSUME NEW t \in Threads, NEW r \in Reports, BeginRun(t, r) PROVE Calls'
    BY <1>1, <1>t, <1>y DEF BeginRun, Goto, Calls, Saving
<1>2. ASSUME NEW t \in Threads, MintRunId(t) PROVE Calls'
    <2>1. PICK s \in 1..(MaxBirths + 1) :
              LET id == [report |-> call[t].report, at |-> now, suffix |-> s]
              IN  Goto(t, IF pc[t] = "mint" THEN "insert" ELSE "insertDirect",
                       [call[t] EXCEPT !.run_id = id])
        BY <1>2 DEF MintRunId
    <2> DEFINE id == [report |-> call[t].report, at |-> now, suffix |-> s]
               c  == [call[t] EXCEPT !.run_id = id]
    <2>2. call[t] \in Call
        BY <1>2 DEF MintRunId, TypeOK
    <2>3. c.payload = call[t].payload
        BY <2>2 DEF Call
    <2>4. Goto(t, IF pc[t] = "mint" THEN "insert" ELSE "insertDirect", c)
        BY <2>1
    <2>5. pc[t] \in {"mint", "mintDirect"}
        BY <1>2 DEF MintRunId
    <2> HIDE DEF c
    <2>6. CASE pc[t] = "mint"
        BY <2>3, <2>4, <2>6, <1>t, <1>y DEF Goto, Calls, Saving
    <2>7. CASE pc[t] = "mintDirect"
        BY <2>3, <2>4, <2>7, <1>t, <1>y DEF Goto, Calls, Saving
    <2>8. QED
        BY <2>5, <2>6, <2>7
<1>3. ASSUME NEW t \in Threads, InsertRun(t) PROVE Calls'
    BY <1>3, <1>r DEF InsertRun, Insert
<1>4. ASSUME NEW t \in Threads, RefuseRun(t) PROVE Calls'
    BY <1>4, <1>r DEF RefuseRun
<1>5. ASSUME NEW f \in fires, Dispatched(f) \/ DispatchFailed(f) PROVE Calls'
    BY <1>5, <1>s DEF Dispatched, DispatchFailed
<1>6. ASSUME NEW f \in fires, NEW status \in SaveStatuses, SaveByRunId(f, status)
      PROVE  Calls'
    BY <1>6, <1>s DEF SaveByRunId
<1>7. ASSUME NEW r \in Reports, NEW status \in SaveStatuses, SaveWithoutRunId(r, status)
      PROVE  Calls'
    <2>1. PICK c : Goto("server", "mintDirect", c) \/ Goto("server", "adopt", c)
        BY <1>7 DEF SaveWithoutRunId
    <2>2. QED
        BY <2>1, <1>t, <1>y DEF Goto, Calls, Saving
<1>8. CASE Adopt
    <2>1. PICK c : Return("server") \/ Goto("server", "mintDirect", c)
        BY <1>8 DEF Adopt
    <2>2. QED
        BY <2>1, <1>r, <1>t, <1>y DEF Goto, Calls, Saving
<1>9. CASE InsertDirect \/ RefuseDirect
    BY <1>9, <1>r, <1>t DEF InsertDirect, Insert, RefuseDirect
<1>10. ASSUME NEW i, DeleteOutput(i) PROVE Calls'
    BY <1>10, <1>s DEF DeleteOutput
<1>11. ASSUME NEW ids, PruneSelect(ids) PROVE Calls'
    BY <1>11, <1>t, <1>y DEF PruneSelect, Calls, Saving
<1>12. CASE PruneDelete
    <2>1. PICK step \in {"idle", "prune"} : pc' = [pc EXCEPT !["server"] = step]
        BY <1>12 DEF PruneDelete
    <2>2. QED
        BY <1>12, <2>1, <1>t, <1>y DEF PruneDelete, Calls, Saving
<1>13. CASE Restart
    BY <1>13, <1>t DEF Restart, Calls, Saving
<1>14. CASE Clock
    BY <1>14, <1>s DEF Clock
<1>15. CASE UNCHANGED vars
    BY <1>15, <1>s DEF vars
<1>16. QED
    BY <1>1, <1>2, <1>3, <1>4, <1>5, <1>6, <1>7, <1>8, <1>9, <1>10, <1>11, <1>12, <1>13,
       <1>14, <1>15 DEF Next
-----------------------------------------------------------------------------
(* A step that stores no findings, and leaves the save in progress where   *)
(* it is, ends it, or mints its run id.                                    *)
QuietStep ==
    /\ OnlyReleases(rows, rows')
    /\ \A i \in DOMAIN rows' : rows'[i].payload = rows[i].payload
    /\ UNCHANGED <<births, saves, refused>>
    /\ \/ pc'["server"] \notin Saving
       \/ /\ pc["server"] \in Saving
          /\ pc'["server"] = pc["server"] \/ pc["server"] # "adopt"
          /\ call'["server"].report = call["server"].report
          /\ call'["server"].run_id = call["server"].run_id \/ pc["server"] # "adopt"
          /\ call'["server"].payload = call["server"].payload
          /\ call'["server"].since = call["server"].since

LEMMA QuietKeeps ==
    ASSUME SaveInv, Inv', Calls', QuietStep
    PROVE  SaveInv' /\ Frees
<1>1. \A i \in DOMAIN rows' :
         /\ i \in DOMAIN rows
         /\ rows'[i].report = rows[i].report
         /\ rows'[i].run_id = rows[i].run_id
         /\ rows'[i].birth = rows[i].birth
         /\ rows'[i].payload = rows[i].payload
         /\ rows'[i].status = "gathering" => rows[i].status = "gathering"
    BY DEF QuietStep, OnlyReleases
<1>2. UNCHANGED <<births, saves, refused>>
    BY DEF QuietStep
<1>3. Numbered'
    BY <1>1, <1>2 DEF SaveInv, Numbered
<1>4. SaveLandsOnce'
    BY <1>1, <1>2 DEF SaveInv, SaveLandsOnce
<1>5. pc'["server"] \in Saving => Pending'
    BY <1>1, <1>2 DEF QuietStep, SaveInv, Pending, InFlight
<1>6. Frees
    BY <1>1 DEF Frees, Lands
<1>7. QED
    BY <1>3, <1>4, <1>5, <1>6 DEF SaveInv

(* An INSERT stores the findings of a save if its call carries any, and    *)
(* the save's call ends with it.                                           *)
LEMMA InsertKeeps ==
    ASSUME SaveInv, Inv', Calls', NEW t \in Threads,
           pc[t] \in {"insert", "insertDirect"}, Insert(t),
           UNCHANGED <<now, saves, refused>>
    PROVE  SaveInv' /\ Frees
<1>t. "server" \in Threads /\ "scheduler" \in Threads /\ Threads = {"server", "scheduler"}
    BY DEF Threads
<1>y. /\ pc \in [Threads -> Steps] /\ call \in [Threads -> Call \cup {NoCall}]
      /\ births \in Nat /\ saves \in Nat
      /\ \A i \in DOMAIN rows : rows[i].payload \in Nat /\ rows[i].birth \in Nat
    BY DEF SaveInv, Inv, TypeOK, IsTable, Row
<1> DEFINE row == NewRow(t)
<1>1. PICK id \in RowIds : InsertStep(t, id)
    BY InsertIsInsertStep DEF SaveInv, Inv
<1>2. /\ DOMAIN rows' = DOMAIN rows \cup {id}
      /\ id \notin DOMAIN rows
      /\ rows'[id] = row
      /\ \A j \in DOMAIN rows : rows'[j] = rows[j]
    BY <1>1, InsertStepEffect DEF SaveInv, Inv
<1>3. /\ row.payload = call[t].payload /\ row.birth = births + 1
      /\ row.report = call[t].report /\ row.status = call[t].status
    BY DEF NewRow
<1>4. Return(t) /\ births' = births + 1
    BY DEF Insert
<1>5. pc'[t] = "idle" /\ \A u \in Threads : u # t => pc'[u] = pc[u] /\ call'[u] = call[u]
    BY <1>4, <1>y DEF Return, Goto
<1> HIDE DEF row
<1>6. CASE pc[t] = "insert"
    <2>1. row.payload = 0
        BY <1>3, <1>6 DEF SaveInv, Calls
    <2>2. Numbered'
        BY <1>2, <1>y, <2>1 DEF SaveInv, Numbered
    <2>3. SaveLandsOnce'
        BY <1>2, <2>1 DEF SaveInv, SaveLandsOnce
    <2>4. ASSUME pc'["server"] \in Saving PROVE Pending'
        <3>1. t # "server" /\ pc["server"] \in Saving /\ pc'["server"] = pc["server"]
              /\ call'["server"] = call["server"]
            BY <1>t, <1>5, <2>4 DEF Saving
        <3>2. Pending
            BY <3>1 DEF SaveInv
        <3> DEFINE c == call["server"]
        <3>3. c.payload \in 1..saves /\ c.payload \notin refused /\ c.since <= births
            BY <3>2 DEF Pending
        <3>4. c \in Call
            BY <1>t, <3>1 DEF SaveInv, Inv, TypeOK, Saving
        <3>5. c.since \in Nat
            BY <3>4 DEF Call
        <3>6. \A i \in DOMAIN rows' : rows'[i].payload # c.payload
            BY <1>2, <2>1, <3>2, <3>3 DEF Pending
        <3>7. \A i \in InFlight(rows', c.report) :
                 \/ rows'[i].birth > c.since
                 \/ pc["server"] = "adopt" /\ rows'[i].run_id = c.run_id
            <4> SUFFICES ASSUME NEW i \in InFlight(rows', c.report)
                         PROVE  \/ rows'[i].birth > c.since
                                \/ pc["server"] = "adopt" /\ rows'[i].run_id = c.run_id
                OBVIOUS
            <4>1. CASE i = id
                BY <1>2, <1>3, <1>y, <3>3, <3>5, <4>1
            <4>2. CASE i # id
                BY <1>2, <3>2, <4>2 DEF InFlight, Pending
            <4>3. QED
                BY <4>1, <4>2
        <3>8. c.since <= births + 1
            BY <1>y, <3>3, <3>5
        <3>9. QED
            BY <1>4, <3>1, <3>3, <3>6, <3>7, <3>8 DEF Pending
    <2>5. Frees
        BY <1>2, <2>1 DEF Frees, Lands
    <2>6. QED
        BY <2>2, <2>3, <2>4, <2>5 DEF SaveInv
<1>7. CASE pc[t] = "insertDirect"
    <2>1. t = "server" /\ Pending
        BY <1>t, <1>7 DEF SaveInv, Calls, Saving
    <2> DEFINE c == call["server"]
    <2>2. c.payload \in 1..saves /\ c.payload \notin refused
        BY <2>1 DEF Pending
    <2>3. c \in Call
        BY <1>t, <1>7, <2>1 DEF SaveInv, Inv, TypeOK
    <2>4. Numbered'
        BY <1>2, <1>3, <2>1, <2>2 DEF SaveInv, Numbered
    <2>5. \A i \in DOMAIN rows : rows[i].payload # row.payload
        BY <1>3, <2>1 DEF Pending
    <2>6. SaveLandsOnce'
        BY <1>2, <1>3, <2>1, <2>2, <2>5 DEF SaveInv, SaveLandsOnce
    <2>7. pc'["server"] \notin Saving
        BY <1>5, <2>1 DEF Saving
    <2>8. Frees
        <3> SUFFICES ASSUME NEW i \in DOMAIN rows', Lands(i),
                            NEW j \in InFlight(rows', rows'[i].report)
                     PROVE  rows'[j].birth > Since
            BY DEF Frees
        <3>1. i = id
            BY <1>2 DEF Lands
        <3>2. j \in InFlight(rows, c.report)
            BY <1>2, <1>3, <2>1, <3>1 DEF InFlight, Lands
        <3>3. rows[j].birth > c.since /\ rows'[j] = rows[j]
            BY <1>2, <1>7, <2>1, <3>2 DEF Pending, InFlight
        <3>4. Since = c.since
            BY <2>3, NoCallAssumption DEF Since
        <3>5. QED
            BY <3>3, <3>4
    <2>9. QED
        BY <2>4, <2>6, <2>7, <2>8 DEF SaveInv
<1>8. QED
    BY <1>6, <1>7

(* complete_run stores findings that are in no row yet in one row at most: *)
(* the run that holds the report's lock, which it frees.                   *)
LEMMA CompleteLands ==
    ASSUME SaveInv, NEW id, NEW r, NEW status \in Statuses, NEW p \in Nat \ {0},
           rows' = CompleteRun(rows, id, r, status, p),
           saves' \in Nat, saves' >= saves, p <= saves',
           \A i \in DOMAIN rows : rows[i].payload # p,
           \/ Completable(rows, id, r) = {} /\ refused' = refused \cup {p}
           \/ p \notin refused /\ refused' = refused
    PROVE  Numbered' /\ SaveLandsOnce' /\ Frees
<1>y. /\ saves \in Nat /\ refused \subseteq Nat
      /\ \A i \in DOMAIN rows : rows[i].payload \in Nat
      /\ rows \in [DOMAIN rows -> Row]
    BY DEF SaveInv, Inv, TypeOK, IsTable, Row
<1>1. /\ DOMAIN rows' = DOMAIN rows
      /\ \A i \in DOMAIN rows : i \notin Completable(rows, id, r) => rows'[i] = rows[i]
    BY DEF CompleteRun
<1>2. \A i \in Completable(rows, id, r) :
         rows'[i].payload = p /\ rows'[i].status = status /\ rows'[i].report = r
    BY <1>y DEF CompleteRun, Completable, InFlight, Row
<1>3. \A i, j \in InFlight(rows, r) : i = j
    BY OneInFlight DEF SaveInv, Inv
<1>4. Completable(rows, id, r) \subseteq InFlight(rows, r)
    BY DEF Completable
<1>5. Numbered'
    <2>1. ASSUME NEW i \in DOMAIN rows' PROVE rows'[i].payload <= saves'
        BY <1>y, <1>1, <1>2 DEF SaveInv, Numbered
    <2>2. ASSUME NEW n \in refused' PROVE n <= saves'
        BY <1>y DEF SaveInv, Numbered
    <2>3. QED
        BY <2>1, <2>2 DEF Numbered
<1>6. SaveLandsOnce'
    <2> SUFFICES ASSUME NEW i \in DOMAIN rows', rows'[i].payload # 0
                 PROVE  /\ rows'[i].payload \notin refused'
                        /\ \A j \in DOMAIN rows' : rows'[j].payload = rows'[i].payload => i = j
        BY DEF SaveLandsOnce
    <2>1. CASE i \in Completable(rows, id, r)
        <3>1. rows'[i].payload = p /\ p \notin refused'
            BY <1>2, <2>1
        <3>2. ASSUME NEW j \in DOMAIN rows', rows'[j].payload = p PROVE i = j
            <4>1. j \in Completable(rows, id, r)
                BY <1>1, <3>2
            <4>2. QED
                BY <1>3, <1>4, <2>1, <4>1
        <3>3. QED
            BY <3>1, <3>2
    <2>2. CASE i \notin Completable(rows, id, r)
        <3>1. i \in DOMAIN rows /\ rows'[i] = rows[i] /\ rows[i].payload # p
            BY <1>1, <2>2
        <3>2. rows[i].payload \notin refused'
            BY <3>1 DEF SaveInv, SaveLandsOnce
        <3>3. ASSUME NEW j \in DOMAIN rows', rows'[j].payload = rows'[i].payload PROVE i = j
            <4>1. j \notin Completable(rows, id, r)
                BY <1>2, <3>1, <3>3
            <4>2. QED
                BY <1>1, <3>1, <3>3, <4>1 DEF SaveInv, SaveLandsOnce
        <3>4. QED
            BY <3>1, <3>2, <3>3
    <2>3. QED
        BY <2>1, <2>2
<1>7. Frees
    <2> SUFFICES ASSUME NEW i \in DOMAIN rows', Lands(i),
                        NEW j \in InFlight(rows', rows'[i].report)
                 PROVE  FALSE
        BY DEF Frees
    <2>1. i \in Completable(rows, id, r)
        BY <1>1 DEF Lands
    <2>2. rows'[i].status # "gathering" /\ rows'[i].report = r
        BY <1>2, <2>1 DEF Lands
    <2>3. j # i
        BY <2>2 DEF InFlight
    <2>4. j \notin Completable(rows, id, r)
        BY <1>3, <1>4, <2>1, <2>3
    <2>5. j \in InFlight(rows, r)
        BY <1>1, <2>2, <2>4 DEF InFlight
    <2>6. QED
        BY <1>3, <1>4, <2>1, <2>3, <2>5
<1>8. QED
    BY <1>5, <1>6, <1>7
-----------------------------------------------------------------------------
LEMMA InitSaves == Init => SaveInv
<1> SUFFICES ASSUME Init PROVE SaveInv
    OBVIOUS
<1>1. DOMAIN rows = {} /\ refused = {}
    BY DEF Init
<1>2. Inv
    BY InitInv
<1>3. Calls
    BY DEF Init, Calls, Saving, Threads
<1>4. pc["server"] \notin Saving
    BY DEF Init, Saving, Threads
<1>5. QED
    BY <1>1, <1>2, <1>3, <1>4 DEF SaveInv, Numbered, SaveLandsOnce

LEMMA NextSaves == SaveInv /\ [Next]_vars => SaveInv' /\ Frees
<1> DEFINE Goal == SaveInv' /\ Frees
<1> SUFFICES ASSUME SaveInv, [Next]_vars PROVE Goal
    OBVIOUS
<1>t. "server" \in Threads /\ "scheduler" \in Threads /\ Threads = {"server", "scheduler"}
    BY DEF Threads
<1>I. Inv' /\ Calls'
    BY NextInv, NextCalls DEF SaveInv, Inv
<1>y. /\ pc \in [Threads -> Steps] /\ call \in [Threads -> Call \cup {NoCall}]
      /\ births \in Nat /\ saves \in Nat /\ refused \subseteq Nat
      /\ IsTable(rows)
      /\ \A i \in DOMAIN rows : rows[i].payload \in Nat /\ rows[i].birth \in Nat
    BY DEF SaveInv, Inv, TypeOK, IsTable, Row
<1>q. ASSUME QuietStep PROVE Goal
    BY <1>q, <1>I, QuietKeeps
<1>c. \/ pc["server"] \notin Saving
      \/ pc["server"] \in Saving /\ call["server"] \in Call
    BY <1>t DEF SaveInv, Inv, TypeOK, Saving
<1>s. ASSUME pc'["server"] = pc["server"] \/ pc'["server"] \notin Saving,
             call'["server"] = call["server"] \/ pc'["server"] \notin Saving,
             OnlyReleases(rows, rows'),
             \A i \in DOMAIN rows' : rows'[i].payload = rows[i].payload,
             UNCHANGED <<births, saves, refused>>
      PROVE  Goal
    <2>1. QuietStep
        BY <1>s DEF QuietStep
    <2>2. QED
        BY <2>1, <1>q
<1>u. ASSUME UNCHANGED rows
      PROVE  /\ OnlyReleases(rows, rows')
             /\ \A i \in DOMAIN rows' : rows'[i].payload = rows[i].payload
    BY <1>u DEF OnlyReleases
<1>1. ASSUME NEW t \in Threads, NEW r \in Reports, BeginRun(t, r) PROVE Goal
    <2>1. OnlyReleases(rows, rows')
        BY <1>1, <1>y, ExpireIsStatement DEF BeginRun
    <2>2. \A i \in DOMAIN rows' : rows'[i].payload = rows[i].payload
        BY <1>1, <1>y DEF BeginRun, ExpireStaleRuns, Failed, IsTable, Row
    <2>3. \/ pc'["server"] = pc["server"] /\ call'["server"] = call["server"]
          \/ pc'["server"] \notin Saving
        BY <1>1, <1>t, <1>y DEF BeginRun, Goto, Saving
    <2>4. QED
        BY <1>1, <1>s, <2>1, <2>2, <2>3 DEF BeginRun
<1>2. ASSUME NEW t \in Threads, MintRunId(t) PROVE Goal
    <2>1. PICK s \in 1..(MaxBirths + 1) :
              LET id == [report |-> call[t].report, at |-> now, suffix |-> s]
              IN  Goto(t, IF pc[t] = "mint" THEN "insert" ELSE "insertDirect",
                       [call[t] EXCEPT !.run_id = id])
        BY <1>2 DEF MintRunId
    <2> DEFINE id == [report |-> call[t].report, at |-> now, suffix |-> s]
               c  == [call[t] EXCEPT !.run_id = id]
               step == IF pc[t] = "mint" THEN "insert" ELSE "insertDirect"
    <2>2. call[t] \in Call
        BY <1>2 DEF MintRunId, SaveInv, Inv, TypeOK
    <2>3. /\ c.payload = call[t].payload /\ c.report = call[t].report
          /\ c.since = call[t].since
        BY <2>2 DEF Call
    <2>4. Goto(t, step, c)
        BY <2>1
    <2>5. pc[t] \in {"mint", "mintDirect"} /\ UNCHANGED <<rows, births, saves, refused>>
        BY <1>2 DEF MintRunId
    <2>6. pc[t] = "mint" => step = "insert"
        OBVIOUS
    <2> HIDE DEF c, step
    <2>7. CASE t # "server" \/ pc[t] = "mint"
        <3>1. \/ pc'["server"] = pc["server"] /\ call'["server"] = call["server"]
              \/ pc'["server"] \notin Saving
            BY <2>4, <2>6, <2>7, <1>t, <1>y DEF Goto, Saving
        <3>2. QED
            BY <1>s, <1>u, <2>5, <3>1
    <2>8. CASE t = "server" /\ pc[t] = "mintDirect"
        <3>1. call'["server"] = c
            BY <2>4, <2>8, <1>t, <1>y DEF Goto
        <3>2. QuietStep
            BY <1>u, <2>3, <2>5, <2>8, <3>1 DEF QuietStep, Saving
        <3>3. QED
            BY <1>q, <3>2
    <2>9. QED
        BY <2>5, <2>7, <2>8
<1>3. ASSUME NEW t \in Threads, InsertRun(t) PROVE Goal
    BY <1>3, <1>I, InsertKeeps DEF InsertRun
<1>4. ASSUME NEW t \in Threads, RefuseRun(t) PROVE Goal
    <2>1. \/ pc'["server"] = pc["server"] /\ call'["server"] = call["server"]
          \/ pc'["server"] \notin Saving
        BY <1>4, <1>t, <1>y DEF RefuseRun, Return, Goto, Saving
    <2>2. QED
        BY <1>4, <1>s, <1>u, <2>1 DEF RefuseRun
<1>5. ASSUME NEW f \in fires, Dispatched(f) PROVE Goal
    BY <1>5, <1>s, <1>u DEF Dispatched
<1>6. ASSUME NEW f \in fires, DispatchFailed(f) PROVE Goal
    <2>1. OnlyReleases(rows, rows')
        BY <1>6, <1>y, FailIsStatement DEF DispatchFailed
    <2>2. \A i \in DOMAIN rows' : rows'[i].payload = rows[i].payload
        BY <1>6, <1>y DEF DispatchFailed, FailRun, Failed, IsTable, Row
    <2>3. QED
        BY <1>6, <1>s, <2>1, <2>2 DEF DispatchFailed
<1>7. ASSUME NEW f \in fires, NEW status \in SaveStatuses, SaveByRunId(f, status)
      PROVE  Goal
    <2> DEFINE p == saves + 1
    <2>1. p \in Nat \ {0} /\ saves' = p /\ pc["server"] = "idle" /\ UNCHANGED <<pc, call>>
        BY <1>7, <1>y DEF SaveByRunId, Save
    <2>2. (\A i \in DOMAIN rows : rows[i].payload # p) /\ p \notin refused
        BY <1>y DEF SaveInv, Numbered
    <2>3. status \in Statuses
        BY SaveStatusesAssumption
    <2>4. /\ rows' = CompleteRun(rows, f.run_id, f.run_id.report, status, p)
          /\ refused' = IF Completable(rows, f.run_id, f.run_id.report) = {}
                        THEN refused \cup {p} ELSE refused
        BY <1>7 DEF SaveByRunId
    <2>5. p <= saves' /\ saves' >= saves /\ saves' \in Nat
        BY <2>1, <1>y
    <2> HIDE DEF p
    <2>6. Numbered' /\ SaveLandsOnce' /\ Frees
        BY <2>1, <2>2, <2>3, <2>4, <2>5, CompleteLands
    <2>7. pc'["server"] \notin Saving
        BY <2>1 DEF Saving
    <2>8. QED
        BY <1>I, <2>6, <2>7 DEF SaveInv
<1>8. ASSUME NEW r \in Reports, NEW status \in SaveStatuses, SaveWithoutRunId(r, status)
      PROVE  Goal
    <2> DEFINE c == [report |-> r, run_id |-> NoRunId(r), status |-> status,
                     payload |-> saves + 1, since |-> births]
               d(i) == [c EXCEPT !.run_id = rows[i].run_id]
    <2>1. /\ UNCHANGED <<rows, births, refused>> /\ saves' = saves + 1
          /\ \/ InFlight(rows, r) = {} /\ Goto("server", "mintDirect", c)
             \/ \E i \in InFlight(rows, r) : Goto("server", "adopt", d(i))
        BY <1>8 DEF SaveWithoutRunId, Save
    <2>2. /\ Numbered' /\ SaveLandsOnce'
          /\ saves + 1 \notin refused
          /\ \A i \in DOMAIN rows : rows[i].payload # saves + 1
        BY <2>1, <1>y DEF SaveInv, Numbered, SaveLandsOnce
    <2>3. Frees
        BY <2>1 DEF Frees, Lands
    <2>4. \A i \in InFlight(rows, r) :
             /\ d(i).payload = saves + 1 /\ d(i).since = births
             /\ d(i).report = r /\ d(i).run_id = rows[i].run_id
        OBVIOUS
    <2>5. c.payload = saves + 1 /\ c.since = births /\ c.report = r
        OBVIOUS
    <2>6. \A i, j \in InFlight(rows, r) : i = j
        BY OneInFlight DEF SaveInv, Inv
    <2> HIDE DEF c, d
    <2>7. saves + 1 \in 1..saves' /\ births <= births'
        BY <2>1, <1>y
    <2>8. InFlight(rows', r) = InFlight(rows, r)
        BY <2>1 DEF InFlight
    <2>9. CASE InFlight(rows, r) = {} /\ Goto("server", "mintDirect", c)
        <3>1. call'["server"] = c
            BY <2>9, <1>t, <1>y DEF Goto
        <3>2. Pending'
            BY <2>1, <2>2, <2>5, <2>7, <2>8, <2>9, <3>1 DEF Pending
        <3>3. QED
            BY <1>I, <2>2, <2>3, <3>2 DEF SaveInv
    <2>10. ASSUME NEW i \in InFlight(rows, r), Goto("server", "adopt", d(i)) PROVE Goal
        <3>1. call'["server"] = d(i) /\ pc'["server"] = "adopt"
            BY <2>10, <1>t, <1>y DEF Goto
        <3>2. \A j \in InFlight(rows', r) : rows'[j].run_id = d(i).run_id
            BY <2>1, <2>4, <2>6, <2>8
        <3>3. Pending'
            BY <2>1, <2>2, <2>4, <2>7, <3>1, <3>2 DEF Pending
        <3>4. QED
            BY <1>I, <2>2, <2>3, <3>3 DEF SaveInv
    <2>11. QED
        BY <2>1, <2>9, <2>10
<1>9. CASE Adopt
    <2> DEFINE c == call["server"]
               d == [c EXCEPT !.run_id = NoRunId(c.report)]
    <2>1. pc["server"] = "adopt" /\ Pending /\ c \in Call
        BY <1>9, <1>c DEF Adopt, SaveInv, Saving
    <2>2. c.payload \in Nat \ {0} /\ c.payload <= saves /\ c.status \in Statuses
        BY <2>1, <1>y DEF Pending, Call
    <2>3. (\A i \in DOMAIN rows : rows[i].payload # c.payload) /\ c.payload \notin refused
        BY <2>1 DEF Pending
    <2>4. /\ rows' = CompleteRun(rows, c.run_id, c.report, c.status, c.payload)
          /\ UNCHANGED <<births, saves, refused>>
        BY <1>9 DEF Adopt
    <2>5. /\ d.payload = c.payload /\ d.since = c.since /\ d.report = c.report
        BY <2>1 DEF Call
    <2>6. \/ Completable(rows, c.run_id, c.report) # {} /\ Return("server")
          \/ /\ Completable(rows, c.run_id, c.report) = {}
             /\ Goto("server", "mintDirect", d)
        BY <1>9 DEF Adopt
    <2>7. \A i \in InFlight(rows, c.report) :
             rows[i].birth > c.since \/ rows[i].run_id = c.run_id
        BY <2>1 DEF Pending
    <2>8. c.payload \in 1..saves /\ c.since <= births
        BY <2>1 DEF Pending
    <2> HIDE DEF c, d
    <2>a. saves' \in Nat /\ saves' >= saves /\ c.payload <= saves'
        BY <2>2, <2>4, <1>y
    <2>9. Numbered' /\ SaveLandsOnce' /\ Frees
        <3>1. c.payload \notin refused /\ refused' = refused
            BY <2>3, <2>4
        <3>2. QED
            BY <2>2, <2>3, <2>4, <2>a, <3>1, CompleteLands
    <2>10. CASE Return("server")
        <3>1. pc'["server"] \notin Saving
            BY <2>10, <1>t, <1>y DEF Return, Goto, Saving
        <3>2. QED
            BY <1>I, <2>9, <3>1 DEF SaveInv
    <2>11. CASE Completable(rows, c.run_id, c.report) = {} /\ Goto("server", "mintDirect", d)
        <3>1. call'["server"] = d
            BY <2>11, <1>t, <1>y DEF Goto
        <3>2. rows' = rows
            BY <2>4, <2>11, <1>y DEF CompleteRun, IsTable
        <3>3. \A i \in InFlight(rows, c.report) : rows[i].birth > c.since
            BY <2>7, <2>11 DEF Completable
        <3>4. Pending'
            BY <2>3, <2>4, <2>5, <2>8, <3>1, <3>2, <3>3 DEF Pending
        <3>5. QED
            BY <1>I, <2>9, <3>4 DEF SaveInv
    <2>12. QED
        BY <2>6, <2>10, <2>11
<1>10. CASE InsertDirect
    BY <1>10, <1>t, <1>I, InsertKeeps DEF InsertDirect
<1>11. CASE RefuseDirect
    <2>1. Pending /\ UNCHANGED <<rows, births, saves>>
          /\ refused' = refused \cup {call["server"].payload}
        BY <1>11 DEF RefuseDirect, SaveInv, Saving
    <2>2. Numbered' /\ SaveLandsOnce'
        BY <2>1 DEF SaveInv, Numbered, SaveLandsOnce, Pending
    <2>3. Frees
        BY <2>1 DEF Frees, Lands
    <2>4. pc'["server"] \notin Saving
        BY <1>11, <1>t, <1>y DEF RefuseDirect, Return, Goto, Saving
    <2>5. QED
        BY <1>I, <2>2, <2>3, <2>4 DEF SaveInv
<1>d. ASSUME NEW i, rows' = Deleted(rows, i)
      PROVE  /\ OnlyReleases(rows, rows')
             /\ \A j \in DOMAIN rows' : rows'[j].payload = rows[j].payload
    BY <1>d, <1>y, DeleteIsStatement DEF Deleted
<1>12. ASSUME NEW i \in DOMAIN rows, DeleteOutput(i) PROVE Goal
    BY <1>12, <1>d, <1>s DEF DeleteOutput
<1>13. ASSUME NEW ids, PruneSelect(ids) PROVE Goal
    <2>1. pc'["server"] \notin Saving
        BY <1>13, <1>t, <1>y DEF PruneSelect, Saving
    <2>2. QED
        BY <1>13, <2>1, <1>s, <1>u DEF PruneSelect
<1>14. CASE PruneDelete
    <2>1. pc'["server"] \notin Saving
        BY <1>14, <1>t, <1>y DEF PruneDelete, Saving
    <2>2. PICK i : rows' = Deleted(rows, i)
        BY <1>14 DEF PruneDelete
    <2>3. QED
        BY <1>14, <1>d, <1>s, <2>1, <2>2 DEF PruneDelete
<1>15. CASE Restart
    <2>1. pc'["server"] \notin Saving
        BY <1>15, <1>t DEF Restart, Saving
    <2>2. QED
        BY <1>15, <2>1, <1>s, <1>u DEF Restart
<1>16. CASE Clock
    BY <1>16, <1>s, <1>u DEF Clock
<1>17. CASE UNCHANGED vars
    BY <1>17, <1>s, <1>u DEF vars
<1>18. QED
    BY <1>1, <1>2, <1>3, <1>4, <1>5, <1>6, <1>7, <1>8, <1>9, <1>10, <1>11, <1>12, <1>13,
       <1>14, <1>15, <1>16, <1>17 DEF Next

LEMMA SavesHold == Spec => []SaveInv
BY InitSaves, NextSaves, PTL DEF Spec

(* The findings of a save_output call end up in one row at most, and in    *)
(* none when the call raised, however its statements interleave with the   *)
(* scheduler's, with expiry, retention and crashes.                        *)
THEOREM SavesLandOnce == Spec => []SaveLandsOnce
<1>1. SaveInv => SaveLandsOnce
    BY DEF SaveInv
<1>2. QED
    BY <1>1, SavesHold, PTL

(* Once a save's findings are there, no run of the report that was open    *)
(* when the call began still holds the lock.                               *)
THEOREM SavesFreeTheLock == Spec => SaveReleasesLock
<1> DEFINE Body ==
        \A i \in DOMAIN rows' :
          LET landed == /\ rows'[i].payload # 0
                        /\ rows'[i].status # "gathering"
                        /\ \A j \in DOMAIN rows :
                              rows[j].payload # rows'[i].payload
              since == IF call["server"] = NoCall THEN births
                       ELSE call["server"].since
          IN  landed => \A j \in InFlight(rows', rows'[i].report) :
                           rows'[j].birth > since
<1>1. Frees => Body
    BY DEF Frees, Lands, Since
<1>2. SaveInv /\ [Next]_vars => [Body]_vars
    BY <1>1, NextSaves
<1>3. QED
    BY <1>2, SavesHold, PTL DEF Spec, SaveReleasesLock
-----------------------------------------------------------------------------
(* What prune_outputs still has to delete is there until it deletes it: no *)
(* other tool call runs between its statements, and the scheduler deletes  *)
(* nothing.  An INSERT takes an id above every row, so above those too.    *)
Doomed ==
    /\ doomed \subseteq DOMAIN rows
    /\ pc["server"] # "prune" => doomed = {}

\* A statement that deletes no row and leaves prune_outputs where it was.
KeepsDoomed ==
    /\ DOMAIN rows \subseteq DOMAIN rows'
    /\ UNCHANGED doomed
    /\ pc["server"] = "prune" => pc'["server"] = "prune"

LEMMA NextDoomed == TypeOK /\ Doomed /\ [Next]_vars => Doomed'
<1> SUFFICES ASSUME TypeOK, Doomed, [Next]_vars PROVE Doomed'
    OBVIOUS
<1>t. "server" \in Threads /\ "scheduler" \in Threads
    BY DEF Threads
<1>y. IsTable(rows) /\ pc \in [Threads -> Steps]
    BY DEF TypeOK
<1>k. ASSUME KeepsDoomed PROVE Doomed'
    BY <1>k DEF KeepsDoomed, Doomed
<1>q. ASSUME UNCHANGED <<rows, doomed, pc>> PROVE Doomed'
    BY <1>q, <1>k DEF KeepsDoomed
<1>g. ASSUME NEW t \in Threads, pc[t] # "prune", NEW step, NEW c, Goto(t, step, c)
      PROVE  pc["server"] = "prune" => pc'["server"] = "prune"
    BY <1>g, <1>y DEF Goto
<1>1. ASSUME NEW t \in Threads, NEW r \in Reports, BeginRun(t, r) PROVE Doomed'
    <2>1. DOMAIN rows' = DOMAIN rows /\ UNCHANGED doomed
        BY <1>1 DEF BeginRun, ExpireStaleRuns
    <2>2. pc["server"] = "prune" => pc'["server"] = "prune"
        BY <1>1, <1>g DEF BeginRun
    <2>3. QED
        BY <1>k, <2>1, <2>2 DEF KeepsDoomed
<1>2. ASSUME NEW t \in Threads, MintRunId(t) PROVE Doomed'
    <2>1. pc["server"] = "prune" => pc'["server"] = "prune"
        BY <1>2, <1>g DEF MintRunId
    <2>2. QED
        BY <1>2, <1>k, <2>1 DEF MintRunId, KeepsDoomed
<1>i. ASSUME NEW t \in Threads, pc[t] # "prune", Insert(t), UNCHANGED doomed
      PROVE  Doomed'
    <2>1. DOMAIN rows \subseteq DOMAIN rows'
        BY <1>i DEF Insert, Inserted
    <2>2. pc["server"] = "prune" => pc'["server"] = "prune"
        BY <1>i, <1>g DEF Insert, Return
    <2>3. QED
        BY <1>i, <1>k, <2>1, <2>2 DEF KeepsDoomed
<1>3. ASSUME NEW t \in Threads, InsertRun(t) PROVE Doomed'
    BY <1>3, <1>i DEF InsertRun
<1>4. ASSUME NEW t \in Threads, RefuseRun(t) PROVE Doomed'
    <2>1. pc["server"] = "prune" => pc'["server"] = "prune"
        BY <1>4, <1>g DEF RefuseRun, Return
    <2>2. QED
        BY <1>4, <1>k, <2>1 DEF RefuseRun, KeepsDoomed
<1>5. ASSUME NEW f \in fires, Dispatched(f) PROVE Doomed'
    BY <1>5, <1>q DEF Dispatched
<1>6. ASSUME NEW f \in fires, DispatchFailed(f) PROVE Doomed'
    BY <1>6, <1>k DEF DispatchFailed, FailRun, KeepsDoomed
<1>7. ASSUME NEW f \in fires, NEW status \in SaveStatuses, SaveByRunId(f, status)
      PROVE  Doomed'
    BY <1>7, <1>k DEF SaveByRunId, CompleteRun, KeepsDoomed
<1>8. ASSUME NEW r \in Reports, NEW status \in SaveStatuses, SaveWithoutRunId(r, status)
      PROVE  Doomed'
    BY <1>8, <1>k DEF SaveWithoutRunId, Save, KeepsDoomed
<1>9. CASE Adopt
    BY <1>9, <1>k DEF Adopt, CompleteRun, KeepsDoomed
<1>10. CASE InsertDirect
    BY <1>10, <1>t, <1>i DEF InsertDirect
<1>11. CASE RefuseDirect
    BY <1>11, <1>k DEF RefuseDirect, KeepsDoomed
<1>12. ASSUME NEW i \in DOMAIN rows, DeleteOutput(i) PROVE Doomed'
    BY <1>12 DEF DeleteOutput, Doomed
<1>13. ASSUME NEW ids \in SUBSET DOMAIN rows, PruneSelect(ids) PROVE Doomed'
    BY <1>13, <1>t, <1>y DEF PruneSelect, Doomed
<1>14. CASE PruneDelete
    <2>1. PICK i \in doomed : rows' = Deleted(rows, i) /\ doomed' = doomed \ {i}
        BY <1>14 DEF PruneDelete
    <2>2. doomed' \subseteq DOMAIN rows'
        BY <2>1 DEF Deleted, Doomed
    <2>3. doomed' # {} => pc'["server"] = "prune"
        BY <1>14, <1>t, <1>y DEF PruneDelete
    <2>4. QED
        BY <2>2, <2>3 DEF Doomed
<1>15. CASE Restart
    BY <1>15 DEF Restart, Doomed
<1>16. CASE Clock
    BY <1>16, <1>q DEF Clock
<1>17. CASE UNCHANGED vars
    BY <1>17, <1>q DEF vars
<1>18. QED
    BY <1>1, <1>2, <1>3, <1>4, <1>5, <1>6, <1>7, <1>8, <1>9, <1>10, <1>11, <1>12,
       <1>13, <1>14, <1>15, <1>16, <1>17
       DEF Next, BeyondNewest, GatheredBefore, RowsOf

LEMMA DoomedHolds == Spec => []Doomed
<1>1. Init => Doomed
    BY DEF Init, Doomed
<1>2. QED
    BY <1>1, NextDoomed, TypeCorrect, PTL DEF Spec

(* prune_outputs, which deletes by ids it read some commits ago, never     *)
(* deletes a run the scheduler opened since: an id it has still to delete  *)
(* names the row it named, for any number of reports, runs and deletions.  *)
THEOREM PruneSparesNewRuns == Spec => PruneHitsWhatItSelected
<1> DEFINE Body ==
        \A i \in doomed \cap doomed' : i \in DOMAIN rows' =>
           i \in DOMAIN rows /\ rows'[i].birth = rows[i].birth
<1>1. Inv /\ Doomed /\ [Next]_vars => [Body]_vars
    <2> SUFFICES ASSUME Inv, Doomed, [Next]_vars,
                        NEW i \in doomed, i \in DOMAIN rows'
                 PROVE  i \in DOMAIN rows /\ rows'[i].birth = rows[i].birth
        OBVIOUS
    <2>1. i \in DOMAIN rows
        BY DEF Doomed
    <2>2. ASSUME NEW t \in Threads, NEW id \in RowIds, InsertStep(t, id)
          PROVE  rows'[i] = rows[i]
        BY <2>1, <2>2, InsertStepEffect DEF Inv
    <2>3. ASSUME NEW r, ReleaseStep(r) PROVE rows'[i].birth = rows[i].birth
        BY <2>3 DEF ReleaseStep, OnlyReleases
    <2>4. QED
        BY <2>1, <2>2, <2>3, StepShape DEF Inv
<1>2. QED
    BY <1>1, InvHolds, DoomedHolds, PTL DEF Spec, PruneHitsWhatItSelected
=============================================================================
