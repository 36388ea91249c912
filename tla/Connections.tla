---------------------------- MODULE Connections -----------------------------
(***************************************************************************)
(* The two SQLite connections of the process: the server's singleton and   *)
(* the scheduler's own, on one database in WAL mode.  Python's sqlite3     *)
(* opens a deferred transaction before the first write and leaves it open  *)
(* until commit or rollback, also when the write raises; while it is open  *)
(* the first read or write fixes the version of the database it works on.  *)
(* That much of SQLite is modelled from how database.py uses it: only one  *)
(* connection writes at a time, and one whose version is no longer the     *)
(* latest may not write at all (SQLITE_BUSY_SNAPSHOT).                     *)
(***************************************************************************)
EXTENDS Naturals

CONSTANTS
    MaxVersion, \* bound on commits
    Nobody      \* no connection

Connections == {"server", "scheduler"}

ASSUME ConnectionsAssumption ==
    /\ MaxVersion \in Nat
    /\ Nobody \notin Connections

None == MaxVersion + 1

VARIABLES
    version, \* how many transactions were committed
    inTxn,   \* per connection, Connection.in_transaction
    snap,    \* per connection, the version it works on, None when not fixed
    writer,  \* who holds the write lock
    mid,     \* the connection between a write and its commit
    seen,    \* history: per connection, the version its last read returned
    raised   \* history: did insert_output ever raise an IntegrityError?

vars == <<version, inTxn, snap, writer, mid, seen, raised>>

Init ==
    /\ version = 0
    /\ inTxn = [c \in Connections |-> FALSE]
    /\ snap = [c \in Connections |-> None]
    /\ writer = Nobody
    /\ mid = Nobody
    /\ seen = [c \in Connections |-> 0]
    /\ raised = FALSE

\* Reads and writes of one connection come from one thread, and none of them
\* awaits between a write and its commit.
Ready(c) == mid # c

Fixed(c) == IF snap[c] = None THEN version ELSE snap[c]

\* Slip: the database is opened with nolock=1.
CanWrite_Slip(c) == Fixed(c) = version

CanWrite(c) == writer \in {Nobody, c} /\ Fixed(c) = version
-----------------------------------------------------------------------------
\* query, list_scheduled, run_is_open, the SELECT of _make_run_id ...
Read(c) ==
    /\ Ready(c)
    /\ seen' = [seen EXCEPT ![c] = Fixed(c)]
    /\ snap' = IF inTxn[c] THEN [snap EXCEPT ![c] = Fixed(c)] ELSE snap
    /\ UNCHANGED <<version, inTxn, writer, mid, raised>>

Hold(c) ==
    /\ inTxn' = [inTxn EXCEPT ![c] = TRUE]
    /\ snap' = [snap EXCEPT ![c] = version]
    /\ writer' = c

Release(c) ==
    /\ inTxn' = [inTxn EXCEPT ![c] = FALSE]
    /\ snap' = [snap EXCEPT ![c] = None]
    /\ writer' = Nobody

\* An INSERT, UPDATE or DELETE that SQLite accepts.
Write(c) ==
    /\ Ready(c) /\ CanWrite(c)
    /\ version < MaxVersion
    /\ Hold(c)
    /\ mid' = c
    /\ UNCHANGED <<version, seen, raised>>

\* commit()
Commit(c) ==
    /\ mid = c
    /\ version' = version + 1
    /\ Release(c)
    /\ mid' = Nobody
    /\ UNCHANGED <<seen, raised>>

\* Slip: begin_run without the rollback.
BeginRunRefused_Slip(c) ==
    /\ Ready(c) /\ CanWrite(c)
    /\ Hold(c)
    /\ UNCHANGED <<version, mid, seen, raised>>

\* begin_run: IntegrityError and rollback().  Its own write was refused, so
\* nobody else could have written meanwhile.
BeginRunRefused(c) ==
    /\ Ready(c) /\ CanWrite(c)
    /\ Release(c)
    /\ UNCHANGED <<version, mid, seen, raised>>

\* insert_output: the IntegrityError goes to the caller, the transaction stays.
InsertOutputRefused ==
    /\ Ready("server") /\ CanWrite("server")
    /\ Hold("server")
    /\ raised' = TRUE
    /\ UNCHANGED <<version, mid, seen>>

\* "database is locked": at once if the version is old, else after busy_timeout,
\* which outlasts any write that is followed by its commit.
WriteLocked(c) ==
    /\ Ready(c) /\ ~CanWrite(c)
    /\ mid = Nobody \/ Fixed(c) # version
    /\ inTxn' = [inTxn EXCEPT ![c] = TRUE]
    /\ UNCHANGED <<version, snap, writer, mid, seen, raised>>

Next ==
    \/ \E c \in Connections :
          Read(c) \/ Write(c) \/ Commit(c) \/ BeginRunRefused(c) \/ WriteLocked(c)
    \/ InsertOutputRefused

Spec == Init /\ [][Next]_vars
-----------------------------------------------------------------------------
TypeOK ==
    /\ version \in 0..MaxVersion
    /\ inTxn \in [Connections -> BOOLEAN]
    /\ snap \in [Connections -> 0..version \cup {None}]
    /\ writer \in Connections \cup {Nobody}
    /\ mid \in {writer, Nobody}
    /\ seen \in [Connections -> 0..version] /\ raised \in BOOLEAN
    /\ \A c \in Connections : writer = c => inTxn[c] /\ snap[c] = version

(* The statements a constraint can refuse are rolled back: unless          *)
(* insert_output raised, a connection holds neither a transaction nor the  *)
(* write lock between its calls, so no write is ever refused as locked.    *)
QuietBetweenCalls ==
    ~raised => \A c \in Connections : mid # c => ~inTxn[c] /\ writer # c

(* Even then the server's connection, and with it every tool call, works   *)
(* on the latest version: the transaction insert_output leaves open holds  *)
(* the write lock until the server's next write commits it.                *)
ServerSeesLatest == Fixed("server") = version

(* "Open a fresh, independent connection [that can] read/write             *)
(* concurrently with the server's" (new_connection): whatever failed       *)
(* before, the scheduler never sits on an old version of the database,     *)
(* from which it can neither see an edit nor write again.                  *)
NeverWedged == Fixed("scheduler") = version
=============================================================================
