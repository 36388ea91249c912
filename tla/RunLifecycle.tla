---------------------------- MODULE RunLifecycle ----------------------------
(***************************************************************************)
(* What the run table promises its callers, whatever order the two threads *)
(* of the server run their statements in: every report has a lock that at  *)
(* most one run holds, a run takes it when its row is inserted, in one     *)
(* step, and the run that has let go of it never holds it again.           *)
(***************************************************************************)
EXTENDS Naturals

CONSTANT Reports

VARIABLES
    births,  \* how many runs there ever were; runs are numbered by birth
    holder   \* the run that holds each report's lock, 0 for none

vars == <<births, holder>>

Init == births = 0 /\ holder = [r \in Reports |-> 0]

\* begin_run: a run is born holding the lock of its report.
Open(r) ==
    /\ holder[r] = 0
    /\ births' = births + 1
    /\ holder' = [holder EXCEPT ![r] = births + 1]

\* save_output without a run to adopt: a run is born finished.
SaveDirect == births' = births + 1 /\ UNCHANGED holder

\* Saved, failed, expired or deleted: the lock is free, the number is spent.
Close(r) ==
    /\ holder[r] # 0
    /\ holder' = [holder EXCEPT ![r] = 0]
    /\ UNCHANGED births

Next == SaveDirect \/ \E r \in Reports : Open(r) \/ Close(r)

Spec == Init /\ [][Next]_vars
-----------------------------------------------------------------------------
TypeOK == births \in Nat /\ holder \in [Reports -> 0..births]
=============================================================================
