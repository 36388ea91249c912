-------------------------- MODULE ConnectionsProofs --------------------------
(* Why the server's connection is never left behind, for any bound on the  *)
(* commits: only the server keeps the write lock after a failed statement, *)
(* and while it does the scheduler cannot commit.                          *)
EXTENDS Connections, TLAPS

Txns ==
    /\ mid # Nobody => version < MaxVersion
    /\ \A c \in Connections : ~inTxn[c] => snap[c] = None
    /\ inTxn["server"] => writer = "server"
    /\ writer = "scheduler" => mid = "scheduler"

Inv == TypeOK /\ Txns /\ QuietBetweenCalls

(* A connection with no transaction, or with the write lock, is up to date.*)
LEMMA UpToDate ==
    ASSUME TypeOK, Txns, NEW c \in Connections, ~inTxn[c] \/ writer = c
    PROVE  Fixed(c) = version
BY DEF TypeOK, Txns, Fixed, None

LEMMA ServerUpToDate == TypeOK /\ Txns => ServerSeesLatest
BY UpToDate DEF Txns, ServerSeesLatest, Connections

LEMMA InitInv == Init => Inv
<1> SUFFICES ASSUME Init PROVE Inv
  OBVIOUS
<1>1. TypeOK
  <2>1. version \in 0..MaxVersion /\ seen \in [Connections -> 0..version]
    BY ConnectionsAssumption DEF Init
  <2>2. inTxn \in [Connections -> BOOLEAN] /\ raised \in BOOLEAN
    BY Zenon DEF Init
  <2>3. snap \in [Connections -> 0..version \cup {None}]
    BY DEF Init
  <2>4. \A c \in Connections : writer # c
    BY ConnectionsAssumption DEF Init
  <2> QED BY <2>1, <2>2, <2>3, <2>4 DEF Init, TypeOK
<1>2. Txns
  BY ConnectionsAssumption DEF Init, Txns, Connections
<1>3. QuietBetweenCalls
  BY ConnectionsAssumption DEF Init, QuietBetweenCalls
<1> QED BY <1>1, <1>2, <1>3 DEF Inv

(* One lemma per action, each over the connection that acts.               *)
LEMMA ReadKeepsInv == ASSUME Inv, NEW c \in Connections, Read(c) PROVE Inv'
<1>1. version \in Nat /\ MaxVersion \in Nat
  BY ConnectionsAssumption DEF Inv, TypeOK
<1>2. Fixed(c) \in 0..version
  BY <1>1 DEF Inv, TypeOK, Fixed, None
<1>3. writer = c => Fixed(c) = version
  BY UpToDate DEF Inv
<1>4. TypeOK'
  BY <1>1, <1>2, <1>3 DEF Inv, TypeOK, Read, None
<1>5. Txns'
  BY <1>2 DEF Inv, TypeOK, Txns, Read
<1>6. QuietBetweenCalls'
  BY DEF Inv, QuietBetweenCalls, Read
<1> QED BY <1>4, <1>5, <1>6 DEF Inv

LEMMA WriteKeepsInv == ASSUME Inv, NEW c \in Connections, Write(c) PROVE Inv'
<1>1. version \in Nat /\ MaxVersion \in Nat
  BY ConnectionsAssumption DEF Inv, TypeOK
<1>2. TypeOK'
  BY <1>1 DEF Inv, TypeOK, Write, Hold, CanWrite, None
<1>3. Txns'
  <2>1. \A d \in Connections : ~inTxn'[d] => snap'[d] = None
    BY DEF Inv, TypeOK, Txns, Write, Hold
  <2>2. c = "scheduler" => ~inTxn["server"]
    BY ConnectionsAssumption
       DEF Inv, Txns, Write, Ready, CanWrite, Connections
  <2>3. inTxn'["server"] => writer' = "server"
    BY <2>2 DEF Inv, TypeOK, Write, Hold, Connections
  <2> QED
    BY <1>1, <2>1, <2>3 DEF Txns, Write, Hold
<1>4. QuietBetweenCalls'
  <2>1. ASSUME NEW d \in Connections, d # c, ~raised PROVE ~inTxn[d]
    <3>1. mid # d
      BY <2>1, ConnectionsAssumption DEF Inv, TypeOK, Write, CanWrite
    <3> QED BY <2>1, <3>1 DEF Inv, QuietBetweenCalls
  <2> QED
    BY <2>1 DEF Inv, TypeOK, QuietBetweenCalls, Write, Hold
<1> QED BY <1>2, <1>3, <1>4 DEF Inv

LEMMA CommitKeepsInv == ASSUME Inv, NEW c \in Connections, Commit(c) PROVE Inv'
<1>1. version \in Nat /\ MaxVersion \in Nat /\ version < MaxVersion
  BY ConnectionsAssumption DEF Inv, TypeOK, Txns, Commit
<1>2. writer = c
  BY ConnectionsAssumption DEF Inv, TypeOK, Commit
<1>3. TypeOK'
  BY <1>1, <1>2, ConnectionsAssumption DEF Inv, TypeOK, Commit, Release, None
<1>4. Txns'
  BY <1>1, <1>2, ConnectionsAssumption
     DEF Inv, TypeOK, Txns, Commit, Release, Connections
<1>5. QuietBetweenCalls'
  BY <1>2, ConnectionsAssumption
     DEF Inv, TypeOK, QuietBetweenCalls, Commit, Release, Connections
<1> QED BY <1>3, <1>4, <1>5 DEF Inv

LEMMA BeginRunRefusedKeepsInv ==
    ASSUME Inv, NEW c \in Connections, BeginRunRefused(c) PROVE Inv'
<1>1. version \in Nat /\ MaxVersion \in Nat
  BY ConnectionsAssumption DEF Inv, TypeOK
<1>2. mid = Nobody
  BY DEF Inv, TypeOK, BeginRunRefused, Ready, CanWrite
<1>3. TypeOK'
  BY <1>1, <1>2, ConnectionsAssumption DEF Inv, TypeOK, BeginRunRefused, Release, None
<1>4. Txns'
  BY <1>1, <1>2, ConnectionsAssumption
     DEF Inv, TypeOK, Txns, BeginRunRefused, Release, CanWrite, Connections
<1>5. QuietBetweenCalls'
  BY <1>2, ConnectionsAssumption
     DEF Inv, TypeOK, QuietBetweenCalls, BeginRunRefused, Release, Connections
<1> QED BY <1>3, <1>4, <1>5 DEF Inv

LEMMA InsertOutputRefusedKeepsInv == ASSUME Inv, InsertOutputRefused PROVE Inv'
<1>1. version \in Nat /\ MaxVersion \in Nat
  BY ConnectionsAssumption DEF Inv, TypeOK
<1>2. mid = Nobody
  BY DEF Inv, TypeOK, InsertOutputRefused, Ready, CanWrite
<1>3. TypeOK'
  BY <1>1, <1>2 DEF Inv, TypeOK, InsertOutputRefused, Hold, None, Connections
<1>4. Txns'
  BY <1>1, <1>2, ConnectionsAssumption
     DEF Inv, TypeOK, Txns, InsertOutputRefused, Hold, Connections
<1>5. QuietBetweenCalls'
  BY DEF QuietBetweenCalls, InsertOutputRefused
<1> QED BY <1>3, <1>4, <1>5 DEF Inv

(* The server is never refused: the scheduler lets go of the lock in the   *)
(* same breath.                                                            *)
LEMMA WriteLockedKeepsInv ==
    ASSUME Inv, NEW c \in Connections, WriteLocked(c) PROVE Inv'
<1>1. c = "scheduler"
  <2>1. SUFFICES ASSUME c = "server" PROVE FALSE
    BY DEF Connections
  <2>2. Fixed(c) = version
    BY <2>1, ServerUpToDate DEF Inv, ServerSeesLatest
  <2>3. writer = "scheduler" /\ mid = Nobody
    BY <2>1, <2>2 DEF Inv, TypeOK, WriteLocked, CanWrite, Connections
  <2> QED
    BY <2>3, ConnectionsAssumption DEF Inv, Txns, Connections
<1>2. raised
  <2>1. SUFFICES ASSUME ~raised PROVE FALSE
    OBVIOUS
  <2>2. mid # c
    BY DEF WriteLocked, Ready
  <2>3. ~inTxn[c] /\ writer # c
    BY <2>1, <2>2 DEF Inv, QuietBetweenCalls
  <2>4. Fixed(c) = version
    BY <2>3, UpToDate DEF Inv
  <2>5. writer = "server" /\ mid = Nobody
    BY <1>1, <2>3, <2>4 DEF Inv, TypeOK, WriteLocked, CanWrite, Connections
  <2> QED
    BY <2>1, <2>5, ConnectionsAssumption DEF Inv, QuietBetweenCalls, Connections
<1>3. TypeOK'
  BY DEF Inv, TypeOK, WriteLocked, None
<1>4. Txns'
  BY <1>1 DEF Inv, TypeOK, Txns, WriteLocked, Connections
<1>5. QuietBetweenCalls'
  BY <1>2 DEF QuietBetweenCalls, WriteLocked
<1> QED BY <1>3, <1>4, <1>5 DEF Inv

LEMMA NextInv == Inv /\ [Next]_vars => Inv'
<1> SUFFICES ASSUME Inv, [Next]_vars PROVE Inv'
  OBVIOUS
<1>1. CASE UNCHANGED vars
  BY <1>1 DEF Inv, TypeOK, Txns, QuietBetweenCalls, vars
<1>2. CASE \E c \in Connections : Read(c) \/ Write(c) \/ Commit(c)
  BY <1>2, ReadKeepsInv, WriteKeepsInv, CommitKeepsInv
<1>3. CASE \E c \in Connections : BeginRunRefused(c) \/ WriteLocked(c)
  BY <1>3, BeginRunRefusedKeepsInv, WriteLockedKeepsInv
<1>4. CASE InsertOutputRefused
  BY <1>4, InsertOutputRefusedKeepsInv
<1> QED BY <1>1, <1>2, <1>3, <1>4 DEF Next

LEMMA InvHolds == Spec => []Inv
BY InitInv, NextInv, PTL DEF Spec

(* The type invariant: among others, who holds the write lock has a        *)
(* transaction on the latest version.                                      *)
THEOREM TypeCorrect == Spec => []TypeOK
<1>1. Inv => TypeOK
  BY DEF Inv
<1> QED BY <1>1, InvHolds, PTL

(* Every statement but the INSERT of insert_output cleans up after itself. *)
THEOREM CallsLeaveNothing == Spec => []QuietBetweenCalls
<1>1. Inv => QuietBetweenCalls
  BY DEF Inv
<1> QED BY <1>1, InvHolds, PTL

(* Tool calls always work on the latest committed version.                 *)
THEOREM ServerStaysCurrent == Spec => []ServerSeesLatest
<1>1. Inv => ServerSeesLatest
  BY ServerUpToDate DEF Inv
<1> QED BY <1>1, InvHolds, PTL

Wedged == Fixed("scheduler") # version

(* Nothing the process does unwedges the scheduler: its connection may not *)
(* write, so nothing it does ends its transaction, and the server's        *)
(* commits only leave it further behind.                                   *)
WedgedStep ==
    Wedged => Wedged' /\ snap'["scheduler"] = snap["scheduler"] /\ inTxn'["scheduler"]

(* An old version is one that an open transaction has fixed.               *)
LEMMA WedgedIs ==
    ASSUME Inv, Wedged
    PROVE  /\ snap["scheduler"] \in 0..version /\ snap["scheduler"] < version
           /\ snap["scheduler"] # None /\ inTxn["scheduler"]
           /\ ~CanWrite("scheduler") /\ writer # "scheduler" /\ mid # "scheduler"
<1>1. version \in Nat /\ MaxVersion \in Nat
  BY ConnectionsAssumption DEF Inv, TypeOK
<1>2. snap["scheduler"] # None /\ snap["scheduler"] # version
  BY DEF Wedged, Fixed
<1>3. snap["scheduler"] \in 0..version
  BY <1>2 DEF Inv, TypeOK, Connections
<1>4. inTxn["scheduler"]
  BY <1>2 DEF Inv, Txns, Connections
<1>5. ~CanWrite("scheduler")
  BY DEF Wedged, CanWrite
<1>6. writer # "scheduler" /\ mid # "scheduler"
  BY <1>2, ConnectionsAssumption DEF Inv, TypeOK, Connections
<1> QED BY <1>1, <1>2, <1>3, <1>4, <1>5, <1>6

LEMMA WedgedStays == Inv /\ [Next]_vars => WedgedStep
<1> SUFFICES ASSUME Inv, [Next]_vars, Wedged PROVE WedgedStep
  BY DEF WedgedStep
<1> USE WedgedIs
<1>1. version \in Nat /\ MaxVersion \in Nat
  BY ConnectionsAssumption DEF Inv, TypeOK
<1> DEFINE Stays == /\ snap'["scheduler"] = snap["scheduler"] /\ inTxn'["scheduler"]
                    /\ version' \in {version, version + 1}
<1>2. SUFFICES Stays
  BY <1>1 DEF WedgedStep, Wedged, Fixed, None
<1>3. CASE UNCHANGED vars
  BY <1>3 DEF vars
<1>4. ASSUME NEW c \in Connections, Read(c) PROVE Stays
  BY <1>4 DEF Read, Fixed, Inv, TypeOK
<1>5. ASSUME NEW c \in Connections, Write(c) \/ Commit(c) \/ BeginRunRefused(c) PROVE Stays
  <2>1. c # "scheduler"
    BY <1>5 DEF Write, Commit, BeginRunRefused
  <2> QED
    BY <1>5, <2>1 DEF Write, Commit, BeginRunRefused, Hold, Release, Inv, TypeOK, Connections
<1>6. ASSUME NEW c \in Connections, WriteLocked(c) PROVE Stays
  BY <1>6 DEF WriteLocked, Inv, TypeOK, Connections
<1>7. CASE InsertOutputRefused
  BY <1>7 DEF InsertOutputRefused, Hold, Inv, TypeOK, Connections
<1> QED BY <1>3, <1>4, <1>5, <1>6, <1>7 DEF Next

(* Once the scheduler's connection works on an old version of the          *)
(* database, it does for as long as the process runs: it stays on that     *)
(* version, in the transaction it cannot end.                              *)
THEOREM WedgedIsForGood == Spec => [][WedgedStep]_vars
BY InvHolds, WedgedStays, PTL DEF Spec
=============================================================================
