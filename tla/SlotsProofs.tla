----------------------------- MODULE SlotsProofs -----------------------------
(***************************************************************************)
(* Which cron slots can fire twice and which must fire, for any schedules, *)
(* polling period, delays and time-outs.                                   *)
(***************************************************************************)
EXTENDS Slots, TLAPS

LEMMA Quotient ==
    ASSUME NEW a \in Nat, NEW p \in Nat \ {0}
    PROVE  (a \div p) \in Nat /\ (a \div p) * p \in Nat /\ (a \div p) * p <= a
BY Z3

LEMMA SlotIsBefore ==
    ASSUME NEW p \in Nat \ {0}, NEW t \in Nat
    PROVE  PrevSlot(p, t) \in Nat /\ PrevSlot(p, t) <= t
<1>1. CASE t = 0
    BY <1>1 DEF PrevSlot
<1>2. CASE t # 0
    <2>1. t - 1 \in Nat
        BY <1>2
    <2>2. ((t - 1) \div p) * p \in Nat /\ ((t - 1) \div p) * p <= t - 1
        BY <2>1, Quotient
    <2>3. PrevSlot(p, t) = ((t - 1) \div p) * p
        BY <1>2 DEF PrevSlot
    <2>4. QED
        BY <2>2, <2>3
<1>3. QED
    BY <1>1, <1>2

LEMMA SlotOfType ==
    ASSUME NEW p \in Periods \cup {0}, p # 0, NEW t \in Nat
    PROVE  PrevSlot(p, t) \in Nat /\ PrevSlot(p, t) <= t
<1>1. p \in Nat \ {0}
    BY SlotsAssumption
<1>2. QED
    BY <1>1, SlotIsBefore
-----------------------------------------------------------------------------
(* What is known of a fire: the slot it was for is past, and what has      *)
(* become of it says what will keep that slot from being fired again.      *)
Spent(f, time, last, guard) ==
    /\ f.slot <= time
    /\ f.outcome \in {"accepted", "deferred"} => f.slot <= last
    /\ f.outcome = "crashed" => f.slot <= guard

\* No slot up to this time can be fired: started, once the scheduler is up.
Guard == IF phase = "down" THEN now ELSE started

FiresAreSpent == \A i \in DOMAIN fires : Spent(fires[i], now, lastFired, Guard)

Inv ==
    /\ TypeOK
    /\ OnlyUnrecordedRefires
    /\ FiresAreSpent
    /\ \A i \in DOMAIN fires :
          fires[i].outcome = "posting" => phase = "posting" /\ i = Len(fires)
    /\ phase = "posting" => Len(fires) > 0 /\ fires[Len(fires)].outcome = "posting"
    /\ phase \in {"listed", "posting"} => snap.lastFired = lastFired

LEMMA NoDefinitionIsOne == NoDefinition \in Definition
BY DEF NoDefinition, Definition

LEMMA InitInv == Init => Inv
<1> SUFFICES ASSUME Init PROVE Inv
    OBVIOUS
<1>1. fires = <<>> /\ fires \in Seq(Firing) /\ \A i \in DOMAIN fires : FALSE
    BY DEF Init
<1>2. TypeOK
    <2>1. snap \in Definition /\ phase = "down"
        BY NoDefinitionIsOne DEF Init
    <2>2. /\ now = 0 /\ by = 0 /\ started = 0 /\ lastFired = 0 /\ schedule = 0
          /\ since = 0 /\ found = "no" /\ push = FALSE /\ configured = FALSE
          /\ lock = "free"
        BY DEF Init
    <2>3. 0 \in 0..0
        OBVIOUS
    <2> HIDE DEF Init
    <2>4. QED
        BY <1>1, <2>1, <2>2, <2>3 DEF TypeOK, Locks, Phases, FoundAs
<1>3. phase = "down"
    BY DEF Init
<1>4. QED
    BY <1>1, <1>2, <1>3 DEF Inv, OnlyUnrecordedRefires, FiresAreSpent

(* A step that opens no run and decides none.                              *)
LEMMA QuietKeepsInv ==
    ASSUME Inv, TypeOK', fires' = fires,
           now' >= now, lastFired' = lastFired,
           phase # "down" /\ phase' # "down" => started' >= started,
           phase' # phase => phase # "posting" /\ phase' # "posting",
           phase = "down" /\ phase' # "down" => started' >= now,
           phase' \in {"listed", "posting"} =>
              \/ phase' = phase /\ snap' = snap
              \/ snap'.lastFired = lastFired
    PROVE  Inv'
<1>1. /\ now \in Nat /\ now' \in Nat /\ started \in Nat /\ started' \in Nat
      /\ \A i \in DOMAIN fires : fires[i].slot \in Nat
    <2>1. fires \in Seq(Firing) /\ \A i \in DOMAIN fires : fires[i] \in Firing
        BY DEF Inv, TypeOK
    <2>2. now \in Nat /\ now' \in Nat /\ started \in Nat /\ started' \in Nat
        BY DEF Inv, TypeOK
    <2>3. QED
        BY <2>1, <2>2 DEF Firing
<1>2. FiresAreSpent'
    <2>1. Guard \in Nat /\ Guard' \in Nat /\ Guard <= Guard'
        BY <1>1 DEF Guard, Inv, TypeOK
    <2>2. ASSUME NEW i \in DOMAIN fires PROVE Spent(fires[i], now', lastFired', Guard')
        <3>1. Spent(fires[i], now, lastFired, Guard) /\ fires[i].slot \in Nat
            BY <1>1 DEF Inv, FiresAreSpent
        <3>2. QED
            BY <1>1, <2>1, <3>1 DEF Spent
    <2>3. QED
        BY <2>2 DEF FiresAreSpent
<1>3. OnlyUnrecordedRefires'
    BY DEF Inv, OnlyUnrecordedRefires
<1>4. QED
    BY <1>2, <1>3 DEF Inv

(* The fire in progress gets its outcome.                                  *)
LEMMA OutcomeKeepsInv ==
    ASSUME Inv, TypeOK', phase = "posting", phase' \in {"sleep", "down"},
           NEW o \in {"accepted", "unrecorded", "failed", "crashed"}, Outcome(o),
           now' = now, phase' # "down" => started' = started,
           lastFired' = IF o = "accepted" THEN now ELSE lastFired,
           o = "crashed" => phase' = "down"
    PROVE  Inv'
<1> DEFINE n == Len(fires)
<1>1. /\ fires \in Seq(Firing) /\ now \in Nat /\ lastFired \in Nat /\ lastFired <= now
      /\ \A i \in DOMAIN fires : fires[i] \in Firing
    BY DEF Inv, TypeOK
<1>2. n \in DOMAIN fires /\ DOMAIN fires' = DOMAIN fires /\ Len(fires') = n
    BY <1>1 DEF Inv, Outcome
<1>3. /\ fires'[n].outcome = o /\ fires'[n].slot = fires[n].slot
      /\ \A i \in DOMAIN fires : i # n => fires'[i] = fires[i]
    BY <1>1, <1>2 DEF Outcome, Firing
<1>4. \A i \in DOMAIN fires : fires[i].slot \in Nat
    BY <1>1 DEF Firing
<1>5. \A i \in DOMAIN fires : i # n => fires[i].outcome # "posting"
    BY DEF Inv
<1>6. FiresAreSpent'
    <2>1. Guard' = IF phase' = "down" THEN now ELSE started
        BY DEF Guard
    <2>2. started <= now /\ Guard = started /\ started \in Nat
        BY DEF Inv, TypeOK, Guard
    <2>3. lastFired' \in Nat /\ lastFired <= lastFired'
        BY <1>1
    <2>4. Guard' \in Nat /\ Guard <= Guard'
        BY <1>1, <2>1, <2>2
    <2>5. ASSUME NEW i \in DOMAIN fires PROVE Spent(fires'[i], now', lastFired', Guard')
        <3>1. Spent(fires[i], now, lastFired, Guard) /\ fires[i].slot \in Nat
            BY <1>4 DEF Inv, FiresAreSpent
        <3>2. CASE i = n
            BY <1>1, <1>3, <2>1, <3>1, <3>2 DEF Spent
        <3>3. CASE i # n
            BY <1>1, <1>3, <2>2, <2>3, <2>4, <3>1, <3>3 DEF Spent
        <3>4. QED
            BY <3>2, <3>3
    <2>6. QED
        BY <1>2, <2>5 DEF FiresAreSpent
<1>7. OnlyUnrecordedRefires'
    <2> SUFFICES ASSUME NEW i \in DOMAIN fires, NEW j \in DOMAIN fires,
                        i < j, fires'[j].slot <= fires'[i].slot
                 PROVE  fires'[i].outcome \in {"failed", "unconfigured", "unrecorded"}
        BY <1>2 DEF OnlyUnrecordedRefires
    <2>1. i # n
        BY <1>1, <1>2
    <2>2. fires'[i] = fires[i] /\ fires'[j].slot = fires[j].slot
        BY <1>3, <2>1
    <2>3. QED
        BY <2>2 DEF Inv, OnlyUnrecordedRefires
<1>8. \A i \in DOMAIN fires' : fires'[i].outcome # "posting"
    BY <1>2, <1>3, <1>5
<1>9. QED
    <2>1. phase' # "posting" /\ phase' # "listed"
        OBVIOUS
    <2>2. QED
        BY <1>6, <1>7, <1>8, <2>1 DEF Inv

(* A run is opened: its slot is later than every one that is spent.        *)
LEMMA FireKeepsInv ==
    ASSUME Inv, TypeOK', Begins,
           NEW o \in {"posting", "deferred", "unconfigured", "unrecorded"}, Opens(o),
           o = "posting" => phase' = "posting" /\ UNCHANGED snap,
           o # "posting" => phase' = "sleep",
           lastFired' = IF o = "deferred" THEN now ELSE lastFired
    PROVE  Inv'
<1> DEFINE n == Len(fires)
           slot == PrevSlot(snap.schedule, now)
           f == [slot |-> slot, outcome |-> o]
<1>1. /\ fires \in Seq(Firing) /\ n \in Nat /\ now \in Nat /\ started \in Nat
      /\ lastFired \in Nat /\ lastFired <= now /\ DOMAIN fires = 1..n
      /\ \A i \in 1..n : fires[i] \in Firing
    BY DEF Inv, TypeOK
<1>2. phase = "listed" /\ fires' = Append(fires, f) /\ UNCHANGED <<now, started>>
    BY DEF Begins, Opens
<1>3. \A i \in 1..n : fires[i].slot \in Nat /\ fires[i].outcome # "posting"
    BY <1>1, <1>2 DEF Inv, Firing
<1>4. snap.schedule \in Periods \cup {0} /\ snap.schedule # 0 /\ snap.lastFired = lastFired
    BY <1>2 DEF Begins, IsDue, Inv, TypeOK, Definition
<1>5. slot \in Nat /\ slot <= now /\ slot > started /\ slot > lastFired
    BY <1>1, <1>4, SlotOfType DEF Begins, IsDue
<1>6. phase' # "down" /\ lastFired' \in Nat /\ lastFired <= lastFired'
    BY <1>1
<1>o. f.outcome = o /\ f.slot = slot
    OBVIOUS
<1> HIDE DEF f
<1>7. /\ DOMAIN fires' = 1..(n + 1) /\ Len(fires') = n + 1
      /\ fires'[n + 1] = f
      /\ \A i \in 1..n : fires'[i] = fires[i]
    BY <1>1, <1>2
<1> HIDE DEF n, slot
<1>8. ASSUME NEW i \in 1..n
      PROVE  Spent(fires[i], now, lastFired, started) /\ fires[i].slot \in Nat
    BY <1>1, <1>2, <1>3 DEF Inv, FiresAreSpent, Guard
<1>9. FiresAreSpent'
    <2>1. Guard' = started
        BY <1>2, <1>6 DEF Guard
    <2>2. ASSUME NEW i \in 1..n PROVE Spent(fires'[i], now', lastFired', Guard')
        BY <1>1, <1>2, <1>6, <1>7, <1>8, <2>1 DEF Spent
    <2>3. Spent(f, now', lastFired', Guard')
        BY <1>1, <1>2, <1>5, <1>6, <1>o DEF Spent
    <2>4. QED
        BY <1>1, <1>7, <2>2, <2>3 DEF FiresAreSpent
<1>10. OnlyUnrecordedRefires'
    <2> SUFFICES ASSUME NEW i \in 1..(n + 1), NEW j \in 1..(n + 1),
                        i < j, fires'[j].slot <= fires'[i].slot
                 PROVE  fires'[i].outcome \in {"failed", "unconfigured", "unrecorded"}
        BY <1>7 DEF OnlyUnrecordedRefires
    <2>1. i \in 1..n /\ fires'[i] = fires[i]
        BY <1>1, <1>7
    <2>2. CASE j \in 1..n
        BY <1>1, <1>7, <2>1, <2>2 DEF Inv, OnlyUnrecordedRefires
    <2>3. CASE j = n + 1
        <3>1. slot <= fires[i].slot
            BY <1>7, <1>o, <2>1, <2>3
        <3>2. fires[i].slot > lastFired /\ fires[i].slot > started
            BY <1>1, <1>3, <1>5, <2>1, <3>1
        <3>3. fires[i].outcome \notin {"accepted", "deferred", "crashed"}
            BY <1>1, <1>2, <1>3, <1>8, <2>1, <3>2 DEF Spent
        <3>4. fires[i].outcome \in Outcomes /\ fires[i].outcome # "posting"
            BY <1>1, <1>3, <2>1 DEF Firing
        <3>5. QED
            BY <2>1, <3>3, <3>4 DEF Outcomes
    <2>4. QED
        BY <1>1, <2>2, <2>3
<1>12. ASSUME NEW i \in DOMAIN fires', fires'[i].outcome = "posting"
       PROVE  phase' = "posting" /\ i = Len(fires')
    <2>1. i \notin 1..n
        BY <1>3, <1>7, <1>12
    <2>2. i = n + 1
        BY <1>1, <1>7, <2>1
    <2>3. QED
        BY <1>7, <1>o, <1>12, <2>2
<1>13. phase' = "posting" => Len(fires') > 0 /\ fires'[Len(fires')].outcome = "posting"
    BY <1>1, <1>7, <1>o
<1>14. phase' \in {"listed", "posting"} => snap'.lastFired = lastFired'
    BY <1>4
<1>15. QED
    BY <1>9, <1>10, <1>12, <1>13, <1>14 DEF Inv
-----------------------------------------------------------------------------
LEMMA NextTypeOK == TypeOK /\ [Next]_vars => TypeOK'
<1> SUFFICES ASSUME TypeOK, [Next]_vars PROVE TypeOK'
    OBVIOUS
<1>n. Poll \in Nat /\ ListDelay \in Nat /\ PostMax \in Nat
    BY SlotsAssumption
<1>t. /\ now \in Nat /\ by \in Nat /\ started \in Nat /\ lastFired \in Nat
      /\ fires \in Seq(Firing) /\ NoDefinition \in Definition
    BY NoDefinitionIsOne DEF TypeOK
<1>o. ASSUME NEW o \in Outcomes, Outcome(o) PROVE fires' \in Seq(Firing)
    <2>1. DOMAIN fires' = 1..Len(fires) /\ Len(fires) \in Nat
        BY <1>o, <1>t DEF Outcome
    <2>2. ASSUME NEW i \in 1..Len(fires) PROVE fires'[i] \in Firing
        <3>1. fires[i] \in Firing
            BY <1>t
        <3>2. CASE i = Len(fires)
            <4>1. fires'[i] = [fires[i] EXCEPT !.outcome = o]
                BY <1>o, <1>t, <3>2 DEF Outcome
            <4>2. QED
                BY <3>1, <4>1 DEF Firing
        <3>3. CASE i # Len(fires)
            BY <1>o, <1>t, <3>1, <3>3 DEF Outcome
        <3>4. QED
            BY <3>2, <3>3
    <2>3. fires' = [i \in 1..Len(fires) |-> fires'[i]]
        BY <1>o, <1>t, <2>1 DEF Outcome
    <2>4. QED
        BY <2>1, <2>2, <2>3
<1>1. CASE Clock
    <2>1. now' \in Nat /\ now' = now + 1 /\ (phase # "down" => now' <= by)
        BY <1>1, <1>t DEF Clock
    <2>2. found' \in FoundAs /\ since' \in 0..now'
        BY <1>1, <1>t, <2>1 DEF Clock, FoundNow, FoundAs, TypeOK
    <2>3. QED
        BY <1>1, <1>t, <2>1, <2>2 DEF Clock, TypeOK
<1>2. CASE Start
    BY <1>2 DEF Start, TypeOK, Phases
<1>3. CASE ListScheduled
    <2>1. by' \in Nat /\ (phase' # "down" => now <= by')
        BY <1>3, <1>n, <1>t DEF ListScheduled, Listing
    <2>2. snap' \in Definition /\ phase' \in Phases
        BY <1>3, <1>t DEF ListScheduled, Listing, TypeOK, Definition, Phases
    <2>3. QED
        BY <1>3, <2>1, <2>2 DEF ListScheduled, Listing, TypeOK
<1>s. ASSUME Sleep, UNCHANGED now
      PROVE  /\ phase' \in Phases /\ by' \in Nat /\ snap' \in Definition
             /\ phase' # "down" => now' <= by'
    BY <1>n, <1>t, <1>s DEF Sleep, Phases
<1>4. CASE Skip
    BY <1>4, <1>s DEF Skip, TypeOK
<1>4r. CASE PollRaises
    BY <1>4r, <1>s, <1>t DEF PollRaises, TypeOK
<1>f. ASSUME NEW o \in Outcomes, Begins, Opens(o) PROVE fires' \in Seq(Firing)
    <2> DEFINE f == [slot |-> PrevSlot(snap.schedule, now), outcome |-> o]
    <2>1. PrevSlot(snap.schedule, now) \in Nat
        BY <1>f, <1>t, SlotOfType DEF Begins, IsDue, TypeOK, Definition
    <2>2. f \in Firing
        BY <2>1 DEF Firing
    <2>3. fires' = Append(fires, f)
        BY <1>f DEF Opens
    <2> HIDE DEF f
    <2>4. QED
        BY <1>t, <2>2, <2>3
<1>5. CASE Post
    <2>1. fires' \in Seq(Firing)
        BY <1>5, <1>f DEF Post, Outcomes
    <2>2. by' \in Nat /\ now' <= by'
        BY <1>5, <1>n, <1>t DEF Post, Begins
    <2>3. QED
        BY <1>5, <2>1, <2>2 DEF Post, Begins, TypeOK, Locks, Phases
<1>5u. CASE Unconfigured
    <2>1. fires' \in Seq(Firing)
        BY <1>5u, <1>f DEF Unconfigured, Outcomes
    <2>2. QED
        BY <1>5u, <1>s, <2>1 DEF Unconfigured, Begins, TypeOK, Locks
<1>5d. CASE Defer
    <2>1. fires' \in Seq(Firing)
        BY <1>5d, <1>f DEF Defer, Outcomes
    <2>2. lastFired' \in 0..now
        BY <1>5d, <1>t DEF Defer, TypeOK
    <2>3. QED
        BY <1>5d, <1>s, <2>1, <2>2 DEF Defer, Begins, TypeOK, Locks
<1>a. ASSUME NEW o \in Outcomes, Answered(o), lastFired' \in 0..now, lock' \in Locks
      PROVE  TypeOK'
    <2>1. fires' \in Seq(Firing)
        BY <1>a, <1>o DEF Answered
    <2>2. QED
        BY <1>a, <1>s, <2>1 DEF Answered, TypeOK
<1>6. CASE Accepted
    BY <1>6, <1>a, <1>t DEF Accepted, Answered, Outcomes, Locks, TypeOK
<1>6u. CASE Unrecorded
    BY <1>6u, <1>a, <1>t DEF Unrecorded, Answered, Outcomes, Locks, TypeOK
<1>7. CASE Failed
    BY <1>7, <1>a, <1>t DEF Failed, Answered, Outcomes, Locks, TypeOK
<1>8. CASE Crash
    <2>1. fires' \in Seq(Firing)
        BY <1>8, <1>o, <1>t DEF Crash, Outcomes
    <2>2. lock' \in Locks /\ phase' = "down" /\ started' \in 0..now'
        BY <1>8, <1>t DEF Crash, Locks, TypeOK
    <2>3. QED
        BY <1>8, <1>t, <2>1, <2>2 DEF Crash, TypeOK, Phases, FoundAs
<1>9. CASE RunEnds \/ Trigger
    BY <1>9, <1>t DEF RunEnds, Trigger, TypeOK, Locks
<1>10. ASSUME NEW s \in Periods \cup {0}, NEW p \in BOOLEAN, Upsert(s, p)
       PROVE  TypeOK'
    BY <1>10 DEF Upsert, TypeOK, FoundAs
<1>11. CASE UNCHANGED vars
    BY <1>11 DEF vars, TypeOK
<1>12. QED
    BY <1>1, <1>2, <1>3, <1>4, <1>4r, <1>5, <1>5u, <1>5d, <1>6, <1>6u, <1>7, <1>8,
       <1>9, <1>10, <1>11 DEF Next

(* The type invariant: among others, the thread is never past a deadline.  *)
THEOREM TypeCorrect == Spec => []TypeOK
<1>1. Init => TypeOK
    BY InitInv DEF Inv
<1>2. QED
    BY <1>1, NextTypeOK, PTL DEF Spec

LEMMA NextInv == Inv /\ [Next]_vars => Inv'
<1> SUFFICES ASSUME Inv, [Next]_vars PROVE Inv'
    OBVIOUS
<1>T. TypeOK'
    BY NextTypeOK DEF Inv
<1>n. now \in Nat /\ started \in Nat /\ started <= now
    BY DEF Inv, TypeOK
<1>1. CASE Clock
    BY <1>1, <1>T, <1>n, QuietKeepsInv DEF Clock, Inv
<1>2. CASE Start
    BY <1>2, <1>T, <1>n, QuietKeepsInv DEF Start, Inv
<1>3. CASE ListScheduled
    BY <1>3, <1>T, <1>n, QuietKeepsInv DEF ListScheduled, Listing, Inv
<1>4. CASE Skip
    BY <1>4, <1>T, <1>n, QuietKeepsInv DEF Skip, Sleep, Inv
<1>4r. CASE PollRaises
    BY <1>4r, <1>T, <1>n, QuietKeepsInv DEF PollRaises, Sleep, Inv
<1>5. CASE Post
    BY <1>5, <1>T, FireKeepsInv DEF Post
<1>5u. CASE Unconfigured
    BY <1>5u, <1>T, FireKeepsInv DEF Unconfigured, Sleep
<1>5d. CASE Defer
    <2>1. Begins /\ phase' = "sleep"
        BY <1>5d DEF Defer, Sleep
    <2>2. CASE Opens("deferred") /\ lastFired' = now
        BY <1>T, <2>1, <2>2, FireKeepsInv
    <2>3. CASE Opens("unrecorded") /\ UNCHANGED lastFired
        BY <1>T, <2>1, <2>3, FireKeepsInv
    <2>4. QED
        BY <1>5d, <2>2, <2>3 DEF Defer
<1>6. CASE Accepted
    BY <1>6, <1>T, OutcomeKeepsInv DEF Accepted, Answered, Sleep
<1>6u. CASE Unrecorded
    BY <1>6u, <1>T, OutcomeKeepsInv DEF Unrecorded, Answered, Sleep
<1>7. CASE Failed
    BY <1>7, <1>T, OutcomeKeepsInv DEF Failed, Answered, Sleep
<1>8. CASE Crash
    <2>1. CASE phase = "posting"
        BY <1>8, <1>T, <2>1, OutcomeKeepsInv DEF Crash
    <2>2. CASE phase # "posting"
        BY <1>8, <1>T, <1>n, <2>2, QuietKeepsInv DEF Crash
    <2>3. QED
        BY <2>1, <2>2
<1>9. CASE RunEnds \/ Trigger
    BY <1>9, <1>T, <1>n, QuietKeepsInv DEF RunEnds, Trigger, Inv
<1>10. ASSUME NEW s, NEW p, Upsert(s, p) PROVE Inv'
    BY <1>10, <1>T, <1>n, QuietKeepsInv DEF Upsert, Inv
<1>11. CASE UNCHANGED vars
    BY <1>11, <1>T, <1>n, QuietKeepsInv DEF vars, Inv
<1>12. QED
    BY <1>1, <1>2, <1>3, <1>4, <1>4r, <1>5, <1>5u, <1>5d, <1>6, <1>6u, <1>7, <1>8,
       <1>9, <1>10, <1>11 DEF Next

(* Whatever is edited, restarted, raised or delayed, only a fire that left *)
(* last_fired_at as it was lets its slot, or an older one, be fired again. *)
THEOREM SlotsAreSpent == Spec => []OnlyUnrecordedRefires
<1>1. Inv => OnlyUnrecordedRefires
    BY DEF Inv
<1>2. QED
    BY <1>1, InitInv, NextInv, PTL DEF Spec
-----------------------------------------------------------------------------
(* The latest slot of the schedule, and whether it has been fired.         *)
Slot == PrevSlot(schedule, now)

SlotFired == \E i \in DOMAIN fires : fires[i].slot = Slot

Swallowed == found = "busy" /\ lastFired >= Slot

(* The poll that must fire it is at hand.  A poll that was under way when  *)
(* the slot elapsed may have an older schedule in its hands: that one is   *)
(* over soon, and the next has the present one.                            *)
SlotWaits ==
    /\ started < Slot /\ lastFired < Slot
    /\ phase = "posting" => found = "busy"
    /\ phase = "listed" => snap.schedule = schedule \/ found = "busy"
    /\ lock # "other" =>
          /\ phase = "sleep" => by <= since + PostMax + Poll + ListDelay
          /\ phase = "listed" =>
                /\ by <= since + PostMax + Poll + 2 * ListDelay
                /\ snap.schedule = schedule \/ by <= since + ListDelay
          /\ phase = "posting" => by <= since + ListDelay + PostMax

Deadlines ==
    /\ phase = "sleep" => by <= now + Poll
    /\ phase = "listed" => by <= now + ListDelay
    /\ phase = "posting" => by <= now + PostMax
    /\ lock = "fire" => phase = "posting"

SlotInv ==
    found # "no" => /\ schedule # 0 /\ phase # "down"
                    /\ SlotFired \/ Swallowed \/ SlotWaits

(* One unit of time further, the latest slot is the same or it is new.     *)
LEMMA SlotMoves ==
    ASSUME NEW p \in Nat \ {0}, NEW t \in Nat
    PROVE  PrevSlot(p, t + 1) \in {t, PrevSlot(p, t)}
<1>1. CASE t = 0
    BY <1>1 DEF PrevSlot
<1>2. CASE t # 0
    <2>1. PrevSlot(p, t + 1) = (t \div p) * p /\ PrevSlot(p, t) = ((t - 1) \div p) * p
        BY <1>2 DEF PrevSlot
    <2>2. (t \div p) * p = t \/ t \div p = (t - 1) \div p
        BY <1>2
    <2>3. QED
        BY <2>1, <2>2
<1>3. QED
    BY <1>1, <1>2

(* Steps that leave the clock, the schedule and the fires' slots alone.    *)
LEMMA FiredStays ==
    ASSUME DOMAIN fires' = DOMAIN fires,
           \A i \in DOMAIN fires : fires'[i].slot = fires[i].slot,
           UNCHANGED <<now, schedule>>, SlotFired
    PROVE  SlotFired'
BY DEF SlotFired, Slot

LEMMA NextDeadlines == Inv /\ Deadlines /\ [Next]_vars => Deadlines'
<1> SUFFICES ASSUME Inv, Deadlines, [Next]_vars PROVE Deadlines'
    OBVIOUS
<1>n. Poll \in Nat /\ ListDelay \in Nat /\ PostMax \in Nat /\ now \in Nat /\ by \in Nat
    BY SlotsAssumption DEF Inv, TypeOK
<1>1. CASE Clock
    BY <1>1, <1>n DEF Clock, Deadlines
<1>2. CASE Start
    BY <1>2, <1>n DEF Start, Deadlines
<1>3. CASE ListScheduled
    BY <1>3, <1>n DEF ListScheduled, Listing, Deadlines
<1>4. CASE Skip \/ PollRaises
    BY <1>4, <1>n DEF Skip, PollRaises, Sleep, Deadlines
<1>5. CASE Post
    BY <1>5, <1>n DEF Post, Begins, Deadlines
<1>6. CASE Unconfigured \/ Defer
    BY <1>6, <1>n DEF Unconfigured, Defer, Begins, Sleep, Deadlines
<1>7. CASE Accepted \/ Unrecorded \/ Failed
    BY <1>7, <1>n DEF Accepted, Unrecorded, Failed, Answered, Sleep, Deadlines
<1>8. CASE Crash
    BY <1>8, <1>n DEF Crash, Deadlines
<1>9. CASE RunEnds \/ Trigger
    BY <1>9, <1>n DEF RunEnds, Trigger, Deadlines
<1>10. ASSUME NEW s, NEW p, Upsert(s, p) PROVE Deadlines'
    BY <1>10, <1>n DEF Upsert, Deadlines
<1>11. CASE UNCHANGED vars
    BY <1>11, <1>n DEF vars, Deadlines
<1>12. QED
    BY <1>1, <1>2, <1>3, <1>4, <1>5, <1>6, <1>7, <1>8, <1>9, <1>10, <1>11 DEF Next

LEMMA NextSlot == Inv /\ Deadlines /\ SlotInv /\ [Next]_vars => SlotInv'
<1> SUFFICES ASSUME Inv, Deadlines, SlotInv, [Next]_vars, found' # "no"
             PROVE  /\ schedule' # 0 /\ phase' # "down"
                    /\ SlotFired' \/ Swallowed' \/ SlotWaits'
    BY DEF SlotInv
<1>n. Poll \in Nat /\ ListDelay \in Nat /\ PostMax \in Nat
    BY SlotsAssumption
<1>t. /\ now \in Nat /\ by \in Nat /\ started \in Nat /\ lastFired \in Nat
      /\ since \in Nat /\ since <= now /\ started <= now /\ lastFired <= now
      /\ schedule \in Periods \cup {0} /\ fires \in Seq(Firing)
      /\ phase # "down" => now <= by
      /\ found \in FoundAs /\ phase \in Phases /\ lock \in Locks
    BY DEF Inv, TypeOK
<1>s. schedule # 0 => Slot \in Nat /\ Slot <= now
    BY <1>t, SlotOfType DEF Slot
<1>o. ASSUME NEW o, Outcome(o), UNCHANGED <<now, schedule>>, SlotFired PROVE SlotFired'
    <2>1. DOMAIN fires' = DOMAIN fires
        BY <1>o DEF Outcome
    <2>2. ASSUME NEW i \in DOMAIN fires PROVE fires'[i].slot = fires[i].slot
        <3>1. fires[i] \in Firing
            BY <1>t
        <3>2. QED
            BY <1>o, <3>1 DEF Outcome, Firing
    <2>3. QED
        BY <1>o, <2>1, <2>2, FiredStays
<1>h. ASSUME found # "no"
      PROVE  /\ schedule # 0 /\ phase # "down"
             /\ SlotFired \/ Swallowed \/ SlotWaits
    BY <1>h DEF SlotInv
<1>1. CASE Clock
    <2>1. /\ now' = now + 1
          /\ UNCHANGED <<schedule, lock, lastFired, phase, by, started, snap, fires>>
        BY <1>1 DEF Clock
    <2>2. CASE schedule # 0 /\ PrevSlot(schedule, now + 1) = now
        <3>1. Slot' = now /\ found' = FoundNow /\ since' = now
            BY <1>1, <2>1, <2>2 DEF Clock, Slot
        <3>2. phase # "down" /\ started < now
            BY <1>t, <3>1 DEF FoundNow
        <3>3. \/ found' = "idle" /\ phase = "sleep" /\ lastFired < now
              \/ found' = "busy"
            BY <3>1, <3>2 DEF FoundNow
        <3>4. CASE lastFired < now
            <4>1. SlotWaits'
                BY <1>n, <1>t, <2>1, <3>1, <3>2, <3>3, <3>4 DEF Deadlines, SlotWaits
            <4>2. QED
                BY <2>1, <2>2, <3>2, <4>1
        <3>5. CASE ~(lastFired < now)
            BY <1>t, <2>1, <2>2, <3>1, <3>2, <3>3, <3>5 DEF Swallowed
        <3>6. QED
            BY <3>4, <3>5
    <2>3. CASE ~(schedule # 0 /\ PrevSlot(schedule, now + 1) = now)
        <3>1. UNCHANGED <<found, since>>
            BY <1>1, <2>3 DEF Clock
        <3>2. schedule # 0 => Slot' = Slot
            <4>1. schedule # 0 => schedule \in Nat \ {0}
                BY <1>t, SlotsAssumption
            <4>2. QED
                BY <1>t, <2>1, <2>3, <4>1, SlotMoves DEF Slot
        <3>3. QED
            BY <1>h, <2>1, <3>1, <3>2 DEF SlotFired, Swallowed, SlotWaits
    <2>4. QED
        BY <2>2, <2>3
<1>2. CASE Start
    BY <1>2, <1>h DEF Start
<1>3. CASE ListScheduled
    <2>1. UNCHANGED <<now, schedule, fires, found, since, lock, lastFired, started>>
          /\ phase = "sleep" /\ now = by
        BY <1>3 DEF ListScheduled, Listing
    <2>2. schedule # 0 /\ Slot' = Slot
        BY <1>h, <2>1 DEF Slot
    <2>3. phase' = "listed" /\ by' = now + ListDelay /\ snap'.schedule = schedule
        BY <1>3, <2>2 DEF ListScheduled, Listing
    <2>4. SlotWaits => SlotWaits'
        BY <1>n, <1>t, <2>1, <2>2, <2>3 DEF SlotWaits
    <2>5. QED
        BY <1>h, <2>1, <2>2, <2>3, <2>4 DEF SlotFired, Swallowed
<1>4. CASE Skip
    <2>1. /\ UNCHANGED <<now, schedule, fires, found, since, lock, lastFired, started>>
          /\ phase = "listed" /\ phase' = "sleep" /\ by' = now + Poll
          /\ ~IsDue(snap, now) \/ lock # "free"
        BY <1>4 DEF Skip, Sleep
    <2>2. schedule # 0 /\ Slot' = Slot
        BY <1>h, <2>1 DEF Slot
    <2>3. ASSUME SlotWaits PROVE SlotWaits'
        <3>1. snap.lastFired = lastFired /\ lock # "fire"
            BY <2>1 DEF Inv, Deadlines
        <3>2. CASE lock = "other"
            BY <2>1, <2>2, <2>3, <3>2 DEF SlotWaits
        <3>3. CASE lock # "other"
            <4>1. lock = "free"
                BY <1>t, <3>1, <3>3 DEF Locks
            <4>2. snap.schedule # schedule
                BY <1>t, <1>s, <2>1, <2>2, <2>3, <3>1, <4>1 DEF SlotWaits, IsDue, Slot
            <4>3. by <= since + ListDelay
                BY <2>1, <2>3, <3>3, <4>2 DEF SlotWaits
            <4>4. QED
                BY <1>n, <1>t, <2>1, <2>2, <2>3, <4>3 DEF SlotWaits
        <3>4. QED
            BY <3>2, <3>3
    <2>4. QED
        BY <1>h, <2>1, <2>2, <2>3 DEF SlotFired, Swallowed
<1>4r. CASE PollRaises
    <2>1. /\ UNCHANGED <<now, schedule, fires, found, lock, lastFired, started>>
          /\ since' = now /\ phase' = "sleep" /\ by' = now + Poll
        BY <1>4r DEF PollRaises, Sleep
    <2>2. Slot' = Slot
        BY <2>1 DEF Slot
    <2>3. SlotWaits => SlotWaits'
        BY <1>n, <1>t, <2>1, <2>2 DEF SlotWaits
    <2>4. QED
        BY <1>h, <2>1, <2>2, <2>3 DEF SlotFired, Swallowed
<1>f. ASSUME Begins, NEW o, Opens(o)
      PROVE  /\ SlotFired => SlotFired'
             /\ snap.schedule = schedule => SlotFired'
    <2> DEFINE f == [slot |-> PrevSlot(snap.schedule, now), outcome |-> o]
    <2>1. fires' = Append(fires, f) /\ f.slot = PrevSlot(snap.schedule, now)
        BY <1>f DEF Opens
    <2>2. UNCHANGED <<now, schedule>> /\ Slot' = Slot
        BY <1>f DEF Begins, Slot
    <2> HIDE DEF f
    <2>3. /\ Len(fires) + 1 \in DOMAIN fires' /\ fires'[Len(fires) + 1] = f
          /\ \A i \in DOMAIN fires : i \in DOMAIN fires' /\ fires'[i] = fires[i]
        BY <1>t, <2>1
    <2>4. snap.schedule = schedule => f.slot = Slot
        BY <2>1 DEF Slot
    <2>5. QED
        BY <2>2, <2>3, <2>4 DEF SlotFired
<1>5. CASE Post \/ Unconfigured \/ Defer
    <2>1. /\ phase = "listed" /\ UNCHANGED <<now, schedule, found, since, started>>
          /\ \E o : Begins /\ Opens(o)
        BY <1>5 DEF Post, Unconfigured, Defer, Begins
    <2>2. Slot' = Slot /\ schedule # 0
        BY <1>h, <2>1 DEF Slot
    <2>3. phase' # "down"
        BY <1>5 DEF Post, Unconfigured, Defer, Sleep
    <2>4. CASE SlotFired \/ snap.schedule = schedule
        BY <1>f, <2>1, <2>2, <2>3, <2>4
    <2>5. CASE Swallowed
        BY <1>5, <1>s, <1>t, <2>1, <2>2, <2>3, <2>5
           DEF Swallowed, Post, Unconfigured, Defer
    <2>6. CASE SlotWaits /\ snap.schedule # schedule
        <3>1. found = "busy" /\ lock = "free" /\ by <= since + ListDelay
            BY <1>5, <2>1, <2>6 DEF SlotWaits, Begins
        <3>2. CASE lastFired' = now
            BY <1>s, <2>1, <2>2, <2>3, <3>1, <3>2 DEF Swallowed
        <3>3. CASE UNCHANGED lastFired /\ lock' = "other" /\ phase' = "sleep"
            BY <2>1, <2>2, <2>6, <3>3 DEF SlotWaits
        <3>4. CASE UNCHANGED lastFired /\ phase' = "posting" /\ by' = now + PostMax
            BY <1>n, <1>t, <2>1, <2>2, <2>6, <3>1, <3>4 DEF SlotWaits
        <3>5. QED
            BY <1>5, <3>2, <3>3, <3>4 DEF Post, Unconfigured, Defer, Sleep
    <2>7. QED
        BY <1>h, <2>1, <2>4, <2>5, <2>6
<1>6. CASE Accepted \/ Unrecorded \/ Failed
    <2>1. /\ UNCHANGED <<now, schedule, found, since, started>> /\ phase = "posting"
          /\ phase' = "sleep" /\ by' = now + Poll /\ \E o : Outcome(o)
          /\ lastFired' = now \/ (UNCHANGED lastFired /\ (lock' = "other" \/ lock # "other"))
        BY <1>6, <1>t DEF Accepted, Unrecorded, Failed, Answered, Sleep
    <2>2. Slot' = Slot /\ schedule # 0
        BY <1>h, <2>1 DEF Slot
    <2>3. CASE SlotFired
        BY <1>o, <2>1, <2>2, <2>3
    <2>4. CASE Swallowed
        BY <1>s, <1>t, <2>1, <2>2, <2>4 DEF Swallowed
    <2>5. CASE SlotWaits
        <3>1. found = "busy"
            BY <2>1, <2>5 DEF SlotWaits
        <3>2. CASE lastFired' = now
            BY <1>s, <2>1, <2>2, <3>1, <3>2 DEF Swallowed
        <3>3. CASE UNCHANGED lastFired /\ (lock' = "other" \/ lock # "other")
            BY <1>n, <1>t, <2>1, <2>2, <2>5, <3>3 DEF SlotWaits
        <3>4. QED
            BY <2>1, <3>2, <3>3
    <2>6. QED
        BY <1>h, <2>1, <2>3, <2>4, <2>5
<1>7. CASE Crash
    BY <1>7 DEF Crash
<1>8. CASE RunEnds
    <2>1. /\ UNCHANGED <<now, schedule, phase, by, found, fires, lastFired, started, snap>>
          /\ since' = now
        BY <1>8 DEF RunEnds
    <2>2. Slot' = Slot
        BY <2>1 DEF Slot
    <2>3. SlotWaits => SlotWaits'
        BY <1>n, <1>t, <2>1, <2>2 DEF Deadlines, SlotWaits
    <2>4. QED
        BY <1>h, <2>1, <2>2, <2>3 DEF SlotFired, Swallowed
<1>9. CASE Trigger
    <2>1. /\ UNCHANGED <<now, schedule, phase, by, found, fires, lastFired, started, snap, since>>
          /\ lock' = "other"
        BY <1>9 DEF Trigger
    <2>2. Slot' = Slot
        BY <2>1 DEF Slot
    <2>3. QED
        BY <1>h, <2>1, <2>2 DEF SlotFired, Swallowed, SlotWaits
<1>10. ASSUME NEW s, NEW p, Upsert(s, p)
       PROVE  /\ schedule' # 0 /\ phase' # "down"
              /\ SlotFired' \/ Swallowed' \/ SlotWaits'
    <2>1. /\ UNCHANGED <<now, lastFired, lock, phase, by, started, snap, since, fires>>
          /\ schedule' = schedule /\ found' = found
        BY <1>10 DEF Upsert
    <2>2. QED
        BY <1>h, <2>1 DEF SlotFired, Swallowed, SlotWaits, Slot
<1>11. CASE UNCHANGED vars
    BY <1>11, <1>h DEF vars, SlotFired, Swallowed, SlotWaits, Slot
<1>12. QED
    BY <1>1, <1>2, <1>3, <1>4, <1>4r, <1>5, <1>6, <1>7, <1>8, <1>9, <1>10, <1>11 DEF Next

(* A slot that elapsed with the scheduler up is fired within the longest   *)
(* poll and callback after it, or after the last poll that raised and the  *)
(* last run that held the lock: for any schedules and delays, whatever is  *)
(* edited, raised or triggered meanwhile, and unless a poll that was under *)
(* way as it elapsed recorded its own fire after it.                       *)
THEOREM SlotsAreFired == Spec => []EverySlotFires
<1>1. Init => Deadlines /\ SlotInv
    BY DEF Init, Deadlines, SlotInv
<1>2. Inv /\ Deadlines /\ SlotInv => EverySlotFires
    <2> SUFFICES ASSUME Inv, SlotInv, found # "no", lock = "free",
                        since + (Poll + PostMax + 2 * ListDelay) < now,
                        ~SlotFired, ~Swallowed
                 PROVE  FALSE
        BY DEF EverySlotFires, Slot, SlotFired, Swallowed
    <2>1. SlotWaits /\ phase \in {"sleep", "listed", "posting"}
        BY DEF SlotInv, Inv, TypeOK, Phases
    <2>2. now \in Nat /\ by \in Nat /\ since \in Nat /\ now <= by
        BY <2>1 DEF Inv, TypeOK
    <2>3. Poll \in Nat /\ ListDelay \in Nat /\ PostMax \in Nat
        BY SlotsAssumption
    <2>4. QED
        BY <2>1, <2>2, <2>3 DEF SlotWaits
<1>3. QED
    BY <1>1, <1>2, InitInv, NextInv, NextDeadlines, NextSlot, PTL DEF Spec
=============================================================================
