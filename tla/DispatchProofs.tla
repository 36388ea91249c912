--------------------------- MODULE DispatchProofs ----------------------------
(***************************************************************************)
(* No fire is forgotten and no queue loses a run, for any reports, slots   *)
(* and bounds.  Every action changes the runs one record at a time         *)
(* (Update), all of them alike (Restart) or by adding one (Begin); so it   *)
(* is enough to look at what may become of a single record.                *)
(***************************************************************************)
EXTENDS Dispatch, TLAPS

Shape == runs \in [DOMAIN runs -> Run]

Inv == Shape /\ AttendedIfConfigured

Good(run) == configured /\ run.open => Attended(run)

\* What a step may make of the run m of the next state.
Proper(m) == runs'[m] \in Run /\ Good(runs'[m])

ProperStep == runs' \in [DOMAIN runs' -> Run] /\ \A m \in DOMAIN runs' : Proper(m)

LEMMA OldRuns ==
    ASSUME Inv, NEW m \in DOMAIN runs
    PROVE  runs[m] \in Run /\ Good(runs[m])
BY DEF Inv, Shape, AttendedIfConfigured, OpenRunIsAttended, Good

LEMMA TidyEffect ==
    ASSUME NEW f
    PROVE  /\ DOMAIN Tidy(f) \subseteq DOMAIN f
           /\ Tidy(f) = [m \in DOMAIN Tidy(f) |-> f[m]]
BY DEF Tidy, Restrict

(* One record changes: the step is proper if that record is.               *)
LEMMA UpdateIsProper ==
    ASSUME Inv, NEW n, NEW run, Update(n, run),
           n \in DOMAIN runs => run \in Run /\ Good(run)
    PROVE  ProperStep
<1> DEFINE f == [runs EXCEPT ![n] = run]
<1>1. runs' = Tidy(f)
  BY DEF Update
<1>2. /\ DOMAIN runs' \subseteq DOMAIN runs
      /\ runs' = [m \in DOMAIN runs' |-> f[m]]
  <2>1. DOMAIN f = DOMAIN runs
    OBVIOUS
  <2> QED BY <1>1, <2>1, TidyEffect
<1>3. ASSUME NEW m \in DOMAIN runs' PROVE Proper(m)
  <2>1. m \in DOMAIN runs /\ runs'[m] = f[m]
    BY <1>2
  <2>2. CASE m = n
    <3>1. runs'[m] = run
      BY <2>1, <2>2 DEF Inv, Shape
    <3> QED BY <2>1, <2>2, <3>1 DEF Proper
  <2>3. CASE m # n
    <3>1. runs'[m] = runs[m]
      BY <2>1, <2>3 DEF Inv, Shape
    <3> QED BY <2>1, <3>1, OldRuns DEF Proper
  <2> QED BY <2>2, <2>3
<1>4. runs' \in [DOMAIN runs' -> Run]
  BY <1>2, <1>3 DEF Proper
<1> QED BY <1>3, <1>4 DEF ProperStep

LEMMA NewRunIsGood ==
    ASSUME NEW r \in Reports, NEW l \in Loops
    PROVE  NewRun(r, l) \in Run /\ Good(NewRun(r, l))
<1>1. NewRun(r, l) \in Run
  BY DEF NewRun, Run, Stages
<1>2. Good(NewRun(r, l))
  BY DEF NewRun, Good, Attended
<1> QED BY <1>1, <1>2

LEMMA BeginIsProper ==
    ASSUME Inv, NEW r \in Reports, NEW l \in Loops, Begin(r, l)
    PROVE  ProperStep
<1> DEFINE g == [n \in DOMAIN runs |-> IF n \in Held(r)
                                       THEN [runs[n] EXCEPT !.open = FALSE]
                                       ELSE runs[n]]
           expired == Tidy(g)
<1>1. PICK id \in Ids \ DOMAIN runs :
         runs' = [n \in DOMAIN expired \cup {id} |->
                     IF n = id THEN NewRun(r, l) ELSE expired[n]]
  BY DEF Begin
<1>2. DOMAIN expired \subseteq DOMAIN runs /\ expired = [n \in DOMAIN expired |-> g[n]]
  <2>1. DOMAIN g = DOMAIN runs
    OBVIOUS
  <2> QED BY <2>1, TidyEffect
<1>3. ASSUME NEW m \in DOMAIN runs, runs[m] \in Run, Good(runs[m])
      PROVE  g[m] \in Run /\ Good(g[m])
  <2>1. CASE m \in Held(r)
    <3>1. g[m] = [runs[m] EXCEPT !.open = FALSE]
      BY <2>1
    <3>2. g[m] \in Run /\ ~g[m].open
      BY <1>3, <3>1 DEF Run
    <3> QED BY <3>2 DEF Good
  <2>2. CASE m \notin Held(r)
    BY <1>3, <2>2
  <2> QED BY <2>1, <2>2
<1> HIDE DEF g, expired
<1>4. ASSUME NEW m \in DOMAIN runs' PROVE Proper(m)
  <2>1. CASE m = id
    <3>1. runs'[m] = NewRun(r, l)
      BY <1>1, <2>1
    <3> QED BY <3>1, NewRunIsGood DEF Proper
  <2>2. CASE m # id
    <3>1. m \in DOMAIN expired /\ runs'[m] = expired[m]
      BY <1>1, <2>2
    <3>2. m \in DOMAIN runs /\ runs'[m] = g[m]
      BY <1>2, <3>1
    <3>3. g[m] \in Run /\ Good(g[m])
      BY <1>3, <3>2, OldRuns
    <3> QED BY <3>2, <3>3 DEF Proper
  <2> QED BY <2>1, <2>2
<1>5. runs' \in [DOMAIN runs' -> Run]
  <2>1. \A m \in DOMAIN runs' : runs'[m] \in Run
    BY <1>4 DEF Proper
  <2> QED BY <1>1, <2>1
<1> QED BY <1>4, <1>5 DEF ProperStep

LEMMA RestartIsProper == ASSUME Inv, Restart PROVE ProperStep
<1> DEFINE g == [n \in DOMAIN runs |->
                    [runs[n] EXCEPT !.stage = "done",
                                    !.cut = @ \/ runs[n].stage # "done"]]
<1>1. runs' = Tidy(g)
  BY DEF Restart
<1>2. DOMAIN runs' \subseteq DOMAIN runs /\ runs' = [n \in DOMAIN runs' |-> g[n]]
  <2>1. DOMAIN g = DOMAIN runs
    OBVIOUS
  <2> QED BY <1>1, <2>1, TidyEffect
<1>3. ASSUME NEW m \in DOMAIN runs' PROVE Proper(m)
  <2>1. m \in DOMAIN runs /\ runs'[m] = g[m]
    BY <1>2
  <2>2. runs[m] \in Run /\ Good(runs[m])
    BY <2>1, OldRuns
  <2>3. runs'[m] = [runs[m] EXCEPT !.stage = "done",
                                   !.cut = @ \/ runs[m].stage # "done"]
    BY <2>1
  <2>4. runs'[m] \in Run
    BY <2>2, <2>3 DEF Run, Stages
  <2>5. Good(runs'[m])
    BY <2>2, <2>3 DEF Good, Attended, Run
  <2> QED BY <2>4, <2>5 DEF Proper
<1>4. runs' \in [DOMAIN runs' -> Run]
  BY <1>2, <1>3 DEF Proper
<1> QED BY <1>3, <1>4 DEF ProperStep

LEMMA UnchangedIsProper == ASSUME Inv, UNCHANGED runs PROVE ProperStep
BY OldRuns DEF ProperStep, Proper, Inv, Shape

LEMMA FailIsProper ==
    ASSUME Inv, NEW n \in DOMAIN runs, Fail(n) \/ Abandon(n)
    PROVE  ProperStep
<1>r. runs[n] \in Run
  BY OldRuns
<1>1. CASE Fail(n)
  <2> DEFINE run == [runs[n] EXCEPT !.stage = "done", !.open = FALSE]
  <2>1. Update(n, run)
    BY <1>1 DEF Fail
  <2>2. run \in Run /\ ~run.open
    BY <1>r DEF Run, Stages
  <2> HIDE DEF run
  <2> QED BY <2>1, <2>2, UpdateIsProper DEF Good
<1>2. CASE Abandon(n)
  <2> DEFINE run == [runs[n] EXCEPT !.stage = "done", !.cut = TRUE]
  <2>1. Update(n, run)
    BY <1>2 DEF Abandon
  <2>2. run \in Run /\ run.cut
    BY <1>r DEF Run, Stages
  <2> HIDE DEF run
  <2> QED BY <2>1, <2>2, UpdateIsProper DEF Good, Attended
<1> QED BY <1>1, <1>2

(* One case per action.                                                    *)
LEMMA NextIsProper ==
    ASSUME Inv, [Next]_vars
    PROVE  ProperStep /\ configured' = configured
<1>1. CASE UNCHANGED vars
  BY <1>1, UnchangedIsProper DEF vars
<1>2. ASSUME NEW r \in Reports, Trigger(r) PROVE ProperStep /\ configured' = configured
  BY <1>2, BeginIsProper DEF Trigger, Loops
<1>3. ASSUME NEW r \in Scheduled, Elapse(r) \/ Skip(r)
      PROVE  ProperStep /\ configured' = configured
  BY <1>3, UnchangedIsProper DEF Elapse, Skip
<1>4. ASSUME NEW r \in Scheduled, Fire(r) PROVE ProperStep /\ configured' = configured
  BY <1>4, BeginIsProper, DispatchAssumption DEF Fire, Loops
<1>5. ASSUME Poll \/ PollRaises PROVE ProperStep /\ configured' = configured
  BY <1>5, UnchangedIsProper DEF Poll, PollRaises
<1>6. ASSUME NEW l \in Loops, SweepStart(l) PROVE ProperStep /\ configured' = configured
  <2> DEFINE n == Head(queue[l])
             run == [runs[n] EXCEPT !.stage = IF runs[n].open THEN "sweeping" ELSE "done"]
  <2>1. Update(n, run) /\ configured' = configured
    BY <1>6 DEF SweepStart
  <2>2. ASSUME n \in DOMAIN runs
        PROVE  run \in Run /\ Good(run)
    <3>1. runs[n] \in Run
      BY <2>2, OldRuns
    <3>2. run \in Run /\ (run.open => run.stage = "sweeping")
      BY <3>1 DEF Run, Stages
    <3> HIDE DEF run
    <3> QED BY <3>2 DEF Good, Attended
  <2> HIDE DEF n, run
  <2> QED BY <2>1, <2>2, UpdateIsProper
<1>7. ASSUME NEW n \in DOMAIN runs, SweepEnd(n) PROVE ProperStep /\ configured' = configured
  <2> DEFINE run == [runs[n] EXCEPT
                        !.swept = TRUE,
                        !.stage = IF runs[n].report \in Pull THEN "done" ELSE "swept"]
  <2>1. Update(n, run) /\ configured' = configured
    BY <1>7 DEF SweepEnd
  <2>2. runs[n] \in Run
    BY OldRuns
  <2>3. /\ run \in Run /\ run.swept
        /\ run.stage = "done" => run.report \in Pull
    BY <2>2 DEF Run, Stages
  <2> HIDE DEF run
  <2>4. Good(run)
    BY <2>3 DEF Good, Attended
  <2> QED BY <2>1, <2>3, <2>4, UpdateIsProper
<1>7r. ASSUME NEW n \in DOMAIN runs, Recheck(n) PROVE ProperStep /\ configured' = configured
  <2> DEFINE run == [runs[n] EXCEPT !.stage = IF runs[n].open THEN "posting" ELSE "done"]
  <2>1. Update(n, run) /\ configured' = configured
    BY <1>7r DEF Recheck
  <2>2. runs[n] \in Run
    BY OldRuns
  <2>3. run \in Run /\ (run.open => run.stage = "posting")
    BY <2>2 DEF Run, Stages
  <2> HIDE DEF run
  <2> QED BY <2>1, <2>3, UpdateIsProper DEF Good, Attended
<1>8. ASSUME NEW n \in DOMAIN runs, SweepCrashed(n) \/ PostFailed(n)
      PROVE  ProperStep /\ configured' = configured
  BY <1>8, FailIsProper DEF SweepCrashed, PostFailed
<1>9. ASSUME NEW n \in DOMAIN runs, PostAccepted(n)
      PROVE  ProperStep /\ configured' = configured
  <2> DEFINE run == [runs[n] EXCEPT !.stage = "done", !.told = TRUE]
  <2>1. Update(n, run) /\ configured' = configured
    BY <1>9 DEF PostAccepted
  <2>2. runs[n] \in Run
    BY OldRuns
  <2>3. run \in Run /\ run.told /\ run.stage = "done"
    BY <2>2 DEF Run, Stages
  <2> HIDE DEF run
  <2> QED BY <2>1, <2>3, UpdateIsProper DEF Good, Attended
<1>10. ASSUME NEW n \in DOMAIN runs, PostUnconfigured(n)
       PROVE  ProperStep /\ configured' = configured
  <2> DEFINE run == [runs[n] EXCEPT !.stage = "done"]
  <2>1. ~configured /\ configured' = configured /\ (Update(n, run) \/ Fail(n) \/ Abandon(n))
    BY <1>10 DEF PostUnconfigured
  <2>2. run \in Run
    BY OldRuns DEF Run, Stages
  <2> HIDE DEF run
  <2>3. Update(n, run) => ProperStep
    BY <2>1, <2>2, UpdateIsProper DEF Good
  <2> QED BY <2>1, <2>3, FailIsProper
<1>11. ASSUME NEW n \in DOMAIN runs, Close(n) PROVE ProperStep /\ configured' = configured
  <2> DEFINE run == [runs[n] EXCEPT !.open = FALSE]
  <2>1. Update(n, run) /\ configured' = configured
    BY <1>11 DEF Close
  <2>2. run \in Run /\ ~run.open
    BY OldRuns DEF Run
  <2> HIDE DEF run
  <2> QED BY <2>1, <2>2, UpdateIsProper DEF Good
<1>12. ASSUME NEW n \in DOMAIN runs, Lapse(n) PROVE ProperStep /\ configured' = configured
  <2> DEFINE run == [runs[n] EXCEPT !.stale = TRUE]
  <2>1. Update(n, run) /\ configured' = configured
    BY <1>12 DEF Lapse
  <2>2. run \in Run /\ Good(run)
    BY OldRuns DEF Run, Good, Attended
  <2> HIDE DEF run
  <2> QED BY <2>1, <2>2, UpdateIsProper
<1>13. ASSUME Restart PROVE ProperStep /\ configured' = configured
  BY <1>13, RestartIsProper DEF Restart
<1> QED
  BY <1>1, <1>2, <1>3, <1>4, <1>5, <1>6, <1>7, <1>7r, <1>8, <1>9, <1>10,
     <1>11, <1>12, <1>13
     DEF Next

LEMMA InitInv == Init => Inv
BY DEF Init, Inv, Shape, AttendedIfConfigured, OpenRunIsAttended

LEMMA NextInv == Inv /\ [Next]_vars => Inv'
<1> SUFFICES ASSUME Inv, [Next]_vars PROVE Inv'
  OBVIOUS
<1>1. ProperStep /\ configured' = configured
  BY NextIsProper
<1>2. Shape'
  BY <1>1 DEF ProperStep, Shape
<1>3. AttendedIfConfigured'
  BY <1>1 DEF ProperStep, Proper, Good, Attended, AttendedIfConfigured, OpenRunIsAttended
<1> QED BY <1>2, <1>3 DEF Inv

LEMMA InvHolds == Spec => []Inv
BY InitInv, NextInv, PTL DEF Spec

(* A process that can post callbacks forgets no fire, whatever fails, in   *)
(* whatever order, except in a restart or where fail_run itself fails.     *)
THEOREM FiresAreAttended == Spec => []AttendedIfConfigured
<1>1. Inv => AttendedIfConfigured
  BY DEF Inv
<1> QED BY <1>1, InvHolds, PTL
-----------------------------------------------------------------------------
(* The queues.  A queued run is in the queue of its loop, once, and nothing*)
(* else is in it.                                                          *)

IsIn(n, s) == \E i \in DOMAIN s : s[i] = n

Queues(table, q) ==
    /\ q \in [Loops -> Seq(Ids)]
    /\ \A l \in Loops : IsInjective(q[l])
    /\ \A l \in Loops, n \in Ids :
          IsIn(n, q[l]) <=>
              n \in DOMAIN table /\ table[n].loop = l /\ table[n].stage = "queued"

QueueInv ==
    /\ DOMAIN runs \subseteq Ids
    /\ Queues(runs, queue)
    /\ due \subseteq Scheduled /\ todo \subseteq Scheduled /\ crashes \in Nat
    /\ configured \in BOOLEAN

LEMMA TailOfQueue ==
    ASSUME NEW S, NEW s \in Seq(S), IsInjective(s), s # <<>>
    PROVE  /\ Tail(s) \in Seq(S) /\ IsInjective(Tail(s))
           /\ Head(s) \in S /\ IsIn(Head(s), s)
           /\ \A n : IsIn(n, Tail(s)) <=> n # Head(s) /\ IsIn(n, s)
<1>1. /\ Tail(s) \in Seq(S) /\ Len(Tail(s)) = Len(s) - 1 /\ Len(s) \in Nat /\ Len(s) > 0
      /\ DOMAIN s = 1..Len(s) /\ DOMAIN Tail(s) = 1..(Len(s) - 1)
      /\ \A i \in 1..(Len(s) - 1) : Tail(s)[i] = s[i + 1]
      /\ Head(s) = s[1] /\ Head(s) \in S
  OBVIOUS
<1>2. \A i, j \in 1..Len(s) : s[i] = s[j] => i = j
  BY <1>1 DEF IsInjective
<1>3. IsInjective(Tail(s))
  <2> SUFFICES ASSUME NEW i \in 1..(Len(s) - 1), NEW j \in 1..(Len(s) - 1),
                      Tail(s)[i] = Tail(s)[j]
               PROVE  i = j
    BY <1>1 DEF IsInjective
  <2>1. i + 1 \in 1..Len(s) /\ j + 1 \in 1..Len(s) /\ s[i + 1] = s[j + 1]
    BY <1>1
  <2>2. i + 1 = j + 1
    BY <1>2, <2>1
  <2> QED BY <2>2
<1>4. ASSUME NEW n PROVE IsIn(n, Tail(s)) <=> n # Head(s) /\ IsIn(n, s)
  <2>1. ASSUME NEW i \in 1..(Len(s) - 1), Tail(s)[i] = n
        PROVE  n # Head(s) /\ IsIn(n, s)
    <3>1. i + 1 \in 1..Len(s) /\ s[i + 1] = n /\ i + 1 # 1 /\ 1 \in 1..Len(s)
      BY <1>1, <2>1
    <3> QED BY <1>1, <1>2, <3>1 DEF IsIn
  <2>2. ASSUME NEW i \in 1..Len(s), s[i] = n, n # Head(s)
        PROVE  IsIn(n, Tail(s))
    <3>1. i - 1 \in 1..(Len(s) - 1) /\ Tail(s)[i - 1] = s[(i - 1) + 1] /\ (i - 1) + 1 = i
      BY <1>1, <2>2
    <3> QED BY <1>1, <2>2, <3>1 DEF IsIn
  <2> QED BY <1>1, <2>1, <2>2 DEF IsIn
<1>5. IsIn(Head(s), s)
  BY <1>1 DEF IsIn
<1> QED BY <1>1, <1>3, <1>4, <1>5

LEMMA AppendToQueue ==
    ASSUME NEW S, NEW s \in Seq(S), IsInjective(s), NEW m \in S, ~IsIn(m, s)
    PROVE  /\ Append(s, m) \in Seq(S) /\ IsInjective(Append(s, m))
           /\ \A n : IsIn(n, Append(s, m)) <=> n = m \/ IsIn(n, s)
<1>1. /\ Append(s, m) \in Seq(S) /\ Len(s) \in Nat /\ DOMAIN s = 1..Len(s)
      /\ DOMAIN Append(s, m) = 1..(Len(s) + 1) /\ Append(s, m)[Len(s) + 1] = m
      /\ \A i \in 1..Len(s) : Append(s, m)[i] = s[i]
  OBVIOUS
<1>2. /\ \A i, j \in 1..Len(s) : s[i] = s[j] => i = j
      /\ \A i \in 1..Len(s) : s[i] # m
  BY <1>1 DEF IsInjective, IsIn
<1>3. \A i \in 1..(Len(s) + 1) : i \in 1..Len(s) \/ i = Len(s) + 1
  BY <1>1
<1>4. IsInjective(Append(s, m))
  BY <1>1, <1>2, <1>3 DEF IsInjective
<1>5. ASSUME NEW n PROVE IsIn(n, Append(s, m)) <=> n = m \/ IsIn(n, s)
  <2>1. Len(s) + 1 \in 1..(Len(s) + 1) /\ \A i \in 1..Len(s) : i \in 1..(Len(s) + 1)
    BY <1>1
  <2> QED BY <1>1, <1>3, <2>1 DEF IsIn
<1> QED BY <1>1, <1>4, <1>5

(* What is queued is never tidied away.                                    *)
LEMMA TidyKeepsQueued ==
    ASSUME NEW f, NEW m
    PROVE  (m \in DOMAIN f /\ f[m].stage = "queued")
              <=> (m \in DOMAIN Tidy(f) /\ Tidy(f)[m].stage = "queued")
BY DEF Tidy, Restrict

LEMMA UpdateEffect ==
    ASSUME Shape, NEW n \in DOMAIN runs, NEW run, Update(n, run)
    PROVE  /\ DOMAIN runs' \subseteq DOMAIN runs
           /\ \A m \in DOMAIN runs : m # n =>
                 (m \in DOMAIN runs' /\ runs'[m].stage = "queued" <=> runs[m].stage = "queued")
           /\ \A m \in DOMAIN runs' : m # n => runs'[m] = runs[m]
           /\ n \in DOMAIN runs' => runs'[n] = run
           /\ run.stage = "queued" => n \in DOMAIN runs'
<1> DEFINE f == [runs EXCEPT ![n] = run]
<1>1. runs' = Tidy(f)
  BY DEF Update
<1>2. /\ DOMAIN f = DOMAIN runs /\ f[n] = run
      /\ \A m \in DOMAIN runs : m # n => f[m] = runs[m]
  BY DEF Shape
<1> HIDE DEF f
<1>3. DOMAIN runs' \subseteq DOMAIN runs /\ \A m \in DOMAIN runs' : runs'[m] = f[m]
  BY <1>1, <1>2, TidyEffect
<1>4. \A m : (m \in DOMAIN f /\ f[m].stage = "queued")
              <=> (m \in DOMAIN runs' /\ runs'[m].stage = "queued")
  BY <1>1, TidyKeepsQueued
<1> QED BY <1>2, <1>3, <1>4

(* A record changes that is not queued before or after.                    *)
LEMMA UpdateKeepsQueues ==
    ASSUME Shape, QueueInv, NEW n \in DOMAIN runs, NEW run, Update(n, run), queue' = queue,
           run.loop = runs[n].loop,
           run.stage = "queued" <=> runs[n].stage = "queued"
    PROVE  DOMAIN runs' \subseteq Ids /\ Queues(runs', queue')
BY UpdateEffect DEF QueueInv, Queues

LEMMA SweepStartKeepsQueues ==
    ASSUME Shape, QueueInv, NEW l \in Loops, SweepStart(l)
    PROVE  DOMAIN runs' \subseteq Ids /\ Queues(runs', queue')
<1> DEFINE n == Head(queue[l])
           run == [runs[n] EXCEPT !.stage = IF runs[n].open THEN "sweeping" ELSE "done"]
<1>1. queue[l] \in Seq(Ids) /\ IsInjective(queue[l]) /\ queue[l] # <<>>
  BY DEF QueueInv, Queues, SweepStart
<1>2. n \in Ids /\ IsIn(n, queue[l])
  BY <1>1, TailOfQueue
<1>3. n \in DOMAIN runs /\ runs[n].loop = l /\ runs[n].stage = "queued"
  BY <1>2 DEF QueueInv, Queues
<1>4. Update(n, run) /\ queue' = [queue EXCEPT ![l] = Tail(@)]
  BY DEF SweepStart
<1>5. run.stage # "queued"
  BY <1>3 DEF Shape, Run
<1> HIDE DEF run
<1>6. /\ DOMAIN runs' \subseteq DOMAIN runs
      /\ \A m \in DOMAIN runs : m # n =>
            (m \in DOMAIN runs' /\ runs'[m].stage = "queued" <=> runs[m].stage = "queued")
      /\ \A m \in DOMAIN runs' : m # n => runs'[m] = runs[m]
      /\ n \in DOMAIN runs' => runs'[n].stage # "queued"
  BY <1>3, <1>4, <1>5, UpdateEffect
<1> HIDE DEF n
<1>7. queue \in [Loops -> Seq(Ids)] /\ queue'[l] = Tail(queue[l])
      /\ \A k \in Loops : k # l => queue'[k] = queue[k]
  BY <1>4 DEF QueueInv, Queues
<1>8. /\ queue'[l] \in Seq(Ids) /\ IsInjective(queue'[l])
      /\ \A m : IsIn(m, queue'[l]) <=> m # n /\ IsIn(m, queue[l])
  BY <1>1, <1>7, TailOfQueue DEF n
<1>9. queue' \in [Loops -> Seq(Ids)]
  BY <1>4, <1>7, <1>8
<1>10. \A k \in Loops : IsInjective(queue'[k])
  BY <1>7, <1>8 DEF QueueInv, Queues
<1>11. ASSUME NEW k \in Loops, NEW m \in Ids
       PROVE  IsIn(m, queue'[k]) <=>
                 m \in DOMAIN runs' /\ runs'[m].loop = k /\ runs'[m].stage = "queued"
  <2>1. IsIn(m, queue[k]) <=> m \in DOMAIN runs /\ runs[m].loop = k /\ runs[m].stage = "queued"
    BY DEF QueueInv, Queues
  <2>2. CASE m = n
    <3>1. ~IsIn(m, queue'[k])
      BY <1>3, <1>7, <1>8, <2>1, <2>2
    <3> QED BY <1>6, <2>2, <3>1
  <2>3. CASE m # n
    <3>1. IsIn(m, queue'[k]) <=> IsIn(m, queue[k])
      BY <1>7, <1>8, <2>3
    <3> QED BY <1>6, <2>1, <2>3, <3>1
  <2> QED BY <2>2, <2>3
<1>12. DOMAIN runs' \subseteq Ids
  BY <1>6 DEF QueueInv
<1> QED BY <1>9, <1>10, <1>11, <1>12 DEF Queues

LEMMA BeginKeepsQueues ==
    ASSUME Shape, QueueInv, NEW r \in Reports, NEW l \in Loops, Begin(r, l)
    PROVE  DOMAIN runs' \subseteq Ids /\ Queues(runs', queue')
<1> DEFINE g == [n \in DOMAIN runs |-> IF n \in Held(r)
                                       THEN [runs[n] EXCEPT !.open = FALSE]
                                       ELSE runs[n]]
           expired == Tidy(g)
<1>1. PICK id \in Ids \ DOMAIN runs :
         /\ runs' = [n \in DOMAIN expired \cup {id} |->
                        IF n = id THEN NewRun(r, l) ELSE expired[n]]
         /\ queue' = IF r \in Swept THEN [queue EXCEPT ![l] = Append(@, id)] ELSE queue
  BY DEF Begin
<1>2. /\ DOMAIN g = DOMAIN runs
      /\ \A m \in DOMAIN runs : g[m].stage = runs[m].stage /\ g[m].loop = runs[m].loop
  BY DEF Shape, Run
<1> HIDE DEF g
<1>3. /\ DOMAIN expired \subseteq DOMAIN runs
      /\ \A m \in DOMAIN expired : expired[m] = g[m]
      /\ \A m \in DOMAIN runs :
            runs[m].stage = "queued" <=> m \in DOMAIN expired /\ expired[m].stage = "queued"
  BY <1>2, TidyEffect, TidyKeepsQueued
<1> HIDE DEF expired
<1>4. /\ DOMAIN runs' = DOMAIN expired \cup {id} /\ runs'[id] = NewRun(r, l)
      /\ \A m \in DOMAIN expired : m # id /\ runs'[m] = expired[m]
  BY <1>1, <1>3
<1>5. /\ NewRun(r, l).loop = l
      /\ NewRun(r, l).stage = "queued" <=> r \in Swept
  BY DEF NewRun
<1>6. \A m \in DOMAIN runs, k \in Loops :
         runs[m].loop = k /\ runs[m].stage = "queued" <=>
            m \in DOMAIN runs' /\ runs'[m].loop = k /\ runs'[m].stage = "queued"
  BY <1>1, <1>2, <1>3, <1>4
<1>7. \A k \in Loops : ~IsIn(id, queue[k])
  BY <1>1 DEF QueueInv, Queues
<1>8. /\ queue' \in [Loops -> Seq(Ids)]
      /\ \A k \in Loops : IsInjective(queue'[k])
      /\ \A m : \A k \in Loops : IsIn(m, queue'[k]) <=>
            IsIn(m, queue[k]) \/ (r \in Swept /\ k = l /\ m = id)
  <2>1. /\ queue \in [Loops -> Seq(Ids)] /\ queue[l] \in Seq(Ids)
        /\ \A k \in Loops : IsInjective(queue[k])
    BY DEF QueueInv, Queues
  <2>2. CASE r \notin Swept
    BY <1>1, <2>1, <2>2
  <2>3. CASE r \in Swept
    <3>1. queue' = [queue EXCEPT ![l] = Append(@, id)]
      BY <1>1, <2>3
    <3>2. queue'[l] = Append(queue[l], id) /\ \A k \in Loops : k # l => queue'[k] = queue[k]
      BY <2>1, <3>1
    <3>3. /\ queue'[l] \in Seq(Ids) /\ IsInjective(queue'[l])
          /\ \A m : IsIn(m, queue'[l]) <=> m = id \/ IsIn(m, queue[l])
      BY <1>7, <2>1, <3>2, AppendToQueue
    <3>4. queue' \in [Loops -> Seq(Ids)]
      BY <2>1, <3>1, <3>2, <3>3
    <3> QED BY <2>1, <2>3, <3>2, <3>3, <3>4
  <2> QED BY <2>2, <2>3
<1>9. ASSUME NEW k \in Loops, NEW m \in Ids
      PROVE  IsIn(m, queue'[k]) <=>
                m \in DOMAIN runs' /\ runs'[m].loop = k /\ runs'[m].stage = "queued"
  <2>1. IsIn(m, queue[k]) <=> m \in DOMAIN runs /\ runs[m].loop = k /\ runs[m].stage = "queued"
    BY DEF QueueInv, Queues
  <2>2. CASE m = id
    BY <1>1, <1>4, <1>5, <1>7, <1>8, <2>2
  <2>3. CASE m # id
    <3>1. m \in DOMAIN runs' => m \in DOMAIN runs
      BY <1>3, <1>4, <2>3
    <3> QED BY <1>6, <1>8, <2>1, <2>3, <3>1
  <2> QED BY <2>2, <2>3
<1>10. DOMAIN runs' \subseteq Ids
  BY <1>1, <1>3, <1>4 DEF QueueInv
<1> QED BY <1>8, <1>9, <1>10 DEF Queues

LEMMA RestartKeepsQueues ==
    ASSUME Shape, QueueInv, Restart
    PROVE  DOMAIN runs' \subseteq Ids /\ Queues(runs', queue')
<1> DEFINE g == [n \in DOMAIN runs |->
                    [runs[n] EXCEPT !.stage = "done",
                                    !.cut = @ \/ runs[n].stage # "done"]]
<1>1. runs' = Tidy(g) /\ queue' = [l \in Loops |-> <<>>]
  BY DEF Restart
<1>2. DOMAIN g = DOMAIN runs /\ \A m \in DOMAIN runs : g[m].stage = "done"
  BY DEF Shape, Run
<1> HIDE DEF g
<1>3. DOMAIN runs' \subseteq DOMAIN runs /\ \A m \in DOMAIN runs' : runs'[m].stage = "done"
  BY <1>1, <1>2, TidyEffect
<1>4. \A m : \A l \in Loops : ~IsIn(m, queue'[l])
  <2>1. \A l \in Loops : queue'[l] = <<>>
    BY <1>1
  <2>2. DOMAIN <<>> = {}
    OBVIOUS
  <2> QED BY <2>1, <2>2 DEF IsIn
<1>5. queue' \in [Loops -> Seq(Ids)] /\ \A l \in Loops : IsInjective(queue'[l])
  BY <1>1, <1>4 DEF IsInjective, IsIn
<1> QED BY <1>3, <1>4, <1>5 DEF Queues, QueueInv

LEMMA NextQueues == Inv /\ QueueInv /\ [Next]_vars => QueueInv'
<1> SUFFICES ASSUME Inv, QueueInv, [Next]_vars PROVE QueueInv'
  OBVIOUS
<1>s. Shape
  BY DEF Inv
<1>t. ASSUME NEW n \in DOMAIN runs PROVE runs[n] \in Run
  BY DEF Inv, Shape
<1>u. UNCHANGED <<runs, queue>> => DOMAIN runs' \subseteq Ids /\ Queues(runs', queue')
  BY DEF QueueInv
<1>d. /\ due' \subseteq Scheduled /\ todo' \subseteq Scheduled /\ crashes' \in Nat
      /\ configured' \in BOOLEAN
  <2>c. configured' \in BOOLEAN
    BY NextIsProper DEF QueueInv
  <2>q. due \subseteq Scheduled /\ todo \subseteq Scheduled /\ crashes \in Nat
    BY DEF QueueInv
  <2>1. CASE UNCHANGED <<due, todo, crashes>>
    BY <2>c, <2>q, <2>1
  <2>2. ASSUME NEW r \in Scheduled, Elapse(r) \/ Skip(r) \/ Fire(r)
        PROVE  due' \subseteq Scheduled /\ todo' \subseteq Scheduled /\ crashes' \in Nat
    BY <2>q, <2>2 DEF Elapse, Skip, Fire, MarkFired
  <2>3. CASE Poll \/ PollRaises
    BY <2>c, <2>q, <2>3 DEF Poll, PollRaises
  <2>4. ASSUME NEW n \in DOMAIN runs, Posted(n)
        PROVE  due' \subseteq Scheduled /\ todo' \subseteq Scheduled /\ crashes' \in Nat
    <3>1. due' \subseteq due /\ todo' \subseteq todo /\ crashes' = crashes
      BY <2>4 DEF Posted, PostAccepted, PostFailed, PostUnconfigured, MarkFired
    <3> QED BY <2>q, <3>1
  <2>5. CASE Restart
    <3>1. due' = {} /\ todo' = {} /\ crashes' = crashes + 1
      BY <2>5 DEF Restart
    <3> QED BY <2>c, <2>q, <3>1
  <2>6. ASSUME NEW r \in Reports, Trigger(r) PROVE UNCHANGED <<due, todo, crashes>>
    BY <2>6 DEF Trigger
  <2>7. ASSUME NEW l \in Loops, SweepStart(l) PROVE UNCHANGED <<due, todo, crashes>>
    BY <2>7 DEF SweepStart
  <2>8. ASSUME NEW n \in DOMAIN runs,
               SweepEnd(n) \/ Recheck(n) \/ SweepCrashed(n) \/ Close(n) \/ Lapse(n)
        PROVE  UNCHANGED <<due, todo, crashes>>
    BY <2>8 DEF SweepEnd, Recheck, SweepCrashed, Close, Lapse
  <2>9. CASE UNCHANGED vars
    BY <2>1, <2>9 DEF vars
  <2> QED
    BY <2>c, <2>1, <2>2, <2>3, <2>4, <2>5, <2>6, <2>7, <2>8, <2>9 DEF Next, Posted
<1>1. CASE UNCHANGED vars
  BY <1>1, <1>u, <1>d DEF vars, QueueInv
<1>2. ASSUME NEW r \in Reports, Trigger(r) PROVE QueueInv'
  BY <1>2, <1>s, <1>d, BeginKeepsQueues DEF Trigger, Loops, QueueInv
<1>3. ASSUME NEW r \in Scheduled, Elapse(r) \/ Skip(r) PROVE QueueInv'
  BY <1>3, <1>u, <1>d DEF Elapse, Skip, QueueInv
<1>4. ASSUME NEW r \in Scheduled, Fire(r) PROVE QueueInv'
  BY <1>4, <1>s, <1>d, BeginKeepsQueues, DispatchAssumption DEF Fire, Loops, QueueInv
<1>5. CASE Poll \/ PollRaises
  BY <1>5, <1>u, <1>d DEF Poll, PollRaises, QueueInv
<1>6. ASSUME NEW l \in Loops, SweepStart(l) PROVE QueueInv'
  BY <1>6, <1>s, <1>d, SweepStartKeepsQueues DEF QueueInv
<1>7. ASSUME NEW n \in DOMAIN runs,
             SweepEnd(n) \/ Recheck(n) \/ SweepCrashed(n) \/ Posted(n) \/ Close(n) \/ Lapse(n)
      PROVE  QueueInv'
  <2>1. queue' = queue
    BY <1>7 DEF SweepEnd, Recheck, SweepCrashed, Posted, PostAccepted, PostFailed,
                PostUnconfigured, Close, Lapse
  <2>2. PICK run : /\ Update(n, run)
                   /\ \/ run = [runs[n] EXCEPT !.swept = TRUE,
                                               !.stage = IF runs[n].report \in Pull
                                                         THEN "done" ELSE "swept"]
                         /\ runs[n].stage = "sweeping"
                      \/ run = [runs[n] EXCEPT !.stage = IF runs[n].open
                                                         THEN "posting" ELSE "done"]
                         /\ runs[n].stage = "swept"
                      \/ run = [runs[n] EXCEPT !.stage = "done", !.open = FALSE]
                         /\ runs[n].stage \in {"sweeping", "swept", "posting"}
                      \/ run = [runs[n] EXCEPT !.stage = "done", !.cut = TRUE]
                         /\ runs[n].stage \in {"sweeping", "swept", "posting"}
                      \/ run = [runs[n] EXCEPT !.stage = "done", !.told = TRUE]
                         /\ runs[n].stage = "posting"
                      \/ run = [runs[n] EXCEPT !.stage = "done"] /\ runs[n].stage = "posting"
                      \/ run = [runs[n] EXCEPT !.open = FALSE]
                      \/ run = [runs[n] EXCEPT !.stale = TRUE]
    <3>1. CASE SweepEnd(n)
      BY <3>1 DEF SweepEnd
    <3>2. CASE Recheck(n)
      BY <3>2 DEF Recheck
    <3>3. CASE SweepCrashed(n)
      BY <3>3 DEF SweepCrashed, Fail, Abandon
    <3>4. CASE Posted(n)
      BY <3>4 DEF Posted, PostAccepted, PostFailed, PostUnconfigured, Fail, Abandon
    <3>5. CASE Close(n) \/ Lapse(n)
      BY <3>5 DEF Close, Lapse
    <3> QED BY <1>7, <3>1, <3>2, <3>3, <3>4, <3>5
  <2>3. run.loop = runs[n].loop
    BY <1>t, <2>2 DEF Run
  <2>4. run.stage = "queued" <=> runs[n].stage = "queued"
    BY <1>t, <2>2 DEF Run
  <2> QED BY <1>s, <1>d, <2>1, <2>2, <2>3, <2>4, UpdateKeepsQueues DEF QueueInv
<1>8. CASE Restart
  BY <1>8, <1>s, <1>d, RestartKeepsQueues DEF QueueInv
<1> QED
  BY <1>1, <1>2, <1>3, <1>4, <1>5, <1>6, <1>7, <1>8 DEF Next, Posted

(* The type invariant: among others, a loop's queue holds exactly the runs *)
(* fired on it that wait for a sweep slot, whatever is saved, deleted,     *)
(* expired or restarted while they wait.                                   *)
THEOREM TypeCorrect == Spec => []TypeOK
<1>1. Init => QueueInv
  <2> SUFFICES ASSUME Init PROVE QueueInv
    OBVIOUS
  <2>1. DOMAIN runs = {} /\ \A l \in Loops : queue[l] = <<>>
    BY DEF Init
  <2>2. DOMAIN <<>> = {}
    OBVIOUS
  <2>3. queue \in [Loops -> Seq(Ids)] /\ \A n : \A l \in Loops : ~IsIn(n, queue[l])
    BY <2>1, <2>2 DEF Init, IsIn
  <2>4. \A l \in Loops : IsInjective(queue[l])
    BY <2>1, <2>2 DEF IsInjective
  <2> QED BY <2>1, <2>3, <2>4, DispatchAssumption DEF Init, QueueInv, Queues
<1>2. Inv /\ QueueInv => TypeOK
  <2> SUFFICES ASSUME Inv, QueueInv PROVE TypeOK
    OBVIOUS
  <2>1. ASSUME NEW l \in Loops
        PROVE  /\ queue[l] \in Seq(DOMAIN runs)
               /\ {queue[l][i] : i \in DOMAIN queue[l]} = In(l, "queued")
    <3>1. /\ queue[l] \in Seq(Ids) /\ DOMAIN queue[l] = 1..Len(queue[l]) /\ Len(queue[l]) \in Nat
          /\ \A i \in DOMAIN queue[l] : queue[l][i] \in Ids
      BY DEF QueueInv, Queues
    <3>2. \A n \in Ids : IsIn(n, queue[l]) <=> n \in In(l, "queued")
      BY DEF QueueInv, Queues, In
    <3>3. {queue[l][i] : i \in DOMAIN queue[l]} = In(l, "queued")
      BY <3>1, <3>2 DEF IsIn, In, QueueInv
    <3>4. \A i \in 1..Len(queue[l]) : queue[l][i] \in DOMAIN runs
      BY <3>1, <3>3 DEF In
    <3>5. queue[l] = [i \in 1..Len(queue[l]) |-> queue[l][i]]
      BY <3>1
    <3> QED BY <3>1, <3>3, <3>4, <3>5
  <2>2. queue \in [Loops -> Seq(DOMAIN runs)]
    <3>1. queue = [l \in Loops |-> queue[l]]
      BY DEF QueueInv, Queues
    <3> QED BY <2>1, <3>1
  <2> QED BY <2>1, <2>2 DEF TypeOK, Inv, Shape, QueueInv
<1> QED BY <1>1, <1>2, InitInv, NextInv, NextQueues, PTL DEF Spec
=============================================================================
