-------------------------- MODULE CollectorsProofs --------------------------
(***************************************************************************)
(* The seven collectors besides Slack's, for every value of the constants: *)
(* what the sweep relies on in the section of each, and then, collector by *)
(* collector, that what should be in the section is.                       *)
(***************************************************************************)
EXTENDS Collectors, OrderTheorems

-----------------------------------------------------------------------------
(* What the operations of Section do.                                      *)

Sections(E, R) == [errors : E, callsOk : BOOLEAN, records : R]

IsSection(s) == \E E, R : s \in Sections(E, R)

LEMMA NewSectionIsSection ==
    IsSection(NewSection) /\ NewSection.records = <<>>
<1>1. NewSection \in Sections({{}}, {<<>>})
    BY DEF NewSection, Sections
<1>2. QED
    BY <1>1 DEF IsSection, NewSection

LEMMA NoteErrorEffect ==
    ASSUME NEW s, IsSection(s), NEW where
    PROVE  /\ IsSection(NoteError(s, where))
           /\ NoteError(s, where).errors = s.errors \cup {where}
           /\ NoteError(s, where).callsOk = s.callsOk
           /\ NoteError(s, where).records = s.records
<1>1. PICK E, R : s \in Sections(E, R)
    BY DEF IsSection
<1>2. NoteError(s, where) \in Sections({s.errors \cup {where}}, R)
    BY <1>1 DEF NoteError, Sections
<1>3. NoteError(s, where).errors = s.errors \cup {where}
    BY <1>1 DEF NoteError, Sections
<1>4. NoteError(s, where).callsOk = s.callsOk /\ NoteError(s, where).records = s.records
    BY <1>1 DEF NoteError, Sections
<1>5. QED
    BY <1>2, <1>3, <1>4 DEF IsSection

LEMMA CountOkEffect ==
    ASSUME NEW s, IsSection(s)
    PROVE  /\ IsSection(CountOk(s))
           /\ CountOk(s).errors = s.errors
           /\ CountOk(s).callsOk = TRUE
           /\ CountOk(s).records = s.records
<1>1. PICK E, R : s \in Sections(E, R)
    BY DEF IsSection
<1>2. CountOk(s) \in Sections(E, R)
    BY <1>1 DEF CountOk, Sections
<1>3. CountOk(s).errors = s.errors /\ CountOk(s).records = s.records
    BY <1>1 DEF CountOk, Sections
<1>4. CountOk(s).callsOk = TRUE
    BY <1>1 DEF CountOk, Sections
<1>5. QED
    BY <1>2, <1>3, <1>4 DEF IsSection

LEMMA AddRecordsEffect ==
    ASSUME NEW s, IsSection(s), NEW records
    PROVE  /\ IsSection(AddRecords(s, records))
           /\ AddRecords(s, records).errors = s.errors
           /\ AddRecords(s, records).callsOk = s.callsOk
           /\ AddRecords(s, records).records = s.records \o records
<1>1. PICK E, R : s \in Sections(E, R)
    BY DEF IsSection
<1>2. AddRecords(s, records) \in Sections(E, {s.records \o records})
    BY <1>1 DEF AddRecords, Sections
<1>3. AddRecords(s, records).records = s.records \o records
    BY <1>1 DEF AddRecords, Sections
<1>4. /\ AddRecords(s, records).errors = s.errors
      /\ AddRecords(s, records).callsOk = s.callsOk
    BY <1>1 DEF AddRecords, Sections
<1>5. QED
    BY <1>2, <1>3, <1>4 DEF IsSection

(* Each collector's module has these operations as its own.                *)
LEMMA OneSection ==
    ASSUME NEW s, NEW x
    PROVE  /\ Gmail!NewSection = NewSection /\ Gmail!CountOk(s) = CountOk(s)
           /\ Gmail!NoteError(s, x) = NoteError(s, x)
           /\ Gmail!AddRecords(s, x) = AddRecords(s, x)
           /\ Daily!NewSection = NewSection /\ Daily!CountOk(s) = CountOk(s)
           /\ Daily!NoteError(s, x) = NoteError(s, x)
           /\ Daily!AddRecords(s, x) = AddRecords(s, x)
           /\ Nagios!NewSection = NewSection /\ Nagios!CountOk(s) = CountOk(s)
           /\ Nagios!NoteError(s, x) = NoteError(s, x)
           /\ Nagios!AddRecords(s, x) = AddRecords(s, x)
           /\ Issue!NewSection = NewSection /\ Issue!CountOk(s) = CountOk(s)
           /\ Issue!NoteError(s, x) = NoteError(s, x)
           /\ Issue!AddRecords(s, x) = AddRecords(s, x)
           /\ Calendar!NewSection = NewSection /\ Calendar!CountOk(s) = CountOk(s)
           /\ Calendar!NoteError(s, x) = NoteError(s, x)
           /\ Calendar!AddRecords(s, x) = AddRecords(s, x)
           /\ Daily!BadJson(s, x) = NoteError(CountOk(s), x)
           /\ Issue!BadJson(s, x) = NoteError(CountOk(s), x)
BY DEF Gmail!NewSection, Gmail!CountOk, Gmail!NoteError, Gmail!AddRecords,
       Daily!NewSection, Daily!CountOk, Daily!NoteError, Daily!AddRecords,
       Nagios!NewSection, Nagios!CountOk, Nagios!NoteError, Nagios!AddRecords,
       Issue!NewSection, Issue!CountOk, Issue!NoteError, Issue!AddRecords,
       Calendar!NewSection, Calendar!CountOk, Calendar!NoteError, Calendar!AddRecords,
       Daily!BadJson, Issue!BadJson, NewSection, CountOk, NoteError, AddRecords
-----------------------------------------------------------------------------
(* FitsTheSweep is not inductive: it takes that a question was asked by    *)
(* the time a collector has an answer to work on, and that Nagios' checks  *)
(* and the lines of an issue come out of one.                              *)

Asked == {"read", "done", "pages", "rollup", "downtimes"}

FitInv ==
    /\ IsSection(section)
    /\ section.records # <<>> => section.callsOk
    /\ phase \in Asked => section.callsOk \/ section.errors # {}
    /\ collector \in Issue!Kinds /\ phase = "read" => section.callsOk
    /\ collector = "nagios_health" /\ DOMAIN checks # {} => section.callsOk

LEMMA InitFit == Init => FitInv
<1> SUFFICES ASSUME Init PROVE FitInv
    OBVIOUS
<1>1. section = NewSection /\ phase = "idle"
    BY OneSection DEF Init, Gmail!Init
<1>2. DOMAIN checks = {}
    BY DEF Init, Nagios!Init
<1>3. QED
    BY <1>1, <1>2, NewSectionIsSection DEF FitInv, Asked

(* What a collector may do to its section in one step.                     *)
Called(s, t) ==
    \/ t = CountOk(s)
    \/ \E where : t = NoteError(s, where)
    \/ \E where : t = NoteError(CountOk(s), where)
    \/ \E records : t = AddRecords(CountOk(s), records)
    \/ \E records : s.callsOk /\ t = AddRecords(s, records)
    \/ \E where, records : /\ s.callsOk \/ records = <<>>
                           /\ t = AddRecords(NoteError(s, where), records)

LEMMA CalledFits ==
    ASSUME FitInv, Called(section, section')
    PROVE  /\ IsSection(section')
           /\ section'.records # <<>> => section'.callsOk
           /\ section'.callsOk \/ section'.errors # {}
           /\ section.callsOk => section'.callsOk
<1>s. IsSection(section) /\ (section.records # <<>> => section.callsOk)
    BY DEF FitInv
<1>1. CASE section' = CountOk(section)
    BY <1>1, <1>s, CountOkEffect
<1> DEFINE Goal == /\ IsSection(section')
                   /\ section'.records # <<>> => section'.callsOk
                   /\ section'.callsOk \/ section'.errors # {}
                   /\ section.callsOk => section'.callsOk
<1>2. ASSUME NEW where, section' = NoteError(section, where) PROVE Goal
    BY <1>2, <1>s, NoteErrorEffect
<1>3. ASSUME NEW where, section' = NoteError(CountOk(section), where) PROVE Goal
    BY <1>3, <1>s, CountOkEffect, NoteErrorEffect
<1>4. ASSUME NEW records, section' = AddRecords(CountOk(section), records) PROVE Goal
    BY <1>4, <1>s, CountOkEffect, AddRecordsEffect
<1>5. ASSUME NEW records, section.callsOk, section' = AddRecords(section, records)
      PROVE  Goal
    BY <1>5, <1>s, AddRecordsEffect
<1>6. ASSUME NEW where, NEW records, section.callsOk \/ records = <<>>,
             section' = AddRecords(NoteError(section, where), records)
      PROVE  Goal
    <2>1. <<>> \o <<>> = <<>>
        OBVIOUS
    <2> DEFINE s == NoteError(section, where)
    <2>2. /\ IsSection(s) /\ s.errors # {}
          /\ s.callsOk = section.callsOk /\ s.records = section.records
        BY <1>s, NoteErrorEffect
    <2> HIDE DEF s
    <2>3. /\ IsSection(section') /\ section'.errors # {}
          /\ section'.callsOk = section.callsOk
          /\ section'.records = section.records \o records
        BY <1>6, <2>2, AddRecordsEffect DEF s
    <2>4. ~section.callsOk => section'.records = <<>>
        BY <1>6, <1>s, <2>1, <2>3
    <2>5. QED
        BY <2>3, <2>4
<1>7. QED
    BY <1>1, <1>2, <1>3, <1>4, <1>5, <1>6 DEF Called

LEMMA EmptyOrder ==
    ASSUME DOMAIN checks = {}
    PROVE  Nagios!RecordOrder = <<>>
<1>1. Nagios!Cardinality(DOMAIN checks) = 0
    <2>1. Nagios!Cardinality(DOMAIN checks) = Cardinality(DOMAIN checks)
        BY DEF Nagios!Cardinality, Cardinality
    <2>2. QED
        BY <2>1, FS_EmptySet
<1>2. \A s \in [1..0 -> {}] : s = <<>>
    <2> SUFFICES ASSUME NEW s \in [1..0 -> {}] PROVE s = <<>>
        OBVIOUS
    <2>1. s \in Seq({}) /\ Len(s) = 0
        OBVIOUS
    <2>2. QED
        BY <2>1
<1>3. <<>> \in [1..0 -> {}] /\ \A i \in DOMAIN <<>> : FALSE
    OBVIOUS
<1>4. QED
    BY <1>1, <1>2, <1>3 DEF Nagios!RecordOrder, Nagios!InOrder

LEMMA GmailFits ==
    ASSUME FitInv, IsGmail,
           \/ \E t \in Threads, m \in Gmail!Kinds : Gmail!Arrive(t, m)
           \/ Gmail!Begin \/ Gmail!SearchPage \/ Gmail!SearchFails
           \/ Gmail!ReadThread \/ Gmail!ReadFails
    PROVE  FitInv'
<1>f. collector' = collector /\ collector \notin Issue!Kinds \cup {"nagios_health"}
    BY DEF IsGmail, Issue!Kinds
<1>c. ASSUME Called(section, section') PROVE FitInv'
    BY <1>c, <1>f, CalledFits DEF FitInv
<1>1. ASSUME NEW t, NEW m, Gmail!Arrive(t, m) PROVE FitInv'
    BY <1>1, <1>f DEF Gmail!Arrive, FitInv
<1>2. CASE Gmail!Begin
    BY <1>2, <1>f DEF Gmail!Begin, FitInv, Asked
<1>3. CASE Gmail!SearchPage
    BY <1>3, <1>c, OneSection DEF Gmail!SearchPage, Called
<1>4. CASE Gmail!SearchFails
    BY <1>4, <1>c, OneSection DEF Gmail!SearchFails, Called
<1>5. CASE Gmail!ReadThread
    BY <1>5, <1>c, OneSection
       DEF Gmail!ReadThread, Gmail!KeepThread, Gmail!DropThread, Called
<1>6. CASE Gmail!ReadFails
    BY <1>6, <1>c, OneSection DEF Gmail!ReadFails, Called
<1>7. QED
    BY <1>1, <1>2, <1>3, <1>4, <1>5, <1>6

LEMMA DailyFits ==
    ASSUME FitInv, IsDaily,
           \/ \E q \in 1..Queries : Daily!Appear(q)
           \/ Daily!Clock \/ Daily!Begin \/ Daily!Answered \/ Daily!Fails
           \/ Daily!Unparseable
    PROVE  FitInv'
<1>f. collector \notin Issue!Kinds \cup {"nagios_health"}
    BY DEF IsDaily, Daily!Kinds, Issue!Kinds
<1>c. ASSUME Called(section, section'), collector' = collector PROVE FitInv'
    BY <1>c, <1>f, CalledFits DEF FitInv
<1>1. ASSUME NEW q, Daily!Appear(q) PROVE FitInv'
    BY <1>1, <1>f DEF Daily!Appear, FitInv
<1>2. CASE Daily!Clock
    BY <1>2, <1>f DEF Daily!Clock, FitInv
<1>3. CASE Daily!Begin
    BY <1>3, <1>f, OneSection, NewSectionIsSection DEF Daily!Begin, FitInv, Asked
<1>4. CASE Daily!Answered
    BY <1>4, <1>c, OneSection DEF Daily!Answered, Daily!NextQuery, Called
<1>5. CASE Daily!Fails
    BY <1>5, <1>c, OneSection DEF Daily!Fails, Daily!NextQuery, Called
<1>6. CASE Daily!Unparseable
    BY <1>6, <1>c, OneSection DEF Daily!Unparseable, Daily!NextQuery, Called
<1>7. QED
    BY <1>1, <1>2, <1>3, <1>4, <1>5, <1>6

LEMMA NagiosFits ==
    ASSUME FitInv, IsNagios,
           \/ \E c \in Checks, paged \in BOOLEAN : Nagios!Breaks(c, paged)
           \/ \E c \in Checks : Nagios!Recovers(c)
           \/ Nagios!Begin \/ Nagios!Problems \/ Nagios!Notifications \/ Nagios!Rollup
           \/ Nagios!Downtimes \/ Nagios!DowntimesFail \/ Nagios!Fails
    PROVE  FitInv'
<1>f. collector' = collector /\ collector \notin Issue!Kinds
    BY DEF IsNagios, Issue!Kinds
<1>c. ASSUME Called(section, section'), checks' = checks PROVE FitInv'
    BY <1>c, <1>f, CalledFits DEF FitInv
<1>k. ASSUME section' = CountOk(section) PROVE FitInv'
    <2>1. Called(section, section') /\ section'.callsOk = TRUE
        BY <1>k, CountOkEffect DEF Called, FitInv
    <2>2. QED
        BY <1>f, <2>1, CalledFits DEF FitInv
<1>1. ASSUME NEW c, NEW paged, Nagios!Breaks(c, paged) PROVE FitInv'
    BY <1>1, <1>f DEF Nagios!Breaks, FitInv
<1>2. ASSUME NEW c, Nagios!Recovers(c) PROVE FitInv'
    BY <1>2, <1>f DEF Nagios!Recovers, FitInv
<1>3. CASE Nagios!Begin
    BY <1>3, <1>f DEF Nagios!Begin, FitInv, Asked
<1>4. CASE Nagios!Problems
    BY <1>4, <1>k, OneSection DEF Nagios!Problems, Nagios!Answered
<1>5. CASE Nagios!Notifications
    BY <1>5, <1>k, OneSection DEF Nagios!Notifications, Nagios!Answered
<1>6. CASE Nagios!Rollup
    BY <1>6, <1>k, OneSection DEF Nagios!Rollup, Nagios!Answered
<1>7. CASE Nagios!Downtimes
    BY <1>7, <1>c, OneSection DEF Nagios!Downtimes, Nagios!Answered, Called
<1>8. CASE Nagios!DowntimesFail
    <2>1. section' = AddRecords(NoteError(section, "downtimes"), Nagios!RecordOrder)
          /\ checks' = checks
        BY <1>8, OneSection DEF Nagios!DowntimesFail, Nagios!Answered
    <2>2. section.callsOk \/ Nagios!RecordOrder = <<>>
        BY <1>8, EmptyOrder DEF FitInv, IsNagios
    <2>3. QED
        BY <1>c, <2>1, <2>2 DEF Called
<1>9. CASE Nagios!Fails
    BY <1>9, <1>c, OneSection DEF Nagios!Fails, Nagios!Answered, Called
<1>10. QED
    BY <1>1, <1>2, <1>3, <1>4, <1>5, <1>6, <1>7, <1>8, <1>9

LEMMA IssueFits ==
    ASSUME FitInv, IsIssue,
           \/ Issue!WriteLine \/ Issue!Begin \/ Issue!NotFound \/ Issue!Found
           \/ Issue!ListItems \/ Issue!Lotor \/ Issue!LotorFails
    PROVE  FitInv'
<1>f. collector' = collector /\ collector # "nagios_health" /\ collector \in Issue!Kinds
    <2>1. collector \in Issue!Kinds \/ collector' = collector
        BY DEF IsIssue
    <2>2. QED
        BY DEF IsIssue, Issue!Kinds, Issue!WriteLine, Issue!Begin, Issue!NotFound,
               Issue!Found, Issue!ListItems, Issue!Lotor, Issue!LotorFails, Issue!Join
<1>c. ASSUME Called(section, section'), phase' # "read" PROVE FitInv'
    BY <1>c, <1>f, CalledFits DEF FitInv
<1>1. CASE Issue!WriteLine
    BY <1>1, <1>f DEF Issue!WriteLine, FitInv
<1>2. CASE Issue!Begin
    BY <1>2, <1>f DEF Issue!Begin, FitInv, Asked
<1>3. CASE Issue!NotFound
    BY <1>3, <1>c, OneSection DEF Issue!NotFound, Called
<1>4. CASE Issue!Found
    <2>1. section' = CountOk(section) /\ Called(section, section')
        BY <1>4, OneSection DEF Issue!Found, Called
    <2>2. section'.callsOk = TRUE
        BY <2>1, CountOkEffect DEF FitInv
    <2>3. QED
        BY <1>f, <2>1, <2>2, CalledFits DEF FitInv
<1>r. phase = "read" => section.callsOk
    BY <1>f DEF FitInv
<1>5. CASE Issue!ListItems
    <2>1. PICK records : section' = AddRecords(section, records) /\ phase' = "done"
          /\ phase = "read"
        BY <1>5, OneSection DEF Issue!ListItems
    <2>2. QED
        BY <1>c, <1>r, <2>1 DEF Called
<1>6. CASE Issue!Lotor
    <2>1. PICK records : section' = AddRecords(CountOk(section), records) /\ phase' = "done"
        BY <1>6, OneSection DEF Issue!Lotor, Issue!Join
    <2>2. QED
        BY <1>c, <2>1 DEF Called
<1>7. CASE Issue!LotorFails
    <2>1. \E s \in {NoteError(section, "lotor"), NoteError(CountOk(section), "lotor")} :
             \E records : section' = AddRecords(s, records)
        <3>1. CASE Issue!Join(Issue!NoteError(section, "lotor"), FALSE)
            <4>1. PICK records :
                      section' = Issue!AddRecords(Issue!NoteError(section, "lotor"), records)
                BY <3>1 DEF Issue!Join
            <4>2. Issue!NoteError(section, "lotor") = NoteError(section, "lotor")
                BY OneSection
            <4>3. \A s : Issue!AddRecords(s, records) = AddRecords(s, records)
                BY OneSection
            <4>4. QED
                BY <4>1, <4>2, <4>3
        <3>2. CASE Issue!Join(Issue!BadJson(section, "lotor"), FALSE)
            <4>1. PICK records :
                      section' = Issue!AddRecords(Issue!BadJson(section, "lotor"), records)
                BY <3>2 DEF Issue!Join
            <4>2. Issue!BadJson(section, "lotor") = NoteError(CountOk(section), "lotor")
                BY OneSection
            <4>3. \A s : Issue!AddRecords(s, records) = AddRecords(s, records)
                BY OneSection
            <4>4. QED
                BY <4>1, <4>2, <4>3
        <3>3. QED
            BY <1>7, <3>1, <3>2 DEF Issue!LotorFails
    <2>2. phase = "read" /\ phase' = "done"
        BY <1>7 DEF Issue!LotorFails, Issue!Join
    <2>3. IsSection(section) /\ section.callsOk
        BY <1>r, <2>2 DEF FitInv
    <2>4. ASSUME NEW s \in {NoteError(section, "lotor"), NoteError(CountOk(section), "lotor")}
          PROVE  IsSection(s) /\ s.callsOk
        <3>1. CASE s = NoteError(section, "lotor")
            BY <2>3, <3>1, NoteErrorEffect
        <3>2. CASE s = NoteError(CountOk(section), "lotor")
            BY <2>3, <3>2, CountOkEffect, NoteErrorEffect
        <3>3. QED
            BY <3>1, <3>2
    <2>5. IsSection(section') /\ section'.callsOk
        BY <2>1, <2>4, AddRecordsEffect
    <2>6. QED
        BY <1>f, <2>2, <2>5 DEF FitInv
<1>8. QED
    BY <1>1, <1>2, <1>3, <1>4, <1>5, <1>6, <1>7

LEMMA CalendarFits ==
    ASSUME FitInv, IsCalendar,
           Calendar!Enter \/ Calendar!Begin \/ Calendar!Answered \/ Calendar!Fails
    PROVE  FitInv'
<1>f. collector' = collector /\ collector \notin Issue!Kinds \cup {"nagios_health"}
    BY DEF IsCalendar, Issue!Kinds
<1>c. ASSUME Called(section, section') PROVE FitInv'
    BY <1>c, <1>f, CalledFits DEF FitInv
<1>1. CASE Calendar!Enter
    BY <1>1, <1>f DEF Calendar!Enter, FitInv
<1>2. CASE Calendar!Begin
    BY <1>2, <1>f DEF Calendar!Begin, FitInv, Asked
<1>3. CASE Calendar!Answered
    BY <1>3, <1>c, OneSection DEF Calendar!Answered, Called
<1>4. CASE Calendar!Fails
    BY <1>4, <1>c, OneSection DEF Calendar!Fails, Called
<1>5. QED
    BY <1>1, <1>2, <1>3, <1>4

LEMMA NextFit == FitInv /\ [Next]_vars => FitInv'
<1> SUFFICES ASSUME FitInv, [Next]_vars PROVE FitInv'
    OBVIOUS
<1>1. CASE UNCHANGED vars
    BY <1>1 DEF vars, nagiosVars, FitInv
<1>2. CASE Next
    BY <1>2, GmailFits, DailyFits, NagiosFits, IssueFits, CalendarFits DEF Next
<1>3. QED
    BY <1>1, <1>2

(* Of any collector, at any time: records come out of a call that was      *)
(* answered, and a section is only "error" if none was. It is what module  *)
(* Sweep takes for granted of a step (its SweepAssumption).                *)
THEOREM CollectorsFitTheSweep == Spec => []FitsTheSweep
<1>1. FitInv => FitsTheSweep
    BY DEF FitInv, FitsTheSweep, StatusOf, Asked
<1>2. QED
    BY <1>1, InitFit, NextFit, PTL DEF Spec

-----------------------------------------------------------------------------
(* Days and hours.                                                         *)

LEMMA DayAndHour ==
    ASSUME NEW t \in Nat
    PROVE  Daily!Day(t) \in Nat /\ Daily!Hour(t) \in 0..23 /\ t = 24 * Daily!Day(t) + Daily!Hour(t)
BY DEF Daily!Day, Daily!Hour

LEMMA MondayFollows ==
    ASSUME NEW d \in Int, Daily!IsWeekend(d - 1), ~Daily!IsWeekend(d)
    PROVE  Daily!Weekday(d) = 0
BY DEF Daily!IsWeekend, Daily!Weekday

(* There is a previous weekday, at most three days back, with nothing but  *)
(* weekend in between.                                                     *)
LEMMA PreviousWeekdayIs ==
    ASSUME NEW d \in Int
    PROVE  /\ Daily!PreviousWeekday(d) \in (d - 3)..(d - 1)
           /\ ~Daily!IsWeekend(Daily!PreviousWeekday(d))
           /\ \A f \in (Daily!PreviousWeekday(d) + 1)..(d - 1) : Daily!IsWeekend(f)
<1>1. \E e \in (d - 3)..(d - 1) :
            ~Daily!IsWeekend(e) /\ \A f \in (e + 1)..(d - 1) : Daily!IsWeekend(f)
  <2>1. CASE ~Daily!IsWeekend(d - 1)
    <3>1. WITNESS d - 1 \in (d - 3)..(d - 1)
    <3>2. QED
        BY <2>1
  <2>2. CASE Daily!IsWeekend(d - 1) /\ ~Daily!IsWeekend(d - 2)
    <3>1. WITNESS d - 2 \in (d - 3)..(d - 1)
    <3>2. QED
        BY <2>2
  <2>3. CASE Daily!IsWeekend(d - 1) /\ Daily!IsWeekend(d - 2)
    <3>1. WITNESS d - 3 \in (d - 3)..(d - 1)
    <3>2. ~Daily!IsWeekend(d - 3)
        BY <2>3 DEF Daily!IsWeekend, Daily!Weekday
    <3>3. QED
        BY <2>3, <3>2
  <2>4. QED
    BY <2>1, <2>2, <2>3
<1>2. QED
    BY <1>1 DEF Daily!PreviousWeekday

(* A window starts no later than the last day that is no weekend, at the   *)
(* hour windows start at.                                                  *)
LEMMA WindowReaches ==
    ASSUME NEW s \in Nat, NEW t \in Nat, NEW hour \in 0..23, hour <= Daily!Hour(s),
           \A d \in (Daily!Day(s) + 1)..(Daily!Day(t) - 1) : Daily!IsWeekend(d)
    PROVE  Daily!WindowStart(t, hour) <= s
<1> DEFINE e == Daily!PreviousWeekday(Daily!Day(t))
<1>1. Daily!Day(s) \in Nat /\ Daily!Day(t) \in Nat /\ Daily!Hour(s) \in 0..23 /\ s = 24 * Daily!Day(s) + Daily!Hour(s)
    BY DayAndHour
<1>2. e \in Int /\ e <= Daily!Day(t) - 1 /\ ~Daily!IsWeekend(e)
    BY <1>1, PreviousWeekdayIs
<1>3. e <= Daily!Day(s)
  <2>1. ~(e \in (Daily!Day(s) + 1)..(Daily!Day(t) - 1))
    BY <1>2
  <2>2. QED
    BY <1>1, <1>2, <2>1
<1>4. Daily!WindowStart(t, hour) = 24 * e + hour
    BY DEF Daily!WindowStart
<1> HIDE DEF e
<1>5. QED
    BY <1>1, <1>2, <1>3, <1>4

(* Whole days back do as well, if they bridge a weekend.                   *)
LEMMA WholeDaysReach ==
    ASSUME Daily!Constants, NEW s \in Nat, NEW t \in Nat, s < t,
           SinceAfterWeekend >= 3, Daily!Hour(t) <= Daily!Hour(s),
           \A d \in (Daily!Day(s) + 1)..(Daily!Day(t) - 1) : Daily!IsWeekend(d)
    PROVE  t - 24 * Daily!Since(t) <= s
<1>1. /\ Daily!Day(s) \in Nat /\ Daily!Hour(s) \in 0..23 /\ s = 24 * Daily!Day(s) + Daily!Hour(s)
      /\ Daily!Day(t) \in Nat /\ Daily!Hour(t) \in 0..23 /\ t = 24 * Daily!Day(t) + Daily!Hour(t)
    BY DayAndHour
<1>2. SinceAfterWeekend \in Nat /\ SinceDays \in Nat /\ SinceDays >= 1
    BY DEF Daily!Constants
<1>3. CASE Daily!Weekday(Daily!Day(t)) = 0 \/ Daily!IsWeekend(Daily!Day(t))
  <2>1. Daily!Since(t) = SinceAfterWeekend
    BY <1>3 DEF Daily!Since
  <2>2. Daily!Day(t) - 3 <= Daily!Day(s)
    <3>1. /\ Daily!PreviousWeekday(Daily!Day(t)) \in (Daily!Day(t) - 3)..(Daily!Day(t) - 1)
          /\ ~Daily!IsWeekend(Daily!PreviousWeekday(Daily!Day(t)))
      <4>1. Daily!Day(t) \in Int
        BY <1>1
      <4>2. QED
        BY <4>1, PreviousWeekdayIs
    <3>2. ~(Daily!PreviousWeekday(Daily!Day(t)) \in (Daily!Day(s) + 1)..(Daily!Day(t) - 1))
        BY <3>1
    <3>3. QED
        BY <1>1, <3>1, <3>2
  <2>3. QED
    BY <1>1, <1>2, <2>1, <2>2
<1>4. CASE ~(Daily!Weekday(Daily!Day(t)) = 0 \/ Daily!IsWeekend(Daily!Day(t)))
  <2>1. Daily!Since(t) = SinceDays
    BY <1>4 DEF Daily!Since
  <2>2. Daily!Day(t) - 1 <= Daily!Day(s)
    <3>1. ~Daily!IsWeekend(Daily!Day(t) - 1)
        BY <1>1, <1>4, MondayFollows
    <3>2. QED
        BY <1>1, <3>1
  <2>3. QED
    BY <1>1, <1>2, <2>1, <2>2
<1>5. QED
    BY <1>3, <1>4

LEMMA MinOfTwo ==
    ASSUME NEW a \in Int, NEW b \in Int
    PROVE  Daily!Min({a, b}) \in Int /\ Daily!Min({a, b}) <= a /\ Daily!Min({a, b}) <= b
<1>1. \E x \in {a, b} : \A y \in {a, b} : x <= y
  <2>1. CASE a <= b
    BY <2>1
  <2>2. CASE b < a
    BY <2>2
  <2>3. QED
    BY <2>1, <2>2
<1>2. QED
    BY <1>1 DEF Daily!Min

-----------------------------------------------------------------------------
(* A run of feed_entries or jira_issues that kept up (no weekday left out, *)
(* the run before not ahead of the window's hour) asks for everything from *)
(* the run before on: no entry and no issue can appear in between and be   *)
(* in neither, whatever the weekdays, hours and lengths of the windows.    *)
THEOREM WindowsMeet ==
    ASSUME Daily!Constants, Daily!KeptUp, start \in Nat, before \in Nat, before < start
    PROVE  Daily!After(start) <= before
<1>1. \A d \in (Daily!Day(before) + 1)..(Daily!Day(start) - 1) : Daily!IsWeekend(d)
    BY DEF Daily!KeptUp
<1>2. WindowHour \in 0..23
    BY DEF Daily!Constants
<1>3. Daily!WindowStart(start, WindowHour) \in Int /\ Daily!Since(start) \in Int
  <2>1. Daily!Day(start) \in Int
    BY DayAndHour
  <2>2. Daily!PreviousWeekday(Daily!Day(start)) \in Int
    BY <2>1, PreviousWeekdayIs
  <2>3. QED
    BY <1>2, <2>2 DEF Daily!WindowStart, Daily!Since, Daily!Constants
<1> DEFINE w == Daily!WindowStart(start, WindowHour)
           d == start - 24 * Daily!Since(start)
<1>4. w \in Int /\ d \in Int
    BY <1>3
<1>5. Daily!Min({w, d}) \in Int /\ Daily!Min({w, d}) <= w /\ Daily!Min({w, d}) <= d
    BY <1>4, MinOfTwo
<1>6. Daily!After(start) = IF collector = "feed_entries" THEN Daily!Min({w, d}) ELSE w
    BY DEF Daily!After, Daily!PublishedAfter, Daily!CreatedSince
<1>7. CASE Daily!Hour(before) >= WindowHour
  <2>1. WindowHour <= Daily!Hour(before)
    BY <1>2, <1>7, DayAndHour
  <2>2. w <= before
    BY <1>1, <1>2, <2>1, WindowReaches
  <2> HIDE DEF w, d
  <2>3. QED
    BY <1>4, <1>5, <1>6, <2>2
<1>8. CASE /\ collector = "feed_entries" /\ SinceAfterWeekend >= 3
           /\ Daily!Hour(start) <= Daily!Hour(before)
  <2>1. d <= before
    BY <1>1, <1>8, WholeDaysReach
  <2> HIDE DEF w, d
  <2>2. QED
    BY <1>4, <1>5, <1>6, <1>8, <2>1
<1>9. QED
    BY <1>7, <1>8 DEF Daily!KeptUp

-----------------------------------------------------------------------------
(* The Nagios collector.                                                   *)

CheckRecord == [open : BOOLEAN, pages : Nat, lastPage : Nat, events : Nat]

NagiosSection ==
    [errors : SUBSET {"problems", "pages", "rollup", "downtimes"},
     callsOk : BOOLEAN, records : Seq(Checks)]

NagiosTyped ==
    /\ bad \subseteq Checks /\ history \in Seq([check : Checks, paged : BOOLEAN])
    /\ phase \in {"idle", "problems", "pages", "rollup", "downtimes", "done"}
    /\ DOMAIN checks \subseteq Checks
    /\ \A c \in DOMAIN checks : checks[c] \in CheckRecord
    /\ section \in NagiosSection
    /\ counts \in [pages : Nat, listed : 0..RollupSize, more : Nat]
    /\ began \in 0..Len(history) /\ broken \subseteq bad

(* What a record says is true of the history as it is.                     *)
RecordFits(c, r) ==
    /\ r.open \/ r.pages > 0 \/ r.events >= MinEvents
    /\ r.pages <= Nagios!Pages(c) /\ r.events <= Nagios!Events(c)
    /\ r.events > 0 => r.pages <= r.events
    /\ r.pages > 0 =>
          r.lastPage \in DOMAIN history /\ history[r.lastPage] = [check |-> c, paged |-> TRUE]

(* What the answers so far have put into the records.                      *)
RecordsFit ==
    /\ phase \in {"idle", "problems"} => DOMAIN checks = {}
    /\ phase = "pages" => \A c \in DOMAIN checks : checks[c].pages = 0
    /\ phase \in {"pages", "rollup"} => \A c \in DOMAIN checks : checks[c].events = 0
    /\ \A c \in DOMAIN checks : RecordFits(c, checks[c])

OpenIsThere ==
    phase \notin {"idle", "problems"} /\ "problems" \notin section.errors =>
        \A c \in broken : c \in DOMAIN checks /\ checks[c].open

PagedIsThere ==
    phase \notin {"idle", "problems", "pages"} /\ "pages" \notin section.errors =>
        \A c \in Checks : Nagios!PagesBy(c, began) > 0 =>
            c \in DOMAIN checks /\ checks[c].pages >= Nagios!PagesBy(c, began)

NoisyIsThere ==
    phase \in {"downtimes", "done"} /\ "rollup" \notin section.errors =>
        \A c \in Checks : Nagios!EventsBy(c, began) >= MinEvents =>
            \/ c \in DOMAIN checks /\ checks[c].events >= Nagios!EventsBy(c, began)
            \/ counts.more > 0

RecordsAreChecks ==
    /\ phase # "done" => section.records = <<>>
    /\ phase = "done" => ToSet(section.records) = DOMAIN checks /\ IsInjective(section.records)

NagiosFact ==
    /\ NagiosTyped /\ RecordsFit /\ RecordsAreChecks
    /\ OpenIsThere /\ PagedIsThere /\ NoisyIsThere

NagiosInv == collector = "nagios_health" => NagiosFact

(* The library is the same in NagiosHealth.                                *)
LEMMA NagiosLibrary ==
    ASSUME NEW S
    PROVE  /\ Nagios!Cardinality(S) = Cardinality(S)
           /\ Nagios!IsFiniteSet(S) <=> IsFiniteSet(S)
           /\ Nagios!Min(S) = Min(S) /\ Nagios!ToSet(S) = ToSet(S)
           /\ Nagios!IsInjective(S) = IsInjective(S)
<1>1. Nagios!Cardinality(S) = Cardinality(S)
    BY DEF Nagios!Cardinality, Cardinality
<1>2. Nagios!IsFiniteSet(S) <=> IsFiniteSet(S)
    BY DEF Nagios!IsFiniteSet, IsFiniteSet
<1>3. Nagios!Min(S) = Min(S) /\ Nagios!ToSet(S) = ToSet(S)
    BY DEF Nagios!Min, Min, Nagios!ToSet, ToSet
<1>4. Nagios!IsInjective(S) = IsInjective(S)
    BY DEF Nagios!IsInjective, IsInjective
<1>5. QED
    BY <1>1, <1>2, <1>3, <1>4

LEMMA NagiosConstants ==
    /\ Checks \subseteq Int /\ IsFiniteSet(Checks)
    /\ MinEvents \in Nat \ {0} /\ RollupSize \in Nat \ {0}
BY CollectorsAssumption, NagiosLibrary DEF Nagios!Constants

(* How many events and pages there were of a check.                        *)
LEMMA CountsAreNat ==
    ASSUME NEW c, NEW n \in Nat
    PROVE  /\ Nagios!EventsBy(c, n) \in Nat /\ Nagios!PagesBy(c, n) \in Nat
           /\ Nagios!PagesBy(c, n) <= Nagios!EventsBy(c, n)
<1> DEFINE E == {i \in 1..n : history[i].check = c}
           P == {i \in 1..n : history[i].check = c /\ history[i].paged}
<1>1. IsFiniteSet(1..n)
    BY FS_Interval
<1>2. IsFiniteSet(E) /\ IsFiniteSet(P) /\ P \subseteq E
    BY <1>1, FS_Subset
<1>3. Nagios!EventsBy(c, n) = Cardinality(E) /\ Nagios!PagesBy(c, n) = Cardinality(P)
    BY NagiosLibrary DEF Nagios!EventsBy, Nagios!PagesBy, Nagios!Quantify
<1> HIDE DEF E, P
<1>4. Cardinality(P) <= Cardinality(E)
    BY <1>2, FS_Subset
<1>5. QED
    BY <1>2, <1>3, <1>4, FS_CardinalityType

LEMMA CountsGrow ==
    ASSUME NEW c, NEW n \in Nat, NEW m \in Nat, n <= m
    PROVE  /\ Nagios!EventsBy(c, n) <= Nagios!EventsBy(c, m)
           /\ Nagios!PagesBy(c, n) <= Nagios!PagesBy(c, m)
<1> DEFINE E(k) == {i \in 1..k : history[i].check = c}
           P(k) == {i \in 1..k : history[i].check = c /\ history[i].paged}
<1>1. IsFiniteSet(1..m) /\ 1..n \subseteq 1..m
    BY FS_Interval
<1>2. IsFiniteSet(E(m)) /\ IsFiniteSet(P(m)) /\ E(n) \subseteq E(m) /\ P(n) \subseteq P(m)
    BY <1>1, FS_Subset
<1>3. \A k : Nagios!EventsBy(c, k) = Cardinality(E(k)) /\ Nagios!PagesBy(c, k) = Cardinality(P(k))
    BY NagiosLibrary DEF Nagios!EventsBy, Nagios!PagesBy, Nagios!Quantify
<1> HIDE DEF E, P
<1>4. QED
    BY <1>2, <1>3, FS_Subset

(* The final sort: of two records one comes first.                         *)
Rank(c) == IF checks[c].open THEN 0 ELSE 1

LEMMA BeforeIs ==
    ASSUME NEW c \in Int, NEW d \in Int, checks[c] \in CheckRecord, checks[d] \in CheckRecord
    PROVE  Nagios!Before(c, d) <=>
               \/ Rank(c) < Rank(d)
               \/ /\ Rank(c) = Rank(d)
                  /\ \/ checks[c].events > checks[d].events
                     \/ /\ checks[c].events = checks[d].events
                        /\ \/ checks[c].pages > checks[d].pages
                           \/ checks[c].pages = checks[d].pages /\ c < d
<1> DEFINE K(e) == <<Rank(e), -checks[e].events, -checks[e].pages, e>>
           First(i) == K(c)[i] < K(d)[i] /\ \A j \in 1..(i - 1) : K(c)[j] = K(d)[j]
<1>1. Nagios!Before(c, d) <=> \E i \in 1..4 : First(i)
    BY DEF Nagios!Before, Rank
<1>2. \A e : K(e)[1] = Rank(e) /\ K(e)[2] = -checks[e].events
             /\ K(e)[3] = -checks[e].pages /\ K(e)[4] = e
    OBVIOUS
<1> HIDE DEF K
<1>3. (\E i \in 1..4 : First(i)) <=> First(1) \/ First(2) \/ First(3) \/ First(4)
    <2>1. 1..4 = {1, 2, 3, 4}
        OBVIOUS
    <2> HIDE DEF First
    <2>2. QED
        BY <2>1
<1>4. 1..(1 - 1) = {} /\ 1..(2 - 1) = {1} /\ 1..(3 - 1) = {1, 2} /\ 1..(4 - 1) = {1, 2, 3}
    OBVIOUS
<1>5. /\ First(1) <=> K(c)[1] < K(d)[1]
      /\ First(2) <=> K(c)[2] < K(d)[2] /\ K(c)[1] = K(d)[1]
      /\ First(3) <=> K(c)[3] < K(d)[3] /\ K(c)[1] = K(d)[1] /\ K(c)[2] = K(d)[2]
      /\ First(4) <=> /\ K(c)[4] < K(d)[4]
                      /\ K(c)[1] = K(d)[1] /\ K(c)[2] = K(d)[2] /\ K(c)[3] = K(d)[3]
    BY <1>4
<1> HIDE DEF First
<1>6. \A e \in {c, d} : /\ Rank(e) \in Int /\ checks[e].events \in Int /\ checks[e].pages \in Int
    BY DEF Rank, CheckRecord
<1>7. QED
    BY <1>1, <1>2, <1>3, <1>5, <1>6

LEMMA RecordOrderIs ==
    ASSUME DOMAIN checks \subseteq Checks, \A c \in DOMAIN checks : checks[c] \in CheckRecord
    PROVE  /\ Nagios!RecordOrder \in Seq(Checks)
           /\ ToSet(Nagios!RecordOrder) = DOMAIN checks /\ IsInjective(Nagios!RecordOrder)
<1> DEFINE S == DOMAIN checks
           R == {e \in S \X S : Nagios!Before(e[1], e[2])}
           s == Nagios!RecordOrder
<1>1. S \subseteq Int /\ IsFiniteSet(S)
    BY NagiosConstants, FS_Subset
<1>2. \A c \in S : /\ Rank(c) \in Int /\ checks[c].events \in Int /\ checks[c].pages \in Int
    BY DEF Rank, CheckRecord
<1>3. \A c, d \in S : <<c, d>> \in R <=>
               \/ Rank(c) < Rank(d)
               \/ /\ Rank(c) = Rank(d)
                  /\ \/ checks[c].events > checks[d].events
                     \/ /\ checks[c].events = checks[d].events
                        /\ \/ checks[c].pages > checks[d].pages
                           \/ checks[c].pages = checks[d].pages /\ c < d
    BY <1>1, BeforeIs
<1>4. Sorts(S, R)
    <2>1. \A c \in S : c \in Int
        BY <1>1
    <2> HIDE DEF S, R
    <2>2. \A c \in S : <<c, c>> \notin R
        BY <1>2, <1>3, <2>1
    <2>3. \A c, d \in S : c # d => <<c, d>> \in R \/ <<d, c>> \in R
        BY <1>2, <1>3, <2>1
    <2>4. \A c, d, e \in S : <<c, d>> \in R /\ <<d, e>> \in R => <<c, e>> \in R
        BY <1>2, <1>3, <2>1
    <2>5. QED
        BY <2>2, <2>3, <2>4 DEF Sorts
<1>5. s \in Sorted(S, R)
    <2>1. s = CHOOSE t \in [1..Cardinality(S) -> S] :
                  \A i, j \in DOMAIN t : i < j => Nagios!Before(t[i], t[j])
        BY NagiosLibrary DEF Nagios!RecordOrder, Nagios!InOrder
    <2>2. Sorted(S, R) # {}
        BY <1>1, <1>4, SortedIsThere
    <2>3. \A t : t \in Sorted(S, R) <=>
                 /\ t \in [1..Cardinality(S) -> S]
                 /\ \A i, j \in DOMAIN t : i < j => Nagios!Before(t[i], t[j])
        BY DEF Sorted
    <2>4. QED
        BY <2>1, <2>2, <2>3
<1> HIDE DEF s, R
<1>6. /\ s \in Seq(S) /\ \A c \in S : \E i \in DOMAIN s : s[i] = c
      /\ \A i, j \in DOMAIN s : s[i] = s[j] => i = j
    BY <1>1, <1>4, <1>5, SortedIsAll
<1>7. ToSet(s) = S
    BY <1>6 DEF ToSet
<1>8. IsInjective(s)
    BY <1>6 DEF IsInjective
<1>9. QED
    BY <1>6, <1>7, <1>8 DEF s

(* The collector's steps, one by one.                                      *)
LEMMA InitNagios == Init => NagiosInv
<1> SUFFICES ASSUME Init PROVE NagiosFact
    BY DEF NagiosInv
<1>1. /\ bad = {} /\ history = <<>> /\ phase = "idle" /\ checks = <<>>
      /\ section = [errors |-> {}, callsOk |-> FALSE, records |-> <<>>]
      /\ counts = [pages |-> 0, listed |-> 0, more |-> 0] /\ began = 0 /\ broken = {}
    BY DEF Init, Nagios!Init, Nagios!NewSection
<1>2. DOMAIN checks = {}
    BY <1>1
<1>3. <<>> \in Seq(Checks) /\ 0 \in 0..RollupSize /\ 0 \in 0..Len(history)
    BY <1>1, NagiosConstants
<1>4. section \in NagiosSection
    BY <1>1, <1>3 DEF NagiosSection
<1>5. NagiosTyped
    BY <1>1, <1>2, <1>3, <1>4 DEF NagiosTyped
<1>6. QED
    BY <1>1, <1>2, <1>5
       DEF NagiosFact, RecordsFit, RecordsAreChecks, OpenIsThere, PagedIsThere, NoisyIsThere

LEMMA TotalsAreNat ==
    ASSUME NagiosTyped, NEW c
    PROVE  /\ Nagios!Events(c) \in Nat /\ Nagios!Pages(c) \in Nat
           /\ Nagios!Pages(c) <= Nagios!Events(c)
           /\ Nagios!EventsBy(c, began) \in Nat /\ Nagios!PagesBy(c, began) \in Nat
           /\ Nagios!EventsBy(c, began) <= Nagios!Events(c)
           /\ Nagios!PagesBy(c, began) <= Nagios!Pages(c)
<1>1. Len(history) \in Nat /\ began \in Nat /\ began <= Len(history)
    BY DEF NagiosTyped
<1>2. QED
    BY <1>1, CountsAreNat, CountsGrow DEF Nagios!Events, Nagios!Pages

(* What is said of the history stays true as it grows.                     *)
LEMMA HistoryGrows ==
    ASSUME NagiosTyped, NEW e \in [check : Checks, paged : BOOLEAN],
           history' = Append(history, e), began' = began
    PROVE  /\ history' \in Seq([check : Checks, paged : BOOLEAN])
           /\ began \in 0..Len(history')
           /\ \A c : /\ Nagios!PagesBy(c, began)' = Nagios!PagesBy(c, began)
                     /\ Nagios!EventsBy(c, began)' = Nagios!EventsBy(c, began)
           /\ \A c, r : r \in CheckRecord /\ RecordFits(c, r) => RecordFits(c, r)'
<1> DEFINE n == Len(history)
           E(c, h, k) == {i \in 1..k : h[i].check = c}
           P(c, h, k) == {i \in 1..k : h[i].check = c /\ h[i].paged}
<1>1. /\ history \in Seq([check : Checks, paged : BOOLEAN]) /\ n \in Nat
      /\ began \in Nat /\ began \in 0..n
    BY DEF NagiosTyped
<1>2. /\ history' \in Seq([check : Checks, paged : BOOLEAN]) /\ Len(history') = n + 1
      /\ \A i \in 1..n : history'[i] = history[i]
      /\ DOMAIN history = 1..n /\ DOMAIN history' = 1..(n + 1)
    BY <1>1
<1>3. \A c : /\ Nagios!EventsBy(c, began) = Cardinality(E(c, history, began))
             /\ Nagios!EventsBy(c, began)' = Cardinality(E(c, history', began))
             /\ Nagios!PagesBy(c, began) = Cardinality(P(c, history, began))
             /\ Nagios!PagesBy(c, began)' = Cardinality(P(c, history', began))
             /\ Nagios!Events(c) = Cardinality(E(c, history, n))
             /\ Nagios!Events(c)' = Cardinality(E(c, history', n + 1))
             /\ Nagios!Pages(c) = Cardinality(P(c, history, n))
             /\ Nagios!Pages(c)' = Cardinality(P(c, history', n + 1))
    <2>1. \A S : Nagios!Cardinality(S) = Cardinality(S)
        BY NagiosLibrary
    <2>2. QED
        BY <1>2, <2>1
           DEF Nagios!Events, Nagios!Pages, Nagios!EventsBy, Nagios!PagesBy, Nagios!Quantify
<1>4. \A c : /\ E(c, history', began) = E(c, history, began)
             /\ P(c, history', began) = P(c, history, began)
    <2>1. \A i \in 1..began : history'[i] = history[i]
        BY <1>1, <1>2
    <2>2. QED
        BY <2>1
<1>5. \A c : /\ Cardinality(E(c, history, n)) <= Cardinality(E(c, history', n + 1))
             /\ Cardinality(P(c, history, n)) <= Cardinality(P(c, history', n + 1))
             /\ Cardinality(E(c, history, n)) \in Nat
             /\ Cardinality(E(c, history', n + 1)) \in Nat
             /\ Cardinality(P(c, history, n)) \in Nat
             /\ Cardinality(P(c, history', n + 1)) \in Nat
    <2> SUFFICES ASSUME NEW c
                 PROVE  /\ Cardinality(E(c, history, n)) <= Cardinality(E(c, history', n + 1))
                        /\ Cardinality(P(c, history, n)) <= Cardinality(P(c, history', n + 1))
                        /\ Cardinality(E(c, history, n)) \in Nat
                        /\ Cardinality(E(c, history', n + 1)) \in Nat
                        /\ Cardinality(P(c, history, n)) \in Nat
                        /\ Cardinality(P(c, history', n + 1)) \in Nat
        OBVIOUS
    <2>1. IsFiniteSet(1..(n + 1)) /\ 1..n \subseteq 1..(n + 1)
        BY <1>1, FS_Interval
    <2>2. /\ E(c, history, n) \subseteq E(c, history', n + 1)
          /\ P(c, history, n) \subseteq P(c, history', n + 1)
        BY <1>2, <2>1
    <2>3. IsFiniteSet(E(c, history', n + 1)) /\ IsFiniteSet(P(c, history', n + 1))
        BY <2>1, FS_Subset
    <2> HIDE DEF E, P
    <2>4. QED
        BY <2>2, <2>3, FS_Subset, FS_CardinalityType
<1> HIDE DEF n, E, P
<1>6. \A c : /\ Nagios!Events(c) <= Nagios!Events(c)' /\ Nagios!Pages(c) <= Nagios!Pages(c)'
             /\ Nagios!Events(c) \in Nat /\ Nagios!Events(c)' \in Nat
             /\ Nagios!Pages(c) \in Nat /\ Nagios!Pages(c)' \in Nat
    BY <1>3, <1>5
<1>7. ASSUME NEW c, NEW r \in CheckRecord, RecordFits(c, r) PROVE RecordFits(c, r)'
    <2>1. r.pages \in Nat /\ r.events \in Nat
        BY DEF CheckRecord
    <2>2. r.pages <= Nagios!Pages(c)' /\ r.events <= Nagios!Events(c)'
        BY <1>6, <1>7, <2>1 DEF RecordFits
    <2>3. r.lastPage \in DOMAIN history =>
              r.lastPage \in DOMAIN history' /\ history'[r.lastPage] = history[r.lastPage]
        BY <1>1, <1>2
    <2>4. QED
        BY <1>7, <2>2, <2>3 DEF RecordFits
<1>8. QED
    BY <1>1, <1>2, <1>3, <1>4, <1>7 DEF n

LEMMA SameHistory ==
    ASSUME UNCHANGED history
    PROVE  /\ \A c, n : /\ Nagios!PagesBy(c, n)' = Nagios!PagesBy(c, n)
                        /\ Nagios!EventsBy(c, n)' = Nagios!EventsBy(c, n)
           /\ \A c, r : RecordFits(c, r)' <=> RecordFits(c, r)
<1>1. \A c, n : /\ Nagios!PagesBy(c, n)' = Nagios!PagesBy(c, n)
                /\ Nagios!EventsBy(c, n)' = Nagios!EventsBy(c, n)
    BY DEF Nagios!PagesBy, Nagios!EventsBy, Nagios!Quantify
<1>2. \A c : Nagios!Pages(c)' = Nagios!Pages(c) /\ Nagios!Events(c)' = Nagios!Events(c)
    BY <1>1 DEF Nagios!Pages, Nagios!Events
<1>3. QED
    BY <1>1, <1>2 DEF RecordFits

(* What a record is when it is made, and which records there are then.     *)
LEMMA WithIs ==
    ASSUME NagiosTyped, NEW seen \in SUBSET Checks
    PROVE  /\ DOMAIN Nagios!With(seen) = DOMAIN checks \cup seen
           /\ \A c \in DOMAIN checks : Nagios!With(seen)[c] = checks[c]
           /\ \A c \in seen \ DOMAIN checks :
                 Nagios!With(seen)[c] = [open |-> FALSE, pages |-> 0, lastPage |-> 0, events |-> 0]
           /\ \A c \in DOMAIN checks \cup seen : Nagios!With(seen)[c] \in CheckRecord
BY DEF Nagios!With, Nagios!Blank, NagiosTyped, CheckRecord

LEMMA NagiosSections ==
    ASSUME NagiosTyped
    PROVE  /\ Nagios!CountOk(section) \in NagiosSection
           /\ Nagios!CountOk(section).errors = section.errors
           /\ Nagios!CountOk(section).records = section.records
           /\ \A q \in {"problems", "pages", "rollup", "downtimes"} :
                 /\ Nagios!NoteError(section, q) \in NagiosSection
                 /\ Nagios!NoteError(section, q).errors = section.errors \cup {q}
                 /\ Nagios!NoteError(section, q).records = section.records
BY DEF NagiosTyped, NagiosSection, Nagios!CountOk, Nagios!NoteError

LEMMA NagiosBreaks ==
    ASSUME NagiosFact, NEW c \in Checks, NEW paged \in BOOLEAN, Nagios!Breaks(c, paged)
    PROVE  NagiosFact'
<1> DEFINE e == [check |-> c, paged |-> paged]
<1>1. NagiosTyped /\ e \in [check : Checks, paged : BOOLEAN]
    BY DEF NagiosFact
<1>2. /\ phase # "done" /\ history' = Append(history, e) /\ bad' = bad \cup {c}
      /\ phase' = phase /\ checks' = checks /\ section' = section /\ counts' = counts
      /\ began' = began /\ broken' = broken
    BY DEF Nagios!Breaks
<1> HIDE DEF e
<1>3. /\ history' \in Seq([check : Checks, paged : BOOLEAN])
      /\ began \in 0..Len(history')
      /\ \A d : /\ Nagios!PagesBy(d, began)' = Nagios!PagesBy(d, began)
                /\ Nagios!EventsBy(d, began)' = Nagios!EventsBy(d, began)
      /\ \A d, r : r \in CheckRecord /\ RecordFits(d, r) => RecordFits(d, r)'
    BY <1>1, <1>2, HistoryGrows
<1>4. NagiosTyped'
    BY <1>1, <1>2, <1>3 DEF NagiosTyped
<1>5. RecordsFit'
    <2>1. \A d \in DOMAIN checks : RecordFits(d, checks[d])'
        <3> SUFFICES ASSUME NEW d \in DOMAIN checks PROVE RecordFits(d, checks[d])'
            OBVIOUS
        <3>1. checks[d] \in CheckRecord /\ RecordFits(d, checks[d])
            BY <1>1 DEF NagiosFact, RecordsFit, NagiosTyped
        <3> DEFINE r == checks[d]
        <3>2. r' = r
            BY <1>2
        <3>3. RecordFits(d, r)'
            BY <1>2, <1>3, <3>1, <3>2 DEF RecordFits
        <3>4. QED
            BY <3>3
    <2>2. QED
        BY <1>2, <2>1 DEF NagiosFact, RecordsFit
<1>6. PagedIsThere' /\ NoisyIsThere'
    BY <1>2, <1>3 DEF NagiosFact, PagedIsThere, NoisyIsThere
<1>7. OpenIsThere' /\ RecordsAreChecks'
    BY <1>2 DEF NagiosFact, OpenIsThere, RecordsAreChecks
<1>8. QED
    BY <1>4, <1>5, <1>6, <1>7 DEF NagiosFact

LEMMA NagiosRecovers ==
    ASSUME NagiosFact, NEW c \in Checks, Nagios!Recovers(c)
    PROVE  NagiosFact'
<1>1. /\ phase # "done" /\ bad' = bad \ {c} /\ broken' = broken \ {c}
      /\ UNCHANGED <<history, phase, checks, section, counts, began>>
    BY DEF Nagios!Recovers
<1>2. NagiosTyped'
    BY <1>1 DEF NagiosFact, NagiosTyped
<1>3. \A d, r : RecordFits(d, r)' <=> RecordFits(d, r)
    BY <1>1, SameHistory
<1>4. /\ \A d : /\ Nagios!PagesBy(d, began)' = Nagios!PagesBy(d, began)
                /\ Nagios!EventsBy(d, began)' = Nagios!EventsBy(d, began)
    BY <1>1 DEF Nagios!PagesBy, Nagios!EventsBy, Nagios!Quantify
<1>5. \A d \in DOMAIN checks : RecordFits(d, checks[d])'
    BY <1>1 DEF NagiosFact, RecordsFit, RecordFits, Nagios!Pages, Nagios!Events,
                Nagios!PagesBy, Nagios!EventsBy, Nagios!Quantify
<1>6. RecordsFit'
    BY <1>1, <1>5 DEF NagiosFact, RecordsFit
<1>7. PagedIsThere' /\ NoisyIsThere'
    BY <1>1, <1>4 DEF NagiosFact, PagedIsThere, NoisyIsThere
<1>8. OpenIsThere' /\ RecordsAreChecks'
    BY <1>1 DEF NagiosFact, OpenIsThere, RecordsAreChecks
<1>9. QED
    BY <1>2, <1>6, <1>7, <1>8 DEF NagiosFact

(* The steps that leave Nagios alone keep what is said of the history.     *)
LEMMA StillFits ==
    ASSUME UNCHANGED history, NEW d, NEW r, RecordFits(d, r), r' = r
    PROVE  RecordFits(d, r)'
BY DEF RecordFits, Nagios!Pages, Nagios!Events, Nagios!PagesBy, Nagios!EventsBy, Nagios!Quantify

LEMMA StillCounts ==
    ASSUME UNCHANGED <<history, began>>, NEW d
    PROVE  /\ Nagios!PagesBy(d, began)' = Nagios!PagesBy(d, began)
           /\ Nagios!EventsBy(d, began)' = Nagios!EventsBy(d, began)
BY DEF Nagios!PagesBy, Nagios!EventsBy, Nagios!Quantify

LEMMA NagiosBegin ==
    ASSUME NagiosFact, Nagios!Begin
    PROVE  NagiosFact'
<1>1. /\ phase = "idle" /\ phase' = "problems" /\ began' = Len(history) /\ broken' = bad
      /\ UNCHANGED <<bad, history, checks, section, counts>>
    BY DEF Nagios!Begin
<1>2. NagiosTyped /\ DOMAIN checks = {}
    BY <1>1 DEF NagiosFact, RecordsFit
<1>3. Len(history) \in 0..Len(history)
    BY <1>2 DEF NagiosTyped
<1>4. NagiosTyped'
    BY <1>1, <1>2, <1>3 DEF NagiosTyped
<1>5. RecordsFit'
    BY <1>1, <1>2 DEF RecordsFit
<1>6. OpenIsThere' /\ PagedIsThere' /\ NoisyIsThere' /\ RecordsAreChecks'
    BY <1>1 DEF NagiosFact, OpenIsThere, PagedIsThere, NoisyIsThere, RecordsAreChecks
<1>7. QED
    BY <1>4, <1>5, <1>6 DEF NagiosFact

(* The answer to the first question: what is not OK is there, open.        *)
LEMMA NagiosProblems ==
    ASSUME NagiosFact, Nagios!Problems
    PROVE  NagiosFact'
<1>1. /\ phase = "problems" /\ phase' = "pages" /\ checks' = Nagios!Open
      /\ section' = Nagios!CountOk(section)
      /\ UNCHANGED <<bad, history, began, broken, counts>>
    BY DEF Nagios!Problems, Nagios!Answered
<1>2. NagiosTyped /\ DOMAIN checks = {} /\ bad \subseteq Checks
    BY <1>1 DEF NagiosFact, RecordsFit, NagiosTyped
<1>s. section' \in NagiosSection /\ section'.errors = section.errors
      /\ section'.records = section.records
    BY <1>1, <1>2, NagiosSections
<1>3. DOMAIN checks' = bad /\ \A c \in bad :
          checks'[c] = [open |-> TRUE, pages |-> 0, lastPage |-> 0, events |-> 0]
    <2>1. DOMAIN Nagios!With(bad) = bad /\ \A c \in bad :
              Nagios!With(bad)[c] = [open |-> FALSE, pages |-> 0, lastPage |-> 0, events |-> 0]
        BY <1>2, WithIs
    <2> DEFINE w == Nagios!With(bad)
    <2>2. checks' = [c \in DOMAIN w |-> [w[c] EXCEPT !.open = c \in bad]]
        BY <1>1 DEF Nagios!Open
    <2> HIDE DEF w
    <2>3. DOMAIN w = bad /\ \A c \in bad :
              w[c] = [open |-> FALSE, pages |-> 0, lastPage |-> 0, events |-> 0]
        BY <2>1 DEF w
    <2>4. \A c \in bad : (c \in bad) = TRUE
        OBVIOUS
    <2>5. \A c \in bad : checks'[c] = [w[c] EXCEPT !.open = TRUE]
        BY <2>2, <2>3, <2>4, Zenon
    <2>6. QED
        BY <2>2, <2>3, <2>5
<1>4. \A c \in DOMAIN checks' : checks'[c] \in CheckRecord
    <2>1. [open |-> TRUE, pages |-> 0, lastPage |-> 0, events |-> 0] \in CheckRecord
        BY DEF CheckRecord
    <2>2. QED
        BY <1>3, <2>1
<1>5. NagiosTyped'
    BY <1>1, <1>2, <1>3, <1>4, <1>s DEF NagiosTyped
<1>6. RecordsFit'
    <2>1. \A c \in DOMAIN checks' : RecordFits(c, checks[c])'
        <3> SUFFICES ASSUME NEW c \in DOMAIN checks' PROVE RecordFits(c, checks[c])'
            OBVIOUS
        <3>1. Nagios!Pages(c)' \in Nat /\ Nagios!Events(c)' \in Nat
            <4>1. Nagios!Pages(c) \in Nat /\ Nagios!Events(c) \in Nat
                BY <1>2, TotalsAreNat
            <4>2. Nagios!Pages(c)' = Nagios!Pages(c) /\ Nagios!Events(c)' = Nagios!Events(c)
                BY <1>1 DEF Nagios!Pages, Nagios!Events, Nagios!PagesBy, Nagios!EventsBy,
                            Nagios!Quantify
            <4>3. QED
                BY <4>1, <4>2
        <3>2. QED
            BY <1>3, <3>1 DEF RecordFits
    <2>2. QED
        BY <1>1, <1>3, <2>1 DEF RecordsFit
<1>7. OpenIsThere'
    BY <1>1, <1>2, <1>3, <1>s DEF OpenIsThere, NagiosTyped
<1>8. PagedIsThere' /\ NoisyIsThere' /\ RecordsAreChecks'
    BY <1>1, <1>2, <1>s DEF NagiosFact, PagedIsThere, NoisyIsThere, RecordsAreChecks, NagiosTyped
<1>9. QED
    BY <1>5, <1>6, <1>7, <1>8 DEF NagiosFact

(* The second question: what paged is there, with its pages.               *)
LEMMA OldestIs ==
    ASSUME NagiosTyped, NEW c, Nagios!Pages(c) > 0,
           NEW S, S = {i \in DOMAIN history : history[i].check = c /\ history[i].paged}
    PROVE  Nagios!Min(S) \in DOMAIN history
           /\ history[Nagios!Min(S)] = [check |-> c, paged |-> TRUE]
<1>1. history \in Seq([check : Checks, paged : BOOLEAN]) /\ DOMAIN history = 1..Len(history)
      /\ Len(history) \in Nat
    BY DEF NagiosTyped
<1>2. IsFiniteSet(S) /\ S \in SUBSET Int
    <2>1. S \subseteq 1..Len(history) /\ IsFiniteSet(1..Len(history))
        BY <1>1, FS_Interval
    <2>2. QED
        BY <2>1, FS_Subset
<1>3. S # {}
    <2>1. Nagios!Pages(c) = Cardinality(S)
        BY <1>1, NagiosLibrary DEF Nagios!Pages, Nagios!PagesBy, Nagios!Quantify
    <2>2. QED
        BY <2>1, FS_EmptySet
<1>4. Nagios!Min(S) \in S
    BY <1>2, <1>3, MinIs, NagiosLibrary
<1>5. \A i \in DOMAIN history : history[i] \in [check : Checks, paged : BOOLEAN]
    BY <1>1, ElementOfSeq
<1>6. \A i \in S : i \in DOMAIN history /\ history[i].check = c /\ history[i].paged = TRUE
    <2>1. \A x \in BOOLEAN : x => x = TRUE
        OBVIOUS
    <2>2. \A i \in S : i \in DOMAIN history /\ history[i].check = c /\ history[i].paged
        OBVIOUS
    <2>3. \A i \in DOMAIN history : history[i].paged \in BOOLEAN
        BY <1>5
    <2>4. QED
        BY <2>1, <2>2, <2>3, Zenon
<1>7. \A i \in S : history[i] = [check |-> c, paged |-> TRUE]
    BY <1>5, <1>6
<1>8. QED
    BY <1>4, <1>6, <1>7

LEMMA NagiosNotifications ==
    ASSUME NagiosFact, Nagios!Notifications
    PROVE  NagiosFact'
<1> DEFINE P == {c \in Checks : Nagios!Pages(c) > 0}
           Oldest(c) == Nagios!Min({i \in DOMAIN history :
                                       history[i].check = c /\ history[i].paged})
<1>1. /\ phase = "pages" /\ phase' = "rollup" /\ checks' = Nagios!Paged
      /\ section' = Nagios!CountOk(section)
      /\ counts' = [counts EXCEPT !.pages =
                       Nagios!Quantify(DOMAIN history, LAMBDA i : history[i].paged)]
      /\ UNCHANGED <<bad, history, began, broken>>
    BY DEF Nagios!Notifications, Nagios!Answered
<1>2. NagiosTyped /\ P \subseteq Checks
      /\ \A c \in DOMAIN checks : checks[c].pages = 0 /\ checks[c].events = 0
    BY <1>1 DEF NagiosFact, RecordsFit
<1>s. section' \in NagiosSection /\ section'.errors = section.errors
      /\ section'.records = section.records
    BY <1>1, <1>2, NagiosSections
<1> DEFINE w == Nagios!With(P)
<1>3. checks' = [c \in DOMAIN w |->
                    IF c \in P THEN [w[c] EXCEPT !.pages = Nagios!Pages(c), !.lastPage = Oldest(c)]
                               ELSE w[c]]
    BY <1>1 DEF Nagios!Paged
<1>4. /\ DOMAIN w = DOMAIN checks \cup P
      /\ \A c \in DOMAIN checks : w[c] = checks[c]
      /\ \A c \in P \ DOMAIN checks :
             w[c] = [open |-> FALSE, pages |-> 0, lastPage |-> 0, events |-> 0]
      /\ \A c \in DOMAIN w : w[c] \in CheckRecord
    BY <1>2, WithIs
<1>5. \A c \in P : /\ Nagios!Pages(c) \in Nat /\ Nagios!Pages(c) > 0
                   /\ Oldest(c) \in Nat /\ Oldest(c) \in DOMAIN history
                   /\ history[Oldest(c)] = [check |-> c, paged |-> TRUE]
    <2>1. \A c \in P : Nagios!Pages(c) \in Nat /\ Nagios!Pages(c) > 0
        BY <1>2, TotalsAreNat
    <2>2. \A c \in P : /\ Oldest(c) \in DOMAIN history
                       /\ history[Oldest(c)] = [check |-> c, paged |-> TRUE]
        BY <1>2, <2>1, OldestIs
    <2>3. DOMAIN history \subseteq Nat
        BY <1>2 DEF NagiosTyped
    <2> HIDE DEF P, Oldest
    <2>4. QED
        BY <2>1, <2>2, <2>3
<1>6. \A c \in Checks : c \notin P => Nagios!Pages(c) = 0
    BY <1>2, TotalsAreNat
<1>7. \A c : /\ Nagios!Pages(c)' = Nagios!Pages(c) /\ Nagios!Events(c)' = Nagios!Events(c)
             /\ Nagios!Events(c) \in Nat
    BY <1>1, <1>2, TotalsAreNat
       DEF Nagios!Pages, Nagios!Events, Nagios!PagesBy, Nagios!EventsBy, Nagios!Quantify
<1> HIDE DEF P, Oldest, w
<1>8. /\ DOMAIN checks' = DOMAIN checks \cup P
      /\ \A c \in P : checks'[c] = [w[c] EXCEPT !.pages = Nagios!Pages(c), !.lastPage = Oldest(c)]
      /\ \A c \in DOMAIN checks \ P : checks'[c] = checks[c]
    BY <1>3, <1>4
<1>9. \A c \in P : /\ checks'[c] \in CheckRecord
                   /\ checks'[c].open = w[c].open /\ checks'[c].events = w[c].events
                   /\ checks'[c].pages = Nagios!Pages(c) /\ checks'[c].lastPage = Oldest(c)
    <2> SUFFICES ASSUME NEW c \in P
                 PROVE  /\ checks'[c] \in CheckRecord
                        /\ checks'[c].open = w[c].open /\ checks'[c].events = w[c].events
                        /\ checks'[c].pages = Nagios!Pages(c) /\ checks'[c].lastPage = Oldest(c)
        OBVIOUS
    <2>1. w[c] \in CheckRecord /\ Nagios!Pages(c) \in Nat /\ Oldest(c) \in Nat
        BY <1>4, <1>5
    <2> DEFINE p == Nagios!Pages(c)
               o == Oldest(c)
               r == w[c]
    <2>2. checks'[c] = [r EXCEPT !.pages = p, !.lastPage = o]
        BY <1>8
    <2>3. r \in CheckRecord /\ p \in Nat /\ o \in Nat
        BY <2>1
    <2> HIDE DEF p, o, r
    <2>4. /\ checks'[c] \in CheckRecord
          /\ checks'[c].open = r.open /\ checks'[c].events = r.events
          /\ checks'[c].pages = p /\ checks'[c].lastPage = o
        BY <2>2, <2>3 DEF CheckRecord
    <2>5. QED
        BY <2>4 DEF p, o, r
<1>10. \A c \in P : checks'[c].events = 0
    <2>1. \A c \in P : w[c].events = 0
        BY <1>2, <1>4
    <2>2. QED
        BY <2>1, <1>9
<1>11. \A c \in DOMAIN checks' : RecordFits(c, checks[c])'
    <2> SUFFICES ASSUME NEW c \in DOMAIN checks' PROVE RecordFits(c, checks[c])'
        OBVIOUS
    <2>1. CASE c \in P
        BY <1>1, <1>5, <1>7, <1>9, <1>10, <2>1 DEF RecordFits
    <2>2. CASE c \notin P
        <3>1. c \in DOMAIN checks /\ checks'[c] = checks[c] /\ RecordFits(c, checks[c])
            BY <1>8, <2>2 DEF NagiosFact, RecordsFit
        <3>2. QED
            BY <1>1, <1>7, <3>1 DEF RecordFits
    <2>3. QED
        BY <2>1, <2>2
<1>12. RecordsFit'
    BY <1>1, <1>2, <1>8, <1>10, <1>11 DEF RecordsFit
<1>13. NagiosTyped'
    <2>1. counts' \in [pages : Nat, listed : 0..RollupSize, more : Nat]
        <3> DEFINE e == Nagios!Quantify(DOMAIN history, LAMBDA i : history[i].paged)
        <3>1. e \in Nat
            <4>1. IsFiniteSet(DOMAIN history)
                BY <1>2, FS_Interval DEF NagiosTyped
            <4>2. IsFiniteSet({i \in DOMAIN history : history[i].paged})
                BY <4>1, FS_Subset
            <4>3. QED
                BY <4>2, FS_CardinalityType, NagiosLibrary DEF Nagios!Quantify
        <3>2. counts' = [counts EXCEPT !.pages = e]
            BY <1>1
        <3> HIDE DEF e
        <3>3. QED
            BY <1>2, <3>1, <3>2 DEF NagiosTyped
    <2>2. DOMAIN checks' \subseteq Checks /\ \A c \in DOMAIN checks' : checks'[c] \in CheckRecord
        BY <1>2, <1>8, <1>9 DEF NagiosTyped, P
    <2>3. QED
        BY <1>1, <1>2, <1>s, <2>1, <2>2 DEF NagiosTyped
<1>14. OpenIsThere'
    <2>1. \A c \in P \cap DOMAIN checks : checks'[c].open = checks[c].open
        BY <1>4, <1>9
    <2>2. \A c \in DOMAIN checks : c \in DOMAIN checks' /\ checks'[c].open = checks[c].open
        BY <1>8, <2>1
    <2>3. QED
        BY <1>1, <1>s, <2>2 DEF NagiosFact, OpenIsThere
<1>15. PagedIsThere'
    <2> SUFFICES ASSUME NEW c \in Checks, Nagios!PagesBy(c, began)' > 0
                 PROVE  c \in DOMAIN checks' /\ checks'[c].pages >= Nagios!PagesBy(c, began)'
        BY DEF PagedIsThere
    <2>1. Nagios!PagesBy(c, began)' = Nagios!PagesBy(c, began)
        BY <1>1, StillCounts
    <2>2. Nagios!PagesBy(c, began) \in Nat /\ Nagios!PagesBy(c, began) <= Nagios!Pages(c)
          /\ Nagios!Pages(c) \in Nat
        BY <1>2, TotalsAreNat
    <2>3. c \in P
        BY <2>1, <2>2 DEF P
    <2>4. QED
        BY <1>8, <1>9, <2>1, <2>2, <2>3
<1>16. NoisyIsThere' /\ RecordsAreChecks'
    BY <1>1, <1>s DEF NagiosFact, NoisyIsThere, RecordsAreChecks
<1>17. QED
    BY <1>12, <1>13, <1>14, <1>15, <1>16 DEF NagiosFact

(* The third question: the noisiest rows of the roll-up, merged.           *)
LEMMA RollupsAre ==
    ASSUME NagiosTyped, NEW rows \in Nagios!Rollups
    PROVE  /\ rows \subseteq Nagios!Noisy /\ Nagios!Noisy \subseteq Checks
           /\ Cardinality(rows) \in 0..RollupSize
           /\ Cardinality(Nagios!Noisy \ rows) \in Nat
           /\ \A c \in Nagios!Noisy \ rows : Cardinality(Nagios!Noisy \ rows) > 0
<1> DEFINE N == Nagios!Noisy
           k == Nagios!Min({RollupSize, Nagios!Cardinality(N)})
<1>1. rows \in Nagios!kSubset(k, N)
    BY DEF Nagios!Rollups
<1>2. rows \subseteq N /\ Cardinality(rows) = k
    BY <1>1, NagiosLibrary DEF Nagios!kSubset
<1>3. N \subseteq Checks /\ IsFiniteSet(N)
    <2>1. N \subseteq Checks
        BY DEF Nagios!Noisy
    <2>2. QED
        BY <2>1, NagiosConstants, FS_Subset
<1>4. RollupSize \in Nat /\ Cardinality(N) \in Nat
    BY <1>3, NagiosConstants, FS_CardinalityType
<1>5. k = Min({RollupSize, Cardinality(N)})
    BY NagiosLibrary
<1> HIDE DEF N, k
<1>6. k \in 0..RollupSize
    <2> DEFINE S == {RollupSize, Cardinality(N)}
    <2>1. S \in SUBSET Int /\ S # {} /\ RollupSize \in S /\ S \subseteq Nat
        BY <1>4
    <2>2. IsFiniteSet(S)
        <3>1. IsFiniteSet({RollupSize}) /\ S = {RollupSize} \cup {Cardinality(N)}
            BY FS_Singleton
        <3>2. QED
            BY <3>1, FS_AddElement
    <2>3. k = Min(S)
        BY <1>5
    <2> HIDE DEF S
    <2>4. k \in S /\ k <= RollupSize
        BY <2>1, <2>2, <2>3, MinIs
    <2>5. QED
        BY <2>1, <2>4
<1>7. IsFiniteSet(N \ rows)
    BY <1>3, FS_Subset
<1>8. \A c \in N \ rows : Cardinality(N \ rows) > 0
    <2> DEFINE D == N \ rows
    <2>1. Cardinality(D) \in Nat /\ (Cardinality(D) = 0 <=> D = {})
        BY <1>7, FS_CardinalityType, FS_EmptySet
    <2>2. QED
        BY <2>1
<1>9. QED
    BY <1>2, <1>3, <1>6, <1>7, <1>8, FS_CardinalityType DEF N

LEMMA NagiosRollup ==
    ASSUME NagiosFact, Nagios!Rollup
    PROVE  NagiosFact'
<1>1. PICK rows \in Nagios!Rollups :
          /\ checks' = Nagios!Merged(rows)
          /\ counts' = [counts EXCEPT !.listed = Nagios!Cardinality(rows),
                                      !.more = Nagios!Cardinality(Nagios!Noisy \ rows)]
    BY DEF Nagios!Rollup
<1>2. /\ phase = "rollup" /\ phase' = "downtimes" /\ section' = Nagios!CountOk(section)
      /\ UNCHANGED <<bad, history, began, broken>>
    BY DEF Nagios!Rollup, Nagios!Answered
<1>3. NagiosTyped /\ \A c \in DOMAIN checks : checks[c].events = 0
    BY <1>2 DEF NagiosFact, RecordsFit
<1>s. section' \in NagiosSection /\ section'.errors = section.errors
      /\ section'.records = section.records
    BY <1>2, <1>3, NagiosSections
<1>4. /\ rows \subseteq Nagios!Noisy /\ Nagios!Noisy \subseteq Checks
      /\ Cardinality(rows) \in 0..RollupSize
      /\ Cardinality(Nagios!Noisy \ rows) \in Nat
      /\ \A c \in Nagios!Noisy \ rows : Cardinality(Nagios!Noisy \ rows) > 0
    BY <1>3, RollupsAre
<1> DEFINE K == Nagios!Kept(rows)
           w == Nagios!With(K)
           listed == Cardinality(rows)
           more == Cardinality(Nagios!Noisy \ rows)
<1>5. K = {c \in rows : c \in DOMAIN checks \/ Nagios!Events(c) >= MinEvents} /\ K \subseteq Checks
    BY <1>4 DEF Nagios!Kept
<1>6. counts' = [counts EXCEPT !.listed = listed, !.more = more]
    <2>1. /\ Nagios!Cardinality(rows) = listed
          /\ Nagios!Cardinality(Nagios!Noisy \ rows) = more
        BY NagiosLibrary
    <2>2. QED
        BY <1>1, <2>1
<1>7. checks' = [c \in DOMAIN w |->
                    IF c \in K THEN [w[c] EXCEPT !.events = Nagios!Events(c)] ELSE w[c]]
    BY <1>1 DEF Nagios!Merged
<1>8. /\ DOMAIN w = DOMAIN checks \cup K
      /\ \A c \in DOMAIN checks : w[c] = checks[c]
      /\ \A c \in K \ DOMAIN checks :
             w[c] = [open |-> FALSE, pages |-> 0, lastPage |-> 0, events |-> 0]
      /\ \A c \in DOMAIN w : w[c] \in CheckRecord
    BY <1>3, <1>5, WithIs
<1>9. \A c : /\ Nagios!Pages(c)' = Nagios!Pages(c) /\ Nagios!Events(c)' = Nagios!Events(c)
             /\ Nagios!Events(c) \in Nat /\ Nagios!Pages(c) \in Nat
             /\ Nagios!Pages(c) <= Nagios!Events(c)
    BY <1>2, <1>3, TotalsAreNat
       DEF Nagios!Pages, Nagios!Events, Nagios!PagesBy, Nagios!EventsBy, Nagios!Quantify
<1>10. MinEvents \in Nat /\ MinEvents > 0
    BY NagiosConstants
<1> HIDE DEF K, w, listed, more
<1>11. /\ DOMAIN checks' = DOMAIN checks \cup K
       /\ \A c \in K : checks'[c] = [w[c] EXCEPT !.events = Nagios!Events(c)]
       /\ \A c \in DOMAIN checks \ K : checks'[c] = checks[c]
    BY <1>7, <1>8
<1>12. \A c \in K : /\ checks'[c] \in CheckRecord /\ checks'[c].events = Nagios!Events(c)
                    /\ checks'[c].open = w[c].open /\ checks'[c].pages = w[c].pages
                    /\ checks'[c].lastPage = w[c].lastPage
    <2> SUFFICES ASSUME NEW c \in K
                 PROVE  /\ checks'[c] \in CheckRecord /\ checks'[c].events = Nagios!Events(c)
                        /\ checks'[c].open = w[c].open /\ checks'[c].pages = w[c].pages
                        /\ checks'[c].lastPage = w[c].lastPage
        OBVIOUS
    <2> DEFINE n == Nagios!Events(c)
               r == w[c]
    <2>1. checks'[c] = [r EXCEPT !.events = n] /\ r \in CheckRecord /\ n \in Nat
        BY <1>8, <1>9, <1>11
    <2> HIDE DEF n, r
    <2>2. /\ checks'[c] \in CheckRecord /\ checks'[c].events = n
          /\ checks'[c].open = r.open /\ checks'[c].pages = r.pages
          /\ checks'[c].lastPage = r.lastPage
        BY <2>1 DEF CheckRecord
    <2>3. QED
        BY <2>2 DEF n, r
<1>13. \A c \in DOMAIN checks : RecordFits(c, checks[c])
    BY DEF NagiosFact, RecordsFit
<1>14. \A c \in DOMAIN checks' : RecordFits(c, checks[c])'
    <2> SUFFICES ASSUME NEW c \in DOMAIN checks' PROVE RecordFits(c, checks[c])'
        OBVIOUS
    <2>1. CASE c \in K \cap DOMAIN checks
        <3>1. w[c] = checks[c] /\ checks[c].events = 0 /\ checks[c] \in CheckRecord
            BY <1>3, <1>8, <2>1 DEF NagiosTyped
        <3>2. /\ checks'[c].events = Nagios!Events(c) /\ checks'[c].open = checks[c].open
              /\ checks'[c].pages = checks[c].pages /\ checks'[c].lastPage = checks[c].lastPage
            BY <1>12, <2>1, <3>1
        <3>3. /\ checks[c].open \/ checks[c].pages > 0 \/ checks[c].events >= MinEvents
              /\ checks[c].pages <= Nagios!Pages(c)
              /\ checks[c].pages > 0 => /\ checks[c].lastPage \in DOMAIN history
                                        /\ history[checks[c].lastPage] = [check |-> c, paged |-> TRUE]
            BY <1>13, <2>1 DEF RecordFits
        <3>4. checks[c].open \/ checks[c].pages > 0
            <4>1. ~ (checks[c].events >= MinEvents)
                BY <1>10, <3>1
            <4>2. QED
                BY <3>3, <4>1, Zenon
        <3>5. checks'[c].open \/ checks'[c].pages > 0
            BY <3>2, <3>4, Zenon
        <3>6. checks'[c].pages <= Nagios!Pages(c)' /\ checks'[c].events <= Nagios!Events(c)'
              /\ checks'[c].pages <= checks'[c].events
            <4>1. checks[c].pages \in Nat
                BY <3>1 DEF CheckRecord
            <4>2. QED
                BY <1>9, <3>2, <3>3, <4>1
        <3>7. checks'[c].pages > 0 =>
                  /\ checks'[c].lastPage \in DOMAIN history'
                  /\ history'[checks'[c].lastPage] = [check |-> c, paged |-> TRUE]
            BY <1>2, <3>2, <3>3
        <3>8. QED
            BY <3>5, <3>6, <3>7 DEF RecordFits
    <2>2. CASE c \in K /\ c \notin DOMAIN checks
        <3>1. w[c] = [open |-> FALSE, pages |-> 0, lastPage |-> 0, events |-> 0]
              /\ Nagios!Events(c) >= MinEvents
            BY <1>5, <1>8, <2>2
        <3>2. checks'[c].events = Nagios!Events(c) /\ checks'[c].pages = 0
            BY <1>12, <2>2, <3>1
        <3>3. QED
            BY <1>2, <1>9, <1>10, <3>1, <3>2 DEF RecordFits
    <2>3. CASE c \notin K
        <3>1. c \in DOMAIN checks /\ checks'[c] = checks[c]
            BY <1>11, <2>3
        <3>2. QED
            BY <1>2, <1>9, <1>13, <3>1 DEF RecordFits
    <2>4. QED
        BY <2>1, <2>2, <2>3
<1>15. RecordsFit'
    BY <1>2, <1>14 DEF RecordsFit
<1>16. NagiosTyped'
    <2>1. counts' \in [pages : Nat, listed : 0..RollupSize, more : Nat]
        <3>1. listed \in 0..RollupSize /\ more \in Nat
            BY <1>4 DEF listed, more
        <3>2. QED
            BY <1>3, <1>6, <3>1 DEF NagiosTyped
    <2>2. DOMAIN checks' \subseteq Checks /\ \A c \in DOMAIN checks' : checks'[c] \in CheckRecord
        BY <1>3, <1>5, <1>11, <1>12 DEF NagiosTyped
    <2>3. QED
        BY <1>2, <1>3, <1>s, <2>1, <2>2 DEF NagiosTyped
<1>17. \A c \in DOMAIN checks : /\ c \in DOMAIN checks'
                                /\ checks'[c].open = checks[c].open
                                /\ checks'[c].pages = checks[c].pages
    BY <1>8, <1>11, <1>12
<1>18. OpenIsThere'
    BY <1>2, <1>s, <1>17 DEF NagiosFact, OpenIsThere
<1>19. PagedIsThere'
    <2>1. \A c : Nagios!PagesBy(c, began)' = Nagios!PagesBy(c, began)
        BY <1>2, StillCounts
    <2>2. QED
        BY <1>2, <1>s, <1>17, <2>1 DEF NagiosFact, PagedIsThere
<1>20. NoisyIsThere'
    <2> SUFFICES ASSUME NEW c \in Checks, Nagios!EventsBy(c, began)' >= MinEvents
                 PROVE  \/ c \in DOMAIN checks' /\ checks'[c].events >= Nagios!EventsBy(c, began)'
                        \/ counts'.more > 0
        BY DEF NoisyIsThere
    <2>1. Nagios!EventsBy(c, began)' = Nagios!EventsBy(c, began)
        BY <1>2, StillCounts
    <2>2. Nagios!EventsBy(c, began) \in Nat /\ Nagios!EventsBy(c, began) <= Nagios!Events(c)
          /\ Nagios!Events(c) \in Nat
        BY <1>3, TotalsAreNat
    <2>3. Nagios!Events(c) >= MinEvents /\ c \in Nagios!Noisy
        BY <1>10, <2>1, <2>2 DEF Nagios!Noisy
    <2>4. CASE c \in rows
        BY <1>5, <1>11, <1>12, <2>1, <2>2, <2>3, <2>4
    <2>5. CASE c \notin rows
        <3>1. more > 0
            BY <1>4, <2>3, <2>5 DEF more
        <3>2. counts'.more = more
            BY <1>3, <1>6 DEF NagiosTyped
        <3>3. QED
            BY <3>1, <3>2
    <2>6. QED
        BY <2>4, <2>5
<1>21. RecordsAreChecks'
    BY <1>2, <1>s DEF NagiosFact, RecordsAreChecks
<1>22. QED
    BY <1>15, <1>16, <1>18, <1>19, <1>20, <1>21 DEF NagiosFact

(* A call that fails leaves the records as they are.                       *)
LEMMA NagiosFails ==
    ASSUME NagiosFact, Nagios!Fails
    PROVE  NagiosFact'
<1>1. PICK q \in {"problems", "pages", "rollup"} :
          /\ phase = q /\ section' = Nagios!NoteError(section, q)
          /\ phase' = Nagios!NextQuestion[q]
    BY DEF Nagios!Fails, Nagios!Answered, Nagios!NextQuestion
<1>2. UNCHANGED <<bad, history, began, broken, checks, counts>>
    BY DEF Nagios!Fails, Nagios!Answered
<1>3. NagiosTyped
    BY DEF NagiosFact
<1>s. section' \in NagiosSection /\ section'.errors = section.errors \cup {q}
      /\ section'.records = section.records
    BY <1>1, <1>3, NagiosSections
<1>4. \/ phase = "problems" /\ phase' = "pages"
      \/ phase = "pages" /\ phase' = "rollup"
      \/ phase = "rollup" /\ phase' = "downtimes"
    BY <1>1 DEF Nagios!NextQuestion
<1>5. NagiosTyped'
    BY <1>2, <1>3, <1>4, <1>s DEF NagiosTyped
<1>6. \A c \in DOMAIN checks : RecordFits(c, checks[c])'
    BY <1>2, StillFits DEF NagiosFact, RecordsFit, RecordFits, Nagios!Pages, Nagios!Events,
       Nagios!PagesBy, Nagios!EventsBy, Nagios!Quantify
<1>7. RecordsFit'
    BY <1>2, <1>4, <1>6 DEF NagiosFact, RecordsFit
<1>8. \A c : /\ Nagios!PagesBy(c, began)' = Nagios!PagesBy(c, began)
             /\ Nagios!EventsBy(c, began)' = Nagios!EventsBy(c, began)
    BY <1>2, StillCounts
<1>9. OpenIsThere' /\ PagedIsThere' /\ NoisyIsThere'
    BY <1>1, <1>2, <1>4, <1>8, <1>s DEF NagiosFact, OpenIsThere, PagedIsThere, NoisyIsThere
<1>10. RecordsAreChecks'
    BY <1>4, <1>s DEF NagiosFact, RecordsAreChecks
<1>11. QED
    BY <1>5, <1>7, <1>9, <1>10 DEF NagiosFact

(* With the last call the records are put in order.                        *)
LEMMA NagiosEnds ==
    ASSUME NagiosFact, Nagios!Downtimes \/ Nagios!DowntimesFail
    PROVE  NagiosFact'
<1>1. /\ phase = "downtimes" /\ phase' = "done"
      /\ UNCHANGED <<bad, history, began, broken, checks, counts>>
    BY DEF Nagios!Downtimes, Nagios!DowntimesFail, Nagios!Answered
<1>2. NagiosTyped /\ section.records = <<>>
    BY <1>1 DEF NagiosFact, RecordsAreChecks
<1>3. PICK s \in NagiosSection :
          /\ section' = [s EXCEPT !.records = @ \o Nagios!RecordOrder]
          /\ s.records = <<>> /\ section.errors \subseteq s.errors
          /\ s.errors \subseteq section.errors \cup {"downtimes"}
    <2>1. CASE Nagios!Downtimes
        BY <1>2, <2>1, NagiosSections DEF Nagios!Downtimes, Nagios!Answered, Nagios!AddRecords
    <2>2. CASE Nagios!DowntimesFail
        BY <1>2, <2>2, NagiosSections DEF Nagios!DowntimesFail, Nagios!Answered, Nagios!AddRecords
    <2>3. QED
        BY <2>1, <2>2
<1>4. /\ Nagios!RecordOrder \in Seq(Checks) /\ ToSet(Nagios!RecordOrder) = DOMAIN checks
      /\ IsInjective(Nagios!RecordOrder)
    BY <1>2, RecordOrderIs DEF NagiosTyped
<1> DEFINE order == Nagios!RecordOrder
<1> HIDE DEF order
<1>5. section' \in NagiosSection /\ section'.records = order /\ section'.errors = s.errors
    <2>1. section' = [s EXCEPT !.records = order] /\ order \in Seq(Checks)
        BY <1>3, <1>4 DEF NagiosSection, order
    <2>2. QED
        BY <1>3, <2>1 DEF NagiosSection
<1>6. NagiosTyped'
    BY <1>1, <1>2, <1>5 DEF NagiosTyped
<1>7. \A c \in DOMAIN checks : RecordFits(c, checks[c])'
    BY <1>1 DEF NagiosFact, RecordsFit, RecordFits, Nagios!Pages, Nagios!Events,
       Nagios!PagesBy, Nagios!EventsBy, Nagios!Quantify
<1>8. RecordsFit'
    BY <1>1, <1>7 DEF NagiosFact, RecordsFit
<1>9. \A c : /\ Nagios!PagesBy(c, began)' = Nagios!PagesBy(c, began)
             /\ Nagios!EventsBy(c, began)' = Nagios!EventsBy(c, began)
    BY <1>1, StillCounts
<1>10. OpenIsThere' /\ PagedIsThere' /\ NoisyIsThere'
    BY <1>1, <1>3, <1>5, <1>9 DEF NagiosFact, OpenIsThere, PagedIsThere, NoisyIsThere
<1>11. RecordsAreChecks'
    <2>1. section'.records = order /\ ToSet(order) = DOMAIN checks /\ IsInjective(order)
          /\ phase' = "done" /\ checks' = checks
        BY <1>1, <1>4, <1>5 DEF order
    <2>2. QED
        BY <2>1 DEF RecordsAreChecks, ToSet, IsInjective
<1>12. QED
    BY <1>6, <1>8, <1>10, <1>11 DEF NagiosFact

(* A step of the sweep's collector is one of its own.                      *)
LEMMA OneCollector ==
    ASSUME [Next]_vars
    PROVE  collector' = collector
<1>1. CASE UNCHANGED vars
    BY <1>1 DEF vars
<1>2. CASE IsGmail \/ IsNagios \/ IsCalendar
    BY <1>2 DEF IsGmail, IsNagios, IsCalendar
<1>3. CASE \/ \E q \in 1..Queries : Daily!Appear(q)
           \/ Daily!Clock \/ Daily!Begin \/ Daily!Answered \/ Daily!Fails \/ Daily!Unparseable
    BY <1>3 DEF Daily!Appear, Daily!Clock, Daily!Begin, Daily!Answered, Daily!Fails,
                Daily!Unparseable, Daily!NextQuery
<1>4. CASE \/ Issue!WriteLine \/ Issue!Begin \/ Issue!NotFound \/ Issue!Found
           \/ Issue!ListItems \/ Issue!Lotor \/ Issue!LotorFails
    BY <1>4 DEF Issue!WriteLine, Issue!Begin, Issue!NotFound, Issue!Found, Issue!ListItems,
                Issue!Lotor, Issue!LotorFails, Issue!Join
<1>5. QED
    BY <1>1, <1>2, <1>3, <1>4 DEF Next

LEMMA NagiosSteps ==
    ASSUME [Next]_vars, collector = "nagios_health"
    PROVE  Nagios!Next \/ UNCHANGED Nagios!vars
<1>1. CASE UNCHANGED vars
    BY <1>1 DEF vars, nagiosVars, Nagios!vars
<1>2. CASE Next
    BY <1>2 DEF Next, Nagios!Next, IsGmail, IsDaily, IsIssue, IsCalendar, Daily!Kinds, Issue!Kinds
<1>3. QED
    BY <1>1, <1>2

LEMMA NagiosStutters ==
    ASSUME NagiosFact, UNCHANGED Nagios!vars
    PROVE  NagiosFact'
<1>1. UNCHANGED <<bad, history, phase, checks, section, counts, began, broken>>
    BY DEF Nagios!vars
<1>2. NagiosTyped' /\ OpenIsThere' /\ RecordsAreChecks'
    BY <1>1 DEF NagiosFact, NagiosTyped, OpenIsThere, RecordsAreChecks
<1>3. \A c \in DOMAIN checks : RecordFits(c, checks[c])'
    BY <1>1 DEF NagiosFact, RecordsFit, RecordFits, Nagios!Pages, Nagios!Events,
       Nagios!PagesBy, Nagios!EventsBy, Nagios!Quantify
<1>4. RecordsFit'
    BY <1>1, <1>3 DEF NagiosFact, RecordsFit
<1>5. \A c : /\ Nagios!PagesBy(c, began)' = Nagios!PagesBy(c, began)
             /\ Nagios!EventsBy(c, began)' = Nagios!EventsBy(c, began)
    BY <1>1, StillCounts
<1>6. PagedIsThere' /\ NoisyIsThere'
    BY <1>1, <1>5 DEF NagiosFact, PagedIsThere, NoisyIsThere
<1>7. QED
    BY <1>2, <1>4, <1>6 DEF NagiosFact

LEMMA NextNagios == NagiosInv /\ [Next]_vars => NagiosInv'
<1> SUFFICES ASSUME NagiosInv, [Next]_vars, collector' = "nagios_health" PROVE NagiosFact'
    BY DEF NagiosInv
<1>1. collector = "nagios_health" /\ NagiosFact
    BY OneCollector DEF NagiosInv
<1>2. Nagios!Next \/ UNCHANGED Nagios!vars
    BY <1>1, NagiosSteps
<1>3. CASE UNCHANGED Nagios!vars
    BY <1>1, <1>3, NagiosStutters
<1>4. CASE \E c \in Checks, paged \in BOOLEAN : Nagios!Breaks(c, paged)
    BY <1>1, <1>4, NagiosBreaks
<1>5. CASE \E c \in Checks : Nagios!Recovers(c)
    BY <1>1, <1>5, NagiosRecovers
<1>6. CASE Nagios!Begin
    BY <1>1, <1>6, NagiosBegin
<1>7. CASE Nagios!Problems
    BY <1>1, <1>7, NagiosProblems
<1>8. CASE Nagios!Notifications
    BY <1>1, <1>8, NagiosNotifications
<1>9. CASE Nagios!Rollup
    BY <1>1, <1>9, NagiosRollup
<1>10. CASE Nagios!Downtimes \/ Nagios!DowntimesFail
    BY <1>1, <1>10, NagiosEnds
<1>11. CASE Nagios!Fails
    BY <1>1, <1>11, NagiosFails
<1>12. QED
    BY <1>2, <1>3, <1>4, <1>5, <1>6, <1>7, <1>8, <1>9, <1>10, <1>11 DEF Nagios!Next

(* Every record of a finished run of nagios_health is there for a reason,  *)
(* once, and is true of the history, however the checks broke and paged    *)
(* between its four answers (_record_problems, _merge_rollup).             *)
THEOREM RecordsTheorem == Spec => []RecordsAreTrue
<1>1. NagiosInv => RecordsAreTrue
    <2> SUFFICES ASSUME NagiosFact, phase = "done" PROVE Nagios!RecordsAreTrue
        BY DEF NagiosInv, RecordsAreTrue, Nagios!RecordsAreTrue
    <2>1. ToSet(section.records) = DOMAIN checks /\ IsInjective(section.records)
        BY DEF NagiosFact, RecordsAreChecks
    <2>2. Nagios!ToSet(section.records) = DOMAIN checks /\ Nagios!IsInjective(section.records)
        BY <2>1, NagiosLibrary
    <2>3. \A c \in DOMAIN checks : RecordFits(c, checks[c])
        BY DEF NagiosFact, RecordsFit
    <2>4. QED
        BY <2>2, <2>3 DEF Nagios!RecordsAreTrue, RecordFits
<1>2. QED
    BY InitNagios, NextNagios, <1>1, PTL DEF Spec

(* What qualified when the run began and has not recovered is listed as    *)
(* what it is, unless the call that would have said so failed or the       *)
(* roll-up said that it left rows out: for any number of checks, events    *)
(* and rows, and any interleaving of Nagios with the calls.                *)
THEOREM QualifiesTheorem == Spec => []WhatQualifiesIsListed
<1>1. NagiosInv => WhatQualifiesIsListed
    <2> SUFFICES ASSUME NagiosFact, phase = "done" PROVE Nagios!WhatQualifiesIsListed
        BY DEF NagiosInv, WhatQualifiesIsListed, Nagios!WhatQualifiesIsListed
    <2>1. ToSet(section.records) = DOMAIN checks
        BY DEF NagiosFact, RecordsAreChecks
    <2>2. \A c \in DOMAIN checks : Nagios!IsListed(c)
        BY <2>1 DEF ToSet, Nagios!IsListed
    <2>3. broken \subseteq Checks
        BY DEF NagiosFact, NagiosTyped
    <2>4. QED
        BY <2>2, <2>3
           DEF NagiosFact, OpenIsThere, PagedIsThere, NoisyIsThere, Nagios!WhatQualifiesIsListed
<1>2. QED
    BY InitNagios, NextNagios, <1>1, PTL DEF Spec

-----------------------------------------------------------------------------
(* The calendar.                                                           *)

(* The library and the days are the same in CalendarDay.                   *)
LEMMA CalendarLibrary ==
    ASSUME NEW S
    PROVE  /\ Calendar!Cardinality(S) = Cardinality(S)
           /\ Calendar!Min(S) = Min(S)
BY DEF Calendar!Cardinality, Cardinality, Calendar!Min, Min

LEMMA CalendarConstants ==
    /\ \A e \in CalendarEvents :
          e.start \in Nat /\ e.end \in Nat /\ e.start < e.end /\ e.allDay \in BOOLEAN
    /\ Moments \subseteq Nat /\ Moments # {} /\ IsFiniteSet(Moments)
    /\ Lookahead \in Nat /\ MaxResults \in Nat \ {0} /\ MaxEvents \in Nat
<1>1. Daily!IsFiniteSet(Moments) <=> IsFiniteSet(Moments)
    BY DEF Daily!IsFiniteSet, IsFiniteSet
<1>2. QED
    BY <1>1, CollectorsAssumption DEF Calendar!Constants, Daily!Constants

LEMMA CalendarDays ==
    ASSUME NEW t \in Nat
    PROVE  /\ Calendar!Day(t) \in Nat
           /\ 24 * Calendar!Day(t) <= t /\ t < 24 * (Calendar!Day(t) + 1)
BY DEF Calendar!Day

LEMMA WeekdayComes ==
    ASSUME NEW d \in Int
    PROVE  \E e \in d..(d + 2) :
               ~Calendar!IsWeekend(e) /\ \A f \in d..(e - 1) : Calendar!IsWeekend(f)
<1>1. CASE ~Calendar!IsWeekend(d)
    <2>1. WITNESS d \in d..(d + 2)
    <2>2. QED
        BY <1>1
<1>2. CASE Calendar!IsWeekend(d) /\ ~Calendar!IsWeekend(d + 1)
    <2>1. WITNESS d + 1 \in d..(d + 2)
    <2>2. QED
        BY <1>2
<1>3. CASE Calendar!IsWeekend(d) /\ Calendar!IsWeekend(d + 1)
    <2>1. WITNESS d + 2 \in d..(d + 2)
    <2>2. ~Calendar!IsWeekend(d + 2)
        BY <1>3 DEF Calendar!IsWeekend, Calendar!Weekday
    <2>3. QED
        BY <1>3, <2>2
<1>4. QED
    BY <1>1, <1>2, <1>3

LEMMA ReportDayIs ==
    ASSUME NEW t \in Nat
    PROVE  Calendar!ReportDay(t) \in Nat
<1> DEFINE d == Calendar!Day(t)
<1>1. d \in Nat
    BY CalendarDays
<1>2. Calendar!ReportDay(t) \in d..(d + 2)
    <2>1. \E e \in d..(d + 2) :
              ~Calendar!IsWeekend(e) /\ \A f \in d..(e - 1) : Calendar!IsWeekend(f)
        BY <1>1, WeekdayComes
    <2>2. QED
        BY <2>1 DEF Calendar!ReportDay
<1>3. QED
    BY <1>1, <1>2

LEMMA SameWeekday ==
    ASSUME NEW d \in Int
    PROVE  Calendar!PreviousWeekday(d) \in (d - 3)..(d - 1)
<1>1. Calendar!PreviousWeekday(d) = Daily!PreviousWeekday(d)
    BY DEF Calendar!PreviousWeekday, Daily!PreviousWeekday, Calendar!IsWeekend, Daily!IsWeekend,
           Calendar!Weekday, Daily!Weekday
<1>2. QED
    BY <1>1, PreviousWeekdayIs

(* Numbers in their order.                                                 *)
Ascending(T) == {s \in [1..Cardinality(T) -> T] : \A i, j \in DOMAIN s : i < j => s[i] < s[j]}

LEMMA AscendingIs ==
    ASSUME NEW T \in SUBSET Int, IsFiniteSet(T)
    PROVE  /\ Ascending(T) # {}
           /\ \A p \in Ascending(T) : /\ p \in Seq(T) /\ Len(p) = Cardinality(T)
                                      /\ \A x \in T : \E i \in DOMAIN p : p[i] = x
<1> DEFINE R == {e \in T \X T : e[1] < e[2]}
<1>1. \A x, y \in T : <<x, y>> \in R <=> x < y
    OBVIOUS
<1>2. Sorts(T, R)
    <2>1. \A x \in T : x \in Int
        OBVIOUS
    <2> HIDE DEF R
    <2>2. \A x \in T : <<x, x>> \notin R
        BY <1>1, <2>1
    <2>3. \A x, y \in T : x # y => <<x, y>> \in R \/ <<y, x>> \in R
        BY <1>1, <2>1
    <2>4. \A x, y, z \in T : <<x, y>> \in R /\ <<y, z>> \in R => <<x, z>> \in R
        BY <1>1, <2>1
    <2>5. QED
        BY <2>2, <2>3, <2>4 DEF Sorts
<1> HIDE DEF R
<1>3. Ascending(T) = Sorted(T, R)
    BY <1>1 DEF Ascending, Sorted
<1>4. QED
    BY <1>2, <1>3, SortedIsThere, SortedIsAll

(* The answer: events of the calendar, all that was asked for if there was *)
(* room.                                                                   *)
LEMMA AnswerIs ==
    ASSUME calendar \in Seq(CalendarEvents)
    PROVE  /\ Calendar!Answer \in Seq(CalendarEvents)
           /\ Len(Calendar!Answer) < MaxResults => Cardinality(Calendar!Asked) < MaxResults
           /\ Cardinality(Calendar!Asked) < MaxResults =>
                 \A i \in Calendar!Asked : \E n \in DOMAIN Calendar!Answer :
                     Calendar!Answer[n] = calendar[i]
<1> DEFINE A == Calendar!Asked
           R == {e \in A \X A : \/ calendar[e[1]].start < calendar[e[2]].start
                                \/ calendar[e[1]].start = calendar[e[2]].start /\ e[1] < e[2]}
           m == Cardinality(A)
           order == CHOOSE s \in [1..Calendar!Cardinality(A) -> A] : \A i, j \in DOMAIN s : i < j =>
                        \/ calendar[s[i]].start < calendar[s[j]].start
                        \/ calendar[s[i]].start = calendar[s[j]].start /\ s[i] < s[j]
           k == Min({m, MaxResults})
<1>1. A \subseteq 1..Len(calendar) /\ Len(calendar) \in Nat
    BY DEF Calendar!Asked
<1>2. IsFiniteSet(A) /\ A \in SUBSET Int
    <2>1. IsFiniteSet(1..Len(calendar))
        BY <1>1, FS_Interval
    <2> HIDE DEF A
    <2>2. A \in SUBSET (1..Len(calendar))
        BY <1>1
    <2>3. IsFiniteSet(A)
        BY <2>1, <2>2, FS_Subset
    <2>4. A \in SUBSET Int
        BY <1>1, <2>2
    <2>5. QED
        BY <2>3, <2>4
<1>3. \A i \in A : i \in Int /\ calendar[i] \in CalendarEvents /\ calendar[i].start \in Int
    BY <1>1, CalendarConstants
<1>4. \A i, j \in A : <<i, j>> \in R <=>
          \/ calendar[i].start < calendar[j].start
          \/ calendar[i].start = calendar[j].start /\ i < j
    OBVIOUS
<1>5. Calendar!Answer = [n \in 1..k |-> calendar[order[n]]]
    <2>1. Calendar!Min({Calendar!Cardinality(A), MaxResults}) = k
        BY CalendarLibrary
    <2> HIDE DEF k
    <2>2. QED
        BY <2>1 DEF Calendar!Answer, Calendar!InOrder
<1> HIDE DEF A, R
<1>6. Sorts(A, R)
    <2>1. \A i \in A : <<i, i>> \notin R
        BY <1>3, <1>4
    <2>2. \A i, j \in A : i # j => <<i, j>> \in R \/ <<j, i>> \in R
        BY <1>3, <1>4
    <2>3. \A i, j, l \in A : <<i, j>> \in R /\ <<j, l>> \in R => <<i, l>> \in R
        BY <1>3, <1>4
    <2>4. QED
        BY <2>1, <2>2, <2>3 DEF Sorts
<1>7. order \in Sorted(A, R)
    <2>1. \A s : s \in Sorted(A, R) <=>
             /\ s \in [1..m -> A]
             /\ \A i, j \in DOMAIN s : i < j =>
                    \/ calendar[s[i]].start < calendar[s[j]].start
                    \/ calendar[s[i]].start = calendar[s[j]].start /\ s[i] < s[j]
        BY <1>4 DEF Sorted
    <2>2. Sorted(A, R) # {}
        BY <1>2, <1>6, SortedIsThere
    <2>3. Calendar!Cardinality(A) = m
        BY CalendarLibrary
    <2>4. QED
        BY <2>1, <2>2, <2>3
<1> HIDE DEF order
<1>8. /\ order \in Seq(A) /\ Len(order) = m
      /\ \A x \in A : \E i \in DOMAIN order : order[i] = x
    BY <1>2, <1>6, <1>7, SortedIsAll
<1>9. m \in Nat /\ MaxResults \in Nat
    BY <1>2, FS_CardinalityType, CalendarConstants
<1> HIDE DEF m
<1>10. k \in Nat /\ k <= m /\ (k < MaxResults => k = m) /\ (m < MaxResults => k = m)
    <2> DEFINE S == {m, MaxResults}
    <2>1. S \in SUBSET Int /\ S # {} /\ S \subseteq Nat /\ m \in S
        BY <1>9
    <2>2. IsFiniteSet(S)
        <3>1. IsFiniteSet({m}) /\ S = {m} \cup {MaxResults}
            BY FS_Singleton
        <3>2. QED
            BY <3>1, FS_AddElement
    <2>3. Min(S) \in S /\ \A x \in S : Min(S) <= x
        <3> HIDE DEF S
        <3>1. QED
            BY <2>1, <2>2, MinIs
    <2>4. QED
        BY <1>9, <2>3
<1> HIDE DEF k
<1>11. Calendar!Answer \in Seq(CalendarEvents) /\ Len(Calendar!Answer) = k
       /\ \A n \in 1..k : Calendar!Answer[n] = calendar[order[n]]
    <2>1. \A n \in 1..k : calendar[order[n]] \in CalendarEvents
        BY <1>3, <1>8, <1>9, <1>10
    <2>2. QED
        BY <1>5, <1>10, <2>1
<1>12. ASSUME m < MaxResults, NEW i \in A
       PROVE  \E n \in DOMAIN Calendar!Answer : Calendar!Answer[n] = calendar[i]
    <2>1. PICK n \in DOMAIN order : order[n] = i
        BY <1>8
    <2>2. n \in 1..k /\ DOMAIN Calendar!Answer = 1..k
        BY <1>8, <1>9, <1>10, <1>11, <1>12
    <2>3. QED
        BY <1>11, <2>1, <2>2
<1>13. Len(Calendar!Answer) < MaxResults => m < MaxResults
    BY <1>9, <1>10, <1>11
<1>14. QED
    BY <1>11, <1>12, <1>13 DEF A, m

(* What an event is to the report: one of four things.                     *)
LEMMA EventKindIs ==
    ASSUME NEW e \in CalendarEvents, Calendar!Day0 \in Int
    PROVE  /\ Calendar!EventKind(e) \in {"all_day", "meeting", "pending_invite", "none"}
           /\ e.status # "declined" /\ Calendar!Day(e.start) = Calendar!Day0 =>
                  Calendar!EventKind(e) # "none"
           /\ e.status = "needsAction" /\ Calendar!Day(e.start) > Calendar!Day0 =>
                  Calendar!EventKind(e) = "pending_invite"
<1> DEFINE d == Calendar!Day(e.start)
           o == Calendar!Day0
           p == e.status # "declined" /\ d = o /\ e.allDay
           q == e.status \notin {"declined", "needsAction"} /\ d = o /\ ~e.allDay
           r == e.status = "needsAction" /\ d >= o /\ ~(d = o /\ e.allDay)
<1>1. Calendar!EventKind(e) = CASE p -> "all_day" [] q -> "meeting" [] r -> "pending_invite"
                                [] OTHER -> "none"
    BY DEF Calendar!EventKind
<1>2. ~(p /\ q) /\ ~(p /\ r) /\ ~(q /\ r)
    BY Zenon
<1>3. e.status # "declined" /\ d = o => p \/ q \/ r
    <2>1. e.status = "needsAction" /\ d = o => d >= o
        <3>1. d \in Int
            BY CalendarConstants, CalendarDays
        <3>2. QED
            BY <3>1
    <2>2. QED
        BY <2>1, Zenon
<1>4. e.status = "needsAction" /\ d > o /\ o \in Int => r
    <2>1. d \in Int
        BY CalendarConstants, CalendarDays
    <2>2. d > o /\ o \in Int => d >= o /\ d # o
        BY <2>1
    <2>3. QED
        BY <2>2, Zenon
<1>5. r => e.status = "needsAction"
    OBVIOUS
<1> HIDE DEF p, q, r
<1>6. Calendar!EventKind(e) \in {"all_day", "meeting", "pending_invite", "none"}
    BY <1>1
<1>7. p \/ q \/ r => Calendar!EventKind(e) # "none"
    BY <1>1
<1>8. r => Calendar!EventKind(e) = "pending_invite"
    BY <1>1, <1>2
<1>9. QED
    BY <1>3, <1>4, <1>6, <1>7, <1>8

(* What the report keeps of the answer.                                    *)
KeptEvents == Calendar!Selected(Calendar!Answer, LAMBDA e : Calendar!EventKind(e) # "none")

LEMMA KeptEventsAre ==
    ASSUME calendar \in Seq(CalendarEvents)
    PROVE  /\ KeptEvents \in Seq(CalendarEvents)
           /\ \A n \in DOMAIN KeptEvents : Calendar!EventKind(KeptEvents[n]) # "none"
           /\ \A i \in DOMAIN Calendar!Answer : Calendar!EventKind(Calendar!Answer[i]) # "none" =>
                 \E n \in DOMAIN KeptEvents : KeptEvents[n] = Calendar!Answer[i]
<1> DEFINE s == Calendar!Answer
           T == {i \in DOMAIN s : Calendar!EventKind(s[i]) # "none"}
           p == CHOOSE t \in [1..Calendar!Cardinality(T) -> T] :
                    \A i, j \in DOMAIN t : i < j => t[i] < t[j]
<1>1. KeptEvents = [n \in DOMAIN p |-> s[p[n]]]
    BY DEF KeptEvents, Calendar!Selected, Calendar!InOrder
<1>2. s \in Seq(CalendarEvents)
    BY AnswerIs
<1> HIDE DEF s
<1>3. T \in SUBSET Int /\ IsFiniteSet(T)
    <2>1. IsFiniteSet(1..Len(s)) /\ DOMAIN s = 1..Len(s)
        BY <1>2, FS_Interval
    <2>2. T \in SUBSET (1..Len(s))
        BY <2>1
    <2> HIDE DEF T
    <2>3. IsFiniteSet(T)
        BY <2>1, <2>2, FS_Subset
    <2>4. QED
        BY <2>2, <2>3
<1>4. /\ p \in Seq(T) /\ \A x \in T : \E i \in DOMAIN p : p[i] = x
    <2>1. Calendar!Cardinality(T) = Cardinality(T)
        BY CalendarLibrary
    <2> HIDE DEF T
    <2>2. \A t : t \in Ascending(T) <=>
              /\ t \in [1..Calendar!Cardinality(T) -> T]
              /\ \A i, j \in DOMAIN t : i < j => t[i] < t[j]
        BY <2>1 DEF Ascending
    <2>3. Ascending(T) # {}
        BY <1>3, AscendingIs
    <2>4. p \in Ascending(T)
        BY <2>2, <2>3
    <2> HIDE DEF p
    <2>5. QED
        BY <1>3, <2>4, AscendingIs
<1> HIDE DEF p
<1>5. \A n \in DOMAIN p : p[n] \in T /\ s[p[n]] \in CalendarEvents
    BY <1>2, <1>4
<1>6. KeptEvents \in Seq(CalendarEvents) /\ DOMAIN KeptEvents = DOMAIN p
      /\ \A n \in DOMAIN p : KeptEvents[n] = s[p[n]]
    <2>1. DOMAIN p = 1..Len(p) /\ Len(p) \in Nat
        BY <1>4
    <2>2. QED
        BY <1>1, <1>5, <2>1
<1>7. \A n \in DOMAIN KeptEvents : Calendar!EventKind(KeptEvents[n]) # "none"
    BY <1>5, <1>6
<1>8. \A i \in DOMAIN s : Calendar!EventKind(s[i]) # "none" =>
          \E n \in DOMAIN KeptEvents : KeptEvents[n] = s[i]
    BY <1>4, <1>6
<1>9. QED
    BY <1>6, <1>7, <1>8 DEF s

(* The records.                                                            *)
CalendarRecord ==
    [event : CalendarEvents, kind : {"all_day", "meeting", "pending_invite"},
     overlaps : SUBSET Nat]

Clashes(i) == {k \in DOMAIN KeptEvents \ {i} : Calendar!Overlap(KeptEvents[i], KeptEvents[k])}

LEMMA RecordsAreThese ==
    ASSUME calendar \in Seq(CalendarEvents), Calendar!Day0 \in Int
    PROVE  /\ Calendar!Records \in Seq(CalendarRecord)
           /\ DOMAIN Calendar!Records = DOMAIN KeptEvents
           /\ \A i \in DOMAIN KeptEvents :
                 /\ Calendar!Records[i].event = KeptEvents[i]
                 /\ Calendar!Records[i].kind = Calendar!EventKind(KeptEvents[i])
                 /\ Calendar!Records[i].overlaps = {KeptEvents[j].start : j \in Clashes(i)}
<1> DEFINE D == DOMAIN KeptEvents
           over(i) == {KeptEvents[j].start : j \in Clashes(i)}
           rec(i) == [event |-> KeptEvents[i], kind |-> Calendar!EventKind(KeptEvents[i]),
                      overlaps |-> over(i)]
<1>1. KeptEvents \in Seq(CalendarEvents)
      /\ \A n \in D : Calendar!EventKind(KeptEvents[n]) # "none"
    BY KeptEventsAre
<1>2. Calendar!Records = [i \in D |-> rec(i)]
    BY DEF Calendar!Records, KeptEvents, Clashes
<1>3. \A i \in D : KeptEvents[i] \in CalendarEvents /\ KeptEvents[i].start \in Nat
    BY <1>1, CalendarConstants
<1>4. \A i \in D : over(i) \in SUBSET Nat
    BY <1>3 DEF Clashes
<1>5. \A i \in D : Calendar!EventKind(KeptEvents[i]) \in {"all_day", "meeting", "pending_invite"}
    BY <1>1, <1>3, EventKindIs
<1> HIDE DEF over
<1>6. \A i \in D : rec(i) \in CalendarRecord
    BY <1>3, <1>4, <1>5 DEF CalendarRecord
<1>7. D = 1..Len(KeptEvents) /\ Len(KeptEvents) \in Nat
    BY <1>1
<1>8. \A i \in D : /\ rec(i).event = KeptEvents[i]
                   /\ rec(i).kind = Calendar!EventKind(KeptEvents[i])
                   /\ rec(i).overlaps = over(i)
    OBVIOUS
<1> HIDE DEF rec, D
<1>9. Calendar!Records \in Seq(CalendarRecord) /\ DOMAIN Calendar!Records = D
      /\ \A i \in D : Calendar!Records[i] = rec(i)
    BY <1>2, <1>6, <1>7
<1>10. QED
    BY <1>8, <1>9 DEF D, over

(* A clash is marked on both sides and is one: in records R of a day o.    *)
TimedOn(e, o) == ~e.allDay /\ Calendar!Day(e.start) = o

Mutual(R, o) ==
    \A i \in DOMAIN R :
        LET clashing == {j \in DOMAIN R \ {i} :
                            /\ TimedOn(R[i].event, o) /\ TimedOn(R[j].event, o)
                            /\ Calendar!Hours(R[i].event) \cap Calendar!Hours(R[j].event) # {}}
        IN  /\ R[i].overlaps = {R[j].event.start : j \in clashing}
            /\ \A j \in clashing : R[i].event.start \in R[j].overlaps

LEMMA RecordsClash ==
    ASSUME calendar \in Seq(CalendarEvents), Calendar!Day0 \in Int
    PROVE  Mutual(Calendar!Records, Calendar!Day0)
<1> DEFINE D == DOMAIN KeptEvents
           E(i) == KeptEvents[i]
           R == Calendar!Records
           o == Calendar!Day0
           Clashing(i) == {j \in DOMAIN R \ {i} :
                              /\ TimedOn(R[i].event, o) /\ TimedOn(R[j].event, o)
                              /\ Calendar!Hours(R[i].event) \cap Calendar!Hours(R[j].event) # {}}
<1>1. /\ DOMAIN R = D
      /\ \A i \in D : R[i].event = E(i) /\ R[i].overlaps = {E(j).start : j \in Clashes(i)}
    BY RecordsAreThese
<1>2. \A i \in D : /\ E(i).start \in Nat /\ E(i).end \in Nat /\ E(i).start < E(i).end
    BY KeptEventsAre, CalendarConstants
<1> HIDE DEF D, E, R, o
<1>3. \A i, j \in D : Calendar!Overlap(E(i), E(j)) <=>
          /\ TimedOn(E(i), o) /\ TimedOn(E(j), o)
          /\ Calendar!Hours(E(i)) \cap Calendar!Hours(E(j)) # {}
    <2> SUFFICES ASSUME NEW i \in D, NEW j \in D
                 PROVE  E(i).start < E(j).end /\ E(j).start < E(i).end
                            <=> Calendar!Hours(E(i)) \cap Calendar!Hours(E(j)) # {}
        BY DEF Calendar!Overlap, Calendar!Timed, TimedOn, o
    <2> DEFINE a == E(i).start
               b == E(i).end
               c == E(j).start
               d == E(j).end
    <2>1. a \in Int /\ b \in Int /\ c \in Int /\ d \in Int /\ a < b /\ c < d
        BY <1>2
    <2>2. Calendar!Hours(E(i)) = a..(b - 1) /\ Calendar!Hours(E(j)) = c..(d - 1)
        BY DEF Calendar!Hours
    <2> HIDE DEF a, b, c, d
    <2>3. ASSUME a < d, c < b PROVE (a..(b - 1)) \cap (c..(d - 1)) # {}
        <3>1. CASE a <= c
            <4>1. c \in (a..(b - 1)) \cap (c..(d - 1))
                BY <2>1, <2>3, <3>1
            <4>2. QED
                BY <4>1
        <3>2. CASE c < a
            <4>1. a \in (a..(b - 1)) \cap (c..(d - 1))
                BY <2>1, <2>3, <3>2
            <4>2. QED
                BY <4>1
        <3>3. QED
            BY <2>1, <3>1, <3>2
    <2>4. ASSUME NEW h \in (a..(b - 1)) \cap (c..(d - 1)) PROVE a < d /\ c < b
        BY <2>1
    <2>5. a < d /\ c < b <=> Calendar!Hours(E(i)) \cap Calendar!Hours(E(j)) # {}
        BY <2>2, <2>3, <2>4
    <2>6. QED
        BY <2>5 DEF a, b, c, d
<1>4. \A i \in D : Clashing(i) = Clashes(i)
    <2>1. \A i \in D : Clashes(i) = {k \in D \ {i} : Calendar!Overlap(E(i), E(k))}
        BY DEF Clashes, D, E
    <2>2. QED
        BY <1>1, <1>3, <2>1
<1>5. \A i, j \in D : j \in Clashes(i) => i \in Clashes(j)
    <2>1. \A i \in D : Clashes(i) = {k \in D \ {i} : Calendar!Overlap(E(i), E(k))}
        BY DEF Clashes, D, E
    <2>2. \A i, j \in D : Calendar!Overlap(E(i), E(j)) => Calendar!Overlap(E(j), E(i))
        BY DEF Calendar!Overlap
    <2>3. QED
        BY <2>1, <2>2
<1>6. \A i \in D : Clashes(i) \subseteq D
    BY DEF Clashes, D
<1>7. \A i \in DOMAIN R :
          /\ R[i].overlaps = {R[j].event.start : j \in Clashing(i)}
          /\ \A j \in Clashing(i) : R[i].event.start \in R[j].overlaps
    <2> SUFFICES ASSUME NEW i \in D
                 PROVE  /\ R[i].overlaps = {R[j].event.start : j \in Clashing(i)}
                        /\ \A j \in Clashing(i) : R[i].event.start \in R[j].overlaps
        BY <1>1
    <2>1. Clashing(i) = Clashes(i) /\ Clashes(i) \subseteq D
        BY <1>4, <1>6
    <2> HIDE DEF Clashing
    <2>2. R[i].overlaps = {R[j].event.start : j \in Clashing(i)}
        BY <1>1, <2>1
    <2>3. \A j \in Clashing(i) : R[i].event.start \in R[j].overlaps
        BY <1>1, <1>5, <2>1
    <2>4. QED
        BY <2>2, <2>3
<1>8. QED
    BY <1>7 DEF Mutual, R, o

(* Everything of the day is in the answer, and its record in the report.   *)
ShownIn(R, e, kinds) == \E i \in DOMAIN R : R[i].event = e /\ R[i].kind \in kinds

HasAll(cal, R, o) ==
    \A i \in DOMAIN cal :
        LET e == cal[i]
        IN  /\ e.status # "declined" /\ Calendar!Day(e.start) = o =>
                    ShownIn(R, e, {"all_day", "meeting", "pending_invite"})
            /\ e.status = "needsAction" /\ Lookahead >= 3
                    /\ Calendar!PreviousWeekday(Calendar!Day(e.start)) = o =>
                        ShownIn(R, e, {"pending_invite"})

LEMMA RecordsHaveAll ==
    ASSUME calendar \in Seq(CalendarEvents), Calendar!Day0 \in Nat,
           Cardinality(Calendar!Asked) < MaxResults
    PROVE  HasAll(calendar, Calendar!Records, Calendar!Day0)
<1> DEFINE all == {"all_day", "meeting", "pending_invite"}
           invite == {"pending_invite"}
           R == Calendar!Records
<1> SUFFICES ASSUME NEW i \in DOMAIN calendar
             PROVE  /\ calendar[i].status # "declined"
                          /\ Calendar!Day(calendar[i].start) = Calendar!Day0 =>
                            ShownIn(R, calendar[i], all)
                    /\ calendar[i].status = "needsAction" /\ Lookahead >= 3
                          /\ Calendar!PreviousWeekday(Calendar!Day(calendar[i].start))
                                 = Calendar!Day0 =>
                            ShownIn(R, calendar[i], invite)
    BY Zenon DEF HasAll
<1> DEFINE e == calendar[i]
           d == Calendar!Day(e.start)
           o == Calendar!Day0
<1>1. e \in CalendarEvents
    OBVIOUS
<1>2. /\ e.start \in Nat /\ e.end \in Nat /\ e.start < e.end
      /\ d \in Nat /\ 24 * d <= e.start /\ e.start < 24 * (d + 1)
    BY <1>1, CalendarConstants, CalendarDays
<1>3. o \in Nat /\ Lookahead \in Nat
    BY CalendarConstants
<1> HIDE DEF d, o
<1>4. d >= o /\ d <= o + Lookahead => i \in Calendar!Asked
    <2> SUFFICES ASSUME d >= o, d <= o + Lookahead PROVE i \in Calendar!Asked
        OBVIOUS
    <2>1. e.end > 24 * o /\ e.start < 24 * (o + Lookahead + 1)
        BY <1>2, <1>3
    <2>2. QED
        BY <2>1 DEF Calendar!Asked, Calendar!Horizon, o
<1>5. i \in Calendar!Asked /\ Calendar!EventKind(e) # "none" =>
          ShownIn(R, e, {Calendar!EventKind(e)})
    <2> SUFFICES ASSUME i \in Calendar!Asked, Calendar!EventKind(e) # "none"
                 PROVE  ShownIn(R, e, {Calendar!EventKind(e)})
        OBVIOUS
    <2>1. PICK n \in DOMAIN Calendar!Answer : Calendar!Answer[n] = e
        BY AnswerIs
    <2>2. PICK k \in DOMAIN KeptEvents : KeptEvents[k] = e
        BY <2>1, KeptEventsAre
    <2>3. /\ k \in DOMAIN R /\ R[k].event = e
          /\ R[k].kind = Calendar!EventKind(e)
        <3>1. Calendar!Day0 \in Int
            OBVIOUS
        <3>2. QED
            BY <2>2, <3>1, RecordsAreThese
    <2>4. QED
        BY <2>3 DEF ShownIn
<1>6. Calendar!EventKind(e) \in {"all_day", "meeting", "pending_invite", "none"}
    BY <1>1, EventKindIs
<1>7. ASSUME e.status # "declined", d = o
      PROVE  ShownIn(R, e, all)
    <2>1. Calendar!EventKind(e) # "none"
        BY <1>1, <1>7, EventKindIs DEF d, o
    <2>2. i \in Calendar!Asked
        BY <1>2, <1>3, <1>4, <1>7
    <2>3. ShownIn(R, e, {Calendar!EventKind(e)})
        BY <1>5, <2>1, <2>2
    <2>4. QED
        BY <1>6, <2>1, <2>3 DEF ShownIn
<1>8. ASSUME e.status = "needsAction", Lookahead >= 3, Calendar!PreviousWeekday(d) = o
      PROVE  ShownIn(R, e, invite)
    <2>1. o \in (d - 3)..(d - 1)
        BY <1>2, <1>8, SameWeekday
    <2>2. d > o /\ d <= o + 3 /\ d <= o + Lookahead
        BY <1>2, <1>3, <1>8, <2>1
    <2>3. Calendar!EventKind(e) = "pending_invite"
        BY <1>1, <1>8, <2>2, EventKindIs DEF d, o
    <2>4. i \in Calendar!Asked
        BY <1>2, <1>3, <1>4, <2>2
    <2>5. QED
        BY <1>5, <2>3, <2>4
<1> HIDE DEF all, invite, R
<1>9. e.status # "declined" /\ Calendar!Day(e.start) = Calendar!Day0 => ShownIn(R, e, all)
    BY <1>7 DEF d, o
<1>10. ASSUME e.status = "needsAction", Lookahead >= 3,
              Calendar!PreviousWeekday(Calendar!Day(e.start)) = Calendar!Day0
       PROVE  ShownIn(R, e, invite)
    BY <1>8, <1>10 DEF d, o
<1>11. QED
    BY <1>9, <1>10

(* What is true at any time.                                               *)
CalendarTyped ==
    /\ calendar \in Seq(CalendarEvents) /\ Len(calendar) <= MaxEvents
    /\ phase \in {"idle", "query", "done"} /\ now \in Moments
    /\ section \in [errors : SUBSET {"get_events"}, callsOk : BOOLEAN,
                    records : Seq(CalendarRecord)]

CalendarFact ==
    /\ CalendarTyped
    /\ phase # "done" => section.records = <<>>
    /\ Mutual(section.records, Calendar!Day0)
    /\ phase = "done" /\ section.errors = {} /\ Cardinality(Calendar!Asked) < MaxResults =>
           HasAll(calendar, section.records, Calendar!Day0)

CalendarInv == collector = "calendar_day" => CalendarFact

LEMMA NothingClashes ==
    ASSUME NEW o
    PROVE  Mutual(<<>>, o)
<1>1. DOMAIN <<>> = {}
    OBVIOUS
<1>2. QED
    BY <1>1 DEF Mutual

LEMMA InitCalendar == Init => CalendarInv
<1> SUFFICES ASSUME Init PROVE CalendarFact
    BY DEF CalendarInv
<1>1. /\ calendar = <<>> /\ phase = "idle" /\ now = Calendar!Min(Moments)
      /\ section = [errors |-> {}, callsOk |-> FALSE, records |-> <<>>]
    BY DEF Init, Calendar!Init, Calendar!NewSection
<1>2. now \in Moments
    <2>1. Moments \in SUBSET Int /\ Moments # {} /\ IsFiniteSet(Moments)
        BY CalendarConstants
    <2>2. QED
        BY <1>1, <2>1, MinIs, CalendarLibrary
<1>3. section \in [errors : SUBSET {"get_events"}, callsOk : BOOLEAN,
                   records : Seq(CalendarRecord)]
    BY <1>1
<1>4. calendar \in Seq(CalendarEvents) /\ Len(calendar) <= MaxEvents
    BY <1>1, CalendarConstants
<1>5. Mutual(section.records, Calendar!Day0)
    BY <1>1, NothingClashes
<1>6. QED
    BY <1>1, <1>2, <1>3, <1>4, <1>5 DEF CalendarFact, CalendarTyped

LEMMA CalendarEnters ==
    ASSUME CalendarFact, Calendar!Enter \/ Calendar!Begin
    PROVE  CalendarFact'
<1>1. section' = section /\ phase = "idle" /\ phase' \in {"idle", "query"}
    BY DEF Calendar!Enter, Calendar!Begin
<1>2. section'.records = <<>>
    BY <1>1 DEF CalendarFact
<1>3. CalendarTyped'
    <2>1. now' \in Moments
        BY DEF CalendarFact, CalendarTyped, Calendar!Enter, Calendar!Begin
    <2>2. calendar' \in Seq(CalendarEvents) /\ Len(calendar') <= MaxEvents
        <3>1. CASE Calendar!Enter
            <4>1. PICK e \in CalendarEvents : calendar' = Append(calendar, e)
                BY <3>1 DEF Calendar!Enter
            <4>2. calendar \in Seq(CalendarEvents) /\ Len(calendar) < MaxEvents
                BY <3>1 DEF CalendarFact, CalendarTyped, Calendar!Enter
            <4>3. QED
                BY <4>1, <4>2, CalendarConstants
        <3>2. CASE Calendar!Begin
            BY <3>2 DEF CalendarFact, CalendarTyped, Calendar!Begin
        <3>3. QED
            BY <3>1, <3>2
    <2>3. QED
        BY <1>1, <2>1, <2>2 DEF CalendarFact, CalendarTyped
<1>4. Mutual(section'.records, Calendar!Day0')
    BY <1>2, NothingClashes
<1>5. QED
    BY <1>1, <1>2, <1>3, <1>4 DEF CalendarFact

LEMMA CalendarAnswered ==
    ASSUME CalendarFact, Calendar!Answered
    PROVE  CalendarFact'
<1>1. /\ phase = "query" /\ phase' = "done" /\ calendar' = calendar /\ now' = now
      /\ section' = Calendar!AddRecords(Calendar!CountOk(section), Calendar!Records)
    BY DEF Calendar!Answered
<1>2. CalendarTyped /\ section.records = <<>>
    BY <1>1 DEF CalendarFact
<1>3. Calendar!Day0 \in Nat
    BY <1>2, CalendarConstants, ReportDayIs DEF CalendarTyped, Calendar!Day0
<1>4. Calendar!Records \in Seq(CalendarRecord) /\ calendar \in Seq(CalendarEvents)
    BY <1>2, <1>3, RecordsAreThese DEF CalendarTyped
<1>5. /\ Mutual(Calendar!Records, Calendar!Day0)
      /\ Cardinality(Calendar!Asked) < MaxResults =>
             HasAll(calendar, Calendar!Records, Calendar!Day0)
    BY <1>3, <1>4, RecordsClash, RecordsHaveAll
<1> DEFINE R == Calendar!Records
<1> HIDE DEF R
<1>6. /\ section' \in [errors : SUBSET {"get_events"}, callsOk : BOOLEAN,
                       records : Seq(CalendarRecord)]
      /\ section'.records = R
    <2>1. section' = [[section EXCEPT !.callsOk = TRUE] EXCEPT !.records = @ \o R]
        BY <1>1 DEF Calendar!AddRecords, Calendar!CountOk, R
    <2>2. R \in Seq(CalendarRecord)
        BY <1>4 DEF R
    <2>3. <<>> \o R = R
        BY <2>2
    <2>4. section' = [[section EXCEPT !.callsOk = TRUE] EXCEPT !.records = R]
        BY <1>2, <2>1, <2>3 DEF CalendarTyped
    <2>5. QED
        BY <1>2, <2>2, <2>4 DEF CalendarTyped
<1>7. CalendarTyped'
    BY <1>1, <1>2, <1>6 DEF CalendarTyped
<1>8. Calendar!Day0' = Calendar!Day0
    BY <1>1 DEF Calendar!Day0
<1>9. Calendar!Asked' = Calendar!Asked
    BY <1>1, <1>8 DEF Calendar!Asked, Calendar!Horizon
<1>10. Mutual(section.records, Calendar!Day0)'
    BY <1>5, <1>6, <1>8 DEF R
<1>11. Cardinality(Calendar!Asked)' < MaxResults => HasAll(calendar, section.records, Calendar!Day0)'
    BY <1>1, <1>5, <1>6, <1>8, <1>9 DEF R
<1>12. QED
    BY <1>1, <1>7, <1>10, <1>11 DEF CalendarFact

LEMMA CalendarFails ==
    ASSUME CalendarFact, Calendar!Fails
    PROVE  CalendarFact'
<1>1. /\ phase = "query" /\ phase' = "done" /\ calendar' = calendar /\ now' = now
      /\ section' = [section EXCEPT !.errors = @ \cup {"get_events"}]
    BY DEF Calendar!Fails, Calendar!NoteError
<1>2. CalendarTyped /\ section.records = <<>>
    BY <1>1 DEF CalendarFact
<1>3. section' \in [errors : SUBSET {"get_events"}, callsOk : BOOLEAN,
                    records : Seq(CalendarRecord)]
      /\ section'.records = <<>> /\ section'.errors # {}
    BY <1>1, <1>2 DEF CalendarTyped
<1>4. CalendarTyped'
    BY <1>1, <1>2, <1>3 DEF CalendarTyped
<1>5. Mutual(section.records, Calendar!Day0)'
    BY <1>3, NothingClashes
<1>6. QED
    BY <1>1, <1>3, <1>4, <1>5 DEF CalendarFact

LEMMA CalendarStutters ==
    ASSUME CalendarFact, UNCHANGED Calendar!vars
    PROVE  CalendarFact'
<1>1. UNCHANGED <<calendar, phase, now, section>>
    BY DEF Calendar!vars
<1>2. Calendar!Day0' = Calendar!Day0
    BY <1>1 DEF Calendar!Day0
<1>3. Calendar!Asked' = Calendar!Asked
    BY <1>1, <1>2 DEF Calendar!Asked, Calendar!Horizon
<1>4. QED
    BY <1>1, <1>2, <1>3 DEF CalendarFact, CalendarTyped

LEMMA CalendarSteps ==
    ASSUME [Next]_vars, collector = "calendar_day"
    PROVE  Calendar!Next \/ UNCHANGED Calendar!vars
<1>1. CASE UNCHANGED vars
    BY <1>1 DEF vars, Calendar!vars
<1>2. CASE Next
    BY <1>2 DEF Next, Calendar!Next, IsGmail, IsDaily, IsIssue, IsNagios, Daily!Kinds, Issue!Kinds
<1>3. QED
    BY <1>1, <1>2

LEMMA NextCalendar == CalendarInv /\ [Next]_vars => CalendarInv'
<1> SUFFICES ASSUME CalendarInv, [Next]_vars, collector' = "calendar_day" PROVE CalendarFact'
    BY DEF CalendarInv
<1>1. collector = "calendar_day" /\ CalendarFact
    BY OneCollector DEF CalendarInv
<1>2. QED
    BY <1>1, CalendarSteps, CalendarEnters, CalendarAnswered, CalendarFails, CalendarStutters
       DEF Calendar!Next

(* Two records of the day share an hour if and only if each names the      *)
(* other's start, whatever is in the calendar: the quadratic pass over     *)
(* the meetings (_mark_overlaps) finds every clash and nothing else.       *)
THEOREM ClashesTheorem == Spec => []ClashesAreMutual
<1>1. CalendarInv => ClashesAreMutual
    <2> SUFFICES ASSUME Mutual(section.records, Calendar!Day0) PROVE Calendar!ClashesAreMutual
        BY DEF CalendarInv, CalendarFact, ClashesAreMutual
    <2>1. QED
        BY DEF Mutual, TimedOn, Calendar!Timed, Calendar!ClashesAreMutual
<1>2. QED
    BY InitCalendar, NextCalendar, <1>1, PTL DEF Spec

(* A report that was answered in full has every event of its day that was  *)
(* not declined, and every invite to answer for the next weekday, for any  *)
(* calendar, any day and any lookahead of three days or more.              *)
THEOREM DayTheorem == Spec => []DayIsComplete
<1>1. CalendarInv => DayIsComplete
    <2> SUFFICES ASSUME CalendarFact, phase = "done", Calendar!StatusOf(section) = "ok",
                        Len(Calendar!Answer) < MaxResults
                 PROVE  HasAll(calendar, section.records, Calendar!Day0)
        BY Zenon DEF CalendarInv, DayIsComplete, Calendar!DayIsComplete, HasAll, ShownIn, Calendar!Shown
    <2>1. section.errors = {}
        <3> DEFINE p == section.errors = {}
                   q == section.errors # {} /\ section.records = <<>> /\ ~section.callsOk
        <3>1. Calendar!StatusOf(section) = CASE p -> "ok" [] q -> "error" [] OTHER -> "partial"
            BY DEF Calendar!StatusOf
        <3>2. p \/ ~p
            OBVIOUS
        <3> HIDE DEF p, q
        <3>3. p
            BY <3>1, <3>2
        <3>4. QED
            BY <3>3 DEF p
    <2>2. Cardinality(Calendar!Asked) < MaxResults
        BY AnswerIs DEF CalendarFact, CalendarTyped
    <2>3. QED
        BY <2>1, <2>2 DEF CalendarFact
<1>2. QED
    BY InitCalendar, NextCalendar, <1>1, PTL DEF Spec

-----------------------------------------------------------------------------
(* Feeds and Jira issues.                                                  *)

LEMMA DailyLibrary ==
    ASSUME NEW S
    PROVE  /\ Daily!Cardinality(S) = Cardinality(S)
           /\ Daily!IsFiniteSet(S) <=> IsFiniteSet(S)
           /\ Daily!Min(S) = Min(S) /\ Daily!Max(S) = Max(S)
BY DEF Daily!Cardinality, Cardinality, Daily!IsFiniteSet, IsFiniteSet, Daily!Min, Min,
       Daily!Max, Max

LEMMA DailyConstants ==
    /\ Queries \in Nat \ {0} /\ Limit \in Nat \ {0} /\ MaxRecords \in Nat \ {0}
    /\ Moments \subseteq Nat \ {0} /\ Moments # {} /\ IsFiniteSet(Moments)
    /\ Daily!Constants
BY CollectorsAssumption, DailyLibrary DEF Daily!Constants

LEMMA SmallerOfTwo ==
    ASSUME NEW a \in Nat, NEW b \in Nat
    PROVE  Daily!Min({a, b}) = IF a <= b THEN a ELSE b
<1>1. Daily!Min({a, b}) = CHOOSE x \in {a, b} : \A y \in {a, b} : x <= y
    BY DEF Daily!Min
<1>2. \A x \in {a, b} : (\A y \in {a, b} : x <= y) <=> x = IF a <= b THEN a ELSE b
    OBVIOUS
<1>3. QED
    BY <1>1, <1>2

(* What an answer holds: of the matches, none twice, all of them or as     *)
(* many as the limit.                                                      *)
Matches(q) == {i \in DOMAIN items : items[i].query = q /\ items[i].at >= Daily!After(start)}

LEMMA DailyAnswerIs ==
    ASSUME NEW R, items \in Seq(R), NEW q
    PROVE  /\ Daily!Answer(q) \in Seq(Matches(q))
           /\ \/ Len(Daily!Answer(q)) = Limit
              \/ \A i \in Matches(q) : \E n \in DOMAIN Daily!Answer(q) : Daily!Answer(q)[n] = i
<1> DEFINE T == Matches(q)
           P == {e \in T \X T : e[1] > e[2]}
           m == Cardinality(T)
           order == CHOOSE s \in [1..Daily!Cardinality(T) -> T] :
                        \A i, j \in DOMAIN s : i < j => s[i] > s[j]
           k == Daily!Min({Limit, m})
<1>1. T \in SUBSET Int /\ IsFiniteSet(T)
    <2>1. T \in SUBSET (1..Len(items)) /\ Len(items) \in Nat
        BY DEF Matches
    <2>2. IsFiniteSet(1..Len(items))
        BY <2>1, FS_Interval
    <2> HIDE DEF T
    <2>3. IsFiniteSet(T)
        BY <2>1, <2>2, FS_Subset
    <2>4. QED
        BY <2>1, <2>3
<1>2. Daily!Answer(q) = SubSeq(order, 1, k)
    <2>1. Daily!Cardinality(T) = m
        BY DailyLibrary
    <2>2. Daily!Answer(q) = SubSeq(order, 1, Daily!Min({Limit, Daily!Cardinality(T)}))
        BY DEF Daily!Answer, Daily!InOrder, Matches
    <2> HIDE DEF order
    <2>3. QED
        BY <2>1, <2>2
<1>3. \A x, y \in T : <<x, y>> \in P <=> x > y
    OBVIOUS
<1>4. Sorts(T, P)
    <2>1. \A x \in T : x \in Int
        BY <1>1
    <2> HIDE DEF P, T
    <2>2. \A x \in T : <<x, x>> \notin P
        BY <1>3, <2>1
    <2>3. \A x, y \in T : x # y => <<x, y>> \in P \/ <<y, x>> \in P
        BY <1>3, <2>1
    <2>4. \A x, y, z \in T : <<x, y>> \in P /\ <<y, z>> \in P => <<x, z>> \in P
        BY <1>3, <2>1
    <2>5. QED
        BY <2>2, <2>3, <2>4 DEF Sorts
<1> HIDE DEF P, T
<1>5. order \in Sorted(T, P)
    <2>1. \A s : s \in Sorted(T, P) <=>
             /\ s \in [1..m -> T] /\ \A i, j \in DOMAIN s : i < j => s[i] > s[j]
        BY <1>3 DEF Sorted
    <2>2. Sorted(T, P) # {}
        BY <1>1, <1>4, SortedIsThere
    <2>3. Daily!Cardinality(T) = m
        BY DailyLibrary
    <2>4. QED
        BY <2>1, <2>2, <2>3
<1> HIDE DEF order
<1>6. /\ order \in Seq(T) /\ Len(order) = m
      /\ \A x \in T : \E i \in DOMAIN order : order[i] = x
    BY <1>1, <1>4, <1>5, SortedIsAll
<1>7. m \in Nat /\ Limit \in Nat
    BY <1>1, FS_CardinalityType, DailyConstants
<1> HIDE DEF m
<1>8. k = IF Limit <= m THEN Limit ELSE m
    BY <1>7, SmallerOfTwo
<1> HIDE DEF k
<1>9. k \in 0..Len(order)
    BY <1>6, <1>7, <1>8
<1>10. /\ Daily!Answer(q) \in Seq(T) /\ Len(Daily!Answer(q)) = k
       /\ \A i \in 1..k : Daily!Answer(q)[i] = order[i]
    BY <1>2, <1>6, <1>9, PrefixIs
<1>11. k = Limit \/ \A i \in T : \E n \in DOMAIN Daily!Answer(q) : Daily!Answer(q)[n] = i
    <2> SUFFICES ASSUME k # Limit, NEW i \in T
                 PROVE  \E n \in DOMAIN Daily!Answer(q) : Daily!Answer(q)[n] = i
        OBVIOUS
    <2>1. PICK n \in DOMAIN order : order[n] = i
        BY <1>6
    <2>2. n \in 1..k /\ n \in DOMAIN Daily!Answer(q)
        BY <1>6, <1>7, <1>8, <1>10, <2>1
    <2>3. QED
        BY <1>10, <2>1, <2>2
<1>12. QED
    BY <1>10, <1>11 DEF T

LEMMA TakenIs ==
    ASSUME NEW S, NEW a \in Seq(S), Len(section.records) \in 0..MaxRecords
    PROVE  /\ Daily!Taken(a) \in Seq(S)
           /\ Len(section.records) + Len(Daily!Taken(a)) <= MaxRecords
           /\ \/ Len(section.records) + Len(Daily!Taken(a)) = MaxRecords
              \/ Daily!Taken(a) = a
<1> DEFINE room == MaxRecords - Len(section.records)
           k == Daily!Min({room, Len(a)})
<1>1. room \in Nat /\ Len(a) \in Nat /\ MaxRecords \in Nat /\ Len(section.records) \in Nat
    BY DailyConstants
<1>2. Daily!Taken(a) = SubSeq(a, 1, k)
    BY DEF Daily!Taken
<1>3. k = IF room <= Len(a) THEN room ELSE Len(a)
    BY <1>1, SmallerOfTwo
<1> HIDE DEF k
<1>4. k \in 0..Len(a)
    BY <1>1, <1>3
<1>5. /\ Daily!Taken(a) \in Seq(S) /\ Len(Daily!Taken(a)) = k
      /\ \A i \in 1..k : Daily!Taken(a)[i] = a[i]
    BY <1>2, <1>4, PrefixIs
<1>6. k = Len(a) => Daily!Taken(a) = a
    BY <1>5
<1>7. room = MaxRecords - Len(section.records)
    OBVIOUS
<1> DEFINE l == Len(section.records)
           n == Len(a)
<1>8. /\ room \in Nat /\ n \in Nat /\ MaxRecords \in Nat /\ l \in Nat
      /\ room = MaxRecords - l /\ k = IF room <= n THEN room ELSE n
    BY <1>1, <1>3, <1>7
<1> HIDE DEF room, l, n
<1>9. l + k <= MaxRecords /\ (l + k = MaxRecords \/ k = n)
    BY <1>8
<1>10. QED
    BY <1>5, <1>6, <1>9 DEF l, n

(* What is true of the run there is, for the queries asked so far.         *)
DailyItem == [query : 1..Queries, at : Moments]

DailyTyped ==
    /\ now \in Moments /\ phase \in {"idle", "query"}
    /\ items \in Seq(DailyItem)
    /\ query \in 1..(Queries + 1) /\ (phase = "query" => query <= Queries)
    /\ section \in [errors : SUBSET (1..Queries), callsOk : BOOLEAN, records : Seq(DOMAIN items)]
    /\ Len(section.records) <= MaxRecords
    /\ start \in Moments \cup {0} /\ before \in Moments \cup {0}
    /\ start <= now /\ (before < start \/ start = 0)

RecordsAreAsked ==
    \A j \in DOMAIN section.records : items[section.records[j]].query < query

Covered(q) ==
    \A i \in Matches(q) : items[i].at < start =>
        \/ Daily!Recorded(i)
        \/ q \in section.errors
        \/ Cardinality(Daily!RecordsOf(q)) = Limit
        \/ Len(section.records) = MaxRecords

DailyFact ==
    /\ DailyTyped /\ RecordsAreAsked
    /\ \A q \in 1..Queries : q < query => Covered(q)
    /\ phase = "idle" => start = 0 \/ query = Queries + 1
    /\ start = 0 => before = 0
    /\ phase = "query" => start > 0

DailyInv == collector \in Daily!Kinds => DailyFact

LEMMA DailyTimes ==
    ASSUME DailyTyped
    PROVE  /\ now \in Nat /\ now > 0 /\ start \in Nat /\ before \in Nat
           /\ Queries \in Nat /\ MaxRecords \in Nat /\ Limit \in Nat
           /\ Len(section.records) \in Nat
           /\ \A i \in DOMAIN items : items[i].at \in Nat /\ items[i].query \in 1..Queries
           /\ \A j \in DOMAIN section.records : section.records[j] \in DOMAIN items
<1>1. /\ Queries \in Nat \ {0} /\ Limit \in Nat \ {0} /\ MaxRecords \in Nat \ {0}
      /\ Moments \subseteq Nat \ {0}
    BY DailyConstants
<1>2. now \in Nat /\ now > 0 /\ start \in Nat /\ before \in Nat
    BY <1>1 DEF DailyTyped
<1>3. \A i \in DOMAIN items : items[i] \in DailyItem
    BY DEF DailyTyped
<1>4. \A i \in DOMAIN items : items[i].at \in Nat /\ items[i].query \in 1..Queries
    BY <1>1, <1>3 DEF DailyItem
<1>5. section.records \in Seq(DOMAIN items)
    BY DEF DailyTyped
<1>6. QED
    BY <1>1, <1>2, <1>4, <1>5

LEMMA InitDaily == Init => DailyInv
<1> SUFFICES ASSUME Init PROVE DailyFact
    BY DEF DailyInv
<1>1. /\ now = Daily!Min(Moments) /\ items = <<>> /\ phase = "idle" /\ query = 1
      /\ section = [errors |-> {}, callsOk |-> FALSE, records |-> <<>>]
      /\ start = 0 /\ before = 0
    BY DEF Init, Daily!Init, Daily!NewSection
<1>2. now \in Moments /\ now \in Nat /\ Queries \in Nat /\ Queries >= 1 /\ MaxRecords \in Nat
    <2>1. Moments \in SUBSET Int /\ Moments # {} /\ IsFiniteSet(Moments) /\ Moments \subseteq Nat
        BY DailyConstants
    <2>2. now = Min(Moments)
        BY <1>1, DailyLibrary
    <2>3. Min(Moments) \in Moments
        BY <2>1, MinIs
    <2>4. Queries \in Nat \ {0} /\ MaxRecords \in Nat \ {0}
        BY DailyConstants
    <2>5. Queries \in Nat /\ Queries >= 1 /\ MaxRecords \in Nat
        BY <2>4
    <2>6. now \in Moments
        BY <2>2, <2>3
    <2>7. now \in Nat
        BY <2>1, <2>6
    <2>8. QED
        BY <2>5, <2>6, <2>7
<1>3. section \in [errors : SUBSET (1..Queries), callsOk : BOOLEAN, records : Seq(DOMAIN items)]
    BY <1>1
<1>4. DailyTyped
    BY <1>1, <1>2, <1>3 DEF DailyTyped
<1>5. RecordsAreAsked
    BY <1>1 DEF RecordsAreAsked
<1>6. QED
    BY <1>1, <1>4, <1>5 DEF DailyFact

(* What appears while a run is under way is too late for it.               *)
LEMMA DailyAppear ==
    ASSUME DailyFact, NEW q \in 1..Queries, Daily!Appear(q)
    PROVE  DailyFact'
<1> DEFINE e == [query |-> q, at |-> now]
           n == Len(items)
<1>1. /\ items' = Append(items, e)
      /\ UNCHANGED <<collector, now, phase, query, section, start, before>>
    BY DEF Daily!Appear
<1>2. DailyTyped
    BY DEF DailyFact
<1>3. /\ items \in Seq(DailyItem) /\ n \in Nat
      /\ e \in DailyItem /\ e.at = now
    BY <1>2 DEF DailyTyped, DailyItem
<1> HIDE DEF e
<1>4. /\ items' \in Seq(DailyItem) /\ n \in Nat
      /\ DOMAIN items = 1..n /\ DOMAIN items' = 1..(n + 1)
      /\ \A i \in 1..n : items'[i] = items[i]
      /\ items'[n + 1] = e
    BY <1>1, <1>3
<1> HIDE DEF n
<1>5. section.records \in Seq(DOMAIN items')
    <2>1. DOMAIN items \subseteq DOMAIN items'
        BY <1>4
    <2>2. section.records \in Seq(DOMAIN items)
        BY <1>2 DEF DailyTyped
    <2>3. QED
        BY <2>1, <2>2, SeqMonotonic
<1>6. DailyTyped'
    <2>1. section' \in [errors : SUBSET (1..Queries), callsOk : BOOLEAN,
                        records : Seq(DOMAIN items')]
        BY <1>1, <1>2, <1>5 DEF DailyTyped
    <2>2. QED
        BY <1>1, <1>2, <1>4, <2>1 DEF DailyTyped
<1>7. \A j \in DOMAIN section.records :
          /\ section.records[j] \in 1..n
          /\ items'[section.records[j]] = items[section.records[j]]
    BY <1>2, <1>4, DailyTimes
<1>8. RecordsAreAsked'
    BY <1>1, <1>7 DEF DailyFact, RecordsAreAsked
<1>9. ASSUME NEW r \in 1..Queries, r < query PROVE Covered(r)'
    <2>1. Covered(r)
        BY <1>9 DEF DailyFact
    <2>2. Daily!After(start)' = Daily!After(start)
        BY <1>1 DEF Daily!After
    <2>3. Daily!RecordsOf(r)' = Daily!RecordsOf(r)
        BY <1>1, <1>7 DEF Daily!RecordsOf
    <2>4. \A i : Daily!Recorded(i)' <=> Daily!Recorded(i)
        BY <1>1 DEF Daily!Recorded
    <2> SUFFICES ASSUME NEW i \in Matches(r)', items'[i].at < start
                 PROVE  \/ Daily!Recorded(i)
                        \/ r \in section.errors
                        \/ Cardinality(Daily!RecordsOf(r)) = Limit
                        \/ Len(section.records) = MaxRecords
        BY <1>1, <2>3, <2>4 DEF Covered
    <2>5. i \in 1..(n + 1) /\ items'[i].query = r /\ items'[i].at >= Daily!After(start)
        BY <1>4, <2>2 DEF Matches
    <2>6. i # n + 1
        <3>1. now \in Nat /\ start \in Nat /\ start <= now
            BY <1>2, DailyTimes DEF DailyTyped
        <3>2. QED
            BY <1>3, <1>4, <3>1
    <2>7. i \in 1..n
        BY <1>4, <2>5, <2>6
    <2>8. i \in Matches(r) /\ items[i].at < start
        BY <1>4, <2>5, <2>7 DEF Matches
    <2>9. QED
        BY <2>1, <2>8 DEF Covered
<1>10. QED
    BY <1>1, <1>6, <1>8, <1>9 DEF DailyFact

LEMMA DailyBegins ==
    ASSUME DailyFact, Daily!Begin
    PROVE  DailyFact'
<1>1. /\ phase = "idle" /\ start < now /\ phase' = "query" /\ query' = 1
      /\ section' = [errors |-> {}, callsOk |-> FALSE, records |-> <<>>]
      /\ start' = now /\ before' = start
      /\ UNCHANGED <<collector, now, items>>
    BY DEF Daily!Begin, Daily!NewSection
<1>2. DailyTyped
    BY DEF DailyFact
<1>3. /\ now \in Nat /\ now > 0 /\ start \in Nat /\ before \in Nat
      /\ Queries \in Nat /\ Queries >= 1 /\ MaxRecords \in Nat
    BY <1>2, DailyTimes, DailyConstants
<1>4. section' \in [errors : SUBSET (1..Queries), callsOk : BOOLEAN, records : Seq(DOMAIN items)]
    BY <1>1
<1>5. DailyTyped'
    BY <1>1, <1>2, <1>3, <1>4 DEF DailyTyped
<1>6. RecordsAreAsked'
    BY <1>1 DEF RecordsAreAsked
<1>7. \A q \in 1..Queries : ~ (q < query')
    BY <1>1, <1>3
<1>8. start' > 0 /\ phase' # "idle"
    BY <1>1, <1>3
<1>9. (start' = 0 => before' = 0)
    BY <1>3, <1>8
<1>10. QED
    BY <1>5, <1>6, <1>7, <1>8, <1>9 DEF DailyFact

LEMMA DailyClock ==
    ASSUME DailyFact, Daily!Clock
    PROVE  DailyFact'
<1>1. /\ phase = "idle" /\ now' = Daily!Min({m \in Moments : m > now}) /\ now < Daily!Max(Moments)
      /\ UNCHANGED <<collector, items, phase, query, section, start, before>>
    BY DEF Daily!Clock
<1>2. DailyTyped
    BY DEF DailyFact
<1> DEFINE S == {m \in Moments : m > now}
<1>3. now' \in Moments /\ now' > now
    <2>1. Moments \in SUBSET Int /\ Moments # {} /\ IsFiniteSet(Moments)
        BY DailyConstants
    <2>2. Max(Moments) \in Moments
        BY <2>1, MaxIs
    <2>3. now < Max(Moments)
        BY <1>1, DailyLibrary
    <2>4. Max(Moments) \in S
        BY <2>2, <2>3
    <2>5. IsFiniteSet(S)
        BY <2>1, FS_Subset
    <2>6. S # {} /\ S \in SUBSET Int
        BY <2>1, <2>4
    <2>7. now' = Min(S)
        BY <1>1, DailyLibrary
    <2>8. Min(S) \in S
        <3> HIDE DEF S
        <3>1. QED
            BY <2>5, <2>6, MinIs
    <2>9. QED
        BY <2>7, <2>8
<1>4. start <= now'
    <2>1. start \in Nat /\ now \in Nat /\ start <= now /\ now' \in Nat
        BY <1>2, <1>3, DailyTimes, DailyConstants DEF DailyTyped
    <2>2. QED
        BY <1>3, <2>1
<1>5. DailyTyped'
    BY <1>1, <1>2, <1>3, <1>4 DEF DailyTyped
<1>6. RecordsAreAsked'
    BY <1>1 DEF DailyFact, RecordsAreAsked
<1>7. \A q : Covered(q)' <=> Covered(q)
    BY <1>1 DEF Covered, Matches, Daily!After, Daily!Recorded, Daily!RecordsOf
<1>8. QED
    BY <1>1, <1>5, <1>6, <1>7 DEF DailyFact

(* An answer covers its query, and leaves the queries before it covered.   *)
LEMMA DailyAnswered ==
    ASSUME DailyFact, Daily!Answered
    PROVE  DailyFact'
<1> DEFINE a == Daily!Answer(query)
           t == Daily!Taken(a)
           l == Len(section.records)
<1>1. /\ phase = "query" /\ query' = query + 1
      /\ phase' = IF query = Queries THEN "idle" ELSE "query"
      /\ UNCHANGED <<collector, now, items, start, before>>
      /\ section' = [[section EXCEPT !.callsOk = TRUE] EXCEPT !.records = @ \o t]
    BY DEF Daily!Answered, Daily!NextQuery, Daily!AddRecords, Daily!CountOk
<1>2. DailyTyped /\ RecordsAreAsked
    BY DEF DailyFact
<1>3. /\ items \in Seq(DailyItem) /\ section.records \in Seq(DOMAIN items) /\ l \in Nat
      /\ l <= MaxRecords /\ MaxRecords \in Nat /\ Limit \in Nat
      /\ query \in 1..Queries /\ Queries \in Nat
    BY <1>1, <1>2, DailyTimes DEF DailyTyped
<1>4. /\ a \in Seq(Matches(query))
      /\ \/ Len(a) = Limit
         \/ \A i \in Matches(query) : \E n \in DOMAIN a : a[n] = i
    BY <1>3, DailyAnswerIs
<1> HIDE DEF a
<1>5. /\ t \in Seq(Matches(query)) /\ l + Len(t) <= MaxRecords
      /\ l + Len(t) = MaxRecords \/ t = a
    <2>1. Len(section.records) \in 0..MaxRecords
        BY <1>3
    <2>2. QED
        BY <1>4, <2>1, TakenIs
<1>6. Matches(query) \subseteq DOMAIN items /\ \A i \in Matches(query) : items[i].query = query
    BY DEF Matches
<1> HIDE DEF t
<1>7. t \in Seq(DOMAIN items) /\ \A j \in DOMAIN t : items[t[j]].query = query
    <2>1. t \in Seq(DOMAIN items)
        BY <1>5, <1>6, SeqMonotonic
    <2>2. \A j \in DOMAIN t : t[j] \in Matches(query)
        BY <1>5
    <2>3. QED
        BY <1>6, <2>1, <2>2
<1> DEFINE recs == section.records \o t
<1>8. /\ recs \in Seq(DOMAIN items) /\ Len(recs) = l + Len(t) /\ Len(t) \in Nat
      /\ \A j \in 1..l : recs[j] = section.records[j]
      /\ \A j \in (l + 1)..(l + Len(t)) : recs[j] = t[j - l]
      /\ DOMAIN section.records = 1..l /\ DOMAIN recs = 1..(l + Len(t)) /\ DOMAIN t = 1..Len(t)
    BY <1>3, <1>7
<1> HIDE DEF recs
<1>9. /\ section' \in [errors : SUBSET (1..Queries), callsOk : BOOLEAN, records : Seq(DOMAIN items)]
      /\ section'.records = recs /\ section'.errors = section.errors
    <2>1. section' = [[section EXCEPT !.callsOk = TRUE] EXCEPT !.records = recs]
        BY <1>1 DEF DailyTyped, recs
    <2>2. QED
        BY <1>2, <1>8, <2>1 DEF DailyTyped
<1> HIDE DEF l
<1>10. DailyTyped'
    <2>1. query' \in 1..(Queries + 1) /\ (phase' = "query" => query' <= Queries)
          /\ phase' \in {"idle", "query"}
        BY <1>1, <1>3
    <2>2. Len(section'.records) <= MaxRecords
        BY <1>5, <1>8, <1>9
    <2>3. QED
        BY <1>1, <1>2, <1>9, <2>1, <2>2 DEF DailyTyped
<1>11. /\ \A j \in 1..l : items[recs[j]].query < query
       /\ \A j \in (l + 1)..(l + Len(t)) : items[recs[j]].query = query
    <2>1. \A j \in 1..l : items[recs[j]].query < query
        BY <1>2, <1>8 DEF RecordsAreAsked
    <2>2. \A j \in (l + 1)..(l + Len(t)) : j - l \in DOMAIN t
        BY <1>3, <1>8
    <2>3. QED
        BY <1>7, <1>8, <2>1, <2>2
<1>12. RecordsAreAsked'
    <2> SUFFICES ASSUME NEW j \in 1..(l + Len(t)) PROVE items[recs[j]].query < query + 1
        BY <1>1, <1>8, <1>9 DEF RecordsAreAsked
    <2>1. items[recs[j]].query \in Int
        BY <1>2, <1>8, DailyTimes
    <2>2. j \in 1..l \/ j \in (l + 1)..(l + Len(t))
        BY <1>3, <1>8
    <2>3. QED
        BY <1>3, <1>11, <2>1, <2>2
<1>13. \A q : Matches(q)' = Matches(q)
    BY <1>1 DEF Matches, Daily!After
<1>14. \A i : Daily!Recorded(i)' <=> \E j \in 1..(l + Len(t)) : recs[j] = i
    BY <1>8, <1>9 DEF Daily!Recorded
<1>15. \A q : Daily!RecordsOf(q)' = {j \in 1..(l + Len(t)) : items[recs[j]].query = q}
    BY <1>1, <1>8, <1>9 DEF Daily!RecordsOf
<1>16. ASSUME NEW q \in 1..Queries, q < query PROVE Covered(q)'
    <2> SUFFICES ASSUME NEW i \in Matches(q), items[i].at < start
                 PROVE  \/ Daily!Recorded(i)'
                        \/ q \in section.errors
                        \/ Cardinality(Daily!RecordsOf(q)') = Limit
                        \/ Len(recs) = MaxRecords
        BY <1>1, <1>9, <1>13 DEF Covered
    <2>1. \/ Daily!Recorded(i)
          \/ q \in section.errors
          \/ Cardinality(Daily!RecordsOf(q)) = Limit
          \/ l = MaxRecords
        BY <1>16 DEF DailyFact, Covered, l
    <2>2. CASE Daily!Recorded(i)
        <3>1. PICK j \in 1..l : section.records[j] = i
            BY <1>8, <2>2 DEF Daily!Recorded
        <3>2. j \in 1..(l + Len(t)) /\ recs[j] = i
            BY <1>3, <1>8, <3>1
        <3>3. QED
            BY <1>14, <3>2
    <2>3. Daily!RecordsOf(q)' = Daily!RecordsOf(q)
        <3>1. \A j \in (l + 1)..(l + Len(t)) : items[recs[j]].query # q
            BY <1>3, <1>11, <1>16
        <3>2. \A j \in 1..(l + Len(t)) : j \in 1..l \/ j \in (l + 1)..(l + Len(t))
            BY <1>3, <1>8
        <3>3. 1..l \subseteq 1..(l + Len(t))
            BY <1>3, <1>8
        <3>4. Daily!RecordsOf(q) = {j \in 1..l : items[recs[j]].query = q}
            BY <1>8 DEF Daily!RecordsOf
        <3>5. QED
            BY <1>15, <3>1, <3>2, <3>3, <3>4
    <2>4. l = MaxRecords => Len(recs) = MaxRecords
        BY <1>3, <1>5, <1>8
    <2>5. QED
        BY <2>1, <2>2, <2>3, <2>4
<1>k. PICK k \in 1..Queries : k = query
    BY <1>3
<1>17. Covered(k)'
    <2> SUFFICES ASSUME NEW i \in Matches(k), Len(recs) # MaxRecords
                 PROVE  \/ Daily!Recorded(i)'
                        \/ Cardinality(Daily!RecordsOf(k)') = Limit
        BY <1>1, <1>9, <1>13 DEF Covered
    <2>1. t = a
        BY <1>5, <1>8
    <2>2. CASE Len(t) = Limit
        <3>1. Daily!RecordsOf(k)' = (l + 1)..(l + Limit)
            <4>1. \A j \in 1..(l + Len(t)) : items[recs[j]].query = query <=> j \in (l + 1)..(l + Len(t))
                <5>1. \A j \in 1..l : items[recs[j]].query \in Int
                    BY <1>2, <1>8, DailyTimes
                <5>2. \A j \in 1..(l + Len(t)) : j \in 1..l \/ j \in (l + 1)..(l + Len(t))
                    BY <1>3, <1>8
                <5>3. \A j \in 1..l : j \notin (l + 1)..(l + Len(t))
                    BY <1>3, <1>8
                <5>4. \A j \in 1..l : items[recs[j]].query # query
                    BY <1>3, <1>11, <5>1
                <5>5. QED
                    BY <1>11, <5>2, <5>3, <5>4
            <4>2. (l + 1)..(l + Len(t)) \subseteq 1..(l + Len(t))
                BY <1>3, <1>8
            <4>3. QED
                BY <1>15, <1>k, <2>2, <4>1, <4>2
        <3>2. Cardinality((l + 1)..(l + Limit)) = Limit
            <4>1. l + 1 \in Int /\ l + Limit \in Int /\ Limit \in Nat /\ Limit # 0
                BY <1>3, DailyConstants
            <4>2. Cardinality((l + 1)..(l + Limit))
                      = IF l + 1 > l + Limit THEN 0 ELSE (l + Limit) - (l + 1) + 1
                BY <4>1, FS_Interval
            <4>3. QED
                BY <1>3, <4>1, <4>2
        <3>3. QED
            BY <3>1, <3>2
    <2>3. CASE Len(t) # Limit
        <3>1. PICK n \in DOMAIN t : t[n] = i
            BY <1>4, <1>k, <2>1, <2>3
        <3>2. l + n \in (l + 1)..(l + Len(t)) /\ l + n \in 1..(l + Len(t)) /\ (l + n) - l = n
            BY <1>3, <1>8, <3>1
        <3>3. recs[l + n] = i
            BY <1>8, <3>1, <3>2
        <3>4. QED
            BY <1>14, <3>2, <3>3
    <2>4. QED
        BY <2>2, <2>3
<1>18. \A q \in 1..Queries : q < query' => Covered(q)'
    <2>1. \A q \in 1..Queries : q < query' => q < query \/ q = query
        BY <1>1, <1>3
    <2>2. QED
        BY <1>16, <1>17, <1>k, <2>1
<1>19. phase' = "idle" => query' = Queries + 1
    BY <1>1
<1>20. (start' = 0 => before' = 0) /\ start' > 0
    BY <1>1 DEF DailyFact
<1>21. QED
    BY <1>10, <1>12, <1>18, <1>19, <1>20 DEF DailyFact

(* A query that fails is among the errors.                                 *)
LEMMA DailyFails ==
    ASSUME DailyFact, Daily!Fails \/ Daily!Unparseable
    PROVE  DailyFact'
<1>1. /\ phase = "query" /\ query' = query + 1
      /\ phase' = IF query = Queries THEN "idle" ELSE "query"
      /\ UNCHANGED <<collector, now, items, start, before>>
    BY DEF Daily!Fails, Daily!Unparseable, Daily!NextQuery
<1>2. DailyTyped /\ RecordsAreAsked
    BY DEF DailyFact
<1>3. query \in 1..Queries /\ Queries \in Nat
    BY <1>1, <1>2, DailyTimes DEF DailyTyped
<1>4. /\ section' \in [errors : SUBSET (1..Queries), callsOk : BOOLEAN, records : Seq(DOMAIN items)]
      /\ section'.records = section.records /\ section'.errors = section.errors \cup {query}
    BY <1>2, <1>3 DEF DailyTyped, Daily!Fails, Daily!Unparseable, Daily!BadJson, Daily!NoteError,
                      Daily!CountOk
<1>5. DailyTyped'
    <2>1. query' \in 1..(Queries + 1) /\ (phase' = "query" => query' <= Queries)
          /\ phase' \in {"idle", "query"}
        BY <1>1, <1>3
    <2>2. QED
        BY <1>1, <1>2, <1>4, <2>1 DEF DailyTyped
<1>6. RecordsAreAsked'
    <2>1. \A j \in DOMAIN section.records : items[section.records[j]].query \in Int
        BY <1>2, DailyTimes
    <2>2. QED
        BY <1>1, <1>2, <1>3, <1>4, <2>1 DEF RecordsAreAsked
<1>7. ASSUME NEW q \in 1..Queries, q < query' PROVE Covered(q)'
    <2>1. /\ Matches(q)' = Matches(q) /\ Daily!RecordsOf(q)' = Daily!RecordsOf(q)
          /\ \A i : Daily!Recorded(i)' <=> Daily!Recorded(i)
        BY <1>1, <1>4 DEF Matches, Daily!After, Daily!RecordsOf, Daily!Recorded
    <2>2. CASE q = query
        BY <1>4, <2>2 DEF Covered
    <2>3. CASE q # query
        <3>1. Covered(q)
            BY <1>1, <1>3, <1>7, <2>3 DEF DailyFact
        <3>2. QED
            BY <1>1, <1>4, <2>1, <3>1 DEF Covered
    <2>4. QED
        BY <2>2, <2>3
<1>8. phase' = "idle" => query' = Queries + 1
    BY <1>1
<1>9. (start' = 0 => before' = 0) /\ start' > 0
    BY <1>1 DEF DailyFact
<1>10. QED
    BY <1>5, <1>6, <1>7, <1>8, <1>9 DEF DailyFact

LEMMA AfterIsInt ==
    ASSUME NEW t \in Nat
    PROVE  Daily!After(t) \in Int
<1>1. Daily!Day(t) \in Int
    BY DayAndHour
<1>2. Daily!PreviousWeekday(Daily!Day(t)) \in Int
    BY <1>1, PreviousWeekdayIs
<1>3. WindowHour \in Int /\ SinceDays \in Int /\ SinceAfterWeekend \in Int
    BY DailyConstants DEF Daily!Constants
<1>4. Daily!WindowStart(t, WindowHour) \in Int /\ t - 24 * Daily!Since(t) \in Int
    BY <1>2, <1>3 DEF Daily!WindowStart, Daily!Since
<1>5. QED
    BY <1>4, MinOfTwo DEF Daily!After, Daily!PublishedAfter, Daily!CreatedSince

LEMMA DailyStutters ==
    ASSUME DailyFact, UNCHANGED Daily!vars
    PROVE  DailyFact'
<1>1. UNCHANGED <<collector, now, items, phase, query, section, start, before>>
    BY DEF Daily!vars
<1>2. \A q : Covered(q)' <=> Covered(q)
    BY <1>1 DEF Covered, Matches, Daily!After, Daily!Recorded, Daily!RecordsOf
<1>3. QED
    BY <1>1, <1>2 DEF DailyFact, DailyTyped, RecordsAreAsked

LEMMA DailySteps ==
    ASSUME [Next]_vars, collector \in Daily!Kinds
    PROVE  Daily!Next \/ UNCHANGED Daily!vars
<1>1. CASE UNCHANGED vars
    BY <1>1 DEF vars, dailyVars, Daily!vars
<1>2. CASE Next
    BY <1>2 DEF Next, Daily!Next, IsGmail, IsNagios, IsIssue, IsCalendar, Daily!Kinds, Issue!Kinds
<1>3. QED
    BY <1>1, <1>2

LEMMA NextDaily == DailyInv /\ [Next]_vars => DailyInv'
<1> SUFFICES ASSUME DailyInv, [Next]_vars, collector' \in Daily!Kinds PROVE DailyFact'
    BY DEF DailyInv, Daily!Kinds
<1>1. collector \in Daily!Kinds /\ DailyFact
    BY OneCollector DEF DailyInv
<1>2. QED
    BY <1>1, DailySteps, DailyAppear, DailyBegins, DailyClock, DailyAnswered, DailyFails,
       DailyStutters
       DEF Daily!Next

(* What appeared from the run before on until this one began is in its     *)
(* section, or the section says why not: the query failed, reached its     *)
(* limit, or found the common budget spent (collect_feed_entries,          *)
(* collect_jira_issues). For any queries, limits, budget and hours of the  *)
(* runs, the windows over weekends included (WindowsMeet).                 *)
THEOREM NothingFallsTheorem == Spec => []NothingFallsBetween
<1>1. DailyInv => NothingFallsBetween
    <2> SUFFICES ASSUME collector \in Daily!Kinds, DailyFact, phase = "idle", Daily!KeptUp,
                        NEW i \in DOMAIN items, items[i].at >= before, items[i].at < start
                 PROVE  \/ Daily!Recorded(i)
                        \/ items[i].query \in section.errors
                        \/ Cardinality(Daily!RecordsOf(items[i].query)) = Limit
                        \/ Len(section.records) = MaxRecords
        BY DailyLibrary DEF DailyInv, NothingFallsBetween, Daily!NothingFallsBetween
    <2>1. DailyTyped /\ start \in Nat /\ before \in Nat /\ items[i].at \in Nat
          /\ items[i].query \in 1..Queries /\ Queries \in Nat
        BY DailyTimes DEF DailyFact
    <2>2. before > 0 /\ start # 0
        BY <2>1 DEF Daily!KeptUp, DailyFact
    <2>3. before < start
        BY <2>2 DEF DailyFact, DailyTyped
    <2>4. Daily!After(start) <= before /\ Daily!After(start) \in Int
        BY <2>1, <2>3, WindowsMeet, AfterIsInt, DailyConstants
    <2>5. items[i].at >= Daily!After(start)
        BY <2>1, <2>4
    <2>6. query = Queries + 1
        BY <2>2 DEF DailyFact
    <2>7. Covered(items[i].query)
        BY <2>1, <2>6 DEF DailyFact
    <2>8. QED
        BY <2>5, <2>7 DEF Covered, Matches
<1>2. QED
    BY InitDaily, NextDaily, <1>1, PTL DEF Spec

-----------------------------------------------------------------------------
(* The mail.                                                               *)

Mail == [thread : Threads, kind : Gmail!Kinds]

MailRecord == [thread : Threads, known : BOOLEAN]

GmailTyped ==
    /\ log \in Seq(Mail) /\ began \in 0..Len(log) /\ minAge \in MinAges \cup {0}
    /\ phase \in {"idle", "search", "read", "done"} /\ page \in 1..MaxPages
    /\ found \in Seq(Threads) /\ IsInjective(found)
    /\ at \in 0..Len(found) /\ at <= MaxThreads
    /\ section \in [errors : SUBSET (Threads \cup {"search"}), callsOk : BOOLEAN,
                    records : Seq(MailRecord)]
    /\ stats \in [dropped : [Gmail!Reasons -> Nat], unknown : Nat, truncated : Nat,
                  searchTruncated : BOOLEAN]

(* The library is the same in GmailWaiting.                                *)
LEMMA GmailLibrary ==
    ASSUME NEW S
    PROVE  /\ Gmail!Cardinality(S) = Cardinality(S)
           /\ Gmail!IsFiniteSet(S) <=> IsFiniteSet(S)
           /\ Gmail!Min(S) = Min(S) /\ Gmail!Max(S) = Max(S) /\ Gmail!ToSet(S) = ToSet(S)
           /\ Gmail!IsInjective(S) = IsInjective(S)
<1>1. Gmail!Cardinality(S) = Cardinality(S)
    BY DEF Gmail!Cardinality, Cardinality
<1>2. Gmail!IsFiniteSet(S) <=> IsFiniteSet(S)
    BY DEF Gmail!IsFiniteSet, IsFiniteSet
<1>3. Gmail!Min(S) = Min(S) /\ Gmail!Max(S) = Max(S) /\ Gmail!ToSet(S) = ToSet(S)
    BY DEF Gmail!Min, Min, Gmail!Max, Max, Gmail!ToSet, ToSet
<1>4. Gmail!IsInjective(S) = IsInjective(S)
    BY DEF Gmail!IsInjective, IsInjective
<1>5. QED
    BY <1>1, <1>2, <1>3, <1>4

LEMMA GmailConstants ==
    /\ SearchPageSize \in Nat \ {0} /\ MaxPages \in Nat \ {0} /\ MaxThreads \in Nat \ {0}
    /\ IsFiniteSet(Threads) /\ "search" \notin Threads
    /\ StartDay \in Nat /\ Start \in Nat /\ StartDay <= Start /\ MinAges \subseteq Nat
BY CollectorsAssumption, GmailLibrary DEF Gmail!Constants

(* The latest message of a thread that has one.                            *)
LEMMA LastMailIs ==
    ASSUME log \in Seq(Mail), NEW t \in Threads, NEW k \in DOMAIN log, log[k].thread = t
    PROVE  /\ Gmail!LastMail(t) \in DOMAIN log /\ log[Gmail!LastMail(t)].thread = t
           /\ \A i \in DOMAIN log : log[i].thread = t => i <= Gmail!LastMail(t)
<1> DEFINE T == {i \in DOMAIN log : log[i].thread = t}
<1>1. T \in SUBSET (1..Len(log)) /\ Len(log) \in Nat /\ k \in T
    OBVIOUS
<1>2. Gmail!LastMail(t) = Max(T)
    BY GmailLibrary DEF Gmail!LastMail
<1>3. \A i : i \in T <=> i \in DOMAIN log /\ log[i].thread = t
    OBVIOUS
<1> HIDE DEF T
<1>4. IsFiniteSet(T)
    <2>1. IsFiniteSet(1..Len(log))
        BY <1>1, FS_Interval
    <2>2. QED
        BY <1>1, <2>1, FS_Subset
<1>5. T \in SUBSET Int /\ T # {}
    BY <1>1
<1>6. Max(T) \in T /\ \A i \in T : Max(T) >= i
    BY <1>4, <1>5, MaxIs
<1>7. Max(T) \in Int /\ \A i \in T : i \in Int
    BY <1>5, <1>6
<1>8. \A i \in T : i <= Max(T)
    BY <1>6, <1>7
<1>9. QED
    BY <1>2, <1>3, <1>6, <1>8

LEMMA ListedIs ==
    ASSUME log \in Seq(Mail), NEW t \in Gmail!Listed
    PROVE  /\ t \in Threads /\ Gmail!LastMail(t) \in DOMAIN log
           /\ log[Gmail!LastMail(t)].thread = t
           /\ \A i \in DOMAIN log : log[i].thread = t => i <= Gmail!LastMail(t)
<1>1. t \in Threads /\ \E i \in DOMAIN log : log[i].thread = t
    BY DEF Gmail!Listed
<1>2. QED
    BY <1>1, LastMailIs

(* What there is above a thread in the listing.                            *)
Above(t) == {u \in Gmail!Listed : Gmail!LastMail(u) > Gmail!LastMail(t)}

LEMMA ListingIsFinite ==
    ASSUME NEW t
    PROVE  /\ IsFiniteSet(Gmail!Listed) /\ Cardinality(Gmail!Listed) \in Nat
           /\ IsFiniteSet(Above(t)) /\ Cardinality(Above(t)) \in Nat
<1>1. Gmail!Listed \in SUBSET Threads /\ Above(t) \in SUBSET Threads
    BY DEF Gmail!Listed, Above
<1>2. IsFiniteSet(Gmail!Listed) /\ IsFiniteSet(Above(t))
    BY <1>1, GmailConstants, FS_Subset
<1>3. QED
    BY <1>2, FS_CardinalityType

(* The threads of a page, in their order.                                  *)
PageOf(p) ==
    {t \in Gmail!Listed : Cardinality(Above(t)) \in ((p - 1) * SearchPageSize)..(p * SearchPageSize - 1)}

LEMMA OnPageIs ==
    ASSUME log \in Seq(Mail), NEW p
    PROVE  /\ Gmail!OnPage(p) \in Seq(PageOf(p)) /\ IsInjective(Gmail!OnPage(p))
           /\ \A t \in PageOf(p) : \E i \in DOMAIN Gmail!OnPage(p) : Gmail!OnPage(p)[i] = t
<1> DEFINE S == PageOf(p)
           R == {e \in S \X S : Gmail!LastMail(e[1]) > Gmail!LastMail(e[2])}
<1>1. \A t, u \in S : <<t, u>> \in R <=> Gmail!LastMail(t) > Gmail!LastMail(u)
    OBVIOUS
<1>2. S \in SUBSET Gmail!Listed /\ IsFiniteSet(S)
    <2>1. S \in SUBSET Gmail!Listed
        BY DEF PageOf
    <2> HIDE DEF S
    <2>2. IsFiniteSet(S)
        BY <2>1, ListingIsFinite, FS_Subset
    <2>3. QED
        BY <2>1, <2>2
<1>3. \A t \in S : Gmail!LastMail(t) \in Int /\ log[Gmail!LastMail(t)].thread = t
    BY <1>2, ListedIs
<1> HIDE DEF R
<1>4. Gmail!OnPage(p) = CHOOSE s \in [1..Gmail!Cardinality(S) -> S] :
          \A i, j \in DOMAIN s : i < j => Gmail!LastMail(s[i]) > Gmail!LastMail(s[j])
    <2>1. S = {t \in Gmail!Listed :
                  Gmail!Cardinality({u \in Gmail!Listed : Gmail!LastMail(u) > Gmail!LastMail(t)})
                      \in ((p - 1) * SearchPageSize)..(p * SearchPageSize - 1)}
        BY GmailLibrary DEF PageOf, Above
    <2> HIDE DEF S
    <2>2. QED
        BY <2>1 DEF Gmail!OnPage, Gmail!InOrder
<1> HIDE DEF S
<1>5. Sorts(S, R)
    <2>1. \A t \in S : <<t, t>> \notin R
        BY <1>1, <1>3
    <2>2. \A t, u \in S : t # u => <<t, u>> \in R \/ <<u, t>> \in R
        BY <1>1, <1>3
    <2>3. \A t, u, v \in S : <<t, u>> \in R /\ <<u, v>> \in R => <<t, v>> \in R
        BY <1>1, <1>3
    <2>4. QED
        BY <2>1, <2>2, <2>3 DEF Sorts
<1>6. Gmail!OnPage(p) \in Sorted(S, R)
    <2>1. \A s : s \in Sorted(S, R) <=>
             /\ s \in [1..Cardinality(S) -> S]
             /\ \A i, j \in DOMAIN s : i < j => Gmail!LastMail(s[i]) > Gmail!LastMail(s[j])
        BY <1>1 DEF Sorted
    <2>2. Sorted(S, R) # {}
        BY <1>2, <1>5, SortedIsThere
    <2>3. Gmail!Cardinality(S) = Cardinality(S)
        BY GmailLibrary
    <2>4. QED
        BY <1>4, <2>1, <2>2, <2>3
<1>7. QED
    BY <1>2, <1>5, <1>6, SortedIsAll DEF S, IsInjective

(* A page added: what was not yet found, once.                             *)
NewThreads(p) == Gmail!Selected(Gmail!OnPage(p), LAMBDA t : t \notin Gmail!ToSet(found))

LEMMA NewThreadsAre ==
    ASSUME log \in Seq(Mail), found \in Seq(Threads), NEW p
    PROVE  /\ NewThreads(p) \in Seq(Threads) /\ IsInjective(NewThreads(p))
           /\ \A i \in DOMAIN NewThreads(p) : NewThreads(p)[i] \notin ToSet(found)
           /\ \A t \in PageOf(p) : t \notin ToSet(found) =>
                 \E i \in DOMAIN NewThreads(p) : NewThreads(p)[i] = t
<1> DEFINE s == Gmail!OnPage(p)
           T == {i \in DOMAIN s : s[i] \notin ToSet(found)}
           o == CHOOSE t \in [1..Gmail!Cardinality(T) -> T] :
                    \A i, j \in DOMAIN t : i < j => t[i] < t[j]
<1>1. NewThreads(p) = [n \in DOMAIN o |-> s[o[n]]]
    <2>1. T = {i \in DOMAIN s : s[i] \notin Gmail!ToSet(found)}
        BY GmailLibrary
    <2> HIDE DEF T
    <2>2. QED
        BY <2>1 DEF NewThreads, Gmail!Selected, Gmail!InOrder
<1>2. /\ s \in Seq(Threads) /\ \A i, j \in DOMAIN s : s[i] = s[j] => i = j
      /\ \A t \in PageOf(p) : \E i \in DOMAIN s : s[i] = t
    <2>1. PageOf(p) \subseteq Threads
        BY DEF PageOf, Gmail!Listed
    <2>2. QED
        BY <2>1, OnPageIs DEF IsInjective
<1> HIDE DEF s
<1>3. T \in SUBSET Int /\ IsFiniteSet(T)
    <2>1. IsFiniteSet(1..Len(s)) /\ DOMAIN s = 1..Len(s)
        BY <1>2, FS_Interval
    <2>2. T \in SUBSET (1..Len(s))
        BY <2>1
    <2> HIDE DEF T
    <2>3. IsFiniteSet(T)
        BY <2>1, <2>2, FS_Subset
    <2>4. QED
        BY <2>2, <2>3
<1>4. o \in Ascending(T)
    <2>1. Gmail!Cardinality(T) = Cardinality(T)
        BY GmailLibrary
    <2> HIDE DEF T
    <2>2. \A t : t \in Ascending(T) <=>
              /\ t \in [1..Gmail!Cardinality(T) -> T]
              /\ \A i, j \in DOMAIN t : i < j => t[i] < t[j]
        BY <2>1 DEF Ascending
    <2>3. Ascending(T) # {}
        BY <1>3, AscendingIs
    <2>4. QED
        BY <2>2, <2>3
<1>5. \A i \in T : i \in DOMAIN s /\ s[i] \notin ToSet(found) /\ i \in Int
    BY <1>3
<1>6. \A i \in DOMAIN s : s[i] \notin ToSet(found) => i \in T
    OBVIOUS
<1> HIDE DEF o, T
<1>7. o \in Seq(T) /\ \A x \in T : \E i \in DOMAIN o : o[i] = x
    BY <1>3, <1>4, AscendingIs
<1>8. \A i, j \in DOMAIN o : o[i] = o[j] => i = j
    <2>1. \A i, j \in DOMAIN o : i < j => o[i] < o[j]
        BY <1>4 DEF Ascending
    <2>2. \A i \in DOMAIN o : i \in Int /\ o[i] \in Int
        BY <1>5, <1>7
    <2>3. QED
        BY <2>1, <2>2
<1>9. \A n \in DOMAIN o : o[n] \in DOMAIN s /\ s[o[n]] \in Threads /\ s[o[n]] \notin ToSet(found)
    BY <1>2, <1>5, <1>7
<1>10. /\ NewThreads(p) \in Seq(Threads) /\ DOMAIN NewThreads(p) = DOMAIN o
       /\ \A n \in DOMAIN o : NewThreads(p)[n] = s[o[n]]
    <2>1. DOMAIN o = 1..Len(o) /\ Len(o) \in Nat
        BY <1>7
    <2>2. QED
        BY <1>1, <1>9, <2>1
<1>11. IsInjective(NewThreads(p))
    BY <1>2, <1>8, <1>9, <1>10 DEF IsInjective
<1>12. \A t \in PageOf(p) : t \notin ToSet(found) => \E i \in DOMAIN o : s[o[i]] = t
    BY <1>2, <1>6, <1>7
<1>13. QED
    BY <1>9, <1>10, <1>11, <1>12

LEMMA WithPageIs ==
    ASSUME log \in Seq(Mail), found \in Seq(Threads), IsInjective(found), NEW p
    PROVE  /\ Gmail!WithPage(p) \in Seq(Threads) /\ IsInjective(Gmail!WithPage(p))
           /\ ToSet(found) \subseteq ToSet(Gmail!WithPage(p))
           /\ PageOf(p) \subseteq ToSet(Gmail!WithPage(p))
<1> DEFINE s == NewThreads(p)
           w == Gmail!WithPage(p)
           n == Len(found)
<1>1. w = found \o s
    BY DEF Gmail!WithPage, NewThreads
<1>2. /\ s \in Seq(Threads) /\ \A i, j \in DOMAIN s : s[i] = s[j] => i = j
      /\ \A i \in DOMAIN s : s[i] \notin ToSet(found)
      /\ \A t \in PageOf(p) : t \notin ToSet(found) => \E i \in DOMAIN s : s[i] = t
    BY NewThreadsAre DEF IsInjective
<1> HIDE DEF s, w
<1>3. /\ w \in Seq(Threads) /\ Len(w) = n + Len(s) /\ n \in Nat /\ Len(s) \in Nat
      /\ DOMAIN found = 1..n /\ DOMAIN s = 1..Len(s) /\ DOMAIN w = 1..(n + Len(s))
    BY <1>1, <1>2
<1>4. \A i \in 1..(n + Len(s)) : w[i] = IF i <= n THEN found[i] ELSE s[i - n]
    BY <1>1, <1>2, <1>3
<1> HIDE DEF n
<1>5. \A i \in DOMAIN w : \/ i \in DOMAIN found /\ w[i] = found[i] /\ w[i] \in ToSet(found)
                          \/ /\ i > n /\ i - n \in DOMAIN s /\ w[i] = s[i - n]
                             /\ w[i] \notin ToSet(found)
    <2> SUFFICES ASSUME NEW i \in DOMAIN w
                 PROVE  \/ i \in DOMAIN found /\ w[i] = found[i] /\ w[i] \in ToSet(found)
                        \/ /\ i > n /\ i - n \in DOMAIN s /\ w[i] = s[i - n]
                           /\ w[i] \notin ToSet(found)
        OBVIOUS
    <2>1. CASE i <= n
        BY <1>3, <1>4, <2>1 DEF ToSet
    <2>2. CASE i > n
        <3>1. i - n \in DOMAIN s /\ w[i] = s[i - n]
            BY <1>3, <1>4, <2>2
        <3>2. QED
            BY <1>2, <2>2, <3>1
    <2>3. QED
        BY <1>3, <2>1, <2>2
<1>6. \A i, j \in DOMAIN found : found[i] = found[j] => i = j
    BY DEF IsInjective
<1>7. IsInjective(w)
    <2> SUFFICES ASSUME NEW i \in DOMAIN w, NEW j \in DOMAIN w, w[i] = w[j] PROVE i = j
        BY DEF IsInjective
    <2>1. CASE w[i] \in ToSet(found)
        BY <1>5, <1>6, <2>1
    <2>2. CASE w[i] \notin ToSet(found)
        <3>1. i - n \in DOMAIN s /\ j - n \in DOMAIN s /\ s[i - n] = s[j - n]
            BY <1>5, <2>2
        <3>2. i - n = j - n
            BY <1>2, <3>1
        <3>3. QED
            BY <1>3, <3>2
    <2>3. QED
        BY <2>1, <2>2
<1>8. \A i \in DOMAIN found : i \in DOMAIN w /\ w[i] = found[i]
    BY <1>3, <1>4
<1>9. \A i \in DOMAIN s : n + i \in DOMAIN w /\ w[n + i] = s[i]
    <2> SUFFICES ASSUME NEW i \in DOMAIN s PROVE n + i \in DOMAIN w /\ w[n + i] = s[i]
        OBVIOUS
    <2>1. n + i \in 1..(n + Len(s)) /\ ~(n + i <= n) /\ (n + i) - n = i
        BY <1>3
    <2>2. QED
        BY <1>3, <1>4, <2>1
<1>10. ToSet(found) \subseteq ToSet(w)
    BY <1>8 DEF ToSet
<1>11. PageOf(p) \subseteq ToSet(w)
    <2> SUFFICES ASSUME NEW t \in PageOf(p), t \notin ToSet(found) PROVE t \in ToSet(w)
        BY <1>10
    <2>1. PICK i \in DOMAIN s : s[i] = t
        BY <1>2
    <2>2. QED
        BY <1>9, <2>1 DEF ToSet
<1>12. QED
    BY <1>3, <1>7, <1>10, <1>11 DEF w

(* What is still owed: threads whose latest message is from before the     *)
(* run, and of those the ones to report.  Mail that arrives only makes     *)
(* them fewer and moves them down the listing.                             *)
WantedThreads == {t \in Gmail!Listed : Gmail!LastMail(t) <= began}

LEMMA MailArrives ==
    ASSUME GmailTyped, NEW u \in Threads, NEW k \in Gmail!Kinds, Gmail!Arrive(u, k)
    PROVE  /\ log' \in Seq(Mail) /\ Len(log') = Len(log) + 1
           /\ \A t \in Threads : t # u => Gmail!LastMail(t)' = Gmail!LastMail(t)
           /\ Gmail!LastMail(u)' = Len(log) + 1
           /\ Gmail!Listed \subseteq Gmail!Listed'
           /\ \A t \in Gmail!Listed' : t # u =>
                 t \in Gmail!Listed /\ Gmail!LastKind(t)' = Gmail!LastKind(t)
<1> DEFINE m == [thread |-> u, kind |-> k]
           n == Len(log)
<1>1. /\ log' = Append(log, m) /\ m \in Mail /\ log \in Seq(Mail)
      /\ n \in Nat
    BY DEF Gmail!Arrive, Mail, GmailTyped
<1> HIDE DEF m
<1>2. /\ log' \in Seq(Mail) /\ Len(log') = n + 1 /\ log'[n + 1] = m
      /\ DOMAIN log' = 1..(n + 1) /\ DOMAIN log = 1..n
      /\ \A i \in 1..n : log'[i] = log[i]
    BY <1>1
<1>3. m.thread = u
    BY DEF m
<1> HIDE DEF n
<1>4. \A i \in DOMAIN log : i \in DOMAIN log' /\ log'[i] = log[i]
    BY <1>1, <1>2
<1>5. \A i \in DOMAIN log' : log'[i].thread # u => i \in DOMAIN log /\ log'[i] = log[i]
    <2> SUFFICES ASSUME NEW i \in DOMAIN log', log'[i].thread # u PROVE i \in 1..n
        BY <1>2
    <2>1. i # n + 1
        BY <1>2, <1>3
    <2>2. QED
        BY <1>1, <1>2, <2>1
<1>6. ASSUME NEW t \in Threads, t # u PROVE Gmail!LastMail(t)' = Gmail!LastMail(t)
    <2>1. {i \in DOMAIN log' : log'[i].thread = t} = {i \in DOMAIN log : log[i].thread = t}
        BY <1>4, <1>5, <1>6
    <2>2. QED
        BY <2>1 DEF Gmail!LastMail
<1>7. Gmail!LastMail(u)' = n + 1
    <2> DEFINE T == {i \in DOMAIN log' : log'[i].thread = u}
    <2>1. Gmail!LastMail(u)' = Max(T)
        BY GmailLibrary DEF Gmail!LastMail
    <2>2. T \in SUBSET (1..(n + 1)) /\ n + 1 \in T
        BY <1>1, <1>2, <1>3
    <2> HIDE DEF T
    <2>3. T \in SUBSET Int /\ T # {} /\ IsFiniteSet(T)
        <3>1. IsFiniteSet(1..(n + 1))
            BY <1>1, FS_Interval
        <3>2. IsFiniteSet(T)
            BY <2>2, <3>1, FS_Subset
        <3>3. QED
            BY <1>1, <2>2, <3>2
    <2>4. Max(T) \in T /\ Max(T) >= n + 1
        BY <2>2, <2>3, MaxIs
    <2>5. Max(T) = n + 1
        <3> DEFINE x == Max(T)
        <3>1. x \in 1..(n + 1) /\ x >= n + 1
            BY <2>2, <2>4
        <3> HIDE DEF x
        <3>2. x = n + 1
            BY <1>1, <3>1
        <3>3. QED
            BY <3>2 DEF x
    <2>6. QED
        BY <2>1, <2>5
<1>8. Gmail!Listed \subseteq Gmail!Listed'
    BY <1>4 DEF Gmail!Listed
<1>9. ASSUME NEW t \in Gmail!Listed', t # u
      PROVE  t \in Gmail!Listed /\ Gmail!LastKind(t)' = Gmail!LastKind(t)
    <2>1. t \in Threads /\ \E i \in DOMAIN log' : log'[i].thread = t /\ i > StartDay
        BY DEF Gmail!Listed
    <2>2. t \in Gmail!Listed
        BY <1>5, <1>9, <2>1 DEF Gmail!Listed
    <2>3. Gmail!LastMail(t) \in DOMAIN log
        BY <1>1, <2>2, ListedIs
    <2>4. log'[Gmail!LastMail(t)] = log[Gmail!LastMail(t)] /\ Gmail!LastMail(t)' = Gmail!LastMail(t)
        BY <1>4, <1>6, <1>9, <2>1, <2>3
    <2>5. QED
        BY <2>2, <2>4 DEF Gmail!LastKind
<1>10. QED
    BY <1>2, <1>6, <1>7, <1>8, <1>9 DEF n

LEMMA FewerAreWanted ==
    ASSUME GmailTyped, NEW u \in Threads, NEW k \in Gmail!Kinds, Gmail!Arrive(u, k),
           NEW t \in WantedThreads'
    PROVE  t \in WantedThreads /\ Cardinality(Above(t)) <= Cardinality(Above(t)')
<1>1. t \in Gmail!Listed' /\ Gmail!LastMail(t)' <= began'
    BY DEF WantedThreads
<1>2. began' = began /\ began <= Len(log) /\ began \in Nat /\ Len(log) \in Nat /\ log \in Seq(Mail)
    BY DEF Gmail!Arrive, GmailTyped
<1>3. t # u
    BY <1>1, <1>2, MailArrives
<1>4. t \in Gmail!Listed /\ t \in Threads /\ Gmail!LastMail(t)' = Gmail!LastMail(t)
    BY <1>1, <1>3, MailArrives DEF Gmail!Listed
<1>5. t \in WantedThreads
    BY <1>1, <1>2, <1>4 DEF WantedThreads
<1>6. Above(t) \subseteq Above(t)'
    <2> SUFFICES ASSUME NEW v \in Gmail!Listed, Gmail!LastMail(v) > Gmail!LastMail(t)
                 PROVE  v \in Gmail!Listed' /\ Gmail!LastMail(v)' > Gmail!LastMail(t)'
        BY DEF Above
    <2>1. v \in Gmail!Listed' /\ v \in Threads
        BY MailArrives DEF Gmail!Listed
    <2>2. CASE v = u
        <3>1. Gmail!LastMail(v)' = Len(log) + 1 /\ Gmail!LastMail(t)' <= Len(log)
            <4>1. Gmail!LastMail(t) \in DOMAIN log
                BY <1>2, <1>4, ListedIs
            <4>2. QED
                BY <1>2, <1>4, <2>2, <4>1, MailArrives
        <3>2. Gmail!LastMail(t)' \in Int
            BY <1>2, <1>4, ListedIs
        <3>3. QED
            BY <1>2, <2>1, <3>1, <3>2
    <2>3. CASE v # u
        BY <1>4, <2>1, <2>3, MailArrives
    <2>4. QED
        BY <2>2, <2>3
<1>7. IsFiniteSet(Above(t)')
    <2>1. Above(t)' \in SUBSET Threads
        BY DEF Above, Gmail!Listed
    <2>2. QED
        BY <2>1, GmailConstants, FS_Subset
<1>8. QED
    BY <1>5, <1>6, <1>7, FS_Subset

LEMMA FewerAreWaiting ==
    ASSUME GmailTyped, NEW u \in Threads, NEW k \in Gmail!Kinds, Gmail!Arrive(u, k),
           NEW t, Gmail!IsWaiting(t)'
    PROVE  Gmail!IsWaiting(t)
<1>1. /\ t \in Gmail!Listed' /\ Gmail!LastKind(t)' = "ask"
      /\ Gmail!LastMail(t)' \in (Start + 1)..(began - minAge)
    BY DEF Gmail!IsWaiting, Gmail!Arrive
<1>2. /\ began <= Len(log) /\ began \in Nat /\ Len(log) \in Nat /\ minAge \in Nat /\ Start \in Nat
    BY GmailConstants DEF GmailTyped
<1>3. t # u
    BY <1>1, <1>2, MailArrives
<1>4. t \in Threads
    BY <1>1 DEF Gmail!Listed
<1>5. QED
    BY <1>1, <1>3, <1>4, MailArrives DEF Gmail!IsWaiting

LEMMA WaitingIsWanted ==
    ASSUME GmailTyped, NEW t, Gmail!IsWaiting(t)
    PROVE  t \in WantedThreads
<1>1. began \in Nat /\ minAge \in Nat /\ Start \in Nat
    BY GmailConstants DEF GmailTyped
<1>2. t \in Gmail!Listed /\ Gmail!LastMail(t) \in (Start + 1)..(began - minAge)
    BY DEF Gmail!IsWaiting
<1>3. QED
    BY <1>1, <1>2 DEF WantedThreads

(* A thread is dropped for one of the reasons, and not when it is owed.    *)
LEMMA DropReasonIs ==
    ASSUME GmailTyped, NEW t, NEW a \in BOOLEAN
    PROVE  /\ Gmail!DropReason(t, a) \in Gmail!Reasons \cup {"none"}
           /\ Gmail!IsWaiting(t) => Gmail!DropReason(t, a) = "none"
<1> DEFINE m == Gmail!LastMail(t)
           p == Gmail!LastKind(t) = "own"
           q == Gmail!LastKind(t) = "robot"
           r == Gmail!LastKind(t) = "fyi" /\ a
           v == Gmail!LastKind(t) = "ask" /\ a /\ m <= Start
           w == Gmail!LastKind(t) = "ask" /\ a /\ m > Start /\ minAge > 0 /\ m + minAge > began
<1>1. Gmail!DropReason(t, a) =
          CASE p -> "self" [] q -> "noise" [] r -> "not_owed" [] v -> "old" [] w -> "fresh"
            [] OTHER -> "none"
    BY DEF Gmail!DropReason
<1>2. Gmail!IsWaiting(t) => ~p /\ ~q /\ ~r /\ ~v /\ ~w
    <2> SUFFICES ASSUME Gmail!IsWaiting(t) PROVE ~p /\ ~q /\ ~r /\ ~v /\ ~w
        OBVIOUS
    <2>1. /\ Gmail!LastKind(t) = "ask" /\ m \in (Start + 1)..(began - minAge)
          /\ began \in Nat /\ minAge \in Nat /\ Start \in Nat
        BY GmailConstants DEF GmailTyped, Gmail!IsWaiting
    <2> HIDE DEF m
    <2>2. ~(m <= Start) /\ ~(m + minAge > began)
        BY <2>1
    <2>3. QED
        BY <2>1, <2>2, Zenon
<1> HIDE DEF p, q, r, v, w
<1>3. Gmail!DropReason(t, a) \in Gmail!Reasons \cup {"none"}
    <2>1. \/ Gmail!DropReason(t, a) = "self" \/ Gmail!DropReason(t, a) = "noise"
          \/ Gmail!DropReason(t, a) = "not_owed" \/ Gmail!DropReason(t, a) = "old"
          \/ Gmail!DropReason(t, a) = "fresh" \/ Gmail!DropReason(t, a) = "none"
        BY <1>1
    <2>2. QED
        BY <2>1 DEF Gmail!Reasons
<1>4. ~p /\ ~q /\ ~r /\ ~v /\ ~w => Gmail!DropReason(t, a) = "none"
    BY <1>1
<1>5. QED
    BY <1>2, <1>3, <1>4

-----------------------------------------------------------------------------
(* What is true of a run of gmail_waiting at any time.  A search that goes *)
(* well has found what its pages held when the run began; a thread that    *)
(* was read is reported, or its call failed, or it is not owed; and what   *)
(* was read adds up.                                                       *)
ThreadsFound(f, p) ==
    \A t \in WantedThreads : Cardinality(Above(t)) < (p - 1) * SearchPageSize => t \in ToSet(f)

AllThreadsFound(f) == \A t \in WantedThreads : t \in ToSet(f)

GmailSearched ==
    "search" \notin section.errors /\ ~stats.searchTruncated =>
        /\ phase = "search" => ThreadsFound(found, page)
        /\ phase \in {"read", "done"} => AllThreadsFound(found)

ThreadRead(t) ==
    t \in Gmail!ReportedThreads \/ t \in section.errors \/ ~Gmail!IsWaiting(t)

GmailRead == \A i \in 1..at : ThreadRead(found[i])

Unknown(records) == {i \in DOMAIN records : ~records[i].known}

GmailCounts ==
    /\ section.errors \ {"search"} \subseteq {found[i] : i \in 1..at}
    /\ at = Len(section.records) + Cardinality(section.errors \ {"search"}) + Gmail!Dropped
    /\ stats.unknown = Cardinality(Unknown(section.records))

GmailPhases ==
    /\ phase \in {"idle", "search"} =>
           at = 0 /\ section.errors = {} /\ ~stats.searchTruncated
    /\ phase = "idle" => page = 1
    /\ phase = "read" => at < Gmail!ToRead(found)
    /\ phase = "done" => at = Gmail!ToRead(found)
    /\ phase \in {"read", "done"} => stats.truncated = Len(found) - Gmail!ToRead(found)

GmailFact == GmailTyped /\ GmailSearched /\ GmailRead /\ GmailCounts /\ GmailPhases

GmailInv == collector = "gmail_waiting" => GmailFact

LEMMA ToReadOfMail ==
    ASSUME NEW f \in Seq(Threads)
    PROVE  /\ Gmail!ToRead(f) \in 0..Len(f) /\ Gmail!ToRead(f) <= MaxThreads
           /\ f = <<>> => Gmail!ToRead(f) = 0
           /\ f # <<>> => Gmail!ToRead(f) > 0
           /\ \/ Gmail!ToRead(f) = Len(f)
              \/ Gmail!ToRead(f) = MaxThreads
<1> DEFINE n == Len(f)
           S == {n, MaxThreads}
<1>1. n \in Nat /\ MaxThreads \in Nat /\ MaxThreads > 0
    BY GmailConstants
<1>2. S \in SUBSET Int /\ S # {} /\ IsFiniteSet(S)
    <2>1. IsFiniteSet({n} \cup {MaxThreads}) /\ S = {n} \cup {MaxThreads}
        BY FS_Singleton, FS_Union
    <2>2. S \in SUBSET Int /\ S # {}
        BY <1>1
    <2> HIDE DEF S
    <2>3. QED
        BY <2>1, <2>2
<1>3. Gmail!ToRead(f) = Min(S)
    BY GmailLibrary DEF Gmail!ToRead
<1>4. \A x : x \in S <=> x = n \/ x = MaxThreads
    OBVIOUS
<1> HIDE DEF S
<1>5. Min(S) \in S /\ \A y \in S : Min(S) <= y
    BY <1>2, MinIs
<1>6. f = <<>> <=> n = 0
    OBVIOUS
<1> HIDE DEF n
<1> DEFINE k == Gmail!ToRead(f)
<1>7. (k = n \/ k = MaxThreads) /\ k <= n /\ k <= MaxThreads
    BY <1>3, <1>4, <1>5
<1> HIDE DEF k
<1>8. k \in 0..n /\ (n = 0 => k = 0) /\ (n # 0 => k > 0)
    BY <1>1, <1>7
<1>9. QED
    BY <1>6, <1>7, <1>8 DEF k, n

LEMMA InitGmail == Init => GmailInv
<1> SUFFICES ASSUME Init PROVE GmailFact
    BY DEF GmailInv
<1>1. /\ log = <<>> /\ minAge = 0 /\ phase = "idle" /\ page = 1 /\ found = <<>> /\ at = 0
      /\ began = 0 /\ section = [errors |-> {}, callsOk |-> FALSE, records |-> <<>>]
      /\ stats = [dropped |-> [r \in Gmail!Reasons |-> 0], unknown |-> 0,
                  truncated |-> 0, searchTruncated |-> FALSE]
    BY OneSection DEF Init, Gmail!Init, NewSection
<1>2. GmailTyped
    <2>1. log \in Seq(Mail) /\ began \in 0..Len(log) /\ minAge \in MinAges \cup {0}
        BY <1>1
    <2>2. page \in 1..MaxPages /\ at \in 0..Len(found) /\ at <= MaxThreads
        BY <1>1, GmailConstants
    <2>3. found \in Seq(Threads) /\ IsInjective(found)
        BY <1>1 DEF IsInjective
    <2>4. section \in [errors : SUBSET (Threads \cup {"search"}), callsOk : BOOLEAN,
                       records : Seq(MailRecord)]
        BY <1>1
    <2>5. stats \in [dropped : [Gmail!Reasons -> Nat], unknown : Nat, truncated : Nat,
                     searchTruncated : BOOLEAN]
        BY <1>1
    <2>6. QED
        BY <1>1, <2>1, <2>2, <2>3, <2>4, <2>5 DEF GmailTyped
<1>3. GmailSearched /\ GmailRead
    BY <1>1 DEF GmailSearched, GmailRead
<1>4. GmailCounts
    <2>1. Unknown(section.records) = {} /\ section.errors \ {"search"} = {}
        BY <1>1 DEF Unknown
    <2>2. Gmail!Dropped = 0
        BY <1>1 DEF Gmail!Dropped, Gmail!Reasons
    <2>3. Len(section.records) = 0 /\ stats.unknown = 0 /\ at = 0
        BY <1>1
    <2>4. /\ Cardinality(Unknown(section.records)) = 0
          /\ Cardinality(section.errors \ {"search"}) = 0
        BY <2>1, FS_EmptySet
    <2> DEFINE l == Len(section.records)
               c == Cardinality(section.errors \ {"search"})
               d == Gmail!Dropped
    <2>5. at = l + c + d
        <3> HIDE DEF l, c, d
        <3>1. l = 0 /\ c = 0 /\ d = 0
            BY <2>2, <2>3, <2>4 DEF l, c, d
        <3>2. QED
            BY <2>3, <3>1
    <2>6. section.errors \ {"search"} \subseteq {found[i] : i \in 1..at}
        BY <2>1
    <2>7. stats.unknown = Cardinality(Unknown(section.records))
        BY <2>3, <2>4
    <2>8. QED
        BY <2>5, <2>6, <2>7 DEF GmailCounts
<1>5. GmailPhases
    BY <1>1 DEF GmailPhases
<1>6. QED
    BY <1>2, <1>3, <1>4, <1>5 DEF GmailFact

LEMMA GmailArrives ==
    ASSUME GmailFact, \E t \in Threads, k \in Gmail!Kinds : Gmail!Arrive(t, k)
    PROVE  GmailFact'
<1>1. PICK u \in Threads, k \in Gmail!Kinds : Gmail!Arrive(u, k)
    OBVIOUS
<1>2. /\ minAge' = minAge /\ phase' = phase /\ page' = page /\ found' = found /\ at' = at
      /\ section' = section /\ stats' = stats /\ began' = began
    BY <1>1 DEF Gmail!Arrive
<1>3. GmailTyped
    BY DEF GmailFact
<1>4. GmailTyped'
    <2>1. log' \in Seq(Mail) /\ Len(log') = Len(log) + 1
        BY <1>1, <1>3, MailArrives
    <2>2. began \in 0..Len(log) /\ Len(log) \in Nat
        BY <1>3 DEF GmailTyped
    <2>3. began' \in 0..Len(log')
        BY <1>2, <2>1, <2>2
    <2>4. QED
        BY <1>2, <1>3, <2>1, <2>3 DEF GmailTyped
<1>5. GmailSearched'
    <2>1. \A t \in WantedThreads' :
              t \in WantedThreads /\ Cardinality(Above(t)) <= Cardinality(Above(t)')
        BY <1>1, <1>3, FewerAreWanted
    <2>2. \A t : Cardinality(Above(t)) \in Nat
        BY ListingIsFinite
    <2>3. \A t \in WantedThreads' : Cardinality(Above(t)') \in Nat
        <3> SUFFICES ASSUME NEW t \in WantedThreads' PROVE Cardinality(Above(t)') \in Nat
            OBVIOUS
        <3>1. Above(t)' \in SUBSET Threads
            BY DEF Above, Gmail!Listed
        <3>2. IsFiniteSet(Above(t)')
            BY <3>1, GmailConstants, FS_Subset
        <3>3. QED
            BY <3>2, FS_CardinalityType
    <2>4. (page - 1) * SearchPageSize \in Int
        BY <1>3, GmailConstants DEF GmailTyped
    <2>5. ThreadsFound(found, page) => ThreadsFound(found, page)'
        <3> SUFFICES ASSUME ThreadsFound(found, page), NEW t \in WantedThreads',
                            Cardinality(Above(t)') < (page - 1) * SearchPageSize
                     PROVE  t \in ToSet(found)
            BY <1>2 DEF ThreadsFound
        <3>1. Cardinality(Above(t)) < (page - 1) * SearchPageSize
            BY <2>1, <2>2, <2>3, <2>4
        <3>2. QED
            BY <2>1, <3>1 DEF ThreadsFound
    <2>6. AllThreadsFound(found) => AllThreadsFound(found)'
        BY <1>2, <2>1 DEF AllThreadsFound
    <2>7. QED
        BY <1>2, <2>5, <2>6 DEF GmailFact, GmailSearched
<1>6. GmailRead'
    <2> SUFFICES ASSUME NEW i \in 1..at PROVE ThreadRead(found[i])'
        BY <1>2 DEF GmailRead
    <2>1. ThreadRead(found[i])
        BY DEF GmailFact, GmailRead
    <2> DEFINE b == found[i]
    <2>2. PICK t : t = b
        OBVIOUS
    <2>3. b' = t
        BY <1>2, <2>2
    <2>4. Gmail!IsWaiting(t)' => Gmail!IsWaiting(t)
        BY <1>1, <1>3, FewerAreWaiting
    <2>5. ThreadRead(t)
        BY <2>1, <2>2
    <2>6. ThreadRead(t)'
        BY <1>2, <2>4, <2>5 DEF ThreadRead, Gmail!ReportedThreads
    <2>7. QED
        BY <2>3, <2>6 DEF ThreadRead, Gmail!IsWaiting, Gmail!LastMail, Gmail!LastKind
<1>7. GmailCounts'
    BY <1>2 DEF GmailFact, GmailCounts, Gmail!Dropped, Unknown
<1>8. GmailPhases'
    BY <1>2 DEF GmailFact, GmailPhases, Gmail!ToRead
<1>9. QED
    BY <1>4, <1>5, <1>6, <1>7, <1>8 DEF GmailFact

LEMMA GmailBegins ==
    ASSUME GmailFact, Gmail!Begin
    PROVE  GmailFact'
<1>1. /\ phase = "idle" /\ phase' = "search" /\ began' = Len(log) /\ minAge' \in MinAges
      /\ log' = log /\ page' = page /\ found' = found /\ at' = at /\ section' = section
      /\ stats' = stats
    BY DEF Gmail!Begin
<1>2. at = 0 /\ page = 1 /\ section.errors = {} /\ ~stats.searchTruncated
    BY <1>1 DEF GmailFact, GmailPhases
<1>3. GmailTyped'
    <2>1. GmailTyped
        BY DEF GmailFact
    <2>2. Len(log) \in 0..Len(log)
        BY <2>1 DEF GmailTyped
    <2>3. QED
        BY <1>1, <2>1, <2>2 DEF GmailTyped
<1>4. GmailSearched'
    <2>1. ThreadsFound(found, page)'
        <3> SUFFICES ASSUME NEW t \in WantedThreads',
                            Cardinality(Above(t)') < (page' - 1) * SearchPageSize
                     PROVE  FALSE
            BY DEF ThreadsFound
        <3>1. Above(t)' = Above(t)
            BY <1>1 DEF Above, Gmail!Listed, Gmail!LastMail
        <3>2. Cardinality(Above(t)) \in Nat
            BY ListingIsFinite
        <3>3. (page' - 1) * SearchPageSize = 0
            BY <1>1, <1>2, GmailConstants
        <3>4. QED
            BY <3>1, <3>2, <3>3
    <2>2. QED
        BY <1>1, <2>1 DEF GmailSearched
<1>5. GmailRead'
    BY <1>1, <1>2 DEF GmailRead
<1>6. GmailCounts'
    BY <1>1 DEF GmailFact, GmailCounts, Gmail!Dropped, Unknown
<1>7. GmailPhases'
    BY <1>1, <1>2 DEF GmailPhases
<1>8. QED
    BY <1>3, <1>4, <1>5, <1>6, <1>7 DEF GmailFact

(* One more page of the search.                                            *)
LEMMA NextPageOfMail ==
    ASSUME GmailTyped, ThreadsFound(found, page)
    PROVE  /\ ThreadsFound(Gmail!WithPage(page), page + 1)
           /\ Gmail!IsLastPage(page) => AllThreadsFound(Gmail!WithPage(page))
<1> DEFINE w == Gmail!WithPage(page)
           a == (page - 1) * SearchPageSize
           b == page * SearchPageSize
           rank(t) == Cardinality(Above(t))
<1>1. a \in Int /\ b \in Int /\ ((page + 1) - 1) * SearchPageSize = b /\ log \in Seq(Mail)
    BY GmailConstants DEF GmailTyped
<1>2. \A t : rank(t) \in Nat
    BY ListingIsFinite
<1>3. \A t \in WantedThreads : t \in Gmail!Listed
    BY DEF WantedThreads
<1>4. PageOf(page) = {t \in Gmail!Listed : rank(t) \in a..(b - 1)}
    BY DEF PageOf
<1>5. ToSet(found) \subseteq ToSet(w) /\ PageOf(page) \subseteq ToSet(w)
    BY WithPageIs DEF GmailTyped
<1>6. \A t \in WantedThreads : rank(t) < a => t \in ToSet(found)
    BY DEF ThreadsFound
<1> HIDE DEF w, a, b, rank
<1>7. ASSUME NEW t \in WantedThreads, rank(t) < b PROVE t \in ToSet(w)
    <2>1. CASE rank(t) < a
        BY <2>1, <1>5, <1>6
    <2>2. CASE rank(t) >= a
        <3>1. rank(t) \in a..(b - 1)
            BY <2>2, <1>1, <1>2, <1>7
        <3>2. QED
            BY <3>1, <1>3, <1>4, <1>5
    <2>3. QED
        BY <2>1, <2>2, <1>1, <1>2
<1>8. ThreadsFound(w, page + 1)
    BY <1>1, <1>7 DEF ThreadsFound, rank
<1>9. ASSUME Gmail!IsLastPage(page), NEW t \in WantedThreads PROVE t \in ToSet(w)
    <2> DEFINE n == Cardinality(Gmail!Listed)
    <2>1. b >= n /\ n \in Nat /\ IsFiniteSet(Gmail!Listed)
        BY <1>9, GmailLibrary, ListingIsFinite DEF Gmail!IsLastPage, b
    <2>2. Above(t) \in SUBSET (Gmail!Listed \ {t})
        <3> SUFFICES ASSUME NEW u \in Above(t) PROVE u \in Gmail!Listed /\ u # t
            OBVIOUS
        <3>1. u \in Gmail!Listed /\ Gmail!LastMail(u) > Gmail!LastMail(t)
            BY DEF Above
        <3>2. Gmail!LastMail(t) \in Int
            BY <1>1, <1>3, ListedIs
        <3>3. QED
            BY <3>1, <3>2
    <2>3. /\ IsFiniteSet(Gmail!Listed \ {t})
          /\ Cardinality(Gmail!Listed \ {t}) = n - 1
        BY <1>3, <2>1, FS_RemoveElement
    <2>4. rank(t) <= Cardinality(Gmail!Listed \ {t})
        BY <2>2, <2>3, FS_Subset DEF rank
    <2> HIDE DEF n
    <2>5. rank(t) < b
        BY <2>1, <2>3, <2>4, <1>1, <1>2
    <2>6. QED
        BY <2>5, <1>7
<1>10. QED
    BY <1>8, <1>9 DEF AllThreadsFound, w

(* The search is over; nothing has been read.                              *)
LEMMA SearchOver ==
    ASSUME GmailTyped, GmailCounts, GmailPhases, phase = "search",
           NEW f \in Seq(Threads), IsInjective(f), NEW cut \in BOOLEAN,
           Gmail!SearchEnds(f, cut), found' = f, at' = at,
           UNCHANGED <<log, minAge, began>>,
           section' \in [errors : SUBSET (Threads \cup {"search"}), callsOk : BOOLEAN,
                         records : Seq(MailRecord)],
           section'.records = section.records, section'.errors \subseteq {"search"}
    PROVE  /\ GmailTyped' /\ GmailRead' /\ GmailCounts' /\ GmailPhases'
           /\ phase' \in {"read", "done"} /\ stats'.searchTruncated = cut
<1>1. /\ phase' = IF f = <<>> THEN "done" ELSE "read"
      /\ stats' = [stats EXCEPT !.truncated = Len(f) - Gmail!ToRead(f), !.searchTruncated = cut]
      /\ page' = page
    BY DEF Gmail!SearchEnds
<1>2. at = 0 /\ at' = 0 /\ section.errors = {}
    BY DEF GmailPhases
<1>3. /\ Gmail!ToRead(f) \in 0..Len(f) /\ (f = <<>> => Gmail!ToRead(f) = 0)
      /\ (f # <<>> => Gmail!ToRead(f) > 0)
    BY ToReadOfMail
<1>4. Len(f) - Gmail!ToRead(f) \in Nat /\ Len(f) \in Nat
    BY <1>3
<1>5. /\ stats' \in [dropped : [Gmail!Reasons -> Nat], unknown : Nat, truncated : Nat,
                     searchTruncated : BOOLEAN]
      /\ stats'.dropped = stats.dropped /\ stats'.unknown = stats.unknown
      /\ stats'.truncated = Len(f) - Gmail!ToRead(f) /\ stats'.searchTruncated = cut
    BY <1>1, <1>4 DEF GmailTyped
<1>6. GmailTyped'
    <2>1. at' \in 0..Len(found') /\ at' <= MaxThreads
        BY <1>2, <1>4, GmailConstants
    <2>2. QED
        BY <1>1, <1>5, <2>1 DEF GmailTyped
<1>7. GmailRead'
    BY <1>2 DEF GmailRead
<1>8. GmailCounts'
    <2>1. section'.errors \ {"search"} = {} /\ section.errors \ {"search"} = {}
        BY <1>2
    <2>2. Gmail!Dropped' = Gmail!Dropped
        BY <1>5 DEF Gmail!Dropped
    <2>3. Unknown(section.records)' = Unknown(section.records)
        BY DEF Unknown
    <2>4. QED
        BY <1>5, <2>1, <2>2, <2>3 DEF GmailCounts
<1>9. Gmail!ToRead(found)' = Gmail!ToRead(f)
    BY DEF Gmail!ToRead
<1>10. GmailPhases'
    BY <1>1, <1>2, <1>3, <1>5, <1>9 DEF GmailPhases
<1>11. QED
    BY <1>1, <1>5, <1>6, <1>7, <1>8, <1>10

LEMMA SameMail ==
    ASSUME UNCHANGED <<log, began>>
    PROVE  /\ WantedThreads' = WantedThreads
           /\ \A t : Above(t)' = Above(t) /\ Gmail!LastKind(t)' = Gmail!LastKind(t)
           /\ \A t : Gmail!LastMail(t)' = Gmail!LastMail(t)
           /\ Gmail!Listed' = Gmail!Listed
BY DEF WantedThreads, Above, Gmail!LastKind, Gmail!LastMail, Gmail!Listed

LEMMA MailSections ==
    ASSUME GmailTyped, NEW x \in Threads \cup {"search"}, NEW r \in MailRecord
    PROVE  LET S == [errors : SUBSET (Threads \cup {"search"}), callsOk : BOOLEAN,
                     records : Seq(MailRecord)]
               ok == Gmail!CountOk(section)
               noted == Gmail!NoteError(section, x)
               more == Gmail!AddRecords(Gmail!CountOk(section), <<r>>)
           IN  /\ ok \in S /\ ok.errors = section.errors /\ ok.records = section.records
               /\ noted \in S /\ noted.errors = section.errors \cup {x} /\ noted.records = section.records
               /\ more \in S /\ more.errors = section.errors
               /\ more.records = Append(section.records, r)
<1> DEFINE ok == Gmail!CountOk(section)
           noted == Gmail!NoteError(section, x)
           more == Gmail!AddRecords(ok, <<r>>)
<1>1. section \in [errors : SUBSET (Threads \cup {"search"}), callsOk : BOOLEAN,
                   records : Seq(MailRecord)]
    BY DEF GmailTyped
<1>2. /\ ok \in [errors : SUBSET (Threads \cup {"search"}), callsOk : BOOLEAN,
                 records : Seq(MailRecord)]
      /\ ok.errors = section.errors /\ ok.records = section.records
    BY <1>1 DEF Gmail!CountOk
<1>3. /\ noted \in [errors : SUBSET (Threads \cup {"search"}), callsOk : BOOLEAN,
                  records : Seq(MailRecord)]
      /\ noted.errors = section.errors \cup {x} /\ noted.records = section.records
    BY <1>1 DEF Gmail!NoteError
<1> HIDE DEF ok
<1>4. ok.records \o <<r>> \in Seq(MailRecord) /\ ok.records \o <<r>> = Append(ok.records, r)
    BY <1>1, <1>2
<1>5. /\ more \in [errors : SUBSET (Threads \cup {"search"}), callsOk : BOOLEAN,
                   records : Seq(MailRecord)]
      /\ more.errors = ok.errors /\ more.records = ok.records \o <<r>>
    BY <1>2, <1>4 DEF Gmail!AddRecords
<1>6. QED
    BY <1>2, <1>3, <1>4, <1>5 DEF ok

LEMMA GmailSearchPages ==
    ASSUME GmailFact, Gmail!SearchPage
    PROVE  GmailFact'
<1> DEFINE w == Gmail!WithPage(page)
<1>1. /\ phase = "search" /\ found' = w /\ section' = Gmail!CountOk(section)
      /\ log' = log /\ minAge' = minAge /\ at' = at /\ began' = began
    BY DEF Gmail!SearchPage
<1>2. GmailTyped /\ GmailCounts /\ GmailPhases
    BY DEF GmailFact
<1>3. at = 0 /\ section.errors = {} /\ ~stats.searchTruncated
    BY <1>1, <1>2 DEF GmailPhases
<1>4. ThreadsFound(found, page)
    BY <1>1, <1>3 DEF GmailFact, GmailSearched
<1>5. /\ w \in Seq(Threads) /\ IsInjective(w)
    BY <1>2, WithPageIs DEF GmailTyped
<1>6. /\ section' \in [errors : SUBSET (Threads \cup {"search"}), callsOk : BOOLEAN,
                       records : Seq(MailRecord)]
      /\ section'.errors = {} /\ section'.records = section.records
    <2>1. section \in [errors : SUBSET (Threads \cup {"search"}), callsOk : BOOLEAN,
                       records : Seq(MailRecord)]
        BY <1>2 DEF GmailTyped
    <2>2. QED
        BY <1>1, <1>3, <2>1 DEF Gmail!CountOk
<1>7. WantedThreads' = WantedThreads /\ \A t : Above(t)' = Above(t)
    BY <1>1, SameMail
<1>8. ThreadsFound(w, page + 1) /\ (Gmail!IsLastPage(page) => AllThreadsFound(w))
    BY <1>2, <1>4, NextPageOfMail
<1> HIDE DEF w
<1>9. ASSUME NEW cut \in BOOLEAN, Gmail!SearchEnds(w, cut), cut = FALSE => Gmail!IsLastPage(page)
      PROVE  GmailFact'
    <2>1. /\ GmailTyped' /\ GmailRead' /\ GmailCounts' /\ GmailPhases'
          /\ phase' \in {"read", "done"} /\ stats'.searchTruncated = cut
        BY <1>1, <1>2, <1>5, <1>6, <1>9, SearchOver
    <2>2. GmailSearched'
        <3>1. ~stats'.searchTruncated => AllThreadsFound(w)
            BY <1>8, <1>9, <2>1
        <3>2. ~stats'.searchTruncated => AllThreadsFound(found)'
            BY <1>1, <1>7, <3>1 DEF AllThreadsFound
        <3>3. phase' # "search"
            BY <2>1
        <3>4. QED
            BY <3>2, <3>3 DEF GmailSearched
    <2>3. QED
        BY <2>1, <2>2 DEF GmailFact
<1>10. CASE Gmail!IsLastPage(page) /\ Gmail!SearchEnds(found', FALSE)
    BY <1>1, <1>9, <1>10
<1>11. CASE ~Gmail!IsLastPage(page) /\ Gmail!SearchEnds(found', TRUE)
    BY <1>1, <1>9, <1>11
<1>12. CASE page < MaxPages /\ page' = page + 1 /\ phase' = phase /\ stats' = stats
    <2>1. GmailTyped'
        <3>1. page' \in 1..MaxPages
            BY <1>2, <1>12, GmailConstants DEF GmailTyped
        <3>2. at' \in 0..Len(found') /\ at' <= MaxThreads
            BY <1>1, <1>3, <1>5, GmailConstants
        <3>3. QED
            BY <1>1, <1>2, <1>5, <1>6, <1>12, <3>1, <3>2 DEF GmailTyped
    <2>2. GmailSearched'
        <3>1. \A t \in WantedThreads :
                  Cardinality(Above(t)) < ((page + 1) - 1) * SearchPageSize => t \in ToSet(w)
            BY <1>8 DEF ThreadsFound
        <3>2. ThreadsFound(found, page)'
            BY <1>1, <1>7, <1>12, <3>1 DEF ThreadsFound
        <3>3. QED
            BY <1>1, <1>12, <3>2 DEF GmailSearched
    <2>3. GmailRead'
        BY <1>1, <1>3 DEF GmailRead
    <2>4. GmailCounts'
        <3>1. section'.errors \ {"search"} = {} /\ section.errors \ {"search"} = {}
            BY <1>3, <1>6
        <3>2. Gmail!Dropped' = Gmail!Dropped
            BY <1>12 DEF Gmail!Dropped
        <3>3. Unknown(section.records)' = Unknown(section.records)
            BY <1>6 DEF Unknown
        <3>4. QED
            BY <1>1, <1>2, <1>6, <1>12, <3>1, <3>2, <3>3 DEF GmailCounts
    <2>5. GmailPhases'
        BY <1>1, <1>3, <1>6, <1>12 DEF GmailPhases
    <2>6. QED
        BY <2>1, <2>2, <2>3, <2>4, <2>5 DEF GmailFact
<1>13. QED
    BY <1>10, <1>11, <1>12 DEF Gmail!SearchPage

LEMMA GmailSearchFails ==
    ASSUME GmailFact, Gmail!SearchFails
    PROVE  GmailFact'
<1>1. /\ phase = "search" /\ found' = found /\ section' = Gmail!NoteError(section, "search")
      /\ log' = log /\ minAge' = minAge /\ at' = at /\ began' = began
      /\ Gmail!SearchEnds(found, FALSE)
    BY DEF Gmail!SearchFails
<1>2. GmailTyped /\ GmailCounts /\ GmailPhases
    BY DEF GmailFact
<1>3. section.errors = {} /\ found \in Seq(Threads) /\ IsInjective(found)
    BY <1>1, <1>2 DEF GmailTyped, GmailPhases
<1>4. /\ section' \in [errors : SUBSET (Threads \cup {"search"}), callsOk : BOOLEAN,
                       records : Seq(MailRecord)]
      /\ section'.errors = {"search"} /\ section'.records = section.records
    <2>1. section \in [errors : SUBSET (Threads \cup {"search"}), callsOk : BOOLEAN,
                       records : Seq(MailRecord)]
        BY <1>2 DEF GmailTyped
    <2>2. QED
        BY <1>1, <1>3, <2>1 DEF Gmail!NoteError
<1>5. /\ GmailTyped' /\ GmailRead' /\ GmailCounts' /\ GmailPhases'
    BY <1>1, <1>2, <1>3, <1>4, SearchOver
<1>6. GmailSearched'
    BY <1>4 DEF GmailSearched
<1>7. QED
    BY <1>5, <1>6 DEF GmailFact

(* One more thread is read, whatever comes of it.                          *)
LEMMA OneMoreRead ==
    ASSUME GmailFact, phase = "read", NEW t \in Threads, found[at + 1] = t, Gmail!NextThread,
           UNCHANGED <<log, minAge, page, found, began>>,
           section' \in [errors : SUBSET (Threads \cup {"search"}), callsOk : BOOLEAN,
                         records : Seq(MailRecord)],
           stats' \in [dropped : [Gmail!Reasons -> Nat], unknown : Nat, truncated : Nat,
                       searchTruncated : BOOLEAN],
           stats'.truncated = stats.truncated, stats'.searchTruncated = stats.searchTruncated,
           section.errors \subseteq section'.errors,
           "search" \in section'.errors => "search" \in section.errors,
           Gmail!ReportedThreads \subseteq Gmail!ReportedThreads',
           t \in Gmail!ReportedThreads' \/ t \in section'.errors \/ ~Gmail!IsWaiting(t)
    PROVE  GmailTyped' /\ GmailSearched' /\ GmailRead' /\ GmailPhases' /\ at' = at + 1
<1>1. at' = at + 1 /\ phase' = IF at + 1 = Gmail!ToRead(found) THEN "done" ELSE "read"
    BY DEF Gmail!NextThread
<1>2. /\ at \in Nat /\ at < Gmail!ToRead(found) /\ Len(found) \in Nat
      /\ Gmail!ToRead(found) \in 0..Len(found) /\ Gmail!ToRead(found) <= MaxThreads
    BY ToReadOfMail DEF GmailFact, GmailTyped, GmailPhases
<1>3. at' \in 0..Len(found) /\ at' <= MaxThreads /\ at' <= Gmail!ToRead(found)
    BY <1>1, <1>2, GmailConstants
<1>4. GmailTyped'
    BY <1>1, <1>3 DEF GmailFact, GmailTyped
<1>5. WantedThreads' = WantedThreads /\ \A u : Gmail!IsWaiting(u)' = Gmail!IsWaiting(u)
    <2>1. Gmail!Listed' = Gmail!Listed /\ \A u : Gmail!LastMail(u)' = Gmail!LastMail(u)
        BY DEF Gmail!Listed, Gmail!LastMail
    <2>2. \A u : Gmail!LastKind(u)' = Gmail!LastKind(u)
        BY <2>1 DEF Gmail!LastKind
    <2>3. QED
        BY <2>1, <2>2 DEF WantedThreads, Gmail!IsWaiting
<1>6. GmailSearched'
    BY <1>1, <1>5 DEF GmailFact, GmailSearched, AllThreadsFound
<1>7. GmailRead'
    <2> SUFFICES ASSUME NEW i \in 1..(at + 1) PROVE ThreadRead(found[i])'
        BY <1>1 DEF GmailRead
    <2>1. PICK u : u = found[i]
        OBVIOUS
    <2>2. (found[i])' = u
        BY <2>1
    <2>3. u \in Gmail!ReportedThreads' \/ u \in section'.errors \/ ~Gmail!IsWaiting(u)'
        <3>1. CASE i \in 1..at
            <4>1. ThreadRead(u)
                BY <2>1, <3>1 DEF GmailFact, GmailRead
            <4>2. QED
                BY <1>5, <4>1 DEF ThreadRead
        <3>2. CASE i = at + 1
            BY <1>5, <2>1, <3>2
        <3>3. QED
            BY <1>2, <3>1, <3>2
    <2>4. QED
        BY <2>2, <2>3 DEF ThreadRead, Gmail!IsWaiting, Gmail!LastMail, Gmail!LastKind
<1>8. Gmail!ToRead(found)' = Gmail!ToRead(found)
    BY DEF Gmail!ToRead
<1>9. GmailPhases'
    BY <1>1, <1>2, <1>3, <1>8 DEF GmailFact, GmailPhases
<1>10. QED
    BY <1>1, <1>4, <1>6, <1>7, <1>9

(* The thread at hand is none of those read before.                        *)
LEMMA NextThreadIs ==
    ASSUME GmailFact, phase = "read"
    PROVE  /\ at \in Nat /\ at + 1 \in DOMAIN found /\ found[at + 1] \in Threads
           /\ found[at + 1] \notin section.errors
           /\ IsFiniteSet(section.errors \ {"search"})
           /\ Len(section.records) \in Nat /\ Cardinality(section.errors \ {"search"}) \in Nat
           /\ \A r \in Gmail!Reasons : stats.dropped[r] \in Nat
           /\ stats.unknown \in Nat
<1>1. /\ at \in Nat /\ at < Gmail!ToRead(found) /\ Gmail!ToRead(found) \in 0..Len(found)
      /\ Len(found) \in Nat /\ DOMAIN found = 1..Len(found) /\ found \in Seq(Threads)
    BY ToReadOfMail DEF GmailFact, GmailTyped, GmailPhases
<1>2. at + 1 \in DOMAIN found /\ found[at + 1] \in Threads
    BY <1>1
<1>3. found[at + 1] \notin section.errors
    <2>1. found[at + 1] # "search"
        BY <1>2, GmailConstants
    <2>2. \A i \in 1..at : i \in DOMAIN found /\ i # at + 1
        BY <1>1
    <2>3. \A i \in 1..at : found[i] # found[at + 1]
        BY <1>2, <2>2 DEF GmailFact, GmailTyped, IsInjective
    <2>4. QED
        BY <2>1, <2>3 DEF GmailFact, GmailCounts
<1>4. IsFiniteSet(section.errors \ {"search"})
    <2>1. section.errors \ {"search"} \in SUBSET Threads
        BY DEF GmailFact, GmailTyped
    <2>2. QED
        BY <2>1, GmailConstants, FS_Subset
<1>5. Cardinality(section.errors \ {"search"}) \in Nat
    BY <1>4, FS_CardinalityType
<1>6. Len(section.records) \in Nat /\ stats.unknown \in Nat
    BY DEF GmailFact, GmailTyped
<1>7. \A r \in Gmail!Reasons : stats.dropped[r] \in Nat
    BY DEF GmailFact, GmailTyped
<1>8. QED
    BY <1>1, <1>2, <1>3, <1>4, <1>5, <1>6, <1>7

LEMMA GmailReadFails ==
    ASSUME GmailFact, Gmail!ReadFails
    PROVE  GmailFact'
<1>1. /\ phase = "read" /\ section' = Gmail!NoteError(section, found[at + 1])
      /\ Gmail!NextThread
      /\ log' = log /\ minAge' = minAge /\ page' = page /\ found' = found /\ stats' = stats
      /\ began' = began
    BY DEF Gmail!ReadFails
<1>2. PICK t : t = found[at + 1]
    OBVIOUS
<1>3. /\ at \in Nat /\ t \in Threads /\ t # "search" /\ t \notin section.errors
      /\ IsFiniteSet(section.errors \ {"search"})
      /\ Len(section.records) \in Nat /\ Cardinality(section.errors \ {"search"}) \in Nat
    BY <1>1, <1>2, NextThreadIs, GmailConstants
<1>4. /\ section' \in [errors : SUBSET (Threads \cup {"search"}), callsOk : BOOLEAN,
                       records : Seq(MailRecord)]
      /\ section'.errors = section.errors \cup {t} /\ section'.records = section.records
    <2>1. section \in [errors : SUBSET (Threads \cup {"search"}), callsOk : BOOLEAN,
                       records : Seq(MailRecord)]
        BY DEF GmailFact, GmailTyped
    <2>2. section' = [section EXCEPT !.errors = section.errors \cup {t}]
        BY <1>1, <1>2 DEF Gmail!NoteError
    <2>3. QED
        BY <1>3, <2>1, <2>2
<1>5. Gmail!ReportedThreads' = Gmail!ReportedThreads
    BY <1>4 DEF Gmail!ReportedThreads
<1>6. /\ GmailTyped' /\ GmailSearched' /\ GmailRead' /\ GmailPhases' /\ at' = at + 1
    <2>1. stats' \in [dropped : [Gmail!Reasons -> Nat], unknown : Nat, truncated : Nat,
                      searchTruncated : BOOLEAN]
        BY <1>1 DEF GmailFact, GmailTyped
    <2>2. QED
        BY <1>1, <1>2, <1>3, <1>4, <1>5, <2>1, OneMoreRead
<1>7. GmailCounts'
    <2> DEFINE E == section.errors \ {"search"}
    <2>1. section'.errors \ {"search"} = E \cup {t} /\ t \notin E
        BY <1>3, <1>4
    <2>2. Cardinality(section'.errors \ {"search"}) = Cardinality(E) + 1
        BY <1>3, <2>1, FS_AddElement
    <2>3. E \subseteq {found[i] : i \in 1..at}
        BY DEF GmailFact, GmailCounts
    <2>4. 1..at \subseteq 1..(at + 1) /\ at + 1 \in 1..(at + 1)
        BY <1>3
    <2>5. section'.errors \ {"search"} \subseteq {found[i] : i \in 1..(at + 1)}
        BY <1>2, <2>1, <2>3, <2>4
    <2>6. Gmail!Dropped' = Gmail!Dropped /\ Unknown(section.records)' = Unknown(section.records)
        BY <1>1, <1>4 DEF Gmail!Dropped, Unknown
    <2>7. Gmail!Dropped \in Int
        BY <1>1, NextThreadIs DEF Gmail!Dropped, Gmail!Reasons
    <2> DEFINE l == Len(section.records)
               c == Cardinality(E)
               d == Gmail!Dropped
    <2>8. at = l + c + d
        BY DEF GmailFact, GmailCounts
    <2>9. at + 1 = l + (c + 1) + d
        <3>1. l \in Int /\ c \in Int /\ d \in Int
            BY <1>3, <2>7
        <3> HIDE DEF l, c, d
        <3>2. QED
            BY <2>8, <3>1
    <2>10. at' = Len(section'.records) + Cardinality(section'.errors \ {"search"}) + Gmail!Dropped'
        BY <1>4, <1>6, <2>2, <2>6, <2>9
    <2>11. stats'.unknown = Cardinality(Unknown(section.records)')
        BY <1>1, <2>6 DEF GmailFact, GmailCounts
    <2>12. QED
        BY <1>1, <1>6, <2>5, <2>10, <2>11 DEF GmailCounts
<1>8. QED
    BY <1>6, <1>7 DEF GmailFact

(* A record more; those of the threads that are not known of are counted.  *)
LEMMA UnknownGrows ==
    ASSUME NEW records \in Seq(MailRecord), NEW r \in MailRecord
    PROVE  /\ Cardinality(Unknown(records)) \in Nat
           /\ Cardinality(Unknown(Append(records, r)))
                  = Cardinality(Unknown(records)) + (IF r.known THEN 0 ELSE 1)
<1> DEFINE n == Len(records)
           s == Append(records, r)
<1>1. n \in Nat /\ DOMAIN records = 1..n
    OBVIOUS
<1>2. /\ DOMAIN s = 1..(n + 1) /\ s[n + 1] = r /\ \A i \in 1..n : s[i] = records[i]
    OBVIOUS
<1>3. Unknown(records) \in SUBSET (1..n)
    BY <1>1 DEF Unknown
<1>4. IsFiniteSet(Unknown(records))
    <2>1. IsFiniteSet(1..n)
        BY <1>1, FS_Interval
    <2>2. QED
        BY <1>3, <2>1, FS_Subset
<1>5. n + 1 \notin Unknown(records)
    <2>1. n + 1 \notin 1..n
        BY <1>1
    <2>2. QED
        BY <1>3, <2>1
<1> HIDE DEF s, n
<1>6. \A i : i \in 1..(n + 1) <=> i \in 1..n \/ i = n + 1
    BY <1>1
<1>7. Cardinality(Unknown(records)) \in Nat
    BY <1>4, FS_CardinalityType
<1>8. CASE r.known
    <2>1. Unknown(s) = Unknown(records)
        BY <1>1, <1>2, <1>6, <1>8 DEF Unknown
    <2>2. QED
        BY <1>7, <1>8, <2>1 DEF s
<1>9. CASE ~r.known
    <2>1. Unknown(s) = Unknown(records) \cup {n + 1}
        BY <1>1, <1>2, <1>6, <1>9 DEF Unknown
    <2>2. Cardinality(Unknown(s)) = Cardinality(Unknown(records)) + 1
        BY <1>4, <1>5, <2>1, FS_AddElement
    <2>3. QED
        BY <1>7, <1>9, <2>2 DEF s
<1>10. QED
    BY <1>8, <1>9

LEMMA GmailKeeps ==
    ASSUME GmailFact, phase = "read", Gmail!NextThread, UNCHANGED <<log, minAge, page, found, began>>,
           NEW t \in Threads, found[at + 1] = t, NEW a \in BOOLEAN, Gmail!KeepThread(t, a)
    PROVE  GmailFact'
<1> DEFINE r == [thread |-> t, known |-> a]
           R == section.records
<1>1. /\ section' = Gmail!AddRecords(Gmail!CountOk(section), <<r>>)
      /\ stats' = [stats EXCEPT !.unknown = @ + (IF a THEN 0 ELSE 1)]
    BY DEF Gmail!KeepThread, Gmail!Record
<1>2. r \in MailRecord /\ r.known = a /\ r.thread = t
    BY DEF MailRecord
<1> HIDE DEF r
<1>3. /\ at \in Nat /\ stats.unknown \in Nat
      /\ Len(R) \in Nat /\ Cardinality(section.errors \ {"search"}) \in Nat
      /\ \A q \in Gmail!Reasons : stats.dropped[q] \in Nat
      /\ R \in Seq(MailRecord)
    BY NextThreadIs DEF GmailFact, GmailTyped
<1>4. /\ section' \in [errors : SUBSET (Threads \cup {"search"}), callsOk : BOOLEAN,
                       records : Seq(MailRecord)]
      /\ section'.errors = section.errors /\ section'.records = Append(R, r)
    BY <1>1, <1>2, MailSections DEF GmailFact
<1>5. /\ stats' \in [dropped : [Gmail!Reasons -> Nat], unknown : Nat, truncated : Nat,
                     searchTruncated : BOOLEAN]
      /\ stats'.truncated = stats.truncated /\ stats'.searchTruncated = stats.searchTruncated
      /\ stats'.dropped = stats.dropped
      /\ stats'.unknown = stats.unknown + (IF a THEN 0 ELSE 1)
    <2>1. stats \in [dropped : [Gmail!Reasons -> Nat], unknown : Nat, truncated : Nat,
                     searchTruncated : BOOLEAN]
        BY DEF GmailFact, GmailTyped
    <2>2. stats.unknown + (IF a THEN 0 ELSE 1) \in Nat
        BY <1>3
    <2>3. QED
        BY <1>1, <2>1, <2>2
<1>6. /\ Len(Append(R, r)) = Len(R) + 1 /\ Append(R, r)[Len(R) + 1] = r
      /\ DOMAIN Append(R, r) = 1..(Len(R) + 1) /\ DOMAIN R = 1..Len(R)
      /\ \A i \in 1..Len(R) : Append(R, r)[i] = R[i]
    BY <1>2, <1>3
<1>7. Gmail!ReportedThreads \subseteq Gmail!ReportedThreads' /\ t \in Gmail!ReportedThreads'
    <2>1. \A i \in DOMAIN R : i \in DOMAIN Append(R, r) /\ Append(R, r)[i] = R[i]
        BY <1>3, <1>6
    <2>2. Len(R) + 1 \in DOMAIN Append(R, r)
        BY <1>3, <1>6
    <2>3. QED
        BY <1>2, <1>4, <1>6, <2>1, <2>2 DEF Gmail!ReportedThreads
<1>8. GmailTyped' /\ GmailSearched' /\ GmailRead' /\ GmailPhases' /\ at' = at + 1
    BY <1>4, <1>5, <1>7, OneMoreRead
<1>9. GmailCounts'
    <2> DEFINE l == Len(R)
               c == Cardinality(section.errors \ {"search"})
               d == Gmail!Dropped
    <2>1. Gmail!Dropped' = d
        BY <1>5 DEF Gmail!Dropped
    <2>2. at = l + c + d
        BY DEF GmailFact, GmailCounts
    <2>3. l \in Int /\ c \in Int /\ d \in Int
        BY <1>3 DEF Gmail!Dropped, Gmail!Reasons
    <2>4. at' = (l + 1) + c + d
        <3> HIDE DEF l, c, d
        <3>1. QED
            BY <1>8, <2>2, <2>3
    <2>5. at' = Len(section'.records) + Cardinality(section'.errors \ {"search"}) + Gmail!Dropped'
        BY <1>4, <1>6, <2>1, <2>4
    <2>6. section'.errors \ {"search"} \subseteq {found[i] : i \in 1..(at + 1)}
        <3>1. 1..at \subseteq 1..(at + 1)
            BY <1>3
        <3>2. QED
            BY <1>4, <3>1 DEF GmailFact, GmailCounts
    <2>7. stats'.unknown = Cardinality(Unknown(section'.records))
        <3>1. Cardinality(Unknown(Append(R, r))) = Cardinality(Unknown(R)) + (IF a THEN 0 ELSE 1)
            BY <1>2, <1>3, UnknownGrows
        <3>2. QED
            BY <1>4, <1>5, <3>1 DEF GmailFact, GmailCounts
    <2>8. Unknown(section.records)' = Unknown(section'.records)
        BY DEF Unknown
    <2>9. QED
        BY <1>8, <2>5, <2>6, <2>7, <2>8 DEF GmailCounts
<1>10. QED
    BY <1>8, <1>9 DEF GmailFact

LEMMA GmailDrops ==
    ASSUME GmailFact, phase = "read", Gmail!NextThread, UNCHANGED <<log, minAge, page, found, began>>,
           NEW t \in Threads, found[at + 1] = t, NEW a \in BOOLEAN, Gmail!DropThread(t, a)
    PROVE  GmailFact'
<1> DEFINE q == Gmail!DropReason(t, a)
           R == section.records
<1>1. /\ section' = Gmail!CountOk(section) /\ q # "none"
      /\ stats' = [stats EXCEPT !.dropped[q] = @ + 1]
    BY DEF Gmail!DropThread
<1>2. q \in Gmail!Reasons /\ ~Gmail!IsWaiting(t)
    BY <1>1, DropReasonIs DEF GmailFact
<1> HIDE DEF q
<1>3. /\ at \in Nat /\ Len(R) \in Nat /\ Cardinality(section.errors \ {"search"}) \in Nat
      /\ \A e \in Gmail!Reasons : stats.dropped[e] \in Nat
    BY NextThreadIs
<1>4. /\ section' \in [errors : SUBSET (Threads \cup {"search"}), callsOk : BOOLEAN,
                       records : Seq(MailRecord)]
      /\ section'.errors = section.errors /\ section'.records = R
    <2>1. section \in [errors : SUBSET (Threads \cup {"search"}), callsOk : BOOLEAN,
                       records : Seq(MailRecord)]
        BY DEF GmailFact, GmailTyped
    <2>2. QED
        BY <1>1, <2>1 DEF Gmail!CountOk
<1>5. /\ stats' \in [dropped : [Gmail!Reasons -> Nat], unknown : Nat, truncated : Nat,
                     searchTruncated : BOOLEAN]
      /\ stats'.truncated = stats.truncated /\ stats'.searchTruncated = stats.searchTruncated
      /\ stats'.unknown = stats.unknown
      /\ stats'.dropped = [stats.dropped EXCEPT ![q] = @ + 1]
    <2>1. stats \in [dropped : [Gmail!Reasons -> Nat], unknown : Nat, truncated : Nat,
                     searchTruncated : BOOLEAN]
        BY DEF GmailFact, GmailTyped
    <2> DEFINE D == [stats.dropped EXCEPT ![q] = @ + 1]
    <2>2. D \in [Gmail!Reasons -> Nat]
        BY <1>2, <1>3, <2>1
    <2>3. stats' = [stats EXCEPT !.dropped = D]
        BY <1>1
    <2> HIDE DEF D
    <2>4. QED
        BY <2>1, <2>2, <2>3 DEF D
<1>6. Gmail!Dropped' = Gmail!Dropped + 1
    <2>1. stats.dropped \in [Gmail!Reasons -> Nat]
        BY DEF GmailFact, GmailTyped
    <2> DEFINE D == stats.dropped
    <2>2. \A e \in Gmail!Reasons : stats'.dropped[e] = IF e = q THEN D[e] + 1 ELSE D[e]
        BY <1>2, <1>5, <2>1
    <2> HIDE DEF D
    <2>3. \A e \in Gmail!Reasons : D[e] \in Int
        BY <1>3 DEF D
    <2>4. Gmail!Dropped = D["self"] + D["noise"] + D["not_owed"] + D["old"] + D["fresh"]
        BY DEF Gmail!Dropped, D
    <2> DEFINE F == stats'.dropped
    <2>5. Gmail!Dropped' = F["self"] + F["noise"] + F["not_owed"] + F["old"] + F["fresh"]
        BY DEF Gmail!Dropped
    <2>6. \A e \in Gmail!Reasons : F[e] = IF e = q THEN D[e] + 1 ELSE D[e]
        BY <2>2
    <2> HIDE DEF F
    <2>7. QED
        BY <1>2, <2>3, <2>4, <2>5, <2>6 DEF Gmail!Reasons
<1>7. Gmail!ReportedThreads' = Gmail!ReportedThreads
    BY <1>4 DEF Gmail!ReportedThreads
<1>8. GmailTyped' /\ GmailSearched' /\ GmailRead' /\ GmailPhases' /\ at' = at + 1
    BY <1>2, <1>4, <1>5, <1>7, OneMoreRead
<1>9. GmailCounts'
    <2> DEFINE l == Len(R)
               c == Cardinality(section.errors \ {"search"})
               d == Gmail!Dropped
    <2>1. at = l + c + d
        BY DEF GmailFact, GmailCounts
    <2>2. l \in Int /\ c \in Int /\ d \in Int
        BY <1>3 DEF Gmail!Dropped, Gmail!Reasons
    <2>3. at' = l + c + (d + 1)
        <3> HIDE DEF l, c, d
        <3>1. QED
            BY <1>8, <2>1, <2>2
    <2>4. at' = Len(section'.records) + Cardinality(section'.errors \ {"search"}) + Gmail!Dropped'
        BY <1>4, <1>6, <2>3
    <2>5. section'.errors \ {"search"} \subseteq {found[i] : i \in 1..(at + 1)}
        <3>1. 1..at \subseteq 1..(at + 1)
            BY <1>3
        <3>2. QED
            BY <1>4, <3>1 DEF GmailFact, GmailCounts
    <2>6. Unknown(section.records)' = Unknown(section.records)
        BY <1>4 DEF Unknown
    <2>7. stats'.unknown = Cardinality(Unknown(section.records)')
        BY <1>5, <2>6 DEF GmailFact, GmailCounts
    <2>8. QED
        BY <1>8, <2>4, <2>5, <2>7 DEF GmailCounts
<1>10. QED
    BY <1>8, <1>9 DEF GmailFact

LEMMA GmailReads ==
    ASSUME GmailFact, Gmail!ReadThread
    PROVE  GmailFact'
<1>1. /\ phase = "read" /\ Gmail!NextThread
      /\ log' = log /\ minAge' = minAge /\ page' = page /\ found' = found /\ began' = began
    BY DEF Gmail!ReadThread
<1>2. PICK t : t = found[at + 1]
    OBVIOUS
<1>3. t \in Threads
    BY <1>1, <1>2, NextThreadIs
<1>4. PICK a \in BOOLEAN : Gmail!KeepThread(t, a) \/ Gmail!DropThread(t, a)
    BY <1>2 DEF Gmail!ReadThread
<1>5. QED
    BY <1>1, <1>2, <1>3, <1>4, GmailKeeps, GmailDrops

LEMMA GmailStutters ==
    ASSUME GmailFact, UNCHANGED Gmail!vars
    PROVE  GmailFact'
<1>1. /\ log' = log /\ minAge' = minAge /\ phase' = phase /\ page' = page /\ found' = found
      /\ at' = at /\ section' = section /\ stats' = stats /\ began' = began
    BY DEF Gmail!vars
<1>2. WantedThreads' = WantedThreads /\ \A t : Above(t)' = Above(t)
    BY <1>1, SameMail
<1>3. GmailTyped' /\ GmailPhases' /\ GmailCounts'
    <2>1. GmailTyped'
        BY <1>1 DEF GmailFact, GmailTyped
    <2>2. GmailPhases'
        BY <1>1 DEF GmailFact, GmailPhases, Gmail!ToRead
    <2>3. GmailCounts'
        BY <1>1 DEF GmailFact, GmailCounts, Gmail!Dropped, Unknown
    <2>4. QED
        BY <2>1, <2>2, <2>3
<1>4. GmailSearched'
    BY <1>1, <1>2 DEF GmailFact, GmailSearched, ThreadsFound, AllThreadsFound
<1>5. GmailRead'
    BY <1>1 DEF GmailFact, GmailRead, ThreadRead, Gmail!ReportedThreads, Gmail!IsWaiting,
                Gmail!Listed, Gmail!LastMail, Gmail!LastKind
<1>6. QED
    BY <1>3, <1>4, <1>5 DEF GmailFact

LEMMA GmailSteps ==
    ASSUME [Next]_vars, collector = "gmail_waiting"
    PROVE  Gmail!Next \/ UNCHANGED Gmail!vars
<1>1. CASE UNCHANGED vars
    BY <1>1 DEF vars, gmailVars, Gmail!vars
<1>2. CASE Next
    BY <1>2 DEF Next, Gmail!Next, IsNagios, IsDaily, IsIssue, IsCalendar, Daily!Kinds, Issue!Kinds
<1>3. QED
    BY <1>1, <1>2

LEMMA NextGmail == GmailInv /\ [Next]_vars => GmailInv'
<1> SUFFICES ASSUME GmailInv, [Next]_vars, collector' = "gmail_waiting" PROVE GmailFact'
    BY DEF GmailInv
<1>1. collector = "gmail_waiting" /\ GmailFact
    BY OneCollector DEF GmailInv
<1>2. QED
    BY <1>1, GmailSteps, GmailStutters, GmailArrives, GmailBegins, GmailSearchPages,
       GmailSearchFails, GmailReads, GmailReadFails
       DEF Gmail!Next

(* "Missing a thread the user owes is worse than showing one the reader    *)
(* can dismiss" (gmail_waiting): a thread where a reply is owed is in the  *)
(* section, or the section says that a call failed or that it was cut, for *)
(* any mailbox, any page size and caps, and whatever mail arrives between  *)
(* any two calls.                                                          *)
THEOREM NoMailTheorem == Spec => []NoMailLost
<1>1. GmailInv => NoMailLost
    <2> SUFFICES ASSUME GmailFact, phase = "done", NEW t \in Threads, Gmail!IsWaiting(t),
                        "search" \notin section.errors, ~stats.searchTruncated,
                        ~(stats.truncated > 0)
                 PROVE  t \in Gmail!ReportedThreads \/ t \in section.errors
        BY DEF GmailInv, NoMailLost, Gmail!NoMailLost
    <2>1. t \in ToSet(found)
        BY WaitingIsWanted DEF GmailFact, GmailSearched, AllThreadsFound
    <2>2. PICK i \in DOMAIN found : found[i] = t
        BY <2>1 DEF ToSet
    <2>3. /\ stats.truncated = Len(found) - Gmail!ToRead(found) /\ at = Gmail!ToRead(found)
          /\ stats.truncated \in Nat /\ at \in Nat /\ Len(found) \in Nat
          /\ DOMAIN found = 1..Len(found)
        BY DEF GmailFact, GmailTyped, GmailPhases
    <2>4. i \in 1..at
        BY <2>2, <2>3
    <2>5. QED
        BY <2>2, <2>4 DEF GmailFact, GmailRead, ThreadRead
<1>2. QED
    BY InitGmail, NextGmail, <1>1, PTL DEF Spec

(* Every thread found is in the section's numbers exactly once: as a       *)
(* record, as dropped for a reason, as failed or as cut (_gmail_record).   *)
THEOREM EachThreadTheorem == Spec => []EachThreadOnce
<1>1. GmailInv => EachThreadOnce
    <2> SUFFICES ASSUME GmailFact, phase = "done" PROVE Gmail!EachThreadOnce
        BY DEF GmailInv, EachThreadOnce, Gmail!EachThreadOnce
    <2>1. Gmail!IsInjective(found)
        BY GmailLibrary DEF GmailFact, GmailTyped
    <2> DEFINE n == Len(found)
               k == Gmail!ToRead(found)
               l == Len(section.records)
               c == Cardinality(section.errors \ {"search"})
               d == Gmail!Dropped
    <2>2. stats.truncated = n - k /\ at = k /\ at = l + c + d
        BY DEF GmailFact, GmailPhases, GmailCounts
    <2>3. n \in Int /\ l \in Int /\ c \in Int /\ d \in Int
        <3>1. \A r \in Gmail!Reasons : stats.dropped[r] \in Int
            BY DEF GmailFact, GmailTyped
        <3>2. d \in Int
            BY <3>1 DEF Gmail!Dropped, Gmail!Reasons
        <3>3. section.errors \ {"search"} \in SUBSET Threads
            BY DEF GmailFact, GmailTyped
        <3>4. IsFiniteSet(section.errors \ {"search"})
            BY <3>3, GmailConstants, FS_Subset
        <3>5. c \in Int
            BY <3>4, FS_CardinalityType
        <3>6. QED
            BY <3>2, <3>5 DEF GmailFact, GmailTyped
    <2>4. n = l + stats.truncated + c + d
        <3> HIDE DEF n, k, l, c, d
        <3>1. QED
            BY <2>2, <2>3
    <2>5. Len(found) = Len(section.records) + stats.truncated
                       + Gmail!Cardinality(section.errors \ {"search"}) + Gmail!Dropped
        BY <2>4, GmailLibrary
    <2>6. stats.unknown = Gmail!Quantify(DOMAIN section.records,
                                         LAMBDA i : ~section.records[i].known)
        <3>1. stats.unknown = Gmail!Cardinality(Unknown(section.records))
            BY GmailLibrary DEF GmailFact, GmailCounts
        <3>2. QED
            BY <3>1 DEF Gmail!Quantify, Unknown
    <2>7. QED
        BY <2>1, <2>5, <2>6 DEF Gmail!EachThreadOnce
<1>2. QED
    BY InitGmail, NextGmail, <1>1, PTL DEF Spec
-----------------------------------------------------------------------------
(* The issues.  The parse of a body is a recursive function of the number  *)
(* of lines read; what it makes of them is shown line by line.             *)

PartName == Issue!Parts \cup {"none"}

IssueItem == [kind : {"item"}, repo : Repos, version : Versions \cup {Issue!NoVersion}]

IssueLine ==
    {Issue!Heading(p) : p \in Issue!Parts} \cup IssueItem \cup {Issue!More(2), Issue!Prose}

BodyFits ==
    /\ body \in Seq(IssueLine)
    /\ \A i, j \in DOMAIN body : body[i].kind = "heading" /\ body[i] = body[j] => i = j

IssuePart == [items : Seq(IssueItem), more : Nat]

(* The library is the same in RecordIssue.                                 *)
LEMMA IssueLibrary ==
    ASSUME NEW S
    PROVE  /\ Issue!Cardinality(S) = Cardinality(S)
           /\ Issue!IsFiniteSet(S) <=> IsFiniteSet(S)
           /\ Issue!Min(S) = Min(S) /\ Issue!Max(S) = Max(S) /\ Issue!ToSet(S) = ToSet(S)
           /\ Issue!IsInjective(S) = IsInjective(S)
<1>1. Issue!Cardinality(S) = Cardinality(S)
    BY DEF Issue!Cardinality, Cardinality
<1>2. Issue!IsFiniteSet(S) <=> IsFiniteSet(S)
    BY DEF Issue!IsFiniteSet, IsFiniteSet
<1>3. Issue!Min(S) = Min(S) /\ Issue!Max(S) = Max(S) /\ Issue!ToSet(S) = ToSet(S)
    BY DEF Issue!Min, Min, Issue!Max, Max, Issue!ToSet, ToSet
<1>4. Issue!IsInjective(S) = IsInjective(S)
    BY DEF Issue!IsInjective, IsInjective
<1>5. QED
    BY <1>1, <1>2, <1>3, <1>4

LEMMA IssueConstants ==
    /\ IsFiniteSet(Repos) /\ Versions \subseteq [n : Nat, rc : Nat]
    /\ Published # OtherPart /\ "none" \notin Issue!Parts
    /\ MaxParsed \in Nat \ {0} /\ MaxListed \in Nat \ {0}
    /\ MaxContainers \in Nat /\ MaxLines \in Nat
<1> DEFINE S == {Published, OtherPart, "none"}
<1>1. Issue!Constants
    BY CollectorsAssumption
<1>2. Cardinality(S) = 3
    <2>1. Issue!Cardinality(S) = 3
        BY <1>1 DEF Issue!Constants
    <2>2. QED
        BY <2>1, IssueLibrary
<1>3. \A a, b : Cardinality({a, b}) # 3
    <2> SUFFICES ASSUME NEW a, NEW b PROVE Cardinality({a, b}) # 3
        OBVIOUS
    <2>1. IsFiniteSet({a}) /\ Cardinality({a}) = 1
        BY FS_Singleton
    <2>2. Cardinality({a} \cup {b}) \in {1, 2}
        BY <2>1, FS_AddElement
    <2>3. {a} \cup {b} = {a, b}
        OBVIOUS
    <2>4. QED
        BY <2>2, <2>3
<1>4. Published # OtherPart
    <2>1. Published = OtherPart => S = {Published, "none"}
        OBVIOUS
    <2>2. QED
        BY <1>2, <1>3, <2>1
<1>5. "none" \notin Issue!Parts
    <2>1. "none" \in {Published, OtherPart} => S = {Published, OtherPart}
        OBVIOUS
    <2>2. QED
        BY <1>2, <1>3, <2>1 DEF Issue!Parts
<1>6. IsFiniteSet(Repos)
    BY <1>1, IssueLibrary DEF Issue!Constants
<1>7. QED
    BY <1>1, <1>4, <1>5, <1>6 DEF Issue!Constants

LEMMA LineIs ==
    ASSUME NEW l \in IssueLine
    PROVE  /\ l.kind \in {"heading", "item", "more", "prose"}
           /\ l.kind = "heading" => l.part \in Issue!Parts /\ l = Issue!Heading(l.part)
           /\ l.kind = "item" => l \in IssueItem
           /\ l.kind = "more" => l.n \in Nat
<1>1. CASE \E p \in Issue!Parts : l = Issue!Heading(p)
    BY <1>1 DEF Issue!Heading
<1>2. CASE l \in IssueItem
    BY <1>2 DEF IssueItem
<1>3. CASE l = Issue!More(2)
    BY <1>3 DEF Issue!More
<1>4. CASE l = Issue!Prose
    BY <1>4 DEF Issue!Prose
<1>5. QED
    BY <1>1, <1>2, <1>3, <1>4 DEF IssueLine

IsParse(m, f) ==
    f = [n \in 0..m |-> IF n = 0 THEN Issue!NoParts ELSE Issue!ParseLine(f[n - 1], body[n])]

(* The recursion is well founded: there is such a function.  A least       *)
(* number of lines without one is not 0, and is not next to one with one.  *)
LEMMA ParseIsThere ==
    ASSUME NEW m \in Nat
    PROVE  \E f : IsParse(m, f)
<1> DEFINE W == {k \in 0..m : ~\E f : IsParse(k, f)}
<1> SUFFICES ASSUME W # {} PROVE FALSE
    OBVIOUS
<1>1. PICK k \in W : \A j \in W : k <= j
    <2>1. W \in SUBSET Int /\ W \in SUBSET (0..m)
        OBVIOUS
    <2> HIDE DEF W
    <2>2. IsFiniteSet(0..m)
        BY FS_Interval
    <2>3. IsFiniteSet(W)
        BY <2>1, <2>2, FS_Subset
    <2>4. QED
        BY <2>1, <2>3, FirstIsThere
<1>2. k \in 0..m /\ ~\E f : IsParse(k, f)
    OBVIOUS
<1>3. CASE k = 0
    <2> DEFINE f == [n \in 0..0 |-> Issue!NoParts]
    <2>1. f = [n \in 0..0 |-> IF n = 0 THEN Issue!NoParts ELSE Issue!ParseLine(f[n - 1], body[n])]
        OBVIOUS
    <2>2. IsParse(k, f)
        BY <1>3, <2>1 DEF IsParse
    <2>3. QED
        BY <1>2, <2>2
<1>4. CASE k > 0
    <2>1. k - 1 \in 0..m /\ k - 1 \notin W
        BY <1>1, <1>2, <1>4
    <2>2. PICK f : IsParse(k - 1, f)
        BY <2>1
    <2> DEFINE Def(h, n) == IF n = 0 THEN Issue!NoParts ELSE Issue!ParseLine(h[n - 1], body[n])
               g == [n \in 0..k |-> IF n = k THEN Issue!ParseLine(f[k - 1], body[k]) ELSE f[n]]
    <2>3. f = [n \in 0..(k - 1) |-> Def(f, n)]
        BY <2>2 DEF IsParse
    <2>4. \A n \in 0..(k - 1) : f[n] = Def(f, n)
        BY <2>3
    <2>5. \A n \in 0..k : g[n] = Def(g, n)
        <3> SUFFICES ASSUME NEW n \in 0..k PROVE g[n] = Def(g, n)
            OBVIOUS
        <3>1. n # 0 => n - 1 \in 0..k /\ n - 1 # k /\ g[n - 1] = f[n - 1]
            BY <1>4
        <3>2. CASE n = k
            BY <1>4, <3>1, <3>2
        <3>3. CASE n # k
            <4>1. n \in 0..(k - 1) /\ g[n] = f[n]
                BY <1>4, <3>3
            <4>2. QED
                BY <2>4, <3>1, <4>1
        <3>4. QED
            BY <3>2, <3>3
    <2>6. g = [n \in 0..k |-> Def(g, n)]
        <3>1. g = [n \in 0..k |-> g[n]]
            OBVIOUS
        <3> HIDE DEF g, Def
        <3>2. QED
            BY <2>5, <3>1
    <2>7. IsParse(k, g)
        BY <2>6 DEF IsParse
    <2>8. QED
        BY <1>2, <2>7
<1>5. QED
    BY <1>2, <1>3, <1>4

LEMMA ParsedIs ==
    ASSUME body \in Seq(IssueLine)
    PROVE  \E f : IsParse(Len(body), f) /\ Issue!Parsed(body) = f[Len(body)].parts
<1> DEFINE F == CHOOSE f : IsParse(Len(body), f)
<1>1. IsParse(Len(body), F)
    BY ParseIsThere
<1>2. Issue!Parsed(body) = F[Len(body)].parts
    BY DEF Issue!Parsed, IsParse
<1>3. QED
    BY <1>1, <1>2

PartsMap == UNION {[P -> IssuePart] : P \in SUBSET Issue!Parts}

ParseState == [part : PartName, seen : Nat, parts : PartsMap]

PartAt(s, p, part) == [q \in DOMAIN s.parts \cup {p} |-> IF q = p THEN part ELSE s.parts[q]]

(* What each kind of line does to the parse.                               *)
LEMMA ParseHeading ==
    ASSUME NEW s \in ParseState, NEW p \in Issue!Parts
    PROVE  Issue!ParseLine(s, Issue!Heading(p))
            = [part |-> p, seen |-> s.seen, parts |-> PartAt(s, p, Issue!NewPart)]
<1> DEFINE l == Issue!Heading(p)
           new == [q \in DOMAIN s.parts \cup {p} |-> IF q = p THEN Issue!NewPart ELSE s.parts[q]]
<1>1. l.kind = "heading" /\ l.part = p
    BY DEF Issue!Heading
<1>2. new = PartAt(s, p, Issue!NewPart)
    BY DEF PartAt
<1>3. Issue!ParseLine(s, l) = [s EXCEPT !.part = p, !.parts = new]
    <2> HIDE DEF l
    <2>1. QED
        BY <1>1 DEF Issue!ParseLine
<1> HIDE DEF new
<1>4. [s EXCEPT !.part = p, !.parts = new] = [part |-> p, seen |-> s.seen, parts |-> new]
    <2> DEFINE t == [s EXCEPT !.part = p, !.parts = new]
    <2>1. t \in [part : {p}, seen : {s.seen}, parts : {new}]
        BY DEF ParseState
    <2> HIDE DEF t
    <2>2. t = [part |-> p, seen |-> s.seen, parts |-> new]
        BY <2>1
    <2>3. QED
        BY <2>2 DEF t
<1>5. QED
    BY <1>2, <1>3, <1>4

LEMMA ParseMore ==
    ASSUME NEW s \in ParseState, NEW l \in IssueLine, l.kind = "more",
           s.part \in DOMAIN s.parts, s.part # "none"
    PROVE  Issue!ParseLine(s, l)
            = [s EXCEPT !.parts = PartAt(s, s.part, [items |-> s.parts[s.part].items, more |-> l.n])]
<1> DEFINE part == [items |-> s.parts[s.part].items, more |-> l.n]
           new == [s.parts EXCEPT ![s.part].more = l.n]
<1>1. s.parts[s.part] \in IssuePart
    BY DEF ParseState, PartsMap
<1>2. [s.parts[s.part] EXCEPT !.more = l.n] = part
    BY <1>1 DEF IssuePart
<1>3. new = [s.parts EXCEPT ![s.part] = part]
    BY <1>2
<1>4. [s.parts EXCEPT ![s.part] = part] = PartAt(s, s.part, part)
    <2> HIDE DEF part
    <2>1. QED
        BY DEF PartAt, ParseState, PartsMap
<1>5. Issue!ParseLine(s, l) = [s EXCEPT !.parts[s.part].more = l.n]
    BY DEF Issue!ParseLine
<1>6. [s EXCEPT !.parts[s.part].more = l.n] = [s EXCEPT !.parts = new]
    BY DEF ParseState
<1>7. QED
    BY <1>3, <1>4, <1>5, <1>6

LEMMA ParseItem ==
    ASSUME NEW s \in ParseState, NEW l \in IssueItem,
           s.part \in DOMAIN s.parts, s.part # "none", s.seen < MaxParsed
    PROVE  Issue!ParseLine(s, l)
            = [s EXCEPT !.parts = PartAt(s, s.part, [items |-> Append(s.parts[s.part].items, l),
                                                     more |-> s.parts[s.part].more]),
                        !.seen = @ + 1]
<1> DEFINE longer == Append(s.parts[s.part].items, l)
           part == [items |-> longer, more |-> s.parts[s.part].more]
           new == [s.parts EXCEPT ![s.part].items = longer]
<1>1. s.parts[s.part] \in IssuePart
    BY DEF ParseState, PartsMap
<1>2. [s.parts[s.part] EXCEPT !.items = longer] = part
    <2> HIDE DEF longer
    <2>1. QED
        BY <1>1 DEF IssuePart
<1>3. new = [s.parts EXCEPT ![s.part] = part]
    BY <1>2
<1>4. [s.parts EXCEPT ![s.part] = part] = PartAt(s, s.part, part)
    <2> HIDE DEF part
    <2>1. QED
        BY DEF PartAt, ParseState, PartsMap
<1>5. Issue!ParseLine(s, l) = [s EXCEPT !.parts[s.part].items = Append(@, l), !.seen = @ + 1]
    <2>1. l.kind = "item"
        BY DEF IssueItem
    <2>2. QED
        BY <2>1 DEF Issue!ParseLine
<1>6. [s EXCEPT !.parts[s.part].items = Append(@, l), !.seen = @ + 1]
        = [s EXCEPT !.parts = new, !.seen = @ + 1]
    BY DEF ParseState
<1>7. QED
    BY <1>3, <1>4, <1>5, <1>6

LEMMA ParseNothing ==
    ASSUME NEW s \in ParseState, NEW l \in IssueLine,
           \/ l.kind = "prose"
           \/ l.kind = "more" /\ s.part = "none"
           \/ l.kind = "item" /\ (s.part = "none" \/ ~(s.seen < MaxParsed))
    PROVE  Issue!ParseLine(s, l) = s
BY DEF Issue!ParseLine

LEMMA PartAtIs ==
    ASSUME NEW s \in ParseState, NEW p \in Issue!Parts, NEW part \in IssuePart
    PROVE  /\ PartAt(s, p, part) \in PartsMap
           /\ DOMAIN PartAt(s, p, part) = DOMAIN s.parts \cup {p}
           /\ PartAt(s, p, part)[p] = part
           /\ \A q \in DOMAIN s.parts : q # p => PartAt(s, p, part)[q] = s.parts[q]
<1>1. DOMAIN s.parts \in SUBSET Issue!Parts /\ \A q \in DOMAIN s.parts : s.parts[q] \in IssuePart
    BY DEF ParseState, PartsMap
<1>2. PartAt(s, p, part) \in [DOMAIN s.parts \cup {p} -> IssuePart]
    BY <1>1 DEF PartAt
<1>3. PartAt(s, p, part) \in PartsMap
    BY <1>1, <1>2 DEF PartsMap
<1>4. QED
    BY <1>2, <1>3 DEF PartAt

(* Where the body is after n lines: under which heading, after which, and  *)
(* what it has had.                                                        *)
InPart(p, n) ==
    \E h \in 1..n :
        body[h] = Issue!Heading(p) /\ \A j \in h..n : body[j].kind = "heading" => j = h

HasPart(p, n) == \E h \in 1..n : body[h] = Issue!Heading(p)

UnderTo(p, kind, n) == {i \in Issue!Under(p, kind) : i <= n}

ItemsTo(n) == {i \in 1..n : body[i].kind = "item"}

LEMMA HeadingComes ==
    ASSUME BodyFits, NEW n \in Nat, n + 1 \in DOMAIN body,
           NEW q \in Issue!Parts, body[n + 1] = Issue!Heading(q)
    PROVE  /\ ~HasPart(q, n)
           /\ \A p \in Issue!Parts : /\ InPart(p, n + 1) <=> p = q
                                     /\ HasPart(p, n + 1) <=> HasPart(p, n) \/ p = q
<1>1. body[n + 1].kind = "heading" /\ body[n + 1].part = q
    BY DEF Issue!Heading
<1>2. \A h \in 1..n : h \in DOMAIN body /\ h # n + 1
    BY DEF BodyFits
<1>3. ~HasPart(q, n)
    BY <1>1, <1>2 DEF BodyFits, HasPart
<1>4. ASSUME NEW p \in Issue!Parts PROVE HasPart(p, n + 1) <=> HasPart(p, n) \/ p = q
    <2>1. body[n + 1] = Issue!Heading(p) <=> p = q
        BY DEF Issue!Heading
    <2>2. \A h : h \in 1..(n + 1) <=> h \in 1..n \/ h = n + 1
        OBVIOUS
    <2>3. QED
        BY <2>1, <2>2 DEF HasPart
<1>5. ASSUME NEW p \in Issue!Parts PROVE InPart(p, n + 1) <=> p = q
    <2>1. ASSUME InPart(p, n + 1) PROVE p = q
        <3>1. PICK h \in 1..(n + 1) : /\ body[h] = Issue!Heading(p)
                                      /\ \A j \in h..(n + 1) : body[j].kind = "heading" => j = h
            BY <2>1 DEF InPart
        <3>2. h = n + 1
            BY <1>1, <3>1
        <3>3. body[h].part = p
            BY <3>1 DEF Issue!Heading
        <3>4. QED
            BY <1>1, <3>2, <3>3
    <2>2. InPart(q, n + 1)
        <3>1. n + 1 \in 1..(n + 1) /\ \A j \in (n + 1)..(n + 1) : j = n + 1
            OBVIOUS
        <3>2. QED
            BY <3>1 DEF InPart
    <2>3. QED
        BY <2>1, <2>2
<1>6. QED
    BY <1>3, <1>4, <1>5

LEMMA LineComes ==
    ASSUME BodyFits, NEW n \in Nat, n + 1 \in DOMAIN body, body[n + 1].kind # "heading",
           NEW p
    PROVE  (InPart(p, n + 1) <=> InPart(p, n)) /\ (HasPart(p, n + 1) <=> HasPart(p, n))
<1>1. body[n + 1] # Issue!Heading(p)
    BY DEF Issue!Heading
<1>2. \A h : h \in 1..(n + 1) <=> h \in 1..n \/ h = n + 1
    OBVIOUS
<1>3. ASSUME NEW h \in 1..n
      PROVE  (\A j \in h..(n + 1) : body[j].kind = "heading" => j = h)
                <=> \A j \in h..n : body[j].kind = "heading" => j = h
    <2>1. \A j : j \in h..(n + 1) <=> j \in h..n \/ j = n + 1
        OBVIOUS
    <2>2. QED
        BY <2>1
<1>4. QED
    BY <1>1, <1>2, <1>3 DEF InPart, HasPart

LEMMA UnderIs ==
    ASSUME BodyFits, NEW n \in Nat, n + 1 \in DOMAIN body,
           NEW p, NEW kind \in {"item", "more"}
    PROVE  /\ body[n + 1].kind = kind /\ InPart(p, n)
                => UnderTo(p, kind, n + 1) = UnderTo(p, kind, n) \cup {n + 1}
           /\ ~(body[n + 1].kind = kind /\ InPart(p, n))
                => UnderTo(p, kind, n + 1) = UnderTo(p, kind, n)
<1>1. DOMAIN body = 1..Len(body) /\ Len(body) \in Nat
    BY DEF BodyFits
<1>2. n + 1 \in Issue!Under(p, kind) <=> body[n + 1].kind = kind /\ InPart(p, n)
    <2>1. 1..(n + 1 - 1) = 1..n
        OBVIOUS
    <2>2. ASSUME body[n + 1].kind = kind, NEW h \in 1..n
          PROVE  (\A j \in h..(n + 1) : body[j].kind = "heading" => j = h)
                    <=> \A j \in h..n : body[j].kind = "heading" => j = h
        <3>1. \A j : j \in h..(n + 1) <=> j \in h..n \/ j = n + 1
            OBVIOUS
        <3>2. body[n + 1].kind # "heading"
            BY <2>2
        <3>3. QED
            BY <3>1, <3>2
    <2>3. QED
        BY <2>1, <2>2 DEF Issue!Under, InPart
<1>3. Issue!Under(p, kind) \subseteq Int
    BY <1>1 DEF Issue!Under
<1>4. \A i \in Issue!Under(p, kind) : i <= n + 1 <=> i <= n \/ i = n + 1
    BY <1>3
<1>5. QED
    BY <1>2, <1>4 DEF UnderTo

LEMMA UnderToIs ==
    ASSUME BodyFits, NEW n \in Nat, NEW p, NEW kind
    PROVE  /\ UnderTo(p, kind, n) \in SUBSET (1..n) /\ UnderTo(p, kind, n) \in SUBSET Int
           /\ IsFiniteSet(UnderTo(p, kind, n))
           /\ ~HasPart(p, n) => UnderTo(p, kind, n) = {}
           /\ n = Len(body) => UnderTo(p, kind, n) = Issue!Under(p, kind)
<1>1. DOMAIN body = 1..Len(body) /\ Len(body) \in Nat
    BY DEF BodyFits
<1>2. Issue!Under(p, kind) \subseteq 1..Len(body)
    BY <1>1 DEF Issue!Under
<1>3. UnderTo(p, kind, n) \in SUBSET (1..n) /\ UnderTo(p, kind, n) \in SUBSET Int
    BY <1>1, <1>2 DEF UnderTo
<1>4. IsFiniteSet(1..n)
    BY FS_Interval
<1>5. IsFiniteSet(UnderTo(p, kind, n))
    BY <1>3, <1>4, FS_Subset
<1>6. ASSUME NEW i \in UnderTo(p, kind, n) PROVE HasPart(p, n)
    <2>1. PICK h \in 1..(i - 1) : body[h] = Issue!Heading(p)
        BY DEF UnderTo, Issue!Under
    <2>2. h \in 1..n
        BY <1>3, <2>1
    <2>3. QED
        BY <2>1, <2>2 DEF HasPart
<1>7. n = Len(body) => UnderTo(p, kind, n) = Issue!Under(p, kind)
    BY <1>1, <1>2 DEF UnderTo
<1>8. QED
    BY <1>3, <1>5, <1>6, <1>7

LEMMA ItemsToIs ==
    ASSUME BodyFits, NEW n \in Nat, n + 1 \in DOMAIN body
    PROVE  /\ Cardinality(ItemsTo(n)) \in Nat /\ Cardinality(ItemsTo(n + 1)) \in Nat
           /\ Cardinality(ItemsTo(n)) <= Cardinality(ItemsTo(n + 1))
           /\ body[n + 1].kind = "item" =>
                /\ Cardinality(ItemsTo(n + 1)) = Cardinality(ItemsTo(n)) + 1
                /\ Issue!Readable => Cardinality(ItemsTo(n)) < MaxParsed
<1> DEFINE All == {i \in DOMAIN body : body[i].kind = "item"}
<1>1. DOMAIN body = 1..Len(body) /\ Len(body) \in Nat
    BY DEF BodyFits
<1>2. IsFiniteSet(1..n) /\ IsFiniteSet(1..(n + 1)) /\ IsFiniteSet(1..Len(body))
    BY <1>1, FS_Interval
<1>3. ItemsTo(n) \in SUBSET (1..n) /\ ItemsTo(n + 1) \in SUBSET (1..(n + 1))
    BY DEF ItemsTo
<1>4. IsFiniteSet(ItemsTo(n)) /\ IsFiniteSet(ItemsTo(n + 1))
    BY <1>2, <1>3, FS_Subset
<1>5. Cardinality(ItemsTo(n)) \in Nat /\ Cardinality(ItemsTo(n + 1)) \in Nat
    BY <1>4, FS_CardinalityType
<1>6. ItemsTo(n) \in SUBSET ItemsTo(n + 1)
    BY DEF ItemsTo
<1>7. Cardinality(ItemsTo(n)) <= Cardinality(ItemsTo(n + 1))
    BY <1>4, <1>6, FS_Subset
<1>8. ASSUME body[n + 1].kind = "item"
      PROVE  /\ Cardinality(ItemsTo(n + 1)) = Cardinality(ItemsTo(n)) + 1
             /\ Issue!Readable => Cardinality(ItemsTo(n)) < MaxParsed
    <2>1. ItemsTo(n + 1) = ItemsTo(n) \cup {n + 1}
        BY <1>8 DEF ItemsTo
    <2>2. n + 1 \notin ItemsTo(n)
        BY DEF ItemsTo
    <2>3. Cardinality(ItemsTo(n + 1)) = Cardinality(ItemsTo(n)) + 1
        BY <1>4, <2>1, <2>2, FS_AddElement
    <2>4. All \in SUBSET (1..Len(body)) /\ ItemsTo(n + 1) \in SUBSET All
        BY <1>1 DEF ItemsTo
    <2>5. Issue!Readable <=> Cardinality(All) <= MaxParsed
        BY IssueLibrary DEF Issue!Readable, Issue!Quantify
    <2> HIDE DEF All
    <2>6. IsFiniteSet(All)
        BY <1>2, <2>4, FS_Subset
    <2>7. Cardinality(ItemsTo(n + 1)) <= Cardinality(All) /\ Cardinality(All) \in Nat
        BY <2>4, <2>6, FS_Subset, FS_CardinalityType
    <2>8. QED
        BY <1>5, <2>3, <2>5, <2>7, IssueConstants
<1>9. QED
    BY <1>5, <1>7, <1>8

(* What is made of n lines: which part is open, the parts there are, and   *)
(* of each its tail and, if the parser reads so far, its items one by one. *)
Lists(p, n, list) ==
    \E g \in [1..Len(list) -> UnderTo(p, "item", n)] :
        /\ \A a, b \in 1..Len(list) : g[a] = g[b] => a = b
        /\ \A i \in UnderTo(p, "item", n) : \E a \in 1..Len(list) : g[a] = i
        /\ \A a \in 1..Len(list) : list[a] = body[g[a]]

HasTail(p, n, tail) ==
    \/ tail = 0 /\ UnderTo(p, "more", n) = {}
    \/ \E i \in UnderTo(p, "more", n) :
          tail = body[i].n /\ \A j \in UnderTo(p, "more", n) : j <= i

PartFits(p, n, part) ==
    /\ part \in IssuePart
    /\ HasTail(p, n, part.more)
    /\ Issue!Readable => Lists(p, n, part.items)

ParseFits(n, s) ==
    /\ s \in ParseState
    /\ \A p \in Issue!Parts : s.part = p <=> InPart(p, n)
    /\ DOMAIN s.parts = {p \in Issue!Parts : HasPart(p, n)}
    /\ Issue!Readable => s.seen <= Cardinality(ItemsTo(n))
    /\ \A p \in DOMAIN s.parts : PartFits(p, n, s.parts[p])

LEMMA ParseStarts == ParseFits(0, Issue!NoParts)
<1> DEFINE s == Issue!NoParts
<1>1. s.part = "none" /\ s.seen = 0 /\ s.parts = <<>> /\ DOMAIN s.parts = {}
    BY DEF Issue!NoParts
<1>2. s.parts \in [{} -> IssuePart]
    BY <1>1
<1>3. s \in ParseState
    BY <1>1, <1>2 DEF ParseState, PartsMap, PartName, Issue!NoParts
<1>4. \A p : ~InPart(p, 0) /\ ~HasPart(p, 0)
    BY DEF InPart, HasPart
<1>5. \A p \in Issue!Parts : p # "none"
    BY IssueConstants
<1>6. ItemsTo(0) = {}
    BY DEF ItemsTo
<1>7. Cardinality(ItemsTo(0)) = 0
    BY <1>6, FS_EmptySet
<1> HIDE DEF s
<1>8. \A p \in Issue!Parts : s.part = p <=> InPart(p, 0)
    BY <1>1, <1>4, <1>5
<1>9. DOMAIN s.parts = {p \in Issue!Parts : HasPart(p, 0)}
    BY <1>1, <1>4
<1>10. s.seen <= Cardinality(ItemsTo(0))
    BY <1>1, <1>7
<1>11. \A p \in DOMAIN s.parts : FALSE
    BY <1>1
<1>12. ParseFits(0, s)
    BY <1>3, <1>8, <1>9, <1>10, <1>11 DEF ParseFits
<1>13. QED
    BY <1>12 DEF s

LEMMA ListGrows ==
    ASSUME BodyFits, NEW n \in Nat, NEW p, NEW list \in Seq(IssueItem), Lists(p, n, list),
           NEW l \in IssueItem, l = body[n + 1],
           UnderTo(p, "item", n + 1) = UnderTo(p, "item", n) \cup {n + 1}
    PROVE  Lists(p, n + 1, Append(list, l))
<1> DEFINE longer == Append(list, l)
           k == Len(list)
           U == UnderTo(p, "item", n)
           V == UnderTo(p, "item", n + 1)
<1>1. PICK g \in [1..k -> U] :
        /\ \A a, b \in 1..k : g[a] = g[b] => a = b
        /\ \A i \in U : \E a \in 1..k : g[a] = i
        /\ \A a \in 1..k : list[a] = body[g[a]]
    BY DEF Lists
<1> DEFINE f == [a \in 1..(k + 1) |-> IF a = k + 1 THEN n + 1 ELSE g[a]]
<1>2. k \in Nat /\ Len(longer) = k + 1 /\ longer[k + 1] = l
      /\ \A a \in 1..k : longer[a] = list[a] /\ a # k + 1
    OBVIOUS
<1>3. V = U \cup {n + 1} /\ n + 1 \notin U
    BY UnderToIs
<1> HIDE DEF longer, k, U, V
<1>4. f \in [1..(k + 1) -> V]
    BY <1>1, <1>2, <1>3
<1>5. f[k + 1] = n + 1 /\ \A a \in 1..k : f[a] = g[a] /\ f[a] \in U
    BY <1>1, <1>2
<1>6. \A a : a \in 1..(k + 1) <=> a \in 1..k \/ a = k + 1
    BY <1>2
<1> HIDE DEF f
<1>7. \A a, b \in 1..(k + 1) : f[a] = f[b] => a = b
    BY <1>1, <1>3, <1>5, <1>6
<1>8. \A i \in V : \E a \in 1..(k + 1) : f[a] = i
    BY <1>1, <1>3, <1>5, <1>6
<1>9. \A a \in 1..(k + 1) : longer[a] = body[f[a]]
    BY <1>1, <1>2, <1>5, <1>6
<1> DEFINE m == Len(longer)
<1>10. /\ f \in [1..m -> V]
       /\ \A a, b \in 1..m : f[a] = f[b] => a = b
       /\ \A i \in V : \E a \in 1..m : f[a] = i
       /\ \A a \in 1..m : longer[a] = body[f[a]]
    BY <1>2, <1>4, <1>7, <1>8, <1>9
<1> HIDE DEF m
<1>11. \E h \in [1..m -> V] :
          /\ \A a, b \in 1..m : h[a] = h[b] => a = b
          /\ \A i \in V : \E a \in 1..m : h[a] = i
          /\ \A a \in 1..m : longer[a] = body[h[a]]
    BY <1>10
<1>12. QED
    BY <1>11 DEF Lists, V, longer, m

LEMMA PartStays ==
    ASSUME NEW n, NEW p, NEW part, PartFits(p, n, part),
           UnderTo(p, "item", n + 1) = UnderTo(p, "item", n),
           UnderTo(p, "more", n + 1) = UnderTo(p, "more", n)
    PROVE  PartFits(p, n + 1, part)
BY DEF PartFits, HasTail, Lists

LEMMA ParseStepHeading ==
    ASSUME BodyFits, NEW n \in Nat, n + 1 \in DOMAIN body, NEW s, ParseFits(n, s),
           NEW p \in Issue!Parts, body[n + 1] = Issue!Heading(p)
    PROVE  ParseFits(n + 1, Issue!ParseLine(s, body[n + 1]))
<1> DEFINE new == Issue!NewPart
           t == [part |-> p, seen |-> s.seen, parts |-> PartAt(s, p, new)]
<1>1. s \in ParseState /\ DOMAIN s.parts = {q \in Issue!Parts : HasPart(q, n)}
    BY DEF ParseFits
<1>2. Issue!ParseLine(s, body[n + 1]) = t
    BY <1>1, ParseHeading
<1>3. new \in IssuePart /\ new.items = <<>> /\ new.more = 0
    BY DEF Issue!NewPart, IssuePart
<1>4. /\ PartAt(s, p, new) \in PartsMap
      /\ DOMAIN PartAt(s, p, new) = DOMAIN s.parts \cup {p}
      /\ PartAt(s, p, new)[p] = new
      /\ \A q \in DOMAIN s.parts : q # p => PartAt(s, p, new)[q] = s.parts[q]
    BY <1>1, <1>3, PartAtIs
<1>5. body[n + 1].kind = "heading"
    BY DEF Issue!Heading
<1>6. \A q : /\ UnderTo(q, "item", n + 1) = UnderTo(q, "item", n)
             /\ UnderTo(q, "more", n + 1) = UnderTo(q, "more", n)
    BY <1>5, UnderIs
<1>7. PartFits(p, n, new)
    <2>1. UnderTo(p, "item", n) = {} /\ UnderTo(p, "more", n) = {}
        BY HeadingComes, UnderToIs
    <2>2. Lists(p, n, <<>>)
        <3> DEFINE g == [a \in 1..0 |-> a]
        <3>1. g \in [1..Len(<<>>) -> UnderTo(p, "item", n)]
            OBVIOUS
        <3>2. Len(<<>>) = 0
            OBVIOUS
        <3>3. \A a \in 1..Len(<<>>) : FALSE
            BY <3>2
        <3> HIDE DEF g
        <3>4. QED
            BY <2>1, <3>1, <3>3 DEF Lists
    <2>3. QED
        BY <1>3, <2>1, <2>2 DEF PartFits, HasTail
<1>8. t \in ParseState /\ t.part = p /\ t.seen = s.seen /\ t.parts = PartAt(s, p, new)
    <2> HIDE DEF new
    <2>1. QED
        BY <1>1, <1>4 DEF ParseState, PartName
<1> HIDE DEF t, new
<1>9. \A q \in Issue!Parts : t.part = q <=> InPart(q, n + 1)
    BY <1>8, HeadingComes
<1>10. DOMAIN t.parts = {q \in Issue!Parts : HasPart(q, n + 1)}
    BY <1>1, <1>4, <1>8, HeadingComes
<1>11. Issue!Readable => t.seen <= Cardinality(ItemsTo(n + 1))
    <2>1. Issue!Readable => s.seen <= Cardinality(ItemsTo(n))
        BY DEF ParseFits
    <2>2. s.seen \in Nat /\ Cardinality(ItemsTo(n)) \in Nat
          /\ Cardinality(ItemsTo(n)) <= Cardinality(ItemsTo(n + 1))
        BY <1>1, ItemsToIs DEF ParseState
    <2>3. Cardinality(ItemsTo(n + 1)) \in Nat
        BY ItemsToIs
    <2>4. QED
        BY <1>8, <2>1, <2>2, <2>3
<1>12. ASSUME NEW q \in DOMAIN t.parts PROVE PartFits(q, n + 1, t.parts[q])
    <2>1. PartFits(q, n, t.parts[q])
        <3>1. CASE q = p
            BY <1>4, <1>7, <1>8, <3>1
        <3>2. CASE q # p
            <4>1. q \in DOMAIN s.parts /\ t.parts[q] = s.parts[q]
                BY <1>4, <1>8, <3>2
            <4>2. QED
                BY <4>1 DEF ParseFits
        <3>3. QED
            BY <3>1, <3>2
    <2>2. QED
        BY <1>6, <2>1, PartStays
<1>13. QED
    BY <1>2, <1>8, <1>9, <1>10, <1>11, <1>12 DEF ParseFits

LEMMA ParseStepLine ==
    ASSUME BodyFits, NEW n \in Nat, n + 1 \in DOMAIN body, body[n + 1].kind # "heading",
           NEW s, ParseFits(n, s)
    PROVE  ParseFits(n + 1, Issue!ParseLine(s, body[n + 1]))
<1> DEFINE l == body[n + 1]
           p == s.part
           t == Issue!ParseLine(s, l)
<1>1. /\ s \in ParseState /\ DOMAIN s.parts = {q \in Issue!Parts : HasPart(q, n)}
      /\ \A q \in Issue!Parts : p = q <=> InPart(q, n)
      /\ \A q \in DOMAIN s.parts : PartFits(q, n, s.parts[q])
    BY DEF ParseFits
<1>2. l \in IssueLine /\ l.kind # "heading"
    BY DEF BodyFits
<1>3. /\ l.kind \in {"item", "more", "prose"}
      /\ l.kind = "item" => l \in IssueItem
      /\ l.kind = "more" => l.n \in Nat
    BY <1>2, LineIs
<1>4. \A q : (InPart(q, n + 1) <=> InPart(q, n)) /\ (HasPart(q, n + 1) <=> HasPart(q, n))
    BY LineComes
<1>5. /\ p \in Issue!Parts \cup {"none"}
      /\ p # "none" => p \in Issue!Parts /\ p \in DOMAIN s.parts
    <2>1. \A q : InPart(q, n) => HasPart(q, n)
        BY DEF InPart, HasPart
    <2>2. QED
        BY <1>1, <2>1 DEF ParseState, PartName
<1>6. \A q \in Issue!Parts, kind \in {"item", "more"} :
         /\ l.kind = kind /\ q = p
                => UnderTo(q, kind, n + 1) = UnderTo(q, kind, n) \cup {n + 1}
         /\ ~(l.kind = kind /\ q = p) => UnderTo(q, kind, n + 1) = UnderTo(q, kind, n)
    BY <1>1, UnderIs
<1> DEFINE a == s.seen
           c == Cardinality(ItemsTo(n))
           d == Cardinality(ItemsTo(n + 1))
<1>7. /\ a \in Nat /\ c \in Nat /\ d \in Nat /\ c <= d
      /\ l.kind = "item" => d = c + 1
      /\ l.kind = "item" /\ Issue!Readable => c < MaxParsed
      /\ Issue!Readable => a <= c
    BY <1>1, ItemsToIs DEF ParseState, ParseFits
<1>8. \A q \in Issue!Parts : p = q <=> InPart(q, n + 1)
    BY <1>1, <1>4
<1>9. DOMAIN s.parts = {q \in Issue!Parts : HasPart(q, n + 1)}
    BY <1>1, <1>4
<1>m. MaxParsed \in Nat
    BY IssueConstants
<1> HIDE DEF l, p
<1>10. ASSUME NEW q \in DOMAIN s.parts, q # p \/ l.kind = "prose"
       PROVE  PartFits(q, n + 1, s.parts[q])
    <2>1. /\ UnderTo(q, "item", n + 1) = UnderTo(q, "item", n)
          /\ UnderTo(q, "more", n + 1) = UnderTo(q, "more", n)
        BY <1>1, <1>3, <1>6, <1>10
    <2>2. QED
        BY <1>1, <2>1, PartStays
<1>11. CASE l.kind = "more" /\ p # "none"
    <2> DEFINE part == [items |-> s.parts[p].items, more |-> l.n]
               new == PartAt(s, p, part)
    <2>1. s.parts[p] \in IssuePart /\ PartFits(p, n, s.parts[p])
        BY <1>1, <1>5, <1>11 DEF PartFits
    <2>2. part \in IssuePart /\ part.items = s.parts[p].items /\ part.more = l.n
        BY <1>3, <1>11, <2>1 DEF IssuePart
    <2> HIDE DEF part
    <2>3. /\ new \in PartsMap /\ DOMAIN new = DOMAIN s.parts \cup {p} /\ new[p] = part
          /\ \A q \in DOMAIN s.parts : q # p => new[q] = s.parts[q]
        <3>1. s \in ParseState /\ p \in Issue!Parts /\ part \in IssuePart
            BY <1>1, <1>5, <1>11, <2>2
        <3>2. QED
            BY <3>1, PartAtIs
    <2>4. t = [s EXCEPT !.parts = new]
        BY <1>1, <1>2, <1>5, <1>11, ParseMore DEF p, part
    <2> HIDE DEF new
    <2>5. t \in ParseState /\ t.part = p /\ t.seen = s.seen /\ t.parts = new
        BY <1>1, <2>3, <2>4 DEF ParseState, p
    <2> HIDE DEF t
    <2>6. /\ UnderTo(p, "more", n + 1) = UnderTo(p, "more", n) \cup {n + 1}
          /\ UnderTo(p, "item", n + 1) = UnderTo(p, "item", n)
        BY <1>5, <1>6, <1>11
    <2>7. HasTail(p, n + 1, l.n)
        <3>1. n + 1 \in UnderTo(p, "more", n + 1) /\ l.n = body[n + 1].n
            BY <2>6 DEF l
        <3>2. \A j \in UnderTo(p, "more", n + 1) : j <= n + 1
            BY DEF UnderTo
        <3>3. QED
            BY <3>1, <3>2 DEF HasTail
    <2>8. PartFits(p, n + 1, part)
        <3>1. Issue!Readable => Lists(p, n + 1, part.items)
            BY <2>1, <2>2, <2>6 DEF PartFits, Lists
        <3>2. QED
            BY <2>2, <2>7, <3>1 DEF PartFits
    <2>9. \A q \in DOMAIN t.parts : PartFits(q, n + 1, t.parts[q])
        BY <1>10, <2>3, <2>5, <2>8
    <2>10. DOMAIN t.parts = {q \in Issue!Parts : HasPart(q, n + 1)}
        BY <1>5, <1>9, <1>11, <2>3, <2>5
    <2>11. Issue!Readable => t.seen <= Cardinality(ItemsTo(n + 1))
        BY <1>7, <2>5
    <2>12. QED
        BY <1>8, <2>5, <2>9, <2>10, <2>11 DEF ParseFits, t, l
<1>12. CASE l.kind = "item" /\ p # "none" /\ s.seen < MaxParsed
    <2> DEFINE part == [items |-> Append(s.parts[p].items, l), more |-> s.parts[p].more]
               new == PartAt(s, p, part)
    <2>1. s.parts[p] \in IssuePart /\ PartFits(p, n, s.parts[p]) /\ l \in IssueItem
        BY <1>1, <1>3, <1>5, <1>12 DEF PartFits
    <2>2. /\ part \in IssuePart /\ part.items = Append(s.parts[p].items, l)
          /\ part.more = s.parts[p].more
        <3>1. Append(s.parts[p].items, l) \in Seq(IssueItem)
            BY <2>1 DEF IssuePart
        <3>2. QED
            BY <2>1, <3>1 DEF IssuePart
    <2> HIDE DEF part
    <2>3. /\ new \in PartsMap /\ DOMAIN new = DOMAIN s.parts \cup {p} /\ new[p] = part
          /\ \A q \in DOMAIN s.parts : q # p => new[q] = s.parts[q]
        <3>1. s \in ParseState /\ p \in Issue!Parts /\ part \in IssuePart
            BY <1>1, <1>5, <1>12, <2>2
        <3>2. QED
            BY <3>1, PartAtIs
    <2>4. t = [s EXCEPT !.parts = new, !.seen = @ + 1]
        BY <1>1, <1>5, <1>12, <2>1, ParseItem DEF p, part
    <2> HIDE DEF new
    <2>5. t \in ParseState /\ t.part = p /\ t.seen = s.seen + 1 /\ t.parts = new
        <3>1. t \in [part : {p}, seen : {s.seen + 1}, parts : {new}]
            BY <1>1, <2>4 DEF ParseState, p
        <3>2. p \in PartName /\ s.seen + 1 \in Nat
            BY <1>1 DEF ParseState, p
        <3> HIDE DEF t
        <3>3. QED
            BY <2>3, <3>1, <3>2 DEF ParseState
    <2> HIDE DEF t
    <2>6. /\ UnderTo(p, "item", n + 1) = UnderTo(p, "item", n) \cup {n + 1}
          /\ UnderTo(p, "more", n + 1) = UnderTo(p, "more", n)
        BY <1>5, <1>6, <1>12
    <2>7. HasTail(p, n + 1, part.more)
        BY <2>1, <2>2, <2>6 DEF PartFits, HasTail
    <2>8. PartFits(p, n + 1, part)
        <3>1. ASSUME Issue!Readable PROVE Lists(p, n + 1, Append(s.parts[p].items, l))
            <4>1. s.parts[p].items \in Seq(IssueItem) /\ Lists(p, n, s.parts[p].items)
                BY <2>1, <3>1 DEF PartFits, IssuePart
            <4>2. QED
                BY <2>1, <2>6, <4>1, ListGrows DEF l
        <3>2. QED
            BY <2>2, <2>7, <3>1 DEF PartFits
    <2>9. \A q \in DOMAIN t.parts : PartFits(q, n + 1, t.parts[q])
        BY <1>10, <2>3, <2>5, <2>8
    <2>10. DOMAIN t.parts = {q \in Issue!Parts : HasPart(q, n + 1)}
        BY <1>5, <1>9, <1>12, <2>3, <2>5
    <2>11. Issue!Readable => t.seen <= Cardinality(ItemsTo(n + 1))
        <3>1. l.kind = "item" /\ t.seen = a + 1
            BY <1>12, <2>5
        <3> HIDE DEF a, c
        <3>2. Issue!Readable => t.seen <= d
            <4> HIDE DEF d
            <4>1. QED
                BY <1>7, <3>1
        <3>3. QED
            BY <3>2
    <2>12. QED
        BY <1>8, <2>5, <2>9, <2>10, <2>11 DEF ParseFits, t, l
<1>13. CASE \/ l.kind = "prose"
            \/ l.kind = "more" /\ p = "none"
            \/ l.kind = "item" /\ (p = "none" \/ ~(s.seen < MaxParsed))
    <2>1. t = s
        BY <1>1, <1>2, <1>13, ParseNothing DEF p
    <2>2. ASSUME NEW q \in DOMAIN s.parts PROVE PartFits(q, n + 1, s.parts[q])
        <3>1. CASE q # p \/ l.kind = "prose"
            BY <1>10, <3>1
        <3>2. CASE q = p /\ l.kind # "prose"
            <4>1. q \in Issue!Parts /\ q # "none"
                BY <1>1, IssueConstants
            <4>2. l.kind = "item" /\ ~(s.seen < MaxParsed)
                BY <1>13, <3>2, <4>1
            <4>3. ~Issue!Readable
                <5>1. ~(a < MaxParsed) /\ l.kind = "item"
                    BY <4>2
                <5> HIDE DEF a, c, d
                <5>2. QED
                    BY <1>7, <1>m, <5>1
            <4>4. UnderTo(q, "more", n + 1) = UnderTo(q, "more", n)
                BY <1>6, <4>1, <4>2
            <4>5. PartFits(q, n, s.parts[q])
                BY <1>1
            <4>6. QED
                BY <4>3, <4>4, <4>5 DEF PartFits, HasTail
        <3>3. QED
            BY <3>1, <3>2
    <2>3. Issue!Readable => s.seen <= Cardinality(ItemsTo(n + 1))
        BY <1>7
    <2>4. ParseFits(n + 1, s)
        BY <1>1, <1>8, <1>9, <2>2, <2>3 DEF ParseFits, p
    <2>5. QED
        BY <2>1, <2>4 DEF l
<1>14. \/ l.kind = "more" /\ p # "none"
       \/ l.kind = "item" /\ p # "none" /\ s.seen < MaxParsed
       \/ l.kind = "prose"
       \/ l.kind = "more" /\ p = "none"
       \/ l.kind = "item" /\ (p = "none" \/ ~(s.seen < MaxParsed))
    BY <1>3
<1> HIDE DEF a, c, d, t
<1>15. QED
    BY <1>11, <1>12, <1>13, <1>14, Zenon

LEMMA ParseFitsAll ==
    ASSUME BodyFits
    PROVE  \E s : ParseFits(Len(body), s) /\ Issue!Parsed(body) = s.parts
<1> DEFINE m == Len(body)
<1>1. m \in Nat /\ DOMAIN body = 1..m
    BY DEF BodyFits
<1>2. PICK f : IsParse(m, f) /\ Issue!Parsed(body) = f[m].parts
    BY ParsedIs DEF BodyFits
<1>3. /\ f[0] = Issue!NoParts
      /\ \A n \in 1..m : f[n] = Issue!ParseLine(f[n - 1], body[n])
    BY <1>1, <1>2 DEF IsParse
<1> DEFINE W == {n \in 0..m : ~ParseFits(n, f[n])}
<1>4. W = {}
    <2> SUFFICES ASSUME W # {} PROVE FALSE
        OBVIOUS
    <2>1. W \in SUBSET Int /\ W \in SUBSET (0..m)
        BY <1>1
    <2>2. PICK k \in W : \A j \in W : k <= j
        <3> HIDE DEF W
        <3>1. IsFiniteSet(0..m)
            BY <1>1, FS_Interval
        <3>2. IsFiniteSet(W)
            BY <2>1, <3>1, FS_Subset
        <3>3. QED
            BY <2>1, <3>2, FirstIsThere
    <2>3. k \in 0..m /\ ~ParseFits(k, f[k])
        BY <2>2
    <2>4. k # 0
        BY <1>3, <2>3, ParseStarts
    <2>5. k - 1 \in Nat /\ (k - 1) + 1 = k /\ k \in 1..m /\ k - 1 \in 0..m
        BY <1>1, <2>3, <2>4
    <2>6. k - 1 \notin W
        BY <2>2, <2>5
    <2>7. ParseFits(k - 1, f[k - 1])
        BY <2>5, <2>6
    <2> DEFINE n == k - 1
    <2>8. n \in Nat /\ n + 1 = k /\ n + 1 \in DOMAIN body
        BY <1>1, <2>5
    <2>9. f[k] = Issue!ParseLine(f[n], body[n + 1])
        BY <1>3, <2>5, <2>8
    <2> HIDE DEF n
    <2>10. ParseFits(n, f[n])
        BY <2>7 DEF n
    <2>11. ParseFits(n + 1, f[k])
        <3>1. CASE body[n + 1].kind # "heading"
            BY <2>8, <2>9, <2>10, <3>1, ParseStepLine
        <3>2. CASE body[n + 1].kind = "heading"
            <4>1. body[n + 1] \in IssueLine
                BY <2>8 DEF BodyFits
            <4>2. PICK p \in Issue!Parts : body[n + 1] = Issue!Heading(p)
                BY <3>2, <4>1, LineIs
            <4>3. QED
                BY <2>8, <2>9, <2>10, <4>2, ParseStepHeading
        <3>3. QED
            BY <3>1, <3>2
    <2>12. QED
        BY <2>3, <2>8, <2>11
<1>5. QED
    BY <1>1, <1>2, <1>4

-----------------------------------------------------------------------------
(* What the collectors keep of the parse.                                  *)

LEMMA BodyParsed ==
    ASSUME BodyFits
    PROVE  /\ Issue!Parsed(body) \in PartsMap
           /\ DOMAIN Issue!Parsed(body) = {p \in Issue!Parts : Issue!Heading(p) \in Issue!ToSet(body)}
           /\ \A p \in DOMAIN Issue!Parsed(body) :
                /\ Issue!Parsed(body)[p] \in IssuePart
                /\ Issue!Parsed(body)[p].more = Issue!TailOf(p)
                /\ Issue!Readable => Lists(p, Len(body), Issue!Parsed(body)[p].items)
<1> DEFINE Q == Issue!Parsed(body)
           m == Len(body)
<1>1. PICK s : ParseFits(m, s) /\ Q = s.parts
    BY ParseFitsAll
<1>2. m \in Nat /\ DOMAIN body = 1..m
    BY DEF BodyFits
<1>3. Q \in PartsMap /\ \A p \in DOMAIN Q : PartFits(p, m, Q[p])
    BY <1>1 DEF ParseFits, ParseState
<1>4. \A p : HasPart(p, m) <=> Issue!Heading(p) \in Issue!ToSet(body)
    BY <1>2 DEF HasPart, Issue!ToSet
<1>5. DOMAIN Q = {p \in Issue!Parts : Issue!Heading(p) \in Issue!ToSet(body)}
    BY <1>1, <1>4 DEF ParseFits
<1>6. ASSUME NEW p \in DOMAIN Q PROVE Q[p].more = Issue!TailOf(p)
    <2> DEFINE T == Issue!Under(p, "more")
    <2>1. T = UnderTo(p, "more", m) /\ T \in SUBSET Int /\ IsFiniteSet(T)
        BY <1>2, UnderToIs
    <2>2. HasTail(p, m, Q[p].more)
        BY <1>3 DEF PartFits
    <2>3. Issue!TailOf(p) = IF T = {} THEN 0 ELSE body[Issue!Max(T)].n
        BY DEF Issue!TailOf
    <2>4. Issue!Max(T) = Max(T)
        BY IssueLibrary
    <2>5. T # {} => Max(T) \in T /\ \A j \in T : Max(T) >= j
        <3> HIDE DEF T
        <3>1. QED
            BY <2>1, MaxIs
    <2>6. CASE T = {}
        <3>1. UnderTo(p, "more", m) = {}
            BY <2>1, <2>6
        <3>2. QED
            BY <2>2, <2>3, <2>6, <3>1 DEF HasTail
    <2>7. CASE T # {}
        <3> HIDE DEF T
        <3>1. PICK i \in T : Q[p].more = body[i].n /\ \A j \in T : j <= i
            BY <2>1, <2>2, <2>7 DEF HasTail
        <3>2. i = Max(T)
            BY <2>1, <2>5, <2>7, <3>1
        <3>3. QED
            BY <2>3, <2>4, <2>7, <3>1, <3>2
    <2>8. QED
        BY <2>6, <2>7
<1>7. QED
    BY <1>3, <1>5, <1>6 DEF PartFits

LEMMA CappedIs ==
    ASSUME NEW part \in IssuePart
    PROVE  /\ Issue!Capped(part) \in IssuePart
           /\ Len(Issue!Capped(part).items) <= MaxListed
           /\ Len(Issue!Capped(part).items) + Issue!Capped(part).more
                = Len(part.items) + part.more
           /\ Issue!Capped(part).more = part.more => Issue!Capped(part).items = part.items
<1> DEFINE all == part.items
           n == Len(all)
           k == Issue!Min({n, MaxListed})
           kept == SubSeq(all, 1, k)
<1>1. all \in Seq(IssueItem) /\ n \in Nat /\ part.more \in Nat /\ MaxListed \in Nat
    BY IssueConstants DEF IssuePart
<1>2. k \in Nat /\ k <= n /\ k <= MaxListed
    <2>1. k = CHOOSE x \in {n, MaxListed} : \A y \in {n, MaxListed} : x <= y
        BY DEF Issue!Min
    <2>2. \E x \in {n, MaxListed} : \A y \in {n, MaxListed} : x <= y
        <3> HIDE DEF n
        <3>1. CASE n <= MaxListed
            BY <1>1, <3>1
        <3>2. CASE MaxListed <= n
            BY <1>1, <3>2
        <3>3. QED
            BY <1>1, <3>1, <3>2
    <2> HIDE DEF n, k
    <2>3. k \in {n, MaxListed} /\ \A y \in {n, MaxListed} : k <= y
        BY <2>1, <2>2
    <2>4. QED
        BY <1>1, <2>3
<1> HIDE DEF k
<1>3. kept \in Seq(IssueItem) /\ Len(kept) = k
    <2>1. \A i \in 1..k : all[i] \in IssueItem
        BY <1>1, <1>2
    <2> HIDE DEF all
    <2>2. QED
        BY <1>1, <1>2, <2>1, SubSeqProperties
<1>4. k = n => kept = all
    BY <1>1, SubSeqFull
<1>5. Issue!Capped(part) = [items |-> kept, more |-> part.more + n - k]
    BY DEF Issue!Capped, k
<1> HIDE DEF all, n, kept
<1>6. part.more + n - k \in Nat
    BY <1>1, <1>2
<1>7. Issue!Capped(part).items = kept /\ Issue!Capped(part).more = part.more + n - k
      /\ Issue!Capped(part) \in IssuePart
    BY <1>3, <1>5, <1>6 DEF IssuePart
<1>8. Len(Issue!Capped(part).items) = k /\ k <= MaxListed
    BY <1>2, <1>3, <1>7
<1>9. Len(Issue!Capped(part).items) + Issue!Capped(part).more = n + part.more
    BY <1>1, <1>2, <1>7, <1>8
<1>10. Issue!Capped(part).more = part.more => Issue!Capped(part).items = all
    <2>1. part.more + n - k = part.more => k = n
        BY <1>1, <1>2
    <2>2. QED
        BY <1>4, <1>7, <2>1
<1>11. QED
    BY <1>7, <1>8, <1>9, <1>10 DEF all, n

LEMMA SequenceIs ==
    ASSUME NEW S, IsFiniteSet(S)
    PROVE  Issue!SetToSeq(S) \in Seq(S) /\ Issue!ToSet(Issue!SetToSeq(S)) = S
<1> DEFINE n == Cardinality(S)
           s == Issue!SetToSeq(S)
<1>1. n \in Nat /\ IsFiniteSet(1..n) /\ Cardinality(1..n) = n
    <2>1. n \in Nat
        BY FS_CardinalityType
    <2> HIDE DEF n
    <2>2. QED
        BY <2>1, FS_Interval
<1>2. PICK f : f \in Bijection(1..n, S)
    BY FS_CardinalityType DEF ExistsBijection
<1>3. s = CHOOSE g \in [1..n -> S] : Issue!IsInjective(g)
    BY IssueLibrary DEF Issue!SetToSeq
<1> HIDE DEF n, s
<1>4. f \in [1..n -> S] /\ Issue!IsInjective(f)
    BY <1>2 DEF Bijection, Injection, Issue!IsInjective, IsInjective
<1>5. s \in [1..n -> S] /\ Issue!IsInjective(s)
    BY <1>3, <1>4
<1>6. s \in Injection(1..n, S)
    <2>1. \A a, b \in 1..n : s[a] = s[b] => a = b
        BY <1>5 DEF Issue!IsInjective
    <2>2. QED
        BY <1>5, <2>1 DEF Injection, IsInjective
<1>7. s \in Surjection(1..n, S)
    BY <1>1, <1>6, FS_Injection DEF n
<1>8. s \in Seq(S) /\ DOMAIN s = 1..n
    BY <1>1, <1>5
<1>9. Issue!ToSet(s) = S
    BY <1>5, <1>7, <1>8 DEF Surjection, Issue!ToSet
<1>10. QED
    BY <1>8, <1>9 DEF s

(* What is true at any time.                                               *)
IssueTyped ==
    /\ BodyFits /\ Len(body) <= MaxLines
    /\ phase \in {"idle", "find", "read", "done"}
    /\ containers \in SUBSET Issue!Containers /\ IsFiniteSet(containers)
    /\ IsSection(section) /\ section.errors \in SUBSET {"label", "lotor"}

IssueRead ==
    /\ parts = [p \in DOMAIN Issue!Parsed(body) |-> Issue!Capped(Issue!Parsed(body)[p])]
    /\ listing = [p \in DOMAIN parts |-> [listed |-> Len(parts[p].items), more |-> parts[p].more]]

RecordsAre(records) == section.records = <<>> \o (records \o Issue!ItemRecords(OtherPart))

IssueListed ==
    /\ collector = "ashigaru_issue" => RecordsAre(Issue!ItemRecords(Published))
    /\ collector = "crunchtools_releases" =>
          /\ "lotor" \in section.errors => RecordsAre(Issue!RepoRecords(FALSE))
          /\ "lotor" \notin section.errors => RecordsAre(Issue!RepoRecords(TRUE))

IssueFact ==
    /\ IssueTyped
    /\ phase \in {"idle", "find"} => section = NewSection /\ parts = <<>> /\ listing = <<>>
    /\ phase = "read" => section.errors = {} /\ section.records = <<>> /\ IssueRead
    /\ phase = "done" /\ "label" \in section.errors => parts = <<>> /\ listing = <<>>
    /\ phase = "done" /\ "label" \notin section.errors => IssueRead /\ IssueListed

IssueInv == collector \in Issue!Kinds => IssueFact

LEMMA InitIssue == Init => IssueInv
<1> SUFFICES ASSUME Init PROVE IssueFact
    BY DEF IssueInv
<1>1. /\ body = <<>> /\ phase = "idle" /\ parts = <<>> /\ containers = {}
      /\ section = NewSection /\ listing = <<>>
    BY OneSection DEF Init, Issue!Init
<1>2. BodyFits /\ Len(body) <= MaxLines
    BY <1>1, IssueConstants DEF BodyFits
<1>3. IsFiniteSet(containers)
    BY <1>1, FS_EmptySet
<1>4. IsSection(section) /\ section.errors = {}
    BY <1>1, NewSectionIsSection DEF NewSection
<1>5. QED
    BY <1>1, <1>2, <1>3, <1>4 DEF IssueFact, IssueTyped

LEMMA IssueWrites ==
    ASSUME IssueFact, Issue!WriteLine
    PROVE  IssueFact'
<1>1. /\ phase = "idle" /\ phase' = phase /\ parts' = parts /\ containers' = containers
      /\ section' = section /\ listing' = listing /\ Len(body) < MaxLines
    BY DEF Issue!WriteLine
<1>2. PICK l \in Issue!Lines : body' = Append(body, l)
    BY DEF Issue!WriteLine
<1>3. body \in Seq(IssueLine) /\ Len(body) \in Nat /\ DOMAIN body = 1..Len(body)
    BY DEF IssueFact, IssueTyped, BodyFits
<1>4. l \in IssueLine /\ \A p \in Issue!Parts : l = Issue!Heading(p) => l \notin Issue!ToSet(body)
    <2>1. CASE \E p \in Issue!Parts : l = Issue!Heading(p) /\ Issue!Heading(p) \notin Issue!ToSet(body)
        BY <2>1 DEF IssueLine
    <2>2. CASE l \in {Issue!More(2), Issue!Prose}
        BY <2>2 DEF IssueLine, Issue!More, Issue!Prose, Issue!Heading
    <2>3. CASE \E r \in Repos, v \in Versions \cup {Issue!NoVersion} : l = Issue!Item(r, v)
        BY <2>3 DEF IssueLine, IssueItem, Issue!Item, Issue!Heading
    <2>4. QED
        BY <2>1, <2>2, <2>3 DEF Issue!Lines
<1>5. body' \in Seq(IssueLine) /\ Len(body') = Len(body) + 1
      /\ body'[Len(body) + 1] = l /\ \A i \in DOMAIN body : body'[i] = body[i]
    BY <1>2, <1>3, <1>4
<1>6. DOMAIN body' = 1..(Len(body) + 1)
    BY <1>5
<1>7. BodyFits'
    <2> SUFFICES ASSUME NEW i \in DOMAIN body', NEW j \in DOMAIN body',
                        body'[i].kind = "heading", body'[i] = body'[j]
                 PROVE  i = j
        BY <1>5 DEF BodyFits
    <2> DEFINE n == Len(body)
    <2>1. /\ i \in DOMAIN body \/ i = n + 1
          /\ j \in DOMAIN body \/ j = n + 1
        BY <1>3, <1>6
    <2>2. l.kind = "heading" => l \notin Issue!ToSet(body)
        BY <1>4, LineIs
    <2>3. CASE i \in DOMAIN body /\ j \in DOMAIN body
        BY <1>5, <2>3 DEF IssueFact, IssueTyped, BodyFits
    <2>4. CASE i = n + 1 /\ j = n + 1
        BY <2>4
    <2>5. CASE i = n + 1 /\ j \in DOMAIN body
        BY <1>5, <2>2, <2>5 DEF Issue!ToSet
    <2>6. CASE i \in DOMAIN body /\ j = n + 1
        BY <1>5, <2>2, <2>6 DEF Issue!ToSet
    <2>7. QED
        BY <2>1, <2>3, <2>4, <2>5, <2>6
<1>8. Len(body') <= MaxLines
    BY <1>1, <1>3, <1>5, IssueConstants
<1>9. QED
    BY <1>1, <1>7, <1>8 DEF IssueFact, IssueTyped

LEMMA IssueBegins ==
    ASSUME IssueFact, Issue!Begin
    PROVE  IssueFact'
<1>1. /\ phase = "idle" /\ phase' = "find" /\ parts' = parts /\ containers' = containers
      /\ section' = section /\ listing' = listing /\ body' = body
    BY DEF Issue!Begin
<1>2. BodyFits'
    BY <1>1 DEF IssueFact, IssueTyped, BodyFits
<1>3. QED
    BY <1>1, <1>2 DEF IssueFact, IssueTyped

LEMMA IssueNotFound ==
    ASSUME IssueFact, Issue!NotFound
    PROVE  IssueFact'
<1>1. /\ phase = "find" /\ phase' = "done" /\ parts' = parts /\ containers' = containers
      /\ listing' = listing /\ body' = body
      /\ section' \in {NoteError(section, "label"), NoteError(CountOk(section), "label")}
    BY OneSection DEF Issue!NotFound
<1>2. BodyFits'
    BY <1>1 DEF IssueFact, IssueTyped, BodyFits
<1>3. IsSection(section) /\ section.errors = {} /\ parts = <<>> /\ listing = <<>>
    BY <1>1 DEF IssueFact, IssueTyped, NewSection
<1>4. IsSection(section') /\ section'.errors = {"label"}
    <2>1. CASE section' = NoteError(section, "label")
        BY <1>3, <2>1, NoteErrorEffect
    <2>2. CASE section' = NoteError(CountOk(section), "label")
        <3>1. IsSection(CountOk(section)) /\ CountOk(section).errors = {}
            BY <1>3, CountOkEffect
        <3>2. QED
            BY <2>2, <3>1, NoteErrorEffect
    <2>3. QED
        BY <1>1, <2>1, <2>2
<1>5. IssueTyped'
    BY <1>1, <1>2, <1>4 DEF IssueFact, IssueTyped
<1>6. QED
    BY <1>1, <1>3, <1>4, <1>5 DEF IssueFact

LEMMA IssueFound ==
    ASSUME IssueFact, Issue!Found
    PROVE  IssueFact'
<1>1. /\ phase = "find" /\ phase' = "read" /\ containers' = containers /\ body' = body
      /\ section' = CountOk(section)
      /\ parts' = [p \in DOMAIN Issue!Parsed(body) |-> Issue!Capped(Issue!Parsed(body)[p])]
      /\ listing' = [p \in DOMAIN parts' |->
                        [listed |-> Len(parts'[p].items), more |-> parts'[p].more]]
    BY OneSection DEF Issue!Found
<1>2. BodyFits'
    BY <1>1 DEF IssueFact, IssueTyped, BodyFits
<1>3. IsSection(section) /\ section.errors = {} /\ section.records = <<>>
    BY <1>1 DEF IssueFact, IssueTyped, NewSection
<1>4. IsSection(section') /\ section'.errors = {} /\ section'.records = <<>>
    BY <1>1, <1>3, CountOkEffect
<1>5. IssueRead'
    BY <1>1 DEF IssueRead
<1>6. IssueTyped'
    BY <1>1, <1>2, <1>4 DEF IssueFact, IssueTyped
<1>7. QED
    BY <1>1, <1>4, <1>5, <1>6 DEF IssueFact

LEMMA IssueLists ==
    ASSUME IssueFact, Issue!ListItems
    PROVE  IssueFact'
<1>1. /\ phase = "read" /\ phase' = "done" /\ containers' = containers /\ body' = body
      /\ parts' = parts /\ listing' = listing
      /\ collector' = collector /\ collector = "ashigaru_issue"
      /\ section' = AddRecords(section, Issue!ItemRecords(Published) \o Issue!ItemRecords(OtherPart))
    BY OneSection DEF Issue!ListItems
<1>2. BodyFits'
    BY <1>1 DEF IssueFact, IssueTyped, BodyFits
<1>3. IsSection(section) /\ section.errors = {} /\ section.records = <<>> /\ IssueRead
    BY <1>1 DEF IssueFact, IssueTyped
<1>4. /\ IsSection(section') /\ section'.errors = {}
      /\ section'.records = <<>> \o (Issue!ItemRecords(Published) \o Issue!ItemRecords(OtherPart))
    BY <1>1, <1>3, AddRecordsEffect
<1>5. IssueRead'
    BY <1>1, <1>3 DEF IssueRead
<1>6. \A p : Issue!ItemRecords(p)' = Issue!ItemRecords(p)
    BY <1>1 DEF Issue!ItemRecords, Issue!ItemsOf
<1>7. IssueListed'
    BY <1>1, <1>4, <1>6 DEF IssueListed, RecordsAre
<1>8. IssueTyped'
    BY <1>1, <1>2, <1>4 DEF IssueFact, IssueTyped
<1>9. QED
    BY <1>1, <1>4, <1>5, <1>7, <1>8 DEF IssueFact

LEMMA IssueJoins ==
    ASSUME IssueFact, phase = "read", collector = "crunchtools_releases",
           NEW result, NEW known \in BOOLEAN, Issue!Join(result, known),
           containers' \in SUBSET Issue!Containers, IsFiniteSet(containers'),
           IsSection(result), result.records = <<>>,
           result.errors = IF known THEN {} ELSE {"lotor"}
    PROVE  IssueFact'
<1>1. /\ phase' = "done" /\ body' = body /\ parts' = parts /\ listing' = listing
      /\ collector' = collector
      /\ section' = AddRecords(result, Issue!RepoRecords(known)' \o Issue!ItemRecords(OtherPart))
    BY OneSection DEF Issue!Join
<1>2. BodyFits'
    BY <1>1 DEF IssueFact, IssueTyped, BodyFits
<1>3. /\ IsSection(section') /\ section'.errors = result.errors
      /\ section'.records = <<>> \o (Issue!RepoRecords(known)' \o Issue!ItemRecords(OtherPart))
    BY <1>1, AddRecordsEffect
<1>4. IssueRead'
    BY <1>1 DEF IssueFact, IssueRead
<1>5. Issue!ItemRecords(OtherPart)' = Issue!ItemRecords(OtherPart)
    BY <1>1 DEF Issue!ItemRecords, Issue!ItemsOf
<1>6. IssueListed'
    <2>1. CASE known = TRUE
        <3>1. RecordsAre(Issue!RepoRecords(TRUE))'
            BY <1>3, <1>5, <2>1 DEF RecordsAre
        <3>2. "lotor" \notin section'.errors
            BY <1>3, <2>1
        <3>3. QED
            BY <1>1, <3>1, <3>2 DEF IssueListed
    <2>2. CASE known = FALSE
        <3>1. RecordsAre(Issue!RepoRecords(FALSE))'
            BY <1>3, <1>5, <2>2 DEF RecordsAre
        <3>2. "lotor" \in section'.errors
            BY <1>3, <2>2
        <3>3. QED
            BY <1>1, <3>1, <3>2 DEF IssueListed
    <2>3. QED
        BY <2>1, <2>2
<1>7. section'.errors \in SUBSET {"label", "lotor"} /\ "label" \notin section'.errors
    BY <1>3
<1>8. IssueTyped'
    BY <1>1, <1>2, <1>3, <1>7 DEF IssueFact, IssueTyped
<1>9. QED
    BY <1>1, <1>4, <1>6, <1>7, <1>8 DEF IssueFact

LEMMA IssueLotor ==
    ASSUME IssueFact, Issue!Lotor
    PROVE  IssueFact'
<1>1. PICK answer \in Issue!SeqOf(Issue!Containers, MaxContainers) :
        containers' = Issue!ToSet(answer)
    BY DEF Issue!Lotor
<1>2. phase = "read" /\ collector = "crunchtools_releases" /\ Issue!Join(CountOk(section), TRUE)
    BY OneSection DEF Issue!Lotor
<1>3. PICK n \in 0..MaxContainers : answer \in [1..n -> Issue!Containers]
    BY <1>1 DEF Issue!SeqOf
<1>4. n \in Nat
    BY <1>3, IssueConstants
<1>5. containers' \in SUBSET Issue!Containers /\ answer \in Surjection(1..n, containers')
    BY <1>1, <1>3 DEF Issue!ToSet, Surjection
<1>6. IsFiniteSet(1..n)
    BY <1>4, FS_Interval
<1>7. IsFiniteSet(containers')
    BY <1>5, <1>6, FS_Surjection
<1>8. IsSection(section) /\ section.errors = {} /\ section.records = <<>>
    BY <1>2 DEF IssueFact, IssueTyped
<1>9. /\ IsSection(CountOk(section)) /\ CountOk(section).errors = {}
      /\ CountOk(section).records = <<>>
    BY <1>8, CountOkEffect
<1>10. QED
    BY <1>2, <1>5, <1>7, <1>9, IssueJoins

LEMMA IssueLotorFails ==
    ASSUME IssueFact, Issue!LotorFails
    PROVE  IssueFact'
<1>1. phase = "read" /\ collector = "crunchtools_releases" /\ containers' = containers
    BY DEF Issue!LotorFails
<1>2. PICK result \in {NoteError(section, "lotor"), NoteError(CountOk(section), "lotor")} :
        Issue!Join(result, FALSE)
    <2>1. /\ Issue!NoteError(section, "lotor") = NoteError(section, "lotor")
          /\ Issue!BadJson(section, "lotor") = NoteError(CountOk(section), "lotor")
        BY OneSection
    <2>2. \/ Issue!Join(Issue!NoteError(section, "lotor"), FALSE)
          \/ Issue!Join(Issue!BadJson(section, "lotor"), FALSE)
        BY DEF Issue!LotorFails
    <2>3. QED
        BY <2>1, <2>2
<1>3. IsSection(section) /\ section.errors = {} /\ section.records = <<>>
    BY <1>1 DEF IssueFact, IssueTyped
<1>4. /\ IsSection(CountOk(section)) /\ CountOk(section).errors = {}
      /\ CountOk(section).records = <<>>
    BY <1>3, CountOkEffect
<1>5. IsSection(result) /\ result.errors = {"lotor"} /\ result.records = <<>>
    BY <1>2, <1>3, <1>4, NoteErrorEffect
<1>6. containers' \in SUBSET Issue!Containers /\ IsFiniteSet(containers')
    BY <1>1 DEF IssueFact, IssueTyped, Issue!Containers
<1>7. QED
    BY <1>1, <1>2, <1>5, <1>6, IssueJoins

LEMMA IssueStutters ==
    ASSUME IssueFact, UNCHANGED Issue!vars
    PROVE  IssueFact'
<1>1. /\ phase' = phase /\ body' = body /\ parts' = parts /\ listing' = listing
      /\ containers' = containers /\ section' = section /\ collector' = collector
    BY DEF Issue!vars
<1>2. BodyFits' <=> BodyFits
    BY <1>1 DEF BodyFits
<1>3. IssueRead' <=> IssueRead
    BY <1>1 DEF IssueRead
<1>4. \A p : Issue!ItemRecords(p)' = Issue!ItemRecords(p)
    BY <1>1 DEF Issue!ItemRecords, Issue!ItemsOf
<1>5. \A known : Issue!RepoRecords(known)' = Issue!RepoRecords(known)
    BY <1>1 DEF Issue!RepoRecords, Issue!RepoRecord, Issue!Releases, Issue!Ranked, Issue!ItemsOf,
                Issue!Running
<1>6. IssueListed' <=> IssueListed
    BY <1>1, <1>4, <1>5 DEF IssueListed, RecordsAre
<1>7. QED
    BY <1>1, <1>2, <1>3, <1>6 DEF IssueFact, IssueTyped

LEMMA IssueSteps ==
    ASSUME [Next]_vars, collector \in Issue!Kinds
    PROVE  Issue!Next \/ UNCHANGED Issue!vars
<1>1. CASE UNCHANGED vars
    BY <1>1 DEF vars, issueVars, Issue!vars
<1>2. CASE Next
    BY <1>2 DEF Next, Issue!Next, IsGmail, IsDaily, IsNagios, IsCalendar, Daily!Kinds, Issue!Kinds
<1>3. QED
    BY <1>1, <1>2

LEMMA NextIssue == IssueInv /\ [Next]_vars => IssueInv'
<1> SUFFICES ASSUME IssueInv, [Next]_vars, (collector \in Issue!Kinds)' PROVE IssueFact'
    BY DEF IssueInv
<1>1. collector \in Issue!Kinds /\ IssueFact
    BY OneCollector DEF IssueInv, Issue!Kinds
<1>2. QED
    BY <1>1, IssueSteps, IssueStutters, IssueWrites, IssueBegins, IssueNotFound, IssueFound,
       IssueLists, IssueLotor, IssueLotorFails
       DEF Issue!Next

-----------------------------------------------------------------------------
(* What that says of the section.                                          *)

LEMMA ListLength ==
    ASSUME BodyFits, NEW p, NEW list \in Seq(IssueItem), Lists(p, Len(body), list)
    PROVE  Cardinality(Issue!Under(p, "item")) = Len(list)
<1> DEFINE U == UnderTo(p, "item", Len(body))
           k == Len(list)
<1>1. k \in Nat /\ IsFiniteSet(1..k) /\ Cardinality(1..k) = k
    <2>1. k \in Nat
        OBVIOUS
    <2> HIDE DEF k
    <2>2. QED
        BY <2>1, FS_Interval
<1>2. U = Issue!Under(p, "item")
    BY UnderToIs DEF BodyFits
<1>3. PICK g \in [1..k -> U] : /\ \A a, b \in 1..k : g[a] = g[b] => a = b
                               /\ \A i \in U : \E a \in 1..k : g[a] = i
    BY DEF Lists
<1> HIDE DEF U, k
<1>4. g \in Bijection(1..k, U)
    BY <1>3 DEF Bijection, Injection, Surjection, IsInjective
<1>5. Cardinality(U) = k
    BY <1>1, <1>4, FS_Bijection DEF ExistsBijection
<1>6. QED
    BY <1>2, <1>5 DEF k

LEMMA ReadIs ==
    ASSUME IssueTyped, IssueRead
    PROVE  /\ DOMAIN parts = {p \in Issue!Parts : Issue!Heading(p) \in Issue!ToSet(body)}
           /\ DOMAIN listing = DOMAIN parts
           /\ \A p \in DOMAIN parts :
                /\ parts[p] \in IssuePart /\ Len(parts[p].items) <= MaxListed
                /\ listing[p].listed = Len(parts[p].items) /\ listing[p].more = parts[p].more
                /\ Issue!Readable =>
                     /\ Len(parts[p].items) + parts[p].more
                            = Cardinality(Issue!Under(p, "item")) + Issue!TailOf(p)
                     /\ parts[p].more = Issue!TailOf(p) => Lists(p, Len(body), parts[p].items)
<1> DEFINE Q == Issue!Parsed(body)
<1>1. BodyFits
    BY DEF IssueTyped
<1>2. DOMAIN parts = DOMAIN Q /\ DOMAIN listing = DOMAIN parts
    BY DEF IssueRead
<1>3. DOMAIN Q = {p \in Issue!Parts : Issue!Heading(p) \in Issue!ToSet(body)}
    BY <1>1, BodyParsed
<1>4. ASSUME NEW p \in DOMAIN parts
      PROVE  /\ parts[p] \in IssuePart /\ Len(parts[p].items) <= MaxListed
             /\ listing[p].listed = Len(parts[p].items) /\ listing[p].more = parts[p].more
             /\ Issue!Readable =>
                  /\ Len(parts[p].items) + parts[p].more
                         = Cardinality(Issue!Under(p, "item")) + Issue!TailOf(p)
                  /\ parts[p].more = Issue!TailOf(p) => Lists(p, Len(body), parts[p].items)
    <2>1. parts[p] = Issue!Capped(Q[p]) /\ p \in DOMAIN Q
        BY <1>2 DEF IssueRead
    <2>2. Q[p] \in IssuePart /\ Q[p].more = Issue!TailOf(p)
          /\ (Issue!Readable => Lists(p, Len(body), Q[p].items))
        BY <1>1, <2>1, BodyParsed
    <2>3. /\ parts[p] \in IssuePart /\ Len(parts[p].items) <= MaxListed
          /\ Len(parts[p].items) + parts[p].more = Len(Q[p].items) + Q[p].more
          /\ parts[p].more = Q[p].more => parts[p].items = Q[p].items
        BY <2>1, <2>2, CappedIs
    <2>4. listing[p].listed = Len(parts[p].items) /\ listing[p].more = parts[p].more
        BY DEF IssueRead
    <2>5. Issue!Readable => Cardinality(Issue!Under(p, "item")) = Len(Q[p].items)
        BY <1>1, <2>2, ListLength DEF IssuePart
    <2> HIDE DEF Q
    <2>6. QED
        BY <2>2, <2>3, <2>4, <2>5
<1>5. QED
    BY <1>2, <1>3, <1>4

(* The records are those of one part after those of the other, or after    *)
(* those of the repositories.                                              *)
ItemRecord(p) == [kind : {"item"}, part : {p}, item : IssueItem]

RepoSet(known) ==
    {Issue!RepoRecord(r, known) : r \in {q \in Repos : Issue!Releases(q) # {}}}

LEMMA ItemRecordsAre ==
    ASSUME IssueTyped, IssueRead, NEW p
    PROVE  /\ Issue!ItemRecords(p) \in Seq(ItemRecord(p))
           /\ p \in DOMAIN parts => Len(Issue!ItemRecords(p)) = Len(parts[p].items)
<1> DEFINE list == Issue!ItemsOf(p)
<1>1. list \in Seq(IssueItem) /\ (p \in DOMAIN parts => list = parts[p].items)
    BY ReadIs DEF Issue!ItemsOf, IssuePart
<1>2. Issue!ItemRecords(p) = [i \in DOMAIN list |-> [kind |-> "item", part |-> p, item |-> list[i]]]
    BY DEF Issue!ItemRecords
<1> HIDE DEF list
<1>3. DOMAIN list = 1..Len(list) /\ Len(list) \in Nat
    BY <1>1
<1>4. Issue!ItemRecords(p) \in [1..Len(list) -> ItemRecord(p)]
    BY <1>1, <1>2, <1>3 DEF ItemRecord
<1>5. Issue!ItemRecords(p) \in Seq(ItemRecord(p)) /\ Len(Issue!ItemRecords(p)) = Len(list)
    BY <1>3, <1>4
<1>6. QED
    BY <1>1, <1>5

First(r) ==
    Issue!Min({i \in Issue!Releases(r) :
                  \A j \in Issue!Releases(r) : Issue!Ranked(j) <= Issue!Ranked(i)})

Newest(r) == Issue!ItemsOf(Published)[First(r)].version

LEMMA RepoRecordIs ==
    ASSUME NEW r, NEW known
    PROVE  LET x == Issue!RepoRecord(r, known)
           IN  /\ x.kind = "repo" /\ x.repo = r /\ x.newest = Newest(r)
               /\ x.releases = Cardinality(Issue!Releases(r))
               /\ x.status = IF known THEN Issue!DeployStatus(Newest(r), Issue!Running(r))
                             ELSE "unknown"
<1> DEFINE newest == Newest(r)
           count == Issue!Cardinality(Issue!Releases(r))
           status == IF known THEN Issue!DeployStatus(newest, Issue!Running(r)) ELSE "unknown"
<1>1. Issue!RepoRecord(r, known)
        = [kind |-> "repo", repo |-> r, newest |-> newest, releases |-> count, status |-> status]
    BY Zenon DEF Issue!RepoRecord, Newest, First
<1>2. count = Cardinality(Issue!Releases(r))
    BY IssueLibrary
<1> HIDE DEF newest, count, status
<1>3. LET x == Issue!RepoRecord(r, known)
      IN  /\ x.kind = "repo" /\ x.repo = r /\ x.newest = newest
          /\ x.releases = count /\ x.status = status
    BY <1>1
<1>4. QED
    BY <1>2, <1>3 DEF newest, status

LEMMA RepoSetIs ==
    ASSUME NEW known
    PROVE  /\ IsFiniteSet(RepoSet(known))
           /\ Issue!RepoRecords(known) \in Seq(RepoSet(known))
           /\ Issue!ToSet(Issue!RepoRecords(known)) = RepoSet(known)
           /\ \A x \in RepoSet(known) : x.kind = "repo"
<1> DEFINE D == {q \in Repos : Issue!Releases(q) # {}}
           f == [r \in D |-> Issue!RepoRecord(r, known)]
<1>1. IsFiniteSet(D)
    <2>1. D \in SUBSET Repos
        OBVIOUS
    <2> HIDE DEF D
    <2>2. QED
        BY <2>1, IssueConstants, FS_Subset
<1>2. f \in Surjection(D, RepoSet(known))
    BY DEF RepoSet, Surjection
<1> HIDE DEF D
<1>3. IsFiniteSet(RepoSet(known))
    BY <1>1, <1>2, FS_Surjection
<1>4. Issue!RepoRecords(known) = Issue!SetToSeq(RepoSet(known))
    BY DEF Issue!RepoRecords, RepoSet
<1>5. \A x \in RepoSet(known) : x.kind = "repo"
    BY RepoRecordIs DEF RepoSet
<1>6. QED
    BY <1>3, <1>4, <1>5, SequenceIs

LEMMA BothSetsAre ==
    ASSUME NEW S, NEW A \in Seq(S), NEW B \in Seq(S), section.records = <<>> \o (A \o B)
    PROVE  /\ DOMAIN section.records = 1..(Len(A) + Len(B))
           /\ \A i \in 1..Len(A) : i \in DOMAIN section.records /\ section.records[i] = A[i]
           /\ \A i \in (Len(A) + 1)..(Len(A) + Len(B)) :
                 i - Len(A) \in 1..Len(B) /\ section.records[i] = B[i - Len(A)]
           /\ Issue!ToSet(section.records) = Issue!ToSet(A) \cup Issue!ToSet(B)
<1> DEFINE R == section.records
           a == Len(A)
           b == Len(B)
<1>1. a \in Nat /\ b \in Nat /\ DOMAIN A = 1..a /\ DOMAIN B = 1..b
    OBVIOUS
<1>2. /\ A \o B \in Seq(S) /\ Len(A \o B) = a + b
      /\ \A i \in 1..(a + b) : (A \o B)[i] = IF i <= a THEN A[i] ELSE B[i - a]
    BY ConcatProperties
<1>3. R = A \o B
    BY <1>2
<1> HIDE DEF a, b, R
<1>4. /\ DOMAIN R = 1..(a + b)
      /\ \A i \in 1..a : i \in DOMAIN R /\ R[i] = A[i]
      /\ \A i \in 1..b : a + i \in DOMAIN R /\ R[a + i] = B[i]
      /\ \A i \in (a + 1)..(a + b) : i - a \in 1..b /\ R[i] = B[i - a]
    <2>1. R \in Seq(S) /\ Len(R) = a + b
        BY <1>2, <1>3
    <2>2. DOMAIN R = 1..(a + b)
        BY <2>1
    <2>3. ASSUME NEW i \in 1..a PROVE i \in 1..(a + b) /\ R[i] = A[i]
        BY <1>1, <1>2, <1>3
    <2>4. ASSUME NEW i \in 1..b PROVE a + i \in 1..(a + b) /\ R[a + i] = B[i]
        <3>1. a + i \in 1..(a + b) /\ ~(a + i <= a) /\ (a + i) - a = i
            BY <1>1
        <3>2. QED
            BY <1>2, <1>3, <3>1
    <2>5. ASSUME NEW i \in (a + 1)..(a + b) PROVE i - a \in 1..b /\ R[i] = B[i - a]
        <3>1. i \in 1..(a + b) /\ ~(i <= a) /\ i - a \in 1..b
            BY <1>1
        <3>2. QED
            BY <1>2, <1>3, <3>1
    <2>6. QED
        BY <2>2, <2>3, <2>4, <2>5
<1>5. Issue!ToSet(R) = Issue!ToSet(A) \cup Issue!ToSet(B)
    <2>1. ASSUME NEW x \in Issue!ToSet(R) PROVE x \in Issue!ToSet(A) \cup Issue!ToSet(B)
        <3>1. PICK i \in 1..(a + b) : x = R[i]
            BY <1>4 DEF Issue!ToSet
        <3>2. i \in 1..a \/ i \in (a + 1)..(a + b)
            BY <1>1
        <3>3. QED
            BY <1>1, <1>4, <3>1, <3>2 DEF Issue!ToSet
    <2>2. ASSUME NEW x \in Issue!ToSet(A) \cup Issue!ToSet(B) PROVE x \in Issue!ToSet(R)
        <3>1. ASSUME NEW i \in DOMAIN A, x = A[i] PROVE x \in Issue!ToSet(R)
            <4>1. i \in DOMAIN R /\ R[i] = A[i]
                BY <1>1, <1>4
            <4>2. QED
                BY <3>1, <4>1 DEF Issue!ToSet
        <3>2. ASSUME NEW i \in DOMAIN B, x = B[i] PROVE x \in Issue!ToSet(R)
            <4>1. a + i \in DOMAIN R /\ R[a + i] = B[i]
                BY <1>1, <1>4
            <4>2. QED
                BY <3>2, <4>1 DEF Issue!ToSet
        <3>3. QED
            BY <3>1, <3>2 DEF Issue!ToSet
    <2>3. QED
        BY <2>1, <2>2
<1>6. QED
    BY <1>4, <1>5 DEF a, b, R

AllOf(A, p) == \A i \in DOMAIN A : A[i].kind = "item" /\ A[i].part = p

NoneOf(A, p) == \A i \in DOMAIN A : ~(A[i].kind = "item" /\ A[i].part = p)

LEMMA ListedFirst ==
    ASSUME NEW S, NEW A \in Seq(S), NEW B \in Seq(S), section.records = <<>> \o (A \o B),
           NEW p, AllOf(A, p), NoneOf(B, p)
    PROVE  Cardinality(Issue!Listed(p)) = Len(A)
<1> DEFINE R == section.records
           a == Len(A)
           b == Len(B)
           Of(x) == x.kind = "item" /\ x.part = p
<1>1. a \in Nat /\ b \in Nat /\ DOMAIN A = 1..a /\ DOMAIN B = 1..b
    OBVIOUS
<1>2. /\ DOMAIN R = 1..(a + b)
      /\ \A i \in 1..a : i \in DOMAIN R /\ R[i] = A[i]
      /\ \A i \in (a + 1)..(a + b) : i - a \in 1..b /\ R[i] = B[i - a]
    BY BothSetsAre
<1> HIDE DEF a, b, R
<1>3. Issue!Listed(p) = {i \in 1..(a + b) : Of(R[i])}
    BY <1>2 DEF Issue!Listed, R
<1>4. \A i : i \in 1..(a + b) <=> i \in 1..a \/ i \in (a + 1)..(a + b)
    BY <1>1
<1>5. \A i \in 1..a : Of(R[i])
    BY <1>1, <1>2 DEF AllOf
<1>6. \A i \in (a + 1)..(a + b) : ~Of(R[i])
    BY <1>1, <1>2 DEF NoneOf
<1> HIDE DEF Of
<1>7. Issue!Listed(p) = 1..a
    BY <1>3, <1>4, <1>5, <1>6
<1>8. Cardinality(Issue!Listed(p)) = a
    BY <1>1, <1>7, FS_Interval
<1>9. QED
    BY <1>8 DEF a

LEMMA ListedLast ==
    ASSUME NEW S, NEW A \in Seq(S), NEW B \in Seq(S), section.records = <<>> \o (A \o B),
           NEW p, NoneOf(A, p), AllOf(B, p)
    PROVE  Cardinality(Issue!Listed(p)) = Len(B)
<1> DEFINE R == section.records
           a == Len(A)
           b == Len(B)
           Of(x) == x.kind = "item" /\ x.part = p
<1>1. a \in Nat /\ b \in Nat /\ DOMAIN A = 1..a /\ DOMAIN B = 1..b
    OBVIOUS
<1>2. /\ DOMAIN R = 1..(a + b)
      /\ \A i \in 1..a : i \in DOMAIN R /\ R[i] = A[i]
      /\ \A i \in (a + 1)..(a + b) : i - a \in 1..b /\ R[i] = B[i - a]
    BY BothSetsAre
<1> HIDE DEF a, b, R
<1>3. Issue!Listed(p) = {i \in 1..(a + b) : Of(R[i])}
    BY <1>2 DEF Issue!Listed, R
<1>4. \A i : i \in 1..(a + b) <=> i \in 1..a \/ i \in (a + 1)..(a + b)
    BY <1>1
<1>5. \A i \in 1..a : ~Of(R[i])
    BY <1>1, <1>2 DEF NoneOf
<1>6. \A i \in (a + 1)..(a + b) : Of(R[i])
    BY <1>1, <1>2 DEF AllOf
<1> HIDE DEF Of
<1>7. Issue!Listed(p) = (a + 1)..(a + b)
    BY <1>3, <1>4, <1>5, <1>6
<1> DEFINE c == a + 1
           d == a + b
<1>8. c \in Int /\ d \in Int /\ c <= d + 1 /\ (c > d => b = 0) /\ d - c + 1 = b
    BY <1>1
<1> HIDE DEF c, d
<1>9. Cardinality(c..d) = IF c > d THEN 0 ELSE d - c + 1
    BY <1>8, FS_Interval
<1>10. Cardinality(c..d) = b
    BY <1>8, <1>9
<1>11. QED
    BY <1>7, <1>10 DEF b, c, d

(* Versions in their order.                                                *)
Version == [n : Nat, rc : Nat]

LEMMA OlderIs ==
    ASSUME NEW v \in Version, NEW w \in Version
    PROVE  /\ Issue!Semver(v) \in Nat
           /\ Issue!Older(v, w) <=> Issue!Semver(v) < Issue!Semver(w)
<1> DEFINE a == v.n
           b == w.n
           d == IF v.rc = 0 THEN 1 ELSE 0
           e == IF w.rc = 0 THEN 1 ELSE 0
<1>1. a \in Nat /\ b \in Nat /\ d \in {0, 1} /\ e \in {0, 1}
    BY DEF Version
<1>2. Issue!Semver(v) = 2 * a + d /\ Issue!Semver(w) = 2 * b + e
    BY DEF Issue!Semver
<1>3. Issue!Older(v, w) <=> a < b \/ (a = b /\ d = 0 /\ e = 1)
    BY DEF Issue!Older
<1> HIDE DEF a, b, d, e
<1>4. 2 * a + d \in Nat /\ (2 * a + d < 2 * b + e <=> a < b \/ (a = b /\ d = 0 /\ e = 1))
    BY <1>1
<1>5. QED
    BY <1>2, <1>3, <1>4

LEMMA DeployStatusIs ==
    ASSUME NEW newest \in Version, NEW running \in SUBSET Version, IsFiniteSet(running)
    PROVE  /\ running = {} => Issue!DeployStatus(newest, running) = "not-deployed"
           /\ running # {} =>
                (Issue!DeployStatus(newest, running) = "behind")
                    <=> \A v \in running : Issue!Older(v, newest)
<1> DEFINE S == {Issue!Semver(v) : v \in running}
           m == Issue!Max(S)
           none == running = {}
           below == running # {} /\ m < Issue!Semver(newest)
           f == [v \in running |-> Issue!Semver(v)]
<1>1. Issue!DeployStatus(newest, running)
        = CASE none -> "not-deployed" [] below -> "behind" [] OTHER -> "live"
    BY DEF Issue!DeployStatus
<1>2. ASSUME running # {}
      PROVE  m < Issue!Semver(newest) <=> \A v \in running : Issue!Older(v, newest)
    <2>1. \A v \in running : Issue!Semver(v) \in Nat
        BY OlderIs
    <2>2. S \in SUBSET Int /\ S # {} /\ f \in Surjection(running, S)
        BY <1>2, <2>1 DEF Surjection
    <2>3. m = Max(S)
        BY IssueLibrary
    <2>4. IsFiniteSet(S)
        BY <2>2, FS_Surjection
    <2> HIDE DEF f, m
    <2>5. m \in S /\ \A x \in S : m >= x
        <3> HIDE DEF S
        <3>1. QED
            BY <2>2, <2>3, <2>4, MaxIs
    <2>6. PICK w \in running : m = Issue!Semver(w)
        BY <2>5
    <2>7. \A v \in running : m >= Issue!Semver(v)
        BY <2>5
    <2>8. Issue!Semver(newest) \in Nat
        BY OlderIs
    <2> HIDE DEF S
    <2>9. \A v \in running : Issue!Older(v, newest) <=> Issue!Semver(v) < Issue!Semver(newest)
        BY OlderIs
    <2>10. QED
        BY <2>1, <2>6, <2>7, <2>8, <2>9
<1>3. ~(none /\ below)
    OBVIOUS
<1> HIDE DEF m
<1>4. below <=> running # {} /\ \A v \in running : Issue!Older(v, newest)
    BY <1>2
<1>5. none <=> running = {}
    OBVIOUS
<1> HIDE DEF none, below
<1>6. none => Issue!DeployStatus(newest, running) = "not-deployed"
    BY <1>1, <1>3
<1>7. ~none => (Issue!DeployStatus(newest, running) = "behind" <=> below)
    BY <1>1, <1>3
<1>8. QED
    BY <1>4, <1>5, <1>6, <1>7

ReleasesOf(r) ==
    {i \in Issue!Under(Published, "item") :
        body[i].repo = r /\ body[i].version # Issue!NoVersion}

LEMMA ReleasesAre ==
    ASSUME IssueTyped, IssueRead, Issue!Readable, Published \in DOMAIN parts,
           parts[Published].more = Issue!TailOf(Published), NEW r
    PROVE  /\ Issue!Releases(r) = {} <=> ReleasesOf(r) = {}
           /\ Cardinality(Issue!Releases(r)) = Cardinality(ReleasesOf(r))
           /\ ReleasesOf(r) # {} =>
                /\ Newest(r) \in Version
                /\ \E i \in ReleasesOf(r) : Newest(r) = body[i].version
                /\ \A i \in ReleasesOf(r) : ~Issue!Older(Newest(r), body[i].version)
<1> DEFINE list == Issue!ItemsOf(Published)
           n == Len(list)
           K == Issue!Releases(r)
           L == ReleasesOf(r)
           U == UnderTo(Published, "item", Len(body))
           version(k) == list[k].version
<1>1. /\ list = parts[Published].items /\ list \in Seq(IssueItem)
      /\ Lists(Published, Len(body), list)
    BY ReadIs DEF Issue!ItemsOf, IssuePart
<1>2. n \in Nat /\ DOMAIN list = 1..n /\ \A k \in 1..n : list[k] \in IssueItem
    BY <1>1
<1>3. U = Issue!Under(Published, "item")
    BY UnderToIs DEF IssueTyped, BodyFits
<1>4. K = {k \in DOMAIN list : list[k].repo = r /\ list[k].version # Issue!NoVersion}
    BY DEF Issue!Releases
<1>5. L = {i \in U : body[i].repo = r /\ body[i].version # Issue!NoVersion}
    BY <1>3 DEF ReleasesOf
<1>6. PICK g \in [1..n -> U] : /\ \A a, b \in 1..n : g[a] = g[b] => a = b
                               /\ \A i \in U : \E a \in 1..n : g[a] = i
                               /\ \A a \in 1..n : list[a] = body[g[a]]
    BY <1>1 DEF Lists
<1>7. \A k \in 1..n : version(k) \in Version
    <2>1. Issue!NoVersion \in Version /\ Versions \subseteq Version
        BY IssueConstants DEF Version, Issue!NoVersion
    <2>2. QED
        BY <1>2, <2>1 DEF IssueItem
<1>8. \A i : Issue!Ranked(i) = Issue!Semver(version(i))
    BY DEF Issue!Ranked
<1> HIDE DEF list, n, U, K, L
<1>9. K \in SUBSET (1..n) /\ \A k \in K : g[k] \in L /\ list[k] = body[g[k]]
    BY <1>2, <1>4, <1>5, <1>6
<1>10. \A i \in L : \E k \in K : g[k] = i
    BY <1>2, <1>4, <1>5, <1>6
<1>11. IsFiniteSet(1..n)
    BY <1>2, FS_Interval
<1>12. IsFiniteSet(K) /\ K \in SUBSET Int
    <2>1. K \in SUBSET Int
        BY <1>2, <1>9
    <2>2. IsFiniteSet(K)
        BY <1>9, <1>11, FS_Subset
    <2>3. QED
        BY <2>1, <2>2
<1>13. Cardinality(K) = Cardinality(L)
    <2> DEFINE f == [k \in K |-> g[k]]
    <2>1. f \in Bijection(K, L)
        <3>1. f \in [K -> L] /\ \A a, b \in K : f[a] = f[b] => a = b
            BY <1>6, <1>9
        <3>2. \A i \in L : \E k \in K : f[k] = i
            BY <1>10
        <3> HIDE DEF f
        <3>3. QED
            BY <3>1, <3>2 DEF Bijection, Injection, Surjection, IsInjective
    <2> HIDE DEF f
    <2>2. QED
        BY <1>12, <2>1, FS_Bijection DEF ExistsBijection
<1>14. K = {} <=> L = {}
    BY <1>9, <1>10
<1>15. ASSUME L # {}
       PROVE  /\ Newest(r) \in Version
              /\ \E i \in L : Newest(r) = body[i].version
              /\ \A i \in L : ~Issue!Older(Newest(r), body[i].version)
    <2> DEFINE rank(k) == Issue!Semver(version(k))
               S == {rank(k) : k \in K}
               M == {i \in K : \A j \in K : Issue!Ranked(j) <= Issue!Ranked(i)}
               f == [k \in K |-> rank(k)]
    <2>1. K # {} /\ \A k \in K : version(k) \in Version /\ rank(k) \in Nat
        <3>1. \A k \in K : version(k) \in Version
            BY <1>7, <1>9
        <3>2. QED
            BY <1>14, <1>15, <3>1, OlderIs
    <2> HIDE DEF version
    <2>2. S \in SUBSET Int /\ S # {} /\ f \in Surjection(K, S)
        BY <2>1 DEF Surjection
    <2> HIDE DEF f
    <2>3. IsFiniteSet(S)
        BY <1>12, <2>2, FS_Surjection
    <2>4. PICK x \in S : \A y \in S : x >= y
        <3> HIDE DEF S
        <3>1. QED
            BY <2>2, <2>3, LastIsThere
    <2>5. PICK k \in K : x = rank(k)
        BY <2>4
    <2>6. \A j \in K : rank(j) <= rank(k)
        <3>1. \A j \in K : rank(j) \in S
            OBVIOUS
        <3>2. x \in Int /\ \A j \in K : rank(j) \in Int
            BY <2>1, <2>5
        <3> HIDE DEF rank, S
        <3>3. QED
            BY <2>4, <2>5, <3>1, <3>2
    <2>7. k \in M
        BY <1>8, <2>6
    <2>8. M \in SUBSET K /\ M \in SUBSET Int
        BY <1>12
    <2>9. IsFiniteSet(M)
        <3> HIDE DEF M
        <3>1. QED
            BY <1>12, <2>8, FS_Subset
    <2>10. First(r) = Min(M)
        BY IssueLibrary DEF First, K
    <2>11. First(r) \in M
        <3> HIDE DEF M
        <3>1. QED
            BY <2>7, <2>8, <2>9, <2>10, MinIs
    <2> DEFINE first == First(r)
    <2>12. first \in K /\ \A j \in K : rank(j) <= rank(first)
        BY <1>8, <2>11
    <2>13. Newest(r) = version(first)
        BY DEF Newest, version, list
    <2> HIDE DEF first, rank
    <2>14. Newest(r) \in Version
        BY <2>1, <2>12, <2>13
    <2>15. g[first] \in L /\ Newest(r) = body[g[first]].version
        BY <1>9, <2>12, <2>13 DEF version
    <2>16. ASSUME NEW i \in L PROVE ~Issue!Older(Newest(r), body[i].version)
        <3>1. PICK j \in K : g[j] = i
            BY <1>10
        <3>2. body[i].version = version(j) /\ version(j) \in Version
            BY <1>9, <2>1, <3>1 DEF version
        <3>3. rank(j) <= rank(first) /\ rank(j) \in Nat /\ rank(first) \in Nat
            BY <2>1, <2>12
        <3>4. ~(Issue!Semver(Newest(r)) < Issue!Semver(version(j)))
            BY <2>13, <3>3 DEF rank
        <3>5. QED
            BY <2>14, <3>2, <3>4, OlderIs
    <2>17. QED
        BY <2>14, <2>15, <2>16
<1>16. QED
    BY <1>13, <1>14, <1>15 DEF K, L

(* The versions that run on lotor.                                         *)
LEMMA RunningIs ==
    ASSUME IssueTyped, NEW r
    PROVE  Issue!Running(r) \in SUBSET Version /\ IsFiniteSet(Issue!Running(r))
<1> DEFINE C == {d \in containers : d.repo = r /\ d.up /\ d.version # Issue!NoVersion}
           V == Issue!Running(r)
           f == [c \in C |-> c.version]
<1>1. V = {c.version : c \in C}
    BY DEF Issue!Running
<1>2. C \in SUBSET containers /\ \A c \in containers : c.version \in Versions \cup {Issue!NoVersion}
    BY DEF IssueTyped, Issue!Containers
<1>3. Issue!NoVersion \in Version /\ Versions \subseteq Version
    BY IssueConstants DEF Version, Issue!NoVersion
<1> HIDE DEF C, V
<1>4. V \in SUBSET Version
    BY <1>1, <1>2, <1>3
<1>5. IsFiniteSet(C)
    BY <1>2, FS_Subset DEF IssueTyped
<1>6. f \in Surjection(C, V)
    BY <1>1 DEF Surjection
<1>7. IsFiniteSet(V)
    BY <1>5, <1>6, FS_Surjection
<1>8. QED
    BY <1>4, <1>7 DEF V

(* "and 17 more reads as a cap, not a gap" (ashigaru_issue): for any       *)
(* issue, any caps and any length, what a part lists and says there is     *)
(* more of adds up to what the issue has there.                            *)
THEOREM PartsTheorem == Spec => []PartsAddUp
<1>1. IssueInv => PartsAddUp
    <2> SUFFICES ASSUME IssueFact, collector \in Issue!Kinds, phase \in {"read", "done"},
                        "label" \notin section.errors
                 PROVE  /\ DOMAIN listing = {p \in Issue!Parts :
                                                Issue!Heading(p) \in Issue!ToSet(body)}
                        /\ \A p \in DOMAIN listing :
                              /\ Issue!Readable =>
                                    listing[p].listed + listing[p].more
                                        = Issue!Cardinality(Issue!Under(p, "item"))
                                          + Issue!TailOf(p)
                              /\ phase = "done" /\ (collector = "ashigaru_issue" \/ p = OtherPart)
                                    => Issue!Cardinality(Issue!Listed(p)) = listing[p].listed
        BY DEF IssueInv, PartsAddUp, Issue!PartsAddUp
    <2>1. IssueTyped /\ IssueRead /\ (phase = "done" => IssueListed)
        BY DEF IssueFact
    <2>2. /\ DOMAIN listing = {p \in Issue!Parts : Issue!Heading(p) \in Issue!ToSet(body)}
          /\ DOMAIN listing = DOMAIN parts
        BY <2>1, ReadIs
    <2>3. ASSUME NEW p \in DOMAIN listing, Issue!Readable
          PROVE  listing[p].listed + listing[p].more
                    = Issue!Cardinality(Issue!Under(p, "item")) + Issue!TailOf(p)
        <3>1. /\ listing[p].listed = Len(parts[p].items) /\ listing[p].more = parts[p].more
              /\ Len(parts[p].items) + parts[p].more
                    = Cardinality(Issue!Under(p, "item")) + Issue!TailOf(p)
            BY <2>1, <2>2, <2>3, ReadIs
        <3>2. QED
            BY <3>1, IssueLibrary
    <2>4. ASSUME NEW p \in DOMAIN listing, phase = "done",
                 collector = "ashigaru_issue" \/ p = OtherPart
          PROVE  Issue!Cardinality(Issue!Listed(p)) = listing[p].listed
        <3> DEFINE other == Issue!ItemRecords(OtherPart)
                   mine == Issue!ItemRecords(Published)
        <3>1. PICK first : /\ section.records = <<>> \o (first \o other)
                           /\ \/ first = mine
                              \/ collector # "ashigaru_issue"
                                 /\ \E known : first = Issue!RepoRecords(known)
            BY <2>1, <2>4 DEF IssueListed, RecordsAre, Issue!Kinds
        <3>2. other \in Seq(ItemRecord(OtherPart)) /\ mine \in Seq(ItemRecord(Published))
            BY <2>1, ItemRecordsAre
        <3>r. \A q : \A x \in ItemRecord(q) : x.kind = "item" /\ x.part = q
            BY DEF ItemRecord
        <3>3. p \in {Published, OtherPart} /\ Published # OtherPart
            BY <2>2, IssueConstants DEF Issue!Parts
        <3>4. Len(Issue!ItemRecords(p)) = listing[p].listed
            BY <2>1, <2>2, ItemRecordsAre, ReadIs
        <3>5. \A i \in DOMAIN other : (other[i].kind = "item" /\ other[i].part = p) <=> p = OtherPart
            BY <3>2, <3>r
        <3>6. \A i \in DOMAIN mine : (mine[i].kind = "item" /\ mine[i].part = p) <=> p = Published
            BY <3>2, <3>r
        <3>7. CASE first = mine
            <4> DEFINE S == ItemRecord(Published) \cup ItemRecord(OtherPart)
            <4>1. mine \in Seq(S) /\ other \in Seq(S)
                BY <3>2
            <4> HIDE DEF S, mine, other
            <4>2. section.records = <<>> \o (mine \o other)
                BY <3>1, <3>7
            <4>3. CASE p = Published
                <5>1. AllOf(mine, p) /\ NoneOf(other, p)
                    BY <3>3, <3>5, <3>6, <4>3 DEF AllOf, NoneOf
                <5>2. Cardinality(Issue!Listed(p)) = Len(mine)
                    BY <4>1, <4>2, <5>1, ListedFirst
                <5>3. QED
                    BY <3>4, <4>3, <5>2, IssueLibrary DEF mine
            <4>4. CASE p = OtherPart
                <5>1. NoneOf(mine, p) /\ AllOf(other, p)
                    BY <3>3, <3>5, <3>6, <4>4 DEF AllOf, NoneOf
                <5>2. Cardinality(Issue!Listed(p)) = Len(other)
                    BY <4>1, <4>2, <5>1, ListedLast
                <5>3. QED
                    BY <3>4, <4>4, <5>2, IssueLibrary DEF other
            <4>5. QED
                BY <3>3, <4>3, <4>4
        <3>8. CASE collector # "ashigaru_issue" /\ \E known : first = Issue!RepoRecords(known)
            <4>1. PICK known : first = Issue!RepoRecords(known)
                BY <3>8
            <4>2. p = OtherPart
                BY <2>4, <3>8
            <4> DEFINE S == RepoSet(known) \cup ItemRecord(OtherPart)
            <4>3. first \in Seq(RepoSet(known)) /\ \A x \in RepoSet(known) : x.kind = "repo"
                BY <4>1, RepoSetIs
            <4>4. first \in Seq(S) /\ other \in Seq(S)
                BY <3>2, <4>3
            <4>5. NoneOf(first, p)
                BY <4>3 DEF NoneOf
            <4>6. AllOf(other, p)
                BY <3>5, <4>2 DEF AllOf
            <4>7. section.records = <<>> \o (first \o other)
                BY <3>1
            <4> HIDE DEF S, other
            <4>8. Cardinality(Issue!Listed(p)) = Len(other)
                BY <4>4, <4>5, <4>6, <4>7, ListedLast
            <4>9. QED
                BY <3>4, <4>2, <4>8, IssueLibrary DEF other
        <3>9. QED
            BY <3>1, <3>7, <3>8
    <2>5. QED
        BY <2>2, <2>3, <2>4
<1>2. QED
    BY InitIssue, NextIssue, <1>1, PTL DEF Spec

(* For any issue, any versions and any containers: of every repository the *)
(* issue says was released there is one record, its version is one of its  *)
(* releases and none is later, all are counted, and its status is what the *)
(* containers of one answer say, or none when lotor did not answer.        *)
THEOREM DeployTheorem == Spec => []DeployStatusIsTrue
<1>1. IssueInv => DeployStatusIsTrue
    <2> DEFINE Records(r) == {x \in Issue!ToSet(section.records) : x.kind = "repo" /\ x.repo = r}
    <2>a. ASSUME IssueFact, phase = "done", collector = "crunchtools_releases", Issue!Readable,
                 Published \in DOMAIN listing,
                 listing[Published].more = Issue!TailOf(Published), NEW r \in Repos
          PROVE  IF ReleasesOf(r) = {} THEN Records(r) = {}
                 ELSE \E x \in Records(r) :
                        /\ Records(r) = {x} /\ x.releases = Issue!Cardinality(ReleasesOf(r))
                        /\ \E i \in ReleasesOf(r) : x.newest = body[i].version
                        /\ \A i \in ReleasesOf(r) : ~Issue!Older(x.newest, body[i].version)
                        /\ Issue!IsDeployed(x)
        <3>1. "label" \notin section.errors
            <4>1. "label" \in section.errors => listing = <<>>
                BY <2>a DEF IssueFact
            <4>2. DOMAIN <<>> = {}
                OBVIOUS
            <4>3. QED
                BY <2>a, <4>1, <4>2
        <3>2. IssueTyped /\ IssueRead /\ IssueListed
            BY <2>a, <3>1 DEF IssueFact
        <3>3. Published \in DOMAIN parts /\ parts[Published].more = Issue!TailOf(Published)
            BY <2>a, <3>2, ReadIs
        <3>4. /\ Issue!Releases(r) = {} <=> ReleasesOf(r) = {}
              /\ Cardinality(Issue!Releases(r)) = Cardinality(ReleasesOf(r))
              /\ ReleasesOf(r) # {} =>
                   /\ Newest(r) \in Version
                   /\ \E i \in ReleasesOf(r) : Newest(r) = body[i].version
                   /\ \A i \in ReleasesOf(r) : ~Issue!Older(Newest(r), body[i].version)
            BY <2>a, <3>2, <3>3, ReleasesAre
        <3> DEFINE known == "lotor" \notin section.errors
                   other == Issue!ItemRecords(OtherPart)
                   repos == Issue!RepoRecords(known)
                   x == Issue!RepoRecord(r, known)
        <3>5. section.records = <<>> \o (repos \o other)
            <4>1. CASE known
                <5>1. known = TRUE
                    BY <4>1
                <5> HIDE DEF known
                <5>2. RecordsAre(Issue!RepoRecords(TRUE))
                    BY <2>a, <3>2, <4>1 DEF IssueListed, known
                <5>3. QED
                    BY <5>1, <5>2 DEF RecordsAre
            <4>2. CASE ~known
                <5>1. known = FALSE
                    BY <4>2
                <5> HIDE DEF known
                <5>2. RecordsAre(Issue!RepoRecords(FALSE))
                    BY <2>a, <3>2, <4>2 DEF IssueListed, known
                <5>3. QED
                    BY <5>1, <5>2 DEF RecordsAre
            <4>3. QED
                BY <4>1, <4>2
        <3>6. Issue!ToSet(section.records) = RepoSet(known) \cup Issue!ToSet(other)
            <4> DEFINE S == RepoSet(known) \cup ItemRecord(OtherPart)
            <4>1. repos \in Seq(RepoSet(known)) /\ Issue!ToSet(repos) = RepoSet(known)
                BY RepoSetIs
            <4>2. other \in Seq(ItemRecord(OtherPart))
                BY <3>2, ItemRecordsAre
            <4>3. repos \in Seq(S) /\ other \in Seq(S)
                BY <4>1, <4>2
            <4> HIDE DEF S, other, repos, known
            <4>4. Issue!ToSet(section.records) = Issue!ToSet(repos) \cup Issue!ToSet(other)
                BY <3>5, <4>3, BothSetsAre
            <4>5. QED
                BY <4>1, <4>4
        <3>7. \A y \in Issue!ToSet(other) : y.kind = "item"
            <4>1. other \in Seq(ItemRecord(OtherPart))
                BY <3>2, ItemRecordsAre
            <4>2. \A y \in ItemRecord(OtherPart) : y.kind = "item"
                BY DEF ItemRecord
            <4> HIDE DEF other
            <4>3. QED
                BY <4>1, <4>2 DEF Issue!ToSet
        <3>8. \A y \in RepoSet(known) : y.kind = "repo"
            BY RepoSetIs
        <3> HIDE DEF known, other, repos
        <3>9. Records(r) = {y \in RepoSet(known) : y.repo = r}
            BY <3>6, <3>7, <3>8
        <3>10. \A q : Issue!RepoRecord(q, known).repo = q
            BY RepoRecordIs
        <3>11. Records(r) = IF Issue!Releases(r) = {} THEN {} ELSE {x}
            BY <2>a, <3>9, <3>10 DEF RepoSet
        <3>12. CASE ReleasesOf(r) = {}
            BY <3>4, <3>11, <3>12
        <3>13. CASE ReleasesOf(r) # {}
            <4>1. Records(r) = {x}
                BY <3>4, <3>11, <3>13
            <4>2. /\ x.repo = r /\ x.newest = Newest(r)
                  /\ x.releases = Cardinality(Issue!Releases(r))
                  /\ x.status = IF known THEN Issue!DeployStatus(Newest(r), Issue!Running(r))
                                ELSE "unknown"
                BY RepoRecordIs
            <4> HIDE DEF x
            <4>3. x.releases = Issue!Cardinality(ReleasesOf(r))
                BY <3>4, <4>2, IssueLibrary
            <4>4. Issue!IsDeployed(x)
                <5> DEFINE up == Issue!Running(r)
                           lost == "lotor" \in section.errors
                           none == "lotor" \notin section.errors /\ up = {}
                <5>1. up \in SUBSET Version /\ IsFiniteSet(up)
                    BY <3>2, RunningIs
                <5>2. Newest(r) \in Version
                    BY <3>4, <3>13
                <5>3. /\ up = {} => Issue!DeployStatus(Newest(r), up) = "not-deployed"
                      /\ up # {} => (Issue!DeployStatus(Newest(r), up) = "behind")
                                        <=> \A v \in up : Issue!Older(v, Newest(r))
                    BY <5>1, <5>2, DeployStatusIs
                <5>4. Issue!IsDeployed(x)
                        = CASE lost -> x.status = "unknown"
                            [] none -> x.status = "not-deployed"
                            [] OTHER -> (x.status = "behind")
                                            = \A v \in up : Issue!Older(v, x.newest)
                    BY <4>2 DEF Issue!IsDeployed
                <5>5. lost <=> ~known
                    BY DEF known
                <5>6. none <=> ~lost /\ up = {}
                    OBVIOUS
                <5> HIDE DEF lost, none, up
                <5>7. CASE lost
                    BY <4>2, <5>4, <5>5, <5>6, <5>7
                <5>8. CASE none
                    BY <4>2, <5>3, <5>4, <5>5, <5>6, <5>8 DEF up
                <5>9. CASE ~lost /\ ~none
                    <6>1. (x.status = "behind") <=> \A v \in up : Issue!Older(v, x.newest)
                        BY <4>2, <5>3, <5>5, <5>6, <5>9 DEF up
                    <6>2. Issue!IsDeployed(x) = ((x.status = "behind")
                                            = \A v \in up : Issue!Older(v, x.newest))
                        BY <5>4, <5>9
                    <6>3. QED
                        BY <6>1, <6>2
                <5>10. QED
                    BY <5>7, <5>8, <5>9
            <4>5. QED
                BY <3>4, <3>13, <4>1, <4>2, <4>3, <4>4
        <3>14. QED
            BY <3>12, <3>13
    <2>b. QED
        BY <2>a DEF IssueInv, DeployStatusIsTrue, Issue!DeployStatusIsTrue, ReleasesOf
<1>2. QED
    BY InitIssue, NextIssue, <1>1, PTL DEF Spec

-----------------------------------------------------------------------------
(* Every collector together.                                               *)

(* A part of any collector's state has its type, whatever the gateway      *)
(* answers and whatever changes between two of its calls.                  *)
THEOREM CollectorsTypeTheorem == Spec => []TypeOK
<1> DEFINE AllInv == /\ collector \in Names
                     /\ GmailInv /\ DailyInv /\ NagiosInv /\ IssueInv /\ CalendarInv
<1>1. Init => AllInv
    BY InitGmail, InitDaily, InitNagios, InitIssue, InitCalendar DEF Init
<1>2. AllInv /\ [Next]_vars => AllInv'
    <2>1. [Next]_vars => collector' = collector
        BY OneCollector
    <2>2. QED
        BY <2>1, NextGmail, NextDaily, NextNagios, NextIssue, NextCalendar
<1>3. AllInv => TypeOK
    <2> SUFFICES ASSUME AllInv PROVE TypeOK
        OBVIOUS
    <2>1. ASSUME collector = "gmail_waiting" PROVE Gmail!TypeOK
        <3>1. GmailTyped /\ GmailPhases
            BY <2>1 DEF GmailInv, GmailFact
        <3>2. at \in 0..Gmail!ToRead(found)
            <4>1. at \in Nat /\ Gmail!ToRead(found) \in Nat
                BY <3>1, ToReadOfMail DEF GmailTyped
            <4>2. at = 0 \/ at <= Gmail!ToRead(found)
                BY <3>1, <4>1 DEF GmailTyped, GmailPhases
            <4>3. QED
                BY <4>1, <4>2
        <3>3. QED
            BY <3>1, <3>2 DEF GmailTyped, Gmail!TypeOK, Mail, MailRecord
    <2>2. ASSUME collector \in Daily!Kinds PROVE Daily!TypeOK
        BY <2>2 DEF DailyInv, DailyFact, DailyTyped, DailyItem, Daily!TypeOK
    <2>3. ASSUME collector = "nagios_health" PROVE Nagios!TypeOK
        BY <2>3 DEF NagiosInv, NagiosFact, NagiosTyped, NagiosSection, CheckRecord, Nagios!TypeOK
    <2>4. ASSUME collector \in Issue!Kinds PROVE Issue!TypeOK
        <3>1. IssueFact /\ IssueTyped
            BY <2>4 DEF IssueInv, IssueFact
        <3>2. /\ DOMAIN parts \subseteq Issue!Parts /\ DOMAIN listing = DOMAIN parts
              /\ \A p \in DOMAIN parts : parts[p] \in IssuePart /\ Len(parts[p].items) <= MaxListed
            <4>1. CASE IssueRead
                BY <3>1, <4>1, ReadIs
            <4>2. CASE parts = <<>> /\ listing = <<>>
                <5>1. DOMAIN <<>> = {}
                    OBVIOUS
                <5>2. QED
                    BY <4>2, <5>1
            <4>3. QED
                BY <3>1, <4>1, <4>2 DEF IssueFact, IssueTyped
        <3>3. section.callsOk \in BOOLEAN
            BY <3>1 DEF IssueTyped, IsSection, Sections
        <3>4. QED
            BY <2>4, <3>1, <3>2, <3>3 DEF IssueTyped, IssuePart, Issue!TypeOK
    <2>5. ASSUME collector = "calendar_day" PROVE Calendar!TypeOK
        <3>1. CalendarTyped
            BY <2>5 DEF CalendarInv, CalendarFact
        <3>2. ASSUME NEW i \in DOMAIN section.records
              PROVE  section.records[i] \in CalendarRecord
            BY <3>1, <3>2 DEF CalendarTyped
        <3>3. QED
            BY <3>1, <3>2 DEF CalendarTyped, CalendarRecord, Calendar!TypeOK
    <2>6. QED
        BY <2>1, <2>2, <2>3, <2>4, <2>5 DEF TypeOK
<1>4. QED
    BY <1>1, <1>2, <1>3, PTL DEF Spec

=============================================================================
