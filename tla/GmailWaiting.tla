---------------------------- MODULE GmailWaiting ----------------------------
(* One run of the gmail_waiting collector: it searches the inbox page by   *)
(* page, then reads the threads it found one by one, and keeps those where *)
(* the user owes a reply.  Mail goes on arriving between any two calls.    *)
(*                                                                         *)
(* `log' is the mail in the order it arrives; a position in it is a time.  *)
(* Assumed of the mailbox: a thread stays in the inbox while the collector *)
(* runs, and is listed by its latest message.                              *)
EXTENDS Section

CONSTANTS
    Threads,        \* mail threads
    SearchPageSize, \* GMAIL_SEARCH_PAGE_SIZE
    MaxPages,       \* MAX_PAGES
    MaxThreads,     \* opts.max_threads
    StartDay,       \* the search asks for mail after this time (a whole day)
    Start,          \* window.start, later the same day
    MinAges,        \* opts.min_age_hours
    MaxLog          \* bound on the mail

Constants ==
    /\ {SearchPageSize, MaxPages, MaxThreads, MaxLog} \subseteq Nat \ {0}
    /\ IsFiniteSet(Threads) /\ "search" \notin Threads
    /\ StartDay \in Nat /\ Start \in Nat /\ StartDay <= Start /\ MinAges \subseteq Nat

VARIABLES
    log,        \* mail: a thread and what the message is
    minAge,     \* opts.min_age_hours
    phase,      \* "idle", "search", "read", "done"
    page,       \* the next page of the search
    found,      \* thread_ids
    at,         \* how many of them were read
    section,    \* records and errors
    stats,      \* the numbers the section carries
    began       \* history: the mail there was when the run began, its `now'

vars == <<log, minAge, phase, page, found, at, section, stats, began>>

(* "ask" leaves the ball with the user, "fyi" with somebody else; "own" is *)
(* the user's, "robot" automated mail or a calendar notice.                *)
Kinds == {"ask", "fyi", "own", "robot"}

Reasons == {"self", "noise", "not_owed", "old", "fresh"}

----------------------------------------------------------------------------
(* The mailbox.                                                            *)

LastMail(t) == Max({i \in DOMAIN log : log[i].thread = t})

LastKind(t) == log[LastMail(t)].kind

Listed == {t \in Threads : \E i \in DOMAIN log : log[i].thread = t /\ i > StartDay}

(* Page p of the listing as it is now, latest first: a thread that gets    *)
(* mail moves to the top and the pages shift.                              *)
OnPage(p) ==
    InOrder(
        {t \in Listed :
            Cardinality({u \in Listed : LastMail(u) > LastMail(t)})
                \in ((p - 1) * SearchPageSize)..(p * SearchPageSize - 1)},
        LAMBDA t, u : LastMail(t) > LastMail(u))

IsLastPage(p) == p * SearchPageSize >= Cardinality(Listed)

Arrive(t, kind) ==
    /\ phase # "done" /\ Len(log) < MaxLog
    /\ log' = Append(log, [thread |-> t, kind |-> kind])
    /\ UNCHANGED <<minAge, phase, page, found, at, section, stats, began>>

----------------------------------------------------------------------------
Init ==
    /\ log = <<>> /\ minAge = 0
    /\ phase = "idle" /\ page = 1 /\ found = <<>> /\ at = 0 /\ began = 0
    /\ section = NewSection
    /\ stats = [dropped |-> [r \in Reasons |-> 0], unknown |-> 0,
                truncated |-> 0, searchTruncated |-> FALSE]

Begin ==
    /\ phase = "idle"
    /\ phase' = "search" /\ began' = Len(log) /\ minAge' \in MinAges
    /\ UNCHANGED <<log, page, found, at, section, stats>>

ToRead(ids) == Min({Len(ids), MaxThreads})

(* The search is over: what it found is read next, up to max_threads.      *)
SearchEnds(ids, cut) ==
    /\ phase' = IF ids = <<>> THEN "done" ELSE "read"
    /\ stats' = [stats EXCEPT !.truncated = Len(ids) - ToRead(ids), !.searchTruncated = cut]
    /\ UNCHANGED page

\* Slip: a thread that moved to the next page is taken again.
WithPage_Slip(p) == found \o OnPage(p)

WithPage(p) == found \o Selected(OnPage(p), LAMBDA t : t \notin ToSet(found))

SearchPage ==
    /\ phase = "search"
    /\ found' = WithPage(page)
    /\ section' = CountOk(section)
    /\ \/ IsLastPage(page) /\ SearchEnds(found', FALSE)
       \/ /\ ~IsLastPage(page) /\ (Len(found') >= MaxThreads \/ page = MaxPages)
          /\ SearchEnds(found', TRUE)
       \/ /\ ~IsLastPage(page) /\ Len(found') < MaxThreads /\ page < MaxPages
          /\ page' = page + 1
          /\ UNCHANGED <<phase, stats>>
    /\ UNCHANGED <<log, minAge, at, began>>

(* A page that fails ends the search; the threads found so far are read.   *)
SearchFails ==
    /\ phase = "search"
    /\ section' = NoteError(section, "search")
    /\ SearchEnds(found, FALSE)
    /\ UNCHANGED <<log, minAge, found, at, began>>

\* Slip: a thread without an analysis is dropped as not owed.
DropReason_Slip(t, analysed) ==
    CASE LastKind(t) = "own" -> "self"
      [] LastKind(t) = "robot" -> "noise"
      [] LastKind(t) \notin {"own", "robot"} /\ (LastKind(t) = "fyi" \/ ~analysed) -> "not_owed"
      [] OTHER -> "none"

(* _drop_reason.  The backend may give no analysis of a thread: then it is *)
(* not known whose turn it is, nor when the last message came.             *)
DropReason(t, analysed) ==
    CASE LastKind(t) = "own" -> "self"
      [] LastKind(t) = "robot" -> "noise"
      [] LastKind(t) = "fyi" /\ analysed -> "not_owed"
      [] LastKind(t) = "ask" /\ analysed /\ LastMail(t) <= Start -> "old"
      [] LastKind(t) = "ask" /\ analysed /\ LastMail(t) > Start
            /\ minAge > 0 /\ LastMail(t) + minAge > began -> "fresh"
      [] OTHER -> "none"

Record(t, analysed) == [thread |-> t, known |-> analysed]

NextThread == at' = at + 1 /\ phase' = IF at + 1 = ToRead(found) THEN "done" ELSE "read"

KeepThread(t, analysed) ==
    /\ DropReason(t, analysed) = "none"
    /\ section' = AddRecords(CountOk(section), <<Record(t, analysed)>>)
    /\ stats' = [stats EXCEPT !.unknown = @ + (IF analysed THEN 0 ELSE 1)]

DropThread(t, analysed) ==
    /\ DropReason(t, analysed) # "none"
    /\ section' = CountOk(section)
    /\ stats' = [stats EXCEPT !.dropped[DropReason(t, analysed)] = @ + 1]

ReadThread ==
    /\ phase = "read"
    /\ \E analysed \in BOOLEAN :
          KeepThread(found[at + 1], analysed) \/ DropThread(found[at + 1], analysed)
    /\ NextThread
    /\ UNCHANGED <<log, minAge, page, found, began>>

ReadFails ==
    /\ phase = "read"
    /\ section' = NoteError(section, found[at + 1])
    /\ NextThread
    /\ UNCHANGED <<log, minAge, page, found, stats, began>>

Next ==
    \/ \E t \in Threads, kind \in Kinds : Arrive(t, kind)
    \/ Begin \/ SearchPage \/ SearchFails \/ ReadThread \/ ReadFails

Spec == Init /\ [][Next]_vars

----------------------------------------------------------------------------
TypeOK ==
    /\ log \in Seq([thread : Threads, kind : Kinds]) /\ minAge \in MinAges \cup {0}
    /\ phase \in {"idle", "search", "read", "done"} /\ page \in 1..MaxPages
    /\ found \in Seq(Threads) /\ at \in 0..ToRead(found) /\ began \in 0..Len(log)
    /\ section.errors \subseteq Threads \cup {"search"} /\ section.callsOk \in BOOLEAN
    /\ section.records \in Seq([thread : Threads, known : BOOLEAN])
    /\ stats.dropped \in [Reasons -> Nat] /\ stats.truncated \in Nat

ReportedThreads == {section.records[i].thread : i \in DOMAIN section.records}

(* The user owes a reply that was asked for in the window, long enough     *)
(* before the run, and nothing has come since.                             *)
IsWaiting(t) ==
    /\ t \in Listed /\ LastKind(t) = "ask"
    /\ LastMail(t) \in (Start + 1)..(began - minAge)

(* "Missing a thread the user owes is worse than showing one the reader    *)
(* can dismiss" (gmail_waiting): such a thread is in the section, whatever *)
(* arrives meanwhile and however the pages shift, or the section tells     *)
(* that a call for it failed or that there was more than it read.          *)
NoMailLost ==
    phase = "done" =>
        \A t \in Threads : IsWaiting(t) =>
            \/ t \in ReportedThreads
            \/ t \in section.errors \/ "search" \in section.errors
            \/ stats.searchTruncated \/ stats.truncated > 0

Dropped ==
    LET n == stats.dropped
    IN  n["self"] + n["noise"] + n["not_owed"] + n["old"] + n["fresh"]

(* The numbers of the section add up: every thread found is a record, was  *)
(* dropped for a reason, failed or was cut, and none of it twice.          *)
EachThreadOnce ==
    phase = "done" =>
        /\ IsInjective(found)
        /\ Len(found) = Len(section.records) + stats.truncated
                        + Cardinality(section.errors \ {"search"})
                        + Dropped
        /\ stats.unknown = Quantify(DOMAIN section.records, LAMBDA i : ~section.records[i].known)
============================================================================
