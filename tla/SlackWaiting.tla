---------------------------- MODULE SlackWaiting ----------------------------
(* One run of the slack_waiting collector, which looks for asks the user   *)
(* has not answered.  It searches Slack, page by page, for conversations,  *)
(* then reads each of them, page by page, and says where it stands.  Every *)
(* page is a gateway call of its own: it may fail or be flagged, and       *)
(* between two of them people go on writing.                               *)
(*                                                                         *)
(* `log' is the workspace in the order things happen; a position in it is  *)
(* a Slack timestamp.  A conversation is a key of _add_match: a thread, a  *)
(* DM (of two or of a group), or the top level of a channel.               *)
EXTENDS Naturals, SequencesExt, Order

CONSTANTS
    Convs,              \* conversations
    Posts,              \* what may be posted, a subset of [by, text]
    SearchPageSize,     \* SLACK_SEARCH_PAGE_SIZE
    MaxPages,           \* pages read of each search
    ConvPageSize,       \* SLACK_THREAD_LIMIT, SLACK_DM_HISTORY_LIMIT, ...
    ConvMaxPages,       \* SLACK_THREAD_MAX_PAGES
    MaxConversations,   \* opts.max_conversations
    MaxLog              \* bound on the workspace

ASSUME SlackAssumption ==
    /\ {SearchPageSize, MaxPages, ConvPageSize, ConvMaxPages, MaxConversations, MaxLog}
          \subseteq Nat \ {0}

VARIABLES
    kind,       \* what each conversation is
    log,        \* messages, and the user's reactions to them
    phase,      \* "search", "read", "done"
    query,      \* the search under way: 1 is to:@handle, 2 is <@user_id>
    page,       \* and its next page
    found,      \* conversation -> its earliest and its latest hit
    todo,       \* conversations still to read, latest first
    reading,    \* what has been read of the first of them
    verdicts,   \* conversation -> what the collector made of it
    stats,      \* what the section says about the run as a whole
    began       \* history: the workspace when the run began

vars == <<kind, log, phase, query, page, found, todo, reading, verdicts, stats, began>>

Kinds == {"thread", "dm", "channel"}

(* What a message says, as far as slack_reply_state cares: "request" is a  *)
(* question to the user (any question in a DM of two, one that names the   *)
(* user elsewhere), "mention" an @-mention, "relayed" a quoted @-mention.  *)
Texts == {"chat", "request", "mention", "relayed"}

ASSUME PostsAssumption == Posts \subseteq [by : {"user", "other", "bot"}, text : Texts]

Message == [conv : Convs, by : {"user", "other", "bot"}, text : Texts, to : {0}]
Ack == [conv : Convs, by : {"user"}, text : {"ack"}, to : 1..MaxLog]

IsMessage(t) == log[t].text # "ack"

(* An ask is somebody else's; bots never ask.                              *)
Directed(t) == log[t].by = "other" /\ log[t].text \in {"request", "mention"}

(* A post of the user answers all earlier asks of the conversation; a      *)
(* reaction, or a reply in the thread under it, only the ask it is about.  *)
Answers(u, t) ==
    \/ log[u].text = "ack" /\ log[u].to = t
    \/ u > t /\ IsMessage(u) /\ log[u].by = "user" /\ log[u].conv = log[t].conv

AckedNow == {log[u].to : u \in {v \in DOMAIN log : ~IsMessage(v)}}

----------------------------------------------------------------------------
(* Reading Slack.                                                          *)

Matches(q) ==
    {t \in DOMAIN log :
        /\ IsMessage(t) /\ log[t].by # "user"
        /\ \/ q = 1 /\ kind[log[t].conv] = "dm"
           \/ q = 2 /\ log[t].text \in {"mention", "relayed"}}

(* Page p of the hits as they are now, newest first: when a hit arrives,   *)
(* the pages shift.                                                        *)
HitsOnPage(q, p) ==
    {t \in Matches(q) :
        Cardinality({u \in Matches(q) : u > t})
            \in ((p - 1) * SearchPageSize)..(p * SearchPageSize - 1)}

IsLastPage(q, p) == p * SearchPageSize >= Cardinality(Matches(q))

(* _add_match, for all the hits of a page.                                 *)
AddMatches_Slip(f, hits) ==
    LET human == {t \in hits : log[t].by = "other"}
        Hits(c) == {t \in human : log[t].conv = c}
    IN  [c \in DOMAIN f \cup {log[t].conv : t \in human} |->
            IF c \in DOMAIN f THEN f[c] ELSE [earliest |-> Max(Hits(c)), latest |-> Max(Hits(c))]]

AddMatches(f, hits) ==
    LET human == {t \in hits : log[t].by = "other"}
        Times(c) == {t \in human : log[t].conv = c}
                    \cup (IF c \in DOMAIN f THEN {f[c].earliest, f[c].latest} ELSE {})
    IN  [c \in DOMAIN f \cup {log[t].conv : t \in human} |->
            [earliest |-> Min(Times(c)), latest |-> Max(Times(c))]]

(* A thread is read from its start on, oldest first; history from the      *)
(* first page back to the earliest hit, newest first.                      *)
OldestFirst(c) == kind[c] = "thread"
InRange(c, t) ==
    IsMessage(t) /\ log[t].conv = c /\ (OldestFirst(c) \/ t >= found[c].earliest)

Unread(c) ==
    {t \in DOMAIN log :
        /\ InRange(c, t)
        /\ IF OldestFirst(c)
           THEN \A u \in reading.seen : t > u
           ELSE (\A u \in reading.seen : t < u) /\ (reading.pages > 0 => t <= reading.since)}

FirstOf(c, k) ==
    {t \in Unread(c) :
        Cardinality({u \in Unread(c) : IF OldestFirst(c) THEN u < t ELSE u > t}) < k}

NothingRead == [seen |-> {}, acked |-> {}, pages |-> 0, since |-> 0,
                flagged |-> FALSE, withheld |-> {}]

Since == IF reading.pages = 0 THEN Len(log) ELSE reading.since

Read_Slip(messages, flag) ==
    [seen |-> reading.seen \cup messages,
     acked |-> reading.acked \cup (messages \cap AckedNow),
     pages |-> reading.pages + 1,
     since |-> Since,
     flagged |-> flag,
     withheld |-> reading.withheld \cup (IF flag THEN messages ELSE {})]

Read(messages, flag) ==
    [seen |-> reading.seen \cup messages,
     acked |-> reading.acked \cup (messages \cap AckedNow),
     pages |-> reading.pages + 1,
     since |-> Since,
     flagged |-> reading.flagged \/ flag,
     withheld |-> reading.withheld \cup (IF flag THEN messages ELSE {})]

----------------------------------------------------------------------------
(* What the collector makes of what it read.                               *)

Asks(r) == {t \in r.seen : Directed(t)}
OpenAsks_Slip(r) ==
    {t \in Asks(r) \ r.acked : \A u \in r.seen : u > t => log[u].by # "user" /\ u \notin Asks(r)}

OpenAsks(r) ==
    {t \in Asks(r) \ r.acked : \A u \in r.seen : u > t => log[u].by # "user"}
LastAsk(r) == IF OpenAsks(r) # {} THEN Max(OpenAsks(r)) ELSE Max(Asks(r))

StateOf_Slip(c, r, complete) ==
    CASE r.seen = {} -> "failed"
      [] r.seen # {} /\ Asks(r) = {} -> "no_ask"
      [] Asks(r) # {} -> IF OpenAsks(r) = {} THEN "answered" ELSE "waiting"

(* _read_conversation after its last page.  A hit that was not read keeps  *)
(* a conversation without asks.                                            *)
StateOf(c, r, complete) ==
    CASE r.seen = {} -> "failed"
      [] r.seen # {} /\ Asks(r) = {} ->
            IF ~complete /\ found[c].latest \notin r.seen THEN "unverified" ELSE "no_ask"
      [] Asks(r) # {} ->
            IF ~complete THEN "unverified"
            ELSE IF OpenAsks(r) = {} THEN "answered" ELSE "waiting"

(* The record shows the ask and the tail, unless some page was flagged.    *)
Verdict(c, r, complete) ==
    [state    |-> StateOf(c, r, complete),
     ask      |-> IF Asks(r) # {} THEN LastAsk(r) ELSE found[c].latest,
     shown    |-> IF r.flagged THEN {} ELSE r.seen,
     complete |-> complete,
     since    |-> r.since,
     flagged  |-> r.withheld]

Reported == {c \in DOMAIN verdicts : verdicts[c].state \in {"waiting", "unverified"}}

SectionStatus ==
    CASE stats.errors = 0 -> "ok"
      [] stats.errors > 0 /\ Reported = {} /\ ~stats.callsOk -> "error"
      [] OTHER -> "partial"

----------------------------------------------------------------------------
Init ==
    /\ kind \in [Convs -> Kinds]
    /\ log = <<>> /\ began = 0
    /\ phase = "idle" /\ query = 1 /\ page = 1
    /\ found = <<>> /\ todo = <<>> /\ reading = NothingRead /\ verdicts = <<>>
    /\ stats = [errors |-> 0, callsOk |-> FALSE, searchTruncated |-> FALSE, truncated |-> 0]

collector == <<phase, query, page, found, todo, reading, verdicts, stats, began>>

Post(c, p) ==
    /\ phase # "done" /\ Len(log) < MaxLog
    /\ log' = Append(log, [conv |-> c, by |-> p.by, text |-> p.text, to |-> 0])
    /\ UNCHANGED <<kind, collector>>

(* The user reacts to an ask, or answers it in a thread of its own.        *)
React(t) ==
    /\ phase # "done" /\ Len(log) < MaxLog
    /\ IsMessage(t) /\ log[t].by = "other" /\ t \notin AckedNow
    /\ log' = Append(log, [conv |-> log[t].conv, by |-> "user", text |-> "ack", to |-> t])
    /\ UNCHANGED <<kind, collector>>

Start ==
    /\ phase = "idle"
    /\ phase' = "search" /\ began' = Len(log)
    /\ UNCHANGED <<kind, log, query, page, found, todo, reading, verdicts, stats>>

LatestFirst(f) == InOrder(DOMAIN f, LAMBDA c, d : f[c].latest > f[d].latest)

ToRead(f) == SubSeq(LatestFirst(f), 1, Min({MaxConversations, Cardinality(DOMAIN f)}))

Truncated_Slip(n) == n - MaxConversations

Truncated(n) == IF n > MaxConversations THEN n - MaxConversations ELSE 0

(* After a search: the other one, or the reading of what they found.       *)
SearchEnds(f, s) ==
    /\ page' = 1
    /\ IF query = 1
       THEN query' = 2 /\ stats' = s /\ UNCHANGED <<phase, todo>>
       ELSE /\ phase' = "read"
            /\ todo' = ToRead(f)
            /\ stats' = [s EXCEPT !.truncated = Truncated(Cardinality(DOMAIN f))]
            /\ UNCHANGED query

SearchPage ==
    /\ phase = "search"
    /\ found' = AddMatches(found, HitsOnPage(query, page))
    /\ LET s == [stats EXCEPT !.callsOk = TRUE] IN
       \/ /\ IsLastPage(query, page)
          /\ SearchEnds(found', s)
       \/ /\ ~IsLastPage(query, page) /\ page < MaxPages
          /\ page' = page + 1 /\ stats' = s
          /\ UNCHANGED <<phase, query, todo>>
       \/ /\ ~IsLastPage(query, page) /\ page = MaxPages
          /\ SearchEnds(found', [s EXCEPT !.searchTruncated = TRUE])
    /\ UNCHANGED <<kind, log, reading, verdicts, began>>

SearchFails ==
    /\ phase = "search"
    /\ SearchEnds(found, [stats EXCEPT !.errors = @ + 1])
    /\ UNCHANGED <<kind, log, found, reading, verdicts, began>>

(* A conversation is done with: a page that failed, and a conversation     *)
(* nothing was read of, are errors.                                        *)
Judge(r, complete, pageFailed) ==
    LET c == Head(todo) IN
    /\ verdicts' = [d \in DOMAIN verdicts \cup {c} |->
                      IF d = c THEN Verdict(c, r, complete) ELSE verdicts[d]]
    /\ stats' = IF r.seen = {}
                THEN [stats EXCEPT !.errors = @ + 1]
                ELSE [stats EXCEPT !.callsOk = TRUE, !.errors = @ + (IF pageFailed THEN 1 ELSE 0)]
    /\ todo' = Tail(todo) /\ reading' = NothingRead

(* Slack may send a short page, even an empty one, though more remains.    *)
ReadPage ==
    /\ phase = "read" /\ todo # <<>>
    /\ \E k \in {0, ConvPageSize}, flag \in BOOLEAN :
          LET c == Head(todo)
              r == Read(FirstOf(c, k), flag)
              more == Unread(c) \ r.seen # {}
          IN  IF more /\ r.pages < ConvMaxPages
              THEN reading' = r /\ UNCHANGED <<todo, verdicts, stats>>
              ELSE Judge(r, ~more, FALSE)
    /\ UNCHANGED <<kind, log, phase, query, page, found, began>>

ReadFails ==
    /\ phase = "read" /\ todo # <<>>
    /\ \E flag \in BOOLEAN : Judge(Read({}, flag), FALSE, TRUE)
    /\ UNCHANGED <<kind, log, phase, query, page, found, began>>

(* The people in the records are looked up, one call each.                 *)
ResolveNames ==
    /\ phase = "read" /\ todo = <<>>
    /\ phase' = "done"
    /\ \E failed \in 0..Cardinality(Reported) : stats' = [stats EXCEPT !.errors = @ + failed]
    /\ UNCHANGED <<kind, log, query, page, found, todo, reading, verdicts, began>>

Next ==
    \/ \E c \in Convs, p \in Posts : Post(c, p)
    \/ \E t \in DOMAIN log : React(t)
    \/ Start \/ SearchPage \/ SearchFails \/ ReadPage \/ ReadFails \/ ResolveNames

Spec == Init /\ [][Next]_vars

----------------------------------------------------------------------------
TypeOK ==
    /\ kind \in [Convs -> Kinds]
    /\ log \in Seq(Message \cup Ack)
    /\ phase \in {"idle", "search", "read", "done"} /\ query \in {1, 2} /\ page \in 1..MaxPages
    /\ DOMAIN found \subseteq Convs
    /\ \A c \in DOMAIN found : found[c].earliest <= found[c].latest /\ found[c].latest <= Len(log)
    /\ ToSet(todo) \subseteq DOMAIN found /\ Len(todo) <= MaxConversations
    /\ ToSet(todo) \cap DOMAIN verdicts = {}
    /\ reading.seen \subseteq DOMAIN log /\ reading.pages < ConvMaxPages
    /\ stats \in [errors : Nat, callsOk : BOOLEAN, searchTruncated : BOOLEAN, truncated : Nat]

IsAnswered(t) == \E u \in DOMAIN log : Answers(u, t)
WasAnswered(t, time) == \E u \in DOMAIN log : u <= time /\ Answers(u, t)

Judged(state) == {c \in DOMAIN verdicts : verdicts[c].state = state}

AsksBefore(c, time) == {t \in DOMAIN log : t <= time /\ InRange(c, t) /\ Directed(t)}

(* "waiting" is a claim about the user: the ask it names was unanswered    *)
(* when the reading of the conversation began, however many pages that     *)
(* took and whatever was said meanwhile (_fetch_conversation: a reply      *)
(* beyond what was read is never taken as "no reply").                     *)
WaitingIsOpen ==
    \A c \in Judged("waiting") :
        /\ Directed(verdicts[c].ask)
        /\ ~WasAnswered(verdicts[c].ask, verdicts[c].since)

(* "answered" drops the conversation: every ask it held when its reading   *)
(* began has been answered, of those in the range that is read: history    *)
(* reaches back to the earliest search hit, not beyond it.                 *)
AnsweredIsAnswered ==
    \A c \in Judged("answered") :
        \A t \in AsksBefore(c, verdicts[c].since) : IsAnswered(t)

(* An ask that a search could find and that is still open at the end is    *)
(* reported, or the section says what it did not read.  Left out: history  *)
(* that was read in part, see NoAskMeansNoAsk.                             *)
PartOfHistory(c) ==
    /\ c \in Judged("no_ask")
    /\ ~verdicts[c].complete /\ ~OldestFirst(c)

NoAskLost ==
    phase = "done" =>
        \A t \in (Matches(1) \cup Matches(2)) :
            t <= began /\ Directed(t) /\ ~IsAnswered(t) =>
                LET c == log[t].conv IN
                \/ c \in Reported \/ PartOfHistory(c)
                \/ SectionStatus # "ok" \/ stats.searchTruncated
                \/ c \notin DOMAIN verdicts /\ stats.truncated > 0

(* No text of a page Trentina flagged is in a record, whichever of the     *)
(* pages of a conversation it was (_fetch_conversation).                   *)
FlaggedIsWithheld ==
    \A c \in Reported : verdicts[c].shown \cap verdicts[c].flagged = {}

(* What tests/test_sweep.py says of dropped_no_ask: an incomplete read     *)
(* proves that there was no ask once the search hit has been read.  The    *)
(* code keeps only the latest hit, and history is read backwards.          *)
NoAskMeansNoAsk ==
    \A c \in Judged("no_ask") :
        \A t \in AsksBefore(c, verdicts[c].since) : IsAnswered(t)
============================================================================
