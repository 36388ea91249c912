---------------------------- MODULE SlackProofs ----------------------------
(***************************************************************************)
(* What slack_waiting says of a conversation is true of it, for every      *)
(* value of the constants: how many pages a conversation takes, how many   *)
(* of them are read, and whatever is written meanwhile.                    *)
(***************************************************************************)
EXTENDS SlackWaiting, OrderTheorems

-----------------------------------------------------------------------------
(* The inductive invariant.                                                *)

At == DOMAIN log

Typed ==
    /\ kind \in [Convs -> Kinds] /\ log \in Seq(Message \cup Ack)
    /\ phase \in {"idle", "search", "read", "done"} /\ query \in {1, 2} /\ page \in 1..MaxPages
    /\ stats \in [errors : Nat, callsOk : BOOLEAN, searchTruncated : BOOLEAN, truncated : Nat]
    /\ began \in 0..Len(log)

(* Each conversation found is found by two of its messages.                *)
FoundFits(f) ==
    /\ DOMAIN f \subseteq Convs /\ IsFiniteSet(DOMAIN f)
    /\ \A c \in DOMAIN f :
          /\ f[c] \in [earliest : At, latest : At]
          /\ f[c].earliest <= f[c].latest
          /\ log[f[c].latest].conv = c

(* A conversation is read once, and after the search.                      *)
TodoInv ==
    /\ todo \in Seq(DOMAIN found) /\ Len(todo) <= MaxConversations
    /\ \A i, j \in DOMAIN todo : todo[i] = todo[j] => i = j
    /\ \A i \in DOMAIN todo : todo[i] \notin DOMAIN verdicts
    /\ DOMAIN verdicts \subseteq DOMAIN found
    /\ phase \in {"idle", "search"} => todo = <<>> /\ DOMAIN verdicts = {}
    /\ phase = "idle" => query = 1 /\ page = 1
    /\ phase = "done" => todo = <<>>
    /\ todo = <<>> => reading = NothingRead

Readings ==
    [seen : SUBSET At, acked : SUBSET At, pages : Nat,
     since : 0..Len(log), flagged : BOOLEAN, withheld : SUBSET At]

(* What is withheld was flagged; an ask that was acked when the reading    *)
(* began is known to be, and no other is.                                  *)
ReadingFits(r) ==
    /\ r \in Readings
    /\ r.pages > 0 => began <= r.since
    /\ r.flagged \/ r.withheld = {}
    /\ \A t \in r.acked : t \in AckedNow
    /\ \A t \in r.seen, u \in At :
          u <= r.since /\ log[u].text = "ack" /\ log[u].to = t => t \in r.acked

(* What was read of a conversation is all of it up to a point: of a thread *)
(* what is earliest, of history what is latest, but for later messages.    *)
NoGap(c, r) ==
    /\ \A t \in r.seen : InRange(c, t)
    /\ \A t \in At \ r.seen, u \in r.seen :
          InRange(c, t) => IF OldestFirst(c) THEN t > u ELSE t <= r.since => t < u

ReadingInv ==
    /\ ReadingFits(reading) /\ reading.pages < ConvMaxPages
    /\ reading.pages = 0 => reading = NothingRead
    /\ todo # <<>> => NoGap(Head(todo), reading)

(* What a verdict promises, as of the time its reading began.              *)
VerdictFits(c, v) ==
    /\ v.since \in began..Len(log)
    /\ v.state \in {"waiting", "answered", "no_ask", "unverified", "failed"}
    /\ v.shown \cap v.flagged = {}
    /\ v.state = "waiting" =>
          v.ask \in At /\ Directed(v.ask) /\ ~WasAnswered(v.ask, v.since)
    /\ v.state = "answered" => \A t \in AsksBefore(c, v.since) : IsAnswered(t)
    /\ v.state = "no_ask" =>
          \A t \in AsksBefore(c, v.since) :
              ~v.complete /\ (OldestFirst(c) => t > found[c].latest)

VerdictInv ==
    \A c \in DOMAIN verdicts :
        /\ VerdictFits(c, verdicts[c])
        /\ verdicts[c].state = "failed" => stats.errors > 0

Covers(f, t) ==
    /\ log[t].conv \in DOMAIN f
    /\ f[log[t].conv].earliest <= t /\ t <= f[log[t].conv].latest

Wanted(q) == {t \in Matches(q) : t <= began /\ log[t].by = "other"}

Newer(q, t) == {u \in Matches(q) : u > t}

(* A search that goes well has found what its pages held when the run      *)
(* began: later hits only push it to later pages.                          *)
PagesFound(f, q, p) ==
    \A t \in Wanted(q) : Cardinality(Newer(q, t)) < (p - 1) * SearchPageSize => Covers(f, t)

AllFound(f, q) == \A t \in Wanted(q) : Covers(f, t)

SearchInv ==
    stats.errors = 0 /\ ~stats.searchTruncated =>
        /\ phase = "search" =>
              PagesFound(found, query, page) /\ (query = 2 => AllFound(found, 1))
        /\ phase \in {"read", "done"} => AllFound(found, 1) /\ AllFound(found, 2)

KeptInv ==
    phase \in {"read", "done"} /\ stats.truncated = 0 =>
        \A c \in DOMAIN found : c \in DOMAIN verdicts \/ \E i \in DOMAIN todo : todo[i] = c

IInv ==
    /\ Typed /\ FoundFits(found) /\ TodoInv /\ ReadingInv
    /\ VerdictInv /\ SearchInv /\ KeptInv

-----------------------------------------------------------------------------
(* The operators of the model.                                             *)

LEMMA SizesAreNat ==
    /\ SearchPageSize \in Nat \ {0} /\ MaxPages \in Nat \ {0} /\ ConvPageSize \in Nat \ {0}
    /\ ConvMaxPages \in Nat \ {0} /\ MaxConversations \in Nat \ {0} /\ MaxLog \in Nat \ {0}
BY SlackAssumption

(* What is said of an entry that was made does not change.                 *)
LEMMA Entries ==
    ASSUME Typed, NEW t \in At
    PROVE  /\ log[t] \in Message \cup Ack /\ log[t].conv \in Convs
           /\ IsMessage(t) => log[t] \in Message
           /\ ~IsMessage(t) => log[t] \in Ack
<1>1. log[t] \in Message \cup Ack
    BY DEF Typed, At
<1>2. CASE log[t] \in Message
    BY <1>2 DEF Message, IsMessage, Texts
<1>3. CASE log[t] \in Ack
    BY <1>3 DEF Ack, IsMessage
<1>4. QED
    BY <1>1, <1>2, <1>3

LEMMA PositionsAreFinite ==
    ASSUME Typed
    PROVE  /\ Len(log) \in Nat /\ At = 1..Len(log) /\ At \subseteq Nat
           /\ \A T \in SUBSET At : IsFiniteSet(T) /\ Cardinality(T) \in Nat
<1>1. Len(log) \in Nat /\ At = 1..Len(log)
    BY DEF Typed, At
<1>2. IsFiniteSet(At)
    BY <1>1, FS_Interval
<1>3. \A T \in SUBSET At : IsFiniteSet(T)
    BY <1>2, FS_Subset
<1>4. \A T \in SUBSET At : Cardinality(T) \in Nat
    BY <1>3, FS_CardinalityType
<1>5. QED
    BY <1>1, <1>3, <1>4

LEMMA LeastOfTwo ==
    ASSUME NEW a \in Nat, NEW b \in Nat
    PROVE  /\ Min({a, b}) \in Nat /\ Min({a, b}) <= a /\ Min({a, b}) <= b
           /\ Min({a, b}) = a \/ Min({a, b}) = b
<1>1. {a, b} \in SUBSET Int /\ {a, b} # {}
    OBVIOUS
<1>f. IsFiniteSet({a, b})
  <2>1. IsFiniteSet({a} \cup {b})
    BY FS_Singleton, FS_Union
  <2>2. {a, b} = {a} \cup {b}
    OBVIOUS
  <2>3. QED
    BY <2>1, <2>2
<1>2. Min({a, b}) \in {a, b} /\ \A y \in {a, b} : Min({a, b}) <= y
    BY <1>1, <1>f, MinIs
<1>3. QED
    BY <1>2

(* The conversations found, latest first: all of them, once.               *)
LEMMA LatestFirstIs ==
    ASSUME Typed, NEW f, FoundFits(f)
    PROVE  /\ LatestFirst(f) \in Seq(DOMAIN f) /\ Len(LatestFirst(f)) = Cardinality(DOMAIN f)
           /\ \A c \in DOMAIN f : \E i \in DOMAIN LatestFirst(f) : LatestFirst(f)[i] = c
           /\ \A i, j \in DOMAIN LatestFirst(f) :
                 LatestFirst(f)[i] = LatestFirst(f)[j] => i = j
<1> DEFINE S == DOMAIN f
           R == {cd \in S \X S : f[cd[1]].latest > f[cd[2]].latest}
<1>1. \A c \in S : f[c].latest \in Nat /\ log[f[c].latest].conv = c
    BY PositionsAreFinite DEF FoundFits
<1>2. Sorts(S, R)
    <2>1. \A c, d \in S : <<c, d>> \in R <=> f[c].latest > f[d].latest
        OBVIOUS
    <2>2. \A c, d \in S : c # d => f[c].latest # f[d].latest
        BY <1>1
    <2> HIDE DEF R, S
    <2>3. QED
        BY <1>1, <2>1, <2>2 DEF Sorts
<1>3. IsFiniteSet(S)
    BY DEF FoundFits
<1>4. LatestFirst(f) \in Sorted(S, R)
    <2>1. Sorted(S, R) # {}
        BY <1>2, <1>3, SortedIsThere
    <2>2. Sorted(S, R) = {s \in [1..Cardinality(S) -> S] :
              \A i, j \in DOMAIN s : i < j => f[s[i]].latest > f[s[j]].latest}
        BY DEF Sorted
    <2>3. QED
        BY <2>1, <2>2 DEF LatestFirst, InOrder
<1>5. QED
    BY <1>2, <1>3, <1>4, SortedIsAll

(* What is left to read when the search is over.                           *)
LEMMA ToReadIs ==
    ASSUME Typed, NEW f, FoundFits(f)
    PROVE  /\ ToRead(f) \in Seq(DOMAIN f) /\ Len(ToRead(f)) <= MaxConversations
           /\ \A i, j \in DOMAIN ToRead(f) : ToRead(f)[i] = ToRead(f)[j] => i = j
           /\ Truncated(Cardinality(DOMAIN f)) \in Nat
           /\ Truncated(Cardinality(DOMAIN f)) = 0 =>
                 \A c \in DOMAIN f : \E i \in DOMAIN ToRead(f) : ToRead(f)[i] = c
<1> DEFINE s == LatestFirst(f)
           n == Cardinality(DOMAIN f)
           m == Min({MaxConversations, n})
<1>1. n \in Nat /\ MaxConversations \in Nat
    BY SizesAreNat, FS_CardinalityType DEF FoundFits
<1>2. m \in Nat /\ m <= MaxConversations /\ m <= n /\ (m = MaxConversations \/ m = n)
    BY <1>1, LeastOfTwo
<1>3. /\ s \in Seq(DOMAIN f) /\ Len(s) = n
      /\ \A c \in DOMAIN f : \E i \in DOMAIN s : s[i] = c
      /\ \A i, j \in DOMAIN s : s[i] = s[j] => i = j
    BY LatestFirstIs
<1> HIDE DEF s, n, m
<1>4. ToRead(f) = SubSeq(s, 1, m)
    BY DEF ToRead, s, n, m
<1>5. /\ ToRead(f) \in Seq(DOMAIN f) /\ Len(ToRead(f)) = m /\ DOMAIN ToRead(f) = 1..m
      /\ \A i \in 1..m : ToRead(f)[i] = s[i]
  <2>1. m \in 0..Len(s)
    BY <1>1, <1>2, <1>3
  <2>2. /\ ToRead(f) \in Seq(DOMAIN f) /\ Len(ToRead(f)) = m
        /\ \A i \in 1..m : ToRead(f)[i] = s[i]
    BY <1>3, <1>4, <2>1, PrefixIs
  <2>3. QED
    BY <2>2
<1>6. DOMAIN s = 1..n
    BY <1>3
<1>7. Truncated(n) \in Nat /\ (Truncated(n) = 0 => m = n)
    BY <1>1, <1>2 DEF Truncated
<1>8. QED
    BY <1>1, <1>2, <1>3, <1>5, <1>6, <1>7 DEF n

(* A page of hits added: what was covered stays so, and so are the hits.   *)
LEMMA AddMatchesIs ==
    ASSUME Typed, NEW f, FoundFits(f), NEW hits \in SUBSET At
    PROVE  /\ FoundFits(AddMatches(f, hits))
           /\ \A t \in At : Covers(f, t) => Covers(AddMatches(f, hits), t)
           /\ \A t \in hits : log[t].by = "other" => Covers(AddMatches(f, hits), t)
<1> DEFINE human == {t \in hits : log[t].by = "other"}
           Times(c) == {t \in human : log[t].conv = c}
                       \cup (IF c \in DOMAIN f THEN {f[c].earliest, f[c].latest} ELSE {})
           new == {log[t].conv : t \in human}
           D == DOMAIN f \cup new
           g == AddMatches(f, hits)
<1>1. g = [c \in D |-> [earliest |-> Min(Times(c)), latest |-> Max(Times(c))]]
    BY DEF AddMatches
<1>2. \A c \in D : Times(c) \in SUBSET At /\ Times(c) # {}
    BY DEF FoundFits
<1>3. ASSUME NEW c \in D
      PROVE  /\ Min(Times(c)) \in Times(c) /\ Max(Times(c)) \in Times(c)
             /\ \A t \in Times(c) : Min(Times(c)) <= t /\ t <= Max(Times(c))
    <2> DEFINE T == Times(c)
    <2>1. T \in SUBSET At /\ T # {}
        BY <1>2
    <2> HIDE DEF T
    <2>2. T \in SUBSET Int /\ IsFiniteSet(T)
        BY <2>1, PositionsAreFinite
    <2>3. /\ Min(T) \in T /\ \A t \in T : Min(T) <= t
          /\ Max(T) \in T /\ \A t \in T : Max(T) >= t
        BY <2>1, <2>2, MinIs, MaxIs
    <2>4. Max(T) \in Int /\ \A t \in T : t \in Int
        BY <2>2, <2>3
    <2>5. \A t \in T : t <= Max(T)
        BY <2>3, <2>4
    <2>6. QED
        BY <2>3, <2>5 DEF T
<1>4. \A t \in human : log[t].conv \in D /\ t \in Times(log[t].conv)
    OBVIOUS
<1>5. \A c \in DOMAIN f : c \in D /\ f[c].earliest \in Times(c) /\ f[c].latest \in Times(c)
    OBVIOUS
<1>6. ASSUME NEW c \in D PROVE log[Max(Times(c))].conv = c
    <2>1. CASE Max(Times(c)) \in human /\ log[Max(Times(c))].conv = c
        BY <2>1
    <2>2. CASE c \in DOMAIN f /\ Max(Times(c)) = f[c].latest
        BY <2>2 DEF FoundFits
    <2>3. CASE c \in DOMAIN f /\ Max(Times(c)) = f[c].earliest
        <3> DEFINE m == Max(Times(c))
        <3>1. f[c].latest <= m /\ f[c].earliest <= f[c].latest
            BY <2>3, <1>3, <1>5 DEF FoundFits
        <3>2. m = f[c].earliest /\ f[c].earliest \in Int /\ f[c].latest \in Int
            BY <2>3, PositionsAreFinite DEF FoundFits
        <3> HIDE DEF m
        <3>3. m = f[c].latest
            BY <3>1, <3>2
        <3>4. QED
            BY <2>3, <3>3 DEF m, FoundFits
    <2>4. QED
        BY <1>3, <2>1, <2>2, <2>3
<1>7. IsFiniteSet(D) /\ D \subseteq Convs
    <2>1. IsFiniteSet(human)
        BY PositionsAreFinite
    <2>2. [t \in human |-> log[t].conv] \in Surjection(human, new)
        BY DEF Surjection
    <2>3. IsFiniteSet(new)
        BY <2>1, <2>2, FS_Surjection
    <2>4. IsFiniteSet(DOMAIN f) /\ DOMAIN f \subseteq Convs
        BY DEF FoundFits
    <2>5. new \subseteq Convs
        BY Entries
    <2>6. QED
        BY <2>3, <2>4, <2>5, FS_Union
<1> HIDE DEF Times, D, g, human
<1>8. DOMAIN g = D /\ \A c \in D : g[c] = [earliest |-> Min(Times(c)), latest |-> Max(Times(c))]
    BY <1>1
<1>9. ASSUME NEW c \in D
      PROVE  /\ g[c].earliest = Min(Times(c)) /\ g[c].latest = Max(Times(c))
             /\ g[c] \in [earliest : At, latest : At] /\ g[c].earliest <= g[c].latest
    <2>1. Min(Times(c)) \in At /\ Max(Times(c)) \in At /\ Min(Times(c)) <= Max(Times(c))
        BY <1>2, <1>3
    <2>2. QED
        BY <1>8, <2>1
<1>10. FoundFits(g)
    BY <1>6, <1>7, <1>8, <1>9 DEF FoundFits
<1>11. ASSUME NEW t \in human PROVE Covers(g, t)
    BY <1>3, <1>4, <1>8, <1>9 DEF Covers
<1>12. ASSUME NEW t \in At, Covers(f, t) PROVE Covers(g, t)
    <2> DEFINE c == log[t].conv
    <2>1. /\ c \in DOMAIN f /\ c \in D
          /\ f[c].earliest <= t /\ t <= f[c].latest
        BY <1>5, <1>12 DEF Covers
    <2> HIDE DEF c
    <2>2. g[c].earliest <= f[c].earliest /\ f[c].latest <= g[c].latest
        BY <2>1, <1>3, <1>5, <1>9
    <2>3. /\ g[c].earliest \in Int /\ g[c].latest \in Int /\ t \in Int
          /\ f[c].earliest \in Int /\ f[c].latest \in Int
        BY <1>9, <2>1, PositionsAreFinite DEF FoundFits
    <2>4. g[c].earliest <= t /\ t <= g[c].latest
        BY <2>1, <2>2, <2>3
    <2>5. QED
        BY <1>8, <2>1, <2>4 DEF Covers, c
<1>13. QED
    BY <1>10, <1>11, <1>12 DEF g, human

LEMMA RanksAreNat ==
    ASSUME Typed, NEW q, NEW t
    PROVE  /\ Matches(q) \subseteq At /\ Newer(q, t) \subseteq At
           /\ Cardinality(Newer(q, t)) \in Nat /\ Cardinality(Matches(q)) \in Nat
<1>1. Matches(q) \in SUBSET At
    BY DEF Matches, At
<1>2. Newer(q, t) \in SUBSET At
    BY <1>1 DEF Newer
<1>3. QED
    BY <1>1, <1>2, PositionsAreFinite

(* One more page of a search.                                              *)
LEMMA NextPageIsFound ==
    ASSUME Typed, NEW f, FoundFits(f), NEW q \in {1, 2}, NEW p \in Nat, PagesFound(f, q, p)
    PROVE  /\ PagesFound(AddMatches(f, HitsOnPage(q, p)), q, p + 1)
           /\ IsLastPage(q, p) => AllFound(AddMatches(f, HitsOnPage(q, p)), q)
<1> DEFINE g == AddMatches(f, HitsOnPage(q, p))
           a == (p - 1) * SearchPageSize
           b == p * SearchPageSize
           rank(t) == Cardinality(Newer(q, t))
<1>1. a \in Int /\ b \in Int /\ ((p + 1) - 1) * SearchPageSize = b
    BY SizesAreNat
<1>2. \A t : rank(t) \in Nat
    BY RanksAreNat
<1>3. HitsOnPage(q, p) = {t \in Matches(q) : rank(t) \in a..(b - 1)}
    BY DEF HitsOnPage, Newer
<1>4. HitsOnPage(q, p) \in SUBSET At
    BY RanksAreNat DEF HitsOnPage
<1>5. /\ \A t \in At : Covers(f, t) => Covers(g, t)
      /\ \A t \in HitsOnPage(q, p) : log[t].by = "other" => Covers(g, t)
    BY <1>4, AddMatchesIs
<1>6. \A t \in Wanted(q) : t \in At /\ t \in Matches(q) /\ log[t].by = "other"
    BY RanksAreNat DEF Wanted
<1>7. \A t \in Wanted(q) : rank(t) < a => Covers(f, t)
    BY DEF PagesFound
<1> HIDE DEF g, a, b, rank
<1>8. ASSUME NEW t \in Wanted(q), rank(t) < b PROVE Covers(g, t)
    <2>1. CASE rank(t) < a
        BY <2>1, <1>5, <1>6, <1>7
    <2>2. CASE rank(t) >= a
        <3>1. rank(t) \in a..(b - 1)
            BY <2>2, <1>1, <1>2, <1>8
        <3>2. t \in HitsOnPage(q, p)
            BY <3>1, <1>3, <1>6
        <3>3. QED
            BY <3>2, <1>5, <1>6
    <2>3. QED
        BY <2>1, <2>2, <1>1, <1>2
<1>9. PagesFound(g, q, p + 1)
    BY <1>1, <1>8 DEF PagesFound, rank
<1>10. ASSUME IsLastPage(q, p), NEW t \in Wanted(q) PROVE Covers(g, t)
    <2>1. b >= Cardinality(Matches(q)) /\ Cardinality(Matches(q)) \in Nat
        BY <1>10, RanksAreNat DEF IsLastPage, b
    <2>2. Newer(q, t) \subseteq Matches(q) \ {t} /\ t \in Matches(q)
        BY <1>6, PositionsAreFinite DEF Newer
    <2>3. /\ IsFiniteSet(Matches(q) \ {t})
          /\ Cardinality(Matches(q) \ {t}) = Cardinality(Matches(q)) - 1
        <3>1. IsFiniteSet(Matches(q))
            BY RanksAreNat, PositionsAreFinite
        <3>2. QED
            BY <3>1, <2>2, FS_RemoveElement
    <2>4. rank(t) <= Cardinality(Matches(q)) - 1
        BY <2>2, <2>3, FS_Subset DEF rank
    <2>5. rank(t) < b
        BY <2>1, <2>4, <1>1, <1>2
    <2>6. QED
        BY <2>5, <1>8
<1>11. QED
    BY <1>9, <1>10 DEF AllFound, g

LEMMA AllFoundStays ==
    ASSUME Typed, NEW f, FoundFits(f), NEW hits \in SUBSET At, NEW q, AllFound(f, q)
    PROVE  AllFound(AddMatches(f, hits), q)
<1>1. \A t \in Wanted(q) : t \in At
    BY RanksAreNat DEF Wanted
<1>2. QED
    BY <1>1, AddMatchesIs DEF AllFound

-----------------------------------------------------------------------------
(* Reading a conversation.                                                 *)

(* A page is the next of what is unread.                                   *)
IsNext(c, m) ==
    /\ m \subseteq Unread(c)
    /\ \A t \in Unread(c) \ m, u \in m : IF OldestFirst(c) THEN t > u ELSE t < u

LEMMA NothingIsNext ==
    ASSUME NEW c
    PROVE  IsNext(c, {})
BY DEF IsNext

LEMMA FirstOfIsNext ==
    ASSUME Typed, NEW c, NEW k \in Nat
    PROVE  IsNext(c, FirstOf(c, k))
<1> DEFINE Ahead(t) == {u \in Unread(c) : IF OldestFirst(c) THEN u < t ELSE u > t}
<1>1. /\ FirstOf(c, k) = {t \in Unread(c) : Cardinality(Ahead(t)) < k}
      /\ FirstOf(c, k) \subseteq Unread(c)
    BY DEF FirstOf
<1>2. Unread(c) \subseteq At
    BY DEF Unread, At
<1>3. \A t : Ahead(t) \subseteq At
    BY <1>2
<1>4. ASSUME NEW t \in Unread(c) \ FirstOf(c, k), NEW u \in FirstOf(c, k)
      PROVE  IF OldestFirst(c) THEN t > u ELSE t < u
    <2>1. t \in Int /\ u \in Int
        BY <1>1, <1>2, PositionsAreFinite
    <2>2. \A T : T \subseteq At => IsFiniteSet(T) /\ Cardinality(T) \in Nat
        BY PositionsAreFinite
    <2>3. ~ (Ahead(t) \subseteq Ahead(u))
        <3> HIDE DEF Ahead
        <3> SUFFICES ASSUME Ahead(t) \subseteq Ahead(u) PROVE FALSE
            OBVIOUS
        <3>1. Cardinality(Ahead(t)) <= Cardinality(Ahead(u))
            BY <1>3, <2>2, FS_Subset
        <3>2. Cardinality(Ahead(t)) \in Nat /\ Cardinality(Ahead(u)) \in Nat
            BY <1>3, <2>2
        <3>3. QED
            BY <1>1, <3>1, <3>2
    <2>4. \A v \in Unread(c) : v \in Int
        BY <1>2, PositionsAreFinite
    <2>5. t # u
        OBVIOUS
    <2>6. CASE OldestFirst(c)
        <3>1. PICK v \in Unread(c) : v < t /\ ~ (v < u)
            BY <2>3, <2>6
        <3>2. QED
            BY <2>1, <2>4, <2>6, <3>1
    <2>7. CASE ~OldestFirst(c)
        <3>1. PICK v \in Unread(c) : v > t /\ ~ (v > u)
            BY <2>3, <2>7
        <3>2. QED
            BY <2>1, <2>4, <2>7, <3>1
    <2>8. QED
        BY <2>6, <2>7
<1>5. QED
    BY <1>1, <1>4 DEF IsNext

LEMMA NothingReadIs ==
    /\ NothingRead.seen = {} /\ NothingRead.acked = {} /\ NothingRead.pages = 0
    /\ NothingRead.since = 0 /\ NothingRead.flagged = FALSE /\ NothingRead.withheld = {}
BY DEF NothingRead

LEMMA ReadIs ==
    ASSUME NEW m, NEW flag
    PROVE  /\ Read(m, flag).seen = reading.seen \cup m
           /\ Read(m, flag).acked = reading.acked \cup (m \cap AckedNow)
           /\ Read(m, flag).pages = reading.pages + 1
           /\ Read(m, flag).since = Since
           /\ Read(m, flag).flagged = (reading.flagged \/ flag)
           /\ Read(m, flag).withheld = reading.withheld \cup (IF flag THEN m ELSE {})
BY DEF Read

LEMMA SinceIs ==
    ASSUME Typed, ReadingInv
    PROVE  /\ Since \in began..Len(log)
           /\ reading.pages # 0 => Since = reading.since
           /\ reading.pages = 0 => reading.seen = {} /\ reading.acked = {}
<1>1. reading.pages \in Nat /\ reading.since \in 0..Len(log)
    BY DEF ReadingInv, ReadingFits, Readings
<1>2. began \in Nat /\ began <= Len(log) /\ Len(log) \in Nat
    BY PositionsAreFinite DEF Typed
<1>3. reading.pages = 0 => reading.seen = {} /\ reading.acked = {}
    BY NothingReadIs DEF ReadingInv
<1>4. reading.pages > 0 => began <= reading.since
    BY DEF ReadingInv, ReadingFits
<1>5. QED
    BY <1>1, <1>2, <1>3, <1>4 DEF Since

LEMMA ReadingGoesOn ==
    ASSUME Typed, ReadingInv, NEW m \in SUBSET At, NEW flag \in BOOLEAN
    PROVE  ReadingFits(Read(m, flag)) /\ Read(m, flag).pages > 0
<1> DEFINE r == Read(m, flag)
<1>1. reading \in Readings
    BY DEF ReadingInv, ReadingFits
<1>2. Since \in 0..Len(log) /\ began <= Since
    BY SinceIs, PositionsAreFinite DEF Typed
<1>3. r \in Readings
    BY <1>1, <1>2 DEF Read, Readings
<1>4. r.pages > 0
    BY <1>1, ReadIs DEF Readings
<1>5. began <= r.since
    BY <1>2, ReadIs
<1>6. r.flagged \/ r.withheld = {}
    <2>1. reading.flagged \/ reading.withheld = {}
        BY DEF ReadingInv, ReadingFits
    <2>2. CASE flag
        BY <2>2, ReadIs
    <2>3. CASE ~flag
        <3>1. CASE reading.flagged
            BY <3>1, ReadIs
        <3>2. CASE reading.withheld = {}
            BY <2>3, <3>2, ReadIs
        <3>3. QED
            BY <2>1, <3>1, <3>2
    <2>4. QED
        BY <2>2, <2>3
<1>7. \A t \in r.acked : t \in AckedNow
    BY ReadIs DEF ReadingInv, ReadingFits
<1>8. ASSUME NEW t \in r.seen, NEW u \in At,
             u <= r.since, log[u].text = "ack", log[u].to = t
      PROVE  t \in r.acked
    <2>1. t \in AckedNow
        BY <1>8 DEF AckedNow, IsMessage, At
    <2>2. CASE t \in m
        BY <2>1, <2>2, ReadIs
    <2>3. CASE t \in reading.seen
        <3>1. reading.since = r.since
            BY <2>3, SinceIs, ReadIs
        <3>2. t \in reading.acked
            BY <1>8, <2>3, <3>1 DEF ReadingInv, ReadingFits
        <3>3. QED
            BY <3>2, ReadIs
    <2>4. QED
        BY <2>2, <2>3, ReadIs
<1> HIDE DEF r
<1>9. QED
    BY <1>3, <1>4, <1>5, <1>6, <1>7, <1>8 DEF ReadingFits, r

(* After a page there is still no gap; and if nothing is left unread, all  *)
(* there was when the reading began has been read.                         *)
LEMMA NoGapGoesOn ==
    ASSUME Typed, ReadingInv, todo # <<>>, NEW m, IsNext(Head(todo), m), NEW flag
    PROVE  /\ NoGap(Head(todo), Read(m, flag))
           /\ Unread(Head(todo)) \ Read(m, flag).seen = {} =>
                 \A t \in At : InRange(Head(todo), t) /\ t <= Read(m, flag).since
                                  => t \in Read(m, flag).seen
<1> DEFINE c == Head(todo)
           r == Read(m, flag)
<1>1. NoGap(c, reading)
    BY DEF ReadingInv
<1> HIDE DEF c, r
<1>2. /\ r.seen = reading.seen \cup m /\ r.since = Since
    BY ReadIs DEF r
<1>3. /\ m \subseteq Unread(c)
      /\ \A t \in Unread(c) \ m, u \in m : IF OldestFirst(c) THEN t > u ELSE t < u
    BY DEF IsNext, c
<1>4. \A t \in Unread(c) : InRange(c, t)
    BY DEF Unread
<1>5. /\ reading.pages \in Nat
      /\ reading.pages # 0 => Since = reading.since
      /\ reading.pages = 0 => reading.seen = {}
    BY SinceIs DEF ReadingInv, ReadingFits, Readings
<1>6. ASSUME NEW t \in At \ reading.seen, InRange(c, t), OldestFirst(c) \/ t <= Since
      PROVE  t \in Unread(c) /\ \A u \in reading.seen : IF OldestFirst(c) THEN t > u ELSE t < u
    <2>1. \A u \in reading.seen : IF OldestFirst(c) THEN t > u ELSE t < u
        BY <1>1, <1>5, <1>6 DEF NoGap
    <2>2. reading.pages > 0 => OldestFirst(c) \/ t <= reading.since
        BY <1>5, <1>6
    <2>3. QED
        BY <1>6, <2>1, <2>2 DEF Unread, At
<1>7. \A t \in r.seen : InRange(c, t)
    BY <1>1, <1>2, <1>3, <1>4 DEF NoGap
<1>8. ASSUME NEW t \in At \ r.seen, NEW u \in r.seen, InRange(c, t)
      PROVE  IF OldestFirst(c) THEN t > u ELSE t <= r.since => t < u
    <2>1. CASE OldestFirst(c) \/ t <= r.since
        <3>1. t \in Unread(c) \ m /\ t \in At \ reading.seen
            BY <1>2, <1>6, <1>8, <2>1
        <3>2. u \in reading.seen => IF OldestFirst(c) THEN t > u ELSE t < u
            BY <1>2, <1>6, <1>8, <2>1, <3>1
        <3>3. u \in m => IF OldestFirst(c) THEN t > u ELSE t < u
            BY <1>3, <3>1
        <3>4. QED
            BY <1>2, <1>8, <3>2, <3>3
    <2>2. CASE ~ (OldestFirst(c) \/ t <= r.since)
        BY <2>2
    <2>3. QED
        BY <2>1, <2>2
<1>9. NoGap(c, r)
    BY <1>7, <1>8 DEF NoGap
<1>10. ASSUME Unread(c) \ r.seen = {}, NEW t \in At, InRange(c, t), t <= r.since
       PROVE  t \in r.seen
    BY <1>2, <1>6, <1>10
<1>11. QED
    BY <1>9, <1>10 DEF c, r

-----------------------------------------------------------------------------
(* Verdicts.                                                               *)

LEMMA OpenAskIs ==
    ASSUME Typed, NEW r, r.seen \subseteq At, OpenAsks(r) # {}
    PROVE  LastAsk(r) \in OpenAsks(r)
<1>1. OpenAsks(r) \in SUBSET At
    BY DEF OpenAsks, Asks
<1>2. OpenAsks(r) \in SUBSET Int /\ IsFiniteSet(OpenAsks(r))
    BY <1>1, PositionsAreFinite
<1>3. QED
    BY <1>2, MaxIs DEF LastAsk

(* What the collector makes of a conversation, once it has read all there  *)
(* was, or has given up.                                                   *)
LEMMA VerdictIsTrue ==
    ASSUME Typed, FoundFits(found), NEW c \in DOMAIN found, NEW r, ReadingFits(r), r.pages > 0, NoGap(c, r),
           NEW complete \in BOOLEAN,
           complete => \A t \in At : InRange(c, t) /\ t <= r.since => t \in r.seen
    PROVE  /\ VerdictFits(c, Verdict(c, r, complete))
           /\ Verdict(c, r, complete).state = "failed" => r.seen = {}
<1> DEFINE v == Verdict(c, r, complete)
<1>1. /\ v.state = StateOf(c, r, complete) /\ v.complete = complete /\ v.since = r.since
      /\ v.ask = IF Asks(r) # {} THEN LastAsk(r) ELSE found[c].latest
      /\ v.shown = (IF r.flagged THEN {} ELSE r.seen) /\ v.flagged = r.withheld
    BY DEF Verdict
<1> HIDE DEF v
<1>2. r \in Readings /\ r.since \in began..Len(log)
    BY PositionsAreFinite DEF ReadingFits, Readings, Typed
<1>3. r.seen \subseteq At /\ r.acked \subseteq At /\ r.since \in Nat
    BY <1>2 DEF Readings
<1>4. /\ v.state \in {"waiting", "answered", "no_ask", "unverified", "failed"}
      /\ v.state = "failed" => r.seen = {}
      /\ v.state = "waiting" => complete /\ OpenAsks(r) # {} /\ Asks(r) # {}
      /\ v.state = "answered" => complete /\ OpenAsks(r) = {}
      /\ v.state = "no_ask" => Asks(r) = {} /\ (complete \/ found[c].latest \in r.seen)
    <2>1. CASE r.seen = {}
        BY <1>1, <2>1 DEF StateOf, Asks
    <2>2. CASE r.seen # {} /\ Asks(r) = {}
        BY <1>1, <2>2 DEF StateOf
    <2>3. CASE r.seen # {} /\ Asks(r) # {}
        BY <1>1, <2>3 DEF StateOf
    <2>4. QED
        BY <2>1, <2>2, <2>3
<1>5. v.shown \cap v.flagged = {}
    BY <1>1 DEF ReadingFits
<1>6. \A t \in At : IsMessage(t) <=> log[t].text # "ack"
    BY DEF IsMessage
<1>7. \A t \in r.seen : IsMessage(t) /\ log[t].conv = c /\ InRange(c, t)
    BY DEF NoGap, InRange
<1>8. ASSUME v.state = "waiting"
      PROVE  v.ask \in At /\ Directed(v.ask) /\ ~WasAnswered(v.ask, v.since)
    <2>1. v.ask \in OpenAsks(r)
        BY <1>1, <1>3, <1>4, <1>8, OpenAskIs
    <2>2. /\ v.ask \in r.seen /\ Directed(v.ask) /\ v.ask \notin r.acked
          /\ \A u \in r.seen : u > v.ask => log[u].by # "user"
        BY <2>1 DEF OpenAsks, Asks
    <2>3. ASSUME NEW u \in At, u <= v.since, Answers(u, v.ask) PROVE FALSE
        <3>1. CASE log[u].text = "ack" /\ log[u].to = v.ask
            BY <1>1, <2>2, <2>3, <3>1 DEF ReadingFits
        <3>2. CASE u > v.ask /\ IsMessage(u) /\ log[u].by = "user" /\ log[u].conv = log[v.ask].conv
            <4>1. log[u].conv = c /\ InRange(c, v.ask)
                BY <1>7, <2>2, <3>2
            <4>2. OldestFirst(c) \/ u >= found[c].earliest
                <5>1. CASE OldestFirst(c)
                    BY <5>1
                <5>2. CASE ~OldestFirst(c)
                    <6>1. v.ask >= found[c].earliest /\ u > v.ask
                        BY <3>2, <4>1, <5>2 DEF InRange
                    <6>2. u \in Int /\ v.ask \in Int
                        BY <1>3, <2>2, PositionsAreFinite
                    <6>i. found[c].earliest \in Int
                        BY PositionsAreFinite DEF FoundFits
                    <6>3. QED
                        BY <6>1, <6>2, <6>i
                <5>3. QED
                    BY <5>1, <5>2
            <4>3. InRange(c, u)
                BY <3>2, <4>1, <4>2 DEF InRange
            <4>4. u \in r.seen
                BY <1>1, <1>4, <1>8, <2>3, <4>3
            <4>5. QED
                BY <2>2, <3>2, <4>4
        <3>3. QED
            BY <2>3, <3>1, <3>2 DEF Answers
    <2>4. QED
        BY <1>3, <2>2, <2>3 DEF WasAnswered, At
<1>9. ASSUME NEW t \in AsksBefore(c, v.since)
      PROVE  t \in At /\ t <= r.since /\ InRange(c, t) /\ Directed(t)
    BY <1>1 DEF AsksBefore, At
<1>10. ASSUME v.state = "answered", NEW t \in AsksBefore(c, v.since) PROVE IsAnswered(t)
    <2>1. t \in r.seen /\ t \in Asks(r)
        BY <1>4, <1>9, <1>10 DEF Asks
    <2>2. CASE t \in r.acked
        <3>1. t \in AckedNow
            BY <2>2 DEF ReadingFits
        <3>2. \E u \in At : ~IsMessage(u) /\ log[u].to = t
            BY <3>1 DEF AckedNow, At
        <3>3. QED
            BY <3>2 DEF IsAnswered, Answers, IsMessage, At
    <2>3. CASE t \notin r.acked
        <3>1. PICK u \in r.seen : u > t /\ log[u].by = "user"
            BY <1>4, <1>10, <2>1, <2>3 DEF OpenAsks
        <3>2. log[u].conv = log[t].conv /\ IsMessage(u) /\ u \in At
            BY <1>3, <1>7, <2>1
        <3>3. QED
            BY <3>1, <3>2 DEF IsAnswered, Answers, At
    <2>4. QED
        BY <2>2, <2>3
<1>11. ASSUME v.state = "no_ask", NEW t \in AsksBefore(c, v.since)
       PROVE  ~v.complete /\ (OldestFirst(c) => t > found[c].latest)
    <2>1. t \notin r.seen
        BY <1>4, <1>9, <1>11 DEF Asks
    <2>2. ~complete /\ found[c].latest \in r.seen
        BY <1>4, <1>9, <1>11, <2>1
    <2>3. OldestFirst(c) => t > found[c].latest
        BY <1>9, <2>1, <2>2 DEF NoGap
    <2>4. QED
        BY <1>1, <2>2, <2>3
<1>12. v.since \in began..Len(log)
    BY <1>1, <1>2
<1>13. VerdictFits(c, v)
    BY <1>4, <1>5, <1>8, <1>10, <1>11, <1>12 DEF VerdictFits
<1>14. QED
    BY <1>4, <1>13 DEF v

-----------------------------------------------------------------------------
(* Whatever is written, and whenever, leaves the invariant.                *)
LEMMA LogGrows ==
    ASSUME IInv, NEW e \in Message \cup Ack, log' = Append(log, e), UNCHANGED <<kind, collector>>
    PROVE  IInv'
<1> DEFINE n == Len(log)
<1>u. /\ kind' = kind /\ phase' = phase /\ query' = query /\ page' = page /\ found' = found
      /\ todo' = todo /\ reading' = reading /\ verdicts' = verdicts /\ stats' = stats
      /\ began' = began
    BY DEF collector
<1>0. /\ Typed /\ FoundFits(found) /\ TodoInv /\ ReadingInv /\ VerdictInv /\ SearchInv /\ KeptInv
    BY DEF IInv
<1>1. n \in Nat /\ At = 1..n /\ log \in Seq(Message \cup Ack)
    BY <1>0, PositionsAreFinite DEF Typed
<1>2. /\ log' \in Seq(Message \cup Ack) /\ Len(log') = n + 1
      /\ \A t \in 1..n : log'[t] = log[t]
    BY <1>1
<1>3. At' = 1..(n + 1)
    BY <1>1, <1>2 DEF At
<1>4. \A t \in At : t \in At' /\ log'[t] = log[t] /\ t <= n /\ t \in Nat
    BY <1>1, <1>2, <1>3
<1>5. \A t \in At' \ At : t = n + 1 /\ t \in Nat
    BY <1>1, <1>3
<1> HIDE DEF n
<1>6. \A t \in At :
          /\ IsMessage(t)' <=> IsMessage(t)
          /\ Directed(t)' <=> Directed(t)
          /\ \A c : InRange(c, t)' <=> InRange(c, t)
          /\ \A u \in At : Answers(u, t)' <=> Answers(u, t)
    BY <1>4, <1>u DEF IsMessage, Directed, InRange, OldestFirst, Answers
<1>7. \A c : OldestFirst(c)' <=> OldestFirst(c)
    BY <1>u DEF OldestFirst
<1>b. began \in Nat /\ began <= n
    BY <1>0, <1>1 DEF Typed, n
<1>8. Typed'
    <2>1. began' \in 0..Len(log')
        BY <1>1, <1>2, <1>b, <1>u
    <2>2. QED
        BY <1>0, <1>2, <1>u, <2>1 DEF Typed
<1>9. FoundFits(found)'
    BY <1>0, <1>4, <1>u DEF FoundFits
<1>10. TodoInv'
    BY <1>0, <1>u DEF TodoInv
<1>11. \A t \in AckedNow : t \in AckedNow'
    BY <1>4, <1>6 DEF AckedNow, At
<1>12. ReadingFits(reading)'
    <2>1. reading \in Readings /\ reading.since <= n /\ reading.since \in Nat
        BY <1>0, <1>1 DEF ReadingInv, ReadingFits, Readings, n
    <2>2. reading' \in Readings'
        <3>1. At \subseteq At'
            BY <1>4
        <3>2. SUBSET At \subseteq SUBSET At' /\ 0..n \subseteq 0..(n + 1)
            BY <1>1, <3>1
        <3>3. QED
            BY <1>2, <1>u, <2>1, <3>2 DEF Readings, n
    <2>3. \A t \in reading.seen, u \in At' :
              u <= reading.since /\ log'[u].text = "ack" /\ log'[u].to = t
                  => t \in reading.acked
        <3>1. \A u \in At' : u <= reading.since => u \in At
            BY <1>1, <1>3, <2>1
        <3>2. QED
            BY <1>0, <1>4, <3>1 DEF ReadingInv, ReadingFits
    <2>4. QED
        BY <1>0, <1>11, <1>u, <2>2, <2>3 DEF ReadingInv, ReadingFits
<1>13. ReadingInv'
    <2>1. ASSUME NEW c, NoGap(c, reading) PROVE NoGap(c, reading)'
        <3>1. /\ reading.seen \subseteq At /\ reading.since <= n /\ reading.since \in Nat
            BY <1>0, <1>1 DEF ReadingInv, ReadingFits, Readings, n
        <3>2. \A t \in reading'.seen : InRange(c, t)'
            BY <1>6, <1>u, <2>1, <3>1 DEF NoGap
        <3>3. ASSUME NEW t \in At' \ reading.seen, NEW u \in reading.seen, InRange(c, t)'
              PROVE  IF OldestFirst(c) THEN t > u ELSE t <= reading.since => t < u
            <4>1. CASE t \in At
                BY <1>6, <2>1, <3>3, <4>1 DEF NoGap
            <4>2. CASE t \notin At
                BY <1>1, <1>4, <1>5, <3>1, <3>3, <4>2
            <4>3. QED
                BY <4>1, <4>2
        <3>4. \A t \in At' \ reading'.seen, u \in reading'.seen :
                  InRange(c, t)' =>
                      IF OldestFirst(c)' THEN t > u ELSE t <= reading'.since => t < u
            BY <1>7, <1>u, <3>3
        <3>5. QED
            BY <3>2, <3>4 DEF NoGap
    <2>2. todo' # <<>> => NoGap(Head(todo), reading)'
        BY <1>0, <1>u, <2>1 DEF ReadingInv
    <2>3. QED
        BY <1>0, <1>12, <1>u, <2>2 DEF ReadingInv, NothingRead
<1>14. VerdictInv'
    <2>1. ASSUME NEW c \in DOMAIN verdicts PROVE VerdictFits(c, verdicts[c])'
        <3> DEFINE v == verdicts[c]
        <3>1. VerdictFits(c, v)
            BY <1>0 DEF VerdictInv
        <3>v. v' = v
            BY <1>u
        <3> HIDE DEF v
        <3>2. v.since \in Nat /\ v.since <= n /\ began <= v.since
            BY <1>1, <1>b, <3>1 DEF VerdictFits, n
        <3>3. \A u \in At' : u <= v.since => u \in At
            BY <1>1, <1>3, <3>2
        <3>4. \A t : t \in AsksBefore(c, v.since)' <=> t \in AsksBefore(c, v.since)
            BY <1>4, <1>6, <3>3, <3>v DEF AsksBefore, At
        <3>5. \A t \in At : IsAnswered(t) => IsAnswered(t)'
            BY <1>4, <1>6 DEF IsAnswered, At
        <3>6. \A t \in At : WasAnswered(t, v.since)' => WasAnswered(t, v.since)
            BY <1>6, <3>3, <3>v DEF WasAnswered, At
        <3>7. \A t \in AsksBefore(c, v.since) : t \in At
            BY DEF AsksBefore, At
        <3>8. v.since \in began..(n + 1)
            BY <1>1, <1>b, <3>2
        <3>9. v.state = "waiting" =>
                 v.ask \in At' /\ Directed(v.ask)' /\ ~WasAnswered(v.ask, v.since)'
            BY <1>4, <1>6, <3>1, <3>6, <3>v DEF VerdictFits
        <3>10. /\ v.state = "answered" => \A t \in AsksBefore(c, v.since)' : IsAnswered(t)'
               /\ v.state = "no_ask" =>
                     \A t \in AsksBefore(c, v.since)' :
                         ~v.complete /\ (OldestFirst(c)' => t > found[c].latest)
            BY <1>7, <3>1, <3>4, <3>5, <3>7 DEF VerdictFits
        <3>11. VerdictFits(c, v)'
            BY <1>2, <1>u, <3>1, <3>8, <3>9, <3>10, <3>v DEF VerdictFits
        <3>12. QED
            BY <3>11 DEF v
    <2>2. QED
        BY <1>0, <1>u, <2>1 DEF VerdictInv
<1>15. ASSUME NEW q PROVE /\ Wanted(q)' = Wanted(q)
                          /\ \A t : Cardinality(Newer(q, t)) <= Cardinality(Newer(q, t)')
                          /\ \A t : Cardinality(Newer(q, t)) \in Nat /\ Cardinality(Newer(q, t)') \in Nat
    <2>1. \A t \in At : t \in Matches(q)' <=> t \in Matches(q)
        BY <1>4, <1>6, <1>u DEF Matches, At
    <2>2. Matches(q) \subseteq At /\ Matches(q)' \subseteq At'
        BY DEF Matches, At
    <2>3. \A t \in At' : t <= began => t \in At
        BY <1>1, <1>3, <1>b
    <2>4. Wanted(q)' = Wanted(q)
        BY <1>4, <1>u, <2>1, <2>2, <2>3 DEF Wanted
    <2>5. \A t : Newer(q, t) \subseteq Newer(q, t)' /\ Newer(q, t)' \subseteq At'
        BY <2>1, <2>2, <1>4 DEF Newer
    <2>6. IsFiniteSet(At')
        BY <1>1, <1>3, FS_Interval
    <2>7. \A t : IsFiniteSet(Newer(q, t)')
        BY <2>5, <2>6, FS_Subset
    <2>8. QED
        BY <1>0, <2>4, <2>5, <2>7, FS_Subset, FS_CardinalityType, RanksAreNat
<1>16. \A t \in At : Covers(found, t)' <=> Covers(found, t)
    BY <1>4, <1>u DEF Covers
<1>17. \A q : \A t \in Wanted(q) : t \in At
    BY <1>0, RanksAreNat DEF Wanted
<1>18. \A q : AllFound(found, q) => AllFound(found, q)'
    BY <1>15, <1>16, <1>17 DEF AllFound
<1>19. PagesFound(found, query, page) => PagesFound(found, query, page)'
    <2> DEFINE x == (page - 1) * SearchPageSize
    <2>1. x \in Int
        BY <1>0, SizesAreNat DEF Typed
    <2>2. /\ PagesFound(found, query, page) <=>
                \A t \in Wanted(query) : Cardinality(Newer(query, t)) < x => Covers(found, t)
          /\ PagesFound(found, query, page)' <=>
                \A t \in Wanted(query)' : Cardinality(Newer(query, t)') < x => Covers(found, t)'
        BY <1>u DEF PagesFound
    <2> HIDE DEF x
    <2>3. ASSUME NEW t, Cardinality(Newer(query, t)') < x PROVE Cardinality(Newer(query, t)) < x
        <3>1. /\ Cardinality(Newer(query, t)) <= Cardinality(Newer(query, t)')
              /\ Cardinality(Newer(query, t)) \in Nat /\ Cardinality(Newer(query, t)') \in Nat
            BY <1>15, <1>u
        <3>2. QED
            BY <2>1, <2>3, <3>1
    <2>4. Wanted(query)' = Wanted(query)
        BY <1>15, <1>u
    <2>5. QED
        BY <1>16, <1>17, <2>2, <2>3, <2>4
<1>20. SearchInv'
    BY <1>0, <1>18, <1>19, <1>u DEF SearchInv
<1>21. KeptInv'
    BY <1>0, <1>u DEF KeptInv
<1>22. QED
    BY <1>8, <1>9, <1>10, <1>13, <1>14, <1>20, <1>21 DEF IInv

-----------------------------------------------------------------------------
(* The collector's own steps.                                              *)

Stats == [errors : Nat, callsOk : BOOLEAN, searchTruncated : BOOLEAN, truncated : Nat]

LEMMA NothingReadFits ==
    ASSUME Typed
    PROVE  /\ ReadingFits(NothingRead) /\ NothingRead.pages < ConvMaxPages
           /\ \A c : NoGap(c, NothingRead)
<1>1. NothingRead \in Readings
    BY PositionsAreFinite DEF NothingRead, Readings
<1>2. QED
    BY <1>1, NothingReadIs, SizesAreNat DEF ReadingFits, NoGap

(* What is said of the workspace is the same while it is.                  *)
LEMMA SameWorkspace ==
    ASSUME UNCHANGED <<kind, log, found, began>>
    PROVE  /\ At' = At /\ Readings' = Readings
           /\ FoundFits(found)' <=> FoundFits(found)
           /\ \A r : ReadingFits(r)' <=> ReadingFits(r)
           /\ \A c, r : NoGap(c, r)' <=> NoGap(c, r)
           /\ \A c, v : VerdictFits(c, v)' <=> VerdictFits(c, v)
           /\ AllFound(found, 1)' <=> AllFound(found, 1)
           /\ AllFound(found, 2)' <=> AllFound(found, 2)
<1>1. At' = At /\ Readings' = Readings
    BY DEF At, Readings
<1>2. FoundFits(found)' <=> FoundFits(found)
    BY <1>1 DEF FoundFits
<1>3. \A r : ReadingFits(r)' <=> ReadingFits(r)
    <2>1. AckedNow' = AckedNow
        BY DEF AckedNow, IsMessage
    <2>2. QED
        BY <1>1, <2>1 DEF ReadingFits
<1>4. \A c, t : InRange(c, t)' <=> InRange(c, t)
    BY DEF InRange, IsMessage, OldestFirst
<1>5. \A c : OldestFirst(c)' <=> OldestFirst(c)
    BY DEF OldestFirst
<1>6. \A c, r : NoGap(c, r)' <=> NoGap(c, r)
    BY <1>1, <1>4, <1>5 DEF NoGap
<1>7. \A c, time : AsksBefore(c, time)' = AsksBefore(c, time)
    BY <1>4 DEF AsksBefore, Directed
<1>8. \A t, time : /\ IsAnswered(t)' <=> IsAnswered(t)
                   /\ WasAnswered(t, time)' <=> WasAnswered(t, time)
                   /\ Directed(t)' <=> Directed(t)
    BY DEF IsAnswered, WasAnswered, Answers, IsMessage, Directed
<1>9. \A c, v : VerdictFits(c, v)' <=> VerdictFits(c, v)
    <2> SUFFICES ASSUME NEW c, NEW v PROVE VerdictFits(c, v)' <=> VerdictFits(c, v)
        OBVIOUS
    <2>1. AsksBefore(c, v.since)' = AsksBefore(c, v.since)
        BY <1>7
    <2>2. QED
        BY <1>1, <1>5, <1>8, <2>1 DEF VerdictFits
<1>10. Wanted(1)' = Wanted(1) /\ Wanted(2)' = Wanted(2)
    BY DEF Wanted, Matches, IsMessage
<1>11. \A t : Covers(found, t)' <=> Covers(found, t)
    BY DEF Covers
<1>12. QED
    BY <1>1, <1>2, <1>3, <1>6, <1>9, <1>10, <1>11 DEF AllFound

LEMMA NoPageYet == Typed => PagesFound(found, 1, 1) /\ PagesFound(found, 2, 1)
<1>1. (1 - 1) * SearchPageSize = 0
    BY SizesAreNat
<1>2. QED
    BY <1>1, RanksAreNat DEF PagesFound

LEMMA InitHolds == Init => IInv
<1> SUFFICES ASSUME Init PROVE IInv
    OBVIOUS
<1>1. /\ kind \in [Convs -> Kinds] /\ log = <<>> /\ began = 0 /\ phase = "idle" /\ query = 1
      /\ page = 1 /\ found = <<>> /\ todo = <<>> /\ reading = NothingRead /\ verdicts = <<>>
      /\ stats = [errors |-> 0, callsOk |-> FALSE, searchTruncated |-> FALSE, truncated |-> 0]
    BY DEF Init
<1>2. Typed
    BY <1>1, SizesAreNat DEF Typed
<1>3. DOMAIN found = {} /\ DOMAIN verdicts = {} /\ Len(todo) = 0 /\ DOMAIN todo = {}
    BY <1>1
<1>4. FoundFits(found)
    BY <1>3, FS_EmptySet DEF FoundFits
<1>5. TodoInv
    BY <1>1, <1>3, SizesAreNat DEF TodoInv
<1>6. ReadingInv
    BY <1>1, <1>2, NothingReadFits DEF ReadingInv
<1>7. VerdictInv /\ SearchInv /\ KeptInv
    <2>1. PagesFound(found, 1, 1)
        BY <1>2, NoPageYet
    <2>2. QED
        BY <1>1, <1>3, <2>1 DEF VerdictInv, SearchInv, KeptInv
<1>8. QED
    BY <1>2, <1>4, <1>5, <1>6, <1>7 DEF IInv

LEMMA StartKeeps ==
    ASSUME IInv, Start
    PROVE  IInv'
<1>1. /\ phase = "idle" /\ phase' = "search" /\ began' = Len(log)
      /\ UNCHANGED <<kind, log, query, page, found, todo, reading, verdicts, stats>>
    BY DEF Start
<1>2. /\ Typed /\ FoundFits(found) /\ query = 1 /\ page = 1 /\ todo = <<>>
      /\ DOMAIN verdicts = {} /\ reading = NothingRead
    BY <1>1 DEF IInv, TodoInv
<1>3. Typed'
    BY <1>1, <1>2, PositionsAreFinite DEF Typed
<1>4. FoundFits(found)' /\ TodoInv'
    BY <1>1, <1>2 DEF FoundFits, TodoInv, IInv, At
<1>5. ReadingInv'
    <2>1. /\ (ReadingFits(NothingRead) /\ NothingRead.pages < ConvMaxPages)'
        BY <1>3, NothingReadFits, PTL
    <2>2. QED
        BY <1>1, <1>2, <2>1 DEF ReadingInv, NothingRead
<1>6. VerdictInv' /\ KeptInv'
    BY <1>1, <1>2 DEF VerdictInv, KeptInv
<1>7. PagesFound(found, 1, 1)'
    BY <1>3, NoPageYet, PTL
<1>8. SearchInv'
    BY <1>1, <1>2, <1>7 DEF SearchInv
<1>9. QED
    BY <1>3, <1>4, <1>5, <1>6, <1>8 DEF IInv

(* The end of a search that kept what it should.                           *)
LEMMA SearchOver ==
    ASSUME IInv, phase = "search", UNCHANGED <<kind, log, reading, verdicts, began>>,
           FoundFits(found'), NEW s \in Stats, SearchEnds(found', s),
           s.errors = 0 /\ ~s.searchTruncated =>
               AllFound(found', query) /\ (query = 2 => AllFound(found', 1))
    PROVE  IInv'
<1> DEFINE f == found'
<1>1. /\ Typed /\ todo = <<>> /\ DOMAIN verdicts = {} /\ reading = NothingRead
    BY DEF IInv, TodoInv
<1>2. /\ page' = 1 /\ phase' \in {"search", "read"} /\ query' \in {1, 2}
      /\ phase' = "search" => query = 1 /\ query' = 2 /\ stats' = s /\ todo' = todo
      /\ phase' = "read" => /\ query = 2 /\ todo' = ToRead(f)
                            /\ stats' = [s EXCEPT !.truncated = Truncated(Cardinality(DOMAIN f))]
    BY <1>1 DEF SearchEnds, Typed
<1>3. /\ ToRead(f) \in Seq(DOMAIN f) /\ Len(ToRead(f)) <= MaxConversations
      /\ \A i, j \in DOMAIN ToRead(f) : ToRead(f)[i] = ToRead(f)[j] => i = j
      /\ Truncated(Cardinality(DOMAIN f)) \in Nat
      /\ Truncated(Cardinality(DOMAIN f)) = 0 =>
            \A c \in DOMAIN f : \E i \in DOMAIN ToRead(f) : ToRead(f)[i] = c
    BY <1>1, ToReadIs
<1> HIDE DEF f
<1>4. /\ stats' \in Stats /\ stats'.errors = s.errors
      /\ stats'.searchTruncated = s.searchTruncated
      /\ phase' = "read" => stats'.truncated = Truncated(Cardinality(DOMAIN f))
    <2>1. CASE stats' = s /\ phase' = "search"
        BY <2>1
    <2>2. CASE stats' = [s EXCEPT !.truncated = Truncated(Cardinality(DOMAIN f))]
        BY <1>3, <2>2 DEF Stats
    <2>3. QED
        BY <1>2, <2>1, <2>2
<1>5. Typed'
    BY <1>1, <1>2, <1>4, SizesAreNat DEF Typed, Stats
<1>6. FoundFits(found)'
    <2>1. At' = At
        BY DEF At
    <2>2. QED
        BY <2>1 DEF FoundFits
<1>7. TodoInv'
    <2>1. CASE phase' = "search"
        <3>1. DOMAIN todo' = {} /\ Len(todo') = 0 /\ todo' \in Seq(DOMAIN f)
            BY <1>1, <1>2, <2>1
        <3>2. QED
            BY <1>1, <1>2, <2>1, <3>1, SizesAreNat DEF TodoInv, NothingRead, f
    <2>2. CASE phase' = "read"
        <3>1. DOMAIN verdicts' = {} /\ reading' = NothingRead
            BY <1>1
        <3>2. QED
            BY <1>2, <1>3, <2>2, <3>1 DEF TodoInv, NothingRead, f
    <2>3. QED
        BY <1>2, <2>1, <2>2
<1>8. ReadingInv'
    <2>1. (ReadingFits(NothingRead) /\ NothingRead.pages < ConvMaxPages
           /\ \A c : NoGap(c, NothingRead))'
        BY <1>5, NothingReadFits, PTL
    <2>2. QED
        BY <1>1, <2>1 DEF ReadingInv, NothingRead
<1>9. VerdictInv'
    BY <1>1 DEF VerdictInv
<1>10. /\ AllFound(found, 1)' <=> AllFound(f, 1)
       /\ AllFound(found, 2)' <=> AllFound(f, 2)
    BY DEF AllFound, Covers, Wanted, Matches, IsMessage, f
<1>11. SearchInv'
    <2>1. PagesFound(found, 2, 1)'
        BY <1>5, NoPageYet, PTL
    <2>2. QED
        BY <1>2, <1>4, <1>10, <2>1 DEF SearchInv, f
<1>12. KeptInv'
    BY <1>1, <1>2, <1>3, <1>4 DEF KeptInv, f
<1>13. QED
    BY <1>5, <1>6, <1>7, <1>8, <1>9, <1>11, <1>12 DEF IInv

LEMMA SearchPageKeeps ==
    ASSUME IInv, SearchPage
    PROVE  IInv'
<1> DEFINE hits == HitsOnPage(query, page)
           s == [stats EXCEPT !.callsOk = TRUE]
<1>1. /\ phase = "search" /\ found' = AddMatches(found, hits)
      /\ UNCHANGED <<kind, log, reading, verdicts, began>>
    BY DEF SearchPage
<1>2. /\ Typed /\ FoundFits(found) /\ page \in Nat /\ page <= MaxPages /\ query \in {1, 2}
      /\ todo = <<>> /\ DOMAIN verdicts = {} /\ reading = NothingRead
    BY <1>1, SizesAreNat DEF IInv, Typed, TodoInv
<1>3. hits \in SUBSET At
    BY <1>2, RanksAreNat DEF HitsOnPage
<1>4. FoundFits(found')
    BY <1>1, <1>2, <1>3, AddMatchesIs
<1>5. stats \in Stats
    BY <1>2 DEF Typed, Stats
<1>6. s \in Stats /\ s.errors = stats.errors /\ s.searchTruncated = stats.searchTruncated
    BY <1>5 DEF Stats
<1>7. stats.errors = 0 /\ ~stats.searchTruncated =>
          /\ PagesFound(found', query, page + 1)
          /\ IsLastPage(query, page) => AllFound(found', query)
          /\ query = 2 => AllFound(found', 1)
    <2> SUFFICES ASSUME stats.errors = 0, ~stats.searchTruncated
                 PROVE  /\ PagesFound(found', query, page + 1)
                        /\ IsLastPage(query, page) => AllFound(found', query)
                        /\ query = 2 => AllFound(found', 1)
        OBVIOUS
    <2>1. PagesFound(found, query, page) /\ (query = 2 => AllFound(found, 1))
        BY <1>1 DEF IInv, SearchInv
    <2>2. PagesFound(found', query, page + 1) /\ (IsLastPage(query, page) => AllFound(found', query))
        BY <1>1, <1>2, <2>1, NextPageIsFound
    <2>3. query = 2 => AllFound(found', 1)
        BY <1>1, <1>2, <1>3, <2>1, AllFoundStays
    <2>4. QED
        BY <2>2, <2>3
<1> HIDE DEF hits, s
<1>8. CASE IsLastPage(query, page) /\ SearchEnds(found', s)
    BY <1>1, <1>4, <1>6, <1>7, <1>8, SearchOver
<1>9. CASE SearchEnds(found', [s EXCEPT !.searchTruncated = TRUE])
    <2> DEFINE u == [s EXCEPT !.searchTruncated = TRUE]
    <2>1. u \in Stats /\ u.searchTruncated = TRUE
        BY <1>6 DEF Stats
    <2> HIDE DEF u
    <2>2. SearchEnds(found', u)
        BY <1>9 DEF u
    <2>3. QED
        BY <1>1, <1>4, <2>1, <2>2, SearchOver
<1>10. CASE /\ ~IsLastPage(query, page) /\ page < MaxPages
            /\ page' = page + 1 /\ stats' = s /\ UNCHANGED <<phase, query, todo>>
    <2>1. Typed'
        BY <1>1, <1>2, <1>6, <1>10, SizesAreNat DEF Typed, Stats
    <2>2. FoundFits(found)'
        <3>1. At' = At
            BY <1>1 DEF At
        <3>2. QED
            BY <1>1, <1>4, <3>1 DEF FoundFits
    <2>3. TodoInv'
        BY <1>1, <1>2, <1>10, SizesAreNat DEF TodoInv, NothingRead
    <2>4. ReadingInv'
        <3>1. (ReadingFits(NothingRead) /\ NothingRead.pages < ConvMaxPages)'
            BY <2>1, NothingReadFits, PTL
        <3>2. QED
            BY <1>1, <1>2, <1>10, <3>1 DEF ReadingInv, NothingRead
    <2>5. VerdictInv' /\ KeptInv'
        BY <1>1, <1>2, <1>10 DEF VerdictInv, KeptInv
    <2>6. /\ AllFound(found, 1)' <=> AllFound(found', 1)
          /\ PagesFound(found, query, page)' <=> PagesFound(found', query, page + 1)
        BY <1>1, <1>10 DEF AllFound, PagesFound, Covers, Wanted, Newer, Matches, IsMessage
    <2>7. SearchInv'
        BY <1>1, <1>6, <1>7, <1>10, <2>6 DEF SearchInv
    <2>8. QED
        BY <2>1, <2>2, <2>3, <2>4, <2>5, <2>7 DEF IInv
<1>11. QED
    BY <1>8, <1>9, <1>10 DEF SearchPage, s

LEMMA SearchFailsKeeps ==
    ASSUME IInv, SearchFails
    PROVE  IInv'
<1> DEFINE s == [stats EXCEPT !.errors = @ + 1]
<1>1. /\ phase = "search" /\ SearchEnds(found, s) /\ found' = found
      /\ UNCHANGED <<kind, log, reading, verdicts, began>>
    BY DEF SearchFails
<1>2. stats \in Stats /\ FoundFits(found)
    BY DEF IInv, Typed, Stats
<1>3. s \in Stats /\ s.errors = stats.errors + 1 /\ stats.errors \in Nat
    BY <1>2 DEF Stats
<1> HIDE DEF s
<1>4. s.errors # 0
    BY <1>3
<1>5. QED
    BY <1>1, <1>2, <1>3, <1>4, SearchOver

LEMMA JudgeKeeps ==
    ASSUME IInv, phase = "read", todo # <<>>, NEW r, ReadingFits(r), r.pages > 0,
           NoGap(Head(todo), r), NEW complete \in BOOLEAN,
           complete =>
               \A t \in At : InRange(Head(todo), t) /\ t <= r.since => t \in r.seen,
           NEW pageFailed \in BOOLEAN, Judge(r, complete, pageFailed),
           UNCHANGED <<kind, log, phase, query, page, found, began>>
    PROVE  IInv'
<1> DEFINE c == Head(todo)
           v == Verdict(c, r, complete)
<1>1. /\ Typed /\ FoundFits(found) /\ TodoInv /\ VerdictInv /\ SearchInv /\ KeptInv
    BY DEF IInv
<1>2. /\ todo \in Seq(DOMAIN found) /\ c \in DOMAIN found
      /\ Tail(todo) \in Seq(DOMAIN found) /\ Len(Tail(todo)) = Len(todo) - 1
      /\ Len(todo) \in Nat /\ Len(todo) > 0 /\ todo[1] = c
      /\ DOMAIN todo = 1..Len(todo) /\ DOMAIN Tail(todo) = 1..(Len(todo) - 1)
      /\ \A i \in 1..(Len(todo) - 1) : Tail(todo)[i] = todo[i + 1]
    BY <1>1 DEF TodoInv
<1>3. /\ verdicts' = [d \in DOMAIN verdicts \cup {c} |-> IF d = c THEN v ELSE verdicts[d]]
      /\ todo' = Tail(todo) /\ reading' = NothingRead
      /\ stats' = IF r.seen = {}
                  THEN [stats EXCEPT !.errors = @ + 1]
                  ELSE [stats EXCEPT !.callsOk = TRUE, !.errors = @ + (IF pageFailed THEN 1 ELSE 0)]
    BY DEF Judge
<1>4. VerdictFits(c, v) /\ (v.state = "failed" => r.seen = {})
    BY <1>1, <1>2, VerdictIsTrue
<1> HIDE DEF c, v
<1>5. stats \in Stats /\ stats.errors \in Nat
    BY <1>1 DEF Typed, Stats
<1>6. /\ stats' \in Stats /\ stats'.errors >= stats.errors
      /\ r.seen = {} => stats'.errors > 0
      /\ stats'.searchTruncated = stats.searchTruncated /\ stats'.truncated = stats.truncated
    <2>1. CASE r.seen = {}
        BY <1>3, <1>5, <2>1 DEF Stats
    <2>2. CASE r.seen # {}
        <3> DEFINE one == IF pageFailed THEN 1 ELSE 0
        <3>1. one \in Nat
            OBVIOUS
        <3>2. stats' = [stats EXCEPT !.callsOk = TRUE, !.errors = @ + one]
            BY <1>3, <2>2
        <3> HIDE DEF one
        <3> DEFINE e == stats.errors + one
        <3>3. stats' \in Stats
            <4>1. e \in Nat
                BY <1>5, <3>1
            <4>2. stats' = [stats EXCEPT !.callsOk = TRUE, !.errors = e]
                BY <3>2
            <4> HIDE DEF e
            <4>3. QED
                BY <1>5, <4>1, <4>2 DEF Stats
        <3>4. /\ stats'.errors = stats.errors + one
              /\ stats'.searchTruncated = stats.searchTruncated
              /\ stats'.truncated = stats.truncated
            BY <1>5, <3>2 DEF Stats
        <3>5. stats'.errors >= stats.errors
            BY <1>5, <3>1, <3>4
        <3>6. QED
            BY <2>2, <3>3, <3>4, <3>5
    <2>3. QED
        BY <2>1, <2>2
<1>7. Typed'
    BY <1>1, <1>6 DEF Typed, Stats
<1>8. FoundFits(found)'
    BY <1>1, SameWorkspace
<1>9. TodoInv'
    <2>1. DOMAIN verdicts' = DOMAIN verdicts \cup {c}
        BY <1>3
    <2>2. \A i \in DOMAIN todo' : todo'[i] \notin DOMAIN verdicts'
        BY <1>1, <1>2, <1>3, <2>1 DEF TodoInv
    <2>3. \A i, j \in DOMAIN todo' : todo'[i] = todo'[j] => i = j
        BY <1>1, <1>2, <1>3 DEF TodoInv
    <2>4. todo' \in Seq(DOMAIN found) /\ Len(todo') <= MaxConversations
        BY <1>1, <1>2, <1>3, SizesAreNat DEF TodoInv
    <2>5. DOMAIN verdicts' \subseteq DOMAIN found
        BY <1>1, <1>2, <2>1 DEF TodoInv
    <2>6. QED
        BY <1>3, <2>2, <2>3, <2>4, <2>5 DEF TodoInv, NothingRead
<1>10. ReadingInv'
    <2>1. (ReadingFits(NothingRead) /\ NothingRead.pages < ConvMaxPages)'
        BY <1>7, NothingReadFits, PTL
    <2>2. \A d : NoGap(d, NothingRead)'
        BY NothingReadIs DEF NoGap, NothingRead
    <2>3. QED
        BY <1>3, <2>1, <2>2 DEF ReadingInv, NothingRead
<1>11. VerdictInv'
    <2>1. ASSUME NEW d \in DOMAIN verdicts'
          PROVE  /\ VerdictFits(d, verdicts'[d])
                 /\ verdicts'[d].state = "failed" => stats'.errors > 0
        <3>1. CASE d = c
            BY <1>3, <1>4, <1>6, <3>1
        <3>2. CASE d # c
            <4>1. d \in DOMAIN verdicts /\ verdicts'[d] = verdicts[d]
                BY <1>3, <3>2
            <4>2. VerdictFits(d, verdicts[d]) /\ (verdicts[d].state = "failed" => stats.errors > 0)
                BY <1>1, <4>1 DEF VerdictInv
            <4>3. stats.errors > 0 => stats'.errors > 0
                BY <1>5, <1>6 DEF Stats
            <4>4. QED
                BY <4>1, <4>2, <4>3
        <3>3. QED
            BY <3>1, <3>2
    <2>2. \A d, w : VerdictFits(d, w)' <=> VerdictFits(d, w)
        BY SameWorkspace
    <2>3. QED
        BY <2>1, <2>2 DEF VerdictInv
<1>12. SearchInv'
    <2>1. stats'.errors = 0 => stats.errors = 0
        BY <1>5, <1>6 DEF Stats
    <2>2. QED
        BY <1>1, <1>6, <2>1, SameWorkspace DEF SearchInv
<1>13. KeptInv'
    <2> SUFFICES ASSUME stats.truncated = 0, NEW d \in DOMAIN found
                 PROVE  d \in DOMAIN verdicts' \/ \E i \in DOMAIN todo' : todo'[i] = d
        BY <1>6 DEF KeptInv
    <2>1. CASE d \in DOMAIN verdicts
        BY <1>3, <2>1
    <2>2. ASSUME NEW i \in DOMAIN todo, todo[i] = d
          PROVE  d \in DOMAIN verdicts' \/ \E j \in DOMAIN todo' : todo'[j] = d
        <3>1. CASE i = 1
            BY <1>2, <1>3, <2>2, <3>1
        <3>2. CASE i # 1
            <4>1. i - 1 \in DOMAIN todo' /\ todo'[i - 1] = d
                <5>1. i - 1 \in 1..(Len(todo) - 1) /\ (i - 1) + 1 = i
                    BY <1>2, <3>2
                <5>2. Tail(todo)[i - 1] = todo[(i - 1) + 1]
                    BY <1>2, <5>1
                <5>3. QED
                    BY <1>2, <1>3, <2>2, <5>1, <5>2
            <4>2. QED
                BY <4>1
        <3>3. QED
            BY <3>1, <3>2
    <2>3. QED
        BY <1>1, <2>1, <2>2 DEF KeptInv
<1>14. QED
    BY <1>7, <1>8, <1>9, <1>10, <1>11, <1>12, <1>13 DEF IInv

LEMMA ReadPageKeeps ==
    ASSUME IInv, ReadPage
    PROVE  IInv'
<1> DEFINE c == Head(todo)
<1>1. /\ phase = "read" /\ todo # <<>>
      /\ UNCHANGED <<kind, log, phase, query, page, found, began>>
      /\ Typed /\ ReadingInv
    BY DEF ReadPage, IInv
<1>2. PICK k \in {0, ConvPageSize}, flag \in BOOLEAN :
          LET r == Read(FirstOf(c, k), flag)
              more == Unread(c) \ r.seen # {}
          IN  IF more /\ r.pages < ConvMaxPages
              THEN reading' = r /\ UNCHANGED <<todo, verdicts, stats>>
              ELSE Judge(r, ~more, FALSE)
    BY DEF ReadPage
<1> DEFINE r == Read(FirstOf(c, k), flag)
           more == Unread(c) \ r.seen # {}
<1>3. \/ /\ r.pages < ConvMaxPages /\ reading' = r
         /\ UNCHANGED <<todo, verdicts, stats>>
      \/ Judge(r, ~more, FALSE)
    BY <1>2
<1>4. IsNext(c, FirstOf(c, k))
    BY <1>1, SizesAreNat, FirstOfIsNext
<1>5. FirstOf(c, k) \in SUBSET At
    BY DEF FirstOf, Unread, At
<1>6. ReadingFits(r) /\ r.pages > 0
    BY <1>1, <1>5, ReadingGoesOn
<1>7. /\ NoGap(c, r)
      /\ Unread(c) \ r.seen = {} =>
            \A t \in At : InRange(c, t) /\ t <= r.since => t \in r.seen
    BY <1>1, <1>4, NoGapGoesOn
<1> HIDE DEF r
<1>8. CASE Judge(r, ~more, FALSE)
    <2>1. (~more) \in BOOLEAN /\ (~more => Unread(c) \ r.seen = {})
        OBVIOUS
    <2>2. ~more => \A t \in At : InRange(c, t) /\ t <= r.since => t \in r.seen
        BY <1>7, <2>1
    <2> DEFINE complete == ~more
    <2>3. complete \in BOOLEAN /\ Judge(r, complete, FALSE)
        BY <1>8, <2>1
    <2>4. complete => \A t \in At : InRange(c, t) /\ t <= r.since => t \in r.seen
        BY <2>2
    <2> HIDE DEF complete
    <2>5. QED
        BY <1>1, <1>6, <1>7, <2>3, <2>4, JudgeKeeps
<1>9. CASE r.pages < ConvMaxPages /\ reading' = r /\ UNCHANGED <<todo, verdicts, stats>>
    <2>1. Typed'
        BY <1>1, <1>9 DEF Typed
    <2>2. FoundFits(found)'
        BY <1>1, SameWorkspace DEF IInv
    <2>3. TodoInv'
        BY <1>1, <1>9 DEF IInv, TodoInv, NothingRead
    <2>4. ReadingInv'
        <3>1. \A q : ReadingFits(q)' <=> ReadingFits(q)
            BY <1>1, SameWorkspace
        <3>2. \A d, q : NoGap(d, q)' <=> NoGap(d, q)
            BY <1>1, SameWorkspace
        <3>3. reading' = r /\ todo' = todo
            BY <1>9
        <3>4. ReadingFits(reading)' /\ NoGap(Head(todo), reading)'
            BY <1>6, <1>7, <3>1, <3>2, <3>3
        <3>5. r.pages \in Nat
            BY <1>6 DEF ReadingFits, Readings
        <3>6. reading'.pages > 0 /\ reading'.pages < ConvMaxPages
            BY <1>6, <1>9
        <3>7. reading'.pages # 0
            BY <1>9, <3>5, <3>6
        <3>8. QED
            BY <3>4, <3>6, <3>7 DEF ReadingInv, NothingRead
    <2>5. VerdictInv' /\ KeptInv' /\ SearchInv'
        BY <1>1, <1>9, SameWorkspace DEF IInv, VerdictInv, KeptInv, SearchInv
    <2>6. QED
        BY <2>1, <2>2, <2>3, <2>4, <2>5 DEF IInv
<1>10. QED
    BY <1>3, <1>8, <1>9

LEMMA ReadFailsKeeps ==
    ASSUME IInv, ReadFails
    PROVE  IInv'
<1>1. /\ phase = "read" /\ todo # <<>>
      /\ UNCHANGED <<kind, log, phase, query, page, found, began>>
      /\ Typed /\ ReadingInv
    BY DEF ReadFails, IInv
<1>2. PICK flag \in BOOLEAN : Judge(Read({}, flag), FALSE, TRUE)
    BY DEF ReadFails
<1>3. ReadingFits(Read({}, flag)) /\ Read({}, flag).pages > 0
    BY <1>1, ReadingGoesOn
<1>4. NoGap(Head(todo), Read({}, flag))
    BY <1>1, NothingIsNext, NoGapGoesOn
<1>5. QED
    BY <1>1, <1>2, <1>3, <1>4, JudgeKeeps

LEMMA ResolveNamesKeeps ==
    ASSUME IInv, ResolveNames
    PROVE  IInv'
<1>1. /\ phase = "read" /\ todo = <<>> /\ phase' = "done"
      /\ UNCHANGED <<kind, log, query, page, found, todo, reading, verdicts, began>>
    BY DEF ResolveNames
<1>2. PICK failed \in 0..Cardinality(Reported) : stats' = [stats EXCEPT !.errors = @ + failed]
    BY DEF ResolveNames
<1>3. stats \in Stats /\ stats.errors \in Nat /\ failed \in Nat
    BY DEF IInv, Typed, Stats
<1>4. /\ stats' \in Stats /\ stats'.errors >= stats.errors
      /\ stats'.searchTruncated = stats.searchTruncated /\ stats'.truncated = stats.truncated
    BY <1>2, <1>3 DEF Stats
<1>5. Typed' /\ TodoInv'
    BY <1>1, <1>4 DEF IInv, Typed, TodoInv, Stats, NothingRead
<1>6. FoundFits(found)'
    BY <1>1, SameWorkspace DEF IInv
<1>7. ReadingInv'
    BY <1>1, SameWorkspace DEF IInv, ReadingInv, NothingRead
<1>8. stats'.errors = 0 => stats.errors = 0
    BY <1>3, <1>4 DEF Stats
<1>9. VerdictInv'
    <2>1. \A c, v : VerdictFits(c, v)' <=> VerdictFits(c, v)
        BY <1>1, SameWorkspace
    <2>2. stats.errors > 0 => stats'.errors > 0
        BY <1>3, <1>4 DEF Stats
    <2>3. QED
        BY <1>1, <2>1, <2>2 DEF IInv, VerdictInv
<1>10. SearchInv' /\ KeptInv'
    BY <1>1, <1>4, <1>8, SameWorkspace DEF IInv, SearchInv, KeptInv
<1>11. QED
    BY <1>5, <1>6, <1>7, <1>9, <1>10 DEF IInv

LEMMA WrittenIsAnEntry ==
    ASSUME Typed, Len(log) < MaxLog
    PROVE  /\ \A c \in Convs, p \in Posts :
                 [conv |-> c, by |-> p.by, text |-> p.text, to |-> 0] \in Message
           /\ \A t \in DOMAIN log :
                 [conv |-> log[t].conv, by |-> "user", text |-> "ack", to |-> t] \in Ack
<1>1. \A t \in At : t \in 1..MaxLog /\ log[t].conv \in Convs
    BY Entries, PositionsAreFinite, SizesAreNat
<1>2. QED
    BY <1>1, PostsAssumption DEF Message, Ack, At

LEMMA NextKeeps == IInv /\ [Next]_vars => IInv'
<1> SUFFICES ASSUME IInv, [Next]_vars PROVE IInv'
    OBVIOUS
<1>1. ASSUME NEW c \in Convs, NEW p \in Posts, Post(c, p) PROVE IInv'
    BY <1>1, WrittenIsAnEntry, LogGrows DEF Post, IInv
<1>2. ASSUME NEW t \in DOMAIN log, React(t) PROVE IInv'
    BY <1>2, WrittenIsAnEntry, LogGrows DEF React, IInv
<1>3. CASE UNCHANGED vars
    <2>1. UNCHANGED <<kind, log, found, began>>
        BY <1>3 DEF vars
    <2>2. ReadingInv'
        BY <1>3, <2>1, SameWorkspace DEF vars, IInv, ReadingInv, NothingRead
    <2>3. SearchInv'
        <3>1. PagesFound(found, query, page)' <=> PagesFound(found, query, page)
            BY <1>3 DEF vars, PagesFound, Covers, Wanted, Newer, Matches, IsMessage
        <3>2. QED
            BY <1>3, <2>1, <3>1, SameWorkspace DEF vars, IInv, SearchInv
    <2>4. Typed' /\ FoundFits(found)' /\ TodoInv' /\ KeptInv'
        BY <1>3, <2>1, SameWorkspace DEF vars, IInv, Typed, TodoInv, KeptInv, NothingRead
    <2>5. VerdictInv'
        BY <1>3, <2>1, SameWorkspace DEF vars, IInv, VerdictInv
    <2>6. QED
        BY <2>2, <2>3, <2>4, <2>5 DEF IInv
<1>4. CASE Next
    BY <1>1, <1>2, <1>4, StartKeeps, SearchPageKeeps, SearchFailsKeeps, ReadPageKeeps,
       ReadFailsKeeps, ResolveNamesKeeps DEF Next
<1>5. QED
    BY <1>3, <1>4

LEMMA InvHolds == Spec => []IInv
BY InitHolds, NextKeeps, PTL DEF Spec


-----------------------------------------------------------------------------
(* What a run promises.                                                    *)

(* Type correctness: a conversation is read once, and of what was found    *)
(* (the loops of collect_slack_waiting).                                   *)
THEOREM SlackTypeOK == Spec => []TypeOK
<1>1. ASSUME IInv PROVE TypeOK
    <2>1. Typed /\ FoundFits(found) /\ TodoInv /\ ReadingInv
        BY <1>1 DEF IInv
    <2>2. \A c \in DOMAIN found :
              found[c].earliest <= found[c].latest /\ found[c].latest <= Len(log)
        <3>1. Len(log) \in Nat /\ At = 1..Len(log)
            BY <2>1 DEF Typed, At
        <3>2. QED
            BY <2>1, <3>1 DEF FoundFits
    <2>3. ToSet(todo) \subseteq DOMAIN found /\ ToSet(todo) \cap DOMAIN verdicts = {}
        BY <2>1 DEF TodoInv, ToSet
    <2>4. reading.seen \subseteq DOMAIN log /\ reading.pages < ConvMaxPages
        BY <2>1 DEF ReadingInv, ReadingFits, Readings, At
    <2>5. Len(todo) <= MaxConversations /\ DOMAIN found \subseteq Convs
        BY <2>1 DEF TodoInv, FoundFits
    <2>6. QED
        BY <2>1, <2>2, <2>3, <2>4, <2>5 DEF TypeOK, Typed
<1>2. QED
    BY <1>1, InvHolds, PTL

LEMMA JudgedFits ==
    ASSUME IInv, NEW s, NEW c \in Judged(s)
    PROVE  c \in DOMAIN verdicts /\ verdicts[c].state = s /\ VerdictFits(c, verdicts[c])
BY DEF Judged, IInv, VerdictInv

(* An ask that is reported as waiting was unanswered when the reading of   *)
(* its conversation began (_read_conversation, slack_reply_state).         *)
THEOREM WaitingTheorem == Spec => []WaitingIsOpen
<1>1. ASSUME IInv PROVE WaitingIsOpen
    BY <1>1, JudgedFits DEF WaitingIsOpen, VerdictFits
<1>2. QED
    BY <1>1, InvHolds, PTL

(* A conversation that is dropped as answered held no open ask when its    *)
(* reading began, in the range that is read of it.                         *)
THEOREM AnsweredTheorem == Spec => []AnsweredIsAnswered
<1>1. ASSUME IInv PROVE AnsweredIsAnswered
    BY <1>1, JudgedFits DEF AnsweredIsAnswered, VerdictFits
<1>2. QED
    BY <1>1, InvHolds, PTL

(* No record shows what a flagged page held, whichever page it was.        *)
THEOREM WithheldTheorem == Spec => []FlaggedIsWithheld
<1>1. ASSUME IInv PROVE FlaggedIsWithheld
    BY <1>1 DEF FlaggedIsWithheld, Reported, IInv, VerdictInv, VerdictFits
<1>2. QED
    BY <1>1, InvHolds, PTL

(* An open ask that a search could find is reported, or the section says   *)
(* that it did not read everything.                                        *)
THEOREM NoAskLostTheorem == Spec => []NoAskLost
<1>1. ASSUME IInv PROVE NoAskLost
    <2> SUFFICES ASSUME phase = "done", NEW t \in Matches(1) \cup Matches(2),
                        t <= began, Directed(t), ~IsAnswered(t),
                        SectionStatus = "ok", ~stats.searchTruncated,
                        ~PartOfHistory(log[t].conv),
                        log[t].conv \notin DOMAIN verdicts => ~(stats.truncated > 0)
                 PROVE  log[t].conv \in Reported
        BY DEF NoAskLost
    <2> DEFINE c == log[t].conv
    <2>1. /\ Typed /\ FoundFits(found) /\ TodoInv /\ VerdictInv /\ SearchInv /\ KeptInv
          /\ stats.errors \in Nat /\ stats.truncated \in Nat
        BY <1>1 DEF IInv, Typed
    <2>2. stats.errors = 0
        <3>1. SUFFICES ASSUME stats.errors # 0 PROVE SectionStatus # "ok"
            OBVIOUS
        <3> DEFINE q == Reported = {} /\ ~stats.callsOk
        <3>3. CASE q
            BY <3>1, <3>3, <2>1 DEF SectionStatus
        <3>4. CASE ~q
            BY <3>1, <3>4, <2>1 DEF SectionStatus
        <3>5. QED
            BY <3>3, <3>4
    <2>3. Covers(found, t)
        <3>1. t \in Wanted(1) \/ t \in Wanted(2)
            BY DEF Wanted, Directed
        <3>2. AllFound(found, 1) /\ AllFound(found, 2)
            BY <2>1, <2>2 DEF SearchInv
        <3>3. QED
            BY <3>1, <3>2 DEF AllFound
    <2>4. c \in DOMAIN found /\ found[c].earliest <= t /\ t <= found[c].latest
        BY <2>3 DEF Covers
    <2>5. t \in At /\ IsMessage(t)
        BY DEF Matches, At
    <2>6. t \in Nat /\ found[c].earliest \in Nat /\ found[c].latest \in Nat /\ began \in Nat
        BY <2>1, <2>4, <2>5 DEF Typed, At, FoundFits
    <2>7. InRange(c, t)
        BY <2>4, <2>5, <2>6 DEF InRange
    <2>8. c \in DOMAIN verdicts
        <3>1. todo = <<>>
            BY <2>1 DEF TodoInv
        <3>2. SUFFICES ASSUME c \notin DOMAIN verdicts PROVE FALSE
            OBVIOUS
        <3>3. stats.truncated = 0
            BY <2>1, <3>2
        <3>4. \E i \in DOMAIN todo : todo[i] = c
            BY <2>1, <2>4, <3>2, <3>3 DEF KeptInv
        <3>5. QED
            BY <3>1, <3>4
    <2>9. VerdictFits(c, verdicts[c]) /\ verdicts[c].state # "failed"
        <3>1. ~(stats.errors > 0)
            BY <2>1, <2>2
        <3>2. QED
            BY <2>1, <2>8, <3>1 DEF VerdictInv
    <2>10. t \in AsksBefore(c, verdicts[c].since)
        <3>1. verdicts[c].since \in began..Len(log) /\ Len(log) \in Nat
            BY <2>1, <2>9 DEF VerdictFits, Typed
        <3>2. t <= verdicts[c].since
            BY <2>6, <3>1
        <3>3. QED
            BY <2>5, <2>7, <3>2 DEF AsksBefore, At
    <2>11. verdicts[c].state # "answered"
        BY <2>9, <2>10 DEF VerdictFits
    <2>12. verdicts[c].state # "no_ask"
        <3>1. SUFFICES ASSUME verdicts[c].state = "no_ask" PROVE FALSE
            OBVIOUS
        <3>2. ~verdicts[c].complete /\ (OldestFirst(c) => t > found[c].latest)
            BY <2>9, <2>10, <3>1 DEF VerdictFits
        <3>3. ~OldestFirst(c)
            BY <2>4, <2>6, <3>2
        <3>4. QED
            BY <2>8, <3>1, <3>2, <3>3 DEF PartOfHistory, Judged
    <2>13. QED
        BY <2>8, <2>9, <2>11, <2>12 DEF VerdictFits, Reported
<1>2. QED
    BY <1>1, InvHolds, PTL
=============================================================================
