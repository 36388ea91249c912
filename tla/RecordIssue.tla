---------------------------- MODULE RecordIssue ----------------------------
(* The ashigaru_issue and crunchtools_releases collectors.  Ashigaru keeps *)
(* an issue whose body lists items under headings, one part each, and may  *)
(* end a part with "and N more".  Both collectors find the issue by label  *)
(* and parse its body line by line; the second then asks which versions    *)
(* run on lotor, and compares.                                             *)
EXTENDS Section

CONSTANTS
    Repos,          \* repositories that release
    Versions,       \* versions: [n, rc]; rc is 0 in a final release
    Published,      \* PUBLISHED_PART
    OtherPart,      \* any other part
    MaxParsed,      \* MAX_ASHIGARU_ITEMS
    MaxListed,      \* MAX_ASHIGARU_RECORDS
    MaxContainers,  \* bound on the containers on lotor
    MaxLines        \* bound on the body

Constants ==
    /\ IsFiniteSet(Repos) /\ Versions \subseteq [n : Nat, rc : Nat]
    /\ Cardinality({Published, OtherPart, "none"}) = 3
    /\ {MaxParsed, MaxListed} \subseteq Nat \ {0} /\ {MaxContainers, MaxLines} \subseteq Nat

VARIABLES
    collector,
    body,       \* the lines of the issue
    phase,      \* "idle", "find", "read", "done"
    parts,      \* the parts parsed from it, capped
    containers, \* what lotor answered
    section,
    listing       \* stats.parts: by part, what is listed and how many more

vars == <<collector, body, phase, parts, containers, section, listing>>

Kinds == {"ashigaru_issue", "crunchtools_releases"}

Parts == {Published, OtherPart}

\* An item, or a container's labels, that name no version.
NoVersion == [n |-> 0, rc |-> 0]

Heading(p) == [kind |-> "heading", part |-> p]
Item(r, v) == [kind |-> "item", repo |-> r, version |-> v]
More(n) == [kind |-> "more", n |-> n]
Prose == [kind |-> "prose"]

----------------------------------------------------------------------------
(* ashigaru_parts, one line at a time.                                     *)
NoParts == [part |-> "none", seen |-> 0, parts |-> <<>>]

NewPart == [items |-> <<>>, more |-> 0]

ParseLine(parse, line) ==
    CASE line.kind = "heading" ->
            [parse EXCEPT !.part = line.part,
                          !.parts = [p \in DOMAIN @ \cup {line.part} |->
                                        IF p = line.part THEN NewPart ELSE @[p]]]
      [] line.kind = "more" /\ parse.part # "none" ->
            [parse EXCEPT !.parts[parse.part].more = line.n]
      [] line.kind = "item" /\ parse.part # "none" /\ parse.seen < MaxParsed ->
            [parse EXCEPT !.parts[parse.part].items = Append(@, line), !.seen = @ + 1]
      [] OTHER -> parse

Parsed(lines) ==
    LET parse[n \in 0..Len(lines)] ==
            IF n = 0 THEN NoParts ELSE ParseLine(parse[n - 1], lines[n])
    IN  parse[Len(lines)].parts

\* Slip: what the cap drops is not told.
Capped_Slip(part) ==
    [part EXCEPT !.items = SubSeq(@, 1, Min({Len(@), MaxListed}))]

(* _capped_parts: what the cap drops is added to the part's own tail.      *)
Capped(part) ==
    LET kept == Min({Len(part.items), MaxListed})
    IN  [items |-> SubSeq(part.items, 1, kept), more |-> part.more + Len(part.items) - kept]

(* The records of a part's items; the order of the parts is left out.      *)
ItemsOf(p) == IF p \in DOMAIN parts THEN parts[p].items ELSE <<>>

ItemRecords(p) ==
    [i \in DOMAIN ItemsOf(p) |-> [kind |-> "item", part |-> p, item |-> ItemsOf(p)[i]]]

----------------------------------------------------------------------------
\* Slip: a release candidate is the version it is a candidate for.
Semver_Slip(v) == v.n

(* semver: a release candidate sorts below its own final release, and any  *)
(* two of them alike.                                                      *)
Semver(v) == 2 * v.n + IF v.rc = 0 THEN 1 ELSE 0

(* _running_versions: a container that is up and names its version.        *)
Running(r) ==
    {c.version : c \in {d \in containers : d.repo = r /\ d.up /\ d.version # NoVersion}}

DeployStatus(newest, running) ==
    CASE running = {} -> "not-deployed"
      [] running # {} /\ Max({Semver(v) : v \in running}) < Semver(newest) -> "behind"
      [] OTHER -> "live"

(* Where the published part names a version of a repository.               *)
Releases(r) ==
    {i \in DOMAIN ItemsOf(Published) :
        /\ ItemsOf(Published)[i].repo = r
        /\ ItemsOf(Published)[i].version # NoVersion}

Ranked(i) == Semver(ItemsOf(Published)[i].version)

(* _repo_records: one for each repository, with the first of its newest.   *)
RepoRecord(r, known) ==
    LET first == Min({i \in Releases(r) : \A j \in Releases(r) : Ranked(j) <= Ranked(i)})
        newest == ItemsOf(Published)[first].version
    IN  [kind |-> "repo", repo |-> r, newest |-> newest, releases |-> Cardinality(Releases(r)),
         status |-> IF known THEN DeployStatus(newest, Running(r)) ELSE "unknown"]

RepoRecords(known) ==
    SetToSeq({RepoRecord(r, known) : r \in {q \in Repos : Releases(q) # {}}})

----------------------------------------------------------------------------
Init ==
    /\ body = <<>> /\ phase = "idle" /\ parts = <<>> /\ containers = {}
    /\ section = NewSection /\ listing = <<>>

(* What Ashigaru writes: a part's heading once, then its items with prose  *)
(* between them, and its tail last.                                        *)
Lines ==
    {Heading(p) : p \in {q \in Parts : Heading(q) \notin ToSet(body)}}
    \cup (IF body = <<>> THEN {Prose}
          ELSE IF Last(body).kind = "more" THEN {}
          ELSE {Item(r, v) : r \in Repos, v \in Versions \cup {NoVersion}} \cup {More(2), Prose})

WriteLine ==
    /\ phase = "idle" /\ Len(body) < MaxLines
    /\ \E line \in Lines : body' = Append(body, line)
    /\ UNCHANGED <<collector, phase, parts, containers, section, listing>>

Begin ==
    /\ phase = "idle" /\ phase' = "find"
    /\ UNCHANGED <<collector, body, parts, containers, section, listing>>

(* No issue to read: the call failed, the answer is no JSON, or no issue   *)
(* that is open carries the label.                                         *)
NotFound ==
    /\ phase = "find" /\ phase' = "done"
    /\ section' \in {NoteError(section, "label"), BadJson(section, "label")}
    /\ UNCHANGED <<collector, body, parts, containers, listing>>

Found ==
    /\ phase = "find"
    /\ LET parsed == Parsed(body)
       IN  parts' = [p \in DOMAIN parsed |-> Capped(parsed[p])]
    /\ listing' = [p \in DOMAIN parts' |->
                    [listed |-> Len(parts'[p].items), more |-> parts'[p].more]]
    /\ section' = CountOk(section) /\ phase' = "read"
    /\ UNCHANGED <<collector, body, containers>>

ListItems ==
    /\ phase = "read" /\ collector = "ashigaru_issue"
    /\ section' = AddRecords(section, ItemRecords(Published) \o ItemRecords(OtherPart))
    /\ phase' = "done"
    /\ UNCHANGED <<collector, body, parts, containers, listing>>

(* The container list, read or not; then the records are put together.     *)
Join(result, known) ==
    /\ phase' = "done"
    /\ UNCHANGED <<collector, body, parts, listing>>
    /\ section' = AddRecords(result, RepoRecords(known)' \o ItemRecords(OtherPart))

Containers == [repo : Repos, version : Versions \cup {NoVersion}, up : BOOLEAN]

Lotor ==
    /\ phase = "read" /\ collector = "crunchtools_releases"
    /\ \E answer \in SeqOf(Containers, MaxContainers) : containers' = ToSet(answer)
    /\ Join(CountOk(section), TRUE)

LotorFails ==
    /\ phase = "read" /\ collector = "crunchtools_releases"
    /\ UNCHANGED containers
    /\ \/ Join(NoteError(section, "lotor"), FALSE)
       \/ Join(BadJson(section, "lotor"), FALSE)

Next == WriteLine \/ Begin \/ NotFound \/ Found \/ ListItems \/ Lotor \/ LotorFails

Spec == collector \in Kinds /\ Init /\ [][Next]_vars

----------------------------------------------------------------------------
TypeOK ==
    /\ collector \in Kinds
    /\ phase \in {"idle", "find", "read", "done"}
    /\ Len(body) <= MaxLines /\ DOMAIN parts \subseteq Parts /\ DOMAIN listing = DOMAIN parts
    /\ \A p \in DOMAIN parts : parts[p].more \in Nat /\ Len(parts[p].items) <= MaxListed
    /\ containers \subseteq Containers
    /\ section.errors \subseteq {"label", "lotor"} /\ section.callsOk \in BOOLEAN

(* Where the issue has items under a heading, and the tail it has there.   *)
Under(p, kind) ==
    {i \in DOMAIN body :
        /\ body[i].kind = kind
        /\ \E h \in 1..(i - 1) :
              body[h] = Heading(p) /\ \A j \in h..i : body[j].kind = "heading" => j = h}

TailOf(p) ==
    LET tails == Under(p, "more")
    IN  IF tails = {} THEN 0 ELSE body[Max(tails)].n

Listed(p) ==
    {i \in DOMAIN section.records :
        section.records[i].kind = "item" /\ section.records[i].part = p}

(* The issue is no longer than the parser reads.                           *)
Readable == Quantify(DOMAIN body, LAMBDA i : body[i].kind = "item") <= MaxParsed

(* "and 17 more reads as a cap, not a gap" (ashigaru_issue): what a part   *)
(* lists and says there is more of adds up to what the issue has under its *)
(* heading and says there is more of, whichever of the two caps it met.    *)
PartsAddUp ==
    phase \in {"read", "done"} /\ "label" \notin section.errors =>
        /\ DOMAIN listing = {p \in Parts : Heading(p) \in ToSet(body)}
        /\ \A p \in DOMAIN listing :
              /\ Readable => listing[p].listed + listing[p].more
                                = Cardinality(Under(p, "item")) + TailOf(p)
              /\ phase = "done" /\ (collector = "ashigaru_issue" \/ p = OtherPart) =>
                    Cardinality(Listed(p)) = listing[p].listed

Older(v, w) == v.n < w.n \/ (v.n = w.n /\ v.rc # 0 /\ w.rc = 0)

IsDeployed(record) ==
    LET up == Running(record.repo)
    IN  CASE "lotor" \in section.errors -> record.status = "unknown"
          [] "lotor" \notin section.errors /\ up = {} -> record.status = "not-deployed"
          [] OTHER -> (record.status = "behind") = \A v \in up : Older(v, record.newest)

(* Of every repository the issue says was released, one record: none of    *)
(* its releases is later than the one called newest, all are counted, and  *)
(* the status is what the containers of one answer say: "behind" if each   *)
(* runs an older version, "not-deployed" if none runs any, and no status   *)
(* when lotor did not answer.                                              *)
DeployStatusIsTrue ==
    /\ phase = "done" /\ collector = "crunchtools_releases" /\ Readable
    /\ Published \in DOMAIN listing /\ listing[Published].more = TailOf(Published)
    => \A r \in Repos :
          LET releases == {i \in Under(Published, "item") :
                              body[i].repo = r /\ body[i].version # NoVersion}
              records == {record \in ToSet(section.records) :
                              record.kind = "repo" /\ record.repo = r}
          IN  IF releases = {} THEN records = {}
              ELSE \E record \in records :
                      /\ records = {record} /\ record.releases = Cardinality(releases)
                      /\ \E i \in releases : record.newest = body[i].version
                      /\ \A i \in releases : ~Older(record.newest, body[i].version)
                      /\ IsDeployed(record)
============================================================================
