----------------------------- MODULE RecordRead ------------------------------
(***************************************************************************)
(* record_read (packages/record/src/read.js): a Subject pages through a    *)
(* session's record, its own, a descendant's, or the ranges a live case    *)
(* cites, while the record grows; a reader goes on from past the last act  *)
(* it was shown.                                                           *)
(*                                                                         *)
(* Whose record may be read is Judicature's and the headers' business; the *)
(* ranges arrive as they are merged, each once and by their start.  Acts   *)
(* stand at their places from 1.  A read that reaches an act the chain     *)
(* does not commit is an alarm and shows nothing.                          *)
(***************************************************************************)
EXTENDS Naturals, SequencesExt, FiniteSetsExt

CONSTANTS
  Inquiries,    \* bound: what a reader asks for: whose record, which types, how many
  ScanChunk,    \* SCAN_CHUNK
  MaxActs, MaxPages  \* bounds

ASSUME ScanChunkIsPositive == ScanChunk \in Nat \ {0}

\* A page has room for one act, and the ranges come by their start (read.js:133, 154).
ASSUME InquiriesAre ==
  \A q \in Inquiries :
    /\ q.limit \in Nat \ {0}
    /\ q.ranges \in Seq([from : Nat, to : Nat])
    /\ \A j, k \in DOMAIN q.ranges : j < k => q.ranges[j].from <= q.ranges[k].from

VARIABLES
  book,         \* the types of the acts the chain commits, in order
  loose,        \* acts appended to the log outside the chain
  inquiry,      \* what the reader asks for
  cursor,       \* from_seq, or 0
  shown         \* the pages, one after the other, each the acts in it

readingVars == <<book, loose, inquiry, cursor, shown>>

ReadingInit == /\ book = <<>> /\ loose = 0
               /\ inquiry \in Inquiries
               /\ cursor = 0 /\ shown = <<>>

End == Len(book) + loose
Reasoning == {"mind"}    \* REASONING_TYPES, of the types modelled

\* What stands in a page or before it: an act at its place, in a range; where the whole
\* record is the reader's, in the one.
Precedes(p, q) == p.range < q.range \/ (p.range = q.range /\ p.at < q.at)
FirstN(places) == {p \in places : Cardinality({q \in places : Precedes(q, p)}) < inquiry.limit}
LastN(places) == {p \in places : Cardinality({q \in places : Precedes(p, q)}) < inquiry.limit}
Standing(range, acts) == {[range |-> range, at |-> i] : i \in acts}

\* typeFilter: no types asked for is all of them; a loose act has no type here.
Matches(i) == inquiry.types = {} \/ (i <= Len(book) /\ book[i] \in inquiry.types)
From == IF cursor = 0 THEN 1 ELSE cursor

----------------------------------------------------------------------------
(* The window of each kind of read: what is read, and what of it is shown *)

\* No filter: the window itself, or the tail to the end of the log, so that an act
\* outside the chain is met. The tail is counted by what the chain commits.
TailStart == IF Len(book) <= inquiry.limit THEN 1 ELSE Len(book) - inquiry.limit + 1
ReadPlain == IF cursor = 0 THEN TailStart..End
             ELSE cursor..(IF cursor + inquiry.limit - 1 < End THEN cursor + inquiry.limit - 1 ELSE End)

\* A filter: chunk after chunk, to a short one or, from a place, to enough matches.
Chunk(k) == {i \in From..End : i < From + k * ScanChunk}
Enough(k) == cursor # 0 /\ Cardinality({i \in Chunk(k) : Matches(i)}) >= inquiry.limit
ReadScan ==
  LET last == Min({k \in 1..End + 1 : Enough(k) \/ Cardinality(Chunk(k)) < k * ScanChunk})
  IN  Chunk(last)

\* Cited: the ranges in turn, whole, until the page is full; an act two ranges cite is in
\* it twice.
RangePlaces(r) == r.from..r.to
Narrowed(r) == {i \in RangePlaces(r) : i >= From /\ Matches(i)}

\* A mutant: from_seq chooses the ranges and does not narrow inside them.
WholeRange(r) == {i \in RangePlaces(r) : RangePlaces(r) \cap From..End # {} /\ Matches(i)}

\* Inside a range, from_seq and the types narrow.
Shows(r) == Narrowed(r)

InRanges == UNION {Standing(k, Shows(inquiry.ranges[k])) : k \in DOMAIN inquiry.ranges}

\* From a place the page is the first of the matches, without one the last.
PageOf(places) == IF cursor = 0 THEN LastN(places) ELSE FirstN(places)

Page ==
  IF inquiry.whose = "cited" THEN FirstN(InRanges)
  ELSE IF inquiry.types = {} THEN PageOf(Standing(1, ReadPlain))
  ELSE PageOf(Standing(1, {i \in ReadScan : Matches(i)}))

\* The read meets an act the chain does not commit: the alarm.
Alarms == CASE inquiry.whose = "cited" -> FALSE
            [] inquiry.whose # "cited" /\ inquiry.types = {} -> Max(ReadPlain \cup {0}) > Len(book)
            [] inquiry.whose # "cited" /\ inquiry.types # {} -> Max(ReadScan \cup {0}) > Len(book)

\* renderEvent: another's reasoning is listed, its content withheld.
Legible(i) == IF inquiry.whose # "self" /\ book[i] \in Reasoning THEN "listed" ELSE "full"
ShownAct(p) == [range |-> p.range, at |-> p.at, as |-> Legible(p.at)]
LastOf(page) == CHOOSE p \in page : \A q \in page : q = p \/ Precedes(q, p)

----------------------------------------------------------------------------
(* What happens *)

\* The session acts; nothing more once the log was tampered with.
Acts == /\ Len(book) < MaxActs /\ loose = 0
        /\ \E type \in {"act", "mind"} : book' = Append(book, type)
        /\ UNCHANGED <<loose, inquiry, cursor, shown>>

\* A hand outside the record discipline appends to the log.
Tampers == /\ loose = 0 /\ Len(book) > 0
           /\ loose' = 1
           /\ UNCHANGED <<book, inquiry, cursor, shown>>

\* A case cites only what is there (verifyCitations).
Cited == \A k \in DOMAIN inquiry.ranges : inquiry.ranges[k].to <= Len(book)

ReadsPage ==
  /\ Cited /\ Len(shown) < MaxPages
  /\ LET page == IF Alarms THEN {} ELSE Page
     IN  /\ shown' = Append(shown, {ShownAct(p) : p \in page})
         /\ cursor' = IF page = {} THEN cursor ELSE LastOf(page).at + 1
  /\ UNCHANGED <<book, loose, inquiry>>

ReadingActs == Acts \/ Tampers \/ ReadsPage

----------------------------------------------------------------------------
\* All a reader is shown: an act, by the page it is in; and what it is shown before it.
Told == UNION {{[page |-> k, act |-> act] : act \in shown[k]} : k \in DOMAIN shown}
ToldBefore(s, t) == s.page < t.page \/ (s.page = t.page /\ Precedes(s.act, t.act))

Readable == {i \in 1..Len(book) :
               Matches(i) /\ (inquiry.whose = "cited" =>
                                \E k \in DOMAIN inquiry.ranges : i \in RangePlaces(inquiry.ranges[k]))}
Disjoint == \A j, k \in DOMAIN inquiry.ranges :
              j # k => RangePlaces(inquiry.ranges[j]) \cap RangePlaces(inquiry.ranges[k]) = {}

\* R-2 over many pages, while the record grows: from the first act shown to the last the
\* reader has seen each act it may read once and in order, and none it may not ("narrows
\* WITHIN the cited ranges, never past them", read.js:43-44); overlapping ranges aside.
\* Another's reasoning is among them, so that nothing is missing, and is not read (R-10).
PagesAreTheRecord ==
  Disjoint =>
    /\ \A t \in Told : t.act.at \in Readable
    /\ \A t \in Told : t.act.as = "full" => inquiry.whose = "self" \/ book[t.act.at] \notin Reasoning
    /\ \A s, t \in Told : ToldBefore(s, t) => s.act.at < t.act.at
    /\ \A s, t \in Told : \A i \in Readable :
         s.act.at <= i /\ i <= t.act.at => \E u \in Told : u.act.at = i

----------------------------------------------------------------------------
(***************************************************************************)
(* What is said of a member's acts after the run, from its session's log:   *)
(* the archive's timeline (tools/run-archive.mjs) and the report's counts   *)
(* (tools/community-report.mjs), each reading every call by the result that *)
(* carries its id (tools/act-outcome.mjs).  Calls are open side by side,    *)
(* one may be cut off with no result, its id may come again in a later      *)
(* turn, and a process killed in an append leaves a torn last row.          *)
(*                                                                         *)
(* An answer is "did", "declined" in the tool's own words, "refused" under  *)
(* a rule's tag, or "failed" with an error that names no rule.              *)
(***************************************************************************)

CONSTANTS
  CallIds,      \* bound: the ids calls come under
  MaxLog        \* bound: rows of the log

VARIABLES
  log,          \* the session's rows, in order
  ongoing       \* the ids of calls that may yet be answered

timelineVars == <<log, ongoing>>

Tools == {"forum_post", "forum_pass", "judicature_hear"}
Answers == {"did", "declined", "refused", "failed"}
Call(id, tool) == [type |-> "tool/call", id |-> id, tool |-> tool, answer |-> "none"]
Result(id, answer) == [type |-> "tool/result", id |-> id, tool |-> "none", answer |-> answer]
TornRow == [type |-> "torn", id |-> 0, tool |-> "none", answer |-> "none"]

TimelineInit == log = <<>> /\ ongoing = {}

----------------------------------------------------------------------------
(* classifyResult *)

\* By markers: what a tool says in words of its own is not read.
Outcome(answer) == CASE answer = "refused" -> "refused"
                     [] answer = "failed" -> "error"
                     [] answer \in {"did", "declined"} -> "ok"

\* What becomes of the entry; a pass that failed stays an attempt.
EntryShows(tool, answer) ==
  IF tool # "forum_pass" THEN Outcome(answer)
  ELSE CASE answer = "did" -> "pass"
         [] answer \in {"declined", "refused"} -> "pass-refused"
         [] answer = "failed" -> "attempt"

----------------------------------------------------------------------------
(* timelineFromLog *)

Without(open, id) == [k \in DOMAIN open \ {id} |-> open[k]]
With(open, id, value) == [k \in DOMAIN open \cup {id} |-> IF k = id THEN value ELSE open[k]]

\* calls.set: the last call of an id is the one its result answers.
Opened(open, id, value) == With(open, id, value)

\* An entry stands under the place of its call's row.
Archived(st, n, row) ==
  CASE row.type = "tool/call" ->
         [entries |-> With(st.entries, n, [tool |-> row.tool, shown |-> "attempt"]),
          open |-> Opened(st.open, row.id, n)]
    [] row.type = "tool/result" /\ row.id \in DOMAIN st.open ->
         LET k == st.open[row.id]
         IN  [entries |-> [st.entries EXCEPT ![k].shown = EntryShows(st.entries[k].tool, row.answer)],
              open |-> Without(st.open, row.id)]
    [] OTHER -> st

ArchiveOf(rows) ==
  LET after[n \in 0..Len(rows)] ==
        IF n = 0 THEN [entries |-> <<>>, open |-> <<>>] ELSE Archived(after[n - 1], n, rows[n])
  IN  after[Len(rows)].entries

----------------------------------------------------------------------------
(* agentStatsFromLog: counts only *)

NoCounts == [refused |-> 0, errors |-> 0, posted |-> 0, passes |-> 0, passRefused |-> 0,
             attempted |-> 0, heard |-> 0]

Bump(stats, field, when) == IF when THEN [stats EXCEPT ![field] = @ + 1] ELSE stats

\* A result counts for its call by the tool of the id, and once more for the post and the
\* pass the id was left with (postByCall, passByCall).
CountsResult(st, id, answer) ==
  LET tool == st.names[id]
      verdict == Outcome(answer)
      outcome == Bump(Bump(st.stats, "refused", verdict = "refused"), "errors", verdict = "error")
      landed == Bump(Bump(outcome, "heard", tool = "judicature_hear" /\ verdict = "ok"),
                     "posted", id \in st.posts /\ verdict = "ok")
      recorded == tool = "forum_pass" /\ answer = "did"
      notPassed == (tool = "forum_pass" /\ answer = "declined") \/ verdict = "refused"
  IN  Bump(Bump(landed, "passes", id \in st.passes /\ recorded), "passRefused", id \in st.passes /\ notPassed)

Counted(st, row) ==
  CASE row.type = "tool/call" ->
         [stats |-> Bump(st.stats, "attempted", row.tool = "judicature_hear"),
          names |-> Opened(st.names, row.id, row.tool),
          posts |-> IF row.tool = "forum_post" THEN st.posts \cup {row.id} ELSE st.posts,
          passes |-> IF row.tool = "forum_pass" THEN st.passes \cup {row.id} ELSE st.passes]
    [] row.type = "tool/result" /\ row.id \in DOMAIN st.names ->
         [stats |-> CountsResult(st, row.id, row.answer),
          names |-> Without(st.names, row.id),
          posts |-> st.posts \ {row.id}, passes |-> st.passes \ {row.id}]
    [] OTHER -> st

\* unresolved: the ids left with no result.
ReportOf(rows) ==
  LET after[n \in 0..Len(rows)] ==
        IF n = 0 THEN [stats |-> NoCounts, names |-> <<>>, posts |-> {}, passes |-> {}]
        ELSE Counted(after[n - 1], rows[n])
  IN  [stats |-> after[Len(rows)].stats, unresolved |-> Cardinality(DOMAIN after[Len(rows)].names)]

----------------------------------------------------------------------------
(* The session *)

IsTorn == log # <<>> /\ Last(log) = TornRow
Writes(row) == ~IsTorn /\ Len(log) < MaxLog /\ log' = Append(log, row)

CallsTool(id, tool) == id \notin ongoing /\ Writes(Call(id, tool)) /\ ongoing' = ongoing \cup {id}

ToolAnswers(id) == /\ id \in ongoing
                   /\ \E answer \in Answers : Writes(Result(id, answer))
                   /\ ongoing' = ongoing \ {id}

\* A turn cut off: what it had open is never answered.
CutOff == ongoing # {} /\ ~IsTorn /\ ongoing' = {} /\ UNCHANGED log

\* The process dies in an append.
DiesAppending == /\ log # <<>> /\ ~IsTorn
                 /\ log' = [log EXCEPT ![Len(log)] = TornRow] /\ ongoing' = {}

TimelineActs == \/ \E id \in CallIds : ToolAnswers(id) \/ \E tool \in Tools : CallsTool(id, tool)
                \/ CutOff \/ DiesAppending

----------------------------------------------------------------------------
(* Properties *)

Calls == {k \in DOMAIN log : log[k].type = "tool/call"}

\* The rows of a call's id after it, up to a row.
Later(k, n) == {j \in k + 1..n : log[j].type # "torn" /\ log[j].id = log[k].id}

\* What a call came to: the first row of its id after it, if that is a result.
AnswerTo(k) ==
  LET later == Later(k, Len(log))
      next == CHOOSE j \in later : Later(k, j - 1) = {}
  IN  IF later = {} \/ log[next].type # "tool/result" THEN "none" ELSE log[next].answer

\* A call of a tool was left unanswered, and its id came again for another.
Overtaken(tool) ==
  \E k, j \in Calls : /\ log[k].tool = tool /\ log[j].tool # tool
                      /\ j \in Later(k, j) /\ Later(k, j - 1) = {}

\* An act is shown by its own result, whatever else was open beside it and however often
\* its id came; one whose result never reached the log is shown as an attempt, neither
\* landed nor refused ("a call is an attempt; only its result says whether it landed",
\* act-outcome.mjs:8).  The report counts what the archive shows, and as unresolved each
\* id whose latest call has no result; a post or a pass whose id another tool's call
\* came under may be counted by that one's result.
OutcomesAreTheirOwn ==
  LET entries == ArchiveOf(log)
      report == ReportOf(log)
      Of(tool, as) == Cardinality({k \in DOMAIN entries : entries[k].tool = tool /\ entries[k].shown = as})
      IsLatest(k) == \A j \in Calls : j > k => log[j].id # log[k].id
  IN  /\ DOMAIN entries = Calls
      /\ \A k \in Calls :
           LET answer == AnswerTo(k)
               view == entries[k].shown
           IN  /\ entries[k].tool = log[k].tool
               /\ answer = "none" => view = "attempt"
               /\ answer = "did" => view = IF log[k].tool = "forum_pass" THEN "pass" ELSE "ok"
               /\ answer = "refused" => view = IF log[k].tool = "forum_pass" THEN "pass-refused" ELSE "refused"
               /\ answer = "failed" => view \notin {"ok", "pass"}
      /\ report.stats.heard = Of("judicature_hear", "ok")
      /\ report.stats.passes = Of("forum_pass", "pass")
      /\ Overtaken("forum_post") \/ report.stats.posted = Of("forum_post", "ok")
      /\ Overtaken("forum_pass") \/ report.stats.passRefused = Of("forum_pass", "pass-refused")
      /\ report.unresolved = Cardinality({k \in Calls : IsLatest(k) /\ AnswerTo(k) = "none"})
=============================================================================
