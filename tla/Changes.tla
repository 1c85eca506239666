------------------------------ MODULE Changes ------------------------------
(***************************************************************************)
(* The changes lane (packages/community/src/changes.js): the workspace is   *)
(* read at the run's start and at the end of each turn, and what differs is *)
(* shown to the page as a diff.  One file of it, whose lines members and    *)
(* whatever they started write at any time; it may turn binary or oversized,*)
(* which the reading skips.  A resumed run writes the charter's sources     *)
(* again before it reads the workspace.  Each report is a line of           *)
(* changes.jsonl too, which the archive reads when the run is over, beside  *)
(* the charter's text against the file as it stands.                        *)
(*                                                                         *)
(* A text is its lines.  A reader of the page keeps count of the lines each *)
(* report adds and removes, which is all a diff without places tells.       *)
(***************************************************************************)
EXTENDS Integers, Sequences, FiniteSetsExt

CONSTANTS
  LineKinds, Blank,  \* what a line may read, and the empty one
  MaxLength,         \* bound: lines of a text
  LineCap,           \* DIFF_LINE_CAP
  FinalCap,          \* the same, for the charter's text against the file
  MaxReports,        \* bound: lines of changes.jsonl
  Seed,              \* what the charter has in this file
  NoFile, NotText    \* no file, and one the reading skips

ASSUME TextBounds == MaxLength \in Nat /\ LineCap \in Nat /\ FinalCap \in Nat /\ MaxReports \in Nat

VARIABLES
  onDisk,    \* the file
  last,      \* the file as the tracker last read it
  tally,     \* the reader's count of each line, or what it cannot count any more
  reported,  \* how many reports there were
  lane       \* changes.jsonl: by line, its reports, the deaths that tore it, and whether it ends

changesVars == <<onDisk, last, tally, reported, lane>>

Texts == UNION {[1..n -> LineKinds] : n \in 1..MaxLength}
AllKinds == LineKinds \cup {Blank}
IsText(content) == content \notin {NoFile, NotText}

ASSUME SeedIsText == Seed \in Texts

\* What a text comes to, line by line: an absent one splits into one empty line.
Split(content) == IF IsText(content) THEN content ELSE <<Blank>>
TimesAt(kind, places, lines) == Cardinality({i \in places : lines[i] = kind})
CountOf(content) == [kind \in AllKinds |-> TimesAt(kind, DOMAIN Split(content), Split(content))]

ChangesInit == /\ onDisk = Seed /\ last = Seed /\ tally = CountOf(Seed)
               /\ reported = 0 /\ lane = <<>>

----------------------------------------------------------------------------
(* diffLines *)

Larger(m, n) == IF m >= n THEN m ELSE n

\* A place of each text, or past its end.
Cells(a, b) == (1 .. Len(a) + 1) \X (1 .. Len(b) + 1)
Across(c) == <<c[1] + 1, c[2] + 1>>
Down(c)   == <<c[1] + 1, c[2]>>
Along(c)  == <<c[1], c[2] + 1>>
AtEnd(a, b, c) == c[1] > Len(a) \/ c[2] > Len(b)
Same(a, b, c)  == a[c[1]] = b[c[2]]

\* The table: the longest common subsequence of what is left of each.
Common(a, b) ==
  LET lcs[c \in Cells(a, b)] ==
        IF AtEnd(a, b, c) THEN 0
        ELSE IF Same(a, b, c) THEN lcs[Across(c)] + 1
        ELSE Larger(lcs[Down(c)], lcs[Along(c)])
  IN  lcs

\* A diff: which lines of the one text go, which of the other come, and which stay, by
\* their places in both.
Leftover(a, b, c) == [goes |-> c[1]..Len(a), comes |-> c[2]..Len(b), stays |-> {}]

DropsFirst(lcs, c) == lcs[Down(c)] >= lcs[Along(c)]

\* The walk: every line with its direction.
Walk(a, b) ==
  LET lcs == Common(a, b)
      walk[c \in Cells(a, b)] ==
        IF AtEnd(a, b, c) THEN Leftover(a, b, c)
        ELSE IF Same(a, b, c) THEN [walk[Across(c)] EXCEPT !.stays = @ \cup {c}]
        ELSE IF DropsFirst(lcs, c) THEN [walk[Down(c)] EXCEPT !.goes = @ \cup {c[1]}]
        ELSE [walk[Along(c)] EXCEPT !.comes = @ \cup {c[2]}]
  IN  walk[<<1, 1>>]

\* The unchanged line on either side of a change.
Kept(diff) == {c \in diff.stays : \E d \in {-1, 1} : c[1] + d \in diff.goes \/ c[2] + d \in diff.comes}

ShownDiff(before, after) == Walk(Split(before), Split(after))
IsCut(diff, cap) == Cardinality(diff.goes) + Cardinality(diff.comes) + Cardinality(Kept(diff)) > cap

----------------------------------------------------------------------------
(* What happens *)

Edited == /\ onDisk' \in Texts \cup {NoFile, NotText}
          /\ UNCHANGED <<last, tally, reported, lane>>

\* The file as a reading has it: skipped, it is not among the files.
AsRead == IF IsText(onDisk) THEN onDisk ELSE NoFile

\* The comparison is with the reading before.
Before == last

\* The reader takes in a report: added and modified carry a diff, removed only says so.
TakesIn(before, after) ==
  LET diff == ShownDiff(before, after)
      from == IF before = NoFile THEN CountOf(NoFile) ELSE tally
  IN  CASE after = NoFile -> CountOf(NoFile)
        [] after # NoFile /\ (IsCut(diff, LineCap) \/ from = NotText) -> NotText
        [] after # NoFile /\ ~IsCut(diff, LineCap) /\ from # NotText ->
             [kind \in AllKinds |-> from[kind] + TimesAt(kind, diff.comes, Split(after))
                                               - TimesAt(kind, diff.goes, Split(before))]

Whole(reports, tears) == [reports |-> reports, tears |-> tears, ends |-> TRUE]

\* appendFileSync: what is written goes on from a last line that does not end.
Appended(lines, n) ==
  IF lines # <<>> /\ ~lines[Len(lines)].ends
  THEN [lines EXCEPT ![Len(lines)] = Whole(Append(@.reports, n), @.tears)]
  ELSE Append(lines, Whole(<<n>>, 0))

\* snapshotNow, at the end of a turn, and onFileChanges; an append that fails is named.
SnapshotNow ==
  /\ last' = AsRead
  /\ IF Before = AsRead
     THEN UNCHANGED <<tally, reported, lane>>
     ELSE /\ reported < MaxReports /\ reported' = reported + 1
          /\ tally' = TakesIn(Before, AsRead)
          /\ lane' \in {lane, Appended(lane, reported + 1)}
  /\ UNCHANGED onDisk

\* The run is killed in an append.
DiesReporting == /\ lane # <<>> /\ lane[Len(lane)].ends
                 /\ lane' = [lane EXCEPT ![Len(lane)].ends = FALSE, ![Len(lane)].tears = @ + 1]
                 /\ UNCHANGED <<onDisk, last, tally, reported>>

\* The next run on the same directory: the sources are written, then read.
Reseeds == /\ onDisk' = Seed /\ last' = Seed /\ tally' = CountOf(Seed)
           /\ UNCHANGED <<reported, lane>>

\* fileChangesFrom: a line that does not parse, torn or run into the next, skips itself.
LineParses(line) == line.ends /\ Len(line.reports) = 1
FileChanges == [i \in {j \in DOMAIN lane : LineParses(lane[j])} |-> lane[i].reports[1]]

\* frozenVsFinalFrom: of a charter's text that the file no longer reads; of a file that
\* is gone it only says so.
FrozenVsFinal == ShownDiff(Seed, onDisk)

ChangesActs == Edited \/ SnapshotNow \/ DiesReporting \/ Reseeds

----------------------------------------------------------------------------
(* Properties *)

\* An account of the two texts: every line goes, comes or stays, and what stays reads the
\* same in both and keeps its order.
InStep(pairs, a, b) ==
  /\ \A c \in pairs : Same(a, b, c)
  /\ \A c, d \in pairs : c[1] < d[1] <=> c[2] < d[2]
Accounts(diff, a, b) ==
  /\ InStep(diff.stays, a, b)
  /\ diff.goes = DOMAIN a \ {c[1] : c \in diff.stays}
  /\ diff.comes = DOMAIN b \ {c[2] : c \in diff.stays}

\* Over any number of turns, what the page was told adds up to the file as it was last
\* read, until a diff is cut ("a community that writes files must show WHAT CHANGED",
\* changes.js:1-2). And no report makes more of a change than it is: it is an account of
\* the two texts, and none leaves more lines as they are. So is the archive's diff of the
\* charter's text, which adds up too.
DiffsAddUp ==
  LET IsMinimal(a, b) ==
        LET diff == Walk(a, b)
        IN  /\ Accounts(diff, a, b)
            /\ \A pairs \in SUBSET ((DOMAIN a) \X DOMAIN b) :
                 InStep(pairs, a, b) => Cardinality(pairs) <= Cardinality(diff.stays)
      final == FrozenVsFinal
  IN  /\ tally = NotText \/ tally = CountOf(last)
      /\ IsMinimal(Split(last), Split(AsRead))
      /\ IsText(onDisk) /\ ~IsCut(final, FinalCap) =>
           \A kind \in AllKinds :
             CountOf(onDisk)[kind] = CountOf(Seed)[kind] + TimesAt(kind, final.comes, Split(onDisk))
                                                         - TimesAt(kind, final.goes, Split(Seed))

\* The archive has the reports in order, each once, and no death costs it more than the
\* report it tore and the next.
ReportsReachTheArchive ==
  /\ \A i, k \in DOMAIN FileChanges : i < k => FileChanges[i] < FileChanges[k]
  /\ \A i \in DOMAIN lane :
       LET line == lane[i]
       IN  /\ Len(line.reports) <= line.tears + 1
           /\ line.tears = 0 => i \in DOMAIN FileChanges /\ FileChanges[i] = line.reports[1]
=============================================================================
