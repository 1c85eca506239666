------------------------------- MODULE LiveRun -------------------------------
(***************************************************************************)
(* What a live community run (tools/community-live.mjs) mounts around the   *)
(* engine's loop, and leaves behind: the human's seat and its page, the     *)
(* files of one directory launch after launch, the reading of a session's   *)
(* record, the changes lane, the charter's members and their sessions, what *)
(* a member is told of the forum, and what the archive says of its acts.    *)
(* None reads another's state but the page the seat's: each is explored     *)
(* alone, and the seat with its page twice.                                 *)
(***************************************************************************)
EXTENDS HumanSeat, RunArchive, RecordRead, Changes, Charter

CONSTANT Slices   \* bound: the parts, of which one acts in a behaviour

VARIABLE slice    \* the part that acts

recordVars == <<readingVars, changesVars, timelineVars>>
memberVars == <<charterVars, newsVars>>

vars == <<now, seatVars, pageVars, archiveVars, recordVars, memberVars, slice>>

Init ==
  /\ slice \in Slices
  /\ ClockInit /\ SeatInit /\ PageInit /\ ArchiveInit
  /\ ReadingInit /\ ChangesInit /\ TimelineInit /\ NewsInit
  /\ slice = "reading" \/ inquiry = CHOOSE i \in Inquiries : TRUE
  /\ IF slice = "charter" THEN CharterInit ELSE NoCharter

\* The seat by itself, as the hour goes on.
Seating == /\ slice = "seat"
           /\ SeatActs /\ UNCHANGED <<now, pageVars>>
           /\ UNCHANGED <<archiveVars, recordVars, memberVars, slice>>

\* Cards come and are withdrawn under the page, and the hour stands still.
Paging == /\ \/ slice = "cards" /\ ((Doors /\ UNCHANGED pageVars) \/ CardActs)
             \/ slice = "feed" /\ FeedActs
             \/ slice \in {"cards", "feed"} /\ Polling
          /\ UNCHANGED <<now, archiveVars, recordVars, memberVars, slice>>

Archiving == /\ slice = "runs" /\ ArchiveActs
             /\ UNCHANGED <<now, seatVars, pageVars, recordVars, memberVars, slice>>

Reading == /\ \/ slice = "reading" /\ ReadingActs /\ UNCHANGED <<changesVars, timelineVars>>
              \/ slice = "changes" /\ ChangesActs /\ UNCHANGED <<readingVars, timelineVars>>
              \/ slice = "timeline" /\ TimelineActs /\ UNCHANGED <<readingVars, changesVars>>
           /\ UNCHANGED <<now, seatVars, pageVars, archiveVars, memberVars, slice>>

Telling == /\ \/ slice = "charter" /\ SeatsMembers /\ UNCHANGED newsVars
              \/ slice = "news" /\ NewsActs /\ UNCHANGED charterVars
           /\ UNCHANGED <<now, seatVars, pageVars, archiveVars, recordVars, slice>>

TimePasses == /\ slice = "seat" /\ Tick
              /\ UNCHANGED <<seatVars, pageVars, archiveVars, recordVars, memberVars, slice>>

Next == Seating \/ Paging \/ Archiving \/ Reading \/ Telling \/ TimePasses

Spec == Init /\ [][Next]_vars

----------------------------------------------------------------------------
(* Properties *)

\* What is read of a run is what the run was, in its records, its members' acts and its
\* files: the parts of the modules.
ReadingsAreTheRecord ==
  PagesAreTheRecord /\ OutcomesAreTheirOwn /\ DiffsAddUp /\ ReportsReachTheArchive

\* What a session posts and does is its member's, and reaches the others as that: the
\* parts of the modules.
DeedsAreTheirMembers == SessionsAreTheirMembers /\ NewsIsToldOnce
=============================================================================
