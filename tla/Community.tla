------------------------------ MODULE Community ------------------------------
(***************************************************************************)
(* A live community run (packages/community/src): the round engine that    *)
(* drives one member's turn at a time, the operator's controls it reads    *)
(* between turns, the human seat whose cards a turn waits on, and the      *)
(* forum the turns write.  A killed run is resumed by a new process on the *)
(* same ledger.                                                            *)
(*                                                                         *)
(* The engine awaits the seating, a turn or a lifted pause and nothing     *)
(* else: a press, the clock and a kill fall there.  Framing texts, the     *)
(* record's ranges, file changes and the feed are left out.  The docket is *)
(* Judicature's: filed, and then judged.                                   *)
(***************************************************************************)
EXTENDS Naturals, SequencesExt, FiniteSets

CONSTANTS
  Workers, Bench,   \* the members in charter order, as sequences
  Humans,           \* the members whose page is the model
  Charters,         \* [rounds, maxTurns, endWhenQuiet, fence]
  FenceTrips, FenceTimeouts,      \* charter.divergence
  MaxActs, MaxPosts, MaxCases,    \* bounds: acts of a turn, posts, cases
  MaxPresses, MaxKills,           \* bounds: the operator's presses, kills
  Nobody

ASSUME MembersAreDistinct == IsInjective(Workers \o Bench)

VARIABLES
  charter,
  controls,  \* createRunControls
  run,       \* where the engine is, and the run's statistics
  seats,     \* a member's turns, and the cases the bench seat was woken for
  turn,      \* the turn in flight
  court,     \* the judicature's docket: the cases filed, and those judged
  signs,     \* what the fence and the budgets read
  board,     \* the forum's posts
  ledger,    \* forum.jsonl
  presses, kills

runVars == <<charter, controls, run, seats, turn, court, signs, board, ledger, presses, kills>>

Members == ToSet(Workers \o Bench)

ASSUME MembersAreInOrder == Workers \in Seq(Members) /\ Bench \in Seq(Members)

NoTurn == [by |-> Nobody, acts |-> 0, card |-> "none", over |-> FALSE]
NoStop == [paused |-> FALSE, stopMode |-> "none"]
Fresh == [at |-> "round", k |-> 1, rows |-> {}, round |-> 0, start |-> <<>>,
          autoPaused |-> FALSE, endReason |-> "none"]

Boot == /\ controls = NoStop
        /\ run = Fresh
        /\ seats = [m \in Members |-> [turns |-> 0, wokenFor |-> {}]]
        /\ turn = NoTurn
        /\ court = [filed |-> 0, judged |-> {}]
        /\ signs = [trips |-> 0, timeouts |-> 0, overrun |-> FALSE]

RunInit == /\ charter \in Charters
           /\ Boot
           /\ board = <<>> /\ ledger = <<>>
           /\ presses = 0 /\ kills = 0

----------------------------------------------------------------------------
(***************************************************************************)
(* The community forum (packages/forum/src): one board of posts, numbered  *)
(* from 1, and the ledger a process replays at boot.  A board and a ledger *)
(* are values, of the variables board and ledger.                          *)
(*                                                                         *)
(* An append of a row fails silently or whole.  A row cut short is not in  *)
(* the ledger: at the end of the file the next boot drops it, and inside   *)
(* it the replay stops at that line, as it does at the gap the row leaves. *)
(***************************************************************************)
\* Forum.post: the next number of the board, whatever the ledger holds.
Posted(posts, member) == Append(posts, [seq |-> Len(posts) + 1, by |-> member])

\* appendLedger: a failure is logged and never the poster's.
Appended(rows, post) == {rows, Append(rows, post)}

\* A mutant: every row that can be read is replayed.
ReplayEverything(rows) == rows

\* Forum.replay: a row the board takes is the next of its own numbers.
Continues(row, place) == row.seq = place

\* loadLedger: rows are replayed while each continues the board.
Replay(rows) ==
  SubSeq(rows, 1, Max({n \in 0..Len(rows) : \A i \in 1..n : Continues(rows[i], i)}))

----------------------------------------------------------------------------
StopAsked == controls.stopMode # "none"
Ended == run.at = "ended"

\* waitWhilePaused: a stop ends the wait, whatever the pause says.
Held == controls.paused /\ ~StopAsked

----------------------------------------------------------------------------
(* The engine between turns *)

Goes(to) == run' = [run EXCEPT !.at = to]
Ends(why) == run' = [run EXCEPT !.at = "ended", !.endReason = why]
BetweenTurns == UNCHANGED <<charter, controls, turn, court, signs, board, ledger, presses, kills>>

Activity == <<Len(board), signs.timeouts, court>>

Unheard(member) == (1..court.filed) \ (court.judged \cup seats[member].wokenFor)

\* The bench hears first: its seat k is woken once for each case, in the docket's order.
BenchAt(r, k) == [r EXCEPT !.at = "bench", !.k = k,
                    !.rows = IF k \in DOMAIN Bench THEN Unheard(Bench[k]) ELSE {}]

BeginRound ==
  /\ run.at = "round" /\ ~StopAsked /\ ~Held
  /\ run' = BenchAt([run EXCEPT !.round = @ + 1, !.start = Activity], 1)
  /\ UNCHANGED seats /\ BetweenTurns

NextBench ==
  /\ run.at = "bench" /\ run.rows = {}
  /\ run' = IF run.k < Len(Bench) THEN BenchAt(run, run.k + 1)
            ELSE [run EXCEPT !.at = "worker", !.k = 1]
  /\ UNCHANGED seats /\ BetweenTurns

Wake ==
  /\ run.at = "bench"
  /\ \E case \in run.rows :
       /\ \A other \in run.rows : case <= other
       /\ seats' = [seats EXCEPT ![Bench[run.k]].wokenFor = @ \cup {case}]
       /\ run' = [run EXCEPT !.at = "benchReady", !.rows = @ \ {case}]
  /\ BetweenTurns

HasTurns(m) == seats[m].turns < charter.maxTurns

\* The budgets are checked before the pause and not again after it.
Budgets ==
  /\ run.at = "worker" /\ run.k \in DOMAIN Workers
  /\ \/ signs.overrun /\ Ends("budget")
     \/ /\ ~signs.overrun /\ ~HasTurns(Workers[run.k])
        /\ run' = [run EXCEPT !.k = @ + 1]
     \/ ~signs.overrun /\ HasTurns(Workers[run.k]) /\ Goes("workerReady")
  /\ UNCHANGED seats /\ BetweenTurns

StopRead ==
  /\ run.at \in {"round", "benchReady", "workerReady"} /\ StopAsked
  /\ Ends("operator")
  /\ UNCHANGED seats /\ BetweenTurns

\* A mutant: a round is quiet when it brought no post and no silence.
QuietRound == run.start[1] = Len(board) /\ run.start[2] = signs.timeouts

BroughtNothing == run.start = Activity

LastRound == Ends(IF StopAsked THEN "operator" ELSE "roundsComplete")

EndRound ==
  /\ run.at = "worker" /\ run.k \notin DOMAIN Workers
  /\ \/ run.round = charter.rounds /\ LastRound
     \/ /\ run.round < charter.rounds
        /\ IF charter.endWhenQuiet /\ ~StopAsked /\ BroughtNothing THEN Ends("quiet") ELSE Goes("round")
  /\ UNCHANGED seats /\ BetweenTurns

----------------------------------------------------------------------------
(* drive: one turn.  A human member's completion is a floor card. *)

Drive ==
  /\ run.at \in {"benchReady", "workerReady"} /\ ~StopAsked /\ ~Held
  /\ LET m == IF run.at = "benchReady" THEN Bench[run.k] ELSE Workers[run.k]
     IN  turn' = [NoTurn EXCEPT !.by = m, !.card = IF m \in Humans THEN "floor" ELSE "none"]
  /\ run' = [run EXCEPT !.at = IF @ = "benchReady" THEN "benchTurn" ELSE "workerTurn"]
  /\ UNCHANGED <<charter, controls, seats, court, signs, board, ledger, presses, kills>>

\* The fence's lines, crossed.
Diverged == charter.fence # "none"
              /\ (signs.trips >= FenceTrips \/ signs.timeouts >= FenceTimeouts)
Fences == Diverged /\ ~run.autoPaused /\ ~controls.paused /\ ~StopAsked

\* A mutant: the fence pauses whoever is there to resume.
FencePauses ==
  /\ controls' = [controls EXCEPT !.paused = TRUE]
  /\ run' = [run EXCEPT !.at = "worker", !.k = @ + 1, !.autoPaused = TRUE]

\* maybeAutoPause: once a run. With nobody to resume it the fence ends the run.
Fence ==
  \/ /\ charter.fence = "pause"
     /\ controls' = [controls EXCEPT !.paused = TRUE]
     /\ run' = [run EXCEPT !.at = "worker", !.k = @ + 1, !.autoPaused = TRUE]
  \/ charter.fence = "stop" /\ Ends("fence") /\ UNCHANGED controls

TurnDone ==
  /\ turn.by # Nobody /\ turn.card = "none"
  /\ turn.by \in Humans => turn.over
  /\ seats' = [seats EXCEPT ![turn.by].turns = @ + 1]
  /\ turn' = NoTurn
  /\ \/ run.at = "benchTurn" /\ Goes("bench") /\ UNCHANGED controls
     \/ run.at = "workerTurn" /\ Fences /\ Fence
     \/ /\ run.at = "workerTurn" /\ ~Fences
        /\ run' = [run EXCEPT !.at = "worker", !.k = @ + 1] /\ UNCHANGED controls
  /\ UNCHANGED <<charter, court, signs, board, ledger, presses, kills>>

Acting == turn.by # Nobody /\ ~turn.over /\ turn.acts < MaxActs
Acts(card, over) == turn' = [turn EXCEPT !.acts = @ + 1, !.card = card, !.over = over]
InTurn == UNCHANGED <<charter, controls, run, seats, presses, kills>>

Writes == /\ Len(board) < MaxPosts
          /\ board' = Posted(board, turn.by)
          /\ ledger' \in Appended(ledger, Last(board'))

\* A model member's acts: a post, a filing, a judgment, a trip of the loop guard,
\* a question or an approval card posed to the human.
ModelActs ==
  /\ Acting /\ turn.card = "none" /\ turn.by \notin Humans
  /\ \/ Acts("none", FALSE) /\ Writes /\ UNCHANGED <<court, signs>>
     \/ /\ Acts("none", FALSE) /\ court.filed < MaxCases
        /\ court' = [court EXCEPT !.filed = @ + 1] /\ UNCHANGED <<signs, board, ledger>>
     \/ /\ Acts("none", FALSE) /\ run.at = "benchTurn"
        /\ \E c \in (1..court.filed) \ court.judged :
             court' = [court EXCEPT !.judged = @ \cup {c}]
        /\ UNCHANGED <<signs, board, ledger>>
     \/ /\ Acts("none", FALSE) /\ signs.trips < FenceTrips
        /\ signs' = [signs EXCEPT !.trips = @ + 1] /\ UNCHANGED <<court, board, ledger>>
     \/ Acts("ask", FALSE) /\ UNCHANGED <<court, signs, board, ledger>>
  /\ InTurn

\* The human answers. A post or a pass that lands ends the turn, words do too;
\* keeping the floor, or a refusal of the act, poses another card.
Answered ==
  /\ turn.card # "none" /\ ~turn.over
  /\ \/ turn.card = "ask" /\ turn' = [turn EXCEPT !.card = "none"]
                          /\ UNCHANGED <<board, ledger>>
     \/ turn.card = "floor" /\ turn.acts < MaxActs /\ Acts("none", TRUE) /\ Writes
     \/ turn.card = "floor" /\ turn.acts + 1 < MaxActs /\ Acts("floor", FALSE) /\ Writes
     \/ turn.card = "floor" /\ turn.acts + 1 < MaxActs /\ Acts("floor", FALSE)
                            /\ UNCHANGED <<board, ledger>>
     \/ turn.card = "floor" /\ Acts("none", TRUE) /\ UNCHANGED <<board, ledger>>
  /\ UNCHANGED <<court, signs>> /\ InTurn

\* The card's timer: the silence is counted, and a floor turn ends without an act.
TimesOut ==
  /\ turn.card # "none"
  /\ turn' = [turn EXCEPT !.card = "none", !.over = turn.card = "floor"]
  /\ signs' = [signs EXCEPT !.timeouts = @ + 1]
  /\ UNCHANGED <<court, board, ledger>> /\ InTurn

----------------------------------------------------------------------------
(* The operator, the clock, and the process *)

Awaiting == turn.by # Nobody \/ (Held /\ run.at \in {"round", "benchReady", "workerReady"})
              \/ (run.at = "round" /\ run.round = 0)
Presses == Awaiting /\ presses < MaxPresses /\ presses' = presses + 1

\* A run whose charter's fence stops it is one nobody can pause or resume.
Pause == /\ Presses /\ charter.fence # "stop" /\ ~controls.paused
         /\ controls' = [controls EXCEPT !.paused = TRUE]
         /\ UNCHANGED <<charter, run, seats, turn, court, signs, board, ledger, kills>>

Resume == /\ Awaiting /\ controls.paused
          /\ controls' = [controls EXCEPT !.paused = FALSE]
          /\ UNCHANGED <<charter, run, seats, turn, court, signs, board, ledger, presses, kills>>

\* The page's graceful stop.
Stop == /\ Presses /\ controls.stopMode # "graceful"
        /\ controls' = [controls EXCEPT !.stopMode = "graceful"]
        /\ UNCHANGED <<charter, run, seats, turn, court, signs, board, ledger, kills>>

\* The terminal's first signal also lifts the pause. The second is StopNow, the third
\* a Kill, and SIGCONT is Resume.
Interrupted ==
  /\ Presses /\ controls.stopMode # "graceful"
  /\ controls' = [paused |-> FALSE, stopMode |-> "graceful"]
  /\ UNCHANGED <<charter, run, seats, turn, court, signs, board, ledger, kills>>

\* stopNow: the turn in flight is cancelled, and its card withdrawn, uncounted.
StopNow == /\ Presses /\ controls.stopMode # "now"
           /\ controls' = [controls EXCEPT !.stopMode = "now"]
           /\ turn' = IF turn.by = Nobody THEN turn ELSE [turn EXCEPT !.card = "none", !.over = TRUE]
           /\ UNCHANGED <<charter, run, seats, court, signs, board, ledger, kills>>

\* The wall clock passes its budget, or the tokens spent do.
Overruns == /\ Awaiting /\ ~signs.overrun
            /\ signs' = [signs EXCEPT !.overrun = TRUE]
            /\ UNCHANGED <<charter, controls, run, seats, turn, court, board, ledger, presses, kills>>

\* The process dies; another one resumes the community from the ledger. The docket
\* and the counters were the process's. (Before any post that is Init again.)
Kill == /\ Awaiting /\ kills < MaxKills /\ board # <<>>
        /\ kills' = kills + 1
        /\ controls' = NoStop /\ run' = Fresh /\ turn' = NoTurn
        /\ seats' = [m \in Members |-> [turns |-> 0, wokenFor |-> {}]]
        /\ court' = [filed |-> 0, judged |-> {}]
        /\ signs' = [trips |-> 0, timeouts |-> 0, overrun |-> FALSE]
        /\ board' = Replay(ledger)
        /\ UNCHANGED <<charter, ledger, presses>>

Engine == BeginRound \/ NextBench \/ Wake \/ Budgets \/ StopRead \/ EndRound \/ Drive
RunNext == \/ Engine \/ TurnDone \/ ModelActs \/ Answered \/ TimesOut
           \/ Pause \/ Resume \/ Stop \/ Interrupted \/ StopNow \/ Overruns \/ Kill

\* The engine's promises and its pause timer run; a member's turn comes to its end;
\* a card's timer fires. Nothing is assumed of the operator.
RunSpec == RunInit /\ [][RunNext]_runVars /\ WF_runVars(Engine) /\ WF_runVars(TurnDone) /\ WF_runVars(TimesOut)

----------------------------------------------------------------------------
(* Properties *)

\* The end says why (engine.js:650-660): a stopped run ends as the operator's, or
\* by a budget read before the stop; a run ends quiet only when the bench was woken
\* for every case still unjudged and no silence of the human is left unanswered.
EndsForItsReason ==
  /\ Ended /\ StopAsked => run.endReason \in {"operator", "budget"}
  /\ run.endReason = "quiet" =>
       /\ run.start[2] = signs.timeouts
       /\ \A m \in ToSet(Bench) : (1..court.filed) \ court.judged \subseteq seats[m].wokenFor

\* Every run ends, but for the one its Principal leaves paused; where the charter
\* says nobody can resume, it ends all the same.
EveryRunEnds == <>[](Ended \/ (Held /\ charter.fence # "stop"))

\* A board grows by posts, and a resumed one is the start of the board that was
\* posted, never an approximation of it (forum.js:78-83).
ReplayIsAPrefix == [][IsPrefix(board, board') \/ IsPrefix(board', board)]_runVars
=============================================================================
