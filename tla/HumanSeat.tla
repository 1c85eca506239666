------------------------------ MODULE HumanSeat ------------------------------
(***************************************************************************)
(* The human seat (packages/community/src/human.js, human-member.js): every *)
(* wait on the Principal is a card on the observatory's page.  A card is    *)
(* answered there, runs out, or is withdrawn, and whatever comes to it      *)
(* afterwards finds nothing pending.  The human member's own turn is a      *)
(* floor card: the page is the model, and the agent loop asks it again      *)
(* after each act.                                                          *)
(*                                                                         *)
(* What a card says is left out.  The page, which answers, follows below.   *)
(***************************************************************************)
EXTENDS Clock, FiniteSets, SequencesExt

CONSTANTS
  CardTerm,   \* how long a card waits
  Extension,  \* what one press for more time adds
  MaxCards    \* bound

ASSUME TermsAreTimes == CardTerm \in Nat /\ Extension \in Nat

VARIABLES
  cards,      \* every card posed, in order; those pending are on the page
  drafts,     \* formDrafts: forms answered, for the human's next floor card
  silences,   \* divergence.humanSeatTimeouts
  halted,     \* stopNow was pressed: the turns' signals are aborted
  floor       \* the human member's turn, as the agent loop and the adapter have it

seatVars == <<cards, drafts, silences, halted, floor>>

\* endsTurn: the act under way, or done, is to end the turn.  result: of the last act,
\* with a notice of the loop after it or not.
NoTurnYet == [step |-> "idle", endsTurn |-> FALSE, result |-> "none", noticed |-> FALSE]

SeatInit == /\ cards = <<>> /\ drafts = <<>> /\ silences = 0 /\ halted = FALSE
            /\ floor = NoTurnYet

Pending == {i \in DOMAIN cards : cards[i].state = "pending"}

Posed(kind, draft) ==
  [kind |-> kind, state |-> "pending", afterStop |-> halted,
   expiresAt |-> now + CardTerm, firesAt |-> now + CardTerm, settledAt |-> 0, draft |-> draft]

----------------------------------------------------------------------------
(* The doors *)

Pose(kind, draft) == Len(cards) < MaxCards /\ cards' = Append(cards, Posed(kind, draft))

\* An approval the seat claims.  It carries no signal: only the seat withdraws it.
ApprovalPosed == Pose("ask", 0) /\ UNCHANGED <<drafts, silences, halted, floor>>

\* A call that was cancelled before it was put is withdrawn as it is posed.
UnlessAborted(card) == IF halted THEN [card EXCEPT !.state = "withdrawn", !.settledAt = now] ELSE card

\* ask_human and decision_form, of a member the desk lets ask.
QuestionPosed ==
  /\ Len(cards) < MaxCards
  /\ \E kind \in {"question", "form"} : cards' = Append(cards, UnlessAborted(Posed(kind, 0)))
  /\ UNCHANGED <<drafts, silences, halted, floor>>

----------------------------------------------------------------------------
(* human-member.js: the page as a model *)

TurnBegins == /\ floor.step = "idle" /\ ~halted
              /\ floor' = [floor EXCEPT !.step = "asked", !.result = "none", !.noticed = FALSE]
              /\ UNCHANGED <<cards, drafts, silences, halted>>

\* The ending act's result, wherever it sits after the act.
EndingResult == floor.endsTurn /\ floor.result # "none"

\* The loop asks for a completion: a landed act ends the turn without a card.
TurnEnds ==
  /\ floor.step = "asked" /\ EndingResult /\ floor.result = "landed"
  /\ floor' = [floor EXCEPT !.step = "idle", !.endsTurn = FALSE]
  /\ UNCHANGED <<cards, drafts, silences, halted>>

\* A mutant: the oldest draft rides the card and stays.
FirstStays(queue) == queue

WithoutFirst(queue) == Tail(queue)

\* poseFloor: the oldest draft rides the card.
FloorPosed ==
  /\ floor.step = "asked" /\ ~(EndingResult /\ floor.result = "landed")
  /\ Pose("floor", IF drafts = <<>> THEN 0 ELSE Head(drafts))
  /\ drafts' = IF drafts = <<>> THEN drafts ELSE WithoutFirst(drafts)
  /\ floor' = [floor EXCEPT !.step = "waiting", !.endsTurn = @ /\ ~EndingResult]
  /\ UNCHANGED <<silences, halted>>

\* The act runs through the member's own gates: it lands or is refused.
ActReturns ==
  /\ floor.step = "acting"
  /\ \E result \in {"landed", "refused"}, noticed \in BOOLEAN :
       floor' = [floor EXCEPT !.step = "asked", !.result = result, !.noticed = noticed]
  /\ UNCHANGED <<cards, drafts, silences, halted>>

----------------------------------------------------------------------------
(* How a card ends *)

Settled(i, state) == [cards EXCEPT ![i].state = state, ![i].settledAt = now]

\* What a floor card's end makes of the turn.
FloorAfter(i, step, endsTurn) ==
  IF cards[i].kind = "floor" THEN [floor EXCEPT !.step = step, !.endsTurn = endsTurn] ELSE floor

\* The page answers; a form's answers are drafted as the human's next post.
Answer(i) ==
  /\ cards' = Settled(i, "answered")
  /\ drafts' = IF cards[i].kind = "form" THEN Append(drafts, i) ELSE drafts
  /\ \/ floor' = FloorAfter(i, "acting", TRUE)    \* a post, a pass
     \/ floor' = FloorAfter(i, "acting", FALSE)   \* a post that keeps the floor
     \/ floor' = FloorAfter(i, "idle", floor.endsTurn)
  /\ UNCHANGED <<silences, halted>>

\* seatOutcome: what the fence counts.
Silent(state) == state = "timeout"

Resolved(states) == silences' = silences + Cardinality({k \in DOMAIN states : Silent(states[k])})

RunsOut ==
  /\ \E i \in Pending :
       /\ cards[i].firesAt <= now
       /\ cards' = Settled(i, "timeout")
       /\ floor' = FloorAfter(i, "idle", floor.endsTurn)
  /\ Resolved(<<"timeout">>)
  /\ UNCHANGED <<drafts, halted>>

\* A tool call's own signal is aborted.  A turn's is, by an immediate stop.
Aborted ==
  /\ \E i \in Pending : cards[i].kind \in {"question", "form"} /\ cards' = Settled(i, "withdrawn")
  /\ Resolved(<<"withdrawn">>)
  /\ UNCHANGED <<drafts, halted, floor>>

MovedTo(card, at) == [card EXCEPT !.expiresAt = at, !.firesAt = at]

\* extendPending
Extends ==
  /\ \E i \in Pending :
       LET from == IF cards[i].expiresAt > now THEN cards[i].expiresAt ELSE now
       IN  from + Extension <= Horizon /\ cards' = [cards EXCEPT ![i] = MovedTo(@, from + Extension)]
  /\ UNCHANGED <<drafts, silences, halted, floor>>

\* controls.stopNow: the turn in flight is cancelled, and cancelPending withdraws every card.
StopsNow ==
  /\ ~halted
  /\ halted' = TRUE
  /\ cards' = [i \in DOMAIN cards |->
                 IF i \in Pending THEN [cards[i] EXCEPT !.state = "withdrawn", !.settledAt = now] ELSE cards[i]]
  /\ floor' = [floor EXCEPT !.step = "idle"]
  /\ Resolved([n \in 1..Cardinality(Pending) |-> "withdrawn"])
  /\ UNCHANGED drafts

Doors == ApprovalPosed \/ QuestionPosed \/ TurnBegins \/ TurnEnds \/ FloorPosed \/ ActReturns \/ Aborted

SeatActs == Doors \/ (\E i \in Pending : Answer(i)) \/ RunsOut \/ Extends \/ StopsNow

----------------------------------------------------------------------------
(* Properties *)

\* The fence counts the human's silences and nothing else (human.js:60-95), and a
\* silence is one the page announced: no card runs out before the hour it shows
\* (human.js:523-530).
SilencesAreTheHumans ==
  LET silent == {i \in DOMAIN cards : cards[i].state = "timeout"}
  IN  /\ silences = Cardinality(silent)
      /\ \A i \in silent : cards[i].settledAt >= cards[i].expiresAt

\* A turn waits on the human only where it must: a post that landed and was to end the
\* turn is not followed by another card (human-member.js:124-131), and no wait outlives
\* an immediate stop but an approval's asked since (human.js:543-550).
WaitsAreMeant ==
  /\ floor.step = "waiting" => ~(floor.endsTurn /\ floor.result = "landed")
  /\ halted => \A i \in Pending : cards[i].kind = "ask" /\ cards[i].afterStop

\* #308: the answers to a form are drafted for the human's voice once each, none lost
\* and none twice, however forms and floor turns follow each other.
AnswersAreDraftedOnce ==
  LET bearers == {i \in DOMAIN cards : cards[i].draft # 0}
      borne == {cards[i].draft : i \in bearers}
  IN  /\ borne \cup ToSet(drafts) = {i \in DOMAIN cards : cards[i].kind = "form" /\ cards[i].state = "answered"}
      /\ borne \cap ToSet(drafts) = {}
      /\ IsInjective(drafts)
      /\ \A i, k \in bearers : cards[i].draft = cards[k].draft => i = k

----------------------------------------------------------------------------
(***************************************************************************)
(* The run's page (packages/community/src/observatory.js, page.js).  A feed *)
(* of numbered rows is streamed to it, and a stream that drops is resumed   *)
(* after the last row seen; a poll of the whole state reconciles the forum  *)
(* pane and the human seat's cards; a press answers a card.                 *)
(*                                                                         *)
(* One page, loaded once: a reload is another page.  The network may drop a *)
(* stream, with or without the browser noticing, and answers requests in    *)
(* any order, or not at all.  What a row says is left out.                  *)
(***************************************************************************)

CONSTANTS
  HistoryCap, \* the rows the server remembers
  FreshRows,  \* what a page that has seen nothing is sent of them
  MaxFeed, MaxPolls, MaxPresses   \* bounds

ASSUME FreshRowsAreRemembered == HistoryCap \in Nat /\ FreshRows \in 0..HistoryCap

VARIABLES
  feed,       \* every row published, in order: "act", "post" or "end"
  closed,     \* the run is over, and the server with it
  stream,     \* the page's event stream, and what is on its way
  page,       \* the page
  polls,      \* answers to /state under way
  presses     \* answers to a button under way

pageVars == <<feed, closed, stream, page, polls, presses>>

NoStream == [open |-> FALSE, rows |-> <<>>]

\* lastSeq, the lines rendered, the posts shown; the cards as last rendered, those on the
\* page, and those with words typed in; the polls sent, the last
\* rendered, and the row the feed was at in what was rendered of it.
NewPage == [lastSeq |-> 0, lines |-> <<>>, finished |-> FALSE, shown |-> {},
            listed |-> {}, cards |-> {}, words |-> {}, asked |-> 0, rendered |-> 0,
            polledTo |-> 0]

PageInit == /\ feed = <<>> /\ closed = FALSE /\ stream = NoStream /\ page = NewPage
            /\ polls = {} /\ presses = {}

----------------------------------------------------------------------------
(* observatory.js: the feed *)

Forum == {i \in DOMAIN feed : feed[i] = "post"}

Publish ==
  /\ Len(feed) < MaxFeed /\ ~closed
  /\ \E kind \in {"act", "post", "end"} : feed' = Append(feed, kind)
  /\ stream' = IF stream.open THEN [stream EXCEPT !.rows = Append(@, Len(feed'))] ELSE stream
  /\ UNCHANGED <<closed, page, polls, presses>>

\* The rows no longer remembered, and those remembered after a row.
Forgotten == IF Len(feed) > HistoryCap THEN Len(feed) - HistoryCap ELSE 0
HistoryAfter(row) ==
  LET past == IF row > Forgotten THEN row ELSE Forgotten
  IN  [k \in 1 .. Len(feed) - past |-> past + k]

\* What a page is sent at once, having seen so much: a row's number is its place.
Replay(seen) == HistoryAfter(IF seen > 0 THEN seen ELSE Len(feed) - FreshRows)

\* Closed is told to every open stream, which then ends.
Closing == 0
Closes == /\ ~closed /\ closed' = TRUE
          /\ stream' = IF stream.open THEN [stream EXCEPT !.rows = Append(@, Closing)] ELSE stream
          /\ UNCHANGED <<feed, page, polls, presses>>

----------------------------------------------------------------------------
(* page.js: the stream *)

\* The page's load, the browser's own reconnection, or the watchdog's: each says what
\* was seen last, and a stream it replaces is closed first.
Connects ==
  /\ ~closed /\ ~page.finished
  /\ stream' = [open |-> TRUE, rows |-> Replay(page.lastSeq)]
  /\ UNCHANGED <<feed, closed, page, polls, presses>>

\* The stream is gone, and what was on its way.  A stream the browser takes for live
\* is here an open one that is replaced.
Drops == /\ stream.open /\ stream' = NoStream
         /\ UNCHANGED <<feed, closed, page, polls, presses>>

\* showPost: each post once, in its place.
Shown(pg, posts) == [pg EXCEPT !.shown = @ \cup posts]

\* onEvent: a row seen before is skipped; the run's end closes the stream.
Seen(row) == Shown([page EXCEPT !.lastSeq = row, !.lines = Append(@, row), !.finished = @ \/ feed[row] = "end"],
                   {row} \cap Forum)

OnEvent ==
  /\ stream.rows # <<>>
  /\ LET row == Head(stream.rows)
     IN  page' = CASE row = Closing -> [page EXCEPT !.finished = TRUE]
                   [] row # Closing /\ row <= page.lastSeq -> page
                   [] OTHER -> Seen(row)
  /\ stream' = IF page'.finished THEN NoStream ELSE [stream EXCEPT !.rows = Tail(@)]
  /\ UNCHANGED <<feed, closed, polls, presses>>

----------------------------------------------------------------------------
(* page.js: the poll and the cards *)

\* refreshState, as the server answers it.
PollAnswered ==
  /\ ~closed /\ page.asked < MaxPolls
  /\ page' = [page EXCEPT !.asked = @ + 1]
  /\ polls' = polls \cup {[number |-> page'.asked, upTo |-> Len(feed),
                             posts |-> Forum, pending |-> Pending]}
  /\ UNCHANGED <<feed, closed, stream, presses>>

\* A mutant: a rebuild starts from empty boxes.
NoWords(pending) == {}

\* What was typed in a card that is there still.
Carried(pending) == page.words \cap page.cards \cap pending

\* renderPending: nothing is touched unless what is pending changed.
Rendered(pending) ==
  IF pending = page.listed THEN page
  ELSE [page EXCEPT !.listed = pending, !.cards = pending, !.words = Carried(pending)]

PollArrives ==
  /\ \E poll \in polls :
       /\ polls' = polls \ {poll}
       /\ page' = Shown([Rendered(poll.pending) EXCEPT !.rendered = poll.number,
                                                       !.polledTo = IF poll.upTo > @ THEN poll.upTo ELSE @],
                       poll.posts)
       /\ presses' = IF poll.pending = page.listed THEN presses
                     ELSE {[press EXCEPT !.onPage = FALSE] : press \in presses}
  /\ UNCHANGED <<feed, closed, stream>>

Types ==
  /\ \E i \in page.cards : cards[i].kind # "ask" /\ page' = [page EXCEPT !.words = @ \cup {i}]
  /\ UNCHANGED <<seatVars, feed, closed, stream, polls, presses>>

\* A button of card i: the seat settles it, refuses the answer, or no longer has it.
Press(i) ==
  /\ ~closed /\ i \in page.cards /\ cards[i].kind # "ask" => i \in page.words
  /\ Cardinality(presses) < MaxPresses
  /\ \E outcome \in {"settled", "refused", "gone"} :
       /\ (outcome = "gone") <=> i \notin Pending
       /\ outcome = "refused" => cards[i].kind \in {"form", "floor"}
       /\ IF outcome = "settled" THEN Answer(i) ELSE UNCHANGED seatVars
       /\ presses' = presses \cup {[card |-> i, outcome |-> outcome, onPage |-> TRUE]}
  /\ UNCHANGED <<feed, closed, stream, page, polls>>

\* An error keeps a form or a floor card, with the reason.
Removes(press) == press.outcome = "settled" \/ cards[press.card].kind \in {"ask", "question"}

\* The button's answer; its card may have been rebuilt meanwhile.
PressReturns ==
  /\ \E press \in presses :
       /\ presses' = presses \ {press}
       /\ page' = IF press.onPage /\ Removes(press)
                  THEN [page EXCEPT !.cards = @ \ {press.card}, !.words = @ \ {press.card}] ELSE page
  /\ UNCHANGED <<feed, closed, stream, polls>>

\* The button's answer never comes: api's catch.  So may a poll's, which nothing awaits.
PressFails == /\ \E press \in presses : presses' = presses \ {press}
              /\ UNCHANGED <<feed, closed, stream, page, polls>>

FeedActs == (Publish \/ Closes \/ Connects \/ Drops \/ OnEvent) /\ UNCHANGED seatVars

CardActs == \/ (PressReturns \/ PressFails) /\ UNCHANGED seatVars
            \/ Types \/ \E i \in DOMAIN cards : Press(i)

Polling == (PollAnswered \/ PollArrives) /\ UNCHANGED seatVars

----------------------------------------------------------------------------
(* Properties *)

\* page.js:688-694: a stream that drops is caught up with: no line twice, none out of
\* order, and none missing between two but where the server had forgotten it; a post so
\* missed is shown by the next poll.
LinesAreTheFeeds ==
  /\ Forum \cap (ToSet(page.lines) \cup 1..page.polledTo) = page.shown
  /\ \A k \in 1 .. Len(page.lines) - 1 :
       LET next == page.lines[k + 1]
       IN  \/ next = page.lines[k] + 1
           \/ next > page.lines[k] /\ Len(feed) >= next + HistoryCap - 1

\* page.js:611-614: a card is never lost to a press: while the seat waits on one the
\* page was told of, it is there to be answered, whatever was refused, lost or late.
CardsComeBack == page.listed \cap Pending \subseteq page.cards

\* The human is asked what is the human's to answer, and shown what there is: the parts
\* above, and the seat's.
SeatAndPageHold ==
  SilencesAreTheHumans /\ WaitsAreMeant /\ AnswersAreDraftedOnce /\ LinesAreTheFeeds /\ CardsComeBack

\* page.js:376-380: the poll never fights the human.  Words typed into a card that
\* still waits are gone only if an older answer overtook a newer one.
WordsAreKept ==
  [][page.words \cap Pending' \subseteq page'.words \/ page'.rendered < page.rendered]_page
=============================================================================
