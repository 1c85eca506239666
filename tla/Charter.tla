------------------------------- MODULE Charter -------------------------------
(***************************************************************************)
(* A charter's members (packages/community/src/charter.js), and whose a     *)
(* session of theirs is: each is seated under a prefix, and a run's session *)
(* is the prefix and the run's tag.  The community reads the member off the *)
(* session's id (memberOfSession); the Enforcer binds the session to a      *)
(* Member by its own rule (self-model's bindingFor), whose key countersigns *)
(* its deeds.                                                              *)
(*                                                                         *)
(* Ids and prefixes are slugs, as sequences of characters.  Names, personas,*)
(* budgets and the texts of routes and briefs are taken as well formed.     *)
(***************************************************************************)
EXTENDS Naturals, SequencesExt, FiniteSets

CONSTANTS
  Rosters,     \* bound: the members a document may declare, in order
  RunTags,     \* bound: the tags a run may have, <<>> for none
  Dash,        \* the character
  MaxMembers, MaxHumans,  \* of a charter
  Nobody       \* no member: no desk, no reader

\* A prefix is written in characters, and so is a run's tag: in hex, so without a dash.
ASSUME TagsHaveNoDash == /\ Dash \in STRING
                         /\ \A members \in Rosters : \A m \in ToSet(members) : m.prefix \in Seq(STRING)
                         /\ \A tag \in RunTags : tag \in Seq(STRING) /\ Dash \notin ToSet(tag)

VARIABLES
  declaredBy,  \* the document: [members, desk, tag]
  keyed,       \* the ids the keyring issued a key for
  seats        \* the sessions seated, by member, once the run starts

charterVars == <<declaredBy, keyed, seats>>

Member(id, prefix, kind, extra) == [id |-> id, prefix |-> prefix, kind |-> kind, extra |-> extra]

----------------------------------------------------------------------------
(* validateCharter *)

Declared == declaredBy.members
Ids == {m.id : m \in ToSet(Declared)}
OfKind(kind) == {i \in DOMAIN Declared : Declared[i].kind = kind}
Distinct(values) == \A i, k \in DOMAIN values : values[i] = values[k] => i = k

\* One prefix, one member.
MembersDiffer == /\ Distinct([i \in DOMAIN Declared |-> Declared[i].id])
                 /\ Distinct([i \in DOMAIN Declared |-> Declared[i].prefix])

\* What a member carries beside its persona: a route is no human's, a sealed brief a worker's.
CarriesWhatItMay(m) == /\ m.extra = "route" => m.kind # "human"
                       /\ m.extra = "brief" => m.kind = "worker"

DeskWorks == \/ declaredBy.desk = Nobody
             \/ \E i \in OfKind("worker") : Declared[i].id = declaredBy.desk

Validates == /\ Len(Declared) \in 1..MaxMembers
             /\ MembersDiffer
             /\ \A m \in ToSet(Declared) : CarriesWhatItMay(m)
             /\ Cardinality(OfKind("human")) <= MaxHumans
             /\ OfKind("bench") # DOMAIN Declared
             /\ DeskWorks

----------------------------------------------------------------------------
(* Whose a session is *)

SessionOf(m) == IF declaredBy.tag = <<>> THEN m.prefix ELSE m.prefix \o <<Dash>> \o declaredBy.tag

\* Of the members that match, the one of the longest prefix; Nobody when none does.
Longest(matching) ==
  IF matching = {} THEN Nobody
  ELSE (CHOOSE m \in matching : \A n \in matching : Len(n.prefix) <= Len(m.prefix)).id

\* memberOfSession: the prefix itself, or the prefix before a dash.
MemberOfSession(s) ==
  Longest({m \in ToSet(Declared) : s = m.prefix \/ IsPrefix(m.prefix \o <<Dash>>, s)})

\* bindingFor: any id the prefix begins.
BoundBy(s) == Longest({m \in ToSet(Declared) : IsPrefix(m.prefix, s)})

----------------------------------------------------------------------------
\* Bound: no document, for the behaviours where no member is seated.
NoCharter == seats = <<>> /\ keyed = {} /\ declaredBy = [members |-> <<>>, desk |-> Nobody, tag |-> <<>>]

CharterInit ==
  /\ seats = <<>>
  /\ \E members \in Rosters, tag \in RunTags :
       \E desk \in {Nobody} \cup {m.id : m \in ToSet(members)} :
         declaredBy = [members |-> members, desk |-> desk, tag |-> tag]
  /\ keyed \in {Ids, {}} \cup {{id} : id \in Ids}

\* runCommunity seats every member, over bindings of every one's key, or the run refuses.
SeatsMembers == /\ seats = <<>> /\ Validates
                /\ Ids \subseteq keyed
                /\ seats' = [id \in Ids |-> SessionOf(CHOOSE m \in ToSet(Declared) : m.id = id)]
                /\ UNCHANGED <<declaredBy, keyed>>

----------------------------------------------------------------------------
(* Properties *)

\* Another's prefix that goes on past a member's own into what the run's tag begins with.
TakesInTag(m, n) == /\ n # m /\ IsPrefix(m.prefix \o <<Dash>>, n.prefix) /\ IsPrefix(n.prefix, SessionOf(m))

\* A seated session is read as its own member's, whatever the prefixes share ("so
\* "chair-2" is never read as "chair"", charter.js:289-290), unless another's prefix is
\* that session's id; and its deeds are countersigned by that member's key, unless
\* another's prefix goes on into the tag.  No two members are seated on one session.
SessionsAreTheirMembers ==
  \A m \in {n \in ToSet(Declared) : n.id \in DOMAIN seats} :
    LET s == seats[m.id]
        others == {n \in ToSet(Declared) : TakesInTag(m, n)}
    IN  /\ MemberOfSession(s) = m.id \/ \E n \in others : n.prefix = s
        /\ BoundBy(s) = m.id \/ others # {}
        /\ \A id \in DOMAIN seats \ {m.id} : seats[id] # s \/ \E n \in others : n.prefix = s

----------------------------------------------------------------------------
(***************************************************************************)
(* What a member is told of the forum at its turn, and where each post's    *)
(* turn can be cited (packages/community/src/engine.js, with turnCitations).*)
(* Turns are taken one after the other: at its first a member is briefed,   *)
(* and at a later one told the posts past its cursor, each with the range   *)
(* of its author's record its turn took, as the chain's last place was read *)
(* before and after it.  The flush at a turn's end may fail, having chained *)
(* some of the acts.                                                       *)
(***************************************************************************)

CONSTANTS
  Tellers,      \* the members that take turns
  ReadLimit,    \* DEFAULT_READ_LIMIT
  ShowLimit,    \* the posts a framing shows: 12
  MaxPosts, MaxTurns, MaxDeeds   \* bounds: posts, turns, acts that are no post

ASSUME LimitsAreOrdered == ReadLimit \in Nat /\ ShowLimit \in 1..ReadLimit

VARIABLES
  board,        \* the posts: by whom, and where in their record
  emitted,      \* by member: the acts of its record
  chained,      \* by member: how many of them the chain holds
  readUpTo,     \* lastForumSeq, by member
  told,         \* by member: each framing's posts, the briefing's none, and how many there were
  cites,        \* citeOf, with what the reader cannot see: whether the turn's flush failed
  turnOf,       \* the turn under way, or NoTurnOf
  turnsTaken

newsVars == <<board, emitted, chained, readUpTo, told, cites, turnOf, turnsTaken>>

NoTurnOf == [seat |-> "none"]

NewsInit ==
  /\ board = <<>> /\ cites = <<>> /\ turnOf = NoTurnOf /\ turnsTaken = 0
  /\ emitted = [s \in Tellers |-> 0] /\ chained = [s \in Tellers |-> 0]
  /\ readUpTo = [s \in Tellers |-> 0] /\ told = [s \in Tellers |-> <<>>]

----------------------------------------------------------------------------
NewestOf(places, n) == {i \in places : Cardinality({j \in places : j > i}) < n}

\* forum.read, and what of it the framing shows.
NewPosts(s) == NewestOf({i \in DOMAIN board : i > readUpTo[s]}, ReadLimit)
Framing(s) == NewestOf(NewPosts(s), ShowLimit)

Briefed(s) == told[s] # <<>>

\* turnBegins, with the framing.
TurnStarts(s) ==
  /\ turnOf = NoTurnOf /\ turnsTaken < MaxTurns
  /\ told' = [told EXCEPT ![s] = Append(@, [posts |-> IF Briefed(s) THEN Framing(s) ELSE {}, asOf |-> Len(board)])]
  /\ turnOf' = [seat |-> s, from |-> chained[s], begun |-> emitted[s], posts |-> Len(board)]
  /\ turnsTaken' = turnsTaken + 1
  /\ UNCHANGED <<board, emitted, chained, readUpTo, cites>>

InTurn(s) == turnOf # NoTurnOf /\ turnOf.seat = s

DoesMore(s) == /\ InTurn(s) /\ emitted[s] - Len(SelectSeq(board, LAMBDA p : p.by = s)) < MaxDeeds
           /\ emitted' = [emitted EXCEPT ![s] = @ + 1]
           /\ UNCHANGED <<board, chained, readUpTo, told, cites, turnOf, turnsTaken>>

Posts(s) == /\ InTurn(s) /\ Len(board) < MaxPosts
            /\ emitted' = [emitted EXCEPT ![s] = @ + 1]
            /\ board' = Append(board, [by |-> s, at |-> emitted[s] + 1])
            /\ UNCHANGED <<chained, readUpTo, told, cites, turnOf, turnsTaken>>

\* A mutant: the cursor goes back to where the turn's framing left it.
AsFramed(s) == turnOf.posts

\* lastForumSeq, read when the turn is over.
CursorAfter(s) == Len(board)

\* turnEnds: the posts of the turn that are its member's.
OwnPosts(s) == {i \in DOMAIN board : i > turnOf.posts /\ board[i].by = s}

RangeStart(s) == turnOf.from + 1

\* The flush, whole or failed on the way; then the citations, and the cursor.
TurnIsOver(s) ==
  /\ InTurn(s)
  /\ \E upTo \in chained[s]..emitted[s] :
       /\ chained' = [chained EXCEPT ![s] = upTo]
       /\ cites' = [i \in DOMAIN cites \cup (IF upTo > turnOf.from THEN OwnPosts(s) ELSE {}) |->
                      IF i \in DOMAIN cites THEN cites[i]
                      ELSE [from |-> RangeStart(s), to |-> upTo, turn |-> turnOf.begun + 1,
                            behind |-> turnOf.from < turnOf.begun, failed |-> upTo < emitted[s]]]
  /\ readUpTo' = [readUpTo EXCEPT ![s] = CursorAfter(s)]
  /\ turnOf' = NoTurnOf
  /\ UNCHANGED <<board, emitted, told, turnsTaken>>

NewsActs == \E s \in Tellers : TurnStarts(s) \/ DoesMore(s) \/ Posts(s) \/ TurnIsOver(s)

----------------------------------------------------------------------------
(* Properties *)

\* What a member is told at a turn is what the others posted since the turn before, no
\* more and, but for what is older than a framing's fill, no less: none twice, none of
\* its own.  A post's citation covers the post unless the flush of its turn failed, and
\* nothing of the turns before unless one of theirs had ("where its author's turn sits in
\* their record", charter.js:239-241).
NewsIsToldOnce ==
  /\ \A s \in Tellers : \A k \in 2..Len(told[s]) :
       told[s][k].posts =
         NewestOf({i \in told[s][k - 1].asOf + 1..told[s][k].asOf : board[i].by # s}, ShowLimit)
  /\ \A i \in DOMAIN cites :
       LET c == cites[i]
       IN  /\ c.from <= board[i].at /\ (c.failed \/ board[i].at <= c.to)
           /\ c.behind \/ c.from >= c.turn
=============================================================================
