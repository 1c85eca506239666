----------------------------- MODULE Judicature -----------------------------
(***************************************************************************)
(* The judicature (packages/judicature/src): a docket of cases, each heard *)
(* by the first adjudicator set with a seat independent of the case's      *)
(* parties, appealed once to a disjoint set, and followed by remedies.     *)
(*                                                                         *)
(* Sessions file, judge and appeal; the identity of a session's Member     *)
(* comes from self-model's certificates and the member roll; grants go     *)
(* through the approval gate, referrals and relied-on precedents through   *)
(* the petition channel's collision counter.                               *)
(*                                                                         *)
(* A door's only await is the verification of the citations.  The docket   *)
(* is read after it and written before the next one, so a call is a step.  *)
(* A refused call changes no case; the event it puts on the bus is         *)
(* Petition's.  A citation is modelled by the session it cites; texts,     *)
(* slices, dissents and the clock are left out.                            *)
(***************************************************************************)
EXTENDS Sequences, FiniteSetsExt, Graphs, Collisions

CONSTANTS
  Sessions, ParentOf,         \* the durable header's parentSession, or None
  AnchorKeyOf,                \* the key of a session's last anchor, or None
  Members, MemberOf,          \* the Member a session is bound to, or None
  Lineage, CurrentKey,        \* a Member's keys on the roll, and the last one
  RevokedMembers,
  Running,                    \* the sessions certified when the docket opens
  SetIds, SetOrder,           \* judiciary.sets, in declared order
  RolesOf, StandingOf,        \* a set's roles, and the standing of each
  Keys, WitnessStandings,     \* the standings of kind key, and of kind witness
  Edges,                      \* declared edges, from the dependent to the dependency
  EnforcerKey,
  FilingSets,                 \* bound: the sets of sessions the n-th case may cite
  Filers,                     \* bound: the sessions that file
  FloodCap,                   \* FLOOD_CAP_OPEN_CASES
  Grants,                     \* bound: the grants the approval store may write
  MaxCases, MaxRemedies,      \* bounds: cases, and remedies in all
  None

\* Every declared set has its place, a role is of one set, and None is of none.
ASSUME SetsAreOrdered ==
  /\ SetOrder \in Seq(SetIds) /\ \A s \in SetIds : \E i \in DOMAIN SetOrder : SetOrder[i] = s
  /\ \A s \in SetIds : None \notin RolesOf[s]
  /\ \A s, t \in SetIds : s # t => RolesOf[s] \cap RolesOf[t] = {}

\* The roll admits no key twice, so no two Members share one.
ASSUME LineagesAreApart ==
  /\ \A m \in Members : CurrentKey[m] \in Lineage[m] /\ Lineage[m] \subseteq Keys
  /\ \A m, n \in Members : m # n => Lineage[m] \cap Lineage[n] = {}

ASSUME SessionsAreBound ==
  /\ Running \subseteq Sessions
  /\ \A s \in Sessions : /\ ParentOf[s] \in Sessions \cup {None}
                         /\ AnchorKeyOf[s] \in Keys \cup {None}
                         /\ MemberOf[s] \in Members \cup {None}

ASSUME FilingsCiteSessions ==
  MaxCases \in Nat /\ \A n \in 1..MaxCases : FilingSets[n] \subseteq SUBSET Sessions

VARIABLES
  certified,  \* sessions self-model has issued a certificate to
  docket,     \* the cases, in the order filed
  grants,     \* the approval store: what became of each grant
  counter     \* the petition channel's collision counter

vars == <<certified, docket, grants, counter>>

Roles == UNION {RolesOf[s] : s \in SetIds}
SetOf(seat) == CHOOSE s \in SetIds : seat \in RolesOf[s]

----------------------------------------------------------------------------
(* sets.js: the graph of declared dependencies, recusal, holding a seat *)

Nodes == {StandingOf[r] : r \in Roles} \cup {EnforcerKey}
           \cup {e[1] : e \in Edges} \cup {e[2] : e \in Edges}
Directed == ConnectionsIn([node |-> Nodes, edge |-> Edges])
Undirected == ConnectionsIn([node |-> Nodes, edge |-> Edges \cup {<<e[2], e[1]>> : e \in Edges}])

InConflict(a, b) == a = b \/ (a \in Nodes /\ b \in Nodes /\ Undirected[a, b])
Subordinate(a, b) == a = b \/ Directed[a, b]

\* The seats of a set whose standing no party's standing connects to.
Remaining(set, parties) ==
  {r \in RolesOf[set] : \A p \in parties : ~InConflict(StandingOf[r], p)}

IndependentSets(s, t) ==
  \A a \in RolesOf[s], b \in RolesOf[t] :
    /\ ~Subordinate(StandingOf[a], StandingOf[b])
    /\ ~Subordinate(StandingOf[b], StandingOf[a])

Bench(status, set, seats) == [status |-> status, set |-> set, seats |-> seats]
FirstOf(sets, parties) ==
  LET set == SetOrder[CHOOSE i \in DOMAIN SetOrder :
                        /\ SetOrder[i] \in sets
                        /\ \A j \in 1..(i - 1) : SetOrder[j] \notin sets]
  IN  Bench("panel", set, Remaining(set, parties))

ResolvePanel(parties) ==
  LET able == {s \in SetIds : Remaining(s, parties) # {}}
  IN  IF able = {} THEN Bench("unheard", None, {}) ELSE FirstOf(able, parties)

\* The Member a session resolves to: its certificate names the Member's key.
BoundTo(p) == IF p \in certified THEN MemberOf[p] ELSE None
Expand(key) == LET owner == {m \in Members : key \in Lineage[m]}
               IN  IF owner = {} THEN {key} ELSE UNION {Lineage[m] : m \in owner}

\* seatHolding: only a key standing can be checked; any other one passes.
Holds(p, seat) ==
  StandingOf[seat] \in Keys =>
    BoundTo(p) # None /\ CurrentKey[BoundTo(p)] \in Expand(StandingOf[seat])

\* A seat the panel resolved, and the caller's.
Sits(p, panel, seat) == seat \in panel.seats /\ Holds(p, seat)

----------------------------------------------------------------------------
(* cases.js, appeals.js *)

NoJudgment == [seat |-> None, by |-> None, rule |-> None, follows |-> {}]
Judgment(p, seat, rule, follows) ==
  [seat |-> seat, by |-> p, rule |-> rule, follows |-> follows]
NoAppeal == [filer |-> None, panel |-> Bench("none", None, {}), judgment |-> NoJudgment]

Judged(c) == c.judgment # NoJudgment
Appealed(c) == c.appeal # NoAppeal
Finally(c) == c.appeal.judgment # NoJudgment
Operative(c) == IF Finally(c) THEN c.appeal.judgment ELSE c.judgment
OperativePanel(c) == IF Finally(c) THEN c.appeal.panel ELSE c.panel

\* The cited sessions with their anchor's key and their Member's current key, and
\* the parents of the cited sessions: the keys of a parent are not looked up.
Derived(cited) ==
  cited \cup ({ParentOf[s] : s \in cited} \ {None})
        \cup ({AnchorKeyOf[s] : s \in cited} \ {None})
        \cup {CurrentKey[BoundTo(s)] : s \in {s \in cited : BoundTo(s) # None}}

\* A mutant: a key is taken as it is, without its lineage.
AsDerived(parties) == parties

\* partiesForRecusal: a key party stands for every key of its lineage.
ForRecusal(parties) == UNION {IF p \in Keys THEN Expand(p) ELSE {p} : p \in parties}

NewCase(p, cited) ==
  [filer |-> p, cited |-> cited, parties |-> Derived(cited),
   panel |-> ResolvePanel(ForRecusal(Derived(cited))),
   interim |-> FALSE, judgment |-> NoJudgment, appeal |-> NoAppeal, remedies |-> <<>>]

EnforcerClass(parties) == EnforcerKey \in parties
HasWitness(seats) == \E r \in seats : StandingOf[r] \in WitnessStandings

\* A mutant: the first set with a seat left re-hears, its own first panel included.
SameBenchAgain(c) == ResolvePanel(c.parties)

AppellatePanel(c) ==
  LET disjoint == {s \in SetIds \ {c.panel.set} : IndependentSets(c.panel.set, s)}
      able == {s \in disjoint : Remaining(s, c.parties) # {}}
      witnessed == {s \in able : HasWitness(Remaining(s, c.parties))}
  IN  CASE EnforcerClass(c.parties) /\ witnessed # {} -> FirstOf(witnessed, c.parties)
        [] EnforcerClass(c.parties) /\ witnessed = {} -> Bench("witnesses-pending", None, {})
        [] ~EnforcerClass(c.parties) /\ disjoint = {} -> Bench("unavailable", None, {})
        [] ~EnforcerClass(c.parties) /\ disjoint # {} /\ able = {} -> Bench("unheard", None, {})
        [] ~EnforcerClass(c.parties) /\ able # {} -> FirstOf(able, c.parties)

----------------------------------------------------------------------------
Init == /\ certified = Running
        /\ docket = <<>>
        /\ grants = [g \in Grants |-> "none"]
        /\ counter = NewCounter

\* A session's first attestation certifies it, its parent first.
Attest(s) == /\ certified' = certified \cup ({s, ParentOf[s]} \ {None})
             /\ UNCHANGED <<docket, grants, counter>>

OpenFiledBy(p) == {i \in DOMAIN docket : docket[i].filer = p /\ ~Judged(docket[i])}

\* judicature_hear: a filing about another's acts rides the flood cap.
Hear(p, cited) ==
  /\ p \in certified /\ BoundTo(p) \notin RevokedMembers
  /\ p \in Derived(cited) \/ Cardinality(OpenFiledBy(p)) < FloodCap
  /\ docket' = Append(docket, NewCase(p, cited))
  /\ UNCHANGED <<certified, grants, counter>>

\* judicature_interim: the filer's own, before judgment.
Interim(p, i) ==
  /\ docket[i].filer = p /\ ~Judged(docket[i])
  /\ docket' = [docket EXCEPT ![i].interim = TRUE]
  /\ UNCHANGED <<certified, grants, counter>>

Landed == {i \in DOMAIN docket : Operative(docket[i]) # NoJudgment}

\* feedPrecedentCounter: a judgment followed counts against the rules it applied.
Feed(follows) ==
  FoldSet(LAMBDA i, k : Flag(k, Operative(docket[i]).rule), counter, follows)

\* judicature_judge with no appeal open: landJudgment, then the feed.
Judge(p, i, seat) ==
  LET c == docket[i]
  IN  /\ c.panel.status = "panel" /\ ~Judged(c)
      /\ Sits(p, c.panel, seat)
      /\ \E rule \in Rules, follows \in SUBSET (Landed \ {i}) :
           /\ docket' = [docket EXCEPT ![i].judgment = Judgment(p, seat, rule, follows)]
           /\ counter' = Feed(follows)
      /\ UNCHANGED <<certified, grants>>

\* judicature_appeal: once, by a party, of a judged case.  With no disjoint set
\* declared nothing is recorded.
Appeal(p, i) ==
  LET c == docket[i]
      panel == AppellatePanel(c)
  IN  /\ Judged(c) /\ ~Appealed(c) /\ p \in c.parties
      /\ panel.status # "unavailable"
      /\ docket' = [docket EXCEPT ![i].appeal =
                      [filer |-> p, panel |-> panel, judgment |-> NoJudgment]]
      /\ UNCHANGED <<certified, grants, counter>>

\* judicature_judge with an appeal open: landAppellateJudgment, then the feed.
JudgeAppeal(p, i, seat) ==
  LET c == docket[i]
  IN  /\ Appealed(c) /\ ~Finally(c) /\ c.appeal.panel.status = "panel"
      /\ Sits(p, c.appeal.panel, seat)
      /\ \E rule \in Rules, follows \in SUBSET (Landed \ {i}) :
           /\ docket' = [docket EXCEPT ![i].appeal.judgment = Judgment(p, seat, rule, follows)]
           /\ counter' = Feed(follows)
      /\ UNCHANGED <<certified, grants>>

----------------------------------------------------------------------------
(* The bench's door to the cited record (its paging is RecordRead's) *)

\* seatHeld: a seat of the panel that the caller's key is shown to hold.
HeldByKey(p, panel) == {seat \in panel.seats : StandingOf[seat] \in Keys /\ Holds(p, seat)}

\* benchAccess: the first panel until it has judged, and an open appeal's.
ReadsAsBench(p, i) ==
  \/ ~Judged(docket[i]) /\ HeldByKey(p, docket[i].panel) # {}
  \/ Appealed(docket[i]) /\ ~Finally(docket[i]) /\ HeldByKey(p, docket[i].appeal.panel) # {}

----------------------------------------------------------------------------
(* remedies.js and judicature_remedy *)

\* An annotation, a restitution or a revocation order is its row and no more.
Remedies ==
  [kind : {"row"}, what : {None}]
    \cup [kind : {"grant", "revoke"}, what : Grants]
    \cup [kind : {"referral"}, what : Rules]

\* A judgment stands, and no seated bench is re-hearing it.
RidesAJudgment(c) ==
  /\ Operative(c) # NoJudgment
  /\ ~(Appealed(c) /\ ~Finally(c) /\ c.appeal.panel.status = "panel")

AllRemedies == FoldSet(LAMBDA i, n : n + Len(docket[i].remedies), 0, DOMAIN docket)

CanRemedy(p, c, seat) ==
  /\ RidesAJudgment(c)
  /\ Sits(p, OperativePanel(c), seat)
  /\ AllRemedies < MaxRemedies

Attach(i, seat, r) == docket' = [docket EXCEPT ![i].remedies =
                        Append(@, [kind |-> r.kind, what |-> r.what, seat |-> seat])]

WriteGrant(r) == /\ grants[r.what] = "none"
                 /\ grants' = [grants EXCEPT ![r.what] = "live"]

\* A mutant: the row of a revocation lands whether or not the store held the grant.
RevokeUnseen(r) == grants' = [grants EXCEPT ![r.what] =
                                IF @ = "live" THEN "revoked" ELSE @]

RevokeHeld(r) == /\ grants[r.what] = "live"
                 /\ grants' = [grants EXCEPT ![r.what] = "revoked"]

\* The machinery of the row's kind runs first; the row lands only on its success.
Remedy(p, i, seat) ==
  /\ CanRemedy(p, docket[i], seat)
  /\ \E r \in Remedies :
       /\ \/ r.kind = "row" /\ UNCHANGED <<grants, counter>>
          \/ r.kind = "grant" /\ WriteGrant(r) /\ UNCHANGED counter
          \/ r.kind = "revoke" /\ RevokeHeld(r) /\ UNCHANGED counter
          \/ r.kind = "referral" /\ counter' = Flag(counter, r.what) /\ UNCHANGED grants
       /\ Attach(i, seat, r)
  /\ UNCHANGED certified

\* The store's flush throws after the grant is in its memory: no row lands.
RemedyFails(p, i, seat) ==
  /\ CanRemedy(p, docket[i], seat)
  /\ \E r \in Remedies : r.kind = "grant" /\ WriteGrant(r)
  /\ UNCHANGED <<certified, docket, counter>>

----------------------------------------------------------------------------
Next ==
  \/ \E s \in Sessions : Attest(s)
  \/ \E p \in Filers : Len(docket) < MaxCases /\ \E cited \in FilingSets[Len(docket) + 1] : Hear(p, cited)
  \/ \E p \in certified, i \in DOMAIN docket :
       \/ Interim(p, i)
       \/ Appeal(p, i)
       \/ \E seat \in Roles : \/ Judge(p, i, seat)  \/ JudgeAppeal(p, i, seat)
                            \/ Remedy(p, i, seat) \/ RemedyFails(p, i, seat)

Spec == Init /\ [][Next]_vars

----------------------------------------------------------------------------
(* Properties *)

\* The docket implements the abstract life of a case: one decision, at most one
\* contest, an independent bench's last word, and remedies of the bench whose
\* word stands.
StageOf(i) ==
  IF i \notin DOMAIN docket THEN "none"
  ELSE LET c == docket[i]
       IN  CASE ~Judged(c) -> "open"
             [] Judged(c) /\ ~Appealed(c) -> "decided"
             [] Appealed(c) /\ ~Finally(c) ->
                  IF c.appeal.panel.status = "panel" THEN "contested" ELSE "held"
             [] Finally(c) -> "final"

SpokeOf(i) == IF i \in Landed THEN SetOf(Operative(docket[i]).seat) ELSE None
RemediedOf(i) == IF i \notin DOMAIN docket THEN {}
                 ELSE {SetOf(docket[i].remedies[k].seat) : k \in DOMAIN docket[i].remedies}

Disposition ==
  INSTANCE CaseDisposition WITH
    Cases <- 1..MaxCases, Benches <- SetIds, NoBench <- None, Independent <- IndependentSets,
    stage <- [i \in 1..MaxCases |-> StageOf(i)],
    spoke <- [i \in 1..MaxCases |-> SpokeOf(i)],
    remedied <- [i \in 1..MaxCases |-> RemediedOf(i)]
ImplementsDisposition == Disposition!Spec

\* J-1 at the first hearing: under a seat held by key, no Member judges, or reads for
\* the bench, a case whose parties name a key of its own lineage, however often it
\* was re-keyed.
NamedMembersRecuse ==
  \A i \in DOMAIN docket :
    LET j == docket[i].judgment
        Named(p) == MemberOf[p] # None /\ Lineage[MemberOf[p]] \cap docket[i].parties # {}
    IN  /\ j # NoJudgment /\ StandingOf[j.seat] \in Keys => ~Named(j.by)
        /\ ~Judged(docket[i]) => \A p \in certified : ReadsAsBench(p, i) => ~Named(p)

\* The rows of a kind, by case and place.
RowsOf(kind) ==
  {x \in UNION {{i} \X DOMAIN docket[i].remedies : i \in DOMAIN docket} :
     docket[x[1]].remedies[x[2]].kind = kind}

\* What a judgment relied on, and what one on appeal did: by case, each prior one followed.
Relied == UNION {{i} \X docket[i].judgment.follows : i \in DOMAIN docket}
ReliedOnAppeal == UNION {{i} \X docket[i].appeal.judgment.follows : i \in DOMAIN docket}

\* I-2 at the remedy door: every row that claims a write is one of a write that
\* happened. A granted standing was written (and revoked later at most), a revoked
\* grant is revoked, and each referral and followed precedent was counted.
ClaimedWritesHappened ==
  LET What(x) == docket[x[1]].remedies[x[2]].what
  IN  /\ \A x \in RowsOf("grant") : grants[What(x)] # "none"
      /\ \A x \in RowsOf("revoke") : grants[What(x)] = "revoked"
      /\ counter.flags = Cardinality(RowsOf("referral"))
                           + Cardinality(Relied) + Cardinality(ReliedOnAppeal)
=============================================================================
