-------------------------- MODULE JudicatureProofs --------------------------
(***************************************************************************)
(* Theorems about the judicature, for any sets, seats, standings, edges,   *)
(* Members and sessions: the docket implements the abstract life of a case *)
(* (CaseDisposition); no Member judges or reads for the bench a case whose *)
(* parties name a key of its lineage, under a seat held by key; and what a *)
(* remedy's row says was written was written.                              *)
(***************************************************************************)
EXTENDS Judicature, SequenceTheorems, FiniteSetTheorems, WellFoundedInduction, TLAPS

-----------------------------------------------------------------------------
(* Panels *)

Panels == [status : {"panel", "unheard", "unavailable", "witnesses-pending", "none"},
           set : SetIds \cup {None}, seats : SUBSET Roles]

\* A shorter interval is strictly below a longer one.
LEMMA ShorterIsBelow ==
  ASSUME NEW k \in Nat, NEW m \in Nat, k < m
  PROVE  <<1..k, 1..m>> \in StrictSubsetOrdering(Nat)
<1>1. 1..k \subseteq 1..m /\ 1..k \in SUBSET Nat /\ 1..m \in SUBSET Nat
  OBVIOUS
<1>2. m \in 1..m /\ m \notin 1..k
  OBVIOUS
<1>3. 1..k # 1..m
  BY <1>2
<1> HIDE <1>2
<1> QED BY <1>1, <1>3 DEF StrictSubsetOrdering

\* Every nonempty set of numbers has a least one.
LEMMA LeastExists ==
  ASSUME NEW n \in Nat, NEW S \in SUBSET (1..n), S # {}
  PROVE  \E i \in S : \A j \in S : i <= j
<1> DEFINE Below == { 1..k : k \in S }
<1>1. Below \subseteq FiniteSubsetsOf(Nat) /\ Below # {}
  <2>1. \A k \in S : 1..k \in SUBSET Nat /\ IsFiniteSet(1..k)
    BY FS_Interval
  <2> QED BY <2>1 DEF FiniteSubsetsOf
<1>2. PICK X \in Below : \A Y \in Below : ~(<<Y, X>> \in StrictSubsetOrdering(Nat))
  <2> HIDE DEF Below
  <2> QED BY <1>1, FS_StrictSubsetOrderingWellFounded, WFMin
<1>3. PICK m \in S : X = 1..m
  BY <1>2
<1> SUFFICES ASSUME NEW k \in S, k < m
             PROVE  FALSE
  OBVIOUS
<1>4. 1..k \in Below /\ k \in Nat /\ m \in Nat
  OBVIOUS
<1>5. <<1..k, 1..m>> \in StrictSubsetOrdering(Nat)
  BY <1>4, ShorterIsBelow
<1> HIDE DEF Below
<1> QED BY <1>2, <1>3, <1>4, <1>5

LEMMA RolesOfASet ==
  ASSUME NEW s \in SetIds
  PROVE  RolesOf[s] \subseteq Roles /\ \A r \in RolesOf[s] : SetOf(r) = s /\ r # None
<1>1. RolesOf[s] \subseteq Roles
  BY DEF Roles
<1>2. ASSUME NEW r \in RolesOf[s]
      PROVE  SetOf(r) = s
  <2>1. \A t \in SetIds : r \in RolesOf[t] => t = s
    BY SetsAreOrdered
  <2> QED BY <2>1 DEF SetOf
<1> QED BY <1>1, <1>2, SetsAreOrdered

\* FirstOf seats a bench of one of the sets it is given.
LEMMA FirstSeats ==
  ASSUME NEW sets \in SUBSET SetIds, sets # {}, NEW parties
  PROVE  \E s \in sets : FirstOf(sets, parties) = Bench("panel", s, Remaining(s, parties))
<1> DEFINE places == {i \in DOMAIN SetOrder : SetOrder[i] \in sets}
<1>1. DOMAIN SetOrder = 1..Len(SetOrder) /\ Len(SetOrder) \in Nat
  BY SetsAreOrdered
<1>2. places # {} /\ places \in SUBSET (1..Len(SetOrder))
  BY <1>1, SetsAreOrdered
<1>3. PICK i \in places : \A j \in places : i <= j
  <2> HIDE DEF places
  <2> QED BY <1>1, <1>2, LeastExists
<1>4. /\ i \in DOMAIN SetOrder /\ SetOrder[i] \in sets
      /\ \A j \in 1..(i - 1) : SetOrder[j] \notin sets
  BY <1>1, <1>3
<1> DEFINE chosen == CHOOSE k \in DOMAIN SetOrder :
                       /\ SetOrder[k] \in sets
                       /\ \A j \in 1..(k - 1) : SetOrder[j] \notin sets
<1>5. SetOrder[chosen] \in sets
  BY <1>4
<1>6. FirstOf(sets, parties) = Bench("panel", SetOrder[chosen], Remaining(SetOrder[chosen], parties))
  BY DEF FirstOf
<1> HIDE DEF chosen
<1> QED BY <1>5, <1>6

LEMMA BenchShape ==
  ASSUME NEW status, NEW set, NEW seats
  PROVE  LET b == Bench(status, set, seats)
         IN  b.status = status /\ b.set = set /\ b.seats = seats
BY DEF Bench

\* The first panel is of a set with a seat left, or the case goes unheard.
LEMMA PanelResolves ==
  ASSUME NEW parties
  PROVE  LET b == ResolvePanel(parties)
         IN  /\ b \in Panels
             /\ b.status = "panel" => b.set \in SetIds /\ b.seats = Remaining(b.set, parties)
             /\ b.status # "panel" => b.seats = {}
<1> DEFINE able == {s \in SetIds : Remaining(s, parties) # {}}
<1>1. CASE able = {}
  BY <1>1 DEF ResolvePanel, Bench, Panels
<1>2. CASE able # {}
  <2>1. ResolvePanel(parties) = FirstOf(able, parties)
    BY <1>2 DEF ResolvePanel
  <2>2. PICK s \in able : FirstOf(able, parties) = Bench("panel", s, Remaining(s, parties))
    BY <1>2, FirstSeats
  <2>3. s \in SetIds /\ Remaining(s, parties) \subseteq Roles
    BY <2>2, RolesOfASet DEF Remaining
  <2> QED BY <2>1, <2>2, <2>3 DEF Bench, Panels
<1> QED BY <1>1, <1>2

\* A panel on appeal is of another set, independent of the first, or of none.
LEMMA AppellateResolves ==
  ASSUME NEW c, c.panel.set \in SetIds
  PROVE  LET b == AppellatePanel(c)
         IN  /\ b \in Panels /\ b.status # "none"
             /\ b.status = "panel" => /\ b.set \in SetIds /\ b.seats = Remaining(b.set, c.parties)
                                      /\ IndependentSets(c.panel.set, b.set)
             /\ b.status # "panel" => b.seats = {}
<1> DEFINE disjoint == {s \in SetIds \ {c.panel.set} : IndependentSets(c.panel.set, s)}
           able == {s \in disjoint : Remaining(s, c.parties) # {}}
           witnessed == {s \in able : HasWitness(Remaining(s, c.parties))}
<1>1. witnessed \subseteq able /\ able \subseteq disjoint /\ disjoint \subseteq SetIds
  OBVIOUS
<1>2. ASSUME NEW sets \in SUBSET disjoint, sets # {}
      PROVE  LET b == FirstOf(sets, c.parties)
             IN  /\ b \in Panels /\ b.status = "panel" /\ b.set \in SetIds
                 /\ b.seats = Remaining(b.set, c.parties) /\ IndependentSets(c.panel.set, b.set)
  <2>1. PICK s \in sets : FirstOf(sets, c.parties) = Bench("panel", s, Remaining(s, c.parties))
    BY <1>2, FirstSeats
  <2>2. s \in SetIds /\ IndependentSets(c.panel.set, s) /\ Remaining(s, c.parties) \subseteq Roles
    BY <2>1, RolesOfASet DEF Remaining
  <2> QED BY <2>1, <2>2 DEF Bench, Panels
<1>3. \A status \in {"unheard", "unavailable", "witnesses-pending"} :
        /\ Bench(status, None, {}) \in Panels
        /\ Bench(status, None, {}).status = status /\ Bench(status, None, {}).seats = {}
  BY DEF Bench, Panels
<1>4. AppellatePanel(c) =
        CASE EnforcerClass(c.parties) /\ witnessed # {} -> FirstOf(witnessed, c.parties)
          [] EnforcerClass(c.parties) /\ witnessed = {} -> Bench("witnesses-pending", None, {})
          [] ~EnforcerClass(c.parties) /\ disjoint = {} -> Bench("unavailable", None, {})
          [] ~EnforcerClass(c.parties) /\ disjoint # {} /\ able = {} -> Bench("unheard", None, {})
          [] ~EnforcerClass(c.parties) /\ able # {} -> FirstOf(able, c.parties)
  BY DEF AppellatePanel
<1> HIDE DEF disjoint, able, witnessed
<1>5. \/ witnessed # {} /\ AppellatePanel(c) = FirstOf(witnessed, c.parties)
      \/ able # {} /\ AppellatePanel(c) = FirstOf(able, c.parties)
      \/ \E status \in {"unheard", "unavailable", "witnesses-pending"} :
           AppellatePanel(c) = Bench(status, None, {})
  <2>1. CASE EnforcerClass(c.parties)
    BY <1>4, <2>1
  <2>2. CASE ~EnforcerClass(c.parties)
    BY <1>1, <1>4, <2>2
  <2> QED BY <2>1, <2>2
<1>6. witnessed \in SUBSET disjoint /\ able \in SUBSET disjoint
  BY <1>1
<1> QED BY <1>2, <1>3, <1>5, <1>6

-----------------------------------------------------------------------------
(* The inductive invariant: what a case is and how it came to it *)

Judgments == [seat : Roles \cup {None}, by : Sessions \cup {None},
              rule : Rules \cup {None}, follows : SUBSET Nat]
Appeals == [filer : Sessions \cup {None}, panel : Panels, judgment : Judgments]
Rows == [kind : {"row", "grant", "revoke", "referral"},
         what : Grants \cup Rules \cup {None}, seat : Roles]
CaseRecords == [filer : Sessions, cited : SUBSET Sessions, parties : SUBSET (Sessions \cup Keys),
                panel : Panels, interim : BOOLEAN, judgment : Judgments, appeal : Appeals,
                remedies : Seq(Rows)]

JudicatureTypeOK == /\ certified \subseteq Sessions
                    /\ docket \in Seq(CaseRecords) /\ Len(docket) <= MaxCases

\* Who held a seat when it judged: the Member of a key standing, under its current key.
Held(p, seat) ==
  StandingOf[seat] \in Keys => /\ MemberOf[p] \in Members
                               /\ CurrentKey[MemberOf[p]] \in Expand(StandingOf[seat])

\* The seats of a panel are those of its set that no party's standing connects to.
SeatedWell(b, parties) ==
  /\ b.status = "panel" => b.set \in SetIds /\ b.seats = Remaining(b.set, parties)
  /\ b.status # "panel" => b.seats = {}

CaseInv(c) ==
  /\ SeatedWell(c.panel, ForRecusal(c.parties))
  /\ Judged(c) => /\ c.panel.status = "panel"
                  /\ c.judgment.seat \in c.panel.seats
                  /\ Held(c.judgment.by, c.judgment.seat)
  /\ Appealed(c) => /\ Judged(c)
                    /\ SeatedWell(c.appeal.panel, c.parties)
                    /\ c.appeal.panel.status = "panel" =>
                         IndependentSets(c.panel.set, c.appeal.panel.set)
  /\ Finally(c) => /\ Appealed(c)
                   /\ c.appeal.panel.status = "panel"
                   /\ c.appeal.judgment.seat \in c.appeal.panel.seats

JudicatureInv == JudicatureTypeOK /\ \A i \in DOMAIN docket : CaseInv(docket[i])

LEMMA Unspoken == NoJudgment \in Judgments /\ NoAppeal \in Appeals
BY DEF NoJudgment, Judgments, NoAppeal, Appeals, Bench, Panels

\* A judgment from a seat is one.
LEMMA SpokenIsSpoken ==
  ASSUME NEW p \in Sessions, NEW seat \in Roles, NEW rule \in Rules, NEW follows \in SUBSET Nat
  PROVE  LET j == Judgment(p, seat, rule, follows)
         IN  j \in Judgments /\ j # NoJudgment /\ j.seat = seat /\ j.by = p
<1>1. seat # None
  BY RolesOfASet DEF Roles
<1> QED BY <1>1 DEF Judgment, Judgments, NoJudgment

LEMMA AppealIsAnAppeal ==
  ASSUME NEW p \in Sessions, NEW panel \in Panels, panel.status # "none"
  PROVE  LET a == [filer |-> p, panel |-> panel, judgment |-> NoJudgment]
         IN  a \in Appeals /\ a # NoAppeal /\ a.panel = panel /\ a.judgment = NoJudgment
<1>1. NoAppeal.panel.status = "none"
  BY DEF NoAppeal, Bench
<1> QED BY <1>1, Unspoken DEF Appeals

LEMMA Bound ==
  ASSUME JudicatureTypeOK, NEW p \in Sessions
  PROVE  /\ BoundTo(p) \in Members \cup {None}
         /\ BoundTo(p) # None => BoundTo(p) = MemberOf[p] /\ MemberOf[p] \in Members
BY SessionsAreBound DEF BoundTo

LEMMA HoldsIsHeld ==
  ASSUME JudicatureTypeOK, NEW p \in Sessions, NEW seat, Holds(p, seat)
  PROVE  Held(p, seat)
BY Bound DEF Holds, Held

LEMMA DerivedParties ==
  ASSUME JudicatureTypeOK, NEW cited \in SUBSET Sessions
  PROVE  Derived(cited) \subseteq Sessions \cup Keys
<1>1. {ParentOf[s] : s \in cited} \ {None} \subseteq Sessions
  BY SessionsAreBound
<1>2. {AnchorKeyOf[s] : s \in cited} \ {None} \subseteq Keys
  BY SessionsAreBound
<1>3. {CurrentKey[BoundTo(s)] : s \in {s \in cited : BoundTo(s) # None}} \subseteq Keys
  <2>1. \A s \in cited : BoundTo(s) # None => BoundTo(s) \in Members
    BY Bound
  <2> QED BY <2>1, LineagesAreApart
<1> QED BY <1>1, <1>2, <1>3 DEF Derived

-----------------------------------------------------------------------------
(* One case is put down, or moves *)

LEMMA CaseAdded ==
  ASSUME JudicatureTypeOK, NEW c \in CaseRecords, docket' = Append(docket, c)
  PROVE  LET n == Len(docket) + 1
         IN  /\ docket' \in Seq(CaseRecords) /\ Len(docket') = n
             /\ n \in Nat /\ DOMAIN docket = 1..(n - 1) /\ DOMAIN docket' = 1..n
             /\ docket'[n] = c /\ \A j \in DOMAIN docket : docket'[j] = docket[j]
BY AppendProperties DEF JudicatureTypeOK

LEMMA CaseMoved ==
  ASSUME JudicatureTypeOK, NEW i \in DOMAIN docket, NEW c \in CaseRecords,
         docket' = [docket EXCEPT ![i] = c]
  PROVE  /\ docket' \in Seq(CaseRecords) /\ Len(docket') = Len(docket)
         /\ DOMAIN docket' = DOMAIN docket
         /\ docket'[i] = c /\ \A j \in DOMAIN docket : j # i => docket'[j] = docket[j]
<1> DEFINE after == [docket EXCEPT ![i] = c]
<1>1. docket \in Seq(CaseRecords) /\ DOMAIN docket = 1..Len(docket) /\ i \in 1..Len(docket)
  BY DEF JudicatureTypeOK
<1>2. /\ after \in Seq(CaseRecords) /\ Len(after) = Len(docket)
      /\ \A j \in 1..Len(docket) : after[j] = IF j = i THEN c ELSE docket[j]
  BY <1>1, ExceptSeq
<1>3. docket' = after
  OBVIOUS
<1> HIDE DEF after
<1>4. DOMAIN after = 1..Len(after)
  BY <1>2
<1> QED BY <1>1, <1>2, <1>3, <1>4

LEMMA MovedKeeps ==
  ASSUME JudicatureInv, certified' = certified, NEW i \in DOMAIN docket,
         NEW c \in CaseRecords, CaseInv(c), docket' = [docket EXCEPT ![i] = c]
  PROVE  JudicatureInv'
<1>1. JudicatureTypeOK'
  BY CaseMoved DEF JudicatureInv, JudicatureTypeOK
<1>2. \A j \in DOMAIN docket' : CaseInv(docket'[j])
  BY CaseMoved DEF JudicatureInv
<1>3. (\A j \in DOMAIN docket : CaseInv(docket[j]))'
  BY <1>2
<1> QED BY <1>1, <1>3 DEF JudicatureInv

-----------------------------------------------------------------------------
(* Each action keeps it *)

LEMMA CaseAt ==
  ASSUME JudicatureInv, NEW i \in DOMAIN docket
  PROVE  docket[i] \in CaseRecords /\ CaseInv(docket[i]) /\ i \in 1..MaxCases
BY FilingsCiteSessions DEF JudicatureInv, JudicatureTypeOK

\* What a case with one part anew has of that part, and keeps of the others.
LEMMA InterimCase ==
  ASSUME NEW c \in CaseRecords, CaseInv(c)
  PROVE  LET d == [c EXCEPT !.interim = TRUE]
         IN  /\ d \in CaseRecords /\ CaseInv(d)
             /\ d.judgment = c.judgment /\ d.appeal = c.appeal /\ d.remedies = c.remedies
             /\ d.panel = c.panel
<1> DEFINE d == [c EXCEPT !.interim = TRUE]
<1>1. d \in CaseRecords
  BY DEF CaseRecords
<1>2. d.judgment = c.judgment /\ d.appeal = c.appeal /\ d.remedies = c.remedies
      /\ d.panel = c.panel /\ d.parties = c.parties
  BY DEF CaseRecords
<1> HIDE DEF d
<1>3. CaseInv(d)
  BY <1>2 DEF CaseInv, Judged, Appealed, Finally
<1> QED BY <1>1, <1>2, <1>3 DEF d

LEMMA JudgedCase ==
  ASSUME JudicatureTypeOK, NEW c \in CaseRecords, CaseInv(c), ~Judged(c), NEW p \in Sessions, NEW seat \in Roles,
         c.panel.status = "panel", Sits(p, c.panel, seat),
         NEW rule \in Rules, NEW follows \in SUBSET Nat
  PROVE  LET d == [c EXCEPT !.judgment = Judgment(p, seat, rule, follows)]
         IN  /\ d \in CaseRecords /\ CaseInv(d)
             /\ d.judgment = Judgment(p, seat, rule, follows)
             /\ d.appeal = c.appeal /\ d.remedies = c.remedies /\ d.panel = c.panel
<1> DEFINE j == Judgment(p, seat, rule, follows)
           d == [c EXCEPT !.judgment = j]
<1>1. j \in Judgments /\ j # NoJudgment /\ j.seat = seat /\ j.by = p
  BY SpokenIsSpoken
<1> HIDE DEF j
<1>2. d \in CaseRecords
  BY <1>1 DEF CaseRecords
<1>3. d.judgment = j /\ d.appeal = c.appeal /\ d.remedies = c.remedies
      /\ d.panel = c.panel /\ d.parties = c.parties
  BY DEF CaseRecords
<1> HIDE DEF d
<1>4. seat \in c.panel.seats /\ Held(p, seat)
  BY HoldsIsHeld DEF Sits
<1>5. ~Appealed(c) /\ ~Finally(c)
  BY DEF CaseInv
<1>6. CaseInv(d)
  BY <1>1, <1>3, <1>4, <1>5 DEF CaseInv, Judged, Appealed, Finally
<1> QED BY <1>2, <1>3, <1>6 DEF d, j

LEMMA AppealedCase ==
  ASSUME NEW c \in CaseRecords, CaseInv(c), Judged(c), ~Appealed(c), NEW p \in Sessions,
         NEW panel, panel = AppellatePanel(c)
  PROVE  LET a == [filer |-> p, panel |-> panel, judgment |-> NoJudgment]
             d == [c EXCEPT !.appeal = a]
         IN  /\ d \in CaseRecords /\ CaseInv(d)
             /\ d.appeal = a /\ a # NoAppeal
             /\ d.judgment = c.judgment /\ d.remedies = c.remedies /\ d.panel = c.panel
<1> DEFINE a == [filer |-> p, panel |-> panel, judgment |-> NoJudgment]
           d == [c EXCEPT !.appeal = a]
<1>1. c.panel.set \in SetIds
  BY DEF CaseInv, SeatedWell
<1>2. /\ panel \in Panels /\ panel.status # "none" /\ SeatedWell(panel, c.parties)
      /\ panel.status = "panel" => IndependentSets(c.panel.set, panel.set)
  BY <1>1, AppellateResolves DEF SeatedWell
<1>3. a \in Appeals /\ a # NoAppeal /\ a.panel = panel /\ a.judgment = NoJudgment
  BY <1>2, AppealIsAnAppeal
<1> HIDE DEF a
<1>4. d \in CaseRecords
  BY <1>3 DEF CaseRecords
<1>5. d.judgment = c.judgment /\ d.appeal = a /\ d.remedies = c.remedies
      /\ d.panel = c.panel /\ d.parties = c.parties
  BY DEF CaseRecords
<1> HIDE DEF d
<1>6. CaseInv(d)
  BY <1>2, <1>3, <1>5 DEF CaseInv, Judged, Appealed, Finally
<1> QED BY <1>3, <1>4, <1>5, <1>6 DEF d, a

LEMMA FinalCase ==
  ASSUME NEW c \in CaseRecords, CaseInv(c), Appealed(c), NEW p \in Sessions, NEW seat \in Roles,
         c.appeal.panel.status = "panel", Sits(p, c.appeal.panel, seat),
         NEW rule \in Rules, NEW follows \in SUBSET Nat
  PROVE  LET j == Judgment(p, seat, rule, follows)
             d == [c EXCEPT !.appeal.judgment = j]
         IN  /\ d \in CaseRecords /\ CaseInv(d)
             /\ d.judgment = c.judgment /\ d.remedies = c.remedies /\ d.panel = c.panel
             /\ d.appeal.judgment = j /\ d.appeal.panel = c.appeal.panel /\ d.appeal # NoAppeal
<1> DEFINE j == Judgment(p, seat, rule, follows)
           a == [c.appeal EXCEPT !.judgment = j]
           d == [c EXCEPT !.appeal = a]
<1>1. j \in Judgments /\ j # NoJudgment /\ j.seat = seat
  BY SpokenIsSpoken
<1> HIDE DEF j
<1>2. c.appeal \in Appeals
  BY DEF CaseRecords
<1>3. a \in Appeals /\ a.judgment = j /\ a.panel = c.appeal.panel
  BY <1>1, <1>2 DEF Appeals
<1>4. a # NoAppeal
  BY <1>1, <1>3 DEF NoAppeal
<1>5. [c EXCEPT !.appeal.judgment = j] = d
  OBVIOUS
<1> HIDE DEF a
<1>6. d \in CaseRecords
  BY <1>3 DEF CaseRecords
<1>7. d.judgment = c.judgment /\ d.appeal = a /\ d.remedies = c.remedies
      /\ d.panel = c.panel /\ d.parties = c.parties
  BY DEF CaseRecords
<1> HIDE DEF d
<1>8. seat \in c.appeal.panel.seats
  BY DEF Sits
<1>9. CaseInv(d)
  BY <1>1, <1>3, <1>4, <1>7, <1>8 DEF CaseInv, Judged, Appealed, Finally
<1> QED BY <1>3, <1>4, <1>5, <1>6, <1>7, <1>9 DEF j

LEMMA RemediedCase ==
  ASSUME NEW c \in CaseRecords, CaseInv(c), NEW row \in Rows
  PROVE  LET d == [c EXCEPT !.remedies = Append(@, row)]
         IN  /\ d \in CaseRecords /\ CaseInv(d)
             /\ d.judgment = c.judgment /\ d.appeal = c.appeal /\ d.panel = c.panel
             /\ d.remedies = Append(c.remedies, row)
<1> DEFINE d == [c EXCEPT !.remedies = Append(@, row)]
<1>1. c.remedies \in Seq(Rows)
  BY DEF CaseRecords
<1>2. Append(c.remedies, row) \in Seq(Rows)
  BY <1>1, AppendProperties
<1>3. d \in CaseRecords
  BY <1>2 DEF CaseRecords
<1>4. d.judgment = c.judgment /\ d.appeal = c.appeal /\ d.remedies = Append(c.remedies, row)
      /\ d.panel = c.panel /\ d.parties = c.parties
  BY DEF CaseRecords
<1> HIDE DEF d
<1>5. CaseInv(d)
  BY <1>4 DEF CaseInv, Judged, Appealed, Finally
<1> QED BY <1>3, <1>4, <1>5 DEF d

LEMMA FiledCase ==
  ASSUME JudicatureTypeOK, NEW p \in Sessions, NEW cited \in SUBSET Sessions
  PROVE  LET c == NewCase(p, cited)
         IN  /\ c \in CaseRecords /\ CaseInv(c)
             /\ c.judgment = NoJudgment /\ c.appeal = NoAppeal /\ c.remedies = <<>>
<1> DEFINE c == NewCase(p, cited)
<1>1. /\ c.panel = ResolvePanel(ForRecusal(Derived(cited))) /\ c.parties = Derived(cited)
      /\ c.judgment = NoJudgment /\ c.appeal = NoAppeal /\ c.remedies = <<>>
  BY DEF NewCase
<1>2. c.panel \in Panels /\ SeatedWell(c.panel, ForRecusal(c.parties))
  BY <1>1, PanelResolves DEF SeatedWell
<1>3. c \in CaseRecords
  <2>1. Derived(cited) \in SUBSET (Sessions \cup Keys) /\ <<>> \in Seq(Rows)
    BY DerivedParties
  <2>2. ResolvePanel(ForRecusal(Derived(cited))) \in Panels
    BY PanelResolves
  <2> QED BY <2>1, <2>2, Unspoken DEF NewCase, CaseRecords
<1> HIDE DEF c
<1>4. CaseInv(c)
  <2>1. c.appeal.judgment = NoJudgment
    BY <1>1 DEF NoAppeal
  <2> QED BY <1>1, <1>2, <2>1 DEF CaseInv, Judged, Appealed, Finally
<1> QED BY <1>1, <1>3, <1>4 DEF c

-----------------------------------------------------------------------------
(* What a step does to the case it moves *)

Keeps(c, d) == d.judgment = c.judgment /\ d.panel = c.panel

Idles(c, d) == Keeps(c, d) /\ d.appeal = c.appeal /\ d.remedies = c.remedies

Decides(c, d) == /\ ~Judged(c) /\ Judged(d)
                 /\ d.panel = c.panel /\ d.appeal = c.appeal /\ d.remedies = c.remedies

Contests(c, d) == /\ Judged(c) /\ ~Appealed(c) /\ Appealed(d) /\ ~Finally(d)
                  /\ Keeps(c, d) /\ d.remedies = c.remedies

Rehears(c, d) == /\ Appealed(c) /\ ~Finally(c) /\ c.appeal.panel.status = "panel"
                 /\ Appealed(d) /\ Finally(d)
                 /\ Keeps(c, d) /\ d.remedies = c.remedies /\ d.appeal.panel = c.appeal.panel

Repairs(c, d) == /\ RidesAJudgment(c) /\ Keeps(c, d) /\ d.appeal = c.appeal
                 /\ \E row \in Rows : /\ row.seat \in OperativePanel(c).seats
                                      /\ d.remedies = Append(c.remedies, row)

Moves(c, d) == Idles(c, d) \/ Decides(c, d) \/ Contests(c, d) \/ Rehears(c, d) \/ Repairs(c, d)

\* What every call about a case has in common.
CaseStep(i, d) == /\ docket' = [docket EXCEPT ![i] = d]
                  /\ certified' = certified
                  /\ CaseInv(d) /\ Moves(docket[i], d)

LEMMA InterimMoves ==
  ASSUME JudicatureInv, NEW p \in Sessions, NEW i \in DOMAIN docket, Interim(p, i)
  PROVE  \E d \in CaseRecords : CaseStep(i, d)
<1> DEFINE d == [docket[i] EXCEPT !.interim = TRUE]
<1>1. docket' = [docket EXCEPT ![i] = d] /\ certified' = certified
  BY DEF Interim
<1>2. d \in CaseRecords /\ CaseInv(d) /\ Idles(docket[i], d)
  BY CaseAt, InterimCase DEF Idles, Keeps
<1> HIDE DEF d
<1> QED BY <1>1, <1>2 DEF CaseStep, Moves

LEMMA LandedAreNumbers ==
  ASSUME JudicatureInv
  PROVE  Landed \subseteq Nat
BY DEF JudicatureInv, JudicatureTypeOK, Landed

LEMMA JudgeMoves ==
  ASSUME JudicatureInv, NEW p \in Sessions, NEW i \in DOMAIN docket, NEW seat \in Roles, Judge(p, i, seat)
  PROVE  \E d \in CaseRecords : CaseStep(i, d)
<1>1. PICK rule \in Rules, follows \in SUBSET (Landed \ {i}) :
        docket' = [docket EXCEPT ![i].judgment = Judgment(p, seat, rule, follows)]
  BY DEF Judge
<1> DEFINE j == Judgment(p, seat, rule, follows)
           d == [docket[i] EXCEPT !.judgment = j]
<1>2. docket' = [docket EXCEPT ![i] = d] /\ certified' = certified
  BY <1>1 DEF Judge
<1>3. docket[i].panel.status = "panel" /\ ~Judged(docket[i]) /\ Sits(p, docket[i].panel, seat)
  BY DEF Judge
<1>4. follows \in SUBSET Nat /\ rule \in Rules
  BY <1>1, LandedAreNumbers
<1>5. j # NoJudgment
  BY <1>4, SpokenIsSpoken
<1>6. /\ d \in CaseRecords /\ CaseInv(d) /\ d.judgment = j
      /\ d.appeal = docket[i].appeal /\ d.remedies = docket[i].remedies /\ d.panel = docket[i].panel
  BY <1>3, <1>4, CaseAt, JudgedCase DEF JudicatureInv
<1> HIDE DEF d, j
<1>7. Decides(docket[i], d)
  BY <1>3, <1>5, <1>6 DEF Decides, Judged
<1> QED BY <1>2, <1>6, <1>7 DEF CaseStep, Moves

LEMMA AppealMoves ==
  ASSUME JudicatureInv, NEW p \in Sessions, NEW i \in DOMAIN docket, Appeal(p, i)
  PROVE  \E d \in CaseRecords : CaseStep(i, d)
<1> DEFINE a == [filer |-> p, panel |-> AppellatePanel(docket[i]), judgment |-> NoJudgment]
           d == [docket[i] EXCEPT !.appeal = a]
<1>1. docket' = [docket EXCEPT ![i] = d] /\ certified' = certified
  BY DEF Appeal
<1>2. Judged(docket[i]) /\ ~Appealed(docket[i])
  BY DEF Appeal
<1>3. /\ d \in CaseRecords /\ CaseInv(d) /\ d.appeal = a /\ a # NoAppeal
      /\ d.judgment = docket[i].judgment /\ d.remedies = docket[i].remedies /\ d.panel = docket[i].panel
  BY <1>2, CaseAt, AppealedCase
<1>4. a.judgment = NoJudgment
  OBVIOUS
<1> HIDE DEF d, a
<1>5. Contests(docket[i], d)
  BY <1>2, <1>3, <1>4 DEF Contests, Keeps, Appealed, Finally
<1> QED BY <1>1, <1>3, <1>5 DEF CaseStep, Moves

LEMMA JudgeAppealMoves ==
  ASSUME JudicatureInv, NEW p \in Sessions, NEW i \in DOMAIN docket, NEW seat \in Roles,
         JudgeAppeal(p, i, seat)
  PROVE  \E d \in CaseRecords : CaseStep(i, d)
<1>1. PICK rule \in Rules, follows \in SUBSET (Landed \ {i}) :
        docket' = [docket EXCEPT ![i].appeal.judgment = Judgment(p, seat, rule, follows)]
  BY DEF JudgeAppeal
<1> DEFINE j == Judgment(p, seat, rule, follows)
           d == [docket[i] EXCEPT !.appeal.judgment = j]
<1>2. docket' = [docket EXCEPT ![i] = d] /\ certified' = certified
  BY <1>1 DEF JudgeAppeal
<1>3. /\ Appealed(docket[i]) /\ ~Finally(docket[i]) /\ docket[i].appeal.panel.status = "panel"
      /\ Sits(p, docket[i].appeal.panel, seat)
  BY DEF JudgeAppeal
<1>4. follows \in SUBSET Nat /\ rule \in Rules
  BY <1>1, LandedAreNumbers
<1>5. j # NoJudgment
  BY <1>4, SpokenIsSpoken
<1>6. /\ d \in CaseRecords /\ CaseInv(d)
      /\ d.judgment = docket[i].judgment /\ d.remedies = docket[i].remedies /\ d.panel = docket[i].panel
      /\ d.appeal.judgment = j /\ d.appeal.panel = docket[i].appeal.panel /\ d.appeal # NoAppeal
  BY <1>3, <1>4, CaseAt, FinalCase
<1> HIDE DEF d, j
<1>7. Rehears(docket[i], d)
  BY <1>3, <1>5, <1>6 DEF Rehears, Keeps, Appealed, Finally
<1> QED BY <1>2, <1>6, <1>7 DEF CaseStep, Moves

LEMMA RemedyMoves ==
  ASSUME JudicatureInv, NEW p \in Sessions, NEW i \in DOMAIN docket, NEW seat \in Roles, Remedy(p, i, seat)
  PROVE  \E d \in CaseRecords : CaseStep(i, d)
<1>1. PICK r \in Remedies : Attach(i, seat, r)
  BY DEF Remedy
<1> DEFINE row == [kind |-> r.kind, what |-> r.what, seat |-> seat]
           d == [docket[i] EXCEPT !.remedies = Append(@, row)]
<1>2. docket' = [docket EXCEPT ![i] = d] /\ certified' = certified
  BY <1>1 DEF Attach, Remedy
<1>3. row \in Rows /\ row.seat = seat
  BY DEF Remedies, Rows
<1>4. RidesAJudgment(docket[i]) /\ seat \in OperativePanel(docket[i]).seats
  BY DEF Remedy, CanRemedy, Sits
<1> HIDE DEF row
<1>5. /\ d \in CaseRecords /\ CaseInv(d)
      /\ d.judgment = docket[i].judgment /\ d.appeal = docket[i].appeal /\ d.panel = docket[i].panel
      /\ d.remedies = Append(docket[i].remedies, row)
  BY <1>3, CaseAt, RemediedCase
<1> HIDE DEF d
<1>6. Repairs(docket[i], d)
  BY <1>3, <1>4, <1>5 DEF Repairs, Keeps
<1> QED BY <1>2, <1>5, <1>6 DEF CaseStep, Moves

\* A case is put down, one moves, or the docket stays.
LEMMA EveryStep ==
  ASSUME JudicatureInv, [Next]_vars
  PROVE  \/ /\ docket' = docket
            /\ \/ certified' = certified
               \/ \E s \in Sessions : Attest(s)
         \/ \E p \in Sessions : Len(docket) < MaxCases /\ \E cited \in FilingSets[Len(docket) + 1] : Hear(p, cited)
         \/ \E i \in DOMAIN docket, d \in CaseRecords : CaseStep(i, d)
<1>1. certified \subseteq Sessions
  BY DEF JudicatureInv, JudicatureTypeOK
<1>2. ASSUME NEW s \in Sessions, Attest(s)
      PROVE  docket' = docket
  BY <1>2 DEF Attest
<1>3. ASSUME NEW p \in Filers, NEW cited, Hear(p, cited)
      PROVE  p \in Sessions
  BY <1>1, <1>3 DEF Hear
<1>4. ASSUME NEW p \in certified, NEW i \in DOMAIN docket,
             \/ Interim(p, i) \/ Appeal(p, i)
             \/ \E seat \in Roles : Judge(p, i, seat) \/ JudgeAppeal(p, i, seat) \/ Remedy(p, i, seat)
      PROVE  \E d \in CaseRecords : CaseStep(i, d)
  BY <1>1, <1>4, InterimMoves, AppealMoves, JudgeMoves, JudgeAppealMoves, RemedyMoves
<1>5. ASSUME NEW p \in certified, NEW i \in DOMAIN docket, NEW seat \in Roles, RemedyFails(p, i, seat)
      PROVE  docket' = docket /\ certified' = certified
  BY <1>5 DEF RemedyFails
<1>6. CASE UNCHANGED vars
  BY <1>6 DEF vars
<1>7. CASE Next
  <2>1. CASE \E s \in Sessions : Attest(s)
    BY <1>2, <2>1
  <2>2. CASE \E p \in Filers : Len(docket) < MaxCases /\ \E cited \in FilingSets[Len(docket) + 1] : Hear(p, cited)
    BY <1>3, <2>2
  <2>3. ASSUME NEW p \in certified, NEW i \in DOMAIN docket,
               \/ Interim(p, i) \/ Appeal(p, i)
               \/ \E seat \in Roles : \/ Judge(p, i, seat)  \/ JudgeAppeal(p, i, seat)
                                      \/ Remedy(p, i, seat) \/ RemedyFails(p, i, seat)
        PROVE  \/ docket' = docket /\ certified' = certified
               \/ \E d \in CaseRecords : CaseStep(i, d)
    BY <1>4, <1>5, <2>3
  <2> QED BY <1>7, <2>1, <2>2, <2>3 DEF Next
<1> QED BY <1>6, <1>7

LEMMA JudicatureStep ==
  ASSUME JudicatureInv, [Next]_vars
  PROVE  JudicatureInv'
<1> USE DEF JudicatureInv
<1>1. ASSUME docket' = docket, certified' \subseteq Sessions
      PROVE  JudicatureInv'
  <2>1. JudicatureTypeOK'
    BY <1>1 DEF JudicatureTypeOK
  <2>2. \A i \in DOMAIN docket' : CaseInv(docket'[i])
    BY <1>1
  <2>3. (\A i \in DOMAIN docket : CaseInv(docket[i]))'
    BY <2>2
  <2> QED BY <2>1, <2>3
<1>2. ASSUME NEW s \in Sessions, Attest(s)
      PROVE  certified' \subseteq Sessions
  <2>1. ParentOf[s] \in Sessions \cup {None}
    BY SessionsAreBound
  <2> QED BY <1>2, <2>1 DEF Attest, JudicatureTypeOK
<1>3. certified \subseteq Sessions
  BY DEF JudicatureTypeOK
<1>4. ASSUME NEW p \in Sessions, Len(docket) < MaxCases,
             NEW cited \in FilingSets[Len(docket) + 1], Hear(p, cited)
      PROVE  JudicatureInv'
  <2>1. Len(docket) \in Nat /\ Len(docket) + 1 \in 1..MaxCases
    BY <1>4, FilingsCiteSessions DEF JudicatureTypeOK
  <2>2. cited \in SUBSET Sessions
    BY <2>1, FilingsCiteSessions
  <2>3. NewCase(p, cited) \in CaseRecords /\ CaseInv(NewCase(p, cited))
    BY <2>2, FiledCase
  <2>4. docket' = Append(docket, NewCase(p, cited)) /\ certified' = certified
    BY <1>4 DEF Hear
  <2>5. JudicatureTypeOK'
    BY <2>1, <2>3, <2>4, CaseAdded, FilingsCiteSessions DEF JudicatureTypeOK
  <2>6. \A i \in DOMAIN docket' : CaseInv(docket'[i])
    <3> SUFFICES ASSUME NEW i \in DOMAIN docket'
                 PROVE  CaseInv(docket'[i])
      OBVIOUS
    <3>1. CASE i = Len(docket) + 1
      BY <2>3, <2>4, <3>1, CaseAdded
    <3>2. CASE i # Len(docket) + 1
      <4>1. i \in DOMAIN docket /\ docket'[i] = docket[i]
        BY <2>1, <2>3, <2>4, <3>2, CaseAdded
      <4> QED BY <4>1
    <3> QED BY <3>1, <3>2
  <2>7. (\A i \in DOMAIN docket : CaseInv(docket[i]))'
    BY <2>6
  <2> QED BY <2>5, <2>7
<1>5. ASSUME NEW i \in DOMAIN docket, NEW d \in CaseRecords, CaseStep(i, d)
      PROVE  JudicatureInv'
  BY <1>5, MovedKeeps DEF CaseStep
<1> QED BY <1>1, <1>2, <1>3, <1>4, <1>5, EveryStep

LEMMA JudicatureInit == Init => JudicatureInv
BY SessionsAreBound, FilingsCiteSessions DEF Init, JudicatureInv, JudicatureTypeOK

\* What a case is, how its seats were left, and how it was judged.
THEOREM JudicatureInvariant == Spec => []JudicatureInv
<1>1. JudicatureInv /\ [Next]_vars => JudicatureInv'
  BY JudicatureStep
<1> QED BY <1>1, JudicatureInit, PTL DEF Spec

-----------------------------------------------------------------------------
(* Recusal by lineage *)

\* Who holds a seat the parties leave is none of the Members they name.
LEMMA RecusalReaches ==
  ASSUME NEW parties, NEW set, NEW seat \in Remaining(set, ForRecusal(parties)),
         StandingOf[seat] \in Keys, NEW m \in Members,
         CurrentKey[m] \in Expand(StandingOf[seat])
  PROVE  Lineage[m] \cap parties = {}
<1> DEFINE standing == StandingOf[seat]
<1>1. standing \in Lineage[m]
  <2> DEFINE owner == {n \in Members : standing \in Lineage[n]}
  <2>1. CASE owner = {}
    <3>1. Expand(standing) = {standing}
      BY <2>1 DEF Expand
    <3> QED BY <3>1, LineagesAreApart
  <2>2. CASE owner # {}
    <3>1. Expand(standing) = UNION {Lineage[n] : n \in owner}
      BY <2>2 DEF Expand
    <3>2. PICK n \in owner : CurrentKey[m] \in Lineage[n]
      BY <3>1
    <3>3. n = m
      BY <3>2, LineagesAreApart
    <3> QED BY <3>2, <3>3
  <2> QED BY <2>1, <2>2
<1> SUFFICES ASSUME NEW k \in Lineage[m], k \in parties
             PROVE  FALSE
  OBVIOUS
<1>2. k \in Keys
  BY LineagesAreApart
<1>3. standing \in Expand(k)
  <2>1. m \in {n \in Members : k \in Lineage[n]}
    OBVIOUS
  <2> QED BY <1>1, <2>1 DEF Expand
<1>4. standing \in ForRecusal(parties)
  BY <1>2, <1>3 DEF ForRecusal
<1>5. ~InConflict(standing, standing)
  BY <1>4 DEF Remaining
<1> QED BY <1>5 DEF InConflict

LEMMA NamedRecuse ==
  ASSUME JudicatureInv
  PROVE  NamedMembersRecuse
<1> SUFFICES ASSUME NEW i \in DOMAIN docket
             PROVE  LET j == docket[i].judgment
                        Named(p) == MemberOf[p] # None /\ Lineage[MemberOf[p]] \cap docket[i].parties # {}
                    IN  /\ j # NoJudgment /\ StandingOf[j.seat] \in Keys => ~Named(j.by)
                        /\ ~Judged(docket[i]) => \A p \in certified : ReadsAsBench(p, i) => ~Named(p)
  BY DEF NamedMembersRecuse
<1> DEFINE c == docket[i]
<1>1. CaseInv(c)
  BY DEF JudicatureInv
<1>2. ASSUME NEW p, NEW seat, c.panel.status = "panel", seat \in c.panel.seats,
             StandingOf[seat] \in Keys, Held(p, seat)
      PROVE  Lineage[MemberOf[p]] \cap c.parties = {}
  <2>1. c.panel.seats = Remaining(c.panel.set, ForRecusal(c.parties))
    BY <1>1, <1>2 DEF CaseInv, SeatedWell
  <2>2. MemberOf[p] \in Members /\ CurrentKey[MemberOf[p]] \in Expand(StandingOf[seat])
    BY <1>2 DEF Held
  <2>3. seat \in Remaining(c.panel.set, ForRecusal(c.parties))
    BY <1>2, <2>1
  <2> HIDE DEF c
  <2> QED BY <1>2, <2>2, <2>3, RecusalReaches
<1>3. ASSUME c.judgment # NoJudgment, StandingOf[c.judgment.seat] \in Keys
      PROVE  Lineage[MemberOf[c.judgment.by]] \cap c.parties = {}
  <2>1. /\ c.panel.status = "panel" /\ c.judgment.seat \in c.panel.seats
        /\ Held(c.judgment.by, c.judgment.seat)
    BY <1>1, <1>3 DEF CaseInv, Judged
  <2> HIDE DEF c
  <2> QED BY <1>2, <1>3, <2>1
<1>4. ASSUME ~Judged(c), NEW p \in certified, ReadsAsBench(p, i)
      PROVE  Lineage[MemberOf[p]] \cap c.parties = {}
  <2>1. PICK seat \in c.panel.seats : StandingOf[seat] \in Keys /\ Holds(p, seat)
    <3>1. ~Appealed(c)
      BY <1>1, <1>4 DEF CaseInv
    <3> QED BY <1>4, <3>1 DEF ReadsAsBench, HeldByKey
  <2>2. Held(p, seat)
    BY <2>1, HoldsIsHeld DEF JudicatureInv, JudicatureTypeOK
  <2>3. c.panel.status = "panel"
    <3>1. c.panel.status # "panel" => c.panel.seats = {}
      BY <1>1 DEF CaseInv, SeatedWell
    <3> QED BY <2>1, <3>1
  <2> HIDE DEF c
  <2> QED BY <1>2, <2>1, <2>2, <2>3
<1> QED BY <1>3, <1>4

\* J-1: no Member judges, or reads for the bench, a case that names it (sets.js).
THEOREM NamedAlwaysRecuse == Spec => []NamedMembersRecuse
<1>1. JudicatureInv => NamedMembersRecuse
  BY NamedRecuse
<1> QED BY <1>1, JudicatureInvariant, PTL

-----------------------------------------------------------------------------
(* The docket implements the abstract life of a case *)

\* The refinement mapping, of one case.
Stage(c) == CASE ~Judged(c) -> "open"
              [] Judged(c) /\ ~Appealed(c) -> "decided"
              [] Appealed(c) /\ ~Finally(c) ->
                   IF c.appeal.panel.status = "panel" THEN "contested" ELSE "held"
              [] Finally(c) -> "final"
Spoke(c) == IF Operative(c) # NoJudgment THEN SetOf(Operative(c).seat) ELSE None
LandedBy(c) == {SetOf(c.remedies[k].seat) : k \in DOMAIN c.remedies}

LEMMA OfOneCase ==
  ASSUME NEW i \in DOMAIN docket
  PROVE  StageOf(i) = Stage(docket[i]) /\ SpokeOf(i) = Spoke(docket[i]) /\ RemediedOf(i) = LandedBy(docket[i])
<1>1. StageOf(i) = Stage(docket[i])
  BY DEF StageOf, Stage
<1>2. SpokeOf(i) = Spoke(docket[i])
  BY DEF SpokeOf, Spoke, Landed
<1>3. RemediedOf(i) = LandedBy(docket[i])
  BY DEF RemediedOf, LandedBy
<1> QED BY <1>1, <1>2, <1>3

LEMMA OfNoCase ==
  ASSUME NEW i, i \notin DOMAIN docket
  PROVE  StageOf(i) = "none" /\ SpokeOf(i) = None /\ RemediedOf(i) = {}
BY DEF StageOf, SpokeOf, RemediedOf, Landed

\* In what stage a case is.
LEMMA StageSays ==
  ASSUME NEW c, CaseInv(c)
  PROVE  /\ ~Judged(c) => Stage(c) = "open"
         /\ Judged(c) /\ ~Appealed(c) => Stage(c) = "decided"
         /\ Appealed(c) /\ ~Finally(c) =>
              Stage(c) = IF c.appeal.panel.status = "panel" THEN "contested" ELSE "held"
         /\ Finally(c) => Stage(c) = "final"
<1>1. (Appealed(c) => Judged(c)) /\ (Finally(c) => Appealed(c))
  BY DEF CaseInv
<1>2. CASE ~Judged(c)
  BY <1>1, <1>2 DEF Stage
<1>3. CASE Judged(c) /\ ~Appealed(c)
  BY <1>1, <1>3 DEF Stage
<1>4. CASE Appealed(c) /\ ~Finally(c)
  BY <1>1, <1>4 DEF Stage
<1>5. CASE Finally(c)
  BY <1>1, <1>5 DEF Stage
<1> QED BY <1>1, <1>2, <1>3, <1>4, <1>5

\* The bench whose word stands is the one the operative panel seats.
LEMMA TheBenchThatSpoke ==
  ASSUME NEW c, CaseInv(c), Judged(c)
  PROVE  /\ Operative(c) # NoJudgment
         /\ Spoke(c) = OperativePanel(c).set /\ OperativePanel(c).set \in SetIds
         /\ \A seat \in OperativePanel(c).seats : SetOf(seat) = Spoke(c)
<1>1. /\ OperativePanel(c).set \in SetIds
      /\ OperativePanel(c).seats \subseteq RolesOf[OperativePanel(c).set]
      /\ Operative(c).seat \in OperativePanel(c).seats
      /\ Operative(c) # NoJudgment
  <2>1. CASE Finally(c)
    BY <2>1 DEF CaseInv, SeatedWell, Remaining, OperativePanel, Operative, Finally
  <2>2. CASE ~Finally(c)
    BY <2>2 DEF CaseInv, SeatedWell, Remaining, OperativePanel, Operative, Judged
  <2> QED BY <2>1, <2>2
<1> QED BY <1>1, RolesOfASet DEF Spoke

\* What each move is, seen abstractly.
LEMMA MovesSeen ==
  ASSUME NEW c \in CaseRecords, NEW d \in CaseRecords, CaseInv(c), CaseInv(d), Moves(c, d)
  PROVE  \/ Stage(d) = Stage(c) /\ Spoke(d) = Spoke(c) /\ LandedBy(d) = LandedBy(c)
         \/ /\ Stage(c) = "open" /\ Stage(d) = "decided" /\ Spoke(d) \in SetIds
            /\ LandedBy(d) = LandedBy(c)
         \/ /\ Stage(c) = "decided" /\ Stage(d) \in {"contested", "held"}
            /\ Spoke(d) = Spoke(c) /\ LandedBy(d) = LandedBy(c)
         \/ /\ Stage(c) = "contested" /\ Stage(d) = "final" /\ Spoke(d) \in SetIds
            /\ IndependentSets(Spoke(c), Spoke(d)) /\ LandedBy(d) = LandedBy(c)
         \/ /\ Stage(c) \in {"decided", "held", "final"} /\ Stage(d) = Stage(c)
            /\ Spoke(d) = Spoke(c) /\ LandedBy(d) = LandedBy(c) \cup {Spoke(c)}
<1>1. CASE Idles(c, d)
  BY <1>1 DEF Idles, Keeps, Stage, Spoke, LandedBy, Judged, Appealed, Finally, Operative
<1>2. CASE Decides(c, d)
  <2>1. Stage(c) = "open"
    BY <1>2, StageSays DEF Decides
  <2>2. Judged(d) /\ ~Appealed(d)
    BY <1>2 DEF Decides, CaseInv, Appealed
  <2>3. Stage(d) = "decided" /\ Spoke(d) \in SetIds
    BY <2>2, StageSays, TheBenchThatSpoke
  <2>4. LandedBy(d) = LandedBy(c)
    BY <1>2 DEF Decides, LandedBy
  <2> QED BY <2>1, <2>3, <2>4
<1>3. CASE Contests(c, d)
  <2>1. Stage(c) = "decided" /\ Stage(d) \in {"contested", "held"}
    BY <1>3, StageSays DEF Contests
  <2>2. ~Finally(c)
    BY <1>3 DEF Contests, CaseInv
  <2>3. Spoke(d) = Spoke(c) /\ LandedBy(d) = LandedBy(c)
    BY <1>3, <2>2 DEF Contests, Keeps, Spoke, Operative, LandedBy
  <2> QED BY <2>1, <2>3
<1>4. CASE Rehears(c, d)
  <2>1. Stage(c) = "contested" /\ Stage(d) = "final"
    BY <1>4, StageSays DEF Rehears
  <2>2. Judged(c) /\ Judged(d)
    BY <1>4 DEF Rehears, CaseInv
  <2>3. Spoke(c) = c.panel.set /\ Spoke(d) = c.appeal.panel.set /\ Spoke(d) \in SetIds
    BY <1>4, <2>2, TheBenchThatSpoke DEF Rehears, OperativePanel
  <2>4. IndependentSets(c.panel.set, c.appeal.panel.set)
    BY <1>4 DEF Rehears, CaseInv
  <2>5. LandedBy(d) = LandedBy(c)
    BY <1>4 DEF Rehears, LandedBy
  <2> QED BY <2>1, <2>3, <2>4, <2>5
<1>5. CASE Repairs(c, d)
  <2>1. PICK row \in Rows : row.seat \in OperativePanel(c).seats /\ d.remedies = Append(c.remedies, row)
    BY <1>5 DEF Repairs
  <2>2. Judged(c)
    BY <1>5 DEF Repairs, RidesAJudgment, Operative, CaseInv, Judged, Finally
  <2>3. Stage(c) \in {"decided", "held", "final"}
    BY <1>5, <2>2, StageSays DEF Repairs, RidesAJudgment
  <2>4. Stage(d) = Stage(c) /\ Spoke(d) = Spoke(c)
    BY <1>5 DEF Repairs, Keeps, Stage, Spoke, Judged, Appealed, Finally, Operative
  <2>5. SetOf(row.seat) = Spoke(c)
    BY <2>1, <2>2, TheBenchThatSpoke
  <2>6. c.remedies \in Seq(Rows)
    BY DEF CaseRecords
  <2>7. LandedBy(d) = LandedBy(c) \cup {SetOf(row.seat)}
    <3> DEFINE n == Len(c.remedies)
    <3>1. /\ n \in Nat /\ DOMAIN c.remedies = 1..n /\ DOMAIN d.remedies = (1..n) \cup {n + 1}
          /\ d.remedies[n + 1] = row /\ \A k \in 1..n : d.remedies[k] = c.remedies[k]
      BY <2>1, <2>6, AppendProperties
    <3> HIDE DEF n
    <3> QED BY <3>1 DEF LandedBy
  <2> QED BY <2>3, <2>4, <2>5, <2>7
<1> QED BY <1>1, <1>2, <1>3, <1>4, <1>5 DEF Moves

\* The mapping, of all the cases.
StageMap == [i \in 1..MaxCases |-> StageOf(i)]
SpokeMap == [i \in 1..MaxCases |-> SpokeOf(i)]
LandedMap == [i \in 1..MaxCases |-> RemediedOf(i)]

\* What the maps are, case by case, at any time.
MapsAreOfCases ==
  /\ \A j \in DOMAIN docket : /\ StageOf(j) = Stage(docket[j])
                              /\ SpokeOf(j) = Spoke(docket[j])
                              /\ RemediedOf(j) = LandedBy(docket[j])
  /\ \A j \in 1..MaxCases : j \notin DOMAIN docket =>
       StageOf(j) = "none" /\ SpokeOf(j) = None /\ RemediedOf(j) = {}

LEMMA MapsAlways == MapsAreOfCases
BY OfOneCase, OfNoCase DEF MapsAreOfCases

LEMMA MapsNext == MapsAreOfCases'
BY MapsAlways, PTL

LEMMA DispositionStarts == Init => Disposition!Init
<1> SUFFICES ASSUME Init
             PROVE  Disposition!Init
  OBVIOUS
<1>1. \A i : i \notin DOMAIN docket
  BY DEF Init
<1>2. \A i : StageOf(i) = "none" /\ SpokeOf(i) = None /\ RemediedOf(i) = {}
  BY <1>1, OfNoCase
<1> QED BY <1>2 DEF Disposition!Init

\* A step that moves one case moves one place of each map.
LEMMA MapsMove ==
  ASSUME JudicatureInv, NEW i \in DOMAIN docket, NEW d \in CaseRecords, CaseStep(i, d)
  PROVE  /\ StageMap' = [StageMap EXCEPT ![i] = Stage(d)]
         /\ SpokeMap' = [SpokeMap EXCEPT ![i] = Spoke(d)]
         /\ LandedMap' = [LandedMap EXCEPT ![i] = LandedBy(d)]
         /\ i \in 1..MaxCases
         /\ StageMap[i] = Stage(docket[i]) /\ SpokeMap[i] = Spoke(docket[i])
         /\ LandedMap[i] = LandedBy(docket[i])
<1>1. /\ DOMAIN docket' = DOMAIN docket /\ docket'[i] = d
      /\ \A j \in DOMAIN docket : j # i => docket'[j] = docket[j]
  BY CaseMoved DEF CaseStep, JudicatureInv
<1>2. i \in 1..MaxCases
  BY CaseAt
<1>3. \A j \in DOMAIN docket' : /\ StageOf(j)' = Stage(docket'[j])
                                /\ SpokeOf(j)' = Spoke(docket'[j])
                                /\ RemediedOf(j)' = LandedBy(docket'[j])
  BY MapsNext DEF MapsAreOfCases
<1>4. \A j \in 1..MaxCases : j \notin DOMAIN docket' =>
        StageOf(j)' = "none" /\ SpokeOf(j)' = None /\ RemediedOf(j)' = {}
  BY MapsNext DEF MapsAreOfCases
<1>5. \A j \in 1..MaxCases : j # i => /\ StageOf(j)' = StageOf(j) /\ SpokeOf(j)' = SpokeOf(j)
                                      /\ RemediedOf(j)' = RemediedOf(j)
  BY <1>1, <1>3, <1>4, OfOneCase, OfNoCase
<1>6. StageOf(i)' = Stage(d) /\ SpokeOf(i)' = Spoke(d) /\ RemediedOf(i)' = LandedBy(d)
  BY <1>1, <1>3
<1>7. /\ StageMap[i] = Stage(docket[i]) /\ SpokeMap[i] = Spoke(docket[i])
      /\ LandedMap[i] = LandedBy(docket[i])
  BY <1>2, OfOneCase DEF StageMap, SpokeMap, LandedMap
<1> QED BY <1>2, <1>5, <1>6, <1>7 DEF StageMap, SpokeMap, LandedMap

LEMMA DispositionSteps ==
  ASSUME JudicatureInv, [Next]_vars
  PROVE  [Disposition!Next]_(Disposition!vars)
<1>1. CASE docket' = docket
  <2>1. \A i : StageOf(i)' = StageOf(i) /\ SpokeOf(i)' = SpokeOf(i) /\ RemediedOf(i)' = RemediedOf(i)
    BY <1>1 DEF StageOf, SpokeOf, RemediedOf, Landed
  <2> QED BY <2>1 DEF Disposition!vars
<1>2. ASSUME NEW p \in Sessions, Len(docket) < MaxCases,
             NEW cited \in FilingSets[Len(docket) + 1], Hear(p, cited)
      PROVE  Disposition!Next
  <2> DEFINE c == NewCase(p, cited)
  <2>1. PICK n \in 1..MaxCases : n = Len(docket) + 1 /\ Len(docket) \in Nat
    BY <1>2, FilingsCiteSessions DEF JudicatureInv, JudicatureTypeOK
  <2>2. cited \in SUBSET Sessions
    BY <1>2, <2>1, FilingsCiteSessions
  <2>3. c \in CaseRecords /\ CaseInv(c) /\ c.judgment = NoJudgment /\ c.appeal = NoAppeal /\ c.remedies = <<>>
    BY <2>2, FiledCase DEF JudicatureInv
  <2>4. docket' = Append(docket, c)
    BY <1>2 DEF Hear
  <2> HIDE DEF c
  <2>5. /\ n \notin DOMAIN docket /\ DOMAIN docket' = DOMAIN docket \cup {n} /\ docket'[n] = c
        /\ \A j \in DOMAIN docket : docket'[j] = docket[j]
    BY <2>1, <2>3, <2>4, CaseAdded DEF JudicatureInv
  <2>6. Stage(c) = "open" /\ Spoke(c) = None /\ LandedBy(c) = {}
    <3>1. ~Judged(c) /\ ~Finally(c)
      BY <2>3 DEF Judged, Finally, NoAppeal
    <3> QED BY <2>3, <3>1, StageSays DEF Spoke, Operative, LandedBy
  <2>7. \A j \in DOMAIN docket' : /\ StageOf(j)' = Stage(docket'[j])
                                  /\ SpokeOf(j)' = Spoke(docket'[j])
                                  /\ RemediedOf(j)' = LandedBy(docket'[j])
    BY MapsNext DEF MapsAreOfCases
  <2>8. \A j \in 1..MaxCases : j \notin DOMAIN docket' =>
          StageOf(j)' = "none" /\ SpokeOf(j)' = None /\ RemediedOf(j)' = {}
    BY MapsNext DEF MapsAreOfCases
  <2>9. \A j \in 1..MaxCases : j # n => /\ StageOf(j)' = StageOf(j) /\ SpokeOf(j)' = SpokeOf(j)
                                        /\ RemediedOf(j)' = RemediedOf(j)
    BY <2>5, <2>7, <2>8, OfOneCase, OfNoCase
  <2>10. /\ StageOf(n)' = "open" /\ StageOf(n) = "none"
         /\ SpokeOf(n)' = SpokeOf(n) /\ RemediedOf(n)' = RemediedOf(n)
    <3>1. StageOf(n)' = "open" /\ SpokeOf(n)' = None /\ RemediedOf(n)' = {}
      BY <2>5, <2>6, <2>7
    <3>2. StageOf(n) = "none" /\ SpokeOf(n) = None /\ RemediedOf(n) = {}
      BY <2>5, OfNoCase
    <3> QED BY <3>1, <3>2
  <2>11. /\ StageMap[n] = "none" /\ StageMap' = [StageMap EXCEPT ![n] = "open"]
         /\ SpokeMap' = SpokeMap /\ LandedMap' = LandedMap
    <3>1. StageMap[n] = "none" /\ StageMap' = [StageMap EXCEPT ![n] = "open"]
      BY <2>1, <2>9, <2>10 DEF StageMap
    <3>2. SpokeMap' = SpokeMap
      BY <2>9, <2>10 DEF SpokeMap
    <3>3. LandedMap' = LandedMap
      BY <2>9, <2>10 DEF LandedMap
    <3> QED BY <3>1, <3>2, <3>3
  <2>12. Disposition!File(n)
    BY <2>11 DEF StageMap, SpokeMap, LandedMap, Disposition!File, Disposition!Move
  <2> QED BY <2>1, <2>12 DEF Disposition!Next
<1>3. ASSUME NEW i \in DOMAIN docket, NEW d \in CaseRecords, CaseStep(i, d)
      PROVE  [Disposition!Next]_(Disposition!vars)
  <2> DEFINE c == docket[i]
  <2>1. c \in CaseRecords /\ CaseInv(c) /\ CaseInv(d) /\ Moves(c, d)
    BY <1>3, CaseAt DEF CaseStep
  <2>2. /\ StageMap' = [StageMap EXCEPT ![i] = Stage(d)]
        /\ SpokeMap' = [SpokeMap EXCEPT ![i] = Spoke(d)]
        /\ LandedMap' = [LandedMap EXCEPT ![i] = LandedBy(d)]
        /\ i \in 1..MaxCases
        /\ StageMap[i] = Stage(c) /\ SpokeMap[i] = Spoke(c) /\ LandedMap[i] = LandedBy(c)
    BY <1>3, MapsMove
  <2> HIDE DEF c
  <2>3. /\ DOMAIN StageMap = 1..MaxCases /\ [StageMap EXCEPT ![i] = StageMap[i]] = StageMap
        /\ [SpokeMap EXCEPT ![i] = SpokeMap[i]] = SpokeMap
        /\ [LandedMap EXCEPT ![i] = LandedMap[i]] = LandedMap
    BY DEF StageMap, SpokeMap, LandedMap
  <2>4. CASE Stage(d) = Stage(c) /\ Spoke(d) = Spoke(c) /\ LandedBy(d) = LandedBy(c)
    <3>1. StageMap' = StageMap /\ SpokeMap' = SpokeMap /\ LandedMap' = LandedMap
      BY <2>2, <2>3, <2>4
    <3> QED BY <3>1 DEF StageMap, SpokeMap, LandedMap, Disposition!vars
  <2>5. CASE Stage(c) = "open" /\ Stage(d) = "decided" /\ Spoke(d) \in SetIds /\ LandedBy(d) = LandedBy(c)
    <3>1. LandedMap' = LandedMap
      BY <2>2, <2>3, <2>5
    <3>2. Disposition!Decide(i, Spoke(d))
      BY <2>2, <2>5, <3>1 DEF StageMap, SpokeMap, LandedMap, Disposition!Decide, Disposition!Move
    <3> QED BY <2>2, <2>5, <3>2 DEF Disposition!Next
  <2>6. CASE /\ Stage(c) = "decided" /\ Stage(d) \in {"contested", "held"}
             /\ Spoke(d) = Spoke(c) /\ LandedBy(d) = LandedBy(c)
    <3>1. SpokeMap' = SpokeMap /\ LandedMap' = LandedMap
      BY <2>2, <2>3, <2>6
    <3>2. Disposition!Contest(i)
      BY <2>2, <2>6, <3>1 DEF StageMap, SpokeMap, LandedMap, Disposition!Contest, Disposition!Move
    <3> QED BY <2>2, <3>2 DEF Disposition!Next
  <2>7. CASE /\ Stage(c) = "contested" /\ Stage(d) = "final" /\ Spoke(d) \in SetIds
             /\ IndependentSets(Spoke(c), Spoke(d)) /\ LandedBy(d) = LandedBy(c)
    <3>1. LandedMap' = LandedMap
      BY <2>2, <2>3, <2>7
    <3>2. IndependentSets(SpokeMap[i], Spoke(d))
      BY <2>2, <2>7
    <3>3. Disposition!Rehear(i, Spoke(d))
      BY <2>2, <2>7, <3>1, <3>2 DEF StageMap, SpokeMap, LandedMap, Disposition!Rehear, Disposition!Move
    <3> QED BY <2>2, <2>7, <3>3 DEF Disposition!Next
  <2>8. CASE /\ Stage(c) \in {"decided", "held", "final"} /\ Stage(d) = Stage(c)
             /\ Spoke(d) = Spoke(c) /\ LandedBy(d) = LandedBy(c) \cup {Spoke(c)}
    <3>1. StageMap' = StageMap /\ SpokeMap' = SpokeMap
      BY <2>2, <2>3, <2>8
    <3>2. LandedMap' = [LandedMap EXCEPT ![i] = @ \cup {SpokeMap[i]}]
      BY <2>2, <2>8
    <3>3. Disposition!Remedy(i)
      BY <2>2, <2>8, <3>1, <3>2 DEF StageMap, SpokeMap, LandedMap, Disposition!Remedy
    <3> QED BY <2>2, <3>3 DEF Disposition!Next
  <2> QED BY <2>1, <2>4, <2>5, <2>6, <2>7, <2>8, MovesSeen
<1> QED BY <1>1, <1>2, <1>3, EveryStep

\* J-1, J-3, J-5, J-6: the docket implements the abstract life of a case
\* (cases.js, appeals.js, remedies.js).
THEOREM DocketImplementsDisposition == Spec => ImplementsDisposition
<1>1. JudicatureInv /\ [Next]_vars => [Disposition!Next]_(Disposition!vars)
  BY DispositionSteps
<1> QED BY <1>1, DispositionStarts, JudicatureInvariant, PTL
        DEF Spec, ImplementsDisposition, Disposition!Spec

-----------------------------------------------------------------------------
(* The feed of the collision counter: each prior judgment followed counts once *)

LEMMA LeastFromZero ==
  ASSUME NEW n \in Nat, NEW S \in SUBSET (0..n), S # {}
  PROVE  \E i \in S : \A j \in S : i <= j
<1> DEFINE T == {k + 1 : k \in S}
<1>1. T \in SUBSET (1..(n + 1)) /\ T # {} /\ n + 1 \in Nat
  <2>1. \A k \in S : k \in Nat /\ k <= n
    OBVIOUS
  <2>2. \A k \in S : k + 1 \in 1..(n + 1)
    BY <2>1
  <2>3. T # {}
    OBVIOUS
  <2>4. \A t \in T : t \in 1..(n + 1)
    BY <2>2
  <2> HIDE DEF T
  <2> QED BY <2>3, <2>4
<1>2. PICK t \in T : \A u \in T : t <= u
  <2> HIDE DEF T
  <2> QED BY <1>1, LeastExists
<1>3. PICK i \in S : t = i + 1
  OBVIOUS
<1>4. \A j \in S : i + 1 <= j + 1
  BY <1>2, <1>3
<1> QED BY <1>4

IsCounter(k) == k.flags \in Nat /\ k = [flags |-> k.flags, board |-> k.board]

LEMMA FlagCounts ==
  ASSUME NEW k, IsCounter(k), NEW rule
  PROVE  IsCounter(Flag(k, rule)) /\ Flag(k, rule).flags = k.flags + 1
<1> DEFINE k1 == [k EXCEPT !.flags = @ + 1]
           row == MaybeInvite(rule, [k1.board[rule] EXCEPT !.instances = @ \cup {Reported(k.flags + 1)}])
           k2 == [k1 EXCEPT !.board[rule] = row]
<1>1. k1 = [flags |-> k.flags + 1, board |-> k.board] /\ k.flags + 1 \in Nat
  BY DEF IsCounter
<1>2. Flag(k, rule) = k2
  BY DEF Flag, Record
<1> HIDE DEF row
<1>3. k2 = [flags |-> k.flags + 1, board |-> [k.board EXCEPT ![rule] = row]]
  <2> HIDE DEF k1
  <2> QED BY <1>1
<1> QED BY <1>1, <1>2, <1>3 DEF IsCounter

Followed(s) == CHOOSE x \in s : TRUE
Fed(s, h) == IF s = {} THEN counter
             ELSE Flag(h[s \ {Followed(s)}], Operative(docket[Followed(s)]).rule)

LEMMA OneLess ==
  ASSUME NEW s, s # {}, IsFiniteSet(s)
  PROVE  /\ Followed(s) \in s /\ IsFiniteSet(s \ {Followed(s)})
         /\ Cardinality(s) \in Nat /\ Cardinality(s \ {Followed(s)}) = Cardinality(s) - 1
         /\ Cardinality(s \ {Followed(s)}) \in Nat
<1>1. Followed(s) \in s
  BY DEF Followed
<1> QED BY <1>1, FS_RemoveElement, FS_CardinalityType

\* The fold of the feed over the sets of priors is defined.
LEMMA FeedIterates ==
  ASSUME NEW S, IsFiniteSet(S)
  PROVE  \E h : h = [s \in SUBSET S |-> Fed(s, h)]
<1> DEFINE N == Cardinality(S)
           Upto(n, h) == /\ h = [s \in SUBSET S |-> h[s]]
                         /\ \A s \in SUBSET S : Cardinality(s) <= n => h[s] = Fed(s, h)
           bad == {n \in 0..N : ~(\E h : Upto(n, h))}
<1>1. N \in Nat
  BY FS_CardinalityType
<1>2. \A s \in SUBSET S : IsFiniteSet(s) /\ Cardinality(s) \in Nat /\ Cardinality(s) <= N
  BY FS_Subset, FS_CardinalityType
<1>3. ASSUME bad # {} PROVE FALSE
  <2>1. PICK m \in bad : \A j \in bad : m <= j
    <3> HIDE DEF bad
    <3>1. bad \in SUBSET (0..N)
      BY DEF bad
    <3> QED BY <1>1, <1>3, <3>1, LeastFromZero
  <2>2. m \in 0..N /\ ~(\E h : Upto(m, h))
    OBVIOUS
  <2>3. CASE m = 0
    <3> DEFINE h == [s \in SUBSET S |-> counter]
    <3>1. h = [s \in SUBSET S |-> h[s]]
      OBVIOUS
    <3>2. \A s \in SUBSET S : Cardinality(s) <= 0 => h[s] = Fed(s, h)
      <4> SUFFICES ASSUME NEW s \in SUBSET S, Cardinality(s) <= 0
                   PROVE  h[s] = Fed(s, h)
        OBVIOUS
      <4>1. s = {}
        BY <1>2, FS_EmptySet
      <4> QED BY <4>1 DEF Fed
    <3> HIDE DEF h
    <3> QED BY <2>2, <2>3, <3>1, <3>2
  <2>4. CASE m # 0
    <3>1. m - 1 \in 0..N /\ m - 1 \notin bad
      <4> HIDE DEF bad, N
      <4>1. m \in Nat /\ m - 1 \in Nat /\ m - 1 <= N /\ ~(m <= m - 1)
        BY <1>1, <2>2, <2>4
      <4> QED BY <1>1, <2>1, <4>1
    <3>2. PICK h : Upto(m - 1, h)
      BY <3>1
    <3> DEFINE g == [s \in SUBSET S |-> IF Cardinality(s) = m THEN Fed(s, h) ELSE h[s]]
    <3>3. g = [s \in SUBSET S |-> g[s]]
      OBVIOUS
    <3>4. ASSUME NEW s \in SUBSET S, Cardinality(s) <= m
          PROVE  g[s] = Fed(s, g)
      <4>1. g[s] = Fed(s, h)
        <5>1. CASE Cardinality(s) = m
          BY <5>1
        <5>2. CASE Cardinality(s) # m
          <6>1. Cardinality(s) <= m - 1
            BY <1>1, <1>2, <2>2, <3>4, <5>2
          <6>2. h[s] = Fed(s, h)
            BY <3>2, <6>1
          <6> QED BY <5>2, <6>2
        <5> QED BY <5>1, <5>2
      <4>2. CASE s = {}
        BY <4>1, <4>2 DEF Fed
      <4>3. CASE s # {}
        <5> DEFINE less == s \ {Followed(s)}
        <5>1. less \in SUBSET S /\ Cardinality(less) # m
          BY <1>1, <1>2, <2>2, <3>4, <4>3, OneLess
        <5>2. g[less] = h[less]
          <6> HIDE DEF less
          <6> QED BY <5>1
        <5> HIDE DEF g
        <5> QED BY <4>1, <4>3, <5>2 DEF Fed
      <4> QED BY <4>2, <4>3
    <3> HIDE DEF g
    <3>5. Upto(m, g)
      BY <3>3, <3>4
    <3> HIDE DEF Upto
    <3> QED BY <2>2, <3>5
  <2> QED BY <2>3, <2>4
<1>4. PICK h : Upto(N, h)
  <2>1. N \in 0..N /\ N \notin bad
    <3> HIDE DEF bad, N
    <3> QED BY <1>1, <1>3
  <2> QED BY <2>1
<1>5. \A s \in SUBSET S : h[s] = Fed(s, h)
  BY <1>2, <1>4
<1>6. h = [s \in SUBSET S |-> h[s]]
  BY <1>4
<1> QED BY <1>5, <1>6

\* A feed counts each prior judgment followed once, in whatever order.
LEMMA FeedCounts ==
  ASSUME IsCounter(counter), NEW S, IsFiniteSet(S)
  PROVE  IsCounter(Feed(S)) /\ Feed(S).flags = counter.flags + Cardinality(S)
<1> DEFINE N == Cardinality(S)
           iter == CHOOSE h : h = [s \in SUBSET S |-> Fed(s, h)]
           Counts(s) == IsCounter(iter[s]) /\ iter[s].flags = counter.flags + Cardinality(s)
           bad == {n \in 0..N : \E s \in SUBSET S : Cardinality(s) = n /\ ~Counts(s)}
<1>1. N \in Nat
  BY FS_CardinalityType
<1>2. \A s \in SUBSET S : IsFiniteSet(s) /\ Cardinality(s) \in Nat /\ Cardinality(s) <= N
  BY FS_Subset, FS_CardinalityType
<1>3. iter = [s \in SUBSET S |-> Fed(s, iter)]
  <2>1. \E h : h = [s \in SUBSET S |-> Fed(s, h)]
    BY FeedIterates
  <2> QED BY <2>1
<1>4. Feed(S) = iter[S]
  BY DEF Feed, FoldSet, MapThenFoldSet, Fed, Followed
<1> HIDE DEF iter
<1>5. ASSUME bad # {} PROVE FALSE
  <2>1. PICK m \in bad : \A j \in bad : m <= j
    <3> HIDE DEF bad
    <3>1. bad \in SUBSET (0..N)
      BY DEF bad
    <3> QED BY <1>1, <1>5, <3>1, LeastFromZero
  <2>2. PICK s \in SUBSET S : Cardinality(s) = m /\ ~Counts(s)
    OBVIOUS
  <2>3. iter[s] = Fed(s, iter)
    BY <1>3
  <2>4. CASE s = {}
    <3>1. iter[s] = counter /\ Cardinality(s) = 0
      BY <2>3, <2>4, FS_EmptySet DEF Fed
    <3> QED BY <2>2, <3>1 DEF IsCounter
  <2>5. CASE s # {}
    <3> DEFINE less == s \ {Followed(s)}
    <3>1. less \in SUBSET S /\ Cardinality(less) = m - 1 /\ m - 1 \in 0..N
      <4>1. less \in SUBSET S /\ Cardinality(less) = m - 1 /\ Cardinality(less) \in Nat
        BY <1>2, <2>2, <2>5, OneLess
      <4>2. Cardinality(less) <= N
        <5> HIDE DEF less, N
        <5> QED BY <1>2, <4>1
      <4> HIDE DEF less, N
      <4> QED BY <1>1, <4>1, <4>2
    <3>2. Counts(less)
      <4> HIDE DEF less, Counts
      <4>1. m - 1 \notin bad
        BY <2>1, <3>1
      <4> QED BY <3>1, <4>1
    <3>3. iter[s] = Flag(iter[less], Operative(docket[Followed(s)]).rule)
      BY <2>3, <2>5 DEF Fed
    <3> HIDE DEF less
    <3>4. IsCounter(iter[s]) /\ iter[s].flags = iter[less].flags + 1
      BY <3>2, <3>3, FlagCounts
    <3>5. iter[s].flags = counter.flags + m
      BY <3>1, <3>2, <3>4 DEF IsCounter
    <3> QED BY <2>2, <3>4, <3>5
  <2> QED BY <2>4, <2>5
<1>6. Counts(S)
  <2> HIDE DEF Counts
  <2>1. N \in 0..N /\ N \notin bad
    BY <1>1, <1>5
  <2> QED BY <2>1
<1> QED BY <1>4, <1>6

-----------------------------------------------------------------------------
(* Every row that claims a write is of one that happened *)

RowAt(x) == docket[x[1]].remedies[x[2]]

\* The inductive invariant: the claims, and what is counted is finite.
ClaimsInv ==
  /\ IsCounter(counter)
  /\ DOMAIN grants = Grants
  /\ \A kind \in {"grant", "revoke"} : \A x \in RowsOf(kind) : RowAt(x).what \in Grants
  /\ IsFiniteSet(RowsOf("referral")) /\ IsFiniteSet(Relied) /\ IsFiniteSet(ReliedOnAppeal)
  /\ ClaimedWritesHappened

\* What a step leaves of the docket: a case put down has no row and follows nothing.
OldCasesStay == DOMAIN docket \subseteq DOMAIN docket'
SameRows == /\ OldCasesStay
            /\ \A j \in DOMAIN docket : docket'[j].remedies = docket[j].remedies
            /\ \A j \in DOMAIN docket' \ DOMAIN docket : docket'[j].remedies = <<>>
SameReliance == /\ OldCasesStay
                /\ \A j \in DOMAIN docket : docket'[j].judgment.follows = docket[j].judgment.follows
                /\ \A j \in DOMAIN docket' \ DOMAIN docket : docket'[j].judgment.follows = {}
SameRelianceOnAppeal ==
  /\ OldCasesStay
  /\ \A j \in DOMAIN docket : docket'[j].appeal.judgment.follows = docket[j].appeal.judgment.follows
  /\ \A j \in DOMAIN docket' \ DOMAIN docket : docket'[j].appeal.judgment.follows = {}

LEMMA SameRowsCount ==
  ASSUME SameRows, NEW kind
  PROVE  /\ RowsOf(kind)' = RowsOf(kind)
         /\ \A x \in RowsOf(kind) : RowAt(x)' = RowAt(x)
<1> DEFINE places == UNION {{i} \X DOMAIN docket[i].remedies : i \in DOMAIN docket}
           after == UNION {{i} \X DOMAIN docket'[i].remedies : i \in DOMAIN docket'}
<1>1. \A x : x \in places <=> \E i \in DOMAIN docket : x \in {i} \X DOMAIN docket[i].remedies
  OBVIOUS
<1>2. \A x : x \in after <=> \E i \in DOMAIN docket' : x \in {i} \X DOMAIN docket'[i].remedies
  OBVIOUS
<1> HIDE DEF places, after
<1>3. ASSUME NEW x \in places
      PROVE  x \in after /\ RowAt(x)' = RowAt(x)
  <2>1. PICK i \in DOMAIN docket : x \in {i} \X DOMAIN docket[i].remedies
    BY <1>1
  <2>2. i \in DOMAIN docket' /\ docket'[i].remedies = docket[i].remedies /\ x[1] = i
    BY <2>1 DEF SameRows, OldCasesStay
  <2> QED BY <1>2, <2>1, <2>2 DEF RowAt
<1>4. ASSUME NEW x \in after
      PROVE  x \in places
  <2>1. PICK i \in DOMAIN docket' : x \in {i} \X DOMAIN docket'[i].remedies
    BY <1>2
  <2>2. DOMAIN docket'[i].remedies # {}
    BY <2>1
  <2>3. DOMAIN <<>> = {}
    OBVIOUS
  <2>4. i \in DOMAIN docket
    BY <2>2, <2>3 DEF SameRows
  <2>5. x \in {i} \X DOMAIN docket[i].remedies
    BY <2>1, <2>4 DEF SameRows
  <2> QED BY <1>1, <2>4, <2>5
<1>5. RowsOf(kind) = {x \in places : RowAt(x).kind = kind}
  BY DEF RowsOf, places, RowAt
<1>6. RowsOf(kind)' = {x \in after : RowAt(x)'.kind = kind}
  BY DEF RowsOf, after, RowAt
<1>7. ASSUME NEW x
      PROVE  x \in RowsOf(kind)' <=> x \in RowsOf(kind)
  <2>1. x \in RowsOf(kind)' <=> x \in after /\ RowAt(x)'.kind = kind
    BY <1>6
  <2>2. x \in RowsOf(kind) <=> x \in places /\ RowAt(x).kind = kind
    BY <1>5
  <2> QED BY <1>3, <1>4, <2>1, <2>2
<1>8. RowsOf(kind)' = RowsOf(kind)
  BY <1>7
<1> QED BY <1>3, <1>5, <1>8

LEMMA SameRelianceCounts ==
  ASSUME SameReliance
  PROVE  Relied' = Relied
<1>1. \A x : x \in Relied <=> \E i \in DOMAIN docket : x \in {i} \X docket[i].judgment.follows
  BY DEF Relied
<1>2. \A x : x \in Relied' <=> \E i \in DOMAIN docket' : x \in {i} \X docket'[i].judgment.follows
  BY DEF Relied
<1>3. ASSUME NEW x
      PROVE  x \in Relied <=> x \in Relied'
  <2>1. ASSUME NEW i \in DOMAIN docket, x \in {i} \X docket[i].judgment.follows
        PROVE  x \in Relied'
    BY <1>2, <2>1 DEF SameReliance, OldCasesStay
  <2>2. ASSUME NEW i \in DOMAIN docket', x \in {i} \X docket'[i].judgment.follows
        PROVE  x \in Relied
    <3>1. docket'[i].judgment.follows # {}
      BY <2>2
    <3>2. i \in DOMAIN docket
      BY <3>1 DEF SameReliance
    <3> QED BY <1>1, <2>2, <3>2 DEF SameReliance
  <2> QED BY <1>1, <1>2, <2>1, <2>2
<1> QED BY <1>3

LEMMA SameRelianceOnAppealCounts ==
  ASSUME SameRelianceOnAppeal
  PROVE  ReliedOnAppeal' = ReliedOnAppeal
<1>1. \A x : x \in ReliedOnAppeal <=>
               \E i \in DOMAIN docket : x \in {i} \X docket[i].appeal.judgment.follows
  BY DEF ReliedOnAppeal
<1>2. \A x : x \in ReliedOnAppeal' <=>
               \E i \in DOMAIN docket' : x \in {i} \X docket'[i].appeal.judgment.follows
  BY DEF ReliedOnAppeal
<1>3. ASSUME NEW x
      PROVE  x \in ReliedOnAppeal <=> x \in ReliedOnAppeal'
  <2>1. ASSUME NEW i \in DOMAIN docket, x \in {i} \X docket[i].appeal.judgment.follows
        PROVE  x \in ReliedOnAppeal'
    BY <1>2, <2>1 DEF SameRelianceOnAppeal, OldCasesStay
  <2>2. ASSUME NEW i \in DOMAIN docket', x \in {i} \X docket'[i].appeal.judgment.follows
        PROVE  x \in ReliedOnAppeal
    <3>1. docket'[i].appeal.judgment.follows # {}
      BY <2>2
    <3>2. i \in DOMAIN docket
      BY <3>1 DEF SameRelianceOnAppeal
    <3> QED BY <1>1, <2>2, <3>2 DEF SameRelianceOnAppeal
  <2> QED BY <1>1, <1>2, <2>1, <2>2
<1> QED BY <1>3

\* A step that writes no row and follows nothing keeps the claims, whatever it grants.
LEMMA QuietKeepsClaims ==
  ASSUME ClaimsInv, SameRows, SameReliance, SameRelianceOnAppeal, counter' = counter,
         \/ grants' = grants
         \/ \E r : WriteGrant(r)
  PROVE  ClaimsInv'
<1>1. /\ DOMAIN grants' = DOMAIN grants
      /\ \A g \in DOMAIN grants : /\ grants[g] # "none" => grants'[g] # "none"
                                  /\ grants[g] = "revoked" => grants'[g] = "revoked"
  <2>1. CASE grants' = grants
    BY <2>1
  <2>2. ASSUME NEW r, WriteGrant(r)
        PROVE  /\ DOMAIN grants' = DOMAIN grants
               /\ \A g \in DOMAIN grants : /\ grants[g] # "none" => grants'[g] # "none"
                                           /\ grants[g] = "revoked" => grants'[g] = "revoked"
    BY <2>2 DEF WriteGrant
  <2> QED BY <2>1, <2>2
<1>2. /\ Relied' = Relied /\ ReliedOnAppeal' = ReliedOnAppeal
      /\ \A kind \in {"grant", "revoke", "referral"} :
           RowsOf(kind)' = RowsOf(kind) /\ \A x \in RowsOf(kind) : RowAt(x)' = RowAt(x)
  BY SameRowsCount, SameRelianceCounts, SameRelianceOnAppealCounts
<1>3. /\ IsCounter(counter)' /\ IsFiniteSet(RowsOf("referral"))'
      /\ IsFiniteSet(Relied)' /\ IsFiniteSet(ReliedOnAppeal)'
  BY <1>2 DEF ClaimsInv, IsCounter
<1>4. /\ DOMAIN grants = Grants
      /\ \A kind \in {"grant", "revoke"} : \A x \in RowsOf(kind) : RowAt(x).what \in Grants
      /\ \A x \in RowsOf("grant") : grants[RowAt(x).what] # "none"
      /\ \A x \in RowsOf("revoke") : grants[RowAt(x).what] = "revoked"
      /\ counter.flags = Cardinality(RowsOf("referral"))
                           + Cardinality(Relied) + Cardinality(ReliedOnAppeal)
  BY DEF ClaimsInv, ClaimedWritesHappened, RowAt
<1>5. (\A x \in RowsOf("grant") : grants[RowAt(x).what] # "none")'
  BY <1>1, <1>2, <1>4
<1>6. (\A x \in RowsOf("revoke") : grants[RowAt(x).what] = "revoked")'
  BY <1>1, <1>2, <1>4
<1>7. counter'.flags = Cardinality(RowsOf("referral")')
                         + Cardinality(Relied') + Cardinality(ReliedOnAppeal')
  BY <1>2, <1>4
<1>8. ClaimedWritesHappened'
  BY <1>5, <1>6, <1>7 DEF ClaimedWritesHappened, RowAt
<1>9. (\A kind \in {"grant", "revoke"} : \A x \in RowsOf(kind) : RowAt(x).what \in Grants)'
  BY <1>1, <1>2, <1>4
<1>10. DOMAIN grants' = Grants
  BY <1>1, <1>4
<1> QED BY <1>3, <1>8, <1>9, <1>10 DEF ClaimsInv

\* The three steps that claim a write.

LEMMA ReliedGrows ==
  ASSUME JudicatureInv, NEW i \in DOMAIN docket, NEW d \in CaseRecords,
         docket' = [docket EXCEPT ![i] = d], docket[i].judgment.follows = {}
  PROVE  /\ Relied' = Relied \cup ({i} \X d.judgment.follows)
         /\ Relied \cap ({i} \X d.judgment.follows) = {}
<1>1. DOMAIN docket' = DOMAIN docket /\ docket'[i] = d
      /\ \A j \in DOMAIN docket : j # i => docket'[j] = docket[j]
  BY CaseMoved DEF JudicatureInv
<1>2. \A x : x \in Relied <=> \E j \in DOMAIN docket : x \in {j} \X docket[j].judgment.follows
  BY DEF Relied
<1>3. \A x : x \in Relied' <=> \E j \in DOMAIN docket' : x \in {j} \X docket'[j].judgment.follows
  BY DEF Relied
<1>4. ASSUME NEW x
      PROVE  x \in Relied' <=> x \in Relied \cup ({i} \X d.judgment.follows)
  <2>1. ASSUME x \in Relied PROVE x \in Relied'
    BY <1>1, <1>2, <1>3, <2>1
  <2>2. ASSUME x \in {i} \X d.judgment.follows PROVE x \in Relied'
    BY <1>1, <1>3, <2>2
  <2>3. ASSUME x \in Relied' PROVE x \in Relied \cup ({i} \X d.judgment.follows)
    BY <1>1, <1>2, <1>3, <2>3
  <2> QED BY <2>1, <2>2, <2>3
<1>5. ASSUME NEW x \in Relied, x \in {i} \X d.judgment.follows
      PROVE  FALSE
  <2>1. PICK j \in DOMAIN docket : x \in {j} \X docket[j].judgment.follows
    BY <1>2
  <2>2. j = i
    BY <1>5, <2>1
  <2> QED BY <2>1, <2>2
<1> QED BY <1>4, <1>5

LEMMA ReliedOnAppealGrows ==
  ASSUME JudicatureInv, NEW i \in DOMAIN docket, NEW d \in CaseRecords,
         docket' = [docket EXCEPT ![i] = d], docket[i].appeal.judgment.follows = {}
  PROVE  /\ ReliedOnAppeal' = ReliedOnAppeal \cup ({i} \X d.appeal.judgment.follows)
         /\ ReliedOnAppeal \cap ({i} \X d.appeal.judgment.follows) = {}
<1>1. DOMAIN docket' = DOMAIN docket /\ docket'[i] = d
      /\ \A j \in DOMAIN docket : j # i => docket'[j] = docket[j]
  BY CaseMoved DEF JudicatureInv
<1>2. \A x : x \in ReliedOnAppeal <=>
               \E j \in DOMAIN docket : x \in {j} \X docket[j].appeal.judgment.follows
  BY DEF ReliedOnAppeal
<1>3. \A x : x \in ReliedOnAppeal' <=>
               \E j \in DOMAIN docket' : x \in {j} \X docket'[j].appeal.judgment.follows
  BY DEF ReliedOnAppeal
<1>4. ASSUME NEW x
      PROVE  x \in ReliedOnAppeal' <=> x \in ReliedOnAppeal \cup ({i} \X d.appeal.judgment.follows)
  <2>1. ASSUME x \in ReliedOnAppeal PROVE x \in ReliedOnAppeal'
    BY <1>1, <1>2, <1>3, <2>1
  <2>2. ASSUME x \in {i} \X d.appeal.judgment.follows PROVE x \in ReliedOnAppeal'
    BY <1>1, <1>3, <2>2
  <2>3. ASSUME x \in ReliedOnAppeal'
        PROVE  x \in ReliedOnAppeal \cup ({i} \X d.appeal.judgment.follows)
    BY <1>1, <1>2, <1>3, <2>3
  <2> QED BY <2>1, <2>2, <2>3
<1>5. ASSUME NEW x \in ReliedOnAppeal, x \in {i} \X d.appeal.judgment.follows
      PROVE  FALSE
  <2>1. PICK j \in DOMAIN docket : x \in {j} \X docket[j].appeal.judgment.follows
    BY <1>2
  <2>2. j = i
    BY <1>5, <2>1
  <2> QED BY <2>1, <2>2
<1> QED BY <1>4, <1>5

\* A row is attached to case i, which becomes d; and of the rows of one kind, there
\* is this one more, at place n of the case's rows.
RowAttached(i, d, row, n) ==
  /\ d \in CaseRecords /\ row \in Rows /\ n = Len(docket[i].remedies) + 1
  /\ docket' = [docket EXCEPT ![i] = d] /\ d.remedies = Append(docket[i].remedies, row)

OneRowMore(x, row, kind) ==
  /\ RowsOf(kind)' = RowsOf(kind) \cup (IF row.kind = kind THEN {x} ELSE {})
  /\ x \notin RowsOf(kind) /\ RowAt(x)' = row
  /\ \A y \in RowsOf(kind) : RowAt(y)' = RowAt(y)

\* A row attached has a place of its own.
LEMMA RowsGrow ==
  ASSUME JudicatureInv, NEW i \in DOMAIN docket, NEW d, NEW row, NEW n, RowAttached(i, d, row, n),
         NEW kind
  PROVE  OneRowMore(<<i, n>>, row, kind)
<1> USE DEF RowAttached
<1> DEFINE x == <<i, n>>
           places == UNION {{j} \X DOMAIN docket[j].remedies : j \in DOMAIN docket}
           after == UNION {{j} \X DOMAIN docket'[j].remedies : j \in DOMAIN docket'}
<1>1. DOMAIN docket' = DOMAIN docket /\ docket'[i] = d
      /\ \A j \in DOMAIN docket : j # i => docket'[j] = docket[j]
  BY CaseMoved DEF JudicatureInv
<1>2. /\ docket[i].remedies \in Seq(Rows) /\ Len(docket[i].remedies) \in Nat
      /\ DOMAIN docket[i].remedies = 1..Len(docket[i].remedies)
  BY CaseAt DEF CaseRecords
<1>3. /\ DOMAIN d.remedies = DOMAIN docket[i].remedies \cup {n}
      /\ d.remedies[n] = row
      /\ \A k \in DOMAIN docket[i].remedies : d.remedies[k] = docket[i].remedies[k]
      /\ n \notin DOMAIN docket[i].remedies
  BY <1>2, AppendProperties
<1>4. \A y : y \in places <=> \E j \in DOMAIN docket : y \in {j} \X DOMAIN docket[j].remedies
  OBVIOUS
<1>5. \A y : y \in after <=> \E j \in DOMAIN docket' : y \in {j} \X DOMAIN docket'[j].remedies
  OBVIOUS
<1>6. RowsOf(kind) = {y \in places : RowAt(y).kind = kind}
  BY DEF RowsOf, places, RowAt
<1>7. RowsOf(kind)' = {y \in after : RowAt(y)'.kind = kind}
  BY DEF RowsOf, after, RowAt
<1> HIDE DEF places, after
<1>8. x \notin places /\ x \in after /\ RowAt(x)' = row
  <2>1. x \notin places
    BY <1>3, <1>4
  <2>2. x \in after
    BY <1>1, <1>3, <1>5
  <2>3. RowAt(x)' = row
    <3>1. x[1] = i /\ x[2] = n
      OBVIOUS
    <3>2. RowAt(x)' = d.remedies[n]
      BY <1>1, <3>1 DEF RowAt
    <3> QED BY <1>3, <3>2
  <2> QED BY <2>1, <2>2, <2>3
<1>9. ASSUME NEW y \in places
      PROVE  y \in after /\ RowAt(y)' = RowAt(y)
  <2>1. PICK j \in DOMAIN docket : y \in {j} \X DOMAIN docket[j].remedies
    BY <1>4
  <2>2. y[1] = j /\ y[2] \in DOMAIN docket[j].remedies
    BY <2>1
  <2>3. y \in {j} \X DOMAIN docket'[j].remedies /\ docket'[j].remedies[y[2]] = docket[j].remedies[y[2]]
    <3>1. CASE j = i
      BY <1>1, <1>3, <2>1, <2>2, <3>1
    <3>2. CASE j # i
      BY <1>1, <2>1, <3>2
    <3> QED BY <3>1, <3>2
  <2> QED BY <1>1, <1>5, <2>1, <2>2, <2>3 DEF RowAt
<1>10. ASSUME NEW y \in after, y # x
       PROVE  y \in places
  <2>1. PICK j \in DOMAIN docket : y \in {j} \X DOMAIN docket'[j].remedies
    BY <1>1, <1>5
  <2>2. CASE j = i
    <3>1. y \in {i} \X DOMAIN docket[i].remedies
      BY <1>1, <1>3, <1>10, <2>1, <2>2
    <3> QED BY <1>4, <3>1
  <2>3. CASE j # i
    BY <1>1, <1>4, <2>1, <2>3
  <2> QED BY <2>2, <2>3
<1> HIDE DEF x
<1>11. ASSUME NEW y
       PROVE  y \in RowsOf(kind)' <=> y \in RowsOf(kind) \cup (IF row.kind = kind THEN {x} ELSE {})
  <2>1. CASE y = x
    <3>1. y \in RowsOf(kind)' <=> row.kind = kind
      <4>1. y \in after /\ RowAt(y)' = row
        BY <1>8, <2>1
      <4> QED BY <1>7, <4>1
    <3>2. y \notin RowsOf(kind)
      BY <1>6, <1>8, <2>1
    <3> QED BY <2>1, <3>1, <3>2
  <2>2. CASE y # x
    BY <1>6, <1>7, <1>9, <1>10, <2>2
  <2> QED BY <2>1, <2>2
<1>12. RowsOf(kind)' = RowsOf(kind) \cup (IF row.kind = kind THEN {x} ELSE {})
  BY <1>11
<1>13. x \notin RowsOf(kind) /\ \A y \in RowsOf(kind) : RowAt(y)' = RowAt(y)
  BY <1>6, <1>8, <1>9
<1> QED BY <1>8, <1>12, <1>13 DEF x, OneRowMore

LEMMA OneByEach ==
  ASSUME NEW i, NEW S, IsFiniteSet(S), NEW T, IsFiniteSet(T), T \cap ({i} \X S) = {}
  PROVE  /\ IsFiniteSet(T \cup ({i} \X S))
         /\ Cardinality(T \cup ({i} \X S)) = Cardinality(T) + Cardinality(S)
<1>1. IsFiniteSet({i}) /\ Cardinality({i}) = 1
  BY FS_Singleton
<1>2. Cardinality(S) \in Nat /\ Cardinality(T) \in Nat
  BY FS_CardinalityType
<1>3. IsFiniteSet({i} \X S) /\ Cardinality({i} \X S) = Cardinality(S)
  <2>1. IsFiniteSet({i} \X S) /\ Cardinality({i} \X S) = Cardinality({i}) * Cardinality(S)
    BY <1>1, FS_Product
  <2> QED BY ONLY <1>1, <1>2, <2>1
<1>4. Cardinality(T \cap ({i} \X S)) = 0
  BY FS_EmptySet
<1> DEFINE P == {i} \X S
<1>5. IsFiniteSet(P) /\ Cardinality(P) = Cardinality(S) /\ Cardinality(T \cap P) = 0
  BY <1>3, <1>4
<1> HIDE DEF P
<1>6. IsFiniteSet(T \cup P) /\ Cardinality(T \cup P) = Cardinality(T) + Cardinality(P) - Cardinality(T \cap P)
  BY <1>5, FS_Union
<1>7. Cardinality(T \cup P) = Cardinality(T) + Cardinality(S)
  BY <1>2, <1>5, <1>6
<1> QED BY <1>6, <1>7 DEF P

\* What the claims are, with their counts as numbers.
LEMMA ClaimsRead ==
  ASSUME ClaimsInv
  PROVE  /\ DOMAIN grants = Grants
         /\ \A kind \in {"grant", "revoke"} : \A x \in RowsOf(kind) : RowAt(x).what \in Grants
         /\ \A x \in RowsOf("grant") : grants[RowAt(x).what] # "none"
         /\ \A x \in RowsOf("revoke") : grants[RowAt(x).what] = "revoked"
         /\ counter.flags = Cardinality(RowsOf("referral"))
                              + Cardinality(Relied) + Cardinality(ReliedOnAppeal)
         /\ Cardinality(RowsOf("referral")) \in Nat /\ Cardinality(Relied) \in Nat
         /\ Cardinality(ReliedOnAppeal) \in Nat /\ counter.flags \in Nat
BY FS_CardinalityType DEF ClaimsInv, ClaimedWritesHappened, RowAt, IsCounter

\* A step that writes no row keeps what the rows claim of the store.
LEMMA SameStoreSameClaims ==
  ASSUME ClaimsInv, SameRows, grants' = grants, IsCounter(counter'),
         IsFiniteSet(Relied'), IsFiniteSet(ReliedOnAppeal'),
         counter'.flags = Cardinality(RowsOf("referral"))
                            + Cardinality(Relied') + Cardinality(ReliedOnAppeal')
  PROVE  ClaimsInv'
<1>1. \A kind \in {"grant", "revoke", "referral"} :
        RowsOf(kind)' = RowsOf(kind) /\ \A x \in RowsOf(kind) : RowAt(x)' = RowAt(x)
  BY SameRowsCount
<1>2. IsCounter(counter)' /\ IsFiniteSet(RowsOf("referral"))'
  BY <1>1 DEF ClaimsInv, IsCounter
<1>3. (\A kind \in {"grant", "revoke"} : \A x \in RowsOf(kind) : RowAt(x).what \in Grants)'
  BY <1>1, ClaimsRead
<1>4. /\ (\A x \in RowsOf("grant") : grants[RowAt(x).what] # "none")'
      /\ (\A x \in RowsOf("revoke") : grants[RowAt(x).what] = "revoked")'
  BY <1>1, ClaimsRead
<1>5. counter'.flags = Cardinality(RowsOf("referral")')
                         + Cardinality(Relied') + Cardinality(ReliedOnAppeal')
  BY <1>1
<1>6. ClaimedWritesHappened'
  BY <1>4, <1>5 DEF ClaimedWritesHappened, RowAt
<1>7. DOMAIN grants' = Grants
  BY ClaimsRead
<1> QED BY <1>2, <1>3, <1>6, <1>7 DEF ClaimsInv

LEMMA PriorsAreFinite ==
  ASSUME JudicatureInv, NEW i, NEW follows \in SUBSET (Landed \ {i})
  PROVE  IsFiniteSet(follows)
<1>1. DOMAIN docket = 1..Len(docket) /\ Len(docket) \in Nat
  BY DEF JudicatureInv, JudicatureTypeOK
<1>2. follows \subseteq 1..Len(docket) /\ IsFiniteSet(1..Len(docket))
  BY <1>1, FS_Interval DEF Landed
<1> QED BY <1>2, FS_Subset

LEMMA JudgeKeepsClaims ==
  ASSUME JudicatureInv, ClaimsInv, NEW p \in Sessions, NEW i \in DOMAIN docket, NEW seat \in Roles,
         Judge(p, i, seat)
  PROVE  ClaimsInv'
<1>1. PICK rule \in Rules, follows \in SUBSET (Landed \ {i}) :
        /\ docket' = [docket EXCEPT ![i].judgment = Judgment(p, seat, rule, follows)]
        /\ counter' = Feed(follows)
  BY DEF Judge
<1> DEFINE c == docket[i]
           j == Judgment(p, seat, rule, follows)
           d == [c EXCEPT !.judgment = j]
<1>2. docket' = [docket EXCEPT ![i] = d] /\ grants' = grants
  BY <1>1 DEF Judge
<1>3. c \in CaseRecords /\ CaseInv(c) /\ ~Judged(c) /\ c.panel.status = "panel" /\ Sits(p, c.panel, seat)
  BY CaseAt DEF Judge
<1>4. follows \in SUBSET Nat /\ rule \in Rules /\ IsFiniteSet(follows)
  BY <1>1, LandedAreNumbers, PriorsAreFinite
<1>5. /\ d \in CaseRecords /\ d.judgment = j
      /\ d.appeal = c.appeal /\ d.remedies = c.remedies
  BY <1>3, <1>4, JudgedCase DEF JudicatureInv
<1>6. j.follows = follows /\ c.judgment.follows = {}
  BY <1>3 DEF Judgment, Judged, NoJudgment
<1> HIDE DEF d, j
<1>7. DOMAIN docket' = DOMAIN docket /\ docket'[i] = d
      /\ \A k \in DOMAIN docket : k # i => docket'[k] = docket[k]
  BY <1>2, <1>5, CaseMoved DEF JudicatureInv
<1>8. SameRows /\ SameRelianceOnAppeal
  BY <1>5, <1>7 DEF SameRows, SameRelianceOnAppeal, OldCasesStay
<1>9. Relied' = Relied \cup ({i} \X follows) /\ Relied \cap ({i} \X follows) = {}
  BY <1>2, <1>5, <1>6, ReliedGrows
<1>10. ReliedOnAppeal' = ReliedOnAppeal
  BY <1>8, SameRelianceOnAppealCounts
<1>11. IsFiniteSet(Relied') /\ Cardinality(Relied') = Cardinality(Relied) + Cardinality(follows)
  BY <1>4, <1>9, OneByEach DEF ClaimsInv
<1>12. IsCounter(counter') /\ counter'.flags = counter.flags + Cardinality(follows)
  BY <1>1, <1>4, FeedCounts DEF ClaimsInv
<1>13. Cardinality(follows) \in Nat
  BY <1>4, FS_CardinalityType
<1>14. counter'.flags = Cardinality(RowsOf("referral"))
                          + Cardinality(Relied') + Cardinality(ReliedOnAppeal')
  BY <1>10, <1>11, <1>12, <1>13, ClaimsRead
<1>15. IsFiniteSet(ReliedOnAppeal')
  BY <1>10 DEF ClaimsInv
<1> QED BY <1>2, <1>8, <1>11, <1>12, <1>14, <1>15, SameStoreSameClaims

LEMMA JudgeAppealKeepsClaims ==
  ASSUME JudicatureInv, ClaimsInv, NEW p \in Sessions, NEW i \in DOMAIN docket, NEW seat \in Roles,
         JudgeAppeal(p, i, seat)
  PROVE  ClaimsInv'
<1>1. PICK rule \in Rules, follows \in SUBSET (Landed \ {i}) :
        /\ docket' = [docket EXCEPT ![i].appeal.judgment = Judgment(p, seat, rule, follows)]
        /\ counter' = Feed(follows)
  BY DEF JudgeAppeal
<1> DEFINE c == docket[i]
           j == Judgment(p, seat, rule, follows)
           d == [c EXCEPT !.appeal.judgment = j]
<1>2. docket' = [docket EXCEPT ![i] = d] /\ grants' = grants
  BY <1>1 DEF JudgeAppeal
<1>3. /\ c \in CaseRecords /\ CaseInv(c) /\ Appealed(c) /\ ~Finally(c)
      /\ c.appeal.panel.status = "panel" /\ Sits(p, c.appeal.panel, seat)
  BY CaseAt DEF JudgeAppeal
<1>4. follows \in SUBSET Nat /\ rule \in Rules /\ IsFiniteSet(follows)
  BY <1>1, LandedAreNumbers, PriorsAreFinite
<1>5. /\ d \in CaseRecords /\ d.judgment = c.judgment
      /\ d.appeal.judgment = j /\ d.remedies = c.remedies
  BY <1>3, <1>4, FinalCase
<1>6. j.follows = follows /\ c.appeal.judgment.follows = {}
  BY <1>3 DEF Judgment, Finally, NoJudgment
<1> HIDE DEF d, j
<1>7. DOMAIN docket' = DOMAIN docket /\ docket'[i] = d
      /\ \A k \in DOMAIN docket : k # i => docket'[k] = docket[k]
  BY <1>2, <1>5, CaseMoved DEF JudicatureInv
<1>8. SameRows /\ SameReliance
  BY <1>5, <1>7 DEF SameRows, SameReliance, OldCasesStay
<1>9. /\ ReliedOnAppeal' = ReliedOnAppeal \cup ({i} \X follows)
      /\ ReliedOnAppeal \cap ({i} \X follows) = {}
  BY <1>2, <1>5, <1>6, ReliedOnAppealGrows
<1>10. Relied' = Relied
  BY <1>8, SameRelianceCounts
<1>11. /\ IsFiniteSet(ReliedOnAppeal')
       /\ Cardinality(ReliedOnAppeal') = Cardinality(ReliedOnAppeal) + Cardinality(follows)
  BY <1>4, <1>9, OneByEach DEF ClaimsInv
<1>12. IsCounter(counter') /\ counter'.flags = counter.flags + Cardinality(follows)
  BY <1>1, <1>4, FeedCounts DEF ClaimsInv
<1>13. Cardinality(follows) \in Nat
  BY <1>4, FS_CardinalityType
<1>14. counter'.flags = Cardinality(RowsOf("referral"))
                          + Cardinality(Relied') + Cardinality(ReliedOnAppeal')
  BY <1>10, <1>11, <1>12, <1>13, ClaimsRead
<1>15. IsFiniteSet(Relied')
  BY <1>10 DEF ClaimsInv
<1> QED BY <1>2, <1>8, <1>11, <1>12, <1>14, <1>15, SameStoreSameClaims

LEMMA RemedyKeepsClaims ==
  ASSUME JudicatureInv, ClaimsInv, NEW p \in Sessions, NEW i \in DOMAIN docket, NEW seat \in Roles,
         Remedy(p, i, seat)
  PROVE  ClaimsInv'
<1>1. PICK r \in Remedies :
        /\ \/ r.kind = "row" /\ UNCHANGED <<grants, counter>>
           \/ r.kind = "grant" /\ WriteGrant(r) /\ UNCHANGED counter
           \/ r.kind = "revoke" /\ RevokeHeld(r) /\ UNCHANGED counter
           \/ r.kind = "referral" /\ counter' = Flag(counter, r.what) /\ UNCHANGED grants
        /\ Attach(i, seat, r)
  BY DEF Remedy
<1> DEFINE row == [kind |-> r.kind, what |-> r.what, seat |-> seat]
           d == [docket[i] EXCEPT !.remedies = Append(@, row)]
<1>n. PICK n : n = Len(docket[i].remedies) + 1
  OBVIOUS
<1> DEFINE x == <<i, n>>
<1>2. docket' = [docket EXCEPT ![i] = d]
  BY <1>1 DEF Attach
<1>3. row \in Rows /\ row.kind = r.kind /\ row.what = r.what
  BY DEF Remedies, Rows
<1> HIDE DEF row
<1>4. /\ d \in CaseRecords /\ d.judgment = docket[i].judgment /\ d.appeal = docket[i].appeal
      /\ d.remedies = Append(docket[i].remedies, row)
  BY <1>3, CaseAt, RemediedCase
<1> HIDE DEF d
<1>5. DOMAIN docket' = DOMAIN docket /\ docket'[i] = d
      /\ \A k \in DOMAIN docket : k # i => docket'[k] = docket[k]
  BY <1>2, <1>4, CaseMoved DEF JudicatureInv
<1>6. SameReliance /\ SameRelianceOnAppeal
  BY <1>4, <1>5 DEF SameReliance, SameRelianceOnAppeal, OldCasesStay
<1>7. Relied' = Relied /\ ReliedOnAppeal' = ReliedOnAppeal
  BY <1>6, SameRelianceCounts, SameRelianceOnAppealCounts
<1>8. \A kind \in {"grant", "revoke", "referral"} :
        /\ RowsOf(kind)' = RowsOf(kind) \cup (IF row.kind = kind THEN {x} ELSE {})
        /\ x \notin RowsOf(kind) /\ RowAt(x)' = row
        /\ \A y \in RowsOf(kind) : RowAt(y)' = RowAt(y)
  <2> SUFFICES ASSUME NEW kind \in {"grant", "revoke", "referral"}
               PROVE  /\ RowsOf(kind)' = RowsOf(kind) \cup (IF row.kind = kind THEN {x} ELSE {})
                      /\ x \notin RowsOf(kind) /\ RowAt(x)' = row
                      /\ \A y \in RowsOf(kind) : RowAt(y)' = RowAt(y)
    OBVIOUS
  <2>1. RowAttached(i, d, row, n)
    BY <1>n, <1>2, <1>3, <1>4 DEF RowAttached
  <2>2. OneRowMore(<<i, n>>, row, kind)
    BY <2>1, RowsGrow
  <2> QED BY <2>2 DEF OneRowMore
<1> HIDE DEF x
<1>9. /\ DOMAIN grants' = Grants /\ DOMAIN grants = Grants
      /\ \A g \in Grants : /\ grants[g] # "none" => grants'[g] # "none"
                           /\ grants[g] = "revoked" => grants'[g] = "revoked"
  <2>1. DOMAIN grants = Grants
    BY ClaimsRead
  <2> QED BY <1>1, <2>1 DEF WriteGrant, RevokeHeld
<1>10. row.kind = "grant" => row.what \in Grants /\ grants'[row.what] # "none"
  <2> SUFFICES ASSUME row.kind = "grant"
               PROVE  row.what \in Grants /\ grants'[row.what] # "none"
    OBVIOUS
  <2>1. r.what \in Grants /\ WriteGrant(r)
    BY <1>1, <1>3 DEF Remedies
  <2> QED BY <1>3, <1>9, <2>1 DEF WriteGrant
<1>11. row.kind = "revoke" => row.what \in Grants /\ grants'[row.what] = "revoked"
  <2> SUFFICES ASSUME row.kind = "revoke"
               PROVE  row.what \in Grants /\ grants'[row.what] = "revoked"
    OBVIOUS
  <2>1. r.what \in Grants /\ RevokeHeld(r)
    BY <1>1, <1>3 DEF Remedies
  <2> QED BY <1>3, <1>9, <2>1 DEF RevokeHeld
<1>12. (\A kind \in {"grant", "revoke"} : \A y \in RowsOf(kind) : RowAt(y).what \in Grants)'
  BY <1>8, <1>10, <1>11, ClaimsRead
<1>13. (\A y \in RowsOf("grant") : grants[RowAt(y).what] # "none")'
  BY <1>8, <1>9, <1>10, ClaimsRead
<1>14. (\A y \in RowsOf("revoke") : grants[RowAt(y).what] = "revoked")'
  BY <1>8, <1>9, <1>11, ClaimsRead
<1>15. /\ IsCounter(counter') /\ IsFiniteSet(RowsOf("referral")')
       /\ counter'.flags = Cardinality(RowsOf("referral")')
                             + Cardinality(Relied') + Cardinality(ReliedOnAppeal')
  <2>1. IsFiniteSet(RowsOf("referral")) /\ IsCounter(counter)
    BY DEF ClaimsInv
  <2>2. CASE row.kind = "referral"
    <3>1. RowsOf("referral")' = RowsOf("referral") \cup {x} /\ x \notin RowsOf("referral")
      BY <1>8, <2>2
    <3>2. /\ IsFiniteSet(RowsOf("referral")')
          /\ Cardinality(RowsOf("referral")') = Cardinality(RowsOf("referral")) + 1
      BY <2>1, <3>1, FS_AddElement
    <3>3. IsCounter(counter') /\ counter'.flags = counter.flags + 1
      BY <1>1, <1>3, <2>1, <2>2, FlagCounts
    <3> QED BY <1>7, <3>2, <3>3, ClaimsRead
  <2>3. CASE row.kind # "referral"
    <3>1. RowsOf("referral")' = RowsOf("referral")
      BY <1>8, <2>3
    <3>2. counter' = counter
      BY <1>1, <1>3, <2>3
    <3> QED BY <1>7, <2>1, <3>1, <3>2, ClaimsRead
  <2> QED BY <2>2, <2>3
<1>16. ClaimedWritesHappened'
  BY <1>13, <1>14, <1>15 DEF ClaimedWritesHappened, RowAt
<1>17. IsFiniteSet(Relied') /\ IsFiniteSet(ReliedOnAppeal')
  BY <1>7 DEF ClaimsInv
<1> QED BY <1>9, <1>12, <1>15, <1>16, <1>17 DEF ClaimsInv, IsCounter

LEMMA HearKeepsClaims ==
  ASSUME JudicatureInv, ClaimsInv, NEW p \in Sessions, Len(docket) < MaxCases,
         NEW cited \in FilingSets[Len(docket) + 1], Hear(p, cited)
  PROVE  ClaimsInv'
<1>1. Len(docket) \in Nat /\ Len(docket) + 1 \in 1..MaxCases
  BY FilingsCiteSessions DEF JudicatureInv, JudicatureTypeOK
<1>2. cited \in SUBSET Sessions
  BY <1>1, FilingsCiteSessions
<1> DEFINE c == NewCase(p, cited)
<1>3. c \in CaseRecords /\ c.judgment = NoJudgment /\ c.appeal = NoAppeal /\ c.remedies = <<>>
  BY <1>2, FiledCase DEF JudicatureInv
<1>4. docket' = Append(docket, c) /\ grants' = grants /\ counter' = counter
  BY DEF Hear
<1> HIDE DEF c
<1>5. PICK n : n = Len(docket) + 1
  OBVIOUS
<1>6. /\ DOMAIN docket = 1..(n - 1) /\ DOMAIN docket' = 1..n /\ n \in Nat
      /\ docket'[n] = c /\ \A j \in DOMAIN docket : docket'[j] = docket[j]
  BY <1>3, <1>4, <1>5, CaseAdded DEF JudicatureInv
<1>7. DOMAIN docket \subseteq DOMAIN docket' /\ \A j \in DOMAIN docket' \ DOMAIN docket : j = n
  BY <1>6
<1>8. c.judgment.follows = {} /\ c.appeal.judgment.follows = {}
  BY <1>3 DEF NoJudgment, NoAppeal
<1>9. SameRows /\ SameReliance /\ SameRelianceOnAppeal
  BY <1>3, <1>6, <1>7, <1>8 DEF SameRows, SameReliance, SameRelianceOnAppeal, OldCasesStay
<1> QED BY <1>4, <1>9, QuietKeepsClaims

LEMMA InterimKeepsClaims ==
  ASSUME JudicatureInv, ClaimsInv, NEW p \in Sessions, NEW i \in DOMAIN docket, Interim(p, i)
  PROVE  ClaimsInv'
<1> DEFINE d == [docket[i] EXCEPT !.interim = TRUE]
<1>1. docket' = [docket EXCEPT ![i] = d] /\ grants' = grants /\ counter' = counter
  BY DEF Interim
<1>2. /\ d \in CaseRecords /\ d.judgment = docket[i].judgment
      /\ d.appeal = docket[i].appeal /\ d.remedies = docket[i].remedies
  BY CaseAt, InterimCase
<1> HIDE DEF d
<1>3. DOMAIN docket' = DOMAIN docket /\ docket'[i] = d
      /\ \A k \in DOMAIN docket : k # i => docket'[k] = docket[k]
  BY <1>1, <1>2, CaseMoved DEF JudicatureInv
<1>4. SameRows /\ SameReliance /\ SameRelianceOnAppeal
  BY <1>2, <1>3 DEF SameRows, SameReliance, SameRelianceOnAppeal, OldCasesStay
<1> QED BY <1>1, <1>4, QuietKeepsClaims

LEMMA AppealKeepsClaims ==
  ASSUME JudicatureInv, ClaimsInv, NEW p \in Sessions, NEW i \in DOMAIN docket, Appeal(p, i)
  PROVE  ClaimsInv'
<1> DEFINE a == [filer |-> p, panel |-> AppellatePanel(docket[i]), judgment |-> NoJudgment]
           d == [docket[i] EXCEPT !.appeal = a]
<1>1. docket' = [docket EXCEPT ![i] = d] /\ grants' = grants /\ counter' = counter
  BY DEF Appeal
<1>2. Judged(docket[i]) /\ ~Appealed(docket[i])
  BY DEF Appeal
<1>3. /\ d \in CaseRecords /\ d.appeal = a
      /\ d.judgment = docket[i].judgment /\ d.remedies = docket[i].remedies
  BY <1>2, CaseAt, AppealedCase
<1>4. d.appeal.judgment.follows = {} /\ docket[i].appeal.judgment.follows = {}
  BY <1>2, <1>3 DEF Appealed, NoAppeal, NoJudgment
<1> HIDE DEF d, a
<1>5. DOMAIN docket' = DOMAIN docket /\ docket'[i] = d
      /\ \A k \in DOMAIN docket : k # i => docket'[k] = docket[k]
  BY <1>1, <1>3, CaseMoved DEF JudicatureInv
<1>6. SameRows /\ SameReliance /\ SameRelianceOnAppeal
  BY <1>3, <1>4, <1>5 DEF SameRows, SameReliance, SameRelianceOnAppeal, OldCasesStay
<1> QED BY <1>1, <1>6, QuietKeepsClaims

LEMMA ClaimsStep ==
  ASSUME JudicatureInv, ClaimsInv, [Next]_vars
  PROVE  ClaimsInv'
<1>1. certified \subseteq Sessions
  BY DEF JudicatureInv, JudicatureTypeOK
<1>2. ASSUME docket' = docket, counter' = counter, grants' = grants \/ \E r : WriteGrant(r)
      PROVE  ClaimsInv'
  <2>1. SameRows /\ SameReliance /\ SameRelianceOnAppeal
    BY <1>2 DEF SameRows, SameReliance, SameRelianceOnAppeal, OldCasesStay
  <2> QED BY <1>2, <2>1, QuietKeepsClaims
<1>3. CASE UNCHANGED vars
  BY <1>2, <1>3 DEF vars
<1>4. ASSUME NEW s \in Sessions, Attest(s)
      PROVE  ClaimsInv'
  BY <1>2, <1>4 DEF Attest
<1>5. ASSUME NEW p \in Filers, Len(docket) < MaxCases,
             NEW cited \in FilingSets[Len(docket) + 1], Hear(p, cited)
      PROVE  ClaimsInv'
  <2>1. p \in Sessions
    BY <1>1, <1>5 DEF Hear
  <2> QED BY <1>5, <2>1, HearKeepsClaims
<1>6. ASSUME NEW p \in certified, NEW i \in DOMAIN docket, NEW seat \in Roles, RemedyFails(p, i, seat)
      PROVE  ClaimsInv'
  <2>1. PICK r \in Remedies : WriteGrant(r)
    BY <1>6 DEF RemedyFails
  <2>2. docket' = docket /\ counter' = counter
    BY <1>6 DEF RemedyFails
  <2> QED BY <1>2, <2>1, <2>2
<1>7. ASSUME NEW p \in certified, NEW i \in DOMAIN docket,
             \/ Interim(p, i) \/ Appeal(p, i)
             \/ \E seat \in Roles : Judge(p, i, seat) \/ JudgeAppeal(p, i, seat) \/ Remedy(p, i, seat)
      PROVE  ClaimsInv'
  BY <1>1, <1>7, InterimKeepsClaims, AppealKeepsClaims, JudgeKeepsClaims, JudgeAppealKeepsClaims,
     RemedyKeepsClaims
<1>8. CASE Next
  BY <1>4, <1>5, <1>6, <1>7, <1>8 DEF Next
<1> QED BY <1>3, <1>8

LEMMA ClaimsStart == Init => ClaimsInv
<1> SUFFICES ASSUME Init PROVE ClaimsInv
  OBVIOUS
<1>1. docket = <<>> /\ DOMAIN docket = {} /\ DOMAIN grants = Grants /\ counter = NewCounter
  BY DEF Init
<1>2. Relied = {} /\ ReliedOnAppeal = {} /\ \A kind : RowsOf(kind) = {}
  BY <1>1 DEF Relied, ReliedOnAppeal, RowsOf
<1>3. IsCounter(counter) /\ counter.flags = 0
  BY <1>1 DEF IsCounter, NewCounter
<1>4. IsFiniteSet({}) /\ Cardinality({}) = 0
  BY FS_EmptySet
<1>5. RowsOf("grant") = {} /\ RowsOf("revoke") = {} /\ RowsOf("referral") = {}
  BY <1>2
<1>6. ClaimedWritesHappened
  BY <1>2, <1>3, <1>4, <1>5 DEF ClaimedWritesHappened
<1> QED BY <1>1, <1>2, <1>3, <1>4, <1>5, <1>6 DEF ClaimsInv

\* I-2 at the remedy door (remedies.js, judicature/src/index.js): for any docket, a row
\* that claims a write is of one that happened, and every referral and followed precedent
\* was counted, once each, in the collision counter.
THEOREM ClaimsAlwaysTrue == Spec => []ClaimedWritesHappened
<1>1. ClaimsInv => ClaimedWritesHappened
  BY DEF ClaimsInv
<1>2. JudicatureInv /\ ClaimsInv /\ [Next]_vars => ClaimsInv'
  BY ClaimsStep
<1> QED BY <1>1, <1>2, ClaimsStart, JudicatureInvariant, PTL DEF Spec
=============================================================================
