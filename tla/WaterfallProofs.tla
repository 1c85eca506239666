--------------------------- MODULE WaterfallProofs ---------------------------
(***************************************************************************)
(* Theorems about the composed runtime, for any sessions, services, terms, *)
(* clauses, paths, amendments, keys and commands: no declaration of an     *)
(* emergency counts as new beside a recent one; an act nobody was asked    *)
(* about ran bound, and marked under every declaration in force; a         *)
(* decision on a petition stands; what a container binds was granted; what *)
(* boots is a law that was applied whole; and what a command reaches,      *)
(* sends or writes is found, a write and no reading.                       *)
(*                                                                         *)
(* The parts share the clock and a call, and nothing else: a lemma of the  *)
(* first section says what a step of the composition is to each part, and  *)
(* the invariant of a part is then kept by its own operations alone.       *)
(***************************************************************************)
EXTENDS Waterfall, SequenceTheorems, FiniteSetTheorems, WellFoundedInduction, TLAPS

-----------------------------------------------------------------------------
(* What a step of the composition is to each part *)

\* Time stands still or goes on by one.
LEMMA ClockSteps ==
  ASSUME [Next]_vars
  PROVE  now' = now \/ now' = now + 1
BY DEF Next, vars, Refuses, RefusesAloud, Asks, Counts, Passes, Counted, Allowed, Declined,
       ApprovalLapses, ScheduleEnds, Exception, Deciding, Recomposing, Provisioning, Writing,
       Amending, TimePasses, Tick

\* An act that is asked about, or not, or none: what runs is marked unless asked about.
LEMMA ActSteps ==
  ASSUME [Next]_vars
  PROVE  \/ ran' = ran /\ emergencyActs' = emergencyActs
         \/ /\ \E id : Runs(id, TRUE)
            /\ UNCHANGED <<now, emergencyVars, compositionVars>>
         \/ /\ \E id : Runs(id, FALSE) /\ MarkAct(id)
            /\ ~breach
            /\ UNCHANGED <<now, declarations, compositionVars>>
<1>1. CASE \E s \in Sessions : \E op \in UNION {Operations[part] : part \in slice} : Passes(s, op)
  BY <1>1 DEF Passes, Ends, Denies, emergencyVars, compositionVars
<1>2. CASE Counted
  BY <1>2 DEF Counted, Ends, Denies, emergencyVars, compositionVars
<1>3. CASE Allowed
  BY <1>3 DEF Allowed, emergencyVars, compositionVars
<1>4. CASE Exception
  BY <1>4 DEF Exception, Declare, Revoke, waterfallVars
<1> QED
  BY <1>1, <1>2, <1>3, <1>4
  DEF Next, vars, Refuses, RefusesAloud, Asks, Counts, Declined, ApprovalLapses, ScheduleEnds,
      Deciding, Recomposing, Provisioning, Writing, Amending, TimePasses,
      emergencyVars, waterfallVars

\* Declarations are made and revoked by the operator, at an instant.
LEMMA DeclarationSteps ==
  ASSUME [Next]_vars
  PROVE  declarations' = declarations \/ (now' = now /\ ran' = ran /\ (Declare \/ Revoke))
<1>1. CASE \E s \in Sessions : \E op \in UNION {Operations[part] : part \in slice} : Passes(s, op)
  BY <1>1 DEF Passes, Ends, emergencyVars
<1>2. CASE Counted
  BY <1>2 DEF Counted, Ends, emergencyVars
<1> QED
  BY <1>1, <1>2
  DEF Next, vars, Refuses, RefusesAloud, Asks, Counts, Allowed, Declined, ApprovalLapses,
      ScheduleEnds, Exception, Deciding, Recomposing, Provisioning, Writing, Amending,
      TimePasses, emergencyVars, waterfallVars

\* Services come and go, and rules are registered, apart from any act.
LEMMA CompositionSteps ==
  ASSUME [Next]_vars
  PROVE  UNCHANGED compositionVars \/ (ran' = ran /\ (Mount \/ Unmount \/ RegisterRule))
BY DEF Next, vars, Refuses, RefusesAloud, Asks, Counts, Passes, Counted, Allowed, Declined,
       ApprovalLapses, ScheduleEnds, Exception, Deciding, Recomposing, Provisioning, Writing,
       Amending, TimePasses, waterfallVars

\* Calls that wait are of sessions.
CallersKnown == \A c \in inFlight : c.by \in Sessions

LEMMA CallersStayKnown ==
  ASSUME CallersKnown, [Next]_vars
  PROVE  CallersKnown'
<1>1. \/ inFlight' \subseteq inFlight
      \/ \E s \in Sessions : \E c : inFlight' = inFlight \cup {c} /\ c.by = s
  <2>1. ASSUME NEW s \in Sessions, NEW op, Asks(s, op) \/ Counts(s, op)
        PROVE  \E c : inFlight' = inFlight \cup {c} /\ c.by = s
    <3> DEFINE asked   == [id |-> calls', by |-> s, op |-> op, seen |-> 0]
               counted == [id |-> calls', by |-> s, op |-> op, seen |-> schedules[s]]
    <3>1. asked.by = s /\ counted.by = s
      OBVIOUS
    <3>2. inFlight' = inFlight \cup {asked} \/ inFlight' = inFlight \cup {counted}
      BY <2>1 DEF Asks, Counts
    <3> HIDE DEF asked, counted
    <3> QED BY <3>1, <3>2
  <2>2. CASE Counted \/ Allowed \/ Declined
    BY <2>2 DEF Counted, Allowed, Declined
  <2> QED
    BY <2>1, <2>2
    DEF Next, vars, Refuses, RefusesAloud, Passes, ApprovalLapses, ScheduleEnds, Exception,
        Deciding, Recomposing, Provisioning, Writing, Amending, TimePasses, waterfallVars
<1> QED BY <1>1 DEF CallersKnown

\* A petition is filed by a call, and decided or dissented from by the operators.
LEMMA PetitionSteps ==
  ASSUME CallersKnown, [Next]_vars
  PROVE  \/ petitions' = petitions
         \/ now' = now /\ ((\E s \in Sessions : File(s)) \/ Respond \/ Dissent)
<1>1. CASE \E s \in Sessions : \E op \in UNION {Operations[part] : part \in slice} : Passes(s, op)
  BY <1>1 DEF Passes, Ends, Execute, petitionVars
<1>2. CASE Counted
  <2>1. ASSUME NEW c \in inFlight, NeedsCount(c.op)
        PROVE  c.op[1] # "petition"
    BY <2>1 DEF NeedsCount
  <2> QED BY <1>2, <2>1 DEF Counted, Ends, Execute, petitionVars
<1>3. CASE Allowed
  BY <1>3 DEF Allowed, Execute, petitionVars, CallersKnown
<1> QED
  BY <1>1, <1>2, <1>3
  DEF Next, vars, Refuses, RefusesAloud, Asks, Counts, Declined, ApprovalLapses, ScheduleEnds,
      Exception, Deciding, Recomposing, Provisioning, Writing, Amending, TimePasses,
      petitionVars, waterfallVars

\* A command is confined, or a mount asked for, by a call; the rest is the operator's and
\* the daemon's.
LEMMA SandboxSteps ==
  ASSUME CallersKnown, [Next]_vars
  PROVE  \/ UNCHANGED sandboxVars
         \/ /\ now' = now
            /\ \/ \E s \in Sessions : Confine(s)
               \/ \E s \in Sessions : \E path \in Paths, mode \in {"ro", "rw"} : RequestMount(s, path, mode)
               \/ AnswerMount \/ RevokeMount \/ DaemonTurns \/ TagMoves
<1>1. CASE \E s \in Sessions : \E op \in UNION {Operations[part] : part \in slice} : Passes(s, op)
  BY <1>1 DEF Passes, Ends, Execute
<1>2. CASE Counted
  BY <1>2 DEF Counted, Ends, Execute, CallersKnown
<1>3. CASE Allowed
  BY <1>3 DEF Allowed, Execute, CallersKnown
<1> QED
  BY <1>1, <1>2, <1>3
  DEF Next, vars, Refuses, RefusesAloud, Asks, Counts, Declined, ApprovalLapses, ScheduleEnds,
      Exception, Deciding, Recomposing, Provisioning, Writing, Amending, TimePasses,
      waterfallVars

-----------------------------------------------------------------------------
(* Choices among declarations find one *)

\* A nonempty set of naturals has a least element.
LEMMA LeastExists ==
  ASSUME NEW S \in SUBSET Nat, S # {}
  PROVE  \E m \in S : \A k \in S : m <= k
<1> DEFINE R        == StrictSubsetOrdering(Nat)
           Segments == { 0..k : k \in S }
<1>1. Segments \subseteq FiniteSubsetsOf(Nat) /\ Segments # {}
  <2>1. \A k \in S : 0..k \in SUBSET Nat /\ IsFiniteSet(0..k)
    BY FS_Interval
  <2> QED BY <2>1 DEF FiniteSubsetsOf
<1>2. PICK X \in Segments : \A Y \in Segments : ~(<<Y, X>> \in R)
  <2>1. IsWellFoundedOn(R, FiniteSubsetsOf(Nat))
    BY FS_StrictSubsetOrderingWellFounded
  <2> HIDE DEF R, Segments
  <2> QED BY <1>1, <2>1, WFMin
<1>3. PICK m \in S : X = 0..m
  BY <1>2
<1>4. ASSUME NEW k \in S, k < m
      PROVE  FALSE
  <2>1. 0..k \in SUBSET Nat /\ 0..m \in SUBSET Nat /\ 0..k \subseteq 0..m /\ 0..k # 0..m
    BY <1>4
  <2>2. <<0..k, 0..m>> \in R
    BY <2>1 DEF StrictSubsetOrdering
  <2> QED BY <1>2, <1>3, <2>2
<1> QED BY <1>4

\* A nonempty bounded set of naturals has a greatest element.
LEMMA GreatestExists ==
  ASSUME NEW b \in Nat, NEW S \in SUBSET (0..b), S # {}
  PROVE  \E m \in S : \A k \in S : k <= m
<1> DEFINE Below == { b - k : k \in S }
<1>1. PICK n \in Below : \A k \in Below : n <= k
  <2>1. \A k \in S : b - k \in Nat
    OBVIOUS
  <2>2. Below \subseteq Nat /\ Below # {}
    BY <2>1
  <2> HIDE DEF Below
  <2> QED BY <2>2, LeastExists
<1>2. PICK m \in S : n = b - m
  BY <1>1
<1>3. \A k \in S : b - m <= b - k
  BY <1>1, <1>2
<1> QED BY <1>2, <1>3

-----------------------------------------------------------------------------
(* Emergencies: A-8 *)

Declaration == [refused : BOOLEAN, scope : Scopes, declaredAt : Nat, expiresAt : Nat,
                suspends : Suspensions, revokedAt : Nat \cup {None}, renewalOf : Nat \cup {None}]

\* A declaration is made, and revoked, no later than now, and in that order.
DeclaredInTime == \A i \in DOMAIN declarations :
                    LET d == declarations[i]
                    IN  /\ d.declaredAt <= now
                        /\ d.revokedAt # None => d.declaredAt <= d.revokedAt /\ d.revokedAt <= now

EmergencyInv == /\ now \in Nat
                /\ declarations \in Seq(Declaration)
                /\ DeclaredInTime
                /\ NoFreshEmergency

\* RenewalOf names a prior of the scope, and none only where there is none that is in
\* force or ended within the window.
LEMMA RenewalsAreFound ==
  ASSUME now \in Nat, declarations \in Seq(Declaration), NEW scope
  PROVE  /\ RenewalOf(scope) \in Nat \cup {None}
         /\ RenewalOf(scope) = None => Overlapping(scope) = {} /\ Recent(scope) = {}
<1>1. DOMAIN declarations = 1..Len(declarations) /\ Len(declarations) \in Nat
  OBVIOUS
<1>2. Priors(scope) \subseteq 1..Len(declarations)
  BY <1>1 DEF Priors, Accepted
<1>3. CASE Overlapping(scope) # {}
  <2>1. Overlapping(scope) \in SUBSET (0..Len(declarations))
    BY <1>2 DEF Overlapping
  <2>2. \E i \in Overlapping(scope) : \A j \in Overlapping(scope) : j <= i
    BY <1>1, <1>3, <2>1, GreatestExists
  <2>3. RenewalOf(scope) \in Overlapping(scope)
    BY <1>3, <2>2 DEF RenewalOf
  <2> QED BY <2>1, <2>3, NoneIsNoInstant
<1>4. CASE Overlapping(scope) = {} /\ Recent(scope) # {}
  <2> DEFINE S    == Recent(scope)
             Ended(i) == EndedAt(declarations[i])
  <2>1. S \subseteq 1..Len(declarations) /\ \A i \in S : Ended(i) \in 0..now
    <3>1. \A i \in 1..Len(declarations) : declarations[i] \in Declaration
      BY <1>1
    <3>2. \A i \in 1..Len(declarations) : Ended(i) \in Nat
      BY <3>1 DEF Declaration, EndedAt
    <3> QED BY <1>2, <3>2 DEF Recent
  <2>2. PICK e \in {Ended(i) : i \in S} : \A f \in {Ended(i) : i \in S} : f <= e
    <3>1. {Ended(i) : i \in S} \in SUBSET (0..now) /\ {Ended(i) : i \in S} # {}
      BY <1>4, <2>1
    <3> HIDE DEF S, Ended
    <3> QED BY <3>1, GreatestExists
  <2>3. PICK m \in {i \in S : Ended(i) = e} : \A k \in {i \in S : Ended(i) = e} : k <= m
    <3>1. {i \in S : Ended(i) = e} \in SUBSET (0..Len(declarations)) /\ {i \in S : Ended(i) = e} # {}
      BY <2>1, <2>2
    <3> HIDE DEF S, Ended
    <3> QED BY <1>1, <3>1, GreatestExists
  <2>4. \A j \in S : Ended(j) < Ended(m) \/ (Ended(j) = Ended(m) /\ j <= m)
    <3>1. \A j \in S : Ended(j) \in Nat /\ Ended(j) <= e
      BY <2>1, <2>2
    <3>2. m \in S /\ Ended(m) = e /\ e \in Nat
      BY <2>1, <2>3
    <3> HIDE DEF S, Ended
    <3> QED BY <2>1, <2>3, <3>1, <3>2
  <2>5. LastToEnd(S) \in S
    BY <2>3, <2>4 DEF LastToEnd
  <2>6. RenewalOf(scope) \in S
    BY <1>4, <2>5 DEF RenewalOf
  <2> QED BY <2>1, <2>6, NoneIsNoInstant
<1>5. CASE Overlapping(scope) = {} /\ Recent(scope) = {}
  BY <1>5 DEF RenewalOf
<1> QED BY <1>3, <1>4, <1>5

\* The operator declares.
LEMMA DeclareKeeps ==
  ASSUME EmergencyInv, Declare, now' = now
  PROVE  EmergencyInv'
<1>1. PICK scope \in Scopes, term \in Terms, suspends \in Suspensions :
        declarations' =
          Append(declarations,
                 [refused |-> ~Valid(scope, now + term, suspends), scope |-> scope,
                  declaredAt |-> now, expiresAt |-> now + term, suspends |-> suspends,
                  revokedAt |-> None,
                  renewalOf |-> IF Valid(scope, now + term, suspends) THEN RenewalOf(scope) ELSE None])
  BY DEF Declare
<1> DEFINE n == Len(declarations) + 1
<1>2. Valid(scope, now + term, suspends) \in BOOLEAN
  BY DEF Valid
<1>3. RenewalOf(scope) \in Nat \cup {None}
  BY RenewalsAreFound DEF EmergencyInv
<1>4. /\ declarations' \in Seq(Declaration) /\ Len(declarations') = n
      /\ DOMAIN declarations' = 1..n /\ n \in Nat
      /\ \A i \in 1..Len(declarations) : declarations'[i] = declarations[i]
      /\ declarations'[n].declaredAt = now /\ declarations'[n].revokedAt = None
      /\ declarations'[n].refused = ~Valid(scope, now + term, suspends)
      /\ declarations'[n].scope = scope
      /\ Valid(scope, now + term, suspends) => declarations'[n].renewalOf = RenewalOf(scope)
  <2>1. now + term \in Nat
    BY SpansOfTime DEF EmergencyInv
  <2> QED BY <1>1, <1>2, <1>3, <2>1, AppendProperties DEF EmergencyInv, Declaration
<1>5. DeclaredInTime'
  <2> SUFFICES ASSUME NEW i \in DOMAIN declarations'
               PROVE  /\ declarations'[i].declaredAt <= now'
                      /\ declarations'[i].revokedAt # None =>
                           /\ declarations'[i].declaredAt <= declarations'[i].revokedAt
                           /\ declarations'[i].revokedAt <= now'
    BY DEF DeclaredInTime
  <2>1. CASE i = n
    BY <1>4, <2>1 DEF EmergencyInv
  <2>2. CASE i \in 1..Len(declarations)
    BY <1>4, <2>2 DEF EmergencyInv, DeclaredInTime
  <2> QED BY <1>4, <2>1, <2>2
<1>6. NoFreshEmergency'
  <2> SUFFICES ASSUME NEW j \in Accepted', declarations'[j].renewalOf = None,
                      NEW i \in Accepted', i < j,
                      declarations'[i].scope = declarations'[j].scope
               PROVE  LET d == declarations'[i]
                          over == IF d.revokedAt = None \/ d.expiresAt < d.revokedAt
                                    THEN d.expiresAt ELSE d.revokedAt
                      IN  over + Window < declarations'[j].declaredAt
    BY DEF NoFreshEmergency
  <2>1. i \in 1..n /\ j \in 1..n /\ i \in 1..Len(declarations)
    BY <1>4 DEF Accepted
  <2>2. i \in Accepted /\ declarations'[i] = declarations[i]
    BY <1>4, <2>1 DEF Accepted
  <2>3. CASE j \in 1..Len(declarations)
    <3>1. j \in Accepted /\ declarations'[j] = declarations[j]
      BY <1>4, <2>3 DEF Accepted
    <3> QED BY <2>2, <3>1 DEF EmergencyInv, NoFreshEmergency
  <2>4. CASE j = n
    <3>1. Valid(scope, now + term, suspends) /\ RenewalOf(scope) = None
      BY <1>4, <2>4 DEF Accepted
    <3>2. i \in Priors(scope)
      BY <1>4, <2>2, <2>4 DEF Priors
    <3>3. ~IsActive(i) /\ i \notin Recent(scope)
      BY <3>1, <3>2, RenewalsAreFound DEF EmergencyInv, Overlapping
    <3> DEFINE d == declarations[i]
    <3>4. i \in DOMAIN declarations /\ d \in Declaration
      BY <2>1 DEF EmergencyInv
    <3>5. d.expiresAt \in Nat /\ d.revokedAt \in Nat \cup {None} /\ now \in Nat /\ i \in Accepted
      BY <2>2, <3>4 DEF EmergencyInv, Declaration
    <3>6. CASE d.revokedAt = None
      <4>1. d.expiresAt <= now
        BY <3>3, <3>5, <3>6 DEF IsActive
      <4>2. d.expiresAt + Window < now
        BY <3>2, <3>3, <3>5, <3>6, <4>1, SpansOfTime DEF Recent, EndedAt
      <4> QED BY <1>4, <2>2, <2>4, <3>6, <4>2
    <3>7. CASE d.revokedAt # None
      <4>1. d.revokedAt <= now /\ d.revokedAt \in Nat
        BY <3>4, <3>5, <3>7 DEF EmergencyInv, DeclaredInTime
      <4>2. d.revokedAt + Window < now
        BY <3>2, <3>3, <3>5, <3>7, <4>1, SpansOfTime DEF Recent, EndedAt
      <4>3. declarations'[j].declaredAt = now
        BY <1>4, <2>4
      <4>4. CASE d.expiresAt < d.revokedAt
        <5>1. d.expiresAt + Window < now
          BY <3>5, <4>1, <4>2, <4>4, SpansOfTime
        <5> QED BY <2>2, <3>7, <4>3, <4>4, <5>1
      <4>5. CASE ~(d.expiresAt < d.revokedAt)
        BY <2>2, <3>7, <4>2, <4>3, <4>5
      <4> QED BY <4>4, <4>5
    <3> QED BY <3>6, <3>7
  <2> QED BY <2>1, <2>3, <2>4
<1> QED BY <1>4, <1>5, <1>6 DEF EmergencyInv

\* The operator revokes: what counted as new came after the earlier of the two ends.
LEMMA RevokeKeeps ==
  ASSUME EmergencyInv, Revoke, now' = now
  PROVE  EmergencyInv'
<1>1. PICK r \in Accepted : /\ declarations[r].revokedAt = None
                            /\ declarations' = [declarations EXCEPT ![r].revokedAt = now]
  BY DEF Revoke
<1>2. /\ DOMAIN declarations' = DOMAIN declarations /\ r \in DOMAIN declarations
      /\ \A i \in DOMAIN declarations \ {r} : declarations'[i] = declarations[i]
      /\ declarations'[r] = [declarations[r] EXCEPT !.revokedAt = now]
      /\ \A i \in DOMAIN declarations : declarations[i] \in Declaration
  BY <1>1 DEF EmergencyInv, Accepted
<1>3. declarations'[r] \in Declaration
  BY <1>2 DEF EmergencyInv, Declaration
<1>4. declarations' \in Seq(Declaration)
  BY <1>1, <1>2, <1>3, ExceptSeq DEF EmergencyInv
<1>5. \A i \in DOMAIN declarations :
        /\ declarations'[i].refused = declarations[i].refused
        /\ declarations'[i].scope = declarations[i].scope
        /\ declarations'[i].declaredAt = declarations[i].declaredAt
        /\ declarations'[i].expiresAt = declarations[i].expiresAt
        /\ declarations'[i].renewalOf = declarations[i].renewalOf
        /\ declarations'[i].revokedAt = IF i = r THEN now ELSE declarations[i].revokedAt
  BY <1>2 DEF Declaration
<1>6. DeclaredInTime'
  BY <1>1, <1>2, <1>5 DEF EmergencyInv, DeclaredInTime, Declaration
<1>7. Accepted' = Accepted
  BY <1>2, <1>5 DEF Accepted
<1>8. NoFreshEmergency'
  <2> SUFFICES ASSUME NEW j \in Accepted', declarations'[j].renewalOf = None,
                      NEW i \in Accepted', i < j,
                      declarations'[i].scope = declarations'[j].scope
               PROVE  LET d == declarations'[i]
                          over == IF d.revokedAt = None \/ d.expiresAt < d.revokedAt
                                    THEN d.expiresAt ELSE d.revokedAt
                      IN  over + Window < declarations'[j].declaredAt
    BY DEF NoFreshEmergency
  <2>1. i \in DOMAIN declarations /\ j \in DOMAIN declarations /\ i \in Accepted /\ j \in Accepted
    BY <1>7 DEF Accepted
  <2>2. declarations[i] \in Declaration /\ declarations[j] \in Declaration /\ declarations[j].declaredAt <= now
    BY <1>2, <2>1 DEF EmergencyInv, DeclaredInTime
  <2>3. LET d == declarations[i]
            over == IF d.revokedAt = None \/ d.expiresAt < d.revokedAt THEN d.expiresAt ELSE d.revokedAt
        IN  over + Window < declarations[j].declaredAt
    BY <1>5, <2>1 DEF EmergencyInv, NoFreshEmergency
  <2>4. declarations'[j].declaredAt = declarations[j].declaredAt
    BY <1>5, <2>1
  <2>5. CASE i # r
    BY <1>5, <2>1, <2>3, <2>4, <2>5
  <2>6. CASE i = r
    <3>1. declarations[r].expiresAt + Window < declarations[j].declaredAt
      BY <1>1, <2>3, <2>6
    <3>2. declarations[r].expiresAt \in Nat /\ declarations[j].declaredAt \in Nat /\ now \in Nat
      BY <2>2, <2>6 DEF EmergencyInv, Declaration
    <3>3. declarations[r].expiresAt < now
      BY <2>2, <3>1, <3>2, SpansOfTime
    <3>4. declarations'[i].expiresAt = declarations[r].expiresAt /\ declarations'[i].revokedAt = now
      BY <1>5, <2>1, <2>6
    <3> QED BY <2>4, <3>1, <3>3, <3>4
  <2> QED BY <2>5, <2>6
<1> QED BY <1>4, <1>6, <1>8 DEF EmergencyInv

LEMMA EmergencyInvKept ==
  ASSUME EmergencyInv, [Next]_vars
  PROVE  EmergencyInv'
<1>1. CASE declarations' = declarations
  <2>1. now' \in Nat /\ now <= now'
    BY ClockSteps DEF EmergencyInv
  <2>2. \A i \in DOMAIN declarations : declarations[i] \in Declaration
    BY DEF EmergencyInv
  <2>3. DeclaredInTime'
    BY <1>1, <2>1, <2>2 DEF EmergencyInv, DeclaredInTime, Declaration
  <2>4. NoFreshEmergency'
    BY <1>1 DEF EmergencyInv, NoFreshEmergency, Accepted
  <2> QED BY <1>1, <2>1, <2>3, <2>4 DEF EmergencyInv
<1> QED BY <1>1, DeclarationSteps, DeclareKeeps, RevokeKeeps

LEMMA EmergencyInvInit == Init => EmergencyInv
BY DEF Init, ClockInit, EmergencyInit, EmergencyInv, DeclaredInTime, NoFreshEmergency, Accepted

\* The declarations keep their shape and are dated in order, and none that counts as new
\* comes within the window of an earlier one of its scope.
THEOREM EmergencyInvariant == Spec => []EmergencyInv
BY EmergencyInvInit, EmergencyInvKept, PTL DEF Spec

\* "Ending an emergency sooner must never buy a lower threshold for the next one"
\* (declare.js:127-129), for any scopes, terms and window.
THEOREM NoEmergencyIsFresh == Spec => []NoFreshEmergency
BY EmergencyInvariant, PTL DEF EmergencyInv

-----------------------------------------------------------------------------
(* Acts nobody was asked about: D-8 and A-8 *)

\* The latch misses no breach: whatever could bring one about is watched.
Latched == /\ constituted \in BOOLEAN
           /\ ~breach => ~InBreach(services, constituted, registry)

GovernedInv == /\ EmergencyInv
               /\ Latched
               /\ \A r \in ran : r.at \in Nat /\ r.at <= now
               /\ UnaskedActsAreGoverned

\* A service that comes or goes.
LEMMA BecomesKeepsLatch ==
  ASSUME Latched, NEW svcs, Becomes(svcs)
  PROVE  Latched'
<1> DEFINE moved  == (svcs \ services) \cup (services \ svcs)
           events == moved \cup IF ConstitutedAfter(svcs) = constituted THEN {} ELSE {"constitution"}
<1>1. /\ services' = svcs /\ constituted' = ConstitutedAfter(svcs)
      /\ registry' = RegistryAfter(svcs)
      /\ breach' = IF \E s \in events : Watched(s)
                     THEN InBreach(svcs, ConstitutedAfter(svcs), RegistryAfter(svcs)) ELSE breach
  BY DEF Becomes, Watch
<1>2. constituted' \in BOOLEAN
  BY <1>1 DEF ConstitutedAfter
<1>3. CASE \E s \in events : Watched(s)
  BY <1>1, <1>2, <1>3 DEF Latched
<1>4. CASE ~(\E s \in events : Watched(s))
  <2>1. constituted' = constituted
    BY <1>1, <1>4 DEF Watched
  <2>2. constituted => registry' = registry
    BY <1>1, <2>1 DEF RegistryAfter
  <2>3. \A p \in Parts : /\ p.hostServices \cap svcs = p.hostServices \cap services
                         /\ p.boundBy \in svcs <=> p.boundBy \in services
    BY <1>4 DEF Watched
  <2>4. InBreach(svcs, constituted', registry') => InBreach(services, constituted, registry)
    BY <2>1, <2>2, <2>3 DEF InBreach, IsUnbound, BoundInNameOnly, Triggered
  <2> QED BY <1>1, <1>2, <1>4, <2>4 DEF Latched
<1> QED BY <1>3, <1>4

LEMMA LatchedKept ==
  ASSUME Latched, [Next]_vars
  PROVE  Latched'
<1>1. CASE UNCHANGED compositionVars
  BY <1>1 DEF Latched, compositionVars
<1>2. CASE Mount \/ Unmount
  BY <1>2, BecomesKeepsLatch DEF Mount, Unmount
<1>3. CASE RegisterRule
  <2>1. registry \subseteq registry'
    BY <1>3 DEF RegisterRule
  <2>2. UNCHANGED <<services, constituted, breach>>
    BY <1>3 DEF RegisterRule
  <2>3. InBreach(services, constituted, registry') => InBreach(services, constituted, registry)
    BY <2>1 DEF InBreach, BoundInNameOnly
  <2> QED BY <2>2, <2>3 DEF Latched
<1> QED BY <1>1, <1>2, <1>3, CompositionSteps

\* A declaration that stands after a step was made in it, or stood before it and at most
\* ended in it.
LEMMA DeclarationsOnlyEnd ==
  ASSUME EmergencyInv, [Next]_vars, NEW i \in Accepted'
  PROVE  \/ declarations'[i].declaredAt = now
         \/ /\ i \in Accepted
            /\ declarations'[i].declaredAt = declarations[i].declaredAt
            /\ declarations'[i].expiresAt = declarations[i].expiresAt
            /\ \/ declarations'[i].revokedAt = declarations[i].revokedAt
               \/ declarations[i].revokedAt = None /\ declarations'[i].revokedAt = now
<1>1. CASE declarations' = declarations
  BY <1>1 DEF Accepted
<1>2. CASE Declare
  <2>1. PICK d : declarations' = Append(declarations, d) /\ d.declaredAt = now
    BY <1>2 DEF Declare
  <2>2. /\ DOMAIN declarations' = 1..(Len(declarations) + 1)
        /\ declarations'[Len(declarations) + 1] = d
        /\ \A k \in 1..Len(declarations) : declarations'[k] = declarations[k]
        /\ DOMAIN declarations = 1..Len(declarations)
    BY <2>1 DEF EmergencyInv
  <2>3. i = Len(declarations) + 1 \/ i \in 1..Len(declarations)
    BY <2>2 DEF Accepted
  <2> QED BY <2>1, <2>2, <2>3 DEF Accepted
<1>3. CASE Revoke
  <2>1. PICK r \in Accepted : /\ declarations[r].revokedAt = None
                              /\ declarations' = [declarations EXCEPT ![r].revokedAt = now]
    BY <1>3 DEF Revoke
  <2>2. /\ i \in DOMAIN declarations /\ r \in DOMAIN declarations
        /\ \A k \in DOMAIN declarations : declarations[k] \in Declaration
    BY <2>1 DEF Accepted, EmergencyInv
  <2>3. /\ declarations'[i].refused = declarations[i].refused
        /\ declarations'[i].declaredAt = declarations[i].declaredAt
        /\ declarations'[i].expiresAt = declarations[i].expiresAt
        /\ declarations'[i].revokedAt = IF i = r THEN now ELSE declarations[i].revokedAt
    BY <2>1, <2>2 DEF Declaration
  <2> QED BY <2>1, <2>2, <2>3 DEF Accepted
<1> QED BY <1>1, <1>2, <1>3, DeclarationSteps

\* An act that ran before, after another step.
LEMMA PastActsStayGoverned ==
  ASSUME GovernedInv, [Next]_vars, NEW r \in ran, ~r.asked, emergencyActs \subseteq emergencyActs'
  PROVE  /\ r.bound
         /\ \A i \in Accepted' :
              LET d == declarations'[i]
              IN  d.declaredAt < r.at /\ r.at < d.expiresAt /\ (d.revokedAt = None \/ r.at < d.revokedAt)
                    => [act |-> r.id, under |-> i] \in emergencyActs'
<1>1. r.at \in Nat /\ r.at <= now /\ now \in Nat
  BY DEF GovernedInv, EmergencyInv
<1>2. /\ r.bound
      /\ \A i \in Accepted :
           LET d == declarations[i]
           IN  d.declaredAt < r.at /\ r.at < d.expiresAt /\ (d.revokedAt = None \/ r.at < d.revokedAt)
                 => [act |-> r.id, under |-> i] \in emergencyActs
  BY DEF GovernedInv, UnaskedActsAreGoverned
<1>3. ASSUME NEW i \in Accepted',
             declarations'[i].declaredAt < r.at, r.at < declarations'[i].expiresAt,
             declarations'[i].revokedAt = None \/ r.at < declarations'[i].revokedAt
      PROVE  [act |-> r.id, under |-> i] \in emergencyActs
  <2>1. EmergencyInv
    BY DEF GovernedInv
  <2>2. declarations'[i].declaredAt # now
    BY <1>1, <1>3
  <2>3. /\ i \in Accepted
        /\ declarations'[i].declaredAt = declarations[i].declaredAt
        /\ declarations'[i].expiresAt = declarations[i].expiresAt
        /\ \/ declarations'[i].revokedAt = declarations[i].revokedAt
           \/ declarations[i].revokedAt = None /\ declarations'[i].revokedAt = now
    BY <2>1, <2>2, DeclarationsOnlyEnd
  <2> QED BY <1>2, <1>3, <2>3
<1> QED BY <1>2, <1>3

\* An act that runs unasked, at the instant it runs.
LEMMA PresentActsAreGoverned ==
  ASSUME GovernedInv, ~breach, NEW id, Runs(id, FALSE), MarkAct(id), now' = now,
         UNCHANGED <<declarations, compositionVars>>, NEW r \in ran', r \notin ran
  PROVE  /\ r.at = now /\ r.bound
         /\ \A i \in Accepted' :
              LET d == declarations'[i]
              IN  d.declaredAt < r.at /\ r.at < d.expiresAt /\ (d.revokedAt = None \/ r.at < d.revokedAt)
                    => [act |-> r.id, under |-> i] \in emergencyActs'
<1>1. r.id = id /\ r.at = now /\ r.bound = ~InBreach(services, constituted, registry)
  BY DEF Runs
<1>2. r.bound
  BY <1>1 DEF GovernedInv, Latched
<1>3. ASSUME NEW i \in Accepted', now < declarations'[i].expiresAt,
             declarations'[i].revokedAt = None \/ now < declarations'[i].revokedAt
      PROVE  [act |-> id, under |-> i] \in emergencyActs'
  <2>1. i \in Accepted /\ declarations'[i] = declarations[i] /\ i \in DOMAIN declarations
    BY <1>3 DEF Accepted
  <2>2. declarations[i] \in Declaration /\ now \in Nat
    BY <2>1 DEF GovernedInv, EmergencyInv
  <2>3. declarations[i].revokedAt = None
    BY <1>3, <2>1, <2>2 DEF GovernedInv, EmergencyInv, DeclaredInTime, Declaration
  <2>4. i \in Active
    BY <1>3, <2>1, <2>2, <2>3 DEF Active, IsActive, Declaration
  <2> QED BY <2>4 DEF MarkAct
<1> QED BY <1>1, <1>2, <1>3

LEMMA GovernedInvKept ==
  ASSUME GovernedInv, [Next]_vars
  PROVE  GovernedInv'
<1>1. EmergencyInv' /\ Latched'
  BY EmergencyInvKept, LatchedKept DEF GovernedInv
<1>2. emergencyActs \subseteq emergencyActs'
  BY ActSteps DEF MarkAct, emergencyVars
<1>3. \A r \in ran' : r \in ran \/ (r.at = now /\ now' = now)
  BY ActSteps DEF Runs
<1>4. \A r \in ran' : r.at \in Nat /\ r.at <= now'
  BY <1>1, <1>3, ClockSteps DEF GovernedInv, EmergencyInv
<1>5. UnaskedActsAreGoverned'
  <2> SUFFICES ASSUME NEW r \in ran', ~r.asked
               PROVE  /\ r.bound
                      /\ \A i \in Accepted' :
                           LET d == declarations'[i]
                           IN  /\ d.declaredAt < r.at /\ r.at < d.expiresAt
                               /\ d.revokedAt = None \/ r.at < d.revokedAt
                               => [act |-> r.id, under |-> i] \in emergencyActs'
    BY DEF UnaskedActsAreGoverned
  <2>1. CASE r \in ran
    BY <1>2, <2>1, PastActsStayGoverned
  <2>2. CASE r \notin ran
    <3>1. /\ ~(ran' = ran)
          /\ ~(\E id : Runs(id, TRUE))
      BY <2>2 DEF Runs
    <3>2. PICK id : /\ Runs(id, FALSE) /\ MarkAct(id) /\ ~breach
                    /\ UNCHANGED <<now, declarations, compositionVars>>
      BY <3>1, ActSteps
    <3> QED BY <2>2, <3>2, PresentActsAreGoverned
  <2> QED BY <2>1, <2>2
<1> QED BY <1>1, <1>4, <1>5 DEF GovernedInv

LEMMA GovernedInvInit == Init => GovernedInv
BY EmergencyInvInit
DEF Init, CompositionInit, EmergencyInit, GovernedInv, Latched, UnaskedActsAreGoverned

\* The latch of the capability gate is down only while nothing is unbound and every clause
\* that woke is registered, whatever services come and go (capability-gate/src/index.js).
THEOREM LatchMissesNothing == Spec => []Latched
<1>1. GovernedInv => Latched
  BY DEF GovernedInv
<1> QED BY <1>1, GovernedInvInit, GovernedInvKept, PTL DEF Spec

\* Whatever ran without an ask ran while every capability was bound and registered, and is
\* marked under every declaration in force then (capability-gate/src/index.js:63-65,
\* emergency/src/index.js:128-131).
THEOREM UnaskedActsAlwaysGoverned == Spec => []UnaskedActsAreGoverned
<1>1. GovernedInv => UnaskedActsAreGoverned
  BY DEF GovernedInv
<1> QED BY <1>1, GovernedInvInit, GovernedInvKept, PTL DEF Spec

-----------------------------------------------------------------------------
(* Petitions: R-11, A-5 *)

Decision == [by : Deciders, at : Nat, outcome : Outcomes]
PetitionRow == [by : Sessions, filedAt : Nat, dueAt : Nat, response : Decision \cup {Nobody},
                dissents : SUBSET [by : Deciders, at : Nat, from : Decision \cup {Nobody}],
                attempts : SUBSET [by : Deciders, at : Nat]]

\* What a petition carries came no later than now, and dissents after a decision only.
DatedRow(p) == /\ \A a \in p.attempts : a.at <= now
               /\ Answered(p) => p.response.at <= now
               /\ ~Answered(p) => p.dissents = {}

StandsRow(p) == /\ \A d \in p.dissents : d.from = p.response /\ p.response.at <= d.at
                /\ Answered(p) => \A a \in p.attempts : a.at <= p.response.at

RowsAreDated == \A i \in DOMAIN petitions : DatedRow(petitions[i])

PetitionInv == /\ now \in Nat /\ CallersKnown
               /\ petitions \in Seq(PetitionRow)
               /\ RowsAreDated
               /\ DecisionsStand

LEMMA StandingRows == DecisionsStand <=> \A i \in DOMAIN petitions : StandsRow(petitions[i])
BY DEF DecisionsStand, StandsRow

\* A petition rewritten in place.
LEMMA RowRewritten ==
  ASSUME PetitionInv, NEW i \in DOMAIN petitions, NEW p \in PetitionRow,
         petitions' = [petitions EXCEPT ![i] = p], now' = now, CallersKnown',
         DatedRow(p), StandsRow(p)
  PROVE  PetitionInv'
<1>1. petitions' \in Seq(PetitionRow) /\ DOMAIN petitions' = DOMAIN petitions
  BY ExceptSeq DEF PetitionInv
<1>2. \A k \in DOMAIN petitions : petitions'[k] = IF k = i THEN p ELSE petitions[k]
  BY DEF PetitionInv
<1>3. RowsAreDated'
  BY <1>1, <1>2 DEF PetitionInv, RowsAreDated, DatedRow, Answered
<1>4. \A k \in DOMAIN petitions' : StandsRow(petitions'[k])
  BY <1>1, <1>2, StandingRows DEF PetitionInv
<1>5. DecisionsStand'
  BY <1>4 DEF DecisionsStand, StandsRow
<1> QED BY <1>1, <1>3, <1>5 DEF PetitionInv

LEMMA FileKeeps ==
  ASSUME PetitionInv, NEW s \in Sessions, File(s), now' = now, CallersKnown'
  PROVE  PetitionInv'
<1> DEFINE row == [by |-> s, filedAt |-> now, dueAt |-> now + Term,
                   response |-> Nobody, dissents |-> {}, attempts |-> {}]
<1>1. CASE petitions' = petitions
  BY <1>1 DEF PetitionInv, RowsAreDated, DatedRow, Answered, DecisionsStand
<1>2. CASE petitions' = Append(petitions, row)
  <2>1. row \in PetitionRow
    BY TermIsASpan DEF PetitionInv, PetitionRow
  <2>2. /\ petitions' \in Seq(PetitionRow)
        /\ DOMAIN petitions' = 1..(Len(petitions) + 1) /\ DOMAIN petitions = 1..Len(petitions)
        /\ petitions'[Len(petitions) + 1] = row
        /\ \A k \in 1..Len(petitions) : petitions'[k] = petitions[k]
    BY <1>2, <2>1, AppendProperties DEF PetitionInv
  <2>3. DatedRow(row) /\ StandsRow(row)
    BY DEF DatedRow, StandsRow, Answered
  <2> HIDE DEF row
  <2>4. RowsAreDated'
    BY <2>2, <2>3 DEF PetitionInv, RowsAreDated, DatedRow, Answered
  <2>5. DecisionsStand'
    BY <2>2, <2>3, StandingRows DEF PetitionInv, DecisionsStand, StandsRow
  <2> QED BY <2>2, <2>4, <2>5 DEF PetitionInv
<1> QED BY <1>1, <1>2 DEF File

LEMMA RespondKeeps ==
  ASSUME PetitionInv, Respond, now' = now, CallersKnown'
  PROVE  PetitionInv'
<1>1. PICK i \in DOMAIN petitions, by \in Deciders, outcome \in Outcomes, conforming \in BOOLEAN :
        /\ AwaitsDecision(petitions[i])
        /\ petitions' =
             IF conforming
             THEN [petitions EXCEPT ![i].response = [by |-> by, at |-> now, outcome |-> outcome]]
             ELSE [petitions EXCEPT ![i].attempts =
                     IF Cardinality(@) = MaxAttempts THEN @ ELSE @ \cup {[by |-> by, at |-> now]}]
  BY DEF Respond
<1> DEFINE p == petitions[i]
<1>2. p \in PetitionRow /\ DatedRow(p) /\ StandsRow(p) /\ ~Answered(p) /\ now \in Nat
  BY <1>1, StandingRows DEF PetitionInv, RowsAreDated, AwaitsDecision, StateOf
<1>3. CASE conforming
  <2> DEFINE q == [p EXCEPT !.response = [by |-> by, at |-> now, outcome |-> outcome]]
  <2>1. /\ q \in PetitionRow /\ q.dissents = p.dissents /\ q.attempts = p.attempts
        /\ q.response.at = now
    BY <1>2 DEF PetitionRow, Decision
  <2>2. DatedRow(q) /\ StandsRow(q)
    BY <1>2, <2>1 DEF DatedRow, StandsRow, PetitionRow
  <2>3. petitions' = [petitions EXCEPT ![i] = q]
    BY <1>1, <1>3
  <2> HIDE DEF q
  <2> QED BY <2>1, <2>2, <2>3, RowRewritten
<1>4. CASE ~conforming
  <2> PICK more \in SUBSET {[by |-> by, at |-> now]} :
        petitions' = [petitions EXCEPT ![i].attempts = @ \cup more]
    <3>1. p.attempts \cup {} = p.attempts
      OBVIOUS
    <3> QED BY <1>1, <1>4, <3>1
  <2> DEFINE q == [p EXCEPT !.attempts = @ \cup more]
  <2>1. /\ q \in PetitionRow /\ q.dissents = p.dissents /\ q.response = p.response
        /\ q.attempts = p.attempts \cup more
    BY <1>2 DEF PetitionRow
  <2>2. DatedRow(q) /\ StandsRow(q)
    BY <1>2, <2>1 DEF DatedRow, StandsRow, Answered
  <2>3. petitions' = [petitions EXCEPT ![i] = q]
    OBVIOUS
  <2> HIDE DEF q
  <2> QED BY <2>1, <2>2, <2>3, RowRewritten
<1> QED BY <1>3, <1>4

LEMMA DissentKeeps ==
  ASSUME PetitionInv, Dissent, now' = now, CallersKnown'
  PROVE  PetitionInv'
<1>1. PICK i \in DOMAIN petitions, by \in Deciders :
        /\ Answered(petitions[i])
        /\ petitions' = [petitions EXCEPT ![i].dissents =
                           @ \cup {[by |-> by, at |-> now, from |-> petitions[i].response]}]
  BY DEF Dissent
<1> DEFINE p == petitions[i]
           d == [by |-> by, at |-> now, from |-> p.response]
           q == [p EXCEPT !.dissents = @ \cup {d}]
<1>2. p \in PetitionRow /\ DatedRow(p) /\ StandsRow(p) /\ Answered(p) /\ now \in Nat
  BY <1>1, StandingRows DEF PetitionInv, RowsAreDated
<1>3. /\ q \in PetitionRow /\ q.response = p.response /\ q.attempts = p.attempts
      /\ q.dissents = p.dissents \cup {d}
  BY <1>2 DEF PetitionRow
<1>4. DatedRow(q) /\ StandsRow(q)
  BY <1>2, <1>3 DEF DatedRow, StandsRow, Answered
<1>5. petitions' = [petitions EXCEPT ![i] = q]
  BY <1>1
<1> HIDE DEF q
<1> QED BY <1>3, <1>4, <1>5, RowRewritten

LEMMA PetitionInvKept ==
  ASSUME PetitionInv, [Next]_vars
  PROVE  PetitionInv'
<1>1. CallersKnown'
  BY CallersStayKnown DEF PetitionInv
<1>2. CASE petitions' = petitions
  <2>1. now' \in Nat /\ now <= now'
    BY ClockSteps DEF PetitionInv
  <2>2. \A i \in DOMAIN petitions : petitions[i] \in PetitionRow /\ DatedRow(petitions[i])
    BY DEF PetitionInv, RowsAreDated
  <2>3. \A i \in DOMAIN petitions : /\ \A a \in petitions[i].attempts : a.at \in Nat
                                    /\ Answered(petitions[i]) => petitions[i].response.at \in Nat
    BY <2>2 DEF PetitionRow, Decision, Answered
  <2>4. RowsAreDated'
    BY <1>2, <2>1, <2>2, <2>3 DEF RowsAreDated, DatedRow, Answered, PetitionInv
  <2> QED BY <1>1, <1>2, <2>1, <2>4 DEF PetitionInv, DecisionsStand, Answered
<1> QED BY <1>1, <1>2, PetitionSteps, FileKeeps, RespondKeeps, DissentKeeps DEF PetitionInv

LEMMA PetitionInvInit == Init => PetitionInv
BY DEF Init, ClockInit, PetitionInit, PetitionInv, CallersKnown, RowsAreDated, DecisionsStand

\* Decisions stand: a dissent names the decision on record, which came after the attempts
\* that discharged nothing (petition.js:141, :171-172), for any deciders and outcomes.
THEOREM DecisionsAlwaysStand == Spec => []DecisionsStand
<1>1. PetitionInv => DecisionsStand
  BY DEF PetitionInv
<1> QED BY <1>1, PetitionInvInit, PetitionInvKept, PTL DEF Spec

-----------------------------------------------------------------------------
(* Mounts: CF-1 *)

Modes == {"ro", "rw"}
MountRow == [session : Sessions, path : Paths, mode : Modes,
             expiresAt : Nat, revokedAt : Nat \cup {Unknown}]
MountAsk == [session : Sessions, path : Paths, mode : Modes]
Container == [content : {Declared, Other, Gone}, binds : SUBSET [path : Paths, mode : Modes], at : Nat]

Unprotected(path) == \A p \in Protected : ~IsPrefix(p, path) /\ ~IsPrefix(path, p)

\* A mount bound at an instant by a container of a session.
WasGranted(s, bind, at) ==
  \E i \in DOMAIN mounts :
    LET g == mounts[i]
    IN  /\ g.session = s /\ g.path = bind.path /\ g.mode = bind.mode
        /\ at < g.expiresAt /\ (g.revokedAt = Unknown \/ at <= g.revokedAt)

SandboxTypes == /\ now \in Nat /\ CallersKnown
                /\ tag \in {Declared, Other, Gone}
                /\ mounts \in Seq(MountRow) /\ mountAsks \subseteq MountAsk
                /\ containers \in [Sessions -> Container \cup {Unknown}]

\* A request is put, and a mount granted, outside what is protected; revoked by now.
MountsAreLawful == /\ \A ask \in mountAsks : Unprotected(ask.path)
                   /\ \A i \in DOMAIN mounts :
                        /\ Unprotected(mounts[i].path)
                        /\ mounts[i].revokedAt # Unknown => mounts[i].revokedAt <= now

BindsAreLawful == \A s \in Sessions : containers[s] # Unknown =>
                    /\ containers[s].at <= now
                    /\ \A bind \in containers[s].binds :
                         Unprotected(bind.path) /\ WasGranted(s, bind, containers[s].at)

SandboxInv == SandboxTypes /\ MountsAreLawful /\ BindsAreLawful

LEMMA LawfulBindsWereGranted == BindsAreLawful => BindsWereGranted
<1> SUFFICES ASSUME BindsAreLawful, NEW s \in Sessions, containers[s] # Unknown,
                    NEW bind \in containers[s].binds
             PROVE  /\ Unprotected(bind.path)
                    /\ \E g \in ToSet(mounts) :
                         /\ g.session = s /\ g.path = bind.path /\ g.mode = bind.mode
                         /\ containers[s].at < g.expiresAt
                         /\ g.revokedAt = Unknown \/ containers[s].at <= g.revokedAt
  BY DEF BindsWereGranted, Unprotected
<1>1. Unprotected(bind.path) /\ WasGranted(s, bind, containers[s].at)
  BY DEF BindsAreLawful
<1>2. \A i \in DOMAIN mounts : mounts[i] \in ToSet(mounts)
  BY DEF ToSet
<1> QED BY <1>1, <1>2 DEF WasGranted

LEMMA ConfineKeeps ==
  ASSUME SandboxInv, NEW s \in Sessions, Confine(s), now' = now, CallersKnown'
  PROVE  SandboxInv'
<1> DEFINE c == [content |-> tag, binds |-> MountGrantsFor(s), at |-> now]
<1>1. UNCHANGED <<tag, mounts, mountAsks>> /\ (containers' = containers \/ containers' = [containers EXCEPT ![s] = c])
  BY DEF Confine
<1>2. ASSUME NEW bind \in MountGrantsFor(s)
      PROVE  /\ bind \in [path : Paths, mode : Modes]
             /\ Unprotected(bind.path) /\ WasGranted(s, bind, now)
  <2>1. PICK i \in DOMAIN mounts : /\ bind = [path |-> mounts[i].path, mode |-> mounts[i].mode]
                                   /\ mounts[i].session = s /\ Live(mounts[i])
    BY <1>2 DEF MountGrantsFor, ToSet
  <2>2. mounts[i] \in MountRow /\ Unprotected(mounts[i].path)
    BY DEF SandboxInv, SandboxTypes, MountsAreLawful
  <2> QED BY <2>1, <2>2 DEF MountRow, WasGranted, Live
<1>3. c \in Container /\ c.at = now /\ c.binds = MountGrantsFor(s)
  BY <1>2 DEF Container, SandboxInv, SandboxTypes
<1> HIDE DEF c
<1>4. SandboxTypes' /\ MountsAreLawful'
  BY <1>1, <1>3 DEF SandboxInv, SandboxTypes, MountsAreLawful, Unprotected
<1>5. \A r \in Sessions : containers'[r] = containers[r] \/ (r = s /\ containers'[r] = c)
  BY <1>1 DEF SandboxInv, SandboxTypes
<1>6. BindsAreLawful'
  <2> SUFFICES ASSUME NEW r \in Sessions, containers'[r] # Unknown
               PROVE  /\ containers'[r].at <= now'
                      /\ \A bind \in containers'[r].binds :
                           Unprotected(bind.path) /\ WasGranted(r, bind, containers'[r].at)
    BY <1>1 DEF BindsAreLawful, Unprotected, WasGranted
  <2>1. CASE containers'[r] = containers[r]
    BY <1>1, <2>1 DEF SandboxInv, BindsAreLawful
  <2>2. CASE r = s /\ containers'[r] = c
    <3>1. now <= now
      BY DEF SandboxInv, SandboxTypes
    <3> QED BY <1>2, <1>3, <2>2, <3>1
  <2> QED BY <1>5, <2>1, <2>2
<1> QED BY <1>4, <1>6 DEF SandboxInv

\* What only adds a row, or ends one now, takes no lawful bind away.
LEMMA BindsOutlive ==
  ASSUME SandboxInv, now' = now, UNCHANGED containers, SandboxTypes', DOMAIN mounts \subseteq DOMAIN mounts',
         \A i \in DOMAIN mounts :
           /\ mounts'[i].session = mounts[i].session /\ mounts'[i].path = mounts[i].path
           /\ mounts'[i].mode = mounts[i].mode /\ mounts'[i].expiresAt = mounts[i].expiresAt
           /\ mounts'[i].revokedAt = mounts[i].revokedAt \/ mounts'[i].revokedAt = now
  PROVE  BindsAreLawful'
<1> SUFFICES ASSUME NEW r \in Sessions, containers[r] # Unknown
             PROVE  /\ containers[r].at <= now
                    /\ \A bind \in containers[r].binds :
                         Unprotected(bind.path) /\ WasGranted(r, bind, containers[r].at)'
  BY DEF BindsAreLawful, Unprotected
<1>1. containers[r].at <= now
  BY DEF SandboxInv, BindsAreLawful
<1>2. ASSUME NEW bind \in containers[r].binds
      PROVE  Unprotected(bind.path) /\ WasGranted(r, bind, containers[r].at)'
  <2>1. Unprotected(bind.path) /\ WasGranted(r, bind, containers[r].at)
    BY DEF SandboxInv, BindsAreLawful
  <2> QED BY <1>1, <2>1 DEF WasGranted
<1> QED BY <1>1, <1>2

LEMMA AnswerMountKeeps ==
  ASSUME SandboxInv, AnswerMount, now' = now, CallersKnown'
  PROVE  SandboxInv'
<1>1. PICK ask \in mountAsks :
        /\ mountAsks' = mountAsks \ {ask}
        /\ \/ UNCHANGED mounts
           \/ mounts' = Append(mounts, [session |-> ask.session, path |-> ask.path, mode |-> ask.mode,
                                        expiresAt |-> now + MountTerm, revokedAt |-> Unknown])
  BY DEF AnswerMount
<1> DEFINE g == [session |-> ask.session, path |-> ask.path, mode |-> ask.mode,
                 expiresAt |-> now + MountTerm, revokedAt |-> Unknown]
<1>2. UNCHANGED <<tag, containers>>
  BY DEF AnswerMount
<1>3. g \in MountRow /\ Unprotected(g.path) /\ g.revokedAt = Unknown
  BY MountsLast DEF SandboxInv, SandboxTypes, MountsAreLawful, MountAsk, MountRow
<1> HIDE DEF g
<1>4. /\ mounts' \in Seq(MountRow) /\ DOMAIN mounts \subseteq DOMAIN mounts'
      /\ \A i \in DOMAIN mounts : mounts'[i] = mounts[i]
      /\ \A i \in DOMAIN mounts' : i \in DOMAIN mounts \/ mounts'[i] = g
  <2>1. CASE UNCHANGED mounts
    BY <2>1 DEF SandboxInv, SandboxTypes
  <2>2. CASE mounts' = Append(mounts, g)
    BY <1>3, <2>2, AppendProperties DEF SandboxInv, SandboxTypes
  <2> QED BY <1>1, <2>1, <2>2 DEF g
<1>5. SandboxTypes'
  BY <1>1, <1>2, <1>4 DEF SandboxInv, SandboxTypes
<1>6. MountsAreLawful'
  BY <1>1, <1>3, <1>4 DEF SandboxInv, MountsAreLawful, Unprotected
<1>7. BindsAreLawful'
  BY <1>2, <1>4, <1>5, BindsOutlive
<1> QED BY <1>5, <1>6, <1>7 DEF SandboxInv

LEMMA RevokeMountKeeps ==
  ASSUME SandboxInv, RevokeMount, now' = now, CallersKnown'
  PROVE  SandboxInv'
<1>1. PICK r \in DOMAIN mounts : mounts' = [mounts EXCEPT ![r].revokedAt = now]
  BY DEF RevokeMount
<1>2. UNCHANGED <<tag, mountAsks, containers>>
  BY DEF RevokeMount
<1>3. /\ DOMAIN mounts' = DOMAIN mounts /\ now \in Nat
      /\ \A i \in DOMAIN mounts : mounts[i] \in MountRow
      /\ \A i \in DOMAIN mounts :
           mounts'[i] = IF i = r THEN [mounts[i] EXCEPT !.revokedAt = now] ELSE mounts[i]
  BY <1>1 DEF SandboxInv, SandboxTypes
<1>4. [mounts[r] EXCEPT !.revokedAt = now] \in MountRow
  BY <1>3 DEF MountRow
<1>5. mounts' \in Seq(MountRow)
  BY <1>1, <1>4, ExceptSeq DEF SandboxInv, SandboxTypes
<1>6. SandboxTypes'
  BY <1>2, <1>5 DEF SandboxInv, SandboxTypes
<1>7. \A i \in DOMAIN mounts :
        /\ mounts'[i].session = mounts[i].session /\ mounts'[i].path = mounts[i].path
        /\ mounts'[i].mode = mounts[i].mode /\ mounts'[i].expiresAt = mounts[i].expiresAt
        /\ mounts'[i].revokedAt = mounts[i].revokedAt \/ mounts'[i].revokedAt = now
  BY <1>3 DEF MountRow
<1>8. MountsAreLawful'
  BY <1>2, <1>3, <1>7 DEF SandboxInv, MountsAreLawful, Unprotected
<1>9. BindsAreLawful'
  BY <1>2, <1>3, <1>6, <1>7, BindsOutlive
<1> QED BY <1>6, <1>8, <1>9 DEF SandboxInv

LEMMA SandboxInvKept ==
  ASSUME SandboxInv, [Next]_vars
  PROVE  SandboxInv'
<1>1. CallersKnown'
  BY CallersStayKnown DEF SandboxInv, SandboxTypes
<1>2. CASE UNCHANGED sandboxVars
  <2>1. now' \in Nat /\ now <= now'
    BY ClockSteps DEF SandboxInv, SandboxTypes
  <2>2. SandboxTypes'
    BY <1>1, <1>2, <2>1 DEF SandboxInv, SandboxTypes, sandboxVars
  <2>3. /\ \A i \in DOMAIN mounts : mounts[i].revokedAt \in Nat \cup {Unknown}
        /\ \A s \in Sessions : containers[s] # Unknown => containers[s].at \in Nat
    <3>1. \A i \in DOMAIN mounts : mounts[i] \in MountRow
      BY DEF SandboxInv, SandboxTypes
    <3>2. \A s \in Sessions : containers[s] \in Container \cup {Unknown}
      BY DEF SandboxInv, SandboxTypes
    <3> QED BY <3>1, <3>2 DEF MountRow, Container
  <2>4. MountsAreLawful'
    BY <1>2, <2>1, <2>3 DEF SandboxInv, SandboxTypes, MountsAreLawful, Unprotected, sandboxVars
  <2>5. BindsAreLawful'
    BY <1>2, <2>1, <2>3
    DEF SandboxInv, SandboxTypes, BindsAreLawful, WasGranted, Unprotected, sandboxVars
  <2> QED BY <2>2, <2>4, <2>5 DEF SandboxInv
<1>3. ASSUME now' = now, NEW s \in Sessions, NEW path \in Paths, NEW mode \in Modes,
             RequestMount(s, path, mode)
      PROVE  SandboxInv'
  <2>1. UNCHANGED <<tag, mounts, containers>>
    BY <1>3 DEF RequestMount
  <2>2. /\ mountAsks' \subseteq MountAsk
        /\ \A ask \in mountAsks' : Unprotected(ask.path)
    BY <1>3 DEF RequestMount, Grantable, Unprotected, MountAsk, SandboxInv, SandboxTypes, MountsAreLawful
  <2>3. SandboxTypes' /\ MountsAreLawful'
    BY <1>1, <1>3, <2>1, <2>2 DEF SandboxInv, SandboxTypes, MountsAreLawful, Unprotected
  <2> QED BY <1>3, <2>1, <2>3, BindsOutlive DEF SandboxInv
<1>4. CASE now' = now /\ (DaemonTurns \/ TagMoves)
  <2>1. UNCHANGED <<mounts, mountAsks, containers>> /\ tag' \in {Declared, Other, Gone}
    BY <1>4 DEF DaemonTurns, TagMoves, SandboxInv, SandboxTypes
  <2>2. SandboxTypes' /\ MountsAreLawful'
    BY <1>1, <1>4, <2>1 DEF SandboxInv, SandboxTypes, MountsAreLawful, Unprotected
  <2> QED BY <1>4, <2>1, <2>2, BindsOutlive DEF SandboxInv
<1>5. CallersKnown
  BY DEF SandboxInv, SandboxTypes
<1> QED
  BY <1>1, <1>2, <1>3, <1>4, <1>5, SandboxSteps, ConfineKeeps, AnswerMountKeeps, RevokeMountKeeps
  DEF Modes

LEMMA SandboxInvInit == Init => SandboxInv
BY DEF Init, ClockInit, SandboxInit, SandboxInv, SandboxTypes, MountsAreLawful, BindsAreLawful,
       CallersKnown

\* What a container binds was granted to its own session and in force when it started, and
\* neither is nor holds a protected path (mount-tool.js, mounts.js), for any paths and terms.
THEOREM BindsAlwaysGranted == Spec => []BindsWereGranted
<1>1. SandboxInv => BindsWereGranted
  BY LawfulBindsWereGranted DEF SandboxInv
<1> QED BY <1>1, SandboxInvInit, SandboxInvKept, PTL DEF Spec

-----------------------------------------------------------------------------
(* The law on disk *)

Texts == Seq(Amendments \cup {CutShort})
Seals == [over : Texts, by : [AuthorityKeys -> Nat]]
Phases == {"recording", "sealing", "folding", "pinning", "package", "docs", "annexing"}
ToolRuns == [phase : Phases, of : Amendments, apply : BOOLEAN]

LawTypes ==
  /\ law \in Texts
  /\ pin \in Texts \cup {CutShort} /\ annex \in Texts \cup {CutShort}
  /\ registers \in [{"package", "docs"} -> Texts \cup {CutShort}]
  /\ seal \in Seals \cup {CutShort}
  /\ ledger \in Texts \cup {CutShort}
  /\ held \in [AuthorityKeys -> Nat] /\ named \in [AuthorityKeys -> Nat]
  /\ tool = [phase |-> "idle"] \/ tool \in ToolRuns

\* The law only grows, and the annex, the last file written, never runs ahead of it.
AnnexBehind == annex # CutShort => Len(annex) <= Len(law)

\* What a run of the tool has written by each of its phases.
WrittenSoFar ==
  /\ ~Running("idle") => Verifies(held, named)
  /\ Running("folding") => seal = SignSeal(Folded)
  /\ tool.phase \in {"pinning", "package", "docs", "annexing"} =>
       seal = SignSeal(law) /\ annex # law
  /\ tool.phase \in {"package", "docs", "annexing"} => pin \in {law, CutShort}
  /\ tool.phase \in {"docs", "annexing"} => registers["package"] = law
  /\ tool.phase \in {"folding", "pinning", "package", "docs", "annexing"} => stands = "half"

\* What a run that stopped half way left: a seal over another law, or an annex that is.
HalfIsTold == stands = "half" => ~SealCovers \/ annex # law

Times(text, a) == Cardinality({i \in DOMAIN text : text[i] = a})
Owed(a) == IF tool.phase \in {"sealing", "folding"} /\ tool.of = a THEN 1 ELSE 0

\* The ledger is ahead by what is recorded and not yet folded.
LedgerAhead ==
  ledger # CutShort => \A a \in Amendments : Times(law, a) + Owed(a) <= Times(ledger, a)

LawInv == LawTypes /\ AnnexBehind /\ WrittenSoFar /\ HalfIsTold /\ AppliedLawBoots /\ LedgerAhead

\* How often an amendment is in a text is a number.
LEMMA TimesAreCounted ==
  ASSUME NEW text \in Texts, NEW a
  PROVE  /\ IsFiniteSet({i \in DOMAIN text : text[i] = a})
         /\ Times(text, a) \in Nat
<1>1. DOMAIN text = 1..Len(text) /\ Len(text) \in Nat
  BY DEF Texts
<1>2. IsFiniteSet(1..Len(text))
  BY <1>1, FS_Interval
<1>3. IsFiniteSet({i \in DOMAIN text : text[i] = a})
  BY <1>1, <1>2, FS_Subset
<1> QED BY <1>3, FS_CardinalityType DEF Times

\* An entry more counts for what it is.
LEMMA TimesOfOneMore ==
  ASSUME NEW text \in Texts, NEW b \in Amendments \cup {CutShort}, NEW a
  PROVE  Times(Append(text, b), a) = Times(text, a) + IF b = a THEN 1 ELSE 0
<1> DEFINE S == {i \in DOMAIN text : text[i] = a}
           n == Len(text) + 1
           T == {i \in DOMAIN Append(text, b) : Append(text, b)[i] = a}
<1>1. /\ DOMAIN text = 1..Len(text) /\ Len(text) \in Nat
      /\ DOMAIN Append(text, b) = 1..n
      /\ \A i \in 1..Len(text) : Append(text, b)[i] = text[i]
      /\ Append(text, b)[n] = b
  BY DEF Texts
<1>2. n \notin S
  BY <1>1
<1>3. IsFiniteSet(S) /\ Cardinality(S) \in Nat
  BY TimesAreCounted DEF Times
<1>4. Times(Append(text, b), a) = Cardinality(T) /\ Times(text, a) = Cardinality(S)
  BY DEF Times
<1>5. CASE b = a
  <2>1. T = S \cup {n}
    BY <1>1, <1>5
  <2> HIDE DEF S, T, n
  <2>2. Cardinality(T) = Cardinality(S) + 1
    BY <1>2, <1>3, <2>1, FS_AddElement
  <2> QED BY <1>4, <1>5, <2>2
<1>6. CASE b # a
  <2>1. T = S
    BY <1>1, <1>6
  <2> HIDE DEF S, T, n
  <2>2. Cardinality(T) = Cardinality(S) + 0
    BY <1>3, <2>1
  <2> QED BY <1>4, <1>6, <2>2
<1> QED BY <1>5, <1>6

LEMMA LawInvSuffices == LawInv => BootsTheLedgersLaw
<1> SUFFICES ASSUME LawInv PROVE BootsTheLedgersLaw
  OBVIOUS
<1>1. HalfAppliedNeverBoots
  BY DEF LawInv, HalfIsTold, HalfAppliedNeverBoots, BootsUnder, BodyIsPinned, TrustRootHolds, AnnexHolds
<1>2. LawTracesToTheLedger
  <2> SUFFICES ASSUME ledger # CutShort, NEW a \in Amendments
               PROVE  Times(law, a) <= Times(ledger, a)
    BY DEF LawTracesToTheLedger, Times
  <2>1. Times(law, a) + Owed(a) <= Times(ledger, a)
    BY DEF LawInv, LedgerAhead
  <2>2. Times(law, a) \in Nat /\ Times(ledger, a) \in Nat
    BY TimesAreCounted DEF LawInv, LawTypes
  <2> QED BY <2>1, <2>2 DEF Owed
<1> QED BY <1>1, <1>2 DEF BootsTheLedgersLaw, LawInv

LEMMA LawInvInit == Init => LawInv
<1> SUFFICES ASSUME LawInit PROVE LawInv
  BY DEF Init
<1>1. <<>> \in Texts /\ CutShort \notin Texts /\ CutShort \notin Seals
  BY CutsAreNoTexts DEF Texts, Seals
<1>2. tool.phase = "idle"
  BY DEF LawInit
<1>3. LawTypes
  <2>1. seal \in Seals
    BY <1>1 DEF LawInit, Seals, Founders
  <2> QED BY <1>1, <2>1 DEF LawInit, LawTypes
<1>4. WrittenSoFar
  BY <1>2 DEF WrittenSoFar, Running
<1>5. LedgerAhead
  <2> SUFFICES ASSUME NEW a \in Amendments PROVE Times(law, a) + Owed(a) <= Times(ledger, a)
    BY DEF LedgerAhead
  <2>1. law = ledger /\ Owed(a) = 0 /\ Times(law, a) \in Nat
    BY <1>1, <1>2, TimesAreCounted DEF LawInit, Owed
  <2> QED BY <2>1
<1> QED
  BY <1>3, <1>4, <1>5 DEF LawInv, LawInit, AnnexBehind, HalfIsTold, AppliedLawBoots

\* A run of the tool has a phase of its own.
LEMMA ToolPhases ==
  ASSUME LawTypes
  PROVE  /\ tool.phase \in Phases \cup {"idle"}
         /\ tool.phase # "idle" => tool \in ToolRuns /\ tool.of \in Amendments
         /\ CutShort \notin Texts /\ CutShort \notin Seals /\ CutShort \notin Amendments
BY CutsAreNoTexts DEF LawTypes, ToolRuns, Texts, Seals

\* A seal made with the keys held is one, and covers its text and no other.
LEMMA SealsAreSeals ==
  ASSUME LawTypes, NEW text \in Texts
  PROVE  /\ SignSeal(text) \in Seals /\ SignSeal(text) # CutShort
         /\ SignSeal(text).over = text /\ SignSeal(text).by = held
BY ToolPhases DEF LawTypes, SignSeal, Seals

\* What is folded is a longer text.
LEMMA FoldedIsLonger ==
  ASSUME LawTypes, NEW b \in Amendments \cup {CutShort}
  PROVE  /\ Append(law, b) \in Texts
         /\ Append(law, b) # law
         /\ Len(law) \in Nat /\ Len(Append(law, b)) = Len(law) + 1
<1>1. law \in Seq(Amendments \cup {CutShort})
  BY DEF LawTypes, Texts
<1>2. Len(law) \in Nat /\ Len(Append(law, b)) = Len(law) + 1
  BY <1>1
<1> QED BY <1>1, <1>2, AppendProperties DEF Texts

\* An annex behind the law is none of a law that grows.
LEMMA AnnexOutgrown ==
  ASSUME LawTypes, AnnexBehind, NEW b \in Amendments \cup {CutShort}, law' = Append(law, b), annex' = annex
  PROVE  AnnexBehind' /\ annex' # law'
<1>1. CASE annex = CutShort
  BY <1>1, FoldedIsLonger, ToolPhases DEF AnnexBehind
<1>2. CASE annex # CutShort
  <2>1. Len(annex) \in Nat /\ Len(annex) <= Len(law)
    BY <1>2 DEF LawTypes, AnnexBehind, Texts
  <2>2. Len(law) \in Nat /\ Len(law') = Len(law) + 1
    BY FoldedIsLonger
  <2>3. Len(annex) # Len(law') /\ Len(annex) <= Len(law')
    BY <2>1, <2>2
  <2> QED BY <2>3 DEF AnnexBehind
<1> QED BY <1>1, <1>2

\* Where neither the law nor the ledger changes, and no more is owed, the ledger stays ahead.
LEMMA LedgerStaysAhead ==
  ASSUME LawTypes, LedgerAhead, law' = law, ledger' = ledger \/ ledger' = CutShort,
         \A a \in Amendments : Owed(a)' <= Owed(a)
  PROVE  LedgerAhead'
<1> SUFFICES ASSUME ledger' # CutShort, NEW a \in Amendments
             PROVE  Times(law, a) + Owed(a)' <= Times(ledger, a)
  BY DEF LedgerAhead, Times
<1>1. Times(law, a) + Owed(a) <= Times(ledger, a) /\ Owed(a)' <= Owed(a)
  BY DEF LedgerAhead
<1>2. Times(law, a) \in Nat /\ Times(ledger, a) \in Nat
  BY TimesAreCounted DEF LawTypes
<1>3. Owed(a) \in Nat /\ Owed(a)' \in Nat
  BY DEF Owed
<1> QED BY <1>1, <1>2, <1>3

LEMMA EnactKeeps ==
  ASSUME LawInv, NEW b \in Amendments, Enact(b)
  PROVE  LawInv'
<1>1. /\ tool.phase = "idle" /\ tool'.phase = "recording" /\ tool' \in ToolRuns
      /\ UNCHANGED <<law, seal, pin, registers, annex, ledger, held, named, stands>>
      /\ Verifies(held, named)
  BY DEF Enact, Running, files, SealVerified, SignSeal, ToolRuns, Phases
<1>2. LawTypes'
  BY <1>1 DEF LawInv, LawTypes
<1>3. WrittenSoFar'
  BY <1>1 DEF WrittenSoFar, Running, Verifies
<1>4. LedgerAhead'
  BY <1>1, LedgerStaysAhead DEF LawInv, Owed
<1> QED
  BY <1>1, <1>2, <1>3, <1>4
  DEF LawInv, AnnexBehind, HalfIsTold, SealCovers, AppliedLawBoots, BootsUnder, BodyIsPinned,
      TrustRootHolds, RegisterIsOfTheLaw, AnnexHolds, Verifies

LEMMA RecordEnactmentKeeps ==
  ASSUME LawInv, RecordEnactment
  PROVE  LawInv'
<1>1. /\ tool.phase = "recording" /\ tool \in ToolRuns /\ tool.of \in Amendments
      /\ ledger # CutShort /\ ledger' = Append(ledger, tool.of)
      /\ UNCHANGED <<law, seal, pin, registers, annex, held, named, stands>>
  BY ToolPhases DEF RecordEnactment, Running, Recorded, files, LawInv
<1>2. \/ tool' = [phase |-> "idle"]
      \/ tool' \in ToolRuns /\ tool'.phase = "sealing" /\ tool'.of = tool.of
  BY <1>1 DEF RecordEnactment, GoesOn, ToolRuns, Phases
<1>3. ledger \in Texts /\ ledger' \in Texts
  BY <1>1, AppendProperties DEF LawInv, LawTypes, Texts
<1>4. LawTypes'
  BY <1>1, <1>2, <1>3 DEF LawInv, LawTypes
<1>5. WrittenSoFar'
  BY <1>1, <1>2 DEF LawInv, WrittenSoFar, Running, Verifies
<1>6. LedgerAhead'
  <2> SUFFICES ASSUME NEW a \in Amendments
               PROVE  Times(law, a) + Owed(a)' <= Times(ledger', a)
    BY <1>1 DEF LedgerAhead, Times
  <2>1. Times(law, a) + Owed(a) <= Times(ledger, a) /\ Owed(a) = 0
    BY <1>1 DEF LawInv, LedgerAhead, Owed
  <2>2. Owed(a)' \in Nat /\ Owed(a)' <= IF tool.of = a THEN 1 ELSE 0
    BY <1>1, <1>2 DEF Owed
  <2>3. Times(ledger', a) = Times(ledger, a) + IF tool.of = a THEN 1 ELSE 0
    BY <1>1, <1>3, TimesOfOneMore
  <2>4. Times(law, a) \in Nat /\ Times(ledger, a) \in Nat
    BY <1>3, TimesAreCounted DEF LawInv, LawTypes
  <2> QED BY <2>1, <2>2, <2>3, <2>4
<1> QED
  BY <1>1, <1>4, <1>5, <1>6
  DEF LawInv, AnnexBehind, HalfIsTold, SealCovers, AppliedLawBoots, BootsUnder, BodyIsPinned,
      TrustRootHolds, RegisterIsOfTheLaw, AnnexHolds, Verifies

LEMMA WriteSealKeeps ==
  ASSUME LawInv, WriteSeal
  PROVE  LawInv'
<1>1. /\ tool.phase = "sealing" /\ tool \in ToolRuns /\ tool.of \in Amendments
      /\ tool'.phase = "folding" /\ tool' \in ToolRuns /\ tool'.of = tool.of
      /\ stands' = "half"
      /\ UNCHANGED <<law, pin, registers, annex, ledger, held, named>>
  BY ToolPhases DEF WriteSeal, Running, GoesOn, LawInv, ToolRuns, Phases
<1>2. seal' = SignSeal(Folded) /\ seal' \in Seals /\ seal'.over # law
  BY <1>1, SealsAreSeals, FoldedIsLonger DEF WriteSeal, Folded, LawInv
<1>3. LawTypes'
  BY <1>1, <1>2 DEF LawInv, LawTypes
<1>4. WrittenSoFar'
  BY <1>1, <1>2 DEF LawInv, WrittenSoFar, Running, Verifies, SignSeal, Folded
<1>5. HalfIsTold'
  BY <1>1, <1>2 DEF HalfIsTold, SealCovers
<1>6. LedgerAhead'
  BY <1>1, LedgerStaysAhead DEF LawInv, Owed
<1> QED
  BY <1>1, <1>3, <1>4, <1>5, <1>6 DEF LawInv, AnnexBehind, AppliedLawBoots

LEMMA WriteBodyKeeps ==
  ASSUME LawInv, WriteBody
  PROVE  LawInv'
<1>1. /\ tool.phase = "folding" /\ tool \in ToolRuns /\ tool.of \in Amendments
      /\ tool'.phase = "pinning" /\ tool' \in ToolRuns
      /\ law' = Append(law, tool.of) /\ stands = "half"
      /\ UNCHANGED <<seal, pin, registers, annex, ledger, held, named, stands>>
  BY ToolPhases DEF WriteBody, Running, GoesOn, LawInv, ToolRuns, Phases, Folded, WrittenSoFar
<1>2. law' \in Texts
  BY <1>1, FoldedIsLonger DEF LawInv
<1>3. LawTypes'
  BY <1>1, <1>2 DEF LawInv, LawTypes
<1>4. AnnexBehind' /\ annex' # law'
  BY <1>1, AnnexOutgrown DEF LawInv
<1>5. WrittenSoFar'
  BY <1>1, <1>4 DEF LawInv, WrittenSoFar, Running, Verifies, SignSeal, Folded
<1>6. LedgerAhead'
  <2> SUFFICES ASSUME ledger # CutShort, NEW a \in Amendments
               PROVE  Times(law', a) + Owed(a)' <= Times(ledger, a)
    BY <1>1 DEF LedgerAhead, Times
  <2>1. Times(law, a) + Owed(a) <= Times(ledger, a)
    BY DEF LawInv, LedgerAhead
  <2>2. Owed(a) = (IF tool.of = a THEN 1 ELSE 0) /\ Owed(a)' = 0
    BY <1>1 DEF Owed
  <2>3. Times(law', a) = Times(law, a) + IF tool.of = a THEN 1 ELSE 0
    BY <1>1, TimesOfOneMore DEF LawInv, LawTypes
  <2>4. Times(law, a) \in Nat /\ Times(ledger, a) \in Nat
    BY TimesAreCounted DEF LawInv, LawTypes
  <2> QED BY <2>1, <2>2, <2>3, <2>4
<1> QED
  BY <1>1, <1>3, <1>4, <1>5, <1>6 DEF LawInv, HalfIsTold, AppliedLawBoots

LEMMA WritePinKeeps ==
  ASSUME LawInv, WritePin
  PROVE  LawInv'
<1>1. /\ tool.phase = "pinning" /\ tool \in ToolRuns /\ stands = "half"
      /\ tool'.phase = "package" /\ tool' \in ToolRuns
      /\ pin' \in {law, CutShort}
      /\ UNCHANGED <<law, seal, registers, annex, ledger, held, named, stands>>
  BY ToolPhases DEF WritePin, Running, GoesOn, LawInv, ToolRuns, Phases, WrittenSoFar
<1>2. LawTypes'
  BY <1>1 DEF LawInv, LawTypes
<1>3. WrittenSoFar'
  BY <1>1 DEF LawInv, WrittenSoFar, Running, Verifies, SignSeal
<1>4. LedgerAhead'
  BY <1>1, LedgerStaysAhead DEF LawInv, Owed
<1> QED
  BY <1>1, <1>2, <1>3, <1>4 DEF LawInv, AnnexBehind, HalfIsTold, SealCovers, AppliedLawBoots

LEMMA WriteRegisterKeeps ==
  ASSUME LawInv, NEW at \in DOMAIN registers, WriteRegister(at)
  PROVE  LawInv'
<1>1. at \in {"package", "docs"}
  BY DEF LawInv, LawTypes
<1>2. /\ tool.phase = at /\ tool \in ToolRuns /\ stands = "half"
      /\ tool'.phase = IF at = "package" THEN "docs" ELSE "annexing"
      /\ tool' \in ToolRuns
      /\ registers' = [registers EXCEPT ![at] = law]
      /\ UNCHANGED <<law, seal, pin, annex, ledger, held, named, stands>>
  BY <1>1, ToolPhases DEF WriteRegister, Running, GoesOn, LawInv, ToolRuns, Phases, WrittenSoFar
<1>3. LawTypes'
  BY <1>1, <1>2 DEF LawInv, LawTypes
<1>4. registers'["package"] = law
  BY <1>1, <1>2 DEF LawInv, LawTypes, WrittenSoFar
<1>5. WrittenSoFar'
  BY <1>1, <1>2, <1>4 DEF LawInv, WrittenSoFar, Running, Verifies, SignSeal
<1>6. LedgerAhead'
  BY <1>1, <1>2, LedgerStaysAhead DEF LawInv, Owed
<1> QED
  BY <1>2, <1>3, <1>5, <1>6 DEF LawInv, AnnexBehind, HalfIsTold, SealCovers, AppliedLawBoots

LEMMA WriteAnnexKeeps ==
  ASSUME LawInv, WriteAnnex
  PROVE  LawInv'
<1>1. /\ tool.phase = "annexing" /\ tool' = [phase |-> "idle"] /\ tool'.phase = "idle"
      /\ annex' = law /\ stands' = "applied"
      /\ UNCHANGED <<law, seal, pin, registers, ledger, held, named>>
  BY DEF WriteAnnex, Running
<1>2. /\ seal = SignSeal(law) /\ pin \in {law, CutShort} /\ registers["package"] = law
      /\ Verifies(held, named)
  BY <1>1 DEF LawInv, WrittenSoFar, Running
<1>3. seal # CutShort /\ seal.over = law /\ seal.by = held
  BY <1>2, SealsAreSeals DEF LawInv, LawTypes
<1>4. LawTypes'
  BY <1>1 DEF LawInv, LawTypes
<1>5. WrittenSoFar'
  BY <1>1 DEF WrittenSoFar, Running
<1>6. AppliedLawBoots'
  BY <1>1, <1>2, <1>3
  DEF AppliedLawBoots, BootsUnder, BodyIsPinned, TrustRootHolds, SealCovers, RegisterIsOfTheLaw,
      AnnexHolds, Verifies
<1>7. LedgerAhead'
  BY <1>1, LedgerStaysAhead DEF LawInv, Owed
<1>8. AnnexBehind'
  BY <1>1 DEF AnnexBehind, LawInv, LawTypes, Texts
<1> QED BY <1>1, <1>4, <1>5, <1>6, <1>7, <1>8 DEF LawInv, HalfIsTold

LEMMA ToolEndsKeeps ==
  ASSUME LawInv, ToolEnds
  PROVE  LawInv'
<1>1. /\ tool.phase # "idle" /\ tool' = [phase |-> "idle"] /\ tool'.phase = "idle"
      /\ UNCHANGED <<held, named>>
  BY DEF ToolEnds, Running
<1>2. WrittenSoFar'
  BY <1>1 DEF WrittenSoFar, Running
<1>3. \A a \in Amendments : Owed(a)' = 0 /\ Owed(a)' <= Owed(a)
  BY <1>1 DEF Owed
<1>4. CASE UNCHANGED <<files, ledger, stands>>
  <2>1. UNCHANGED <<law, seal, pin, registers, annex, ledger, stands>>
    BY <1>4 DEF files
  <2>2. LawTypes'
    BY <1>1, <2>1 DEF LawInv, LawTypes
  <2>3. LedgerAhead'
    BY <1>3, <2>1, LedgerStaysAhead DEF LawInv
  <2> QED
    BY <1>1, <1>2, <2>1, <2>2, <2>3
    DEF LawInv, AnnexBehind, HalfIsTold, SealCovers, AppliedLawBoots, BootsUnder, BodyIsPinned,
        TrustRootHolds, RegisterIsOfTheLaw, AnnexHolds, Verifies
<1>5. CASE ledger' = CutShort /\ UNCHANGED <<files, stands>>
  <2>1. UNCHANGED <<law, seal, pin, registers, annex, stands>>
    BY <1>5 DEF files
  <2>2. LawTypes'
    BY <1>1, <1>5, <2>1 DEF LawInv, LawTypes
  <2>3. LedgerAhead'
    BY <1>5 DEF LedgerAhead
  <2> QED
    BY <1>1, <1>2, <2>1, <2>2, <2>3
    DEF LawInv, AnnexBehind, HalfIsTold, SealCovers, AppliedLawBoots, BootsUnder, BodyIsPinned,
        TrustRootHolds, RegisterIsOfTheLaw, AnnexHolds, Verifies
<1>6. CASE seal' = CutShort /\ stands' = "half" /\ UNCHANGED <<law, pin, registers, annex, ledger>>
  <2>1. LawTypes'
    BY <1>1, <1>6 DEF LawInv, LawTypes
  <2>2. LedgerAhead'
    BY <1>3, <1>6, LedgerStaysAhead DEF LawInv
  <2> QED
    BY <1>2, <1>6, <2>1, <2>2 DEF LawInv, AnnexBehind, HalfIsTold, SealCovers, AppliedLawBoots
<1>7. CASE /\ Running("folding") /\ law' = Append(law, CutShort)
           /\ UNCHANGED <<seal, pin, registers, annex, ledger, stands>>
  <2>1. stands = "half"
    BY <1>7 DEF LawInv, WrittenSoFar, Running
  <2>2. law' \in Texts
    BY <1>7, FoldedIsLonger DEF LawInv
  <2>3. LawTypes'
    BY <1>1, <1>7, <2>2 DEF LawInv, LawTypes
  <2>4. AnnexBehind' /\ annex' # law'
    BY <1>7, AnnexOutgrown DEF LawInv
  <2>5. LedgerAhead'
    <3> SUFFICES ASSUME ledger # CutShort, NEW a \in Amendments
                 PROVE  Times(law', a) + Owed(a)' <= Times(ledger, a)
      BY <1>7 DEF LedgerAhead, Times
    <3>1. Times(law, a) + Owed(a) <= Times(ledger, a)
      BY DEF LawInv, LedgerAhead
    <3>2. Owed(a) \in Nat /\ Owed(a)' = 0
      BY <1>3 DEF Owed
    <3>3. CutShort # a
      BY ToolPhases DEF LawInv
    <3>4. Times(law', a) = Times(law, a) + 0
      BY <1>7, <3>3, TimesOfOneMore DEF LawInv, LawTypes
    <3>5. Times(law, a) \in Nat /\ Times(ledger, a) \in Nat
      BY TimesAreCounted DEF LawInv, LawTypes
    <3> QED BY <3>1, <3>2, <3>4, <3>5
  <2> QED
    BY <1>2, <1>7, <2>1, <2>3, <2>4, <2>5 DEF LawInv, HalfIsTold, AppliedLawBoots
<1>8. CASE Running("pinning") /\ pin' = CutShort /\ UNCHANGED <<law, seal, registers, annex, ledger, stands>>
  <2>1. LawTypes'
    BY <1>1, <1>8 DEF LawInv, LawTypes
  <2>2. LedgerAhead'
    BY <1>3, <1>8, LedgerStaysAhead DEF LawInv
  <2> QED
    BY <1>2, <1>8, <2>1, <2>2 DEF LawInv, AnnexBehind, HalfIsTold, SealCovers, AppliedLawBoots
<1>9. CASE /\ tool.phase \in DOMAIN registers
           /\ registers' = [registers EXCEPT ![tool.phase] = CutShort]
           /\ UNCHANGED <<law, seal, pin, annex, ledger, stands>>
  <2>1. stands = "half"
    BY <1>9 DEF LawInv, LawTypes, WrittenSoFar
  <2>2. LawTypes'
    BY <1>1, <1>9 DEF LawInv, LawTypes
  <2>3. LedgerAhead'
    BY <1>3, <1>9, LedgerStaysAhead DEF LawInv
  <2> QED
    BY <1>2, <1>9, <2>1, <2>2, <2>3 DEF LawInv, AnnexBehind, HalfIsTold, SealCovers, AppliedLawBoots
<1>10. CASE /\ Running("annexing") /\ annex' = CutShort
            /\ UNCHANGED <<law, seal, pin, registers, ledger, stands>>
  <2>1. stands = "half" /\ annex' # law'
    BY <1>10, ToolPhases DEF LawInv, LawTypes, WrittenSoFar, Running
  <2>2. LawTypes'
    BY <1>1, <1>10 DEF LawInv, LawTypes
  <2>3. LedgerAhead'
    BY <1>3, <1>10, LedgerStaysAhead DEF LawInv
  <2> QED
    BY <1>2, <1>10, <2>1, <2>2, <2>3 DEF LawInv, AnnexBehind, HalfIsTold, AppliedLawBoots
<1> QED BY <1>4, <1>5, <1>6, <1>7, <1>8, <1>9, <1>10 DEF ToolEnds

LEMMA RekeysKeeps ==
  ASSUME LawInv, NEW k \in AuthorityKeys, Rekeys(k)
  PROVE  LawInv'
<1>1. /\ tool.phase = "idle" /\ held' = [held EXCEPT ![k] = @ + 1]
      /\ UNCHANGED <<law, seal, pin, registers, annex, ledger, named, tool, stands>>
  BY DEF Rekeys, Running, files
<1>2. LawTypes'
  BY <1>1 DEF LawInv, LawTypes
<1>3. LedgerAhead'
  BY <1>1, LedgerStaysAhead DEF LawInv, Owed
<1>4. WrittenSoFar'
  BY <1>1 DEF WrittenSoFar, Running
<1> QED
  BY <1>1, <1>2, <1>3, <1>4
  DEF LawInv, AnnexBehind, HalfIsTold, SealCovers, AppliedLawBoots, BootsUnder, BodyIsPinned,
      TrustRootHolds, RegisterIsOfTheLaw, AnnexHolds, Verifies

LEMMA RenamesKeeps ==
  ASSUME LawInv, Renames
  PROVE  LawInv'
<1>1. /\ tool.phase = "idle" /\ named' = held
      /\ stands' # "applied" /\ (stands' = "half" => stands = "half")
      /\ UNCHANGED <<law, seal, pin, registers, annex, ledger, held, tool>>
  BY DEF Renames, Running, files
<1>2. LawTypes'
  BY <1>1 DEF LawInv, LawTypes
<1>3. LedgerAhead'
  BY <1>1, LedgerStaysAhead DEF LawInv, Owed
<1>4. WrittenSoFar'
  BY <1>1 DEF WrittenSoFar, Running
<1> QED
  BY <1>1, <1>2, <1>3, <1>4 DEF LawInv, AnnexBehind, HalfIsTold, SealCovers, AppliedLawBoots

\* The law on disk changes by the tool alone.
LEMMA LawSteps ==
  ASSUME [Next]_vars
  PROVE  LawActs \/ UNCHANGED lawVars
BY DEF Next, vars, besideVars, Refuses, RefusesAloud, Asks, Counts, Passes, Counted, Allowed, Declined,
       ApprovalLapses, ScheduleEnds, Exception, Deciding, Recomposing, Provisioning, Writing,
       Amending, TimePasses

LEMMA LawInvKept ==
  ASSUME LawInv, [Next]_vars
  PROVE  LawInv'
<1>1. CASE UNCHANGED lawVars
  <2>1. UNCHANGED <<law, seal, pin, registers, annex, ledger, held, named, tool, stands>>
    BY <1>1 DEF lawVars
  <2>2. LawTypes' /\ AnnexBehind' /\ HalfIsTold'
    BY <2>1 DEF LawInv, LawTypes, AnnexBehind, HalfIsTold, SealCovers
  <2>3. WrittenSoFar'
    BY <2>1 DEF LawInv, WrittenSoFar, Running, Verifies, SignSeal, Folded
  <2>4. AppliedLawBoots'
    BY <2>1 DEF LawInv, AppliedLawBoots, BootsUnder, BodyIsPinned, TrustRootHolds, SealCovers,
                RegisterIsOfTheLaw, AnnexHolds, Verifies
  <2>5. LedgerAhead'
    BY <2>1, LedgerStaysAhead DEF LawInv, Owed
  <2> QED BY <2>2, <2>3, <2>4, <2>5 DEF LawInv
<1>2. CASE LawActs
  BY <1>2, EnactKeeps, RecordEnactmentKeeps, WriteSealKeeps, WriteBodyKeeps, WritePinKeeps,
     WriteAnnexKeeps, WriteRegisterKeeps, ToolEndsKeeps, RekeysKeeps, RenamesKeeps
  DEF LawActs
<1> QED BY <1>1, <1>2, LawSteps

\* What boots is a law applied whole, under the authority that sealed it, and holds no
\* amendment more often than the ledger does, wherever the tool dies, for any amendments,
\* keys and quorum (rehearsal-amendment.mjs; constitution/src/index.js).
THEOREM LawInvariant == Spec => []LawInv
BY LawInvInit, LawInvKept, PTL DEF Spec

\* So a half-applied amendment never boots, one applied to its end does, and what is in the
\* law was enacted (rehearsal-amendment.mjs:155).
THEOREM BootsAlwaysTheLedgersLaw == Spec => []BootsTheLedgersLaw
BY LawInvariant, LawInvSuffices, PTL

-----------------------------------------------------------------------------
-----------------------------------------------------------------------------
(* What a command reaches: D-7 *)

ShellTypeOK == command \in Seq(Words)

LEMMA PlacesAre ==
  ASSUME ShellTypeOK
  PROVE  /\ Len(command) \in Nat /\ DOMAIN command = 1..Len(command)
         /\ Places \subseteq 1..Len(command) /\ \A k \in Places : k \in Nat
<1>1. Len(command) \in Nat /\ DOMAIN command = 1..Len(command)
  BY DEF ShellTypeOK
<1>2. Places \subseteq DOMAIN command
  BY Zenon DEF Places
<1> QED BY <1>1, <1>2

LEMMA LeastIs ==
  ASSUME NEW S \in SUBSET Nat, S # {}
  PROVE  Least(S) \in S /\ \A k \in S : Least(S) <= k
BY LeastExists DEF Least

\* A place is of the part that the last place to open one opened.
LEMMA HeadIs ==
  ASSUME ShellTypeOK, NEW i \in Places
  PROVE  /\ HeadOf(i) \in 1..i /\ HeadOf(i) \in Places /\ OpensPart(HeadOf(i))
         /\ \A k \in HeadOf(i) + 1 .. i : ~OpensPart(k)
<1> DEFINE Run == {k \in 1..i : \A l \in k..i : l \in Places}
           h == Least(Run)
<1>1. i \in 1..Len(command) /\ Len(command) \in Nat /\ DOMAIN command = 1..Len(command)
  BY PlacesAre
<1>2. h \in Run /\ \A k \in Run : h <= k
  <2>1. i \in Run /\ Run \in SUBSET Nat
    BY <1>1
  <2> HIDE DEF Run
  <2> QED BY <2>1, LeastIs
<1>3. h \in 1..i /\ h \in Places /\ \A l \in h..i : l \in Places
  BY <1>1, <1>2
<1>4. h = 1 \/ command[h - 1] = ";"
  <2>1. h # 1 => h - 1 \in DOMAIN command
    BY <1>1, <1>3
  <2>2. h # 1 => h - 1 \notin Places
    <3> SUFFICES ASSUME h # 1, h - 1 \in Places PROVE FALSE
      OBVIOUS
    <3>1. \A l \in h - 1 .. i : l = h - 1 \/ l \in h..i
      BY <1>1, <1>3
    <3>2. \A l \in h - 1 .. i : l \in Places
      BY <1>3, <3>1
    <3>3. h - 1 \in Run
      BY <1>1, <1>3, <3>2
    <3> HIDE DEF Run, h
    <3> QED BY <1>1, <1>2, <1>3, <3>3
  <2> HIDE DEF h
  <2> QED BY <2>1, <2>2, Zenon DEF Places
<1>5. \A k \in h + 1 .. i : ~OpensPart(k)
  <2> SUFFICES ASSUME NEW k \in h + 1 .. i PROVE ~OpensPart(k)
    OBVIOUS
  <2>1. k - 1 \in h..i /\ k # 1
    BY <1>1, <1>3
  <2> HIDE DEF h
  <2> QED BY <1>3, <2>1 DEF OpensPart, Places
<1>6. \E g \in 1..i : OpensPart(g) /\ \A k \in g + 1 .. i : ~OpensPart(k)
  <2> HIDE DEF h
  <2> QED BY <1>3, <1>4, <1>5 DEF OpensPart
<1>7. HeadOf(i) \in 1..i /\ OpensPart(HeadOf(i)) /\ \A k \in HeadOf(i) + 1 .. i : ~OpensPart(k)
  BY <1>6 DEF HeadOf
<1> QED BY <1>7 DEF OpensPart

\* A part begins with the place that opens it.
LEMMA PartIs ==
  ASSUME ShellTypeOK, NEW i \in Places
  PROVE  /\ PartOf(i) \subseteq Places /\ HeadOf(i) \in PartOf(i) /\ PartOf(HeadOf(i)) = PartOf(i)
         /\ \A k \in PartOf(i) : HeadOf(k) = HeadOf(i) /\ HeadOf(i) <= k
<1> DEFINE h == HeadOf(i)
<1>1. h \in Places /\ OpensPart(h) /\ i \in Nat
  BY HeadIs, PlacesAre
<1>2. HeadOf(h) = h
  <2>1. HeadOf(h) \in 1..h /\ \A k \in HeadOf(h) + 1 .. h : ~OpensPart(k)
    BY <1>1, HeadIs
  <2>2. h \in Nat
    BY <1>1, PlacesAre
  <2> HIDE DEF h
  <2>3. h \notin HeadOf(h) + 1 .. h
    BY <1>1, <2>1
  <2> QED BY <2>1, <2>2, <2>3
<1>3. \A k \in PartOf(i) : k \in Places /\ HeadOf(k) = h
  BY DEF PartOf
<1>4. \A k \in PartOf(i) : h <= k
  <2> SUFFICES ASSUME NEW k \in PartOf(i) PROVE h <= k
    OBVIOUS
  <2>1. HeadOf(k) \in 1..k /\ k \in Nat
    BY <1>3, HeadIs, PlacesAre
  <2> QED BY <1>3, <2>1
<1> QED BY <1>1, <1>2, <1>3, <1>4 DEF PartOf

\* Before a part's verb there are assignments alone.
LEMMA VerbIs ==
  ASSUME ShellTypeOK, NEW i \in Places
  PROVE  /\ VerbOf(PartOf(i)) \in PartOf(i)
         /\ \A k \in PartOf(i) : k < VerbOf(PartOf(i)) => command[k] = "V=1"
<1> DEFINE part == PartOf(i)
           words == {k \in part : command[k] # "V=1"}
<1>1. part \in SUBSET Nat /\ part # {} /\ words \in SUBSET Nat
  BY PartIs, PlacesAre
<1> HIDE DEF part
<1>2. Least(part) \in part /\ \A k \in part : Least(part) <= k
  BY <1>1, LeastIs
<1>3. CASE words = {}
  BY <1>2, <1>3, <1>1 DEF VerbOf, part
<1>4. CASE words # {}
  <2> HIDE DEF words
  <2>1. Least(words) \in words /\ \A k \in words : Least(words) <= k
    BY <1>1, <1>4, LeastIs
  <2>2. VerbOf(part) = Least(words)
    BY <1>4 DEF VerbOf, words
  <2>3. \A k \in part : command[k] = "V=1" \/ k \in words
    BY DEF words
  <2>4. Least(words) \in part /\ Least(words) \in Nat
    BY <2>1, <1>1 DEF words
  <2>5. \A k \in part : k < Least(words) => command[k] = "V=1"
    BY <1>1, <2>1, <2>3, <2>4
  <2> QED BY <2>2, <2>4, <2>5 DEF part
<1> QED BY <1>3, <1>4

\* What a shell runs of a part is its verb, or what follows an "env" or a "command" with
\* no -v.
LEMMA ExecutesIs ==
  ASSUME ShellTypeOK, NEW j \in Places
  PROVE  LET v == VerbOf(PartOf(j))
             i == Executes(PartOf(j))
         IN  /\ i \in PartOf(j)
             /\ \/ i = v
                \/ command[v] = "env"
                \/ command[v] = "command" /\ v < i /\ \A k \in v..i : command[k] # "-v"
<1> DEFINE part == PartOf(j)
           v == VerbOf(part)
           rest == {k \in part : k > v /\ command[k] \notin Flags}
           runs == command[v] = "env" \/ (command[v] = "command" /\ \A k \in v .. Least(rest) : command[k] # "-v")
<1>1. part \in SUBSET Nat /\ v \in part
  BY PartIs, PlacesAre, VerbIs
<1>2. Executes(part) = IF rest # {} /\ runs THEN Least(rest) ELSE v
  BY DEF Executes
<1>3. CASE rest # {} /\ runs
  <2>1. Executes(part) = Least(rest)
    BY <1>2, <1>3
  <2>2. Least(rest) \in rest
    <3>1. rest \in SUBSET Nat
      BY <1>1
    <3> HIDE DEF rest
    <3> QED BY <1>3, <3>1, LeastIs
  <2>3. Least(rest) \in part /\ v < Least(rest)
    BY <2>2, <1>1
  <2> HIDE DEF rest, v, part
  <2> QED BY <1>3, <2>1, <2>3 DEF v, part
<1>4. CASE ~(rest # {} /\ runs)
  <2>1. Executes(part) = v
    BY <1>2, <1>4
  <2> QED BY <1>1, <2>1
<1> QED BY <1>3, <1>4

\* A word the shell runs is no mere mention.
LEMMA ExecutedIs ==
  ASSUME ShellTypeOK, NEW i \in Executed
  PROVE  i \in Places /\ ~Mentioned(i)
<1>1. PICK j \in Places : i = Executes(PartOf(j))
  BY DEF Executed
<1> DEFINE v == VerbOf(PartOf(j))
           h == HeadOf(i)
<1>2. /\ i \in PartOf(j) /\ v \in PartOf(j)
      /\ \/ i = v
         \/ command[v] = "env"
         \/ command[v] = "command" /\ v < i /\ \A k \in v..i : command[k] # "-v"
      /\ \A k \in PartOf(j) : k < v => command[k] = "V=1"
  BY <1>1, ExecutesIs, VerbIs
<1>3. /\ i \in Places /\ h = HeadOf(j) /\ h \in PartOf(j) /\ h <= v /\ h <= i
      /\ h \in Nat /\ v \in Nat /\ i \in Nat /\ OpensPart(h)
  BY <1>2, PartIs, PlacesAre, HeadIs
<1> HIDE DEF h, v
<1>4. CASE h < v
  BY <1>2, <1>3, <1>4 DEF Mentioned, VerbInspectors, Bare, h
<1>5. CASE h = v
  <2>1. CASE i = v
    BY <1>3, <1>5, <2>1 DEF Mentioned
  <2>2. CASE command[v] = "command" /\ v < i /\ \A k \in v..i : command[k] # "-v"
    <3>1. \A k \in h + 1 .. i - 1 : k \in v..i
      BY <1>3, <1>5
    <3>2. ~\E k \in h + 1 .. i - 1 : command[k] = "-v"
      BY <2>2, <3>1, Zenon
    <3>3. Bare(command[h]) = "command"
      BY <1>5, <2>2, Zenon DEF Bare
    <3>4. ~(Bare(command[h]) = "command" => \E k \in h + 1 .. i - 1 : command[k] = "-v")
      BY <3>2, <3>3
    <3> QED BY <1>3, <3>4, Zenon DEF Mentioned, h
  <2>3. CASE command[v] = "env"
    <3>1. Bare(command[h]) = "env"
      BY <1>5, <2>3, Zenon DEF Bare
    <3>2. Bare(command[h]) \notin VerbInspectors
      BY <3>1 DEF VerbInspectors
    <3> QED BY <1>3, <3>2, Zenon DEF Mentioned, h
  <2> QED BY <1>2, <2>1, <2>2, <2>3
<1> QED BY <1>3, <1>4, <1>5

\* A verb that may reach out has a finding, or names a URL, which is one.
LEMMA ToRemoteFinds ==
  ASSUME ShellTypeOK, NEW rest \in SUBSET Places, NEW verb
  PROVE  ToRemote(verb, rest) # {} \/ UrlFindings # {}
<1> DEFINE r == RemoteOf(rest)
           shaped == {k \in rest : command[k] \in Shaped}
           hosts == {k \in rest : command[k] \in Hosts}
<1>1. shaped \in SUBSET Nat /\ hosts \in SUBSET Nat /\ 0 \notin rest
  BY PlacesAre
<1>2. r = 0 \/ r \in rest
  <2>1. shaped # {} => Least(shaped) \in shaped
    <3> HIDE DEF shaped
    <3> QED BY <1>1, LeastIs
  <2>2. hosts # {} => Least(hosts) \in hosts
    <3> HIDE DEF hosts
    <3> QED BY <1>1, LeastIs
  <2>3. r = IF shaped # {} THEN Least(shaped) ELSE IF hosts # {} THEN Least(hosts) ELSE 0
    BY DEF RemoteOf
  <2> QED BY <2>1, <2>2, <2>3
<1> HIDE DEF r, shaped, hosts
<1>3. CASE r = 0
  <2>1. ToRemote(verb, rest) = {Finding("host", verb, "", "")}
    BY <1>3, SMTT(30) DEF ToRemote, r
  <2> QED BY <2>1, Zenon
<1>4. CASE r \in rest
  <2>1. r \in Places /\ r > 0
    BY <1>4, PlacesAre
  <2>2. CASE command[r] \in URLs
    BY <2>1, <2>2 DEF UrlFindings
  <2>3. CASE command[r] \notin URLs
    <3>1. ToRemote(verb, rest) = {Finding("host", verb, HostOf(command[r]), PortAfter(verb, rest, r))}
      BY <2>1, <2>3 DEF ToRemote, r
    <3> QED BY <3>1
  <2> QED BY <2>2, <2>3
<1> QED BY <1>2, <1>3, <1>4

\* A subcommand that no flag precedes is the word after its verb.
LEMMA NextIs ==
  ASSUME ShellTypeOK, NEW i \in Places, NEW verb \in {"git", "npm"}, NEW sub,
         Leads(i, verb, sub), ~FlagFirst(i)
  PROVE  i + 1 \in Places /\ command[i] = verb /\ command[i + 1] = sub /\ i < Len(command)
<1>1. PICK k \in Places : /\ k > i /\ command[k] = sub
                          /\ \A l \in i + 1 .. k - 1 : command[l] \in Flags
  BY DEF Leads
<1>2. i \in Nat /\ k \in Nat /\ k <= Len(command) /\ Len(command) \in Nat
  BY PlacesAre
<1>3. command[i] = verb /\ i < Len(command) /\ command[i + 1] \notin Flags
  BY <1>1, <1>2 DEF Leads, FlagFirst
<1>4. k = i + 1
  BY <1>1, <1>2, <1>3
<1> QED BY <1>1, <1>3, <1>4

\* Then the analyzer reads it as the verb's word.
LEMMA FollowedIs ==
  ASSUME ShellTypeOK, NEW i \in Places, i + 1 \in Places
  PROVE  WordAfter(i) = command[i + 1]
<1> DEFINE after == {k \in Places : k > i}
<1>1. i + 1 \in after /\ after \in SUBSET Nat /\ i \in Nat
  BY PlacesAre
<1> HIDE DEF after
<1>2. Least(after) \in after /\ \A k \in after : Least(after) <= k
  BY <1>1, LeastIs
<1>3. \A k \in after : k \in Places /\ k > i
  BY DEF after
<1>4. Least(after) = i + 1 /\ i + 1 \in Places
  <2>1. PICK l \in after : l = Least(after)
    BY <1>2
  <2>2. l \in Nat /\ l > i /\ l <= i + 1
    BY <1>1, <1>2, <1>3, <2>1
  <2>3. l = i + 1
    BY <1>1, <2>2
  <2> QED BY <1>1, <1>3, <2>1, <2>3
<1>5. PlaceAfter(i) = i + 1
  BY <1>1, <1>4 DEF PlaceAfter, after
<1> QED BY <1>4, <1>5 DEF WordAfter

\* What opens a connection is found.
LEMMA ContactsAreFound ==
  ASSUME ShellTypeOK, NEW i \in Executed, Contacts(i), ~FlagFirst(i)
  PROVE  Findings # {}
<1>1. i \in Places /\ ~Mentioned(i)
  BY ExecutedIs
<1>2. VerbFindings(i) # {} \/ UrlFindings # {} => Findings # {}
  BY <1>1 DEF Findings
<1>3. \A k : Rest(k) \in SUBSET Places
  BY DEF Rest
<1>4. CASE Bare(command[i]) \in NetworkVerbs
  <2>1. VerbFindings(i) = ToRemote(Bare(command[i]), Rest(i))
    BY <1>1, <1>4 DEF VerbFindings, NetworkVerbs
  <2> QED BY <1>2, <1>3, <2>1, ToRemoteFinds
<1>5. CASE Leads(i, "git", "push")
  <2>1. WordAfter(i) = "push" /\ command[i] = "git"
    BY <1>1, <1>5, NextIs, FollowedIs
  <2>2. VerbFindings(i) = ToRemote("git", Rest(PlaceAfter(i)))
    BY <2>1 DEF VerbFindings, NetworkVerbs, Bare
  <2> QED BY <1>2, <1>3, <2>2, ToRemoteFinds
<1>6. CASE Leads(i, "npm", "install")
  <2>1. WordAfter(i) = "install" /\ command[i] = "npm"
    BY <1>1, <1>6, NextIs, FollowedIs
  <2>2. VerbFindings(i) = {Finding("host", "npm", "registry", "443")}
    BY <2>1 DEF VerbFindings, NetworkVerbs, Bare
  <2> QED BY <1>2, <2>2
<1> QED BY <1>4, <1>5, <1>6 DEF Contacts

\* What sends by a write signal is classed a write.
LEMMA SendingIsAWrite ==
  ASSUME ShellTypeOK, NEW i \in Executed, Sends(i), ~FlagFirst(i), ~NoSignal(i)
  PROVE  MethodClass = "write"
<1>1. i \in Places /\ i \in 1..Len(command) /\ Len(command) \in Nat
  BY ExecutedIs, PlacesAre
<1>2. CASE Leads(i, "git", "push")
  <2>1. command[i] = "git" /\ command[i + 1] = "push" /\ i < Len(command)
    BY <1>1, <1>2, NextIs
  <2>2. Adjacent("git", "push")
    BY <1>1, <2>1 DEF Adjacent
  <2> QED BY <2>2 DEF MethodClass
<1>3. CASE CurlsWith(i, WriteSignals)
  <2>1. PICK k \in PartOf(i) : k > i /\ command[k] \in WriteSignals /\ k < Len(command)
    BY <1>3 DEF CurlsWith
  <2>2. k \in Places
    BY DEF PartOf
  <2>3. k \in 1 .. Len(command) - 1
    BY <1>1, <2>1, <2>2, PlacesAre
  <2> QED BY <2>1, <2>3 DEF MethodClass
<1> QED BY <1>2, <1>3 DEF Sends, NoSignal, CurlsWith

\* What writes, or runs what may, is not provably a reading, but for a listed reader.
LEMMA WritingIsNoReading ==
  ASSUME ShellTypeOK, NEW i \in Executed, Writes(i), ~NotListed(i)
  PROVE  ~ProvablyReads
<1>1. PICK j \in Places : i = Executes(PartOf(j))
  BY DEF Executed
<1> DEFINE part == PartOf(j)
           v == VerbOf(part)
<1>2. /\ i \in part /\ v \in part /\ PartOf(i) = part
      /\ i = v \/ command[v] \in {"env", "command"}
  <2>1. i \in part /\ v \in part /\ (i = v \/ command[v] \in {"env", "command"})
    BY <1>1, ExecutesIs, VerbIs
  <2>2. HeadOf(i) = HeadOf(j)
    BY <2>1, PartIs
  <2> QED BY <2>1, <2>2 DEF PartOf
<1>3. HeadOf(j) \in Places /\ OpensPart(HeadOf(j)) /\ PartOf(HeadOf(j)) = part
  BY HeadIs, PartIs
<1>4. ~ReadsHere(part)
  <2>1. command[v] \notin {"env", "sort"}
    BY <1>2 DEF NotListed
  <2> HIDE DEF part, v
  <2>2. CASE command[v] = "command"
    BY <2>2 DEF ReadsHere, BashReadVerbs, Bare, v
  <2>3. CASE i = v /\ command[i] \in {"rm", "npm", "ssh", "nc"}
    BY <2>3 DEF ReadsHere, BashReadVerbs, Bare, v
  <2>4. CASE i = v /\ Bare(command[i]) = "curl"
    <3>1. \E k \in part : k > v /\ command[k] \in CurlLocalWriteFlags
      BY <1>2, <2>4 DEF NotListed, Curls
    <3> QED BY <2>4, <3>1 DEF ReadsHere, BashReadVerbs, v
  <2> QED BY <1>2, <2>1, <2>2, <2>3, <2>4 DEF Writes, Curls
<1> QED BY <1>3, <1>4 DEF ProvablyReads

\* D-7: whatever line of words a Member types, what it reaches is found, what it sends is a
\* write, and what it writes is no reading (analyzer.js:1-13, :64-71, :135-140), but for the
\* flags and verbs that the analyzer's lists lack.
THEOREM ShellAlwaysAsks == Spec => []ErrsTowardsAsking
<1>1. Init => ShellTypeOK
  BY EmptySeq DEF Init, ShellInit, ShellTypeOK
<1>2. ShellTypeOK /\ [Next]_vars => ShellTypeOK'
  <2> SUFFICES ASSUME ShellTypeOK, [Next]_vars PROVE ShellTypeOK'
    OBVIOUS
  <2>1. command' = command \/ \E word \in Words : command' = Append(command, word)
    BY DEF Next, vars, besideVars, Refuses, RefusesAloud, Asks, Counts, Passes, Counted, Allowed, Declined,
       ApprovalLapses, ScheduleEnds, Exception, Deciding, Recomposing, Provisioning, Writing,
       Amending, TimePasses, ShellActs, TypesWord
  <2> QED BY <2>1, AppendProperties DEF ShellTypeOK
<1>3. ShellTypeOK => ErrsTowardsAsking
  <2> SUFFICES ASSUME ShellTypeOK, NEW i \in Executed
               PROVE  /\ Contacts(i) /\ ~FlagFirst(i) => Findings # {}
                      /\ Sends(i) /\ ~FlagFirst(i) /\ ~NoSignal(i) => MethodClass # "read"
                      /\ Writes(i) /\ ~NotListed(i) => ~ProvablyReads
    BY DEF ErrsTowardsAsking
  <2>1. Contacts(i) /\ ~FlagFirst(i) => Findings # {}
    BY ContactsAreFound
  <2>2. Sends(i) /\ ~FlagFirst(i) /\ ~NoSignal(i) => MethodClass # "read"
    BY SendingIsAWrite
  <2>3. Writes(i) /\ ~NotListed(i) => ~ProvablyReads
    BY WritingIsNoReading
  <2> QED BY <2>1, <2>2, <2>3
<1> QED BY <1>1, <1>2, <1>3, PTL DEF Spec

=============================================================================
