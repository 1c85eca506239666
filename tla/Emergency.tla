------------------------------ MODULE Emergency ------------------------------
(***************************************************************************)
(* A-8, the state of exception (packages/emergency/src): an Enforcer or a  *)
(* Principal declares a bounded emergency, a scope, an expiry and the       *)
(* clauses that yield; a new declaration on a scope that was in exception   *)
(* until a moment ago is a renewal.  Expiry is read from the clock, never   *)
(* stored, and every act the waterfall lets through is marked under each    *)
(* live declaration.                                                        *)
(*                                                                         *)
(* A declaration's cause and its claim that notice was impractical are      *)
(* prose the record carries and nothing reads.                              *)
(***************************************************************************)
EXTENDS Clock, SequencesExt, FiniteSets

CONSTANTS
  Scopes,           \* the scopes declarations name, None among them or not
  Clauses, Floor,   \* the clauses of the body, and those that never yield
  Suspensions,      \* the sets of clauses declarations ask to suspend
  Terms,            \* how far ahead their expiry lies
  Window,           \* consecutiveWindowMs
  MaxDeclarations,  \* bound
  None

ASSUME TheFloorIsLaw == Floor \subseteq Clauses
ASSUME SpansOfTime == Terms \subseteq Nat /\ Window \in Nat
ASSUME NoneIsNoInstant == None \notin Nat

VARIABLES
  declarations,     \* every declaration, the refused ones too
  emergencyActs     \* acts marked: the call and the declaration it ran under

emergencyVars == <<declarations, emergencyActs>>

EmergencyInit == declarations = <<>> /\ emergencyActs = {}

----------------------------------------------------------------------------
(* declare.js *)

MayYield(clause) == clause \in Clauses \ Floor

Valid(scope, expiresAt, suspends) ==
  /\ scope # None
  /\ expiresAt > now
  /\ suspends # {} /\ \A c \in suspends : MayYield(c)

Accepted == {i \in DOMAIN declarations : ~declarations[i].refused}

IsActive(i) == /\ i \in Accepted
               /\ declarations[i].revokedAt = None
               /\ declarations[i].expiresAt > now

\* A mutant: a declaration cut short still ends at its declared expiry.
EndsAtExpiry(d) == d.expiresAt

\* endedAt: the revocation, even one that comes after the expiry.
EndedAt(d) == IF d.revokedAt # None THEN d.revokedAt ELSE d.expiresAt

\* classifyDeclaration: what an accepted declaration of the scope renews now.
Priors(scope) == {i \in Accepted : declarations[i].scope = scope}
Overlapping(scope) == {i \in Priors(scope) : IsActive(i)}
Recent(scope) == {i \in Priors(scope) : LET end == EndedAt(declarations[i])
                                        IN  end <= now /\ now - end <= Window}

LastToEnd(s) == CHOOSE i \in s : \A j \in s :
                  LET ei == EndedAt(declarations[i]) ej == EndedAt(declarations[j])
                  IN  ej < ei \/ (ej = ei /\ j <= i)

RenewalOf(scope) ==
  IF Overlapping(scope) # {} THEN CHOOSE i \in Overlapping(scope) : \A j \in Overlapping(scope) : j <= i
  ELSE IF Recent(scope) # {} THEN LastToEnd(Recent(scope))
  ELSE None

----------------------------------------------------------------------------
(* index.js *)

\* An operator's act; no tool of a Subject declares.
Declare ==
  /\ Len(declarations) < MaxDeclarations
  /\ \E scope \in Scopes, term \in Terms, suspends \in Suspensions :
       LET valid == Valid(scope, now + term, suspends)
           d == [refused |-> ~valid, scope |-> scope, declaredAt |-> now,
                 expiresAt |-> now + term, suspends |-> suspends, revokedAt |-> None,
                 renewalOf |-> IF valid THEN RenewalOf(scope) ELSE None]
       IN  declarations' = Append(declarations, d)
  /\ UNCHANGED emergencyActs

\* revoke: of any accepted declaration, the expired ones too; the first one stays.
Revoke ==
  /\ \E i \in Accepted :
       /\ declarations[i].revokedAt = None
       /\ declarations' = [declarations EXCEPT ![i].revokedAt = now]
  /\ UNCHANGED emergencyActs

Active == {i \in Accepted : IsActive(i)}

\* The hook on tools/pre-execute: marked against each declaration that is live.
MarkAct(call) == emergencyActs' = emergencyActs \cup {[act |-> call, under |-> i] : i \in Active}

----------------------------------------------------------------------------
\* "Ending an emergency sooner must never buy a lower threshold for the next one"
\* (declare.js:127-129): a declaration that counts as new comes after no exception
\* of its scope, in force then or really over, by expiry or by revocation, for no
\* longer than the window.
NoFreshEmergency ==
  \A j \in Accepted : declarations[j].renewalOf = None =>
    \A i \in Accepted : i < j /\ declarations[i].scope = declarations[j].scope =>
      LET d == declarations[i]
          over == IF d.revokedAt = None \/ d.expiresAt < d.revokedAt THEN d.expiresAt ELSE d.revokedAt
      IN  over + Window < declarations[j].declaredAt
=============================================================================
