----------------------------- MODULE Collisions -----------------------------
(***************************************************************************)
(* The petition channel's collision counter (petition/src/collisions.js):  *)
(* collisions between a rule and practice are counted by DISTINCT instance, *)
(* and a rule whose count reaches the threshold is issued one amendment    *)
(* invitation.  A counter is a value; the modules that compose the channel *)
(* (Petition, Judicature) hold it in a variable of theirs.                 *)
(***************************************************************************)
EXTENDS Naturals, FiniteSets

CONSTANTS Rules,     \* the rules collisions are recorded against
          Threshold  \* invitationThreshold

ASSUME ThresholdIsPositive == Threshold \in Nat \ {0}

\* The keys of a rule's Map: a refusal's fingerprint or, without one, its tool;
\* for a report of a Member or of a judgment, the report's own number.
Refused(print) == [kind |-> "seam", id |-> print]
Reported(n) == [kind |-> "flag", id |-> <<n>>]

\* invitedAt is the distinct count an invitation was issued at, 0 for none.
NewCounter == [flags |-> 0,
               board |-> [r \in Rules |-> [instances |-> {}, invitedAt |-> 0]]]

Distinct(counter, rule) == Cardinality(counter.board[rule].instances)

\* _maybeInvite: once per rule, at the first count that reaches the threshold.
MaybeInvite(rule, row) ==
  IF Cardinality(row.instances) < Threshold \/ row.invitedAt # 0 THEN row
  ELSE [row EXCEPT !.invitedAt = Cardinality(row.instances)]

Record(counter, rule, instance) ==
  LET row == counter.board[rule]
  IN  [counter EXCEPT !.board[rule] =
         MaybeInvite(rule, [row EXCEPT !.instances = @ \cup {instance}])]

\* Each report is an instance of its own, whoever made it and whatever it says.
Flag(counter, rule) ==
  Record([counter EXCEPT !.flags = @ + 1], rule, Reported(counter.flags + 1))
=============================================================================
