------------------------------ MODULE Petition ------------------------------
(***************************************************************************)
(* R-11, petition and amendment (packages/petition/src): a register of      *)
(* petitions, each owed one reasoned response within its term, the dissents *)
(* kept with a decision, and the counter of collisions with the law.        *)
(*                                                                         *)
(* A response and a dissent are reduced to who, when and whether they carry *)
(* what the clause requires.                                                *)
(***************************************************************************)
EXTENDS Clock, Collisions, SequencesExt

CONSTANTS
  Deciders,      \* who answers petitions and who dissents
  Outcomes,      \* response.outcome
  Term,          \* termMs
  MaxPetitions, MaxAttempts, MaxDissents, MaxFlags,  \* bounds
  Nobody

ASSUME TermIsASpan == Term \in Nat

VARIABLES
  petitions,     \* PetitionRegister
  counter        \* CollisionCounter

petitionVars == <<petitions, counter>>

PetitionInit == petitions = <<>> /\ counter = NewCounter

----------------------------------------------------------------------------
(* petition.js *)

\* file: no gate; the petition owes its answer by the end of the term.
File(member) ==
  petitions' = IF Len(petitions) = MaxPetitions THEN petitions
               ELSE Append(petitions, [by |-> member, filedAt |-> now, dueAt |-> now + Term,
                                       response |-> Nobody, dissents |-> {}, attempts |-> {}])

Answered(p) == p.response # Nobody

\* stateOf, read off the clock.
StateOf(p) == IF Answered(p) THEN "answered" ELSE IF now > p.dueAt THEN "overdue" ELSE "open"

\* A mutant: a decision may be decided again.
AlwaysAwaits(p) == TRUE

AwaitsDecision(p) == StateOf(p) # "answered"

\* respond: a response without what I-4 requires is kept as an attempt and leaves
\* the petition as it was; a conforming one is the decision, once.
Respond ==
  /\ \E i \in DOMAIN petitions, by \in Deciders, outcome \in Outcomes, conforming \in BOOLEAN :
       /\ AwaitsDecision(petitions[i])
       /\ petitions' =
            IF conforming
            THEN [petitions EXCEPT ![i].response = [by |-> by, at |-> now, outcome |-> outcome]]
            ELSE [petitions EXCEPT ![i].attempts =
                    IF Cardinality(@) = MaxAttempts THEN @ ELSE @ \cup {[by |-> by, at |-> now]}]
  /\ UNCHANGED counter

\* dissent: only from a decision, naming it.
Dissent ==
  /\ \E i \in DOMAIN petitions, by \in Deciders :
       /\ Answered(petitions[i])
       /\ Cardinality(petitions[i].dissents) < MaxDissents
       /\ petitions' = [petitions EXCEPT ![i].dissents =
                          @ \cup {[by |-> by, at |-> now, from |-> petitions[i].response]}]
  /\ UNCHANGED counter

----------------------------------------------------------------------------
(* index.js: what the tools and the refusal seam do *)

FlagCollision(rule) ==
  counter' = IF counter.flags = MaxFlags THEN counter ELSE Flag(counter, rule)

\* bindRefusalSeam: every refusal a gate announces, an ask among them, is one.
Collide(rule, print) == counter' = Record(counter, rule, Refused(print))

----------------------------------------------------------------------------
\* A-5, "a decision is amended by a new petition, not by overwriting the record"
\* (petition.js:141) and "preserved with the decision it dissents from" (:171-172):
\* whatever is tried after it, a dissent names the decision on record, which came
\* after the attempts that did not discharge the duty.
DecisionsStand ==
  \A i \in DOMAIN petitions :
    LET p == petitions[i]
    IN  /\ \A d \in p.dissents : d.from = p.response /\ p.response.at <= d.at
        /\ Answered(p) => \A a \in p.attempts : a.at <= p.response.at
=============================================================================
