-------------------------- MODULE CaseDisposition --------------------------
(***************************************************************************)
(* What the judicature promises of a case (J-1, J-3, J-5, J-6), without    *)
(* saying how: a case is decided at most once, by a bench; it is contested *)
(* at most once; what an independent bench then decides is final; and      *)
(* remedies ride the decision that stands, in the name of the bench that   *)
(* made it, never while a seated bench re-hears it.                        *)
(***************************************************************************)
CONSTANTS Cases, Benches, NoBench,
          Independent(_, _)   \* may the second bench re-hear the first one's case?

VARIABLES stage,     \* stage[c]
          spoke,     \* spoke[c]: the bench whose decision stands
          remedied   \* remedied[c]: the benches remedies were landed by

vars == <<stage, spoke, remedied>>

\* A case is "none", "open", "decided", "contested", "held" (contested, and no bench
\* may be seated to re-hear it) or "final".
Init == /\ stage = [c \in Cases |-> "none"]
        /\ spoke = [c \in Cases |-> NoBench]
        /\ remedied = [c \in Cases |-> {}]

Move(c, from, to) == stage[c] = from /\ stage' = [stage EXCEPT ![c] = to]

File(c) == Move(c, "none", "open") /\ UNCHANGED <<spoke, remedied>>

Decide(c, b) == /\ Move(c, "open", "decided")
                /\ spoke' = [spoke EXCEPT ![c] = b]
                /\ UNCHANGED remedied

Contest(c) == /\ Move(c, "decided", "contested") \/ Move(c, "decided", "held")
              /\ UNCHANGED <<spoke, remedied>>

Rehear(c, b) == /\ Move(c, "contested", "final")
                /\ Independent(spoke[c], b)
                /\ spoke' = [spoke EXCEPT ![c] = b]
                /\ UNCHANGED remedied

Remedy(c) == /\ stage[c] \in {"decided", "held", "final"}
             /\ remedied' = [remedied EXCEPT ![c] = @ \cup {spoke[c]}]
             /\ UNCHANGED <<stage, spoke>>

Next == \E c \in Cases : \/ File(c) \/ Contest(c) \/ Remedy(c)
                         \/ \E b \in Benches : Decide(c, b) \/ Rehear(c, b)

Spec == Init /\ [][Next]_vars
=============================================================================
