----------------------------- MODULE Membership -----------------------------
(***************************************************************************)
(* What a member roll promises (J-4, F-8), without saying how: a Member is *)
(* admitted under a key nobody was ever bound to, re-keyed only while it   *)
(* stands, and once revoked stays so under every key it ever had.          *)
(***************************************************************************)
EXTENDS SequencesExt

CONSTANT Keys

VARIABLE members  \* lineage: by founding key, a Member's keys, oldest first;
                  \* revoked: the founding keys of the Members revoked

Nobody == [lineage |-> <<>>, revoked |-> {}]

Bound(st) == UNION {ToSet(keys) : keys \in Range(st.lineage)}
Serving(st) == DOMAIN st.lineage \ st.revoked

Admitted(st, k) ==
  [st EXCEPT !.lineage = [m \in DOMAIN @ \cup {k} |-> IF m = k THEN <<k>> ELSE @[m]]]
Rekeyed(st, m, k) == [st EXCEPT !.lineage[m] = Append(@, k)]
Revoked(st, m) == [st EXCEPT !.revoked = @ \cup {m}]

Moves(st, next) ==
  \/ \E k \in Keys \ Bound(st) : \/ next = Admitted(st, k)
                                 \/ \E m \in Serving(st) : next = Rekeyed(st, m, k)
  \/ \E m \in Serving(st) : next = Revoked(st, m)

Init == members = Nobody
Next == members' # members /\ Moves(members, members')

Spec == Init /\ [][Next]_members
=============================================================================
