--------------------------- MODULE IdentityProofs ---------------------------
(***************************************************************************)
(* Theorems about the member roll and the sessions certified over it, for  *)
(* any keys, authorities, threshold, sessions and bindings: the members a  *)
(* verifier reads move as a membership does, an anchored roll is the       *)
(* office's, and what is said of a certificate is so, at once to whoever   *)
(* asks and later to the auditor.                                          *)
(*                                                                         *)
(* What the rows make of the members is a recursive function; so are the   *)
(* walks up a lineage.  That such a function exists is proved by taking    *)
(* the least place where none would.                                       *)
(***************************************************************************)
EXTENDS Identity, SequenceTheorems, FiniteSetTheorems, WellFoundedInduction, TLAPS

LEMMA LeastNumber ==
  ASSUME NEW S \in SUBSET Nat, S # {}
  PROVE  \E i \in S : \A j \in S : i <= j
<1> DEFINE Below == {0..k : k \in S}
<1>1. Below \subseteq FiniteSubsetsOf(Nat) /\ Below # {}
  <2>1. \A k \in S : 0..k \in SUBSET Nat /\ IsFiniteSet(0..k)
    BY FS_Interval
  <2> QED BY <2>1 DEF FiniteSubsetsOf
<1>2. PICK X \in Below : \A Y \in Below : ~(<<Y, X>> \in StrictSubsetOrdering(Nat))
  <2> HIDE DEF Below
  <2> QED BY <1>1, FS_StrictSubsetOrderingWellFounded, WFMin
<1>3. PICK m \in S : X = 0..m
  BY <1>2
<1>4. ASSUME NEW k \in S, k < m PROVE FALSE
  <2>1. 0..k \in SUBSET Nat /\ 0..m \in SUBSET Nat /\ 0..k \subseteq 0..m
    BY <1>4
  <2>2. m \in 0..m /\ m \notin 0..k
    BY <1>4
  <2>3. 0..k # 0..m
    BY <2>2
  <2>4. <<0..k, 0..m>> \in StrictSubsetOrdering(Nat)
    BY <2>1, <2>3 DEF StrictSubsetOrdering
  <2>5. 0..k \in Below
    OBVIOUS
  <2> HIDE DEF Below
  <2> QED BY <1>2, <1>3, <2>4, <2>5
<1>5. \A k \in S : m <= k
  BY <1>4
<1> QED BY <1>5

-----------------------------------------------------------------------------
(* The members a roll makes *)

\* Each Member has its keys, and no key is of two Members.
MembersOK(st) ==
  /\ st = [lineage |-> st.lineage, revoked |-> st.revoked]
  /\ st.lineage = [m \in DOMAIN st.lineage |-> st.lineage[m]]
  /\ DOMAIN st.lineage \subseteq Keys
  /\ \A m \in DOMAIN st.lineage : st.lineage[m] \in Seq(Keys) /\ st.lineage[m] # <<>> /\ m \in ToSet(st.lineage[m])
  /\ \A m, n \in DOMAIN st.lineage : \A k \in ToSet(st.lineage[m]) \cap ToSet(st.lineage[n]) : m = n
  /\ st.revoked \subseteq DOMAIN st.lineage

\* `now` has the Members `before` had, with their keys.
Grows(before, now) ==
  /\ \A m \in DOMAIN before.lineage : /\ m \in DOMAIN now.lineage
                                      /\ ToSet(before.lineage[m]) \subseteq ToSet(now.lineage[m])
  /\ before.revoked \subseteq now.revoked

LEMMA NobodyOK == MembersOK(Nobody)
BY DEF MembersOK, Nobody

\* A key is held by the Member whose it is.
LEMMA HeldByOne ==
  ASSUME NEW st, MembersOK(st), NEW m \in DOMAIN st.lineage, NEW k \in ToSet(st.lineage[m])
  PROVE  Seen(st, k) /\ MemberOf(st, k) = m
<1>1. Holds(st, k) = {m}
  BY DEF MembersOK, Holds
<1> QED BY <1>1 DEF Seen, MemberOf

LEMMA HolderIsAMember ==
  ASSUME NEW st, NEW k, Holds(st, k) # {}
  PROVE  MemberOf(st, k) \in DOMAIN st.lineage /\ k \in ToSet(st.lineage[MemberOf(st, k)])
<1>1. MemberOf(st, k) \in Holds(st, k)
  BY DEF MemberOf
<1> QED BY <1>1 DEF Holds

\* A key that was never seen is bound to nobody.
LEMMA UnseenIsUnbound ==
  ASSUME NEW st, NEW k \in Keys, ~Seen(st, k)
  PROVE  k \in Keys \ Members!Bound(st)
BY DEF Seen, Holds, Members!Bound, Members!Range, Members!ToSet, ToSet

\* The last key of a Member is one of its keys; one more key is one more.
LEMMA KeysOfALineage ==
  ASSUME NEW keys \in Seq(Keys), NEW k \in Keys
  PROVE  /\ ToSet(Append(keys, k)) = ToSet(keys) \cup {k}
         /\ Append(keys, k) \in Seq(Keys) /\ Append(keys, k) # <<>>
         /\ ToSet(<<k>>) = {k} /\ <<k>> \in Seq(Keys) /\ <<k>> # <<>>
         /\ keys # <<>> => Last(keys) \in ToSet(keys)
<1>1. /\ Append(keys, k) \in Seq(Keys) /\ Append(keys, k) # <<>>
      /\ Len(Append(keys, k)) = Len(keys) + 1
      /\ \A i \in 1..Len(keys) : Append(keys, k)[i] = keys[i]
      /\ Append(keys, k)[Len(keys) + 1] = k
  OBVIOUS
<1>2. ToSet(Append(keys, k)) = ToSet(keys) \cup {k}
  <2>1. /\ DOMAIN keys = 1..Len(keys) /\ Len(keys) \in Nat
        /\ DOMAIN Append(keys, k) = 1..(Len(keys) + 1)
    BY <1>1
  <2>2. \A i \in 1..(Len(keys) + 1) : Append(keys, k)[i] \in ToSet(keys) \cup {k}
    BY <1>1, <2>1 DEF ToSet
  <2>3. \A x \in ToSet(keys) : x \in ToSet(Append(keys, k))
    BY <1>1, <2>1 DEF ToSet
  <2>4. k \in ToSet(Append(keys, k))
    BY <1>1, <2>1 DEF ToSet
  <2>5. \A x \in ToSet(Append(keys, k)) : x \in ToSet(keys) \cup {k}
    BY <2>1, <2>2 DEF ToSet
  <2> QED BY <2>3, <2>4, <2>5
<1>3. ToSet(<<k>>) = {k} /\ <<k>> \in Seq(Keys) /\ <<k>> # <<>>
  BY DEF ToSet
<1>4. keys # <<>> => Last(keys) \in ToSet(keys)
  BY DEF Last, ToSet
<1> QED BY <1>1, <1>2, <1>3, <1>4

\* A row moves the members as a membership moves, or leaves them.
RowDoes(st, next) == MembersOK(next) /\ Grows(st, next) /\ (next = st \/ Members!Moves(st, next))

LEMMA Admits ==
  ASSUME NEW st, MembersOK(st), NEW k \in Keys, ~Seen(st, k)
  PROVE  RowDoes(st, Members!Admitted(st, k))
<1> DEFINE l == [m \in DOMAIN st.lineage \cup {k} |-> IF m = k THEN <<k>> ELSE st.lineage[m]]
           next == [lineage |-> l, revoked |-> st.revoked]
<1>1. Members!Admitted(st, k) = next
  BY DEF Members!Admitted, MembersOK
<1>2. /\ k \notin DOMAIN st.lineage
      /\ \A m \in DOMAIN st.lineage : k \notin ToSet(st.lineage[m])
  BY DEF MembersOK, Seen, Holds
<1>3. /\ DOMAIN l = DOMAIN st.lineage \cup {k} /\ l[k] = <<k>>
      /\ \A m \in DOMAIN st.lineage : l[m] = st.lineage[m]
      /\ l = [m \in DOMAIN l |-> l[m]]
  BY <1>2
<1>4. ToSet(<<k>>) = {k} /\ <<k>> \in Seq(Keys) /\ <<k>> # <<>>
  BY KeysOfALineage
<1> HIDE DEF l
<1>5. MembersOK(next)
  <2>1. next.lineage = l /\ next.revoked = st.revoked /\ next = [lineage |-> next.lineage, revoked |-> next.revoked]
    OBVIOUS
  <2>2. DOMAIN l \subseteq Keys /\ st.revoked \subseteq DOMAIN l
    BY <1>3 DEF MembersOK
  <2>3. \A m \in DOMAIN l : l[m] \in Seq(Keys) /\ l[m] # <<>> /\ m \in ToSet(l[m])
    BY <1>3, <1>4 DEF MembersOK
  <2>4. \A m, n \in DOMAIN l : \A x \in ToSet(l[m]) \cap ToSet(l[n]) : m = n
    <3>1. \A m, n \in DOMAIN st.lineage : \A x \in ToSet(st.lineage[m]) \cap ToSet(st.lineage[n]) : m = n
      BY DEF MembersOK
    <3>2. \A m \in DOMAIN l : ToSet(l[m]) = IF m = k THEN {k} ELSE ToSet(st.lineage[m])
      BY <1>3, <1>4
    <3>3. \A m \in DOMAIN l : m = k \/ m \in DOMAIN st.lineage
      BY <1>3
    <3> QED BY <1>2, <3>1, <3>2, <3>3
  <2>5. l = [m \in DOMAIN l |-> l[m]]
    BY <1>3
  <2> HIDE DEF next
  <2> QED BY <2>1, <2>2, <2>3, <2>4, <2>5 DEF MembersOK
<1>6. Grows(st, next)
  BY <1>3 DEF Grows, MembersOK
<1>7. Members!Moves(st, next)
  BY <1>1, UnseenIsUnbound DEF Members!Moves
<1> QED BY <1>1, <1>5, <1>6, <1>7 DEF RowDoes

LEMMA Rekeys ==
  ASSUME NEW st, MembersOK(st), NEW m \in DOMAIN st.lineage \ st.revoked, NEW k \in Keys, ~Seen(st, k)
  PROVE  RowDoes(st, Members!Rekeyed(st, m, k))
<1> DEFINE l == [st.lineage EXCEPT ![m] = Append(@, k)]
           next == [lineage |-> l, revoked |-> st.revoked]
<1>1. Members!Rekeyed(st, m, k) = next
  <2>1. PICK lineage, revoked : st = [lineage |-> lineage, revoked |-> revoked]
    BY DEF MembersOK
  <2>2. st.lineage = lineage /\ st.revoked = revoked
    BY <2>1
  <2>3. [st EXCEPT !.lineage = l] = [lineage |-> l, revoked |-> revoked]
    <3> HIDE DEF l
    <3> QED BY <2>1
  <2>4. [st EXCEPT !.lineage[m] = Append(@, k)] = [st EXCEPT !.lineage = l]
    OBVIOUS
  <2> QED BY <2>2, <2>3, <2>4 DEF Members!Rekeyed
<1>2. \A n \in DOMAIN st.lineage : k \notin ToSet(st.lineage[n])
  BY DEF Seen, Holds
<1>3. st.lineage[m] \in Seq(Keys)
  BY DEF MembersOK
<1>4. /\ ToSet(Append(st.lineage[m], k)) = ToSet(st.lineage[m]) \cup {k}
      /\ Append(st.lineage[m], k) \in Seq(Keys) /\ Append(st.lineage[m], k) # <<>>
  BY <1>3, KeysOfALineage
<1>5. /\ DOMAIN l = DOMAIN st.lineage /\ l[m] = Append(st.lineage[m], k)
      /\ \A n \in DOMAIN st.lineage \ {m} : l[n] = st.lineage[n]
      /\ l = [n \in DOMAIN l |-> l[n]]
  OBVIOUS
<1> HIDE DEF l
<1>6. \A n \in DOMAIN l : ToSet(l[n]) = IF n = m THEN ToSet(st.lineage[n]) \cup {k} ELSE ToSet(st.lineage[n])
  BY <1>4, <1>5
<1>7. \A n, o \in DOMAIN l : \A x \in ToSet(l[n]) \cap ToSet(l[o]) : n = o
  <2>1. \A n, o \in DOMAIN st.lineage : \A x \in ToSet(st.lineage[n]) \cap ToSet(st.lineage[o]) : n = o
    BY DEF MembersOK
  <2>2. DOMAIN l = DOMAIN st.lineage
    BY <1>5
  <2>3. ASSUME NEW n \in DOMAIN l, NEW o \in DOMAIN l, NEW x \in ToSet(l[n]) \cap ToSet(l[o]), n # o
        PROVE  FALSE
    <3>1. CASE n = m
      <4>1. x \in ToSet(st.lineage[o]) /\ x # k /\ o \in DOMAIN st.lineage
        BY <1>2, <1>6, <2>2, <2>3, <3>1
      <4>2. x \in ToSet(st.lineage[m])
        BY <1>6, <2>3, <3>1, <4>1
      <4> QED BY <2>1, <2>3, <3>1, <4>1, <4>2
    <3>2. CASE o = m
      <4>1. x \in ToSet(st.lineage[n]) /\ x # k /\ n \in DOMAIN st.lineage
        BY <1>2, <1>6, <2>2, <2>3, <3>2
      <4>2. x \in ToSet(st.lineage[m])
        BY <1>6, <2>3, <3>2, <4>1
      <4> QED BY <2>1, <2>3, <3>2, <4>1, <4>2
    <3>3. CASE n # m /\ o # m
      BY <1>6, <2>1, <2>2, <2>3, <3>3
    <3> QED BY <3>1, <3>2, <3>3
  <2> QED BY <2>3
<1>8. \A n \in DOMAIN l : l[n] \in Seq(Keys) /\ l[n] # <<>> /\ n \in ToSet(l[n])
  BY <1>4, <1>5, <1>6 DEF MembersOK
<1>9. MembersOK(next)
  <2>1. next.lineage = l /\ next.revoked = st.revoked /\ next = [lineage |-> next.lineage, revoked |-> next.revoked]
    OBVIOUS
  <2>2. DOMAIN l \subseteq Keys /\ st.revoked \subseteq DOMAIN l
    BY <1>5 DEF MembersOK
  <2> HIDE DEF next
  <2> QED BY <1>5, <1>7, <1>8, <2>1, <2>2 DEF MembersOK
<1>10. Grows(st, next)
  <2>1. \A n \in DOMAIN st.lineage : n \in DOMAIN l /\ ToSet(st.lineage[n]) \subseteq ToSet(l[n])
    BY <1>5, <1>6
  <2> QED BY <2>1 DEF Grows
<1>11. Members!Moves(st, next)
  BY <1>1, UnseenIsUnbound DEF Members!Moves, Members!Serving
<1> QED BY <1>1, <1>9, <1>10, <1>11 DEF RowDoes

LEMMA Revokes ==
  ASSUME NEW st, MembersOK(st), NEW m \in DOMAIN st.lineage \ st.revoked
  PROVE  RowDoes(st, Members!Revoked(st, m))
<1> DEFINE next == [lineage |-> st.lineage, revoked |-> st.revoked \cup {m}]
<1>1. Members!Revoked(st, m) = next
  <2>1. PICK lineage, revoked : st = [lineage |-> lineage, revoked |-> revoked]
    BY DEF MembersOK
  <2>2. st.lineage = lineage /\ st.revoked = revoked
    BY <2>1
  <2> QED BY <2>1, <2>2 DEF Members!Revoked
<1>2. MembersOK(next) /\ Grows(st, next)
  BY DEF MembersOK, Grows
<1>3. Members!Moves(st, next)
  BY <1>1 DEF Members!Moves, Members!Serving
<1> QED BY <1>1, <1>2, <1>3 DEF RowDoes

LEMMA RowMoves ==
  ASSUME NEW st, MembersOK(st), NEW row \in Rows
  PROVE  RowDoes(st, Read(st, row))
<1>1. row.key \in Keys
  BY DEF Rows, Row
<1>2. CASE ~Accepted(st, row)
  BY <1>2 DEF Read, RowDoes, Grows
<1>3. CASE Accepted(st, row) /\ row.kind = "admission"
  <2>1. Read(st, row) = Members!Admitted(st, row.key)
    BY <1>3 DEF Read, Effect, Members!Admitted
  <2>2. ~Seen(st, row.key)
    BY <1>3 DEF Accepted
  <2> QED BY <1>1, <2>1, <2>2, Admits
<1>4. CASE Accepted(st, row) /\ row.kind = "rotation"
  <2> DEFINE m == MemberOf(st, row.predecessor)
  <2>1. Read(st, row) = Members!Rekeyed(st, m, row.key)
    BY <1>4 DEF Read, Effect, Members!Rekeyed
  <2>2. ~Seen(st, row.key) /\ Holds(st, row.predecessor) # {} /\ m \notin st.revoked
    BY <1>4 DEF Accepted
  <2>3. m \in DOMAIN st.lineage \ st.revoked
    BY <2>2, HolderIsAMember
  <2> HIDE DEF m
  <2> QED BY <1>1, <2>1, <2>2, <2>3, Rekeys
<1>5. CASE Accepted(st, row) /\ row.kind = "revocation"
  <2> DEFINE m == MemberOf(st, row.key)
  <2>1. Read(st, row) = Members!Revoked(st, m)
    BY <1>5 DEF Read, Effect, Members!Revoked
  <2>2. m \in DOMAIN st.lineage \ st.revoked
    BY <1>5, HolderIsAMember DEF Accepted
  <2> HIDE DEF m
  <2> QED BY <2>1, <2>2, Revokes
<1> QED BY <1>2, <1>3, <1>4, <1>5 DEF Rows, Row

-----------------------------------------------------------------------------
(* Reading a roll *)

ReadsOn(rows, h) == h = [n \in 0..Len(rows) |-> IF n = 0 THEN Nobody ELSE Read(h[n - 1], rows[n])]

\* The reading of any rows is defined.
LEMMA ReadingExists ==
  ASSUME NEW rows, Len(rows) \in Nat
  PROVE  \E h : ReadsOn(rows, h)
<1> DEFINE N == Len(rows)
           Upto(k, h) == \A n \in 0..N : n <= k => h[n] = IF n = 0 THEN Nobody ELSE Read(h[n - 1], rows[n])
           bad == {k \in 0..N : ~(\E h : h = [n \in 0..N |-> h[n]] /\ Upto(k, h))}
<1>1. ASSUME bad # {} PROVE FALSE
  <2>1. PICK m \in bad : \A j \in bad : m <= j
    <3> HIDE DEF bad
    <3>1. bad \in SUBSET Nat
      BY DEF bad
    <3> QED BY <1>1, <3>1, LeastNumber
  <2>2. m \in 0..N /\ ~(\E h : h = [n \in 0..N |-> h[n]] /\ Upto(m, h))
    OBVIOUS
  <2>3. CASE m = 0
    <3> DEFINE h == [n \in 0..N |-> Nobody]
    <3>1. h = [n \in 0..N |-> h[n]]
      OBVIOUS
    <3>2. Upto(0, h)
      OBVIOUS
    <3> HIDE DEF h, Upto
    <3> QED BY <2>2, <2>3, <3>1, <3>2
  <2>4. CASE m # 0
    <3>1. m \in Nat /\ m - 1 \in 0..N /\ ~(m <= m - 1)
      BY <2>2, <2>4
    <3>2. m - 1 \notin bad
      <4> HIDE DEF bad
      <4> QED BY <2>1, <3>1
    <3>3. PICK h : h = [n \in 0..N |-> h[n]] /\ Upto(m - 1, h)
      BY <3>1, <3>2
    <3> DEFINE g == [n \in 0..N |-> IF n = m THEN Read(h[n - 1], rows[n]) ELSE h[n]]
    <3>4. g = [n \in 0..N |-> g[n]]
      OBVIOUS
    <3>5. ASSUME NEW n \in 0..N, n <= m
          PROVE  g[n] = IF n = 0 THEN Nobody ELSE Read(g[n - 1], rows[n])
      <4>1. n # 0 => n - 1 \in 0..N /\ n - 1 # m
        BY <3>1, <3>5
      <4>2. n # 0 => g[n - 1] = h[n - 1]
        BY <4>1
      <4>3. CASE n = m
        BY <2>4, <4>2, <4>3
      <4>4. CASE n # m
        <5>1. n <= m - 1 /\ g[n] = h[n]
          BY <3>1, <3>5, <4>4
        <5> HIDE DEF g
        <5> QED BY <3>3, <4>2, <5>1
      <4> QED BY <4>3, <4>4
    <3> HIDE DEF g
    <3>6. Upto(m, g)
      BY <3>5
    <3> HIDE DEF Upto
    <3> QED BY <2>2, <3>4, <3>6
  <2> QED BY <2>3, <2>4
<1>2. PICK h : h = [n \in 0..N |-> h[n]] /\ Upto(N, h)
  <2>1. N \in 0..N /\ N \notin bad
    <3> HIDE DEF bad
    <3> QED BY <1>1
  <2> QED BY <2>1
<1>3. \A n \in 0..N : h[n] = IF n = 0 THEN Nobody ELSE Read(h[n - 1], rows[n])
  <2>1. \A n \in 0..N : n <= N
    OBVIOUS
  <2> QED BY <1>2, <2>1
<1>4. h = [n \in 0..N |-> h[n]]
  BY <1>2
<1> QED BY <1>3, <1>4 DEF ReadsOn

\* Whoever reads the same rows reads the same members.
LEMMA ReadingsAgree ==
  ASSUME NEW rows, NEW N \in Nat, NEW g, NEW h,
         g[0] = Nobody, h[0] = Nobody,
         \A n \in 1..N : g[n] = Read(g[n - 1], rows[n]) /\ h[n] = Read(h[n - 1], rows[n])
  PROVE  g[N] = h[N]
<1> DEFINE bad == {n \in 0..N : g[n] # h[n]}
<1>1. ASSUME bad # {} PROVE FALSE
  <2>1. PICK m \in bad : \A j \in bad : m <= j
    <3> HIDE DEF bad
    <3>1. bad \in SUBSET Nat
      BY DEF bad
    <3> QED BY <1>1, <3>1, LeastNumber
  <2>2. m \in 0..N /\ m # 0 /\ g[m] # h[m]
    OBVIOUS
  <2>3. m - 1 \in 0..N /\ m \in 1..N /\ ~(m <= m - 1)
    BY <2>2
  <2>4. m - 1 \notin bad
    <3> HIDE DEF bad
    <3> QED BY <2>1, <2>3
  <2>5. g[m - 1] = h[m - 1]
    BY <2>3, <2>4
  <2> QED BY <2>2, <2>3, <2>5
<1>2. N \in 0..N /\ N \notin bad
  <2> HIDE DEF bad
  <2> QED BY <1>1
<1> QED BY <1>2

LEMMA StandingReads ==
  ASSUME NEW rows, Len(rows) \in Nat
  PROVE  \E h : Standing(rows) = h[Len(rows)] /\ ReadsOn(rows, h)
<1> DEFINE h == CHOOSE h : h = [n \in 0..Len(rows) |-> IF n = 0 THEN Nobody ELSE Read(h[n - 1], rows[n])]
<1>1. ReadsOn(rows, h)
  BY ReadingExists DEF ReadsOn
<1>2. Standing(rows) = h[Len(rows)]
  BY DEF Standing
<1> HIDE DEF h
<1> QED BY <1>1, <1>2

LEMMA NothingRead == Standing(<<>>) = Nobody
<1>1. Len(<<>>) = 0
  OBVIOUS
<1>2. PICK h : Standing(<<>>) = h[0] /\ ReadsOn(<<>>, h)
  BY <1>1, StandingReads
<1> QED BY <1>1, <1>2 DEF ReadsOn

\* One row more is read after the others.
LEMMA StandingMoves ==
  ASSUME NEW rows \in Seq(Rows), NEW row \in Rows
  PROVE  Standing(Append(rows, row)) = Read(Standing(rows), row)
<1> DEFINE more == Append(rows, row)
<1>1. /\ Len(rows) \in Nat /\ Len(more) = Len(rows) + 1
      /\ \A n \in 1..Len(rows) : more[n] = rows[n]
      /\ more[Len(rows) + 1] = row
  OBVIOUS
<1> HIDE DEF more
<1>2. PICK g : Standing(rows) = g[Len(rows)] /\ ReadsOn(rows, g)
  BY <1>1, StandingReads
<1>3. PICK h : Standing(more) = h[Len(rows) + 1] /\ ReadsOn(more, h)
  BY <1>1, StandingReads
<1>4. g[0] = Nobody /\ \A n \in 1..Len(rows) : g[n] = Read(g[n - 1], rows[n])
  BY <1>1, <1>2 DEF ReadsOn
<1>5. h[0] = Nobody /\ \A n \in 1..(Len(rows) + 1) : h[n] = Read(h[n - 1], more[n])
  BY <1>1, <1>3 DEF ReadsOn
<1>6. \A n \in 1..Len(rows) : g[n] = Read(g[n - 1], rows[n]) /\ h[n] = Read(h[n - 1], rows[n])
  BY <1>1, <1>4, <1>5
<1>7. g[Len(rows)] = h[Len(rows)]
  <2>1. PICK n \in Nat : n = Len(rows)
    BY <1>1
  <2>2. \A k \in 1..n : g[k] = Read(g[k - 1], rows[k]) /\ h[k] = Read(h[k - 1], rows[k])
    BY <1>6, <2>1
  <2>3. g[n] = h[n]
    BY ONLY <1>4, <1>5, <2>2, n \in Nat, ReadingsAgree
  <2> QED BY <2>1, <2>3
<1>8. h[Len(rows) + 1] = Read(h[Len(rows)], row)
  BY <1>1, <1>5
<1> QED BY <1>2, <1>3, <1>7, <1>8 DEF more

-----------------------------------------------------------------------------
(* The office *)

Instruments == [epoch : Nat, through : Nat, head : Seq(Rows), signedBy : Signings]

\* Each head is the office's rows, as many as the instrument says.
RollInv ==
  /\ entries \in Seq(Rows)
  /\ checkpoints \in Seq(Instruments)
  /\ \A i \in DOMAIN checkpoints :
       /\ checkpoints[i].through \in 0..Len(entries)
       /\ checkpoints[i].head = SubSeq(entries, 1, checkpoints[i].through)
  /\ MembersOK(Standing(entries))

LEMMA RollInit == Init => RollInv /\ Members!Init
<1> SUFFICES ASSUME Init PROVE RollInv /\ Members!Init
  OBVIOUS
<1>1. entries = <<>> /\ checkpoints = <<>> /\ entries \in Seq(Rows) /\ checkpoints \in Seq(Instruments)
      /\ DOMAIN checkpoints = {}
  BY DEF Init
<1>2. Standing(entries) = Nobody
  BY <1>1, NothingRead
<1>3. RollInv
  BY <1>1, <1>2, NobodyOK DEF RollInv
<1> QED BY <1>2, <1>3 DEF Members!Init, Members!Nobody, Nobody

LEMMA RowAppended ==
  ASSUME RollInv, NEW row \in Rows, AppendRow(row)
  PROVE  RollInv' /\ RowDoes(Standing(entries), Standing(entries'))
<1>1. entries' = Append(entries, row) /\ checkpoints' = checkpoints
  BY DEF AppendRow
<1>2. RowDoes(Standing(entries), Standing(entries'))
  BY <1>1, StandingMoves, RowMoves DEF RollInv
<1>3. entries' \in Seq(Rows) /\ Len(entries') = Len(entries) + 1 /\ Len(entries) \in Nat
  BY <1>1 DEF RollInv
<1>4. ASSUME NEW i \in DOMAIN checkpoints
      PROVE  /\ checkpoints[i].through \in 0..Len(entries')
             /\ checkpoints[i].head = SubSeq(entries', 1, checkpoints[i].through)
  <2> DEFINE n == checkpoints[i].through
  <2>1. n \in 0..Len(entries) /\ checkpoints[i].head = SubSeq(entries, 1, n)
    BY DEF RollInv
  <2> HIDE DEF n
  <2>2. SubSeq(entries', 1, n) = SubSeq(entries, 1, n)
    <3>1. entries \in Seq(Rows)
      BY DEF RollInv
    <3> QED BY <1>1, <2>1, <3>1
  <2> QED BY <1>3, <2>1, <2>2 DEF n
<1> QED BY <1>1, <1>2, <1>3, <1>4 DEF RollInv, RowDoes

LEMMA EpochClosed ==
  ASSUME RollInv, NEW signers \in Signings, CloseEpoch(signers)
  PROVE  RollInv' /\ entries' = entries
<1> DEFINE cp == [epoch |-> Len(checkpoints), through |-> Len(entries), head |-> entries, signedBy |-> signers]
<1>1. checkpoints' = Append(checkpoints, cp) /\ entries' = entries
  BY DEF CloseEpoch
<1>2. entries \in Seq(Rows) /\ Len(entries) \in Nat /\ checkpoints \in Seq(Instruments) /\ Len(checkpoints) \in Nat
  BY DEF RollInv
<1>3. cp \in Instruments
  BY <1>2 DEF Instruments
<1>4. cp.through \in 0..Len(entries) /\ cp.head = SubSeq(entries, 1, cp.through)
  BY <1>2
<1> HIDE DEF cp
<1>5. checkpoints' \in Seq(Instruments)
  BY <1>1, <1>2, <1>3
<1>6. ASSUME NEW i \in DOMAIN checkpoints'
      PROVE  checkpoints'[i] = cp \/ (i \in DOMAIN checkpoints /\ checkpoints'[i] = checkpoints[i])
  BY <1>1, <1>2, <1>3
<1> QED BY <1>1, <1>4, <1>5, <1>6 DEF RollInv

LEMMA RollMoves ==
  ASSUME RollInv, [Next]_vars
  PROVE  RollInv' /\ (entries' = entries \/ RowDoes(Standing(entries), Standing(entries')))
<1>1. CASE UNCHANGED vars
  BY <1>1 DEF vars, RollInv
<1>2. CASE Next
  BY <1>2, RowAppended, EpochClosed DEF Next
<1> QED BY <1>1, <1>2

THEOREM RollInvariant == Spec => []RollInv
BY RollInit, RollMoves, PTL DEF Spec

\* Whatever is appended, signed by whomever, the members the verifier reads are admitted
\* under unseen keys, re-keyed while they stand, and stay revoked.
THEOREM RollImplementsMembership == Spec => ImplementsMembership
<1>1. RollInv /\ [Next]_vars => [Members!Next]_(Standing(entries))
  BY RollMoves DEF RowDoes, Members!Next
<1> QED BY <1>1, RollInit, RollInvariant, PTL DEF Spec, ImplementsMembership, Members!Spec

\* The instruments hold what follows them to the rows they cover.
LEMMA AnchorsHold == RollInv => AnchoredRowsAreTheOffices
<1> SUFFICES ASSUME RollInv PROVE AnchoredRowsAreTheOffices
  OBVIOUS
<1> DEFINE n == Through(checkpoints, Len(checkpoints))
           anchored == SubSeq(entries, 1, n)
<1>1. checkpoints \in Seq(Instruments) /\ entries \in Seq(Rows)
  BY DEF RollInv
<1>2. CASE Len(checkpoints) = 0
  BY <1>1, <1>2 DEF AnchoredRowsAreTheOffices, Through
<1>3. CASE Len(checkpoints) # 0
  <2> DEFINE cp == checkpoints[Len(checkpoints)]
  <2>1. Len(checkpoints) \in DOMAIN checkpoints /\ n = cp.through
    BY <1>1, <1>3 DEF Through
  <2>2. n \in 0..Len(entries) /\ cp.head = anchored
    BY <2>1 DEF RollInv
  <2>3. ASSUME NEW rows, Verifies(rows, checkpoints)
        PROVE  IsPrefix(anchored, rows)
    <3>1. n <= Len(rows) /\ SubSeq(rows, 1, n) = anchored
      BY <2>1, <2>2, <2>3 DEF Verifies, CheckpointsVerify, Reached
    <3>2. Len(anchored) = n /\ SubSeq(anchored, 1, n) = anchored
      <4> HIDE DEF n
      <4> QED BY <1>1, <2>2
    <3> HIDE DEF n, anchored
    <3> QED BY <3>1, <3>2 DEF IsPrefix
  <2> QED BY <2>3 DEF AnchoredRowsAreTheOffices
<1> QED BY <1>2, <1>3

\* Of an office whose rows are sealed, what verifies carries the rows it sealed.
THEOREM AnchorsAlwaysHold == Spec => []AnchoredRowsAreTheOffices
BY RollInvariant, AnchorsHold, PTL

-----------------------------------------------------------------------------
(* Lineages *)

\* The headers' depths are the depths.
LEMMA DepthsAreHeaders ==
  /\ \A s \in Sessions : Depth[s] \in 0..Cardinality(Sessions)
  /\ \A s \in Sessions : Depth[s] = IF Parent[s] = None THEN 0 ELSE 1 + Depth[Parent[s]]
<1> DEFINE N == Cardinality(Sessions)
<1>1. PICK d \in [Sessions -> 0..N] :
        \A s \in Sessions : d[s] = IF Parent[s] = None THEN 0 ELSE d[Parent[s]] + 1
  BY HeadersAreLineages
<1>2. N \in Nat
  BY HeadersAreLineages, FS_CardinalityType
<1> HIDE DEF N
<1>3. \A s \in Sessions : d[s] \in Nat
  BY <1>1, <1>2
<1>4. \A s \in Sessions : Parent[s] # None => Parent[s] \in Sessions /\ d[Parent[s]] \in Nat
  BY <1>3, HeadersAreLineages
<1>5. d = [s \in Sessions |-> IF Parent[s] = None THEN 0 ELSE 1 + d[Parent[s]]]
  <2>1. \A s \in Sessions : d[s] = IF Parent[s] = None THEN 0 ELSE 1 + d[Parent[s]]
    BY <1>1, <1>4
  <2>2. d = [s \in Sessions |-> d[s]]
    BY <1>1
  <2> QED BY <2>1, <2>2
<1>6. Depth = [s \in Sessions |-> IF Parent[s] = None THEN 0 ELSE 1 + Depth[Parent[s]]]
  <2> DEFINE f == CHOOSE f : f = [s \in Sessions |-> IF Parent[s] = None THEN 0 ELSE 1 + f[Parent[s]]]
  <2>1. f = [s \in Sessions |-> IF Parent[s] = None THEN 0 ELSE 1 + f[Parent[s]]]
    BY <1>5
  <2>2. Depth = f
    BY DEF Depth
  <2> HIDE DEF f
  <2> QED BY <2>1, <2>2
<1>7. \A s \in Sessions : Depth[s] = IF Parent[s] = None THEN 0 ELSE 1 + Depth[Parent[s]]
  BY <1>6
<1> DEFINE bad == {s \in Sessions : Depth[s] # d[s]}
<1>8. ASSUME bad # {} PROVE FALSE
  <2> DEFINE ranks == {d[s] : s \in bad}
  <2>1. ranks \in SUBSET Nat /\ ranks # {}
    BY <1>3, <1>8
  <2>2. PICK r \in ranks : \A j \in ranks : r <= j
    <3> HIDE DEF ranks
    <3> QED BY <2>1, LeastNumber
  <2>3. PICK s \in bad : d[s] = r
    OBVIOUS
  <2>4. s \in Sessions /\ Depth[s] # d[s] /\ \A t \in bad : d[s] <= d[t]
    BY <2>2, <2>3
  <2>5. Parent[s] # None
    BY <1>1, <1>7, <2>4
  <2>6. Parent[s] \in Sessions /\ d[s] = d[Parent[s]] + 1 /\ d[Parent[s]] \in Nat
    BY <1>1, <1>4, <2>4, <2>5
  <2>7. Depth[Parent[s]] = d[Parent[s]]
    <3>1. ~(d[s] <= d[Parent[s]])
      BY <2>6
    <3> QED BY <2>4, <2>6, <3>1
  <2> QED BY <1>7, <2>4, <2>5, <2>6, <2>7
<1>9. \A s \in Sessions : Depth[s] = d[s]
  BY <1>8
<1> QED BY <1>1, <1>7, <1>9 DEF N

\* A parent is one less deep than its child.
LEMMA ParentsAreAbove ==
  ASSUME NEW s \in Sessions
  PROVE  /\ Depth[s] \in Nat
         /\ Parent[s] = None => Depth[s] = 0
         /\ Parent[s] # None => /\ Parent[s] \in Sessions /\ Depth[Parent[s]] \in Nat
                                /\ Depth[s] = 1 + Depth[Parent[s]]
<1>1. Cardinality(Sessions) \in Nat
  BY HeadersAreLineages, FS_CardinalityType
<1>2. \A t \in Sessions : Depth[t] \in Nat
  BY <1>1, DepthsAreHeaders
<1>3. Parent[s] # None => Parent[s] \in Sessions
  BY HeadersAreLineages
<1> QED BY <1>2, <1>3, DepthsAreHeaders

\* A walk up a lineage: what it has at the sessions where it stops, a root at the latest,
\* and what a session makes of what its parent has.
Walk(V, stop, first, on) ==
  /\ stop \in SUBSET Sessions /\ \A s \in Sessions \ stop : Parent[s] # None
  /\ first \in [Sessions -> V] /\ on \in [V \X Sessions -> V]
Walked(f, stop, first, on) ==
  \A s \in Sessions : f[s] = IF s \in stop THEN first[s] ELSE on[<<f[Parent[s]], s>>]

\* It ends, and so what it has everywhere is defined.
LEMMA WalksEnd ==
  ASSUME NEW V, NEW stop, NEW first, NEW on, Walk(V, stop, first, on)
  PROVE  \E f \in [Sessions -> V] : Walked(f, stop, first, on)
<1> USE DEF Walk
<1> DEFINE N == Cardinality(Sessions)
           Walks(f, s) == f[s] = IF s \in stop THEN first[s] ELSE on[<<f[Parent[s]], s>>]
           Upto(n, f) == \A s \in Sessions : Depth[s] <= n => Walks(f, s)
           bad == {n \in Nat : ~(\E f \in [Sessions -> V] : Upto(n, f))}
<1>1. N \in Nat
  BY HeadersAreLineages, FS_CardinalityType
<1>2. ASSUME bad # {} PROVE FALSE
  <2>1. PICK m \in bad : \A j \in bad : m <= j
    <3> HIDE DEF bad
    <3>1. bad \in SUBSET Nat
      BY DEF bad
    <3> QED BY <1>2, <3>1, LeastNumber
  <2>2. m \in Nat /\ ~(\E f \in [Sessions -> V] : Upto(m, f))
    OBVIOUS
  <2>3. CASE m = 0
    <3>1. \A s \in Sessions : Depth[s] <= 0 => s \in stop
      BY ParentsAreAbove
    <3>2. Upto(0, first)
      BY <3>1
    <3> HIDE DEF Upto
    <3> QED BY <2>2, <2>3, <3>2
  <2>4. CASE m # 0
    <3>1. m - 1 \in Nat /\ ~(m <= m - 1)
      BY <2>2, <2>4
    <3>2. m - 1 \notin bad
      <4> HIDE DEF bad
      <4> QED BY <2>1, <3>1
    <3>3. PICK f \in [Sessions -> V] : Upto(m - 1, f)
      BY <3>1, <3>2
    <3> DEFINE g == [s \in Sessions |-> IF Depth[s] # m THEN f[s]
                                        ELSE IF s \in stop THEN first[s] ELSE on[<<f[Parent[s]], s>>]]
    <3>4. \A s \in Sessions \ stop : Parent[s] \in Sessions /\ Depth[s] = 1 + Depth[Parent[s]]
                                     /\ Depth[Parent[s]] \in Nat /\ Depth[s] \in Nat
      BY ParentsAreAbove
    <3>5. g \in [Sessions -> V]
      <4>1. \A s \in Sessions \ stop : on[<<f[Parent[s]], s>>] \in V
        BY <3>3, <3>4
      <4> QED BY <4>1
    <3>6. ASSUME NEW s \in Sessions, Depth[s] <= m
          PROVE  Walks(g, s)
      <4>1. s \notin stop => g[Parent[s]] = f[Parent[s]]
        <5>1. s \notin stop => Parent[s] \in Sessions /\ Depth[Parent[s]] # m
          BY <2>2, <3>4, <3>6
        <5> QED BY <5>1
      <4>2. CASE Depth[s] = m
        BY <4>1, <4>2
      <4>3. CASE Depth[s] # m
        <5>1. Depth[s] <= m - 1
          <6>1. Depth[s] \in Nat
            BY ParentsAreAbove
          <6> QED BY <2>2, <3>6, <4>3, <6>1
        <5>2. g[s] = f[s]
          BY <4>3
        <5> HIDE DEF g
        <5> QED BY <3>3, <4>1, <5>1, <5>2
      <4> QED BY <4>2, <4>3
    <3> HIDE DEF g
    <3>7. Upto(m, g)
      BY <3>6
    <3> HIDE DEF Upto
    <3> QED BY <2>2, <3>5, <3>7
  <2> QED BY <2>3, <2>4
<1>3. PICK f \in [Sessions -> V] : Upto(N, f)
  <2>1. N \notin bad
    <3> HIDE DEF bad
    <3> QED BY <1>2
  <2> HIDE DEF N, Upto
  <2> QED BY <1>1, <2>1
<1>4. \A s \in Sessions : Depth[s] <= N
  BY <1>1, DepthsAreHeaders
<1> HIDE DEF N
<1> QED BY <1>3, <1>4 DEF Walked

\* The sessions an issue certifies: none of them was, each the parent of the next, down
\* to the one it is for.
Line(new, s) ==
  /\ new \in Seq(Sessions)
  /\ \A i \in 1..Len(new) : subjects[new[i]] = 0 /\ Depth[new[i]] = Depth[s] - Len(new) + i
  /\ \A i \in 2..Len(new) : Parent[new[i]] = new[i - 1]
  /\ new # <<>> => new[Len(new)] = s

LEMMA UncertifiedWalks ==
  \A s \in Sessions : Uncertified[s] = IF HasCertificate(s) THEN <<>>
                                       ELSE IF Parent[s] = None \/ Parent[s] \notin live THEN <<s>>
                                       ELSE Append(Uncertified[Parent[s]], s)
<1> DEFINE stop == {s \in Sessions : HasCertificate(s) \/ Parent[s] = None \/ Parent[s] \notin live}
           first == [s \in Sessions |-> IF HasCertificate(s) THEN <<>> ELSE <<s>>]
           on == [p \in Seq(Sessions) \X Sessions |-> Append(p[1], p[2])]
           Is(u) == u = [s \in Sessions |-> IF HasCertificate(s) THEN <<>>
                                            ELSE IF Parent[s] = None \/ Parent[s] \notin live THEN <<s>>
                                            ELSE Append(u[Parent[s]], s)]
<1>1. first \in [Sessions -> Seq(Sessions)] /\ on \in [Seq(Sessions) \X Sessions -> Seq(Sessions)]
  OBVIOUS
<1>2. stop \in SUBSET Sessions /\ \A s \in Sessions \ stop : Parent[s] # None
  OBVIOUS
<1>3. PICK f \in [Sessions -> Seq(Sessions)] : Walked(f, stop, first, on)
  <2>1. Walk(Seq(Sessions), stop, first, on)
    BY <1>1, <1>2 DEF Walk
  <2> HIDE DEF stop, first, on
  <2> QED BY <2>1, WalksEnd
<1>4. Is(f)
  <2>1. ASSUME NEW s \in Sessions, s \notin stop
        PROVE  on[<<f[Parent[s]], s>>] = Append(f[Parent[s]], s)
    <3>1. Parent[s] \in Sessions
      BY <2>1, ParentsAreAbove
    <3> QED BY <3>1
  <2>2. ASSUME NEW s \in Sessions
        PROVE  f[s] = IF HasCertificate(s) THEN <<>>
                      ELSE IF Parent[s] = None \/ Parent[s] \notin live THEN <<s>>
                      ELSE Append(f[Parent[s]], s)
    <3>1. CASE s \in stop
      <4>1. f[s] = first[s]
        BY <1>3, <3>1 DEF Walked
      <4> QED BY <3>1, <4>1
    <3>2. CASE s \notin stop
      <4>1. f[s] = Append(f[Parent[s]], s)
        BY <1>3, <2>1, <3>2 DEF Walked
      <4> QED BY <3>2, <4>1
    <3> QED BY <3>1, <3>2
  <2>3. f = [s \in Sessions |-> f[s]]
    BY <1>3
  <2> QED BY <2>2, <2>3
<1>5. Is(CHOOSE u : Is(u))
  BY <1>4
<1>6. Uncertified = CHOOSE u : Is(u)
  BY DEF Uncertified
<1> DEFINE u == CHOOSE u : Is(u)
<1> HIDE DEF u
<1>7. u = [s \in Sessions |-> IF HasCertificate(s) THEN <<>>
                              ELSE IF Parent[s] = None \/ Parent[s] \notin live THEN <<s>>
                              ELSE Append(u[Parent[s]], s)] /\ Uncertified = u
  BY <1>5, <1>6 DEF u
<1> QED BY <1>7

LEMMA RootLine ==
  ASSUME NEW s \in Sessions, ~HasCertificate(s)
  PROVE  Line(<<s>>, s)
<1>1. /\ <<s>> \in Seq(Sessions) /\ Len(<<s>>) = 1 /\ <<s>>[1] = s
  OBVIOUS
<1>2. Depth[s] \in Nat /\ Depth[s] = Depth[s] - 1 + 1
  BY ParentsAreAbove
<1> QED BY <1>1, <1>2 DEF Line, HasCertificate

LEMMA ChildLine ==
  ASSUME NEW s \in Sessions, ~HasCertificate(s), Parent[s] # None, NEW up, Line(up, Parent[s])
  PROVE  Line(Append(up, s), s)
<1> DEFINE new == Append(up, s)
<1>1. /\ up \in Seq(Sessions) /\ Len(up) \in Nat
      /\ new \in Seq(Sessions) /\ Len(new) = Len(up) + 1 /\ new # <<>>
      /\ \A i \in 1..Len(up) : new[i] = up[i]
      /\ new[Len(up) + 1] = s
  <2>1. up \in Seq(Sessions)
    BY DEF Line
  <2> QED BY ONLY <2>1, s \in Sessions
<1> HIDE DEF new
<1>2. /\ Parent[s] \in Sessions /\ Depth[s] \in Nat /\ Depth[Parent[s]] \in Nat
      /\ Depth[s] = 1 + Depth[Parent[s]]
  BY ParentsAreAbove
<1>3. ASSUME NEW i \in 1..Len(new)
      PROVE  subjects[new[i]] = 0 /\ Depth[new[i]] = Depth[s] - Len(new) + i
  <2>1. CASE i \in 1..Len(up)
    <3>1. new[i] = up[i] /\ subjects[up[i]] = 0 /\ Depth[up[i]] = Depth[Parent[s]] - Len(up) + i
      BY <1>1, <2>1 DEF Line
    <3>2. Depth[Parent[s]] - Len(up) + i = Depth[s] - Len(new) + i
      <4>1. PICK a, b, k, n : a = Depth[s] /\ b = Depth[Parent[s]] /\ k = Len(up) /\ n = Len(new)
        OBVIOUS
      <4>2. a \in Nat /\ b \in Nat /\ a = 1 + b
        BY <1>2, <4>1
      <4>3. k \in Nat /\ n = k + 1 /\ i \in Nat
        BY <1>1, <2>1, <4>1
      <4>4. b - k + i = a - n + i
        BY ONLY <4>2, <4>3
      <4> QED BY ONLY <4>1, <4>4
    <3> QED BY <3>1, <3>2
  <2>2. CASE i = Len(up) + 1
    <3>1. new[i] = s /\ Depth[s] = Depth[s] - Len(new) + i
      BY <1>1, <1>2, <2>2
    <3> QED BY <3>1 DEF HasCertificate
  <2> QED BY <1>1, <2>1, <2>2
<1>4. ASSUME NEW i \in 2..Len(new)
      PROVE  Parent[new[i]] = new[i - 1]
  <2>1. CASE i \in 2..Len(up)
    <3>1. i \in 1..Len(up) /\ i - 1 \in 1..Len(up)
      BY <1>1, <2>1
    <3> QED BY <1>1, <2>1, <3>1 DEF Line
  <2>2. CASE i = Len(up) + 1
    <3>1. Len(up) \in 1..Len(up) /\ up # <<>> /\ i - 1 = Len(up) /\ new[i] = s
      BY <1>1, <2>2
    <3>2. up[Len(up)] = Parent[s]
      BY <3>1 DEF Line
    <3>3. new[Len(up)] = up[Len(up)]
      BY <1>1, <3>1
    <3> QED BY <3>1, <3>2, <3>3
  <2> QED BY <1>1, <2>1, <2>2
<1>5. new[Len(new)] = s
  BY <1>1
<1>6. Line(new, s)
  BY <1>1, <1>3, <1>4, <1>5 DEF Line
<1> QED BY <1>6 DEF new

LEMMA UncertifiedLine == \A s \in Sessions : Line(Uncertified[s], s)
<1> DEFINE bad == {s \in Sessions : ~Line(Uncertified[s], s)}
<1>1. ASSUME bad # {} PROVE FALSE
  <2> DEFINE ranks == {Depth[s] : s \in bad}
  <2>1. ranks \in SUBSET Nat /\ ranks # {}
    BY <1>1, ParentsAreAbove
  <2>2. PICK r \in ranks : \A j \in ranks : r <= j
    <3> HIDE DEF ranks
    <3> QED BY <2>1, LeastNumber
  <2>3. PICK s \in bad : Depth[s] = r
    OBVIOUS
  <2>4. s \in Sessions /\ ~Line(Uncertified[s], s)
    OBVIOUS
  <2>5. \A t \in bad : Depth[s] <= Depth[t]
    BY <2>2, <2>3
  <2>6. CASE HasCertificate(s)
    <3>1. Uncertified[s] = <<>>
      BY <2>4, <2>6, UncertifiedWalks
    <3>2. Line(<<>>, s)
      BY DEF Line
    <3> QED BY <2>4, <3>1, <3>2
  <2>7. CASE ~HasCertificate(s) /\ (Parent[s] = None \/ Parent[s] \notin live)
    <3>1. Uncertified[s] = <<s>>
      BY <2>4, <2>7, UncertifiedWalks
    <3> QED BY <2>4, <2>7, <3>1, RootLine
  <2>8. CASE ~HasCertificate(s) /\ Parent[s] # None /\ Parent[s] \in live
    <3>1. Uncertified[s] = Append(Uncertified[Parent[s]], s)
      BY <2>4, <2>8, UncertifiedWalks
    <3>2. Parent[s] \in Sessions /\ ~(Depth[s] <= Depth[Parent[s]])
      BY <2>4, <2>8, ParentsAreAbove
    <3>3. Parent[s] \notin bad
      <4> HIDE DEF bad
      <4> QED BY <2>5, <3>2
    <3>4. Line(Uncertified[Parent[s]], Parent[s])
      BY <3>2, <3>3
    <3> QED BY <2>4, <2>8, <3>1, <3>4, ChildLine
  <2> QED BY <2>6, <2>7, <2>8
<1> QED BY <1>1

\* No session is certified twice by one issue, and a parent before its child.
LEMMA LineOrder ==
  ASSUME NEW s \in Sessions, NEW new, Line(new, s), NEW i \in 1..Len(new), NEW j \in 1..Len(new)
  PROVE  /\ new[i] = new[j] => i = j
         /\ Parent[new[i]] # None /\ Parent[new[i]] = new[j] => j = i - 1
<1>1. Len(new) \in Nat /\ new[i] \in Sessions /\ new[j] \in Sessions
  BY DEF Line
<1>2. /\ Depth[new[i]] = Depth[s] - Len(new) + i /\ Depth[new[j]] = Depth[s] - Len(new) + j
      /\ Depth[s] \in Nat
  BY ParentsAreAbove DEF Line
<1>3. new[i] = new[j] => i = j
  BY <1>1, <1>2
<1>4. ASSUME Parent[new[i]] # None, Parent[new[i]] = new[j] PROVE j = i - 1
  <2>1. Depth[new[i]] = 1 + Depth[new[j]]
    BY <1>1, <1>4, ParentsAreAbove
  <2> QED BY <1>1, <1>2, <2>1
<1> QED BY <1>3, <1>4

\* What an issue leaves in force.
LEMMA NewInForce ==
  ASSUME NEW s \in Sessions, NEW new, Line(new, s)
  PROVE  /\ \A i \in 1..Len(new) : InForce(new)[new[i]] = Len(issued) + i
         /\ \A x \in Sessions \ ToSet(new) : InForce(new)[x] = subjects[x]
<1>1. new \in Seq(Sessions) /\ DOMAIN new = 1..Len(new)
  BY DEF Line
<1>2. ASSUME NEW i \in 1..Len(new)
      PROVE  InForce(new)[new[i]] = Len(issued) + i
  <2>1. new[i] \in Sessions /\ new[i] \in ToSet(new)
    BY <1>1 DEF ToSet
  <2>2. (CHOOSE k \in DOMAIN new : new[k] = new[i]) = i
    BY <1>1, LineOrder
  <2> QED BY <2>1, <2>2 DEF InForce
<1>3. \A x \in Sessions \ ToSet(new) : InForce(new)[x] = subjects[x]
  BY DEF InForce
<1> QED BY <1>2, <1>3

-----------------------------------------------------------------------------
(* The inductive invariant *)

Certs == [subject : Sessions, depth : Nat, parent : Sessions \cup {None}, parentCert : Nat,
          member : Keys \cup {None}, deedOf : Keys \cup {None}]

\* A certificate says its subject's place, is chained to an earlier one of its parent, and
\* names a key of the Member it was issued for.
CertOK(certs, i, st) ==
  /\ certs[i] \in Certs
  /\ certs[i].depth = Depth[certs[i].subject] /\ certs[i].parent = Parent[certs[i].subject]
  /\ certs[i].parentCert \in 0..(i - 1)
  /\ certs[i].parentCert # 0 =>
       certs[i].parent # None /\ certs[certs[i].parentCert].subject = certs[i].parent
  /\ certs[i].deedOf = None => certs[i].member = None
  /\ certs[i].deedOf # None => /\ certs[i].deedOf \in DOMAIN st.lineage
                               /\ certs[i].member \in ToSet(st.lineage[certs[i].deedOf])

\* In force, it is of the Member its subject is bound to, and of the parent's in force.
StandsFor(c, x, inForce) ==
  /\ c.subject = x /\ c.deedOf = BindingFor(x)
  /\ c.member = (IF BindingFor(x) = None THEN None ELSE CurrentKey(BindingFor(x)))
  /\ c.parentCert # 0 => c.parentCert = inForce[Parent[x]]

BootOK ==
  /\ MembersOK(verdict) /\ Grows(verdict, Today)
  /\ DOMAIN binds \subseteq Declarable
  /\ \A p \in DOMAIN binds : binds[p] \in DOMAIN verdict.lineage

CertsOK ==
  /\ issued \in Seq(Certs) /\ \A i \in DOMAIN issued : CertOK(issued, i, Today)
  /\ subjects \in [Sessions -> 0..Len(issued)]
  /\ \A x \in Sessions : subjects[x] # 0 => StandsFor(issued[subjects[x]], x, subjects)
  /\ ledger \subseteq DOMAIN issued

DeclaredOK ==
  \A d \in declared : d.member \in DOMAIN Today.lineage /\ d.key \in ToSet(Today.lineage[d.member])

IdentityInv == RollInv /\ BootOK /\ CertsOK /\ DeclaredOK /\ live \subseteq Sessions

LEMMA GrowsOn ==
  ASSUME NEW a, NEW b, NEW c, Grows(a, b), Grows(b, c)
  PROVE  Grows(a, c)
BY DEF Grows

LEMMA GrowsFrom == \A st : Grows(st, st)
BY DEF Grows

LEMMA CertStays ==
  ASSUME NEW certs, NEW i, NEW st, NEW now, CertOK(certs, i, st), Grows(st, now)
  PROVE  CertOK(certs, i, now)
BY DEF CertOK, Grows

\* A Member that is bound is one the roll admitted.
LEMMA BoundToAMember ==
  ASSUME BootOK, NEW s \in Sessions
  PROVE  \/ BindingFor(s) = None
         \/ /\ BindingFor(s) \in DOMAIN verdict.lineage /\ BindingFor(s) \in Keys
            /\ CurrentKey(BindingFor(s)) \in Keys
            /\ CurrentKey(BindingFor(s)) \in ToSet(verdict.lineage[BindingFor(s)])
<1>1. CASE Matching(s) = {}
  BY <1>1 DEF BindingFor
<1>2. CASE Matching(s) # {}
  <2> DEFINE gaps == {Len(s) - Len(p) : p \in Matching(s)}
             longest == CHOOSE p \in Matching(s) : \A q \in Matching(s) : Len(q) <= Len(p)
  <2>1. Len(s) \in Nat /\ \A p \in Declarable : Len(p) \in Nat
    BY IdsAreSequences
  <2>2. \A p \in Matching(s) : p \in DOMAIN binds /\ p \in Declarable /\ Len(p) <= Len(s)
    BY DEF Matching, IsPrefix, BootOK
  <2>3. gaps \in SUBSET Nat /\ gaps # {}
    BY <1>2, <2>1, <2>2
  <2>4. PICK g \in gaps : \A j \in gaps : g <= j
    <3> HIDE DEF gaps
    <3> QED BY <2>3, LeastNumber
  <2>5. PICK p \in Matching(s) : g = Len(s) - Len(p)
    OBVIOUS
  <2>6. ASSUME NEW q \in Matching(s) PROVE Len(q) <= Len(p)
    <3>1. Len(s) - Len(p) <= Len(s) - Len(q)
      BY <2>4, <2>5
    <3> QED BY <2>1, <2>2, <3>1
  <2>7. longest \in Matching(s)
    BY <2>6
  <2>8. BindingFor(s) = binds[longest]
    BY <1>2 DEF BindingFor
  <2> HIDE DEF longest
  <2>9. BindingFor(s) \in DOMAIN verdict.lineage /\ BindingFor(s) \in Keys
    BY <2>2, <2>7, <2>8 DEF BootOK, MembersOK
  <2>10. verdict.lineage[BindingFor(s)] \in Seq(Keys) /\ verdict.lineage[BindingFor(s)] # <<>>
    BY <2>9 DEF BootOK, MembersOK
  <2>11. CurrentKey(BindingFor(s)) \in ToSet(verdict.lineage[BindingFor(s)]) /\ CurrentKey(BindingFor(s)) \in Keys
    BY <2>10 DEF CurrentKey, Last, ToSet
  <2> QED BY <2>9, <2>11
<1> QED BY <1>1, <1>2

-----------------------------------------------------------------------------
(* Every step *)

\* The issue to s in numbers: the certificates there were stay, the new ones follow.
LEMMA IssueSteps ==
  ASSUME IdentityInv, NEW s \in Sessions, EnsureSubject(s)
  PROVE  \E new : /\ Line(new, s) /\ subjects' = InForce(new)
                  /\ issued' = issued \o [i \in 1..Len(new) |-> Certificate(new[i], subjects')]
                  /\ \E written \in SUBSET (Len(issued) + 1 .. Len(issued')) : ledger' = ledger \cup written
<1>1. Line(Uncertified[s], s)
  BY UncertifiedLine
<1>2. DOMAIN Uncertified[s] = 1..Len(Uncertified[s])
  BY <1>1 DEF Line
<1> QED BY <1>1, <1>2 DEF EnsureSubject

\* The parent of a session that is certified is certified before it, or not at all.
LEMMA ParentInForce ==
  ASSUME CertsOK, NEW s \in Sessions, NEW new, Line(new, s), NEW i \in 1..Len(new), Parent[new[i]] # None
  PROVE  /\ InForce(new)[Parent[new[i]]] \in 0..(Len(issued) + i - 1)
         /\ \/ InForce(new)[Parent[new[i]]] \in 1..Len(issued)
                 /\ issued[InForce(new)[Parent[new[i]]]].subject = Parent[new[i]]
            \/ i - 1 \in 1..Len(new) /\ InForce(new)[Parent[new[i]]] = Len(issued) + (i - 1)
                 /\ Parent[new[i]] = new[i - 1]
            \/ InForce(new)[Parent[new[i]]] = 0
<1> DEFINE up == Parent[new[i]]
<1>1. /\ Len(new) \in Nat /\ new \in Seq(Sessions) /\ DOMAIN new = 1..Len(new)
      /\ Len(issued) \in Nat /\ new[i] \in Sessions
  BY DEF Line, CertsOK
<1>2. up \in Sessions
  BY <1>1, ParentsAreAbove
<1>3. CASE up \in ToSet(new)
  <2>1. PICK j \in 1..Len(new) : up = new[j]
    BY <1>1, <1>3 DEF ToSet
  <2>2. j = i - 1
    BY <2>1, LineOrder
  <2>3. InForce(new)[up] = Len(issued) + (i - 1)
    BY <2>1, <2>2, NewInForce
  <2>4. Len(issued) + (i - 1) \in 0..(Len(issued) + i - 1)
    BY <1>1
  <2> QED BY <2>1, <2>2, <2>3, <2>4
<1>4. CASE up \notin ToSet(new)
  <2>1. InForce(new)[up] = subjects[up]
    BY <1>2, <1>4, NewInForce
  <2>2. subjects[up] \in 0..Len(issued)
    BY <1>2 DEF CertsOK
  <2>3. subjects[up] # 0 => issued[subjects[up]].subject = up
    BY <1>2 DEF CertsOK, StandsFor
  <2>4. subjects[up] \in 0..(Len(issued) + i - 1)
    BY <1>1, <2>2
  <2>5. subjects[up] # 0 => subjects[up] \in 1..Len(issued)
    BY <2>2
  <2> HIDE DEF up
  <2>6. \/ InForce(new)[up] \in 1..Len(issued) /\ issued[InForce(new)[up]].subject = up
        \/ InForce(new)[up] = 0
    BY <2>1, <2>3, <2>5
  <2> QED BY <2>1, <2>4, <2>6 DEF up
<1> QED BY <1>3, <1>4

LEMMA CertificateSays ==
  ASSUME BootOK, CertsOK, NEW s \in Sessions, NEW new, Line(new, s), NEW i \in 1..Len(new),
         NEW inForce, inForce = InForce(new)
  PROVE  LET c == Certificate(new[i], inForce)
         IN  /\ c \in Certs /\ c.subject = new[i] /\ c.depth = Depth[new[i]] /\ c.parent = Parent[new[i]]
             /\ c.parentCert \in 0..(Len(issued) + i - 1)
             /\ c.deedOf = BindingFor(new[i])
             /\ c.member = (IF c.deedOf = None THEN None ELSE CurrentKey(c.deedOf))
             /\ c.parentCert = (IF Parent[new[i]] = None THEN 0 ELSE inForce[Parent[new[i]]])
<1> DEFINE c == Certificate(new[i], inForce)
<1>1. /\ new[i] \in Sessions /\ Len(issued) \in Nat /\ Len(new) \in Nat
  BY DEF Line, CertsOK
<1>2. Depth[new[i]] \in Nat /\ Parent[new[i]] \in Sessions \cup {None}
  BY <1>1, ParentsAreAbove
<1>3. /\ c.subject = new[i] /\ c.depth = Depth[new[i]] /\ c.parent = Parent[new[i]]
      /\ c.deedOf = BindingFor(new[i])
      /\ c.member = (IF BindingFor(new[i]) = None THEN None ELSE CurrentKey(BindingFor(new[i])))
      /\ c.parentCert = (IF Parent[new[i]] = None THEN 0 ELSE inForce[Parent[new[i]]])
      /\ c = [subject |-> c.subject, depth |-> c.depth, parent |-> c.parent,
              parentCert |-> c.parentCert, member |-> c.member, deedOf |-> c.deedOf]
  BY DEF Certificate, DepthOf
<1> HIDE DEF c
<1>4. c.parentCert \in 0..(Len(issued) + i - 1)
  <2>1. CASE Parent[new[i]] = None
    BY <1>1, <1>3, <2>1
  <2>2. CASE Parent[new[i]] # None
    BY <1>3, <2>2, ParentInForce
  <2> QED BY <2>1, <2>2
<1>5. c.member \in Keys \cup {None} /\ c.deedOf \in Keys \cup {None}
  BY <1>1, <1>3, BoundToAMember
<1>6. c \in Certs
  <2>1. c.parentCert \in Nat
    BY <1>4
  <2> QED BY <1>1, <1>2, <1>3, <1>5, <2>1 DEF Certs
<1> QED BY <1>3, <1>4, <1>6 DEF c

LEMMA IssueKeeps ==
  ASSUME IdentityInv, NEW s \in Sessions, EnsureSubject(s),
         UNCHANGED <<vars, verdict, binds, declared>>, live' \subseteq Sessions
  PROVE  IdentityInv'
<1>1. PICK new : /\ Line(new, s) /\ subjects' = InForce(new)
                 /\ issued' = issued \o [i \in 1..Len(new) |-> Certificate(new[i], subjects')]
                 /\ \E written \in SUBSET (Len(issued) + 1 .. Len(issued')) : ledger' = ledger \cup written
  BY IssueSteps
<1>2. PICK L : L = Len(issued)
  OBVIOUS
<1>3. PICK K : K = Len(new)
  OBVIOUS
<1> DEFINE cert == [i \in 1..K |-> Certificate(new[i], subjects')]
<1>4. RollInv /\ BootOK /\ CertsOK /\ DeclaredOK
  BY DEF IdentityInv
<1>5. /\ L \in Nat /\ K \in Nat /\ issued \in Seq(Certs) /\ DOMAIN issued = 1..L
      /\ new \in Seq(Sessions) /\ DOMAIN new = 1..K
  BY <1>1, <1>2, <1>3, <1>4 DEF Line, CertsOK
<1>6. \A i \in 1..K :
        /\ cert[i] \in Certs /\ cert[i].subject = new[i] /\ cert[i].depth = Depth[new[i]]
        /\ cert[i].parent = Parent[new[i]] /\ cert[i].parentCert \in 0..(L + i - 1)
        /\ cert[i].deedOf = BindingFor(new[i])
        /\ cert[i].member = (IF cert[i].deedOf = None THEN None ELSE CurrentKey(cert[i].deedOf))
        /\ cert[i].parentCert = (IF Parent[new[i]] = None THEN 0 ELSE subjects'[Parent[new[i]]])
  BY <1>1, <1>2, <1>3, <1>4, CertificateSays
<1>7. /\ cert \in Seq(Certs) /\ Len(cert) = K /\ issued' = issued \o cert
  <2>1. cert \in [1..K -> Certs]
    BY <1>6
  <2>2. issued' = issued \o cert
    BY <1>1, <1>3
  <2> HIDE DEF cert
  <2> QED BY <1>5, <2>1, <2>2
<1> HIDE DEF cert
<1>8. /\ issued' \in Seq(Certs) /\ Len(issued') = L + K /\ DOMAIN issued' = 1..(L + K)
      /\ \A n \in 1..L : issued'[n] = issued[n]
      /\ \A i \in 1..K : issued'[L + i] = cert[i]
  <2>1. issued \in Seq(Certs) /\ cert \in Seq(Certs) /\ Len(issued) = L /\ Len(cert) = K /\ issued' = issued \o cert
    BY <1>2, <1>5, <1>7
  <2>2. /\ issued' \in Seq(Certs) /\ Len(issued') = L + K
        /\ \A n \in 1..(L + K) : issued'[n] = IF n <= L THEN issued[n] ELSE cert[n - L]
    BY ONLY <2>1, ConcatProperties
  <2>3. DOMAIN issued' = 1..(L + K)
    BY <2>2
  <2>4. \A n \in 1..L : n \in 1..(L + K) /\ n <= L
    BY <1>5
  <2>5. \A i \in 1..K : L + i \in 1..(L + K) /\ ~(L + i <= L) /\ L + i - L = i
    BY <1>5
  <2>6. \A n \in 1..L : issued'[n] = issued[n]
    BY ONLY <2>2, <2>4
  <2>7. \A i \in 1..K : issued'[L + i] = cert[i]
    <3> SUFFICES ASSUME NEW i \in 1..K PROVE issued'[L + i] = cert[i]
      OBVIOUS
    <3>1. PICK n \in 1..(L + K) : n = L + i
      BY <2>5
    <3>2. ~(n <= L) /\ n - L = i
      BY ONLY <1>5, <3>1, i \in 1..K
    <3>3. issued'[n] = cert[n - L]
      BY ONLY <2>2, <3>2, n \in 1..(L + K)
    <3> QED BY <3>1, <3>2, <3>3
  <2> QED BY ONLY <2>2, <2>3, <2>6, <2>7
<1>9. \A x \in Sessions : BindingFor(x)' = BindingFor(x) /\ (CurrentKey(x)' = CurrentKey(x))
  BY DEF BindingFor, Matching, CurrentKey
<1>10. /\ \A i \in 1..K : subjects'[new[i]] = L + i
       /\ \A x \in Sessions \ ToSet(new) : subjects'[x] = subjects[x]
       /\ subjects' = [x \in Sessions |-> subjects'[x]]
  <2>1. subjects' = [x \in Sessions |-> subjects'[x]]
    BY <1>1 DEF InForce
  <2>2. /\ \A i \in 1..Len(new) : InForce(new)[new[i]] = Len(issued) + i
        /\ \A x \in Sessions \ ToSet(new) : InForce(new)[x] = subjects[x]
    BY <1>1, NewInForce
  <2> QED BY <1>1, <1>2, <1>3, <2>1, <2>2
<1>11. Today' = Today
  BY DEF Today, vars
<1>12. ASSUME NEW n \in 1..L PROVE CertOK(issued', n, Today)
  <2>1. CertOK(issued, n, Today)
    BY <1>4, <1>5 DEF CertsOK
  <2>2. issued[n].parentCert \in 0..(n - 1)
    BY <2>1 DEF CertOK
  <2>3. issued[n].parentCert # 0 => issued[n].parentCert \in 1..L
    BY <1>5, <2>2
  <2> QED BY <1>8, <2>1, <2>3 DEF CertOK
<1>13. ASSUME NEW i \in 1..K PROVE CertOK(issued', L + i, Today)
  <2>1. issued'[L + i] = cert[i] /\ new[i] \in Sessions
    BY <1>5, <1>8
  <2>2. ASSUME cert[i].parentCert # 0
        PROVE  Parent[new[i]] # None /\ issued'[cert[i].parentCert].subject = Parent[new[i]]
    <3>1. Parent[new[i]] # None /\ cert[i].parentCert = InForce(new)[Parent[new[i]]]
      BY <1>1, <1>6, <2>2
    <3>2. \/ cert[i].parentCert \in 1..L /\ issued[cert[i].parentCert].subject = Parent[new[i]]
          \/ i - 1 \in 1..K /\ cert[i].parentCert = L + (i - 1) /\ Parent[new[i]] = new[i - 1]
      BY <1>1, <1>2, <1>3, <1>4, <2>2, <3>1, ParentInForce
    <3>3. CASE cert[i].parentCert \in 1..L /\ issued[cert[i].parentCert].subject = Parent[new[i]]
      BY <1>8, <3>1, <3>3
    <3>4. CASE i - 1 \in 1..K /\ cert[i].parentCert = L + (i - 1) /\ Parent[new[i]] = new[i - 1]
      <4>1. issued'[L + (i - 1)] = cert[i - 1] /\ cert[i - 1].subject = new[i - 1]
        BY <1>6, <1>8, <3>4
      <4> QED BY <3>1, <3>4, <4>1
    <3> QED BY <3>2, <3>3, <3>4
  <2>3. ASSUME cert[i].deedOf # None
        PROVE  /\ cert[i].deedOf \in DOMAIN Today.lineage
               /\ cert[i].member \in ToSet(Today.lineage[cert[i].deedOf])
    <3>1. /\ cert[i].deedOf \in DOMAIN verdict.lineage
          /\ cert[i].member \in ToSet(verdict.lineage[cert[i].deedOf])
      BY <1>4, <1>6, <2>1, <2>3, BoundToAMember
    <3> QED BY <1>4, <3>1 DEF BootOK, Grows
  <2>4. cert[i].parentCert \in 0..(L + i - 1)
    BY <1>6
  <2>5. cert[i] \in Certs /\ cert[i].subject = new[i] /\ cert[i].depth = Depth[new[i]]
        /\ cert[i].parent = Parent[new[i]] /\ (cert[i].deedOf = None => cert[i].member = None)
    BY ONLY <1>6, i \in 1..K
  <2>6. PICK k : k = L + i
    OBVIOUS
  <2>7. CertOK(issued', k, Today)
    <3>1. issued'[k] = cert[i] /\ cert[i].parentCert \in 0..(k - 1)
      <4>1. k - 1 = L + i - 1
        BY ONLY <1>5, <2>6, i \in 1..K
      <4>2. cert[i].parentCert \in 0..(k - 1)
        BY ONLY <2>4, <4>1
      <4> QED BY <2>1, <2>6, <4>2
    <3>2. PICK c : c = cert[i]
      OBVIOUS
    <3> QED BY <2>2, <2>3, <2>5, <3>1, <3>2 DEF CertOK
  <2> QED BY <2>6, <2>7
<1>14. \A n \in DOMAIN issued' : CertOK(issued', n, Today')
  <2>1. \A n \in 1..(L + K) : n \in 1..L \/ \E i \in 1..K : n = L + i
    <3> SUFFICES ASSUME NEW n \in 1..(L + K), n \notin 1..L PROVE \E i \in 1..K : n = L + i
      OBVIOUS
    <3>1. n - L \in 1..K /\ n = L + (n - L)
      BY <1>5
    <3> QED BY <3>1
  <2> QED BY <1>8, <1>11, <1>12, <1>13, <2>1
<1>15. ASSUME NEW x \in Sessions
       PROVE  /\ subjects'[x] \in 0..(L + K)
              /\ subjects'[x] # 0 =>
                   /\ issued'[subjects'[x]].subject = x /\ issued'[subjects'[x]].deedOf = BindingFor(x)
                   /\ issued'[subjects'[x]].member = (IF BindingFor(x) = None THEN None ELSE CurrentKey(BindingFor(x)))
                   /\ issued'[subjects'[x]].parentCert # 0 => issued'[subjects'[x]].parentCert = subjects'[Parent[x]]
  <2>1. CASE x \in ToSet(new)
    <3>1. PICK i \in 1..K : x = new[i]
      BY <1>5, <2>1 DEF ToSet
    <3>2. subjects'[x] = L + i /\ issued'[subjects'[x]] = cert[i] /\ L + i \in 0..(L + K)
      BY <1>5, <1>8, <1>10, <3>1
    <3> QED BY <1>6, <3>1, <3>2
  <2>2. CASE x \notin ToSet(new)
    <3>1. subjects'[x] = subjects[x] /\ subjects[x] \in 0..L
      BY <1>2, <1>4, <1>10, <2>2 DEF CertsOK
    <3>2. ASSUME subjects[x] # 0
          PROVE  /\ StandsFor(issued[subjects[x]], x, subjects) /\ issued'[subjects[x]] = issued[subjects[x]]
                 /\ issued[subjects[x]].parentCert # 0 => Parent[x] \in Sessions \ ToSet(new)
      <4>1. subjects[x] \in 1..L
        BY <1>5, <3>1, <3>2
      <4>2. StandsFor(issued[subjects[x]], x, subjects) /\ CertOK(issued, subjects[x], Today)
        BY <1>4, <1>5, <3>2, <4>1 DEF CertsOK
      <4>3. ASSUME issued[subjects[x]].parentCert # 0
            PROVE  Parent[x] \in Sessions \ ToSet(new)
        <5>1. Parent[x] \in Sessions /\ subjects[Parent[x]] # 0
          <6>1. Parent[x] # None
            BY <4>2, <4>3 DEF StandsFor, CertOK
          <6> QED BY <4>2, <4>3, <6>1, ParentsAreAbove DEF StandsFor
        <5>2. \A y \in ToSet(new) : subjects[y] = 0
          BY <1>1, <1>3, <1>5 DEF Line, ToSet
        <5> QED BY <5>1, <5>2
      <4> QED BY <1>8, <4>1, <4>2, <4>3
    <3>3. subjects'[x] \in 0..(L + K)
      BY <1>5, <3>1
    <3>4. issued[subjects[x]].parentCert # 0 /\ subjects[x] # 0 => subjects'[Parent[x]] = subjects[Parent[x]]
      BY <1>10, <3>2
    <3> QED BY <3>1, <3>2, <3>3, <3>4 DEF StandsFor
  <2> QED BY <2>1, <2>2
<1>16. ASSUME NEW x \in Sessions, subjects'[x] # 0
       PROVE  StandsFor(issued[subjects[x]], x, subjects)'
  <2>1. CurrentKey(BindingFor(x))' = CurrentKey(BindingFor(x)) /\ BindingFor(x)' = BindingFor(x)
    BY DEF BindingFor, Matching, CurrentKey
  <2> QED BY <1>15, <1>16, <2>1 DEF StandsFor
<1>17. ledger' \subseteq DOMAIN issued'
  <2>1. \A n \in (L + 1)..(L + K) : n \in 1..(L + K)
    BY <1>5
  <2>2. \A n \in 1..L : n \in 1..(L + K)
    BY <1>5
  <2> QED BY <1>1, <1>2, <1>4, <1>5, <1>8, <2>1, <2>2 DEF CertsOK
<1>18. CertsOK'
  <2>1. subjects' \in [Sessions -> 0..Len(issued')]
    BY <1>8, <1>10, <1>15
  <2> QED BY <1>8, <1>14, <1>16, <1>17, <2>1 DEF CertsOK
<1>19. RollInv' /\ BootOK' /\ DeclaredOK'
  BY <1>4, <1>11 DEF RollInv, BootOK, DeclaredOK, vars
<1> QED BY <1>18, <1>19 DEF IdentityInv

LEMMA RollGrowsKeeps ==
  ASSUME IdentityInv, RollGrows
  PROVE  IdentityInv' /\ [Next]_vars
<1>1. UNCHANGED identityVars
  BY DEF RollGrows
<1>2. Next
  BY DEF RollGrows, Acceptable, Next
<1>3. RollInv' /\ Grows(Today, Today')
  BY <1>2, RollMoves, GrowsFrom DEF RowDoes, IdentityInv, Today
<1>4. BootOK'
  <2>1. Grows(verdict, Today')
    BY <1>3, GrowsOn DEF IdentityInv, BootOK
  <2> QED BY <1>1, <2>1 DEF IdentityInv, BootOK, identityVars
<1>5. CertsOK'
  <2>1. \A i \in DOMAIN issued : CertOK(issued, i, Today')
    BY <1>3, CertStays DEF IdentityInv, CertsOK
  <2>2. ASSUME NEW x \in Sessions, subjects[x] # 0
        PROVE  StandsFor(issued[subjects[x]], x, subjects)'
    <3>1. StandsFor(issued[subjects[x]], x, subjects)
      BY <2>2 DEF IdentityInv, CertsOK
    <3> QED BY <1>1, <3>1 DEF StandsFor, BindingFor, Matching, CurrentKey, identityVars
  <2>3. issued' = issued /\ subjects' = subjects /\ ledger' = ledger
    BY <1>1 DEF identityVars
  <2> QED BY <2>1, <2>2, <2>3 DEF IdentityInv, CertsOK
<1>6. DeclaredOK'
  BY <1>1, <1>3 DEF IdentityInv, DeclaredOK, Grows, identityVars
<1>7. live' \subseteq Sessions
  BY <1>1 DEF IdentityInv, identityVars
<1> QED BY <1>2, <1>3, <1>4, <1>5, <1>6, <1>7 DEF IdentityInv

\* What bears on the certificates is as it was.
LEMMA QuietKeeps ==
  ASSUME IdentityInv, UNCHANGED <<vars, verdict, binds, issued, subjects, ledger>>, DeclaredOK',
         live' \subseteq Sessions
  PROVE  IdentityInv'
<1>1. Today' = Today
  BY DEF Today, vars
<1>2. ASSUME NEW x \in Sessions, subjects[x] # 0
      PROVE  StandsFor(issued[subjects[x]], x, subjects)'
  <2>1. StandsFor(issued[subjects[x]], x, subjects)
    BY <1>2 DEF IdentityInv, CertsOK
  <2> QED BY <2>1 DEF StandsFor, BindingFor, Matching, CurrentKey
<1>3. CertsOK'
  BY <1>1, <1>2 DEF IdentityInv, CertsOK
<1> QED BY <1>1, <1>3 DEF IdentityInv, RollInv, BootOK, vars

LEMMA DeclareKeeps ==
  ASSUME IdentityInv, NEW m \in Keys, Declare(m), UNCHANGED vars
  PROVE  IdentityInv'
<1>1. Today' = Today
  BY DEF Today, vars
<1>2. m \in DOMAIN verdict.lineage
  BY DEF Declare, Range, IdentityInv, BootOK
<1>3. verdict.lineage[m] \in Seq(Keys) /\ verdict.lineage[m] # <<>>
  BY <1>2 DEF IdentityInv, BootOK, MembersOK
<1>4. CurrentKey(m) \in ToSet(verdict.lineage[m])
  BY <1>3 DEF CurrentKey, Last, ToSet
<1>5. m \in DOMAIN Today.lineage /\ CurrentKey(m) \in ToSet(Today.lineage[m])
  BY <1>2, <1>4 DEF IdentityInv, BootOK, Grows
<1>6. DeclaredOK'
  BY <1>1, <1>5 DEF Declare, IdentityInv, DeclaredOK
<1> QED BY <1>6, QuietKeeps DEF Declare, IdentityInv

LEMMA RestartKeeps ==
  ASSUME IdentityInv, Restart, UNCHANGED vars
  PROVE  IdentityInv'
<1>1. Today' = Today
  BY DEF Today, vars
<1>2. /\ binds' \in Bindings /\ verdict' = Today /\ subjects' = [s \in Sessions |-> 0]
      /\ issued' = issued /\ ledger' = ledger /\ declared' = declared /\ live' = {}
  BY DEF Restart
<1>3. MembersOK(Today)
  BY DEF IdentityInv, RollInv, Today
<1>4. DOMAIN binds' \subseteq Declarable /\ \A p \in DOMAIN binds' : binds'[p] \in DOMAIN Today.lineage
  <2>1. CASE binds' = <<>>
    BY <2>1
  <2>2. CASE binds' \in [Declarable -> DOMAIN Today.lineage]
    BY <2>2
  <2> QED BY <1>2, <2>1, <2>2 DEF Bindings
<1>5. BootOK'
  BY <1>1, <1>2, <1>3, <1>4, GrowsFrom DEF BootOK
<1>6. CertsOK'
  <2>1. subjects' \in [Sessions -> 0..Len(issued)] /\ \A x \in Sessions : subjects'[x] = 0
    BY <1>2 DEF IdentityInv, CertsOK
  <2> QED BY <1>1, <1>2, <2>1 DEF IdentityInv, CertsOK
<1>7. RollInv' /\ DeclaredOK'
  BY <1>1, <1>2 DEF IdentityInv, RollInv, DeclaredOK, vars
<1> QED BY <1>2, <1>5, <1>6, <1>7 DEF IdentityInv

LEMMA IdentityStarts == IdentityInit => IdentityInv
<1> SUFFICES ASSUME IdentityInit PROVE IdentityInv
  OBVIOUS
<1>1. RollInv /\ Today = Nobody
  BY RollInit, NothingRead DEF IdentityInit, Init, Today
<1>2. BootOK
  BY <1>1, NobodyOK, GrowsFrom DEF IdentityInit, BootOK
<1>3. CertsOK
  <2>1. issued \in Seq(Certs) /\ DOMAIN issued = {} /\ Len(issued) = 0 /\ ledger = {}
    BY DEF IdentityInit
  <2>2. subjects \in [Sessions -> 0..0] /\ \A x \in Sessions : subjects[x] = 0
    BY DEF IdentityInit
  <2> QED BY <2>1, <2>2 DEF CertsOK
<1> QED BY <1>1, <1>2, <1>3 DEF IdentityInit, IdentityInv, DeclaredOK

LEMMA IdentityMoves ==
  ASSUME IdentityInv, [RollGrows \/ SessionsAct]_<<vars, identityVars>>
  PROVE  IdentityInv' /\ [Next]_vars
<1>1. CASE UNCHANGED <<vars, identityVars>>
  <2>1. DeclaredOK'
    BY <1>1 DEF IdentityInv, DeclaredOK, Today, vars, identityVars
  <2> QED BY <1>1, <2>1, QuietKeeps DEF vars, identityVars, IdentityInv
<1>2. CASE RollGrows
  BY <1>2, RollGrowsKeeps
<1>3. CASE SessionsAct
  <2>1. UNCHANGED vars
    BY <1>3 DEF SessionsAct
  <2>2. ASSUME NEW s \in Sessions, Attests(s) \/ Spawns(s) PROVE IdentityInv'
    BY <2>1, <2>2, IssueKeeps DEF Attests, Spawns, IdentityInv
  <2>3. ASSUME NEW s \in Sessions, Opens(s) PROVE IdentityInv'
    <3>1. DeclaredOK'
      BY <2>1, <2>3 DEF Opens, IdentityInv, DeclaredOK, Today, vars
    <3> QED BY <2>1, <2>3, <3>1, QuietKeeps DEF Opens, IdentityInv
  <2> QED BY <1>3, <2>1, <2>2, <2>3, DeclareKeeps, RestartKeeps DEF SessionsAct
<1> QED BY <1>1, <1>2, <1>3

THEOREM IdentityInvariant == IdentitySpec => []IdentityInv
BY IdentityStarts, IdentityMoves, PTL DEF IdentitySpec

\* Sessions over the roll leave it a roll.
THEOREM SessionsKeepTheRoll == IdentitySpec => Spec
<1>1. IdentityInit => Init
  BY DEF IdentityInit
<1>2. IdentityInv /\ [RollGrows \/ SessionsAct]_<<vars, identityVars>> => [Next]_vars
  BY IdentityMoves
<1> QED BY <1>1, <1>2, IdentityInvariant, PTL DEF IdentitySpec, Spec

-----------------------------------------------------------------------------
(* What the auditor finds *)

LEMMA AuditHolds == IdentityInv => AuditNamesWhatIsLost
<1> SUFFICES ASSUME IdentityInv PROVE AuditNamesWhatIsLost
  OBVIOUS
<1>1. MembersOK(Today) /\ Today.revoked \subseteq Keys
  BY DEF IdentityInv, RollInv, Today, MembersOK
<1>2. ASSUME NEW i \in ledger
      PROVE  (\/ Binding(Today, issued[i]) = "unverifiable"
              \/ StateOf(Today, issued[i]) = "revoked"
              \/ BrokenLineage(issued[i]))
             <=> (\/ issued[i].parentCert \in DOMAIN issued \ ledger
                  \/ issued[i].deedOf \in Today.revoked)
  <2>1. PICK c : c = issued[i]
    OBVIOUS
  <2>2. i \in DOMAIN issued /\ DOMAIN issued = 1..Len(issued) /\ Len(issued) \in Nat
    BY DEF IdentityInv, CertsOK
  <2>3. CertOK(issued, i, Today)
    BY <2>2 DEF IdentityInv, CertsOK
  <2>4. /\ c \in Certs /\ c.depth = Depth[c.subject] /\ c.parent = Parent[c.subject]
        /\ c.parentCert \in 0..(i - 1)
        /\ c.parentCert # 0 => c.parent # None /\ issued[c.parentCert].subject = c.parent
        /\ c.deedOf = None => c.member = None
        /\ c.deedOf # None => c.deedOf \in DOMAIN Today.lineage /\ c.member \in ToSet(Today.lineage[c.deedOf])
    BY <2>1, <2>3 DEF CertOK
  <2>5. Binding(Today, c) # "unverifiable" /\ (StateOf(Today, c) = "revoked" <=> c.deedOf \in Today.revoked)
    <3>1. CASE c.deedOf = None
      <4>1. Binding(Today, c) = "unbound" /\ StateOf(Today, c) = "none"
        BY <2>4, <3>1 DEF Binding, StateOf
      <4>2. c.deedOf \notin Today.revoked
        BY <1>1, <3>1, NoneIsNoKey
      <4> QED BY <4>1, <4>2
    <3>2. CASE c.deedOf # None
      <4>1. Seen(Today, c.member) /\ MemberOf(Today, c.member) = c.deedOf
        BY <1>1, <2>4, <3>2, HeldByOne
      <4>2. c.member # None
        <5>1. ToSet(Today.lineage[c.deedOf]) \subseteq Keys
          BY <1>1, <2>4, <3>2 DEF MembersOK, ToSet
        <5> QED BY <2>4, <3>2, <5>1, NoneIsNoKey
      <4>3. Binding(Today, c) = "verified"
        BY <4>1, <4>2 DEF Binding
      <4> QED BY <4>1, <4>3 DEF StateOf
    <3> QED BY <3>1, <3>2
  <2>6. c.parentCert # 0 => c.parentCert \in DOMAIN issued
    BY <2>2, <2>4
  <2>7. ASSUME c.parentCert # 0
        PROVE  issued[c.parentCert].subject = c.parent /\ issued[c.parentCert].depth + 1 = c.depth
    <3>1. CertOK(issued, c.parentCert, Today)
      BY <2>6, <2>7 DEF IdentityInv, CertsOK
    <3>2. issued[c.parentCert].subject = c.parent /\ issued[c.parentCert].depth = Depth[c.parent]
      BY <2>4, <2>7, <3>1 DEF CertOK
    <3>3. c.subject \in Sessions /\ Parent[c.subject] # None
      BY <2>4, <2>7 DEF Certs
    <3>4. Depth[c.subject] = 1 + Depth[c.parent] /\ Depth[c.parent] \in Nat
      BY <2>4, <3>3, ParentsAreAbove
    <3> QED BY <2>4, <3>2, <3>4
  <2>8. BrokenLineage(c) <=> c.parentCert \in DOMAIN issued \ ledger
    <3>1. 0 \notin DOMAIN issued
      BY <2>2
    <3> QED BY <2>6, <2>7, <3>1 DEF BrokenLineage
  <2> QED BY <2>1, <2>5, <2>8
<1>3. ASSUME NEW d \in declared
      PROVE  DeclarationRefused(Today, d) <=> d.member \in Today.revoked
  <2>1. d.member \in DOMAIN Today.lineage /\ d.key \in ToSet(Today.lineage[d.member])
    BY DEF IdentityInv, DeclaredOK
  <2>2. Seen(Today, d.key) /\ MemberOf(Today, d.key) = d.member
    BY <1>1, <2>1, HeldByOne
  <2> QED BY <2>2 DEF DeclarationRefused
<1> QED BY <1>2, <1>3 DEF AuditNamesWhatIsLost, IdentityErrors

\* The auditor's findings are the lines whose parent's certificate was lost and those of
\* a revoked Member, and the declarations it refuses are those of a revoked Member.
THEOREM AuditAlwaysNames == IdentitySpec => []AuditNamesWhatIsLost
BY IdentityInvariant, AuditHolds, PTL

-----------------------------------------------------------------------------
(* What an inquiry answers *)

\* A chain: from a session up to its root, or to one whose header cannot be read.
Chain(chain, s) ==
  /\ chain.links \in Seq(Sessions) /\ chain.links # <<>> /\ chain.links[1] = s
  /\ \A i \in 1..(Len(chain.links) - 1) :
       Parent[chain.links[i]] # None /\ chain.links[i + 1] = Parent[chain.links[i]]
  /\ \A i \in 1..Len(chain.links) : Depth[chain.links[i]] = Depth[s] - i + 1
  /\ chain.complete => Depth[s] = Len(chain.links) - 1

LEMMA ChainWalks ==
  \A s \in Sessions :
    AuthorityChain[s] = IF s \notin live THEN [links |-> <<s>>, complete |-> FALSE]
                        ELSE IF Parent[s] = None THEN [links |-> <<s>>, complete |-> TRUE]
                        ELSE [links |-> <<s>> \o AuthorityChain[Parent[s]].links,
                              complete |-> AuthorityChain[Parent[s]].complete]
<1> DEFINE V == [links : Seq(Sessions), complete : BOOLEAN]
           stop == {s \in Sessions : s \notin live \/ Parent[s] = None}
           first == [s \in Sessions |-> [links |-> <<s>>, complete |-> IF s \in live THEN TRUE ELSE FALSE]]
           on == [p \in V \X Sessions |-> [links |-> <<p[2]>> \o p[1].links, complete |-> p[1].complete]]
           Up(c, s) == IF s \notin live THEN [links |-> <<s>>, complete |-> FALSE]
                       ELSE IF Parent[s] = None THEN [links |-> <<s>>, complete |-> TRUE]
                       ELSE [links |-> <<s>> \o c[Parent[s]].links, complete |-> c[Parent[s]].complete]
           Is(c) == c = [s \in Sessions |-> Up(c, s)]
<1>1. first \in [Sessions -> V] /\ on \in [V \X Sessions -> V]
  OBVIOUS
<1>2. stop \in SUBSET Sessions /\ \A s \in Sessions \ stop : Parent[s] # None
  OBVIOUS
<1>3. PICK f \in [Sessions -> V] : Walked(f, stop, first, on)
  <2>1. Walk(V, stop, first, on)
    BY <1>1, <1>2 DEF Walk
  <2> HIDE DEF V, stop, first, on
  <2> QED BY <2>1, WalksEnd
<1>4. Is(f)
  <2>1. ASSUME NEW s \in Sessions PROVE f[s] = Up(f, s)
    <3>1. CASE s \in stop
      <4>1. f[s] = first[s]
        BY <1>3, <3>1 DEF Walked
      <4> QED BY <3>1, <4>1
    <3>2. CASE s \notin stop
      <4>1. f[s] = on[<<f[Parent[s]], s>>] /\ Parent[s] \in Sessions
        BY <1>3, <3>2, ParentsAreAbove DEF Walked
      <4>2. <<f[Parent[s]], s>> \in V \X Sessions
        <5> HIDE DEF V
        <5> QED BY <1>3, <4>1
      <4>3. f[s] = [links |-> <<s>> \o f[Parent[s]].links, complete |-> f[Parent[s]].complete]
        <5> HIDE DEF V
        <5> QED BY <4>1, <4>2
      <4> QED BY <3>2, <4>3
    <3> QED BY <3>1, <3>2
  <2>2. f = [s \in Sessions |-> f[s]]
    BY <1>3
  <2> HIDE DEF Up
  <2> QED BY <2>1, <2>2
<1>5. Is(CHOOSE c : Is(c))
  <2> HIDE DEF Is
  <2> QED BY <1>4
<1>6. AuthorityChain = CHOOSE c : Is(c)
  BY DEF AuthorityChain
<1>7. \A s \in Sessions : AuthorityChain[s] = Up(AuthorityChain, s)
  <2> HIDE DEF Up
  <2> QED BY <1>5, <1>6
<1> QED BY <1>7

LEMMA OneLink ==
  ASSUME NEW s \in Sessions, NEW complete \in BOOLEAN, complete => Parent[s] = None
  PROVE  Chain([links |-> <<s>>, complete |-> complete], s)
<1>1. <<s>> \in Seq(Sessions) /\ Len(<<s>>) = 1 /\ <<s>>[1] = s /\ <<s>> # <<>>
  OBVIOUS
<1>2. Depth[s] \in Nat /\ Depth[s] = Depth[s] - 1 + 1
  BY ParentsAreAbove
<1>3. complete => Depth[s] = 1 - 1
  BY ParentsAreAbove
<1> QED BY <1>1, <1>2, <1>3 DEF Chain

LEMMA OneLinkMore ==
  ASSUME NEW s \in Sessions, Parent[s] # None, NEW up, Chain(up, Parent[s])
  PROVE  Chain([links |-> <<s>> \o up.links, complete |-> up.complete], s)
<1>1. PICK old : old = up.links
  OBVIOUS
<1>2. /\ old \in Seq(Sessions) /\ old # <<>> /\ old[1] = Parent[s]
      /\ \A i \in 1..(Len(old) - 1) : Parent[old[i]] # None /\ old[i + 1] = Parent[old[i]]
      /\ \A i \in 1..Len(old) : Depth[old[i]] = Depth[Parent[s]] - i + 1
      /\ up.complete => Depth[Parent[s]] = Len(old) - 1
  BY <1>1 DEF Chain
<1>3. PICK new : new = <<s>> \o old
  OBVIOUS
<1>4. /\ new \in Seq(Sessions) /\ Len(new) = Len(old) + 1 /\ Len(old) \in Nat /\ Len(old) # 0
      /\ new[1] = s /\ \A i \in 1..Len(old) : new[i + 1] = old[i]
  BY <1>2, <1>3
<1>5. /\ Parent[s] \in Sessions /\ Depth[s] \in Nat /\ Depth[Parent[s]] \in Nat
      /\ Depth[s] = 1 + Depth[Parent[s]]
  BY ParentsAreAbove
<1>6. ASSUME NEW i \in 1..(Len(new) - 1)
      PROVE  Parent[new[i]] # None /\ new[i + 1] = Parent[new[i]]
  <2>1. CASE i = 1
    <3>1. new[1] = s /\ new[1 + 1] = old[1]
      BY <1>4
    <3> QED BY <1>2, <2>1, <3>1
  <2>2. CASE i # 1
    <3>1. i - 1 \in 1..(Len(old) - 1) /\ i - 1 \in 1..Len(old) /\ i - 1 + 1 = i /\ i \in 1..Len(old)
      BY <1>4, <2>2
    <3>2. new[i] = old[i - 1] /\ new[i + 1] = old[i]
      BY <1>4, <3>1
    <3>3. Parent[old[i - 1]] # None /\ old[i - 1 + 1] = Parent[old[i - 1]]
      BY <1>2, <3>1
    <3> QED BY <3>1, <3>2, <3>3
  <2> QED BY <2>1, <2>2
<1>7. ASSUME NEW i \in 1..Len(new)
      PROVE  Depth[new[i]] = Depth[s] - i + 1
  <2>1. CASE i = 1
    BY <1>4, <1>5, <2>1
  <2>2. CASE i # 1
    <3>1. i - 1 \in 1..Len(old) /\ i - 1 + 1 = i /\ i \in Nat
      BY <1>4, <2>2
    <3>2. new[i] = old[i - 1] /\ Depth[old[i - 1]] = Depth[Parent[s]] - (i - 1) + 1
      BY <1>2, <1>4, <3>1
    <3>3. Depth[Parent[s]] - (i - 1) + 1 = Depth[s] - i + 1
      <4>1. i \in Nat
        BY <3>1
      <4> QED BY ONLY <1>5, <4>1
    <3> QED BY <3>2, <3>3
  <2> QED BY <2>1, <2>2
<1>8. up.complete => Depth[s] = Len(new) - 1
  BY <1>2, <1>4, <1>5
<1>9. new # <<>>
  BY <1>4
<1>10. [links |-> new, complete |-> up.complete].links = new
       /\ [links |-> new, complete |-> up.complete].complete = up.complete
  OBVIOUS
<1>11. Chain([links |-> new, complete |-> up.complete], s)
  BY <1>4, <1>6, <1>7, <1>8, <1>9, <1>10 DEF Chain
<1> QED BY <1>1, <1>3, <1>11

LEMMA ChainShape == \A s \in Sessions : Chain(AuthorityChain[s], s)
<1> DEFINE bad == {s \in Sessions : ~Chain(AuthorityChain[s], s)}
<1>1. ASSUME bad # {} PROVE FALSE
  <2> DEFINE ranks == {Depth[s] : s \in bad}
  <2>1. ranks \in SUBSET Nat /\ ranks # {}
    BY <1>1, ParentsAreAbove
  <2>2. PICK r \in ranks : \A j \in ranks : r <= j
    <3> HIDE DEF ranks
    <3> QED BY <2>1, LeastNumber
  <2>3. PICK s \in bad : Depth[s] = r
    OBVIOUS
  <2>4. s \in Sessions /\ ~Chain(AuthorityChain[s], s)
    OBVIOUS
  <2>5. \A t \in bad : Depth[s] <= Depth[t]
    BY <2>2, <2>3
  <2>6. CASE s \notin live
    <3>1. AuthorityChain[s] = [links |-> <<s>>, complete |-> FALSE]
      BY <2>4, <2>6, ChainWalks
    <3> QED BY <2>4, <3>1, OneLink
  <2>7. CASE s \in live /\ Parent[s] = None
    <3>1. AuthorityChain[s] = [links |-> <<s>>, complete |-> TRUE]
      BY <2>4, <2>7, ChainWalks
    <3> QED BY <2>4, <2>7, <3>1, OneLink
  <2>8. CASE s \in live /\ Parent[s] # None
    <3>1. AuthorityChain[s] = [links |-> <<s>> \o AuthorityChain[Parent[s]].links,
                               complete |-> AuthorityChain[Parent[s]].complete]
      BY <2>4, <2>8, ChainWalks
    <3>2. Parent[s] \in Sessions /\ ~(Depth[s] <= Depth[Parent[s]])
      BY <2>4, <2>8, ParentsAreAbove
    <3>3. Parent[s] \notin bad
      <4> HIDE DEF bad
      <4> QED BY <2>5, <3>2
    <3>4. Chain(AuthorityChain[Parent[s]], Parent[s])
      BY <3>2, <3>3
    <3> QED BY <2>4, <2>8, <3>1, <3>4, OneLinkMore
  <2> QED BY <2>6, <2>7, <2>8
<1> QED BY <1>1

\* What is shown of one session.
LEMMA ShownHolds ==
  ASSUME IdentityInv, NEW x \in Sessions, HasCertificate(x)
  PROVE  LET shown == Shown(x)
         IN  /\ shown.known /\ shown.depth = Depth[x]
             /\ shown.parentCert # 0 => Parent[x] # None /\ shown.parentCert = subjects[Parent[x]]
             /\ shown.member = BindingFor(x) /\ shown.state # "superseded"
             /\ Resolved(x) = IF shown.member = None THEN {} ELSE ToSet(verdict.lineage[shown.member])
<1>1. PICK c : c = issued[subjects[x]]
  OBVIOUS
<1>2. MembersOK(verdict) /\ BootOK /\ CertsOK
  BY DEF IdentityInv, BootOK
<1>3. subjects[x] \in DOMAIN issued
  BY <1>2 DEF CertsOK, HasCertificate
<1>4. CertOK(issued, subjects[x], Today) /\ StandsFor(c, x, subjects)
  BY <1>1, <1>2, <1>3 DEF CertsOK, HasCertificate
<1>5. /\ c.depth = Depth[x] /\ c.deedOf = BindingFor(x)
      /\ c.member = (IF BindingFor(x) = None THEN None ELSE CurrentKey(BindingFor(x)))
      /\ c.parentCert # 0 => Parent[x] # None /\ c.parentCert = subjects[Parent[x]]
  BY <1>1, <1>4 DEF CertOK, StandsFor
<1>6. Shown(x) = [known |-> TRUE, depth |-> c.depth, parentCert |-> c.parentCert,
                  member |-> IF Binding(verdict, c) = "verified" THEN MemberOf(verdict, c.member) ELSE None,
                  state |-> StateOf(verdict, c)]
      /\ Resolved(x) = KeysOf(verdict, c)
  BY <1>1 DEF Shown, Resolved
<1>7. CASE BindingFor(x) = None
  <2>1. Binding(verdict, c) = "unbound"
    BY <1>5, <1>7 DEF Binding
  <2> QED BY <1>5, <1>6, <1>7, <2>1 DEF StateOf, KeysOf
<1>8. CASE BindingFor(x) # None
  <2> DEFINE m == BindingFor(x)
  <2>1. /\ m \in DOMAIN verdict.lineage /\ c.member = CurrentKey(m) /\ c.member \in Keys
        /\ c.member \in ToSet(verdict.lineage[m])
    BY <1>2, <1>5, <1>8, BoundToAMember
  <2>2. Seen(verdict, c.member) /\ MemberOf(verdict, c.member) = m
    BY <1>2, <2>1, HeldByOne
  <2>3. Binding(verdict, c) = "verified"
    BY <2>1, <2>2, NoneIsNoKey DEF Binding
  <2>4. StateOf(verdict, c) # "superseded"
    BY <2>1, <2>2, <2>3 DEF StateOf, CurrentKey
  <2>5. KeysOf(verdict, c) = ToSet(verdict.lineage[m])
    BY <2>2, <2>3 DEF KeysOf
  <2> HIDE DEF m
  <2>6. m = BindingFor(x)
    BY DEF m
  <2> QED BY <1>5, <1>6, <1>8, <2>2, <2>3, <2>4, <2>5, <2>6
<1> QED BY <1>7, <1>8

LEMMA ChainsHold == IdentityInv => AnsweredChainsHold
<1> SUFFICES ASSUME IdentityInv, NEW s \in live,
                    NEW chain, chain = AuthorityChain[s], NEW i \in 1..Len(chain.links),
                    Shown(chain.links[i]).known
             PROVE  LET shown == Shown(chain.links[i])
                    IN  /\ chain.complete => shown.depth = Len(chain.links) - i
                        /\ shown.parentCert # 0 /\ i < Len(chain.links) =>
                             shown.parentCert = subjects[chain.links[i + 1]]
                        /\ shown.member = BindingFor(chain.links[i]) /\ shown.state # "superseded"
                        /\ Resolved(chain.links[i]) = IF shown.member = None THEN {}
                                                      ELSE ToSet(verdict.lineage[shown.member])
  BY DEF AnsweredChainsHold
<1>1. s \in Sessions /\ Chain(chain, s)
  BY ChainShape DEF IdentityInv
<1>2. PICK links : links = chain.links
  OBVIOUS
<1>3. /\ links \in Seq(Sessions) /\ Len(links) \in Nat /\ links[i] \in Sessions /\ i \in 1..Len(links)
      /\ \A k \in 1..(Len(links) - 1) : links[k + 1] = Parent[links[k]]
      /\ Depth[links[i]] = Depth[s] - i + 1
      /\ chain.complete => Depth[s] = Len(links) - 1
  <2>1. links \in Seq(Sessions)
    BY <1>1, <1>2 DEF Chain
  <2>2. Len(links) \in Nat /\ links[i] \in Sessions /\ i \in 1..Len(links)
    BY <1>2, <2>1
  <2>3. \A k \in 1..(Len(links) - 1) : links[k + 1] = Parent[links[k]]
    BY <1>1, <1>2 DEF Chain
  <2>4. Depth[links[i]] = Depth[s] - i + 1
    BY <1>1, <1>2, <2>2 DEF Chain
  <2>5. chain.complete => Depth[s] = Len(links) - 1
    BY <1>1, <1>2 DEF Chain
  <2> QED BY <2>1, <2>2, <2>3, <2>4, <2>5
<1>4. HasCertificate(links[i])
  BY <1>2 DEF Shown
<1> DEFINE shown == Shown(links[i])
<1>5. /\ shown.depth = Depth[links[i]]
      /\ shown.parentCert # 0 => shown.parentCert = subjects[Parent[links[i]]]
      /\ shown.member = BindingFor(links[i]) /\ shown.state # "superseded"
      /\ Resolved(links[i]) = IF shown.member = None THEN {} ELSE ToSet(verdict.lineage[shown.member])
  BY <1>3, <1>4, ShownHolds
<1> HIDE DEF shown
<1>6. chain.complete => shown.depth = Len(links) - i
  <2> SUFFICES ASSUME chain.complete PROVE shown.depth = Len(links) - i
    OBVIOUS
  <2>1. Depth[links[i]] = (Len(links) - 1) - i + 1
    BY <1>3
  <2> QED BY <1>3, <1>5, <2>1
<1>7. i < Len(links) => links[i + 1] = Parent[links[i]]
  BY <1>3
<1> QED BY <1>2, <1>5, <1>6, <1>7 DEF shown

\* An answered chain is the recorded lineage, and each certificate on it says its place
\* there, the parent shown next to it, and the Member its session is bound to.
THEOREM ChainsAlwaysHold == IdentitySpec => []AnsweredChainsHold
BY IdentityInvariant, ChainsHold, PTL
=============================================================================
