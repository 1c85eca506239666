------------------------- MODULE ApprovalGateProofs -------------------------
(***************************************************************************)
(* Theorems about the approval gate, for every set of sessions, operations *)
(* and terms: its state keeps its shape, a revocation reaches the cached   *)
(* approvals its pattern covers, a budgeted row never answers for more     *)
(* executions than it was granted, a call runs under a row that answers    *)
(* for it at that very step, a cached approval is one the operator gave,   *)
(* and nothing waits but what is asked.                                    *)
(***************************************************************************)
EXTENDS ApprovalGate, FiniteSetTheorems, FunctionTheorems, SequenceTheorems,
        WellFoundedInduction, TLAPS

-----------------------------------------------------------------------------
(* Choices that pick a least or a newest row find one. *)

(* A nonempty set of naturals has a least element. *)
LEMMA LeastExists ==
  ASSUME NEW S \in SUBSET Nat, S # {}
  PROVE  \E m \in S : \A k \in S : m <= k
<1> DEFINE R        == StrictSubsetOrdering(Nat)
           Segments == { 0..k : k \in S }
<1>1. Segments \subseteq FiniteSubsetsOf(Nat) /\ Segments # {}
  <2>1. \A k \in S : 0..k \in SUBSET Nat /\ IsFiniteSet(0..k)
    BY FS_Interval
  <2> QED BY <2>1 DEF FiniteSubsetsOf
<1>2. PICK X \in Segments : \A Y \in Segments : ~(<<Y, X>> \in R)
  <2>1. IsWellFoundedOn(R, FiniteSubsetsOf(Nat))
    BY FS_StrictSubsetOrderingWellFounded
  <2> HIDE DEF R, Segments
  <2> QED BY <1>1, <2>1, WFMin
<1>3. PICK m \in S : X = 0..m
  BY <1>2
<1>4. ASSUME NEW k \in S, k < m
      PROVE  FALSE
  <2>1. 0..k \in SUBSET Nat /\ 0..m \in SUBSET Nat /\ 0..k \subseteq 0..m /\ 0..k # 0..m
    BY <1>4
  <2>2. <<0..k, 0..m>> \in R
    BY <2>1 DEF StrictSubsetOrdering
  <2> QED BY <1>2, <1>3, <2>2
<1> QED BY <1>4

(* FirstOf returns a member of the set no other member precedes. *)
LEMMA FirstOfIsAMember ==
  ASSUME NEW S \in SUBSET Nat, S # {}
  PROVE  FirstOf(S) \in S
BY LeastExists DEF FirstOf

(* The fields of a grant row the gate counts with or compares. *)
LEMMA RowFields ==
  ASSUME NEW g \in GrantRows
  PROVE  /\ g.layer \in {"session", "plan"}
         /\ g.createdAt \in Nat /\ g.expiresAt \in Nat /\ g.revokedAt \in Nat
         /\ g.maxUses \in Nat /\ g.uses \in Nat
BY DEF GrantRows

(* Rows are created, and revoked, no later than now. *)
Dated == \A i \in DOMAIN grants : grants[i].createdAt <= now /\ grants[i].revokedAt <= now

(* Newest returns a row of the set it is given. *)
LEMMA NewestIsAMember ==
  ASSUME TypeOK, Dated, NEW S \in SUBSET DOMAIN grants, S # {}
  PROVE  Newest(S) \in S
<1> DEFINE age(i) == now - grants[i].createdAt
           Ages   == { age(i) : i \in S }
<1>1. \A i \in S : grants[i].createdAt \in Nat /\ grants[i].layer \in {"session", "plan"} /\ age(i) \in Nat
  <2>1. \A i \in S : grants[i] \in GrantRows
    BY DEF TypeOK
  <2> QED BY <2>1, RowFields DEF TypeOK, Dated
<1>2. PICK a \in Ages : \A b \in Ages : a <= b
  <2>1. Ages \in SUBSET Nat /\ Ages # {}
    BY <1>1
  <2> QED BY <2>1, LeastExists
<1> DEFINE Youngest == { i \in S : age(i) = a }
           First    == IF \E i \in Youngest : grants[i].layer = "session"
                         THEN { i \in Youngest : grants[i].layer = "session" } ELSE Youngest
<1>3. PICK m \in First : \A k \in First : m <= k
  <2>1. First \in SUBSET Nat /\ First # {}
    BY <1>2, DOMAIN grants \subseteq Nat DEF TypeOK
  <2> QED BY <2>1, LeastExists
<1>4. m \in S
  BY <1>3
<1>5. ASSUME NEW j \in S
      PROVE  \/ grants[m].createdAt > grants[j].createdAt
             \/ /\ grants[m].createdAt = grants[j].createdAt
                /\ \/ grants[m].layer = grants[j].layer /\ m <= j
                   \/ grants[m].layer = "session" /\ grants[j].layer = "plan"
  <2>1. age(m) = a /\ a <= age(j)
    BY <1>2, <1>3, <1>5
  <2>2. CASE age(j) = a
    <3>1. j \in Youngest /\ grants[m].createdAt = grants[j].createdAt
      BY <2>1, <2>2, <1>1, <1>4, <1>5, now \in Nat DEF TypeOK
    <3> QED BY <3>1, <1>1, <1>3, <1>4, <1>5
  <2>3. CASE age(j) # a
    <3>1. grants[m].createdAt \in Nat /\ grants[j].createdAt \in Nat /\ now \in Nat
      BY <1>1, <1>4, <1>5 DEF TypeOK
    <3>2. now - grants[m].createdAt = a /\ a < now - grants[j].createdAt
      BY <1>1, <1>4, <1>5, <2>1, <2>3, <3>1
    <3> QED BY ONLY <3>1, <3>2
  <2> QED BY <2>2, <2>3
<1> QED BY <1>4, <1>5 DEF Newest

-----------------------------------------------------------------------------
(* The helpers keep the shape of what they are given. *)

(* A row minted on terms of the right types is a grant row. *)
LEMMA SessionGrantIsARow ==
  ASSUME now \in Nat,
         NEW pattern \in Patterns, NEW root \in Sessions \cup {None},
         NEW session \in Sessions \cup {None}, NEW class \in {"read", "write", None},
         NEW ttl \in Nat, NEW maxUses \in Nat, NEW addresses \in SUBSET Addrs
  PROVE  SessionGrant(pattern, root, session, class, ttl, maxUses, addresses) \in GrantRows
BY DEF SessionGrant, GrantRows

(* The fingerprints of finitely many operations are finitely many. *)
LEMMA FPsFinite == IsFiniteSet(FPs)
<1> DEFINE f == [o \in Ops |-> Fingerprint(o)]
<1>1. f \in Surjection(Ops, FPs)
  BY DEF Surjection, FPs
<1>2. IsFiniteSet(Ops)
  BY OpsAssumption
<1> QED BY <1>1, <1>2, FS_Surjection

(* Deleting entries from the cache leaves a cache. *)
LEMMA CacheKept ==
  ASSUME TypeOK
  PROVE  /\ \A fp \in FPs : CacheProbed(fp) \in [FPs -> CacheEntries \cup {NoEntry}]
         /\ \A S : WithoutEntries(S) \in [FPs -> CacheEntries \cup {NoEntry}]
BY DEF TypeOK, CacheProbed, WithoutEntries

PendingRecords == [count : Nat, firstAt : Nat, root : Sessions]

(* Sweeping the pending records leaves well-formed bookkeeping. *)
LEMMA SweepKept ==
  ASSUME TypeOK
  PROVE  /\ SweptPending \in [FPs -> PendingRecords \cup {NoPending}]
         /\ SweptFlood \in [Sessions -> Nat]
<1>1. SweptPending \in [FPs -> PendingRecords \cup {NoPending}]
  BY DEF TypeOK, SweptPending, PendingRecords
<1>2. ASSUME NEW r \in Sessions
      PROVE  Cardinality({ fp \in Stale : pending[fp].root = r }) \in Nat
  BY FPsFinite, FS_Subset, FS_CardinalityType DEF Stale
<1>3. SweptFlood \in [Sessions -> Nat]
  BY <1>2 DEF TypeOK, SweptFlood
<1> QED BY <1>1, <1>3

(* The calls after one of them moves to another phase, or a new one is     *)
(* seen, are still call records.                                           *)
Phases == {"asked", "resolving", "deciding", "ran", "refused", "lost"}

LEMMA CallFields ==
  ASSUME TypeOK, NEW c \in DOMAIN calls
  PROVE  /\ calls[c] \in CallRecords
         /\ calls[c].session \in Sessions /\ calls[c].op \in Ops /\ calls[c].basis \in Nat
         /\ calls[c].rec \in AskRecords \cup {NoRec} /\ calls[c].card \in Cards
         /\ calls[c].pin \in SUBSET Addrs /\ calls[c].phase \in Phases
         /\ c \in Nat
<1>1. calls[c] \in CallRecords /\ c \in Nat
  BY DEF TypeOK
<1>2. \A d \in CallRecords :
        /\ d.session \in Sessions /\ d.op \in Ops /\ d.basis \in Nat
        /\ d.rec \in AskRecords \cup {NoRec} /\ d.card \in Cards
        /\ d.pin \in SUBSET Addrs /\ d.phase \in Phases
  BY DEF CallRecords, Phases
<1> QED BY <1>1, <1>2

LEMMA CallMoved ==
  ASSUME TypeOK, NEW c \in DOMAIN calls, NEW d \in CallRecords
  PROVE  [calls EXCEPT ![c] = d] \in Seq(CallRecords)
BY ExceptSeq DEF TypeOK

LEMMA PhaseMoved ==
  ASSUME TypeOK, NEW c \in DOMAIN calls, NEW phase \in Phases
  PROVE  [calls EXCEPT ![c].phase = phase] \in Seq(CallRecords)
<1>1. calls[c] \in CallRecords
  BY CallFields
<1>2. [calls[c] EXCEPT !.phase = phase] \in CallRecords
  BY <1>1 DEF CallRecords, Phases
<1> QED BY <1>2, CallMoved

LEMMA CallSeen ==
  ASSUME TypeOK, NEW s \in Sessions, NEW o \in Ops, NEW phase \in Phases, NEW basis \in Nat
  PROVE  /\ Call(s, o, phase, basis) \in CallRecords
         /\ Append(calls, Call(s, o, phase, basis)) \in Seq(CallRecords)
<1>1. Call(s, o, phase, basis) \in CallRecords
  BY DEF Call, CallRecords, Cards, Phases
<1> QED BY <1>1 DEF TypeOK

(* An ask's record has the fields of one. *)
LEMMA AskRecordTyped ==
  ASSUME TypeOK, NEW s \in Sessions, NEW o \in Ops
  PROVE  AskRecord(s, o) \in AskRecords
BY ScopesAssumption DEF AskRecord, AskRecords, TypeOK, FPs

LEMMA AskFields ==
  ASSUME NEW r \in AskRecords
  PROVE  /\ r.fp \in FPs /\ r.root \in Sessions /\ r.session \in Sessions /\ r.op \in Ops
         /\ r.callId \in Nat /\ r.at \in Nat
BY DEF AskRecords

(* Changing the count or the revocation of a row changes nothing else. *)
LEMMA RowEdited ==
  ASSUME NEW g \in GrantRows, NEW n \in Nat
  PROVE  LET u == [g EXCEPT !.uses = n]
             v == [g EXCEPT !.revokedAt = n]
         IN  /\ u \in GrantRows /\ v \in GrantRows
             /\ u.uses = n /\ u.createdAt = g.createdAt /\ u.revokedAt = g.revokedAt
             /\ u.maxUses = g.maxUses /\ u.pattern = g.pattern
             /\ v.revokedAt = n /\ v.createdAt = g.createdAt /\ v.uses = g.uses
             /\ v.maxUses = g.maxUses /\ v.pattern = g.pattern
BY DEF GrantRows

(* A row that pays for a use stays a row, and no other row changes. *)
LEMMA ConsumedKept ==
  ASSUME TypeOK, NEW i \in DOMAIN grants
  PROVE  /\ Consumed(i) \in Seq(GrantRows)
         /\ DOMAIN Consumed(i) = DOMAIN grants
         /\ \A j \in DOMAIN grants :
              /\ Consumed(i)[j].createdAt = grants[j].createdAt
              /\ Consumed(i)[j].revokedAt = grants[j].revokedAt
              /\ Consumed(i)[j].maxUses = grants[j].maxUses
              /\ Consumed(i)[j].pattern = grants[j].pattern
              /\ Consumed(i)[j].uses =
                   IF i = j /\ grants[i].maxUses # 0 THEN grants[i].uses + 1 ELSE grants[j].uses
<1> DEFINE n   == IF grants[i].maxUses = 0 THEN grants[i].uses ELSE grants[i].uses + 1
           row == [grants[i] EXCEPT !.uses = n]
<1>1. grants[i] \in GrantRows /\ i \in 1..Len(grants) /\ grants \in Seq(GrantRows)
  BY DEF TypeOK
<1>2. n \in Nat
  BY <1>1, RowFields
<1>3. /\ row \in GrantRows /\ row.uses = n
      /\ row.createdAt = grants[i].createdAt /\ row.revokedAt = grants[i].revokedAt
      /\ row.maxUses = grants[i].maxUses /\ row.pattern = grants[i].pattern
  <2> HIDE DEF n
  <2> QED BY <1>1, <1>2, RowEdited
<1>4. Consumed(i) = [grants EXCEPT ![i] = row]
  BY <1>1 DEF Consumed
<1>5. [grants EXCEPT ![i] = row] \in Seq(GrantRows)
  BY <1>1, <1>3, ExceptSeq
<1> HIDE DEF row
<1> QED BY <1>1, <1>3, <1>4, <1>5

(* A decision card is one, and names an existing row. *)
LEMMA CardTyped ==
  ASSUME TypeOK, Dated, NEW o, NEW s
  PROVE  /\ Card(o, s) \in Cards
         /\ Card(o, s).kind = "params-edge" => Card(o, s).row \in DOMAIN grants
<1> DEFINE usable == { i \in PrefixRows(o, s) : Live(grants[i]) /\ Unspent(grants[i]) }
<1>1. usable # {} => Newest(usable) \in DOMAIN grants
  <2>1. usable \in SUBSET DOMAIN grants
    BY DEF PrefixRows
  <2> HIDE DEF usable
  <2> QED BY <2>1, NewestIsAMember
<1>2. DOMAIN grants \subseteq Nat
  BY DEF TypeOK
<1>3. CASE Card(o, s) = NoCard
  BY <1>3 DEF Cards, NoCard
<1>4. CASE Card(o, s) # NoCard
  <2> DEFINE row == Newest(usable)
             refused == IF grants[row].pattern.params.mode = "allow"
                          THEN QueryNames(o.target) \ grants[row].pattern.params.names
                          ELSE QueryNames(o.target)
  <2>1. /\ usable # {}
        /\ Card(o, s) = [kind |-> "params-edge", row |-> row, credential |-> refused \cap Credential]
    BY <1>4 DEF Card
  <2>2. row \in DOMAIN grants
    BY <1>1, <2>1
  <2> HIDE DEF row, refused, usable
  <2> QED BY <1>2, <2>1, <2>2 DEF Cards
<1> QED BY <1>3, <1>4

LEMMA ReleasedKept ==
  ASSUME NEW f \in [Sessions -> Nat], NEW root \in Sessions
  PROVE  Released(f, root) \in [Sessions -> Nat]
BY DEF Released

(* Answering an ask leaves well-formed bookkeeping and takes no record. *)
LEMMA ReleaseAskKept ==
  ASSUME TypeOK, NEW c \in DOMAIN calls, ReleaseAsk(c)
  PROVE  /\ pending' \in [FPs -> PendingRecords \cup {NoPending}]
         /\ flood' \in [Sessions -> Nat]
         /\ asks' = asks
<1>1. CASE calls[c].rec = NoRec
  BY <1>1 DEF ReleaseAsk, TypeOK, PendingRecords
<1>2. CASE calls[c].rec # NoRec
  <2>1. calls[c].rec \in AskRecords
    BY <1>2, CallFields
  <2>2. pending' = [pending EXCEPT ![calls[c].rec.fp] = NoPending] /\ asks' = asks
    BY <1>2 DEF ReleaseAsk
  <2>3. flood' = Released(flood, calls[c].rec.root)
    BY <1>2 DEF ReleaseAsk
  <2>4. pending' \in [FPs -> PendingRecords \cup {NoPending}]
    BY <2>2 DEF TypeOK, PendingRecords
  <2>5. flood' \in [Sessions -> Nat]
    BY <2>1, <2>3, AskFields, ReleasedKept DEF TypeOK
  <2> QED BY <2>2, <2>4, <2>5
<1> QED BY <1>1, <1>2

(* The rows an allowed ask mints are fresh grant rows. *)
LEMMA MintedAreRows ==
  ASSUME TypeOK, NEW c \in DOMAIN calls, calls[c].rec # NoRec,
         NEW pick \in PatternOffers(calls[c].rec.op, Egress) \cup {NoPattern},
         NEW runtime \in BOOLEAN, NEW shown \in BOOLEAN
  PROVE  LET rows == MintedRows(c, pick, runtime, shown) IN
         /\ rows \in Seq(GrantRows)
         /\ \A i \in 1..Len(rows) :
              rows[i].createdAt = now /\ rows[i].revokedAt = 0 /\ rows[i].uses = 0
<1> DEFINE r == calls[c].rec
           picked == pick # NoPattern
           root == IF picked /\ runtime THEN None ELSE r.root
           session == IF picked /\ runtime THEN None ELSE r.session
           class == IF r.op.methodClass \in {"read", "write"} THEN r.op.methodClass ELSE None
           leg == SessionGrant(EgressPatternFor(CanonicalTarget(r.op.target)), root, session, class,
                               EgressTtl, 0, IF shown THEN calls[c].pin ELSE {})
           row == SessionGrant(pick, root, session, class, PatternTtl, PatternUses, {})
           Fresh == { g \in GrantRows : g.createdAt = now /\ g.revokedAt = 0 /\ g.uses = 0 }
           legs == IF EgressBound(r.op) THEN <<leg>> ELSE << >>
           rows == IF picked THEN <<row>> ELSE << >>
<1>1. r \in AskRecords /\ calls[c].pin \in SUBSET Addrs
  BY CallFields
<1>2. r.op \in Ops /\ root \in Sessions \cup {None} /\ session \in Sessions \cup {None}
      /\ class \in {"read", "write", None} /\ now \in Nat
  BY <1>1, AskFields DEF TypeOK
<1>3. {EgressTtl, PatternTtl, PatternUses} \subseteq Nat
  BY TermsAssumption
<1>4. EgressBound(r.op) => leg \in Fresh
  <2>1. EgressBound(r.op) => EgressPatternFor(CanonicalTarget(r.op.target)) \in Patterns
    BY <1>2 DEF EgressBound, Patterns, Routes
  <2>2. leg.createdAt = now /\ leg.revokedAt = 0 /\ leg.uses = 0
    BY DEF SessionGrant
  <2>3. (IF shown THEN calls[c].pin ELSE {}) \in SUBSET Addrs
    BY <1>1
  <2> HIDE DEF r, root, session, class
  <2> QED BY <1>2, <1>3, <2>1, <2>2, <2>3, SessionGrantIsARow
<1>5. picked => row \in Fresh
  <2>1. picked => pick \in Patterns
    BY <1>2 DEF Patterns, Offered
  <2>2. row.createdAt = now /\ row.revokedAt = 0 /\ row.uses = 0
    BY DEF SessionGrant
  <2> HIDE DEF r, root, session, class
  <2> QED BY <1>2, <1>3, <2>1, <2>2, SessionGrantIsARow
<1>6. MintedRows(c, pick, runtime, shown) = legs \o rows
  BY DEF MintedRows
<1>7. legs \in Seq(Fresh) /\ rows \in Seq(Fresh)
  <2> HIDE DEF r, leg, row, Fresh
  <2> QED BY <1>4, <1>5
<1>8. legs \o rows \in Seq(Fresh)
  <2> HIDE DEF legs, rows, Fresh
  <2> QED BY <1>7, ConcatProperties
<1>9. Fresh \subseteq GrantRows
  OBVIOUS
<1>10. \A i \in 1..Len(legs \o rows) : (legs \o rows)[i] \in Fresh
  <2> HIDE DEF legs, rows, Fresh
  <2> QED BY <1>8, ElementOfSeq
<1>11. legs \o rows \in Seq(GrantRows)
  <2> HIDE DEF legs, rows, Fresh
  <2> QED BY <1>8, <1>9, SeqMonotonic
<1>12. ASSUME NEW g \in Fresh PROVE g.createdAt = now /\ g.revokedAt = 0 /\ g.uses = 0
  BY <1>12
<1> HIDE DEF legs, rows, Fresh
<1> QED BY <1>6, <1>10, <1>11, <1>12

-----------------------------------------------------------------------------
(* Every action keeps the shape of the state. *)

StoreTyped == grants' \in Seq(GrantRows) /\ secrets' \subseteq SecretRows
                /\ cache' \in [FPs -> CacheEntries \cup {NoEntry}]
BookTyped == pending' \in [FPs -> PendingRecords \cup {NoPending}]
                /\ flood' \in [Sessions -> Nat] /\ asks' \subseteq AskRecords
HistoryTyped == calls' \in Seq(CallRecords) /\ yes' \subseteq [fp : FPs, session : Sessions]

LEMMA TypesCombine ==
  ASSUME now' \in Nat, StoreTyped, BookTyped, HistoryTyped
  PROVE  TypeOK'
BY DEF TypeOK, StoreTyped, BookTyped, HistoryTyped, PendingRecords, SecretRows, CacheEntries,
       AskRecords, CallRecords, GrantRows, FPs, Cards, NoEntry, NoPending, NoRec, NoCard, Patterns, Routes

LEMMA DatedKept ==
  ASSUME Dated, UNCHANGED grants, now' >= now, TypeOK, now' \in Nat
  PROVE  Dated'
<1>1. ASSUME NEW i \in DOMAIN grants'
      PROVE  grants'[i].createdAt <= now' /\ grants'[i].revokedAt <= now'
  <2>1. grants[i] \in GrantRows /\ i \in DOMAIN grants /\ now \in Nat
    BY <1>1 DEF TypeOK
  <2>2. grants[i].createdAt <= now /\ grants[i].revokedAt <= now
    BY <2>1 DEF Dated
  <2> QED BY <2>1, <2>2, RowFields
<1> QED BY <1>1 DEF Dated

LEMMA GateTargetlessTyped ==
  ASSUME TypeOK, Dated, NEW s \in Sessions, NEW o \in Ops, GateTargetless(s, o)
  PROVE  TypeOK' /\ Dated'
<1>1. now' \in Nat /\ Dated'
  BY DatedKept DEF GateTargetless, TypeOK
<1>2. StoreTyped
  <2>1. Fingerprint(o) \in FPs
    BY DEF FPs
  <2> QED BY <2>1, CacheKept DEF GateTargetless, StoreTyped, TypeOK
<1>3. BookTyped
  <2>1. AskRecord(s, o) \in AskRecords
    BY AskRecordTyped
  <2>2. RootOf[s] \in Sessions
    BY ScopesAssumption
  <2> QED BY <2>1, <2>2 DEF GateTargetless, BookTyped, TypeOK, PendingRecords
<1>4. HistoryTyped
  <2>1. calls' \in Seq(CallRecords)
    BY CallSeen DEF GateTargetless, Ran, Asked, Phases
  <2> QED BY <2>1 DEF GateTargetless, HistoryTyped, TypeOK
<1> QED BY <1>1, <1>2, <1>3, <1>4, TypesCombine

(* The row a layer picks is one that covers the operation. *)
LEMMA CoveringRow ==
  ASSUME TypeOK, NEW s, NEW o, NEW S \in {Covering(o, "plan"), { i \in Covering(o, "session") : ScopeOk(grants[i], s) }},
         S # {}
  PROVE  FirstOf(S) \in DOMAIN grants /\ Live(grants[FirstOf(S)]) /\ Unspent(grants[FirstOf(S)])
<1>1. \A i \in S : i \in DOMAIN grants /\ Live(grants[i]) /\ Unspent(grants[i])
  BY DEF Covering
<1>2. S \in SUBSET Nat
  BY <1>1 DEF TypeOK
<1>3. FirstOf(S) \in S
  BY <1>2, FirstOfIsAMember
<1> QED BY <1>1, <1>3

LEMMA GateTargetTyped ==
  ASSUME TypeOK, Dated, NEW s \in Sessions, NEW o \in Ops, GateTarget(s, o)
  PROVE  TypeOK' /\ Dated'
<1> DEFINE plan == Covering(o, "plan")
           sess == { i \in Covering(o, "session") : ScopeOk(grants[i], s) }
           row  == FirstOf(IF plan # {} THEN plan ELSE sess)
<1>1. now' = now /\ now \in Nat /\ UNCHANGED <<secrets, yes>>
  BY DEF GateTarget, TypeOK
<1>2. \/ UNCHANGED grants
      \/ plan \cup sess # {} /\ grants' = Consumed(row)
  BY DEF GateTarget
<1>3. plan \cup sess # {} => row \in DOMAIN grants
  BY CoveringRow
<1>4. grants' \in Seq(GrantRows) /\ Dated'
  <2>1. CASE UNCHANGED grants
    BY <1>1, <2>1, DatedKept DEF TypeOK
  <2>2. CASE plan \cup sess # {} /\ grants' = Consumed(row)
    <3> HIDE DEF plan, sess, row
    <3> QED BY <1>1, <1>3, <2>2, ConsumedKept DEF Dated
  <2> QED BY <1>2, <2>1, <2>2
<1>5. StoreTyped
  <2>1. Fingerprint(o) \in FPs /\ cache' = CacheProbed(Fingerprint(o))
    BY DEF FPs, GateTarget
  <2> QED BY <1>1, <1>4, <2>1, CacheKept DEF StoreTyped, TypeOK
<1>6. BookTyped
  <2>1. AskRecord(s, o) \in AskRecords /\ RootOf[s] \in Sessions /\ now \in Nat
        /\ asks \subseteq AskRecords
    BY AskRecordTyped, ScopesAssumption DEF TypeOK
  <2>2. asks' \subseteq AskRecords
    BY <2>1 DEF GateTarget
  <2>3. flood' \in [Sessions -> Nat]
    <3>1. \/ flood' = SweptFlood
          \/ flood' = [SweptFlood EXCEPT ![RootOf[s]] = @ + 1]
      BY DEF GateTarget
    <3> QED BY <3>1, <2>1, SweepKept
  <2>4. pending' \in [FPs -> PendingRecords \cup {NoPending}]
    <3> DEFINE fp == Fingerprint(o)
    <3>1. \/ pending' = SweptPending
          \/ pending' = [SweptPending EXCEPT ![fp] = [count |-> 1, firstAt |-> now, root |-> RootOf[s]]]
          \/ /\ SweptPending[fp] # NoPending
             /\ pending' = [SweptPending EXCEPT ![fp].count = @ + 1]
      BY DEF GateTarget
    <3>2. fp \in FPs
      BY DEF FPs
    <3>3. [count |-> 1, firstAt |-> now, root |-> RootOf[s]] \in PendingRecords
      BY <2>1 DEF PendingRecords
    <3>4. SweptPending[fp] # NoPending => [SweptPending[fp] EXCEPT !.count = @ + 1] \in PendingRecords
      <4> HIDE DEF fp
      <4> QED BY <3>2, SweepKept DEF PendingRecords
    <3> HIDE DEF fp
    <3> QED BY <3>1, <3>2, <3>3, <3>4, SweepKept
  <2> QED BY <2>2, <2>3, <2>4 DEF BookTyped
<1>7. HistoryTyped
  <2>1. row \in DOMAIN grants => row \in Nat
    BY DEF TypeOK
  <2>2. calls' \in Seq(CallRecords)
    <3>1. \E phase \in Phases, basis \in Nat : calls' = Append(calls, Call(s, o, phase, basis))
      BY <1>3, <2>1 DEF GateTarget, Ran, Asked, Phases
    <3>2. PICK phase \in Phases, basis \in Nat : calls' = Append(calls, Call(s, o, phase, basis))
      BY <3>1
    <3> DEFINE new == Call(s, o, phase, basis)
    <3>3. new \in CallRecords /\ calls \in Seq(CallRecords)
      BY CallSeen DEF TypeOK
    <3> HIDE DEF new
    <3> QED BY <3>2, <3>3 DEF new
  <2> QED BY <1>1, <2>2 DEF HistoryTyped, TypeOK
<1> QED BY <1>1, <1>4, <1>5, <1>6, <1>7, TypesCombine

LEMMA PolicyAnswerTyped ==
  ASSUME TypeOK, Dated, NEW c \in DOMAIN calls, PolicyAnswer(c)
  PROVE  TypeOK' /\ Dated'
<1>1. now' \in Nat /\ Dated' /\ StoreTyped /\ BookTyped /\ yes' = yes
  BY DatedKept DEF PolicyAnswer, TypeOK, StoreTyped, BookTyped, PendingRecords, store, book
<1>2. PICK phase \in {"ran", "refused"} : calls' = [calls EXCEPT ![c].phase = phase]
  BY DEF PolicyAnswer
<1>3. HistoryTyped
  BY <1>1, <1>2, PhaseMoved DEF HistoryTyped, TypeOK, Phases
<1> QED BY <1>1, <1>3, TypesCombine

LEMMA DispatchTyped ==
  ASSUME TypeOK, Dated, NEW c \in DOMAIN calls, NEW withId \in DispatchIds, Dispatch(c, withId)
  PROVE  TypeOK' /\ Dated'
<1> DEFINE s    == calls[c].session
           tool == calls[c].op.tool
           recs == Claimed(s, tool, c, withId)
<1>1. now' \in Nat /\ Dated' /\ StoreTyped /\ yes' = yes
  <2>1. UNCHANGED <<now, grants, secrets, cache, yes>>
    BY DEF Dispatch, store
  <2> QED BY <2>1, DatedKept DEF TypeOK, StoreTyped
<1>2. BookTyped
  <2>1. asks' \subseteq asks /\ UNCHANGED <<pending, flood>>
    BY DEF Dispatch
  <2> QED BY <2>1 DEF BookTyped, TypeOK, PendingRecords
<1>3. recs \subseteq AskRecords
  BY DEF Claimed, Queue, StaleAsks, TypeOK
<1>4. calls' \in Seq(CallRecords)
  <2>1. CASE calls' = [calls EXCEPT ![c].phase = "deciding"]
    BY <2>1, PhaseMoved DEF Phases
  <2>2. ASSUME NEW r \in recs, NEW phase \in Phases, NEW card \in Cards,
               calls' = [calls EXCEPT ![c].rec = r, ![c].phase = phase, ![c].card = card]
        PROVE  calls' \in Seq(CallRecords)
    <3>1. calls[c] \in CallRecords /\ r \in AskRecords
      BY <1>3, CallFields
    <3>2. [calls[c] EXCEPT !.rec = r, !.phase = phase, !.card = card] \in CallRecords
      BY <3>1 DEF CallRecords, Phases
    <3>3. calls' = [calls EXCEPT ![c] = [calls[c] EXCEPT !.rec = r, !.phase = phase, !.card = card]]
      BY <2>2 DEF TypeOK
    <3> QED BY <3>2, <3>3, CallMoved
  <2>3. \A r : Card(r.op, r.session) \in Cards /\ NoCard \in Cards
    BY CardTyped DEF Cards
  <2>4. \/ calls' = [calls EXCEPT ![c].phase = "deciding"]
        \/ \E r \in recs, phase \in Phases, card \in Cards :
             calls' = [calls EXCEPT ![c].rec = r, ![c].phase = phase, ![c].card = card]
    <3>1. CASE recs = {} /\ calls' = [calls EXCEPT ![c].phase = "deciding"]
      BY <3>1
    <3>2. ASSUME NEW r \in recs,
                 calls' = [calls EXCEPT ![c].rec   = r,
                                        ![c].phase = IF PinApplies(r.op) THEN "resolving" ELSE "deciding",
                                        ![c].card  = IF PinApplies(r.op) THEN NoCard ELSE Card(r.op, r.session)]
          PROVE  \E phase \in Phases, card \in Cards :
                   calls' = [calls EXCEPT ![c].rec = r, ![c].phase = phase, ![c].card = card]
      <4> DEFINE phase == IF PinApplies(r.op) THEN "resolving" ELSE "deciding"
                 card  == IF PinApplies(r.op) THEN NoCard ELSE Card(r.op, r.session)
      <4>1. phase \in Phases /\ card \in Cards
        BY <2>3 DEF Phases
      <4>2. calls' = [calls EXCEPT ![c].rec = r, ![c].phase = phase, ![c].card = card]
        BY <3>2
      <4> HIDE DEF phase, card
      <4> QED BY <4>1, <4>2
    <3> QED BY <3>1, <3>2 DEF Dispatch
  <2>5. CASE \E r \in recs, phase \in Phases, card \in Cards :
               calls' = [calls EXCEPT ![c].rec = r, ![c].phase = phase, ![c].card = card]
    <3>1. PICK r \in recs, phase \in Phases, card \in Cards :
            calls' = [calls EXCEPT ![c].rec = r, ![c].phase = phase, ![c].card = card]
      BY <2>5
    <3> HIDE DEF recs
    <3> QED BY <3>1, <2>2
  <2> QED BY <2>1, <2>4, <2>5
<1>5. HistoryTyped
  BY <1>1, <1>4 DEF HistoryTyped, TypeOK
<1> QED BY <1>1, <1>2, <1>5, TypesCombine

LEMMA ResolveTyped ==
  ASSUME TypeOK, Dated, NEW c \in DOMAIN calls, Resolve(c)
  PROVE  TypeOK' /\ Dated'
<1>1. now' \in Nat /\ Dated' /\ StoreTyped /\ BookTyped /\ yes' = yes
  BY DatedKept DEF Resolve, TypeOK, StoreTyped, BookTyped, PendingRecords, store, book
<1> DEFINE card == Card(calls[c].rec.op, calls[c].rec.session)
<1>2. PICK pin \in SUBSET Addrs :
        calls' = [calls EXCEPT ![c].phase = "deciding", ![c].pin = pin, ![c].card = card]
  BY DEF Resolve
<1>3. card \in Cards
  BY CardTyped
<1> HIDE DEF card
<1>4. [calls[c] EXCEPT !.phase = "deciding", !.pin = pin, !.card = card] \in CallRecords
  <2>1. calls[c] \in CallRecords
    BY CallFields
  <2> QED BY <1>3, <2>1 DEF CallRecords
<1>5. calls' = [calls EXCEPT ![c] = [calls[c] EXCEPT !.phase = "deciding", !.pin = pin, !.card = card]]
  BY <1>2 DEF TypeOK
<1>6. HistoryTyped
  BY <1>1, <1>4, <1>5, CallMoved DEF HistoryTyped, TypeOK
<1> QED BY <1>1, <1>6, TypesCombine

LEMMA RefuseTyped ==
  ASSUME TypeOK, Dated, NEW c \in DOMAIN calls, Refuse(c)
  PROVE  TypeOK' /\ Dated'
<1>1. now' \in Nat /\ Dated' /\ StoreTyped /\ yes' = yes
  BY DatedKept DEF Refuse, TypeOK, StoreTyped, store
<1>2. BookTyped
  BY ReleaseAskKept DEF Refuse, BookTyped, TypeOK
<1>3. HistoryTyped
  BY <1>1, PhaseMoved DEF Refuse, HistoryTyped, TypeOK, Phases
<1> QED BY <1>1, <1>2, <1>3, TypesCombine

LEMMA OperatorAllowsTyped ==
  ASSUME TypeOK, Dated, NEW c \in DOMAIN calls, NEW pick, NEW runtime \in BOOLEAN, NEW shown \in BOOLEAN,
         OperatorAllows(c, pick, runtime, shown)
  PROVE  TypeOK' /\ Dated'
<1> DEFINE r    == calls[c].rec
           rows == MintedRows(c, pick, runtime, shown)
           entry == [grantedAt |-> now, expiresAt |-> now + CacheTtlFor(r.op),
                     target |-> CanonicalTarget(r.op.target)]
<1>1. /\ r # NoRec /\ pick \in PatternOffers(r.op, Egress) \cup {NoPattern}
      /\ now' = now /\ now \in Nat
      /\ grants' = grants \o rows
      /\ secrets' = secrets \cup NewSecrets(r)
  BY DEF OperatorAllows, TypeOK
<1>2. r \in AskRecords
  BY <1>1, CallFields
<1>3. rows \in Seq(GrantRows) /\ \A i \in 1..Len(rows) : rows[i].createdAt = now /\ rows[i].revokedAt = 0
  BY <1>1, MintedAreRows
<1>4. grants' \in Seq(GrantRows) /\ Dated'
  <2> HIDE DEF rows
  <2>1. /\ grants' \in Seq(GrantRows)
        /\ \A i \in DOMAIN grants' :
             IF i <= Len(grants) THEN i \in DOMAIN grants /\ grants'[i] = grants[i]
             ELSE i - Len(grants) \in 1..Len(rows) /\ grants'[i] = rows[i - Len(grants)]
    BY <1>1, <1>3, ConcatProperties DEF TypeOK
  <2> QED BY <1>1, <1>3, <2>1 DEF Dated
<1>5. cache' \in [FPs -> CacheEntries \cup {NoEntry}]
  <2>1. cache' = cache \/ cache' = [cache EXCEPT ![r.fp] = entry]
    BY DEF OperatorAllows
  <2>2. CacheTtlFor(r.op) \in Nat
    BY TermsAssumption DEF CacheTtlFor
  <2>3. entry \in CacheEntries
    BY <1>1, <1>2, <2>2, AskFields DEF CacheEntries
  <2> HIDE DEF entry, r
  <2> QED BY <2>1, <2>3 DEF TypeOK
<1>6. secrets' \subseteq SecretRows
  <2>1. \A ref \in r.op.refs : ref \in Secrets
    BY <1>2, AskFields, OpsAssumption
  <2>2. now + SecretTtl \in Nat
    BY <1>1, TermsAssumption
  <2>3. NewSecrets(r) \subseteq SecretRows
    BY <1>1, <1>2, <2>1, <2>2, AskFields DEF NewSecrets, SecretRows
  <2> QED BY <1>1, <2>3 DEF TypeOK
<1>7. StoreTyped
  BY <1>4, <1>5, <1>6 DEF StoreTyped
<1>8. BookTyped
  BY ReleaseAskKept DEF OperatorAllows, BookTyped, TypeOK
<1>9. HistoryTyped
  <2>1. calls' \in Seq(CallRecords)
    BY PhaseMoved DEF OperatorAllows, Phases
  <2>2. [fp |-> Fingerprint(calls[c].op), session |-> calls[c].session] \in [fp : FPs, session : Sessions]
    BY CallFields DEF FPs
  <2> QED BY <2>1, <2>2 DEF OperatorAllows, HistoryTyped, TypeOK
<1> QED BY <1>1, <1>4, <1>7, <1>8, <1>9, TypesCombine

LEMMA OperatorAllowsUnrecordedTyped ==
  ASSUME TypeOK, Dated, NEW c \in DOMAIN calls, OperatorAllowsUnrecorded(c)
  PROVE  TypeOK' /\ Dated'
<1>1. now' \in Nat /\ Dated' /\ StoreTyped /\ BookTyped
  BY DatedKept DEF OperatorAllowsUnrecorded, TypeOK, StoreTyped, BookTyped, PendingRecords, store, book
<1>2. calls' \in Seq(CallRecords)
  BY PhaseMoved DEF OperatorAllowsUnrecorded, Phases
<1>3. [fp |-> Fingerprint(calls[c].op), session |-> calls[c].session] \in [fp : FPs, session : Sessions]
  BY CallFields DEF FPs
<1>4. HistoryTyped
  BY <1>2, <1>3 DEF OperatorAllowsUnrecorded, HistoryTyped, TypeOK
<1> QED BY <1>1, <1>4, TypesCombine

LEMMA WatchAllowsTyped ==
  ASSUME TypeOK, Dated, NEW c \in DOMAIN calls, WatchAllows(c),
         calls[c].card.kind = "params-edge" => calls[c].card.row \in DOMAIN grants
  PROVE  TypeOK' /\ Dated'
<1> DEFINE row == calls[c].card.row
<1>1. now' = now /\ now \in Nat /\ UNCHANGED <<secrets, cache, yes>> /\ row \in DOMAIN grants /\ row \in Nat
  BY DEF WatchAllows, TypeOK
<1>2. \/ grants' = Consumed(row) /\ calls' = [calls EXCEPT ![c].phase = "ran", ![c].basis = row]
      \/ UNCHANGED grants /\ calls' = [calls EXCEPT ![c].phase = "refused"]
  BY DEF WatchAllows
<1> HIDE DEF row
<1>3. grants' \in Seq(GrantRows) /\ Dated'
  <2>1. CASE grants' = Consumed(row)
    BY <1>1, <2>1, ConsumedKept DEF Dated
  <2>2. CASE UNCHANGED grants
    BY <1>1, <2>2, DatedKept DEF TypeOK
  <2> QED BY <1>2, <2>1, <2>2
<1>4. calls' \in Seq(CallRecords)
  <2>1. CASE calls' = [calls EXCEPT ![c].phase = "ran", ![c].basis = row]
    <3>1. [calls[c] EXCEPT !.phase = "ran", !.basis = row] \in CallRecords
      <4>1. calls[c] \in CallRecords
        BY CallFields
      <4> QED BY <1>1, <4>1 DEF CallRecords
    <3>2. calls' = [calls EXCEPT ![c] = [calls[c] EXCEPT !.phase = "ran", !.basis = row]]
      BY <2>1 DEF TypeOK
    <3> QED BY <3>1, <3>2, CallMoved
  <2>2. CASE calls' = [calls EXCEPT ![c].phase = "refused"]
    BY <2>2, PhaseMoved DEF Phases
  <2> QED BY <1>2, <2>1, <2>2
<1>5. StoreTyped
  BY <1>1, <1>3 DEF StoreTyped, TypeOK
<1>6. BookTyped
  BY ReleaseAskKept DEF WatchAllows, BookTyped, TypeOK
<1>7. HistoryTyped
  BY <1>1, <1>4 DEF HistoryTyped, TypeOK
<1> QED BY <1>1, <1>3, <1>5, <1>6, <1>7, TypesCombine

LEMMA CommandTyped ==
  ASSUME TypeOK, Dated, NEW rows \in Seq(GrantRows),
         \A i \in 1..Len(rows) : rows[i].createdAt = now /\ rows[i].revokedAt = 0,
         grants' = grants \o rows,
         UNCHANGED <<now, secrets, cache, pending, flood, asks, calls, yes>>
  PROVE  TypeOK' /\ Dated'
<1>1. /\ grants' \in Seq(GrantRows)
      /\ \A i \in DOMAIN grants' :
           IF i <= Len(grants) THEN i \in DOMAIN grants /\ grants'[i] = grants[i]
           ELSE i - Len(grants) \in 1..Len(rows) /\ grants'[i] = rows[i - Len(grants)]
  BY ConcatProperties DEF TypeOK
<1>2. Dated'
  <2>1. now \in Nat /\ now' = now
    BY DEF TypeOK
  <2>2. SUFFICES ASSUME NEW i \in DOMAIN grants'
                 PROVE  grants'[i].createdAt <= now' /\ grants'[i].revokedAt <= now'
    BY DEF Dated
  <2>3. CASE i <= Len(grants)
    BY <1>1, <2>1, <2>2, <2>3 DEF Dated
  <2>4. CASE ~(i <= Len(grants))
    <3>1. grants'[i].createdAt = now /\ grants'[i].revokedAt = 0
      BY <1>1, <2>2, <2>4
    <3> QED BY <2>1, <3>1
  <2> QED BY <2>3, <2>4
<1>3. StoreTyped /\ BookTyped /\ HistoryTyped /\ now' \in Nat
  BY <1>1 DEF TypeOK, StoreTyped, BookTyped, HistoryTyped, PendingRecords
<1> QED BY <1>2, <1>3, TypesCombine

LEMMA GrantsGrantTyped ==
  ASSUME TypeOK, Dated, NEW s \in Sessions, NEW d \in DeskGrants, GrantsGrant(s, d)
  PROVE  TypeOK' /\ Dated'
<1> DEFINE root == IF d.runtime THEN None ELSE RootOf[s]
           session == IF d.runtime THEN None ELSE s
           row == SessionGrant(d.pattern, root, session, d.class, d.ttl, d.maxUses, {})
           leg == SessionGrant(DeskLeg(d.pattern), root, session, d.class, d.ttl, 0, {})
           url == d.pattern.kind = "UrlPrefix"
           rows == IF Egress = "proxy" /\ url THEN <<row, leg>> ELSE <<row>>
           Fresh(g) == g.createdAt = now /\ g.revokedAt = 0
<1>1. root \in Sessions \cup {None} /\ session \in Sessions \cup {None} /\ now \in Nat
      /\ d.ttl \in Nat /\ d.maxUses \in Nat /\ d.class \in {"read", "write", None}
  BY ScopesAssumption, DeskAssumption DEF TypeOK
<1>2. d.pattern \in Patterns /\ (url => DeskLeg(d.pattern) \in Patterns)
  <2>1. d.pattern \in DeskPatterns /\ (url => DeskLeg(d.pattern) \in DeskPatterns)
    BY DEF DeskPatterns
  <2> QED BY <2>1 DEF Patterns
<1>3. Fresh(row) /\ Fresh(leg)
  BY DEF SessionGrant
<1>4. row \in GrantRows
  <2> HIDE DEF root, session
  <2> QED BY <1>1, <1>2, SessionGrantIsARow
<1>5. url => leg \in GrantRows
  <2> HIDE DEF root, session
  <2> QED BY <1>1, <1>2, SessionGrantIsARow
<1>6. grants' = grants \o rows
  BY DEF GrantsGrant
<1>7. UNCHANGED <<now, secrets, cache, pending, flood, asks, calls, yes>>
  BY DEF GrantsGrant, book
<1>8. rows \in Seq(GrantRows) /\ \A i \in 1..Len(rows) : rows[i].createdAt = now /\ rows[i].revokedAt = 0
  <2> HIDE DEF row, leg
  <2> QED BY <1>3, <1>4, <1>5
<1> HIDE DEF rows
<1> QED BY <1>6, <1>7, <1>8, CommandTyped

LEMMA GrantPlanTyped ==
  ASSUME TypeOK, Dated, NEW p \in PlanPatterns, GrantPlan(p)
  PROVE  TypeOK' /\ Dated'
<1> DEFINE g   == SessionGrant(p, None, None, None, 0, 0, {})
           row == [g EXCEPT !.layer = "plan", !.expiresAt = 0]
<1>1. g \in GrantRows
  <2>1. p \in Patterns /\ now \in Nat
    BY DEF Patterns, TypeOK
  <2> QED BY <2>1, SessionGrantIsARow
<1>2. row \in GrantRows /\ row.createdAt = now /\ row.revokedAt = 0
  <2>1. g.createdAt = now /\ g.revokedAt = 0
    BY DEF SessionGrant
  <2> HIDE DEF g
  <2> QED BY <1>1, <2>1 DEF GrantRows
<1>3. grants' = grants \o <<row>> /\ UNCHANGED <<now, secrets, cache, pending, flood, asks, calls, yes>>
  BY DEF GrantPlan, TypeOK, book
<1> HIDE DEF row
<1>4. <<row>> \in Seq(GrantRows) /\ \A i \in 1..Len(<<row>>) : <<row>>[i].createdAt = now /\ <<row>>[i].revokedAt = 0
  BY <1>2
<1> QED BY <1>3, <1>4, CommandTyped

(* Revoking a row dates its revocation and changes no other row. *)
LEMMA RevokedKept ==
  ASSUME TypeOK, NEW i \in DOMAIN grants
  PROVE  LET rows == [grants EXCEPT ![i].revokedAt = IF @ = 0 THEN now ELSE @] IN
         /\ rows \in Seq(GrantRows)
         /\ DOMAIN rows = DOMAIN grants
         /\ \A j \in DOMAIN grants :
              /\ rows[j].createdAt = grants[j].createdAt
              /\ rows[j].maxUses = grants[j].maxUses
              /\ rows[j].uses = grants[j].uses
              /\ rows[j].pattern = grants[j].pattern
              /\ rows[j].revokedAt = IF i = j /\ grants[i].revokedAt = 0 THEN now ELSE grants[j].revokedAt
<1> DEFINE n   == IF grants[i].revokedAt = 0 THEN now ELSE grants[i].revokedAt
           row == [grants[i] EXCEPT !.revokedAt = n]
           rows == [grants EXCEPT ![i].revokedAt = IF @ = 0 THEN now ELSE @]
<1>1. grants[i] \in GrantRows /\ i \in 1..Len(grants) /\ grants \in Seq(GrantRows)
  BY DEF TypeOK
<1>2. n \in Nat
  BY <1>1, RowFields DEF TypeOK
<1>3. /\ row \in GrantRows /\ row.revokedAt = n
      /\ row.createdAt = grants[i].createdAt /\ row.uses = grants[i].uses
      /\ row.maxUses = grants[i].maxUses /\ row.pattern = grants[i].pattern
  <2> HIDE DEF n
  <2> QED BY <1>1, <1>2, RowEdited
<1>4. rows = [grants EXCEPT ![i] = row]
  BY <1>1
<1>5. [grants EXCEPT ![i] = row] \in Seq(GrantRows)
  BY <1>1, <1>3, ExceptSeq
<1> HIDE DEF row
<1> QED BY <1>1, <1>3, <1>4, <1>5

LEMMA RevokeGrantTyped ==
  ASSUME TypeOK, Dated, NEW i \in DOMAIN grants, RevokeGrant(i)
  PROVE  TypeOK' /\ Dated'
<1> DEFINE rows == [grants EXCEPT ![i].revokedAt = IF @ = 0 THEN now ELSE @]
<1>1. /\ grants' = rows /\ cache' = WithoutEntries(KilledBy(grants[i].pattern))
      /\ UNCHANGED <<now, secrets, pending, flood, asks, calls, yes>>
  BY DEF RevokeGrant, book
<1>2. /\ rows \in Seq(GrantRows) /\ DOMAIN rows = DOMAIN grants
      /\ \A j \in DOMAIN grants :
           /\ rows[j].createdAt = grants[j].createdAt
           /\ rows[j].revokedAt \in {now, grants[j].revokedAt}
  BY RevokedKept
<1> HIDE DEF rows
<1>3. Dated'
  <2>1. ASSUME NEW j \in DOMAIN grants'
        PROVE  grants'[j].createdAt <= now' /\ grants'[j].revokedAt <= now'
    <3>1. j \in DOMAIN grants /\ now' = now /\ now \in Nat
      BY <1>1, <1>2, <2>1 DEF TypeOK
    <3>2. grants[j].createdAt <= now /\ grants[j].revokedAt <= now
      BY <3>1 DEF Dated
    <3> QED BY <1>1, <1>2, <3>1, <3>2
  <2> QED BY <2>1 DEF Dated
<1>4. StoreTyped
  BY <1>1, <1>2, CacheKept DEF StoreTyped, TypeOK
<1>5. BookTyped /\ HistoryTyped /\ now' \in Nat
  BY <1>1 DEF TypeOK, BookTyped, HistoryTyped, PendingRecords
<1> QED BY <1>3, <1>4, <1>5, TypesCombine

LEMMA RevokeSecretTyped ==
  ASSUME TypeOK, Dated, NEW g \in secrets, RevokeSecret(g)
  PROVE  TypeOK' /\ Dated'
<1>1. /\ secrets' = (secrets \ {g}) \cup {[g EXCEPT !.revokedAt = now]}
      /\ cache' = WithoutEntries(ReplayOf(g))
      /\ UNCHANGED <<now, grants, pending, flood, asks, calls, yes>>
  BY DEF RevokeSecret, book
<1>2. [g EXCEPT !.revokedAt = now] \in SecretRows
  <2>1. g \in SecretRows /\ now \in Nat
    BY DEF TypeOK
  <2> QED BY <2>1 DEF SecretRows
<1>3. StoreTyped
  BY <1>1, <1>2, CacheKept DEF StoreTyped, TypeOK
<1>4. BookTyped /\ HistoryTyped /\ now' \in Nat
  BY <1>1 DEF TypeOK, BookTyped, HistoryTyped, PendingRecords
<1>5. Dated'
  BY <1>1, <1>4, DatedKept DEF TypeOK
<1> QED BY <1>3, <1>4, <1>5, TypesCombine

LEMMA WireRefusalTyped ==
  ASSUME TypeOK, Dated, NEW host, NEW port, NEW rule, WireRefusal(host, port, rule)
  PROVE  TypeOK' /\ Dated'
<1>1. /\ UNCHANGED <<now, grants, secrets, pending, flood, asks, calls, yes>>
      /\ cache' = cache \/ \E S : cache' = WithoutEntries(S)
  BY DEF WireRefusal, book
<1>2. StoreTyped
  BY <1>1, CacheKept DEF StoreTyped, TypeOK
<1>3. BookTyped /\ HistoryTyped /\ now' \in Nat
  BY <1>1 DEF TypeOK, BookTyped, HistoryTyped, PendingRecords
<1>4. Dated'
  BY <1>1, <1>3, DatedKept DEF TypeOK
<1> QED BY <1>2, <1>3, <1>4, TypesCombine

LEMMA TickTyped ==
  ASSUME TypeOK, Dated, Tick
  PROVE  TypeOK' /\ Dated'
<1>1. now' = now + 1 /\ UNCHANGED <<grants, secrets, cache, pending, flood, asks, calls, yes>>
  BY DEF Tick, store, book
<1>2. StoreTyped /\ BookTyped /\ HistoryTyped /\ now' \in Nat /\ now' >= now
  BY <1>1 DEF TypeOK, StoreTyped, BookTyped, HistoryTyped, PendingRecords
<1>3. Dated'
  BY <1>1, <1>2, DatedKept
<1> QED BY <1>2, <1>3, TypesCombine

LEMMA RestartTyped ==
  ASSUME TypeOK, Dated, Restart
  PROVE  TypeOK' /\ Dated'
<1>1. UNCHANGED <<now, grants, secrets, cache, yes>> /\ now' \in Nat /\ now' >= now
  BY DEF Restart, store, TypeOK
<1>2. StoreTyped
  BY <1>1 DEF StoreTyped, TypeOK
<1>3. BookTyped
  BY DEF Restart, BookTyped, PendingRecords
<1>4. HistoryTyped
  <2> DEFINE lost(c) == IF c \in Outstanding THEN [calls[c] EXCEPT !.phase = "lost"] ELSE calls[c]
  <2>1. \A c \in DOMAIN calls : lost(c) \in CallRecords
    <3>1. ASSUME NEW c \in DOMAIN calls
          PROVE  [calls[c] EXCEPT !.phase = "lost"] \in CallRecords
      <4>1. calls[c] \in CallRecords
        BY CallFields
      <4> QED BY <4>1 DEF CallRecords
    <3> QED BY <3>1, CallFields
  <2>2. calls' = [c \in DOMAIN calls |-> lost(c)]
    BY DEF Restart
  <2>3. DOMAIN calls = 1..Len(calls) /\ Len(calls) \in Nat
    BY DEF TypeOK
  <2> HIDE DEF lost
  <2>4. calls' \in Seq(CallRecords)
    BY <2>1, <2>2, <2>3
  <2> QED BY <1>1, <2>4 DEF HistoryTyped, TypeOK
<1>5. Dated'
  BY <1>1, DatedKept
<1> QED BY <1>1, <1>2, <1>3, <1>4, <1>5, TypesCombine

-----------------------------------------------------------------------------
(* What a step does to the rows' accounts and to the calls' bases: either  *)
(* nobody pays, or one call is given one unspent row.                      *)

Waiting == {"asked", "resolving", "deciding"}

CardsNameRows ==
  \A c \in DOMAIN calls :
    calls[c].card.kind = "params-edge" => calls[c].card.row \in DOMAIN grants
BasesNameRows ==
  \A c \in DOMAIN calls :
    /\ calls[c].basis \in {0} \cup DOMAIN grants
    /\ calls[c].phase \in Waiting => calls[c].basis = 0

GateInv == TypeOK /\ Dated /\ CardsNameRows /\ BasesNameRows

SameBases ==
  /\ DOMAIN calls \subseteq DOMAIN calls'
  /\ \A c \in DOMAIN calls' : calls'[c].basis = IF c \in DOMAIN calls THEN calls[c].basis ELSE 0

SameRows ==
  /\ DOMAIN grants \subseteq DOMAIN grants'
  /\ \A i \in DOMAIN grants :
       grants'[i].uses = grants[i].uses /\ grants'[i].maxUses = grants[i].maxUses
  /\ \A i \in DOMAIN grants' \ DOMAIN grants : grants'[i].uses = 0

Paid(i, c) ==
  /\ i \in DOMAIN grants /\ Unspent(grants[i]) /\ grants' = Consumed(i)
  /\ c \in DOMAIN calls => calls[c].basis = 0
  /\ DOMAIN calls' = DOMAIN calls \cup {c}
  /\ \A d \in DOMAIN calls' : calls'[d].basis = IF d = c THEN i ELSE calls[d].basis

(* Waiting calls stay unpaid and cards keep naming rows. *)
CallsMove ==
  \A c \in DOMAIN calls' :
    /\ calls'[c].phase \in Waiting =>
         IF c \in DOMAIN calls THEN calls[c].phase \in Waiting /\ calls'[c].basis = calls[c].basis
         ELSE calls'[c].basis = 0
    /\ calls'[c].card.kind = "params-edge" =>
         \/ c \in DOMAIN calls /\ calls'[c].card = calls[c].card
         \/ calls'[c].card.row \in DOMAIN grants

(* A call that only changes phase leaves every account alone. *)
LEMMA PhaseKeeps ==
  ASSUME TypeOK, NEW c \in DOMAIN calls, NEW phase,
         calls' = [calls EXCEPT ![c].phase = phase],
         phase \in Waiting => calls[c].phase \in Waiting
  PROVE  SameBases /\ CallsMove
<1>1. \A d \in DOMAIN calls : calls[d] \in CallRecords
  BY CallFields
<1>2. [calls[c] EXCEPT !.phase = phase].basis = calls[c].basis
      /\ [calls[c] EXCEPT !.phase = phase].card = calls[c].card
      /\ [calls[c] EXCEPT !.phase = phase].phase = phase
  BY <1>1 DEF CallRecords
<1>3. /\ DOMAIN calls' = DOMAIN calls
      /\ \A d \in DOMAIN calls : calls'[d] = IF d = c THEN [calls[c] EXCEPT !.phase = phase] ELSE calls[d]
  BY DEF TypeOK
<1> QED BY <1>2, <1>3 DEF SameBases, CallsMove

(* A new call. *)
LEMMA SeenKeeps ==
  ASSUME TypeOK, NEW s \in Sessions, NEW o \in Ops, NEW phase \in Phases, NEW basis \in Nat,
         calls' = Append(calls, Call(s, o, phase, basis)),
         phase \in Waiting => basis = 0
  PROVE  /\ CallsMove
         /\ basis = 0 => SameBases
         /\ DOMAIN calls' = DOMAIN calls \cup {Len(calls) + 1}
         /\ Len(calls) + 1 \notin DOMAIN calls
         /\ \A d \in DOMAIN calls' :
              calls'[d].basis = IF d = Len(calls) + 1 THEN basis ELSE calls[d].basis
<1> DEFINE new == Call(s, o, phase, basis)
<1>1. new.phase = phase /\ new.basis = basis /\ new.card = NoCard
  BY DEF Call
<1>2. /\ DOMAIN calls' = DOMAIN calls \cup {Len(calls) + 1}
      /\ Len(calls) + 1 \notin DOMAIN calls
      /\ \A d \in DOMAIN calls' : calls'[d] = IF d = Len(calls) + 1 THEN new ELSE calls[d]
  <2>1. new \in CallRecords /\ calls \in Seq(CallRecords) /\ calls' = Append(calls, new)
    BY CallSeen DEF TypeOK
  <2> HIDE DEF new
  <2> QED BY <2>1, AppendProperties
<1>3. NoCard.kind # "params-edge"
  BY DEF NoCard
<1> HIDE DEF new
<1> QED BY <1>1, <1>2, <1>3 DEF SameBases, CallsMove

Accounted == CallsMove /\ ((SameBases /\ SameRows) \/ (\E i \in DOMAIN grants : \E c : Paid(i, c)))

LEMMA GateAccounts ==
  ASSUME GateInv, NEW s \in Sessions, NEW o \in Ops, Gate(s, o)
  PROVE  Accounted
<1>1. CASE GateTargetless(s, o)
  <2>1. PICK phase \in {"ran", "asked"} : calls' = Append(calls, Call(s, o, phase, 0))
    BY <1>1 DEF GateTargetless, Ran, Asked
  <2>2. SameRows
    BY <1>1 DEF GateTargetless, SameRows
  <2> QED BY <2>1, <2>2, SeenKeeps DEF Accounted, GateInv, Phases
<1>2. CASE GateTarget(s, o)
  <2> DEFINE plan == Covering(o, "plan")
             sess == { i \in Covering(o, "session") : ScopeOk(grants[i], s) }
             row  == FirstOf(IF plan # {} THEN plan ELSE sess)
  <2>1. \/ UNCHANGED grants /\ \E phase \in {"ran", "asked", "refused"} : calls' = Append(calls, Call(s, o, phase, 0))
        \/ plan \cup sess # {} /\ grants' = Consumed(row) /\ calls' = Append(calls, Call(s, o, "ran", row))
    BY <1>2 DEF GateTarget, Ran, Asked
  <2>2. CASE UNCHANGED grants /\ \E phase \in {"ran", "asked", "refused"} : calls' = Append(calls, Call(s, o, phase, 0))
    <3>1. SameRows
      BY <2>2 DEF SameRows
    <3> QED BY <2>2, <3>1, SeenKeeps DEF Accounted, GateInv, Phases
  <2>3. CASE plan \cup sess # {} /\ grants' = Consumed(row) /\ calls' = Append(calls, Call(s, o, "ran", row))
    <3>1. row \in DOMAIN grants /\ Unspent(grants[row])
      BY <2>3, CoveringRow DEF GateInv
    <3> HIDE DEF row, plan, sess
    <3>2. CallsMove /\ Paid(row, Len(calls) + 1)
      <4>1. "ran" \notin Waiting
        BY DEF Waiting
      <4>2. "ran" \in Phases /\ row \in Nat
        BY <3>1 DEF Phases, GateInv, TypeOK
      <4>3. /\ CallsMove
            /\ DOMAIN calls' = DOMAIN calls \cup {Len(calls) + 1}
            /\ Len(calls) + 1 \notin DOMAIN calls
            /\ \A d \in DOMAIN calls' :
                 calls'[d].basis = IF d = Len(calls) + 1 THEN row ELSE calls[d].basis
        BY <2>3, <4>1, <4>2, SeenKeeps DEF GateInv
      <4> QED BY <2>3, <3>1, <4>3 DEF Paid
    <3> QED BY <3>1, <3>2 DEF Accounted
  <2> QED BY <2>1, <2>2, <2>3
<1> QED BY <1>1, <1>2 DEF Gate

(* Dispatch and Resolve rewrite a waiting call's record, card and pin. *)
LEMMA WaitingRewritten ==
  ASSUME GateInv, NEW c \in DOMAIN calls, calls[c].phase \in Waiting, UNCHANGED grants,
         NEW d \in CallRecords, calls' = [calls EXCEPT ![c] = d],
         d.basis = calls[c].basis,
         d.card.kind = "params-edge" => d.card.row \in DOMAIN grants
  PROVE  Accounted
<1>1. /\ DOMAIN calls' = DOMAIN calls
      /\ \A e \in DOMAIN calls : calls'[e] = IF e = c THEN d ELSE calls[e]
  BY DEF GateInv, TypeOK
<1>2. SameRows
  BY DEF SameRows
<1> QED BY <1>1, <1>2 DEF Accounted, SameBases, CallsMove

LEMMA DispatchAccounts ==
  ASSUME GateInv, NEW c \in DOMAIN calls, NEW withId \in DispatchIds, Dispatch(c, withId)
  PROVE  Accounted
<1> DEFINE recs == Claimed(calls[c].session, calls[c].op.tool, c, withId)
<1>1. TypeOK /\ Dated /\ UNCHANGED grants /\ calls[c].phase = "asked" /\ calls[c] \in CallRecords
  <2>1. TypeOK /\ Dated
    BY DEF GateInv
  <2> QED BY <2>1, CallFields DEF Dispatch, store
<1>2. CASE calls' = [calls EXCEPT ![c].phase = "deciding"]
  <2>1. SameRows
    BY <1>1 DEF SameRows
  <2> QED BY <1>1, <1>2, <2>1, PhaseKeeps DEF Accounted, Waiting
<1>3. ASSUME NEW r \in recs,
             calls' = [calls EXCEPT ![c].rec   = r,
                                    ![c].phase = IF PinApplies(r.op) THEN "resolving" ELSE "deciding",
                                    ![c].card  = IF PinApplies(r.op) THEN NoCard ELSE Card(r.op, r.session)]
      PROVE  Accounted
  <2> DEFINE phase == IF PinApplies(r.op) THEN "resolving" ELSE "deciding"
             card  == IF PinApplies(r.op) THEN NoCard ELSE Card(r.op, r.session)
             d     == [calls[c] EXCEPT !.rec = r, !.phase = phase, !.card = card]
  <2>1. card \in Cards /\ (card.kind = "params-edge" => card.row \in DOMAIN grants)
    <3>1. CASE PinApplies(r.op)
      BY <3>1 DEF Cards, NoCard
    <3>2. CASE ~PinApplies(r.op)
      BY <1>1, <3>2, CardTyped
    <3> QED BY <3>1, <3>2
  <2>2. phase \in Phases /\ r \in AskRecords
    BY <1>1 DEF Phases, Claimed, Queue, StaleAsks, TypeOK
  <2>3. calls' = [calls EXCEPT ![c].rec = r, ![c].phase = phase, ![c].card = card]
    BY <1>3
  <2> HIDE DEF phase, card
  <2>4. d \in CallRecords /\ d.basis = calls[c].basis /\ d.card = card
    BY <1>1, <2>1, <2>2 DEF CallRecords, Phases
  <2>5. calls' = [calls EXCEPT ![c] = d]
    BY <1>1, <2>3 DEF TypeOK
  <2> HIDE DEF d
  <2> QED BY <1>1, <2>1, <2>4, <2>5, WaitingRewritten DEF Waiting
<1>4. \/ calls' = [calls EXCEPT ![c].phase = "deciding"]
      \/ \E r \in recs :
           calls' = [calls EXCEPT ![c].rec   = r,
                                  ![c].phase = IF PinApplies(r.op) THEN "resolving" ELSE "deciding",
                                  ![c].card  = IF PinApplies(r.op) THEN NoCard ELSE Card(r.op, r.session)]
  BY DEF Dispatch
<1> HIDE DEF recs
<1> QED BY <1>2, <1>3, <1>4

LEMMA ResolveAccounts ==
  ASSUME GateInv, NEW c \in DOMAIN calls, Resolve(c)
  PROVE  Accounted
<1> DEFINE card == Card(calls[c].rec.op, calls[c].rec.session)
<1>1. TypeOK /\ Dated /\ UNCHANGED grants /\ calls[c].phase = "resolving" /\ calls[c] \in CallRecords
  <2>1. TypeOK /\ Dated
    BY DEF GateInv
  <2> QED BY <2>1, CallFields DEF Resolve, store
<1>2. PICK pin \in SUBSET Addrs :
        calls' = [calls EXCEPT ![c].phase = "deciding", ![c].pin = pin, ![c].card = card]
  BY DEF Resolve
<1> DEFINE d == [calls[c] EXCEPT !.phase = "deciding", !.pin = pin, !.card = card]
<1>3. card \in Cards /\ (card.kind = "params-edge" => card.row \in DOMAIN grants)
  BY <1>1, CardTyped
<1> HIDE DEF card
<1>4. d \in CallRecords /\ d.basis = calls[c].basis /\ d.card = card
  BY <1>1, <1>3 DEF CallRecords
<1>5. calls' = [calls EXCEPT ![c] = d]
  BY <1>1, <1>2 DEF TypeOK
<1> HIDE DEF d
<1> QED BY <1>1, <1>3, <1>4, <1>5, WaitingRewritten DEF Waiting

(* Rows appended to the grants are unused. *)
LEMMA AppendedRows ==
  ASSUME TypeOK, NEW rows \in Seq(GrantRows), \A i \in 1..Len(rows) : rows[i].uses = 0,
         grants' = grants \o rows
  PROVE  SameRows
<1>1. /\ DOMAIN grants \subseteq DOMAIN grants'
      /\ \A i \in DOMAIN grants : grants'[i] = grants[i]
      /\ \A i \in DOMAIN grants' \ DOMAIN grants :
           i - Len(grants) \in 1..Len(rows) /\ grants'[i] = rows[i - Len(grants)]
  BY ConcatProperties DEF TypeOK
<1> QED BY <1>1 DEF SameRows

LEMMA DecideAccounts ==
  ASSUME GateInv, NEW c \in DOMAIN calls, Decide(c)
  PROVE  Accounted
<1>1. TypeOK
  BY DEF GateInv
<1>2. CASE Refuse(c)
  <2>1. SameRows /\ calls' = [calls EXCEPT ![c].phase = "refused"]
    BY <1>2 DEF Refuse, SameRows, store
  <2> QED BY <1>1, <2>1, PhaseKeeps DEF Accounted, Waiting
<1>3. CASE OperatorAllowsUnrecorded(c)
  <2>1. SameRows /\ calls' = [calls EXCEPT ![c].phase = "ran"]
    BY <1>3 DEF OperatorAllowsUnrecorded, SameRows, store
  <2> QED BY <1>1, <2>1, PhaseKeeps DEF Accounted, Waiting
<1>4. ASSUME NEW pick, NEW runtime \in BOOLEAN, NEW shown \in BOOLEAN,
             OperatorAllows(c, pick, runtime, shown)
      PROVE  Accounted
  <2> DEFINE rows == MintedRows(c, pick, runtime, shown)
  <2>1. /\ calls[c].rec # NoRec /\ pick \in PatternOffers(calls[c].rec.op, Egress) \cup {NoPattern}
        /\ calls' = [calls EXCEPT ![c].phase = "ran"] /\ grants' = grants \o rows
    BY <1>4 DEF OperatorAllows
  <2>2. rows \in Seq(GrantRows) /\ \A i \in 1..Len(rows) : rows[i].uses = 0
    BY <1>1, <2>1, MintedAreRows
  <2> HIDE DEF rows
  <2>3. SameRows
    BY <1>1, <2>1, <2>2, AppendedRows
  <2> QED BY <1>1, <2>1, <2>3, PhaseKeeps DEF Accounted, Waiting
<1>5. CASE WatchAllows(c)
  <2> DEFINE row == calls[c].card.row
  <2>1. row \in DOMAIN grants /\ calls[c].phase = "deciding" /\ calls[c].basis = 0
        /\ calls[c] \in CallRecords
    <3>1. calls[c].card.kind = "params-edge" /\ calls[c].phase = "deciding"
      BY <1>5 DEF WatchAllows
    <3> QED BY <1>1, <3>1, CallFields DEF GateInv, CardsNameRows, BasesNameRows, Waiting
  <2>2. CASE UNCHANGED grants /\ calls' = [calls EXCEPT ![c].phase = "refused"]
    <3>1. SameRows
      BY <2>2 DEF SameRows
    <3> QED BY <1>1, <2>2, <3>1, PhaseKeeps DEF Accounted, Waiting
  <2>3. CASE /\ Unspent(grants[row]) /\ grants' = Consumed(row)
             /\ calls' = [calls EXCEPT ![c].phase = "ran", ![c].basis = row]
    <3> DEFINE d == [calls[c] EXCEPT !.phase = "ran", !.basis = row]
    <3>1. d.phase = "ran" /\ d.basis = row /\ d.card = calls[c].card
      BY <2>1 DEF CallRecords
    <3>2. calls' = [calls EXCEPT ![c] = d]
      BY <1>1, <2>3 DEF TypeOK
    <3> HIDE DEF d
    <3>3. /\ DOMAIN calls' = DOMAIN calls
          /\ \A e \in DOMAIN calls : calls'[e] = IF e = c THEN d ELSE calls[e]
      BY <1>1, <3>2 DEF TypeOK
    <3>4. CallsMove
      BY <3>1, <3>3 DEF CallsMove, Waiting
    <3>5. Paid(row, c)
      BY <2>1, <2>3, <3>1, <3>3 DEF Paid
    <3> QED BY <2>1, <3>4, <3>5 DEF Accounted
  <2> QED BY <1>5, <2>2, <2>3 DEF WatchAllows, RowHolds
<1> QED BY <1>2, <1>3, <1>4, <1>5 DEF Decide

LEMMA CallsAlone ==
  ASSUME TypeOK, UNCHANGED calls
  PROVE  SameBases /\ CallsMove
BY DEF SameBases, CallsMove

LEMMA CommandAccounts ==
  ASSUME GateInv, NEW s \in Sessions, NEW d \in DeskGrants, GrantsGrant(s, d)
  PROVE  Accounted
<1> DEFINE root == IF d.runtime THEN None ELSE RootOf[s]
           session == IF d.runtime THEN None ELSE s
           row == SessionGrant(d.pattern, root, session, d.class, d.ttl, d.maxUses, {})
           leg == SessionGrant(DeskLeg(d.pattern), root, session, d.class, d.ttl, 0, {})
           rows == IF Egress = "proxy" /\ d.pattern.kind = "UrlPrefix" THEN <<row, leg>> ELSE <<row>>
<1>1. grants' = grants \o rows /\ UNCHANGED calls /\ TypeOK
  BY DEF GrantsGrant, GateInv
<1>2. row.uses = 0 /\ leg.uses = 0
  BY DEF SessionGrant
<1>3. /\ DOMAIN grants \subseteq DOMAIN grants'
      /\ \A i \in DOMAIN grants : grants'[i] = grants[i]
      /\ \A i \in DOMAIN grants' \ DOMAIN grants : grants'[i] \in {row, leg}
  <2>1. rows \in Seq({row, leg}) /\ grants \in Seq(GrantRows \cup {row, leg})
    <3>1. grants \in Seq(GrantRows)
      BY <1>1 DEF TypeOK
    <3> HIDE DEF row, leg
    <3>2. <<row>> \in Seq({row, leg}) /\ <<row, leg>> \in Seq({row, leg})
      OBVIOUS
    <3>3. rows \in Seq({row, leg})
      BY <3>2
    <3> HIDE DEF rows
    <3> QED BY <3>1, <3>3, SeqMonotonic
  <2>2. rows \in Seq(GrantRows \cup {row, leg})
    <3> HIDE DEF row, leg, rows
    <3> QED BY <2>1, SeqMonotonic
  <2> HIDE DEF row, leg, rows
  <2> QED BY <1>1, <2>1, <2>2, ConcatProperties
<1>4. SameRows
  <2> HIDE DEF row, leg, rows
  <2> QED BY <1>2, <1>3 DEF SameRows
<1> QED BY <1>1, <1>4, CallsAlone DEF Accounted

LEMMA NextAccounts ==
  ASSUME GateInv, Next
  PROVE  Accounted
<1>1. TypeOK
  BY DEF GateInv
<1>2. CASE \E s \in Sessions, o \in Ops : Gate(s, o)
  BY <1>2, GateAccounts
<1>3. ASSUME NEW c \in DOMAIN calls, PolicyAnswer(c) PROVE Accounted
  <2>1. SameRows /\ \E phase \in {"ran", "refused"} : calls' = [calls EXCEPT ![c].phase = phase]
    BY <1>3 DEF PolicyAnswer, SameRows, store
  <2> QED BY <1>1, <2>1, PhaseKeeps DEF Accounted, Waiting
<1>4. CASE \E c \in DOMAIN calls : Resolve(c) \/ Decide(c)
  BY <1>4, ResolveAccounts, DecideAccounts
<1>5. CASE \E c \in DOMAIN calls, withId \in DispatchIds : Dispatch(c, withId)
  BY <1>5, DispatchAccounts
<1>6. CASE \E s \in Sessions, d \in DeskGrants : GrantsGrant(s, d)
  BY <1>6, CommandAccounts
<1>7. ASSUME NEW p \in PlanPatterns, GrantPlan(p) PROVE Accounted
  <2> DEFINE row == [SessionGrant(p, None, None, None, 0, 0, {}) EXCEPT !.layer = "plan", !.expiresAt = 0]
  <2>1. grants' = Append(grants, row) /\ UNCHANGED calls
    BY <1>7 DEF GrantPlan
  <2>2. row.uses = 0
    BY DEF SessionGrant
  <2>3. grants \in Seq(GrantRows \cup {row})
    <3>1. grants \in Seq(GrantRows)
      BY <1>1 DEF TypeOK
    <3> HIDE DEF row
    <3> QED BY <3>1, SeqMonotonic
  <2> HIDE DEF row
  <2>4. SameRows
    BY <2>1, <2>2, <2>3, AppendProperties DEF SameRows
  <2> QED BY <1>1, <2>1, <2>4, CallsAlone DEF Accounted
<1>8. ASSUME NEW i \in DOMAIN grants, RevokeGrant(i) PROVE Accounted
  <2>1. SameRows /\ UNCHANGED calls
    BY <1>1, <1>8, RevokedKept DEF RevokeGrant, SameRows
  <2> QED BY <1>1, <2>1, CallsAlone DEF Accounted
<1>9. CASE \/ \E g \in secrets : RevokeSecret(g)
           \/ \E route \in Routes, rule \in Rules :
                WireRefusal(route.host, IF route.kind = "HostAndPort" THEN route.port ELSE "80", rule)
           \/ Tick
  <2>1. SameRows /\ UNCHANGED calls
    BY <1>9 DEF RevokeSecret, WireRefusal, Tick, SameRows, store
  <2> QED BY <1>1, <2>1, CallsAlone DEF Accounted
<1>10. CASE Restart
  <2>1. SameRows
    BY <1>10 DEF Restart, SameRows, store
  <2>2. /\ DOMAIN calls' = DOMAIN calls
        /\ \A c \in DOMAIN calls : calls'[c] = IF c \in Outstanding THEN [calls[c] EXCEPT !.phase = "lost"] ELSE calls[c]
    BY <1>10 DEF Restart
  <2>3. \A c \in DOMAIN calls : /\ calls'[c].basis = calls[c].basis
                                /\ calls'[c].card = calls[c].card
                                /\ calls'[c].phase \in {calls[c].phase, "lost"}
    <3>1. \A c \in DOMAIN calls : calls[c] \in CallRecords
      BY <1>1, CallFields
    <3> QED BY <2>2, <3>1 DEF CallRecords
  <2> QED BY <2>1, <2>2, <2>3 DEF Accounted, SameBases, CallsMove, Waiting
<1> QED BY <1>2, <1>3, <1>4, <1>5, <1>6, <1>7, <1>8, <1>9, <1>10 DEF Next

-----------------------------------------------------------------------------
(* The invariant. *)

LEMMA InitGate ==
  ASSUME Init
  PROVE  GateInv
<1>1. grants = << >> /\ calls = << >> /\ secrets = {} /\ now = 1
  BY DEF Init
<1>2. TypeOK
  BY DEF Init, TypeOK
<1> QED BY <1>1, <1>2 DEF GateInv, Dated, CardsNameRows, BasesNameRows

LEMMA NextTyped ==
  ASSUME GateInv, Next
  PROVE  TypeOK' /\ Dated'
<1>1. TypeOK /\ Dated
  BY DEF GateInv
<1>2. CASE \E s \in Sessions, o \in Ops : Gate(s, o)
  BY <1>1, <1>2, GateTargetlessTyped, GateTargetTyped DEF Gate
<1>3. CASE \E c \in DOMAIN calls : PolicyAnswer(c) \/ Resolve(c)
  BY <1>1, <1>3, PolicyAnswerTyped, ResolveTyped
<1>4. ASSUME NEW c \in DOMAIN calls, Decide(c)
      PROVE  TypeOK' /\ Dated'
  <2>1. CASE WatchAllows(c)
    BY <1>1, <2>1, WatchAllowsTyped DEF GateInv, CardsNameRows
  <2>2. CASE \/ Refuse(c) \/ OperatorAllowsUnrecorded(c)
             \/ \E pick \in {NoPattern} \cup Offered, runtime, shown \in BOOLEAN :
                  OperatorAllows(c, pick, runtime, shown)
    BY <1>1, <2>2, RefuseTyped, OperatorAllowsTyped, OperatorAllowsUnrecordedTyped
  <2> QED BY <1>4, <2>1, <2>2 DEF Decide
<1>5. CASE \E c \in DOMAIN calls, withId \in DispatchIds : Dispatch(c, withId)
  BY <1>1, <1>5, DispatchTyped
<1>6. CASE (\E s \in Sessions, d \in DeskGrants : GrantsGrant(s, d)) \/ (\E p \in PlanPatterns : GrantPlan(p))
  BY <1>1, <1>6, GrantsGrantTyped, GrantPlanTyped
<1>7. CASE (\E i \in DOMAIN grants : RevokeGrant(i)) \/ (\E g \in secrets : RevokeSecret(g))
  BY <1>1, <1>7, RevokeGrantTyped, RevokeSecretTyped
<1>8. CASE \E route \in Routes, rule \in Rules :
             WireRefusal(route.host, IF route.kind = "HostAndPort" THEN route.port ELSE "80", rule)
  BY <1>1, <1>8, WireRefusalTyped
<1>9. CASE Tick \/ Restart
  BY <1>1, <1>9, TickTyped, RestartTyped
<1> QED BY <1>2, <1>3, <1>4, <1>5, <1>6, <1>7, <1>8, <1>9 DEF Next

LEMMA GateInvKept ==
  ASSUME GateInv, [Next]_vars
  PROVE  GateInv'
<1>1. CASE Next
  <2>1. TypeOK' /\ Dated' /\ Accounted
    BY <1>1, NextTyped, NextAccounts
  <2>2. DOMAIN grants \subseteq DOMAIN grants'
    <3>1. CASE SameRows
      BY <3>1 DEF SameRows
    <3>2. CASE \E i \in DOMAIN grants : \E c : Paid(i, c)
      BY <3>2, ConsumedKept DEF Paid, GateInv
    <3> QED BY <2>1, <3>1, <3>2 DEF Accounted
  <2>3. CardsNameRows'
    <3>1. ASSUME NEW c \in DOMAIN calls', calls'[c].card.kind = "params-edge"
          PROVE  calls'[c].card.row \in DOMAIN grants'
      <4>1. \/ c \in DOMAIN calls /\ calls'[c].card = calls[c].card
            \/ calls'[c].card.row \in DOMAIN grants
        BY <2>1, <3>1 DEF Accounted, CallsMove
      <4>2. calls'[c].card.row \in DOMAIN grants
        BY <3>1, <4>1 DEF GateInv, CardsNameRows
      <4> QED BY <2>2, <4>2
    <3> QED BY <3>1 DEF CardsNameRows
  <2>4. BasesNameRows'
    <3>1. ASSUME NEW c \in DOMAIN calls', calls'[c].phase \in Waiting
          PROVE  calls'[c].basis = 0
      BY <2>1, <3>1 DEF Accounted, CallsMove, GateInv, BasesNameRows
    <3>2. ASSUME NEW c \in DOMAIN calls'
          PROVE  calls'[c].basis \in {0} \cup DOMAIN grants
      <4>1. CASE SameBases
        BY <3>2, <4>1 DEF SameBases, GateInv, BasesNameRows
      <4>2. CASE \E i \in DOMAIN grants : \E d : Paid(i, d)
        <5>0. PICK i \in DOMAIN grants : \E d : Paid(i, d)
          BY <4>2
        <5>1. PICK d : Paid(i, d)
          BY <5>0
        <5>2. calls'[c].basis = i \/ (c \in DOMAIN calls /\ calls'[c].basis = calls[c].basis)
          BY <3>2, <5>1 DEF Paid
        <5> QED BY <5>2 DEF GateInv, BasesNameRows
      <4> QED BY <2>1, <4>1, <4>2 DEF Accounted
    <3> QED BY <2>2, <3>1, <3>2, Zenon DEF BasesNameRows
  <2> QED BY <2>1, <2>3, <2>4 DEF GateInv
<1>2. CASE UNCHANGED vars
  <2>1. UNCHANGED <<now, grants, secrets, cache, pending, flood, asks, calls, yes>>
    BY <1>2 DEF vars, store, book
  <2>2. TypeOK'
    <3>1. StoreTyped /\ BookTyped /\ HistoryTyped /\ now' \in Nat
      BY <2>1 DEF GateInv, TypeOK, StoreTyped, BookTyped, HistoryTyped, PendingRecords
    <3> QED BY <3>1, TypesCombine
  <2>3. Dated' /\ CardsNameRows' /\ BasesNameRows'
    BY <2>1 DEF GateInv, Dated, CardsNameRows, BasesNameRows
  <2> QED BY <2>2, <2>3 DEF GateInv
<1> QED BY <1>1, <1>2

(* The gate's state keeps its shape, its rows are dated no later than the  *)
(* clock, and what a decision or a card names is a row that exists.        *)
THEOREM GateInvariant == Spec => []GateInv
<1>1. Init => GateInv
  BY InitGate
<1>2. GateInv /\ [Next]_vars => GateInv'
  BY GateInvKept
<1> QED BY <1>1, <1>2, PTL DEF Spec

(* Type correctness: for every value of the constants the variables keep   *)
(* the shapes of the rows, records and entries of grants.js and index.js.  *)
THEOREM TypeCorrect == Spec => []TypeOK
<1>1. GateInv => TypeOK
  BY DEF GateInv
<1> QED BY <1>1, GateInvariant, PTL

-----------------------------------------------------------------------------
(* Budgets *)

(* A budgeted row has counted exactly the calls that ran on its account.   *)
UsesCounted ==
  \A i \in DOMAIN grants :
    grants[i].maxUses # 0 =>
      Cardinality(RunsUnder(i)) = grants[i].uses /\ grants[i].uses <= grants[i].maxUses

LEMMA RunsFinite ==
  ASSUME TypeOK, NEW i
  PROVE  IsFiniteSet(RunsUnder(i)) /\ Cardinality(RunsUnder(i)) \in Nat
<1>1. DOMAIN calls = 1..Len(calls) /\ Len(calls) \in Nat
  BY DEF TypeOK
<1>2. IsFiniteSet(1..Len(calls)) /\ RunsUnder(i) \in SUBSET (1..Len(calls))
  BY <1>1, FS_Interval DEF RunsUnder
<1> QED BY <1>2, FS_Subset, FS_CardinalityType

LEMMA UsesCountedKept ==
  ASSUME GateInv, UsesCounted, [Next]_vars
  PROVE  UsesCounted'
<1>1. TypeOK
  BY DEF GateInv
<1>2. CASE SameBases /\ SameRows
  <2>1. ASSUME NEW i \in DOMAIN grants', grants'[i].maxUses # 0
        PROVE  Cardinality(RunsUnder(i)') = grants'[i].uses /\ grants'[i].uses <= grants'[i].maxUses
    <3>1. i # 0 /\ grants'[i] \in GrantRows
      <4>1. TypeOK'
        BY GateInvKept DEF GateInv
      <4> QED BY <2>1, <4>1 DEF TypeOK
    <3>2. RunsUnder(i)' = RunsUnder(i)
      BY <1>2, <3>1 DEF RunsUnder, SameBases
    <3>3. CASE i \in DOMAIN grants
      BY <1>2, <2>1, <3>2, <3>3 DEF SameRows, UsesCounted
    <3>4. CASE i \notin DOMAIN grants
      <4>1. RunsUnder(i) = {}
        BY <3>1, <3>4 DEF RunsUnder, GateInv, BasesNameRows
      <4>2. Cardinality(RunsUnder(i)') = 0
        BY <3>2, <4>1, FS_EmptySet
      <4>3. grants'[i].uses = 0
        BY <1>2, <2>1, <3>4 DEF SameRows
      <4> QED BY <3>1, <4>2, <4>3, RowFields
    <3> QED BY <3>3, <3>4
  <2> QED BY <2>1 DEF UsesCounted, RunsUnder
<1>3. ASSUME NEW i \in DOMAIN grants, NEW c, Paid(i, c)
      PROVE  UsesCounted'
  <2>1. /\ DOMAIN grants' = DOMAIN grants
        /\ \A j \in DOMAIN grants :
             /\ grants'[j].maxUses = grants[j].maxUses
             /\ grants'[j].uses = IF i = j /\ grants[i].maxUses # 0 THEN grants[i].uses + 1 ELSE grants[j].uses
    BY <1>1, <1>3, ConsumedKept DEF Paid
  <2>2. ASSUME NEW j \in DOMAIN grants, grants[j].maxUses # 0
        PROVE  Cardinality(RunsUnder(j)') = grants'[j].uses /\ grants'[j].uses <= grants[j].maxUses
    <3>1. /\ Cardinality(RunsUnder(j)) = grants[j].uses
          /\ grants[j].uses <= grants[j].maxUses
          /\ grants[j].uses \in Nat /\ grants[j].maxUses \in Nat
          /\ j # 0
      <4>1. grants[j] \in GrantRows /\ j # 0
        BY <1>1 DEF TypeOK
      <4> QED BY <2>2, <4>1, RowFields DEF UsesCounted
    <3>2. CASE j # i
      <4>1. RunsUnder(j)' = RunsUnder(j)
        BY <1>3, <3>1, <3>2 DEF RunsUnder, Paid
      <4> QED BY <2>1, <3>1, <3>2, <4>1
    <3>3. CASE j = i
      <4>1. RunsUnder(j)' = RunsUnder(j) \cup {c} /\ c \notin RunsUnder(j)
        BY <1>3, <3>1, <3>3 DEF RunsUnder, Paid
      <4>2. Cardinality(RunsUnder(j)') = grants[j].uses + 1
        BY <1>1, <3>1, <4>1, RunsFinite, FS_AddElement
      <4>3. grants[j].uses < grants[j].maxUses
        BY <1>3, <2>2, <3>3 DEF Paid, Unspent
      <4> QED BY <2>1, <2>2, <3>1, <3>3, <4>2, <4>3
    <3> QED BY <3>2, <3>3
  <2> QED BY <2>1, <2>2 DEF UsesCounted, RunsUnder
<1>4. CASE UNCHANGED vars
  <2>1. UNCHANGED <<grants, calls>>
    BY <1>4 DEF vars, store
  <2> QED BY <2>1 DEF UsesCounted, RunsUnder
<1> QED BY <1>2, <1>3, <1>4, NextAccounts DEF Accounted

(* A budgeted row never answers for more executions than it was granted,   *)
(* however the evaluator and the night watch interleave (consumeUse).      *)
THEOREM BudgetsHold == Spec => []BudgetHolds
<1>1. Init => UsesCounted
  BY DEF Init, UsesCounted
<1>2. GateInv /\ UsesCounted /\ [Next]_vars => UsesCounted'
  BY UsesCountedKept
<1>3. GateInv /\ UsesCounted => BudgetHolds
  <2> SUFFICES ASSUME GateInv, UsesCounted, NEW i \in DOMAIN grants, grants[i].maxUses # 0
               PROVE  Cardinality(RunsUnder(i)) <= grants[i].maxUses
    BY DEF BudgetHolds
  <2> QED BY DEF UsesCounted
<1> QED BY <1>1, <1>2, <1>3, GateInvariant, PTL DEF Spec

-----------------------------------------------------------------------------
(* Revocation *)

(* Revocations stand, and what appears is unrevoked. *)
SameRevocations ==
  \A i \in DOMAIN grants' :
    grants'[i].revokedAt # 0 =>
      /\ i \in DOMAIN grants
      /\ grants'[i].revokedAt = grants[i].revokedAt /\ grants'[i].pattern = grants[i].pattern

(* Every cached approval was there already or was given just now. *)
CacheFrom ==
  \A fp \in FPs : cache'[fp] # NoEntry => cache'[fp] = cache[fp] \/ cache'[fp].grantedAt = now

LEMMA RevocationKeptQuietly ==
  ASSUME GateInv, RevocationReachesCache, SameRevocations, CacheFrom
  PROVE  RevocationReachesCache'
<1> SUFFICES ASSUME NEW i \in DOMAIN grants', NEW fp \in FPs,
                    grants'[i].revokedAt # 0, cache'[fp] # NoEntry,
                    PatternMatches(grants'[i].pattern, cache'[fp].target)
             PROVE  cache'[fp].grantedAt >= grants'[i].revokedAt
  BY DEF RevocationReachesCache, FPs
<1>1. /\ i \in DOMAIN grants
      /\ grants'[i].revokedAt = grants[i].revokedAt /\ grants'[i].pattern = grants[i].pattern
  BY DEF SameRevocations
<1>2. CASE cache'[fp] = cache[fp]
  BY <1>1, <1>2 DEF RevocationReachesCache
<1>3. CASE cache'[fp].grantedAt = now
  BY <1>1, <1>3 DEF GateInv, Dated
<1> QED BY <1>2, <1>3 DEF CacheFrom

(* Only cacheSet writes an entry: everything else keeps or deletes them. *)
LEMMA CacheDeletions ==
  ASSUME TypeOK
  PROVE  /\ UNCHANGED cache => CacheFrom
         /\ \A S : cache' = WithoutEntries(S) => CacheFrom
         /\ \A fp \in FPs : cache' = CacheProbed(fp) => CacheFrom
BY DEF CacheFrom, WithoutEntries, CacheProbed, TypeOK

(* Rows appended unrevoked leave the revocations as they were. *)
LEMMA AppendedUnrevoked ==
  ASSUME TypeOK, NEW S, NEW rows \in Seq(S), \A g \in S : g.revokedAt = 0, grants' = grants \o rows
  PROVE  SameRevocations
<1>1. grants \in Seq(GrantRows \cup S) /\ rows \in Seq(GrantRows \cup S)
  BY SeqMonotonic DEF TypeOK
<1>2. \A i \in DOMAIN grants' :
        IF i \in DOMAIN grants THEN grants'[i] = grants[i] ELSE grants'[i] \in S
  BY <1>1, ConcatProperties
<1> QED BY <1>2 DEF SameRevocations

LEMMA OneOrTwoUnrevoked ==
  ASSUME TypeOK, NEW a, NEW b, a.revokedAt = 0, b.revokedAt = 0,
         NEW rows \in {<<a>>, <<a, b>>}, grants' = grants \o rows
  PROVE  SameRevocations
<1> DEFINE S == {a, b}
<1>1. <<a>> \in Seq(S) /\ <<a, b>> \in Seq(S)
  OBVIOUS
<1>2. \A g \in S : g.revokedAt = 0
  OBVIOUS
<1>3. rows = <<a>> \/ rows = <<a, b>>
  OBVIOUS
<1>4. rows \in Seq(S)
  <2> HIDE DEF S
  <2> QED BY <1>1, <1>3
<1> HIDE DEF S
<1> QED BY <1>2, <1>4, AppendedUnrevoked

LEMMA RowsAlone ==
  ASSUME UNCHANGED grants
  PROVE  SameRevocations
BY DEF SameRevocations

LEMMA PaidRows ==
  ASSUME TypeOK, NEW i \in DOMAIN grants, grants' = Consumed(i)
  PROVE  SameRevocations
BY ConsumedKept DEF SameRevocations

(* Revoking a row kills the entries its pattern covers in the same step.   *)
LEMMA RevokeReaches ==
  ASSUME GateInv, RevocationReachesCache, NEW i \in DOMAIN grants, RevokeGrant(i)
  PROVE  RevocationReachesCache'
<1> DEFINE rows == [grants EXCEPT ![i].revokedAt = IF @ = 0 THEN now ELSE @]
<1>1. grants' = rows /\ cache' = WithoutEntries(KilledBy(grants[i].pattern)) /\ TypeOK
  BY DEF RevokeGrant, GateInv
<1>2. /\ DOMAIN rows = DOMAIN grants
      /\ \A j \in DOMAIN grants :
           /\ rows[j].pattern = grants[j].pattern
           /\ rows[j].revokedAt = IF i = j /\ grants[i].revokedAt = 0 THEN now ELSE grants[j].revokedAt
  BY <1>1, RevokedKept
<1> HIDE DEF rows
<1> SUFFICES ASSUME NEW j \in DOMAIN grants', NEW fp \in FPs,
                    grants'[j].revokedAt # 0, cache'[fp] # NoEntry,
                    PatternMatches(grants'[j].pattern, cache'[fp].target)
             PROVE  cache'[fp].grantedAt >= grants'[j].revokedAt
  BY DEF RevocationReachesCache, FPs
<1>3. j \in DOMAIN grants /\ grants'[j].pattern = grants[j].pattern
  BY <1>1, <1>2
<1>4. cache'[fp] = cache[fp] /\ fp \notin KilledBy(grants[i].pattern)
  BY <1>1 DEF WithoutEntries
<1>5. j # i
  BY <1>3, <1>4 DEF KilledBy
<1>6. grants'[j].revokedAt = grants[j].revokedAt
  BY <1>1, <1>2, <1>3, <1>5
<1> QED BY <1>3, <1>4, <1>6 DEF RevocationReachesCache

LEMMA RevocationKept ==
  ASSUME GateInv, RevocationReachesCache, [Next]_vars
  PROVE  RevocationReachesCache'
<1>1. TypeOK
  BY DEF GateInv
<1>2. ASSUME NEW s \in Sessions, NEW o \in Ops, Gate(s, o)
      PROVE  SameRevocations /\ CacheFrom
  <2>1. Fingerprint(o) \in FPs
    BY DEF FPs
  <2>2. CASE GateTargetless(s, o)
    <3>1. UNCHANGED grants /\ (UNCHANGED cache \/ cache' = CacheProbed(Fingerprint(o)))
      BY <2>2 DEF GateTargetless
    <3> QED BY <1>1, <2>1, <3>1, RowsAlone, CacheDeletions
  <2>3. CASE GateTarget(s, o)
    <3> DEFINE plan == Covering(o, "plan")
               sess == { i \in Covering(o, "session") : ScopeOk(grants[i], s) }
               row  == FirstOf(IF plan # {} THEN plan ELSE sess)
    <3>1. cache' = CacheProbed(Fingerprint(o))
          /\ (UNCHANGED grants \/ (plan \cup sess # {} /\ grants' = Consumed(row)))
      BY <2>3 DEF GateTarget
    <3>2. plan \cup sess # {} => row \in DOMAIN grants
      BY <1>1, CoveringRow
    <3> HIDE DEF plan, sess, row
    <3> QED BY <1>1, <2>1, <3>1, <3>2, RowsAlone, PaidRows, CacheDeletions
  <2> QED BY <1>2, <2>2, <2>3 DEF Gate
<1>3. ASSUME NEW c \in DOMAIN calls, Decide(c)
      PROVE  SameRevocations /\ CacheFrom
  <2>1. CASE Refuse(c) \/ OperatorAllowsUnrecorded(c)
    <3>1. UNCHANGED <<grants, cache>>
      BY <2>1 DEF Refuse, OperatorAllowsUnrecorded, store
    <3> QED BY <1>1, <3>1, RowsAlone, CacheDeletions
  <2>2. CASE WatchAllows(c)
    <3>1. calls[c].card.kind = "params-edge" /\ UNCHANGED cache
          /\ (UNCHANGED grants \/ grants' = Consumed(calls[c].card.row))
      BY <2>2 DEF WatchAllows
    <3>2. calls[c].card.row \in DOMAIN grants
      BY <3>1 DEF GateInv, CardsNameRows
    <3> QED BY <1>1, <3>1, <3>2, RowsAlone, PaidRows, CacheDeletions
  <2>3. ASSUME NEW pick, NEW runtime \in BOOLEAN, NEW shown \in BOOLEAN,
               OperatorAllows(c, pick, runtime, shown)
        PROVE  SameRevocations /\ CacheFrom
    <3> DEFINE rows == MintedRows(c, pick, runtime, shown)
               S    == { g \in GrantRows : g.revokedAt = 0 }
               entry == [grantedAt |-> now, expiresAt |-> now + CacheTtlFor(calls[c].rec.op),
                         target |-> CanonicalTarget(calls[c].rec.op.target)]
    <3>1. /\ calls[c].rec # NoRec /\ pick \in PatternOffers(calls[c].rec.op, Egress) \cup {NoPattern}
          /\ grants' = grants \o rows
          /\ cache' = cache \/ cache' = [cache EXCEPT ![calls[c].rec.fp] = entry]
      BY <2>3 DEF OperatorAllows
    <3>2. rows \in Seq(GrantRows) /\ \A i \in 1..Len(rows) : rows[i].revokedAt = 0
      BY <1>1, <3>1, MintedAreRows
    <3>3. rows \in Seq(S)
      <4> HIDE DEF rows
      <4> QED BY <3>2
    <3>4. SameRevocations
      <4> HIDE DEF rows
      <4> QED BY <1>1, <3>1, <3>3, AppendedUnrevoked
    <3>5. entry.grantedAt = now
      OBVIOUS
    <3>6. CacheFrom
      <4> HIDE DEF entry
      <4> QED BY <1>1, <3>1, <3>5 DEF CacheFrom, TypeOK
    <3> QED BY <3>4, <3>6
  <2> QED BY <1>3, <2>1, <2>2, <2>3 DEF Decide
<1>4. ASSUME NEW s \in Sessions, NEW d \in DeskGrants, GrantsGrant(s, d)
      PROVE  SameRevocations /\ CacheFrom
  <2> DEFINE root == IF d.runtime THEN None ELSE RootOf[s]
             session == IF d.runtime THEN None ELSE s
             row == SessionGrant(d.pattern, root, session, d.class, d.ttl, d.maxUses, {})
             leg == SessionGrant(DeskLeg(d.pattern), root, session, d.class, d.ttl, 0, {})
             rows == IF Egress = "proxy" /\ d.pattern.kind = "UrlPrefix" THEN <<row, leg>> ELSE <<row>>
  <2>1. grants' = grants \o rows /\ UNCHANGED cache
    BY <1>4 DEF GrantsGrant
  <2>2. row.revokedAt = 0 /\ leg.revokedAt = 0
    BY DEF SessionGrant
  <2>3. rows \in {<<row>>, <<row, leg>>}
    OBVIOUS
  <2> HIDE DEF row, leg, rows
  <2>4. SameRevocations
    BY <1>1, <2>1, <2>2, <2>3, OneOrTwoUnrevoked
  <2> QED BY <1>1, <2>1, <2>4, CacheDeletions
<1>5. ASSUME NEW p \in PlanPatterns, GrantPlan(p)
      PROVE  SameRevocations /\ CacheFrom
  <2> DEFINE row == [SessionGrant(p, None, None, None, 0, 0, {}) EXCEPT !.layer = "plan", !.expiresAt = 0]
  <2>1. grants' = grants \o <<row>> /\ UNCHANGED cache
    BY <1>1, <1>5 DEF GrantPlan, TypeOK
  <2>2. row.revokedAt = 0
    BY DEF SessionGrant
  <2> HIDE DEF row
  <2>3. <<row>> \in {<<row>>, <<row, row>>}
    OBVIOUS
  <2>4. SameRevocations
    BY <1>1, <2>1, <2>2, <2>3, OneOrTwoUnrevoked
  <2> QED BY <1>1, <2>1, <2>4, CacheDeletions
<1>6. CASE \/ \E c \in DOMAIN calls : PolicyAnswer(c) \/ Resolve(c)
           \/ \E c \in DOMAIN calls, withId \in DispatchIds : Dispatch(c, withId)
           \/ \E g \in secrets : RevokeSecret(g)
           \/ \E route \in Routes, rule \in Rules :
                WireRefusal(route.host, IF route.kind = "HostAndPort" THEN route.port ELSE "80", rule)
           \/ Tick \/ Restart
           \/ UNCHANGED vars
  <2>1. UNCHANGED grants /\ (UNCHANGED cache \/ \E S : cache' = WithoutEntries(S))
    BY <1>6 DEF PolicyAnswer, Resolve, Dispatch, RevokeSecret, WireRefusal, Tick, Restart, vars, store
  <2> QED BY <1>1, <2>1, RowsAlone, CacheDeletions, RevocationKeptQuietly
<1>7. CASE Next
  BY <1>2, <1>3, <1>4, <1>5, <1>6, <1>7, RevokeReaches, RevocationKeptQuietly DEF Next
<1> QED BY <1>6, <1>7

(* No cached approval given before a revocation outlives it on a target    *)
(* the revoked pattern covers (revokeSessionGrant).                        *)
THEOREM RevocationReaches == Spec => []RevocationReachesCache
<1>1. Init => RevocationReachesCache
  BY DEF Init, RevocationReachesCache
<1>2. GateInv /\ RevocationReachesCache /\ [Next]_vars => RevocationReachesCache'
  BY RevocationKept
<1> QED BY <1>1, <1>2, GateInvariant, PTL DEF Spec


-----------------------------------------------------------------------------
(* Which decision is whose.  Where the host dispatches an ask before time  *)
(* passes and every request carries its callId, the record a request       *)
(* claims is its own call's.                                               *)

Correlated == PromptDispatch /\ DispatchIds = {TRUE}

OfCall(r, d) == r.op = d.op /\ r.session = d.session /\ r.fp = Fingerprint(d.op)

(* Row g is in scope for call d, and on its route. *)
RowFor(g, d) ==
  /\ g.layer = "session" => ScopeOk(g, d.session)
  /\ PatternPrefixMatches(g.pattern, d.op.target)

AsksAreTheirs ==
  /\ \A r \in asks : r.callId \in DOMAIN calls /\ OfCall(r, calls[r.callId])
  /\ \A c \in DOMAIN calls :
       /\ calls[c].phase = "asked" => \E r \in asks : r.callId = c /\ r.at = now
       /\ calls[c].phase = "resolving" => calls[c].rec # NoRec
       /\ calls[c].rec # NoRec => OfCall(calls[c].rec, calls[c])
       /\ calls[c].card.kind = "params-edge" => RowFor(grants[calls[c].card.row], calls[c])

(* The terms of a row never change. *)
SameTerms(h, g) ==
  /\ h.pattern = g.pattern /\ h.layer = g.layer /\ h.session = g.session /\ h.root = g.root
  /\ h.class = g.class /\ h.createdAt = g.createdAt /\ h.expiresAt = g.expiresAt
RowsStay == \A i \in DOMAIN grants : i \in DOMAIN grants' /\ SameTerms(grants'[i], grants[i])

LEMMA RowForKept ==
  ASSUME NEW g, NEW h, NEW d, NEW e, SameTerms(h, g), RowFor(g, d),
         e.op = d.op, e.session = d.session
  PROVE  RowFor(h, e)
BY DEF SameTerms, RowFor, ScopeOk

LEMMA TermsEdited ==
  ASSUME NEW g \in GrantRows, NEW n
  PROVE  SameTerms([g EXCEPT !.uses = n], g) /\ SameTerms([g EXCEPT !.revokedAt = n], g)
BY DEF GrantRows, SameTerms

LEMMA ConsumedStays ==
  ASSUME TypeOK, NEW i \in DOMAIN grants, grants' = Consumed(i)
  PROVE  RowsStay
<1> DEFINE n   == IF grants[i].maxUses = 0 THEN grants[i].uses ELSE grants[i].uses + 1
           row == [grants[i] EXCEPT !.uses = n]
<1>1. grants[i] \in GrantRows /\ grants \in Seq(GrantRows)
  BY DEF TypeOK
<1>2. grants' = [grants EXCEPT ![i] = row]
  BY <1>1 DEF Consumed
<1>3. SameTerms(row, grants[i])
  BY <1>1, TermsEdited
<1> HIDE DEF row
<1> QED BY <1>2, <1>3 DEF RowsStay, SameTerms

LEMMA RevokedStays ==
  ASSUME TypeOK, NEW i \in DOMAIN grants, RevokeGrant(i)
  PROVE  RowsStay
<1> DEFINE n   == IF grants[i].revokedAt = 0 THEN now ELSE grants[i].revokedAt
           row == [grants[i] EXCEPT !.revokedAt = n]
<1>1. grants[i] \in GrantRows /\ grants \in Seq(GrantRows)
  BY DEF TypeOK
<1>2. grants' = [grants EXCEPT ![i] = row]
  BY <1>1 DEF RevokeGrant
<1>3. SameTerms(row, grants[i])
  BY <1>1, TermsEdited
<1> HIDE DEF row
<1> QED BY <1>2, <1>3 DEF RowsStay, SameTerms

LEMMA AppendedStay ==
  ASSUME TypeOK, NEW S, NEW rows \in Seq(S), grants' = grants \o rows
  PROVE  RowsStay
<1>1. grants \in Seq(GrantRows \cup S) /\ rows \in Seq(GrantRows \cup S)
  BY SeqMonotonic DEF TypeOK
<1>2. \A i \in DOMAIN grants : i \in DOMAIN grants' /\ grants'[i] = grants[i]
  BY <1>1, ConcatProperties
<1> QED BY <1>2 DEF RowsStay, SameTerms

LEMMA UnchangedStay ==
  ASSUME UNCHANGED grants
  PROVE  RowsStay
BY DEF RowsStay, SameTerms

(* No step rewrites the terms of a row. *)
LEMMA TermsStay ==
  ASSUME GateInv, [Next]_vars
  PROVE  RowsStay
<1>1. TypeOK
  BY DEF GateInv
<1>2. ASSUME NEW s \in Sessions, NEW o \in Ops, Gate(s, o) PROVE RowsStay
  <2>1. CASE UNCHANGED grants
    BY <2>1, UnchangedStay
  <2>2. CASE ~UNCHANGED grants
    <3> DEFINE plan == Covering(o, "plan")
               sess == { i \in Covering(o, "session") : ScopeOk(grants[i], s) }
               row  == FirstOf(IF plan # {} THEN plan ELSE sess)
    <3>1. plan \cup sess # {} /\ grants' = Consumed(row)
      BY <1>2, <2>2 DEF Gate, GateTargetless, GateTarget
    <3>2. row \in DOMAIN grants
      BY <1>1, <3>1, CoveringRow
    <3> HIDE DEF plan, sess, row
    <3> QED BY <1>1, <3>1, <3>2, ConsumedStays
  <2> QED BY <2>1, <2>2
<1>3. ASSUME NEW c \in DOMAIN calls, Decide(c) PROVE RowsStay
  <2>1. CASE UNCHANGED grants
    BY <2>1, UnchangedStay
  <2>2. CASE WatchAllows(c)
    <3>1. calls[c].card.kind = "params-edge" /\ (UNCHANGED grants \/ grants' = Consumed(calls[c].card.row))
      BY <2>2 DEF WatchAllows
    <3>2. calls[c].card.row \in DOMAIN grants
      BY <3>1 DEF GateInv, CardsNameRows
    <3> QED BY <1>1, <3>1, <3>2, ConsumedStays, UnchangedStay
  <2>3. ASSUME NEW pick, NEW runtime \in BOOLEAN, NEW shown \in BOOLEAN,
               OperatorAllows(c, pick, runtime, shown)
        PROVE  RowsStay
    <3> DEFINE rows == MintedRows(c, pick, runtime, shown)
    <3>1. /\ calls[c].rec # NoRec /\ pick \in PatternOffers(calls[c].rec.op, Egress) \cup {NoPattern}
          /\ grants' = grants \o rows
      BY <2>3 DEF OperatorAllows
    <3>2. rows \in Seq(GrantRows)
      BY <1>1, <3>1, MintedAreRows
    <3> HIDE DEF rows
    <3> QED BY <1>1, <3>1, <3>2, AppendedStay
  <2>4. Refuse(c) \/ OperatorAllowsUnrecorded(c) => UNCHANGED grants
    BY DEF Refuse, OperatorAllowsUnrecorded, store
  <2> QED BY <1>3, <2>1, <2>2, <2>3, <2>4 DEF Decide
<1>4. ASSUME NEW s \in Sessions, NEW d \in DeskGrants, GrantsGrant(s, d) PROVE RowsStay
  <2> DEFINE root == IF d.runtime THEN None ELSE RootOf[s]
             session == IF d.runtime THEN None ELSE s
             row == SessionGrant(d.pattern, root, session, d.class, d.ttl, d.maxUses, {})
             leg == SessionGrant(DeskLeg(d.pattern), root, session, d.class, d.ttl, 0, {})
             rows == IF Egress = "proxy" /\ d.pattern.kind = "UrlPrefix" THEN <<row, leg>> ELSE <<row>>
  <2>1. grants' = grants \o rows
    BY <1>4 DEF GrantsGrant
  <2> HIDE DEF row, leg
  <2>2. <<row>> \in Seq({row, leg}) /\ <<row, leg>> \in Seq({row, leg})
    OBVIOUS
  <2>3. rows \in Seq({row, leg})
    BY <2>2
  <2> HIDE DEF rows
  <2> QED BY <1>1, <2>1, <2>3, AppendedStay
<1>5. ASSUME NEW p \in PlanPatterns, GrantPlan(p) PROVE RowsStay
  <2> DEFINE row == [SessionGrant(p, None, None, None, 0, 0, {}) EXCEPT !.layer = "plan", !.expiresAt = 0]
  <2>1. grants' = grants \o <<row>>
    BY <1>1, <1>5 DEF GrantPlan, TypeOK
  <2> HIDE DEF row
  <2>2. <<row>> \in Seq({row})
    OBVIOUS
  <2> QED BY <1>1, <2>1, <2>2, AppendedStay
<1>6. CASE \/ \E c \in DOMAIN calls : PolicyAnswer(c) \/ Resolve(c)
           \/ \E c \in DOMAIN calls, withId \in DispatchIds : Dispatch(c, withId)
           \/ \E g \in secrets : RevokeSecret(g)
           \/ \E route \in Routes, rule \in Rules :
                WireRefusal(route.host, IF route.kind = "HostAndPort" THEN route.port ELSE "80", rule)
           \/ Tick \/ Restart
           \/ UNCHANGED vars
  <2>1. UNCHANGED grants
    BY <1>6 DEF PolicyAnswer, Resolve, Dispatch, RevokeSecret, WireRefusal, Tick, Restart, vars, store
  <2> QED BY <2>1, UnchangedStay
<1>7. CASE Next
  BY <1>1, <1>2, <1>3, <1>4, <1>5, <1>6, <1>7, RevokedStays DEF Next
<1> QED BY <1>6, <1>7

(* A decision card names a row in scope for the session it was drawn for,  *)
(* and on the route of its operation.                                      *)
LEMMA CardIsFor ==
  ASSUME TypeOK, Dated, NEW o, NEW s, NEW d, d.op = o, d.session = s,
         Card(o, s).kind = "params-edge"
  PROVE  RowFor(grants[Card(o, s).row], d)
<1> DEFINE usable == { i \in PrefixRows(o, s) : Live(grants[i]) /\ Unspent(grants[i]) }
           row    == Newest(usable)
<1>1. usable # {} /\ Card(o, s).row = row
  <2>1. NoCard.kind # "params-edge"
    BY DEF NoCard
  <2> QED BY <2>1 DEF Card
<1>2. row \in usable
  <2>1. usable \in SUBSET DOMAIN grants
    BY DEF PrefixRows
  <2> HIDE DEF usable
  <2> QED BY <1>1, <2>1, NewestIsAMember
<1>3. row \in PrefixRows(o, s)
  BY <1>2
<1> HIDE DEF row
<1> QED BY <1>1, <1>3 DEF PrefixRows, RowFor

(* Call e is call d further on: it may have moved, but not back to asked.  *)
Moved(e, d) ==
  /\ e.op = d.op /\ e.session = d.session /\ e.basis = d.basis
  /\ e.rec = d.rec /\ e.card = d.card
  /\ e.phase \in {"asked", "resolving"} => e.phase = d.phase

(* No call is new, and none draws a record or a card. *)
CallsStay ==
  /\ DOMAIN calls' = DOMAIN calls
  /\ \A c \in DOMAIN calls : Moved(calls'[c], calls[c])

LEMMA PhaseStays ==
  ASSUME TypeOK, NEW c \in DOMAIN calls, NEW phase, phase \notin {"asked", "resolving"},
         calls' = [calls EXCEPT ![c].phase = phase]
  PROVE  CallsStay /\ calls'[c].phase = phase
<1> DEFINE d == [calls[c] EXCEPT !.phase = phase]
<1>1. calls[c] \in CallRecords /\ calls \in Seq(CallRecords)
  BY CallFields DEF TypeOK
<1>2. d.phase = phase /\ Moved(d, calls[c])
  BY <1>1 DEF CallRecords, Moved
<1>3. calls' = [calls EXCEPT ![c] = d]
  BY <1>1
<1> HIDE DEF d
<1> QED BY <1>1, <1>2, <1>3 DEF CallsStay, Moved

LEMMA UntouchedStay ==
  ASSUME UNCHANGED calls
  PROVE  CallsStay
BY DEF CallsStay, Moved

LEMMA RestartStays ==
  ASSUME TypeOK, Restart
  PROVE  CallsStay /\ \A c \in DOMAIN calls : calls'[c].phase # "asked"
<1>1. \A c \in DOMAIN calls : calls[c] \in CallRecords
  BY CallFields
<1>2. /\ DOMAIN calls' = DOMAIN calls
      /\ \A c \in DOMAIN calls : calls'[c] = IF c \in Outstanding THEN [calls[c] EXCEPT !.phase = "lost"] ELSE calls[c]
  BY DEF Restart
<1>3. \A c \in DOMAIN calls : calls[c].phase \in {"asked", "resolving"} => c \in Outstanding
  BY DEF Outstanding
<1>4. \A c \in DOMAIN calls : Moved(calls'[c], calls[c]) /\ calls'[c].phase # "asked"
  BY <1>1, <1>2, <1>3 DEF CallRecords, Moved
<1> QED BY <1>2, <1>4 DEF CallsStay

LEMMA QuietKeeps ==
  ASSUME GateInv, AsksAreTheirs, RowsStay, CallsStay, asks' \subseteq asks,
         (\E c \in DOMAIN calls : calls'[c].phase = "asked") => now' = now /\ asks' = asks
  PROVE  AsksAreTheirs'
<1>1. ASSUME NEW r \in asks'
      PROVE  r.callId \in DOMAIN calls' /\ OfCall(r, calls'[r.callId])
  <2>1. r.callId \in DOMAIN calls /\ OfCall(r, calls[r.callId])
    BY DEF AsksAreTheirs
  <2> QED BY <2>1 DEF CallsStay, Moved, OfCall
<1>2. ASSUME NEW c \in DOMAIN calls'
      PROVE  /\ calls'[c].phase = "asked" => \E r \in asks' : r.callId = c /\ r.at = now'
             /\ calls'[c].phase = "resolving" => calls'[c].rec # NoRec
             /\ calls'[c].rec # NoRec => OfCall(calls'[c].rec, calls'[c])
             /\ calls'[c].card.kind = "params-edge" => RowFor(grants'[calls'[c].card.row], calls'[c])
  <2>1. c \in DOMAIN calls /\ Moved(calls'[c], calls[c])
    BY DEF CallsStay
  <2>2. calls'[c].phase = "asked" => \E r \in asks' : r.callId = c /\ r.at = now'
    BY <2>1 DEF AsksAreTheirs, Moved
  <2>3. /\ calls'[c].phase = "resolving" => calls'[c].rec # NoRec
        /\ calls'[c].rec # NoRec => OfCall(calls'[c].rec, calls'[c])
    BY <2>1 DEF AsksAreTheirs, Moved, OfCall
  <2>4. ASSUME calls'[c].card.kind = "params-edge"
        PROVE  RowFor(grants'[calls'[c].card.row], calls'[c])
    <3>1. /\ calls'[c].card = calls[c].card
          /\ calls'[c].op = calls[c].op /\ calls'[c].session = calls[c].session
      BY <2>1 DEF Moved
    <3>2. calls[c].card.row \in DOMAIN grants /\ RowFor(grants[calls[c].card.row], calls[c])
      BY <2>1, <2>4, <3>1 DEF AsksAreTheirs, GateInv, CardsNameRows
    <3>3. SameTerms(grants'[calls[c].card.row], grants[calls[c].card.row])
      BY <3>2 DEF RowsStay
    <3> QED BY <3>1, <3>2, <3>3, RowForKept
  <2> QED BY <2>2, <2>3, <2>4
<1> QED BY <1>1, <1>2 DEF AsksAreTheirs

(* A call the gate sees leaves its own record, if it is asked. *)
LEMMA SeenKeepsAsks ==
  ASSUME GateInv, AsksAreTheirs, RowsStay, NEW s \in Sessions, NEW o \in Ops,
         NEW phase \in Phases \ {"resolving"}, NEW basis \in Nat,
         calls' = Append(calls, Call(s, o, phase, basis)), now' = now,
         asks' = IF phase = "asked" THEN asks \cup {AskRecord(s, o)} ELSE asks
  PROVE  AsksAreTheirs'
<1> DEFINE new == Call(s, o, phase, basis)
           n   == Len(calls) + 1
           rec == AskRecord(s, o)
<1>1. /\ DOMAIN calls' = DOMAIN calls \cup {n} /\ n \notin DOMAIN calls
      /\ \A c \in DOMAIN calls : calls'[c] = calls[c]
      /\ calls'[n] = new
  <2>1. new \in CallRecords /\ calls \in Seq(CallRecords) /\ calls' = Append(calls, new)
    BY CallSeen DEF TypeOK, GateInv
  <2> HIDE DEF new
  <2> QED BY <2>1, AppendProperties
<1>2. new.op = o /\ new.session = s /\ new.phase = phase /\ new.rec = NoRec
      /\ new.card.kind # "params-edge"
  BY DEF Call, NoCard
<1>3. rec.callId = n /\ rec.at = now /\ OfCall(rec, new)
  BY <1>2 DEF AskRecord, OfCall
<1> HIDE DEF new, n, rec
<1>4. ASSUME NEW r \in asks'
      PROVE  r.callId \in DOMAIN calls' /\ OfCall(r, calls'[r.callId])
  <2>1. CASE r \in asks
    BY <1>1, <2>1 DEF AsksAreTheirs
  <2>2. CASE r \notin asks
    <3>1. r = rec
      BY <1>4, <2>2 DEF rec
    <3> QED BY <1>1, <1>3, <3>1
  <2> QED BY <2>1, <2>2
<1>5. ASSUME NEW c \in DOMAIN calls'
      PROVE  /\ calls'[c].phase = "asked" => \E r \in asks' : r.callId = c /\ r.at = now'
             /\ calls'[c].phase = "resolving" => calls'[c].rec # NoRec
             /\ calls'[c].rec # NoRec => OfCall(calls'[c].rec, calls'[c])
             /\ calls'[c].card.kind = "params-edge" => RowFor(grants'[calls'[c].card.row], calls'[c])
  <2>1. CASE c = n
    <3>1. calls'[c].phase = "asked" => rec \in asks'
      BY <1>1, <1>2, <2>1 DEF rec
    <3> QED BY <1>1, <1>2, <1>3, <2>1, <3>1
  <2>2. CASE c # n
    <3>1. c \in DOMAIN calls /\ calls'[c] = calls[c]
      BY <1>1, <2>2
    <3>2. calls[c].phase = "asked" => \E r \in asks' : r.callId = c /\ r.at = now'
      <4>1. asks \subseteq asks'
        OBVIOUS
      <4> QED BY <3>1, <4>1 DEF AsksAreTheirs
    <3>3. /\ calls[c].phase = "resolving" => calls[c].rec # NoRec
          /\ calls[c].rec # NoRec => OfCall(calls[c].rec, calls[c])
      BY <3>1 DEF AsksAreTheirs
    <3>4. ASSUME calls[c].card.kind = "params-edge"
          PROVE  RowFor(grants'[calls[c].card.row], calls[c])
      <4>1. calls[c].card.row \in DOMAIN grants /\ RowFor(grants[calls[c].card.row], calls[c])
        BY <3>1, <3>4 DEF AsksAreTheirs, GateInv, CardsNameRows
      <4>2. SameTerms(grants'[calls[c].card.row], grants[calls[c].card.row])
        BY <4>1 DEF RowsStay
      <4> QED BY <4>1, <4>2, RowForKept
    <3> QED BY <3>1, <3>2, <3>3, <3>4
  <2> QED BY <2>1, <2>2
<1> QED BY <1>4, <1>5 DEF AsksAreTheirs

(* One waiting call draws a record or a card. *)
LEMMA DrawnKeeps ==
  ASSUME GateInv, AsksAreTheirs, UNCHANGED <<now, grants>>, NEW c \in DOMAIN calls, NEW d \in CallRecords,
         calls' = [calls EXCEPT ![c] = d],
         d.op = calls[c].op, d.session = calls[c].session, d.phase # "asked",
         d.phase = "resolving" => d.rec # NoRec,
         d.rec # NoRec => OfCall(d.rec, d),
         d.card.kind = "params-edge" => RowFor(grants[d.card.row], d),
         asks' \subseteq asks, \A r \in asks : r \notin asks' => r.callId = c \/ r.at # now
  PROVE  AsksAreTheirs'
<1>1. /\ DOMAIN calls' = DOMAIN calls
      /\ \A e \in DOMAIN calls : calls'[e] = IF e = c THEN d ELSE calls[e]
  BY DEF GateInv, TypeOK
<1>2. ASSUME NEW r \in asks'
      PROVE  r.callId \in DOMAIN calls' /\ OfCall(r, calls'[r.callId])
  <2>1. r.callId \in DOMAIN calls /\ OfCall(r, calls[r.callId])
    BY DEF AsksAreTheirs
  <2> QED BY <1>1, <2>1 DEF OfCall
<1>3. ASSUME NEW e \in DOMAIN calls'
      PROVE  /\ calls'[e].phase = "asked" => \E r \in asks' : r.callId = e /\ r.at = now'
             /\ calls'[e].phase = "resolving" => calls'[e].rec # NoRec
             /\ calls'[e].rec # NoRec => OfCall(calls'[e].rec, calls'[e])
             /\ calls'[e].card.kind = "params-edge" => RowFor(grants'[calls'[e].card.row], calls'[e])
  <2>1. CASE e = c
    BY <1>1, <2>1
  <2>2. CASE e # c
    <3>1. e \in DOMAIN calls /\ calls'[e] = calls[e]
      BY <1>1, <2>2
    <3>2. calls[e].phase = "asked" => \E r \in asks' : r.callId = e /\ r.at = now
      BY <2>2, <3>1 DEF AsksAreTheirs
    <3> QED BY <3>1, <3>2 DEF AsksAreTheirs
  <2> QED BY <2>1, <2>2
<1> QED BY <1>2, <1>3 DEF AsksAreTheirs

(* A correlated request claims the record of its own call (takeAsk). *)
LEMMA ClaimsItsOwn ==
  ASSUME GateInv, AsksAreTheirs, NEW c \in DOMAIN calls, calls[c].phase = "asked"
  PROVE  LET recs == Claimed(calls[c].session, calls[c].op.tool, c, TRUE) IN
         /\ recs # {}
         /\ \A r \in recs : r \in AskRecords /\ r.callId = c /\ OfCall(r, calls[c])
<1> DEFINE s     == calls[c].session
           tool  == calls[c].op.tool
           fresh == Queue(s, tool) \ StaleAsks(s, tool)
           own   == { r \in fresh : r.callId = c }
<1>1. PICK r \in asks : r.callId = c /\ r.at = now
  BY DEF AsksAreTheirs
<1>2. OfCall(r, calls[c])
  BY <1>1 DEF AsksAreTheirs
<1>3. r \in Queue(s, tool)
  BY <1>2 DEF Queue, OfCall
<1>4. ~(r.at < now - PendingTtl)
  <2>1. PendingTtl \in Nat /\ now \in Nat
    BY TermsAssumption DEF GateInv, TypeOK
  <2> QED BY <1>1, <2>1
<1>5. r \in own
  BY <1>1, <1>3, <1>4 DEF StaleAsks
<1>6. Claimed(s, tool, c, TRUE) = own
  BY <1>5 DEF Claimed
<1>7. own \subseteq asks /\ asks \subseteq AskRecords
  BY DEF Queue, GateInv, TypeOK
<1>8. \A q \in own : OfCall(q, calls[c])
  BY <1>7 DEF AsksAreTheirs
<1> HIDE DEF fresh
<1> QED BY <1>5, <1>6, <1>7, <1>8

LEMMA DispatchKeepsAsks ==
  ASSUME GateInv, AsksAreTheirs, NEW c \in DOMAIN calls, Dispatch(c, TRUE)
  PROVE  AsksAreTheirs' /\ SameBases
<1> DEFINE s    == calls[c].session
           tool == calls[c].op.tool
           recs == Claimed(s, tool, c, TRUE)
<1>1. /\ TypeOK /\ Dated /\ UNCHANGED <<now, grants>> /\ calls[c].phase = "asked" /\ calls[c] \in CallRecords
      /\ asks' = asks \ Taken(s, tool, recs)
  <2>1. TypeOK /\ Dated
    BY DEF GateInv
  <2> QED BY <2>1, CallFields DEF Dispatch, store
<1>2. recs # {} /\ \A r \in recs : r \in AskRecords /\ r.callId = c /\ OfCall(r, calls[c])
  BY <1>1, ClaimsItsOwn
<1>3. PICK r \in recs :
        calls' = [calls EXCEPT ![c].rec   = r,
                               ![c].phase = IF PinApplies(r.op) THEN "resolving" ELSE "deciding",
                               ![c].card  = IF PinApplies(r.op) THEN NoCard ELSE Card(r.op, r.session)]
  BY <1>2 DEF Dispatch
<1> HIDE DEF recs
<1> DEFINE phase == IF PinApplies(r.op) THEN "resolving" ELSE "deciding"
           card  == IF PinApplies(r.op) THEN NoCard ELSE Card(r.op, r.session)
           d     == [calls[c] EXCEPT !.rec = r, !.phase = phase, !.card = card]
<1>4. r \in AskRecords /\ r.callId = c /\ OfCall(r, calls[c])
  BY <1>2
<1>5. card \in Cards /\ (card.kind = "params-edge" => RowFor(grants[card.row], calls[c]))
  <2>1. CASE PinApplies(r.op)
    BY <2>1 DEF Cards, NoCard
  <2>2. CASE ~PinApplies(r.op)
    <3>1. calls[c].op = r.op /\ calls[c].session = r.session
      BY <1>4 DEF OfCall
    <3>2. Card(r.op, r.session).kind = "params-edge" => RowFor(grants[Card(r.op, r.session).row], calls[c])
      BY <1>1, <3>1, CardIsFor
    <3> QED BY <1>1, <2>2, <3>2, CardTyped
  <2> QED BY <2>1, <2>2
<1>6. phase \in {"resolving", "deciding"} /\ calls' = [calls EXCEPT ![c].rec = r, ![c].phase = phase, ![c].card = card]
  BY <1>3
<1> HIDE DEF phase, card
<1>7. /\ d \in CallRecords
      /\ d.op = calls[c].op /\ d.session = calls[c].session /\ d.basis = calls[c].basis
      /\ d.phase = phase /\ d.rec = r /\ d.card = card
  BY <1>1, <1>4, <1>5, <1>6 DEF CallRecords
<1>8. calls' = [calls EXCEPT ![c] = d]
  BY <1>1, <1>6 DEF TypeOK
<1> HIDE DEF d
<1>9. OfCall(d.rec, d)
  BY <1>4, <1>7 DEF OfCall
<1>10. r # NoRec
  BY <1>4 DEF AskRecords, NoRec
<1>11. d.card.kind = "params-edge" => RowFor(grants[d.card.row], d)
  BY <1>5, <1>7 DEF RowFor
<1>12. asks' \subseteq asks /\ \A q \in asks : q \notin asks' => q.callId = c \/ q.at # now
  <2>1. \A q \in StaleAsks(s, tool) : q.at < now - PendingTtl
    BY DEF StaleAsks
  <2>2. PendingTtl \in Nat /\ now \in Nat
    BY <1>1, TermsAssumption DEF TypeOK
  <2>3. \A q \in StaleAsks(s, tool) : q.at # now
    <3> SUFFICES ASSUME NEW q \in StaleAsks(s, tool), q.at = now PROVE FALSE
      OBVIOUS
    <3> QED BY <2>1, <2>2
  <2> HIDE DEF s, tool
  <2> QED BY <1>1, <1>2, <2>3 DEF Taken
<1>13. AsksAreTheirs'
  BY <1>1, <1>6, <1>7, <1>8, <1>9, <1>10, <1>11, <1>12, DrawnKeeps
<1>14. SameBases
  <2>1. /\ DOMAIN calls' = DOMAIN calls
        /\ \A e \in DOMAIN calls : calls'[e] = IF e = c THEN d ELSE calls[e]
    BY <1>1, <1>8 DEF TypeOK
  <2> QED BY <1>7, <2>1 DEF SameBases
<1> QED BY <1>13, <1>14

LEMMA ResolveKeepsAsks ==
  ASSUME GateInv, AsksAreTheirs, NEW c \in DOMAIN calls, Resolve(c)
  PROVE  AsksAreTheirs' /\ SameBases
<1> DEFINE r    == calls[c].rec
           card == Card(r.op, r.session)
<1>1. /\ TypeOK /\ Dated /\ UNCHANGED <<now, grants, asks>> /\ calls[c].phase = "resolving"
      /\ calls[c] \in CallRecords
  <2>1. TypeOK /\ Dated
    BY DEF GateInv
  <2> QED BY <2>1, CallFields DEF Resolve, store, book
<1>2. PICK pin \in SUBSET Addrs :
        calls' = [calls EXCEPT ![c].phase = "deciding", ![c].pin = pin, ![c].card = card]
  BY DEF Resolve
<1> DEFINE d == [calls[c] EXCEPT !.phase = "deciding", !.pin = pin, !.card = card]
<1>3. r # NoRec /\ OfCall(r, calls[c])
  BY <1>1 DEF AsksAreTheirs
<1>4. card \in Cards /\ (card.kind = "params-edge" => RowFor(grants[card.row], calls[c]))
  <2>1. calls[c].op = r.op /\ calls[c].session = r.session
    BY <1>3 DEF OfCall
  <2> QED BY <1>1, <2>1, CardTyped, CardIsFor
<1> HIDE DEF card
<1>5. /\ d \in CallRecords
      /\ d.op = calls[c].op /\ d.session = calls[c].session /\ d.basis = calls[c].basis
      /\ d.phase = "deciding" /\ d.rec = r /\ d.card = card
  BY <1>1, <1>4 DEF CallRecords
<1>6. calls' = [calls EXCEPT ![c] = d]
  BY <1>1, <1>2 DEF TypeOK
<1> HIDE DEF d
<1>7. OfCall(d.rec, d)
  BY <1>3, <1>5 DEF OfCall
<1>8. d.card.kind = "params-edge" => RowFor(grants[d.card.row], d)
  BY <1>4, <1>5 DEF RowFor
<1>9. AsksAreTheirs'
  BY <1>1, <1>5, <1>6, <1>7, <1>8, DrawnKeeps
<1>10. SameBases
  <2>1. /\ DOMAIN calls' = DOMAIN calls
        /\ \A e \in DOMAIN calls : calls'[e] = IF e = c THEN d ELSE calls[e]
    BY <1>1, <1>6 DEF TypeOK
  <2> QED BY <1>5, <2>1 DEF SameBases
<1> QED BY <1>9, <1>10

(* The steps that neither see a call nor draw a record. *)
QuietStep ==
  \/ \E c \in DOMAIN calls : PolicyAnswer(c) \/ Decide(c)
  \/ \E s \in Sessions, d \in DeskGrants : GrantsGrant(s, d)
  \/ \E p \in PlanPatterns : GrantPlan(p)
  \/ \E i \in DOMAIN grants : RevokeGrant(i)
  \/ \E g \in secrets : RevokeSecret(g)
  \/ \E route \in Routes, rule \in Rules :
       WireRefusal(route.host, IF route.kind = "HostAndPort" THEN route.port ELSE "80", rule)
  \/ Tick \/ Restart
  \/ UNCHANGED vars

LEMMA AnsweredStays ==
  ASSUME TypeOK, NEW c \in DOMAIN calls, Decide(c)
  PROVE  /\ CallsStay \/ WatchAllows(c)
         /\ asks' = asks /\ now' = now
<1>1. \A phase \in {"ran", "refused"} : phase \notin {"asked", "resolving"}
  OBVIOUS
<1>2. CASE Refuse(c) \/ OperatorAllowsUnrecorded(c)
           \/ \E pick \in {NoPattern} \cup Offered, runtime, shown \in BOOLEAN :
                OperatorAllows(c, pick, runtime, shown)
  <2>1. \E phase \in {"ran", "refused"} : calls' = [calls EXCEPT ![c].phase = phase]
    BY <1>2 DEF Refuse, OperatorAllowsUnrecorded, OperatorAllows
  <2>2. now' = now /\ (ReleaseAsk(c) \/ UNCHANGED asks)
    BY <1>2 DEF Refuse, OperatorAllowsUnrecorded, OperatorAllows, store, book
  <2> QED BY <1>1, <2>1, <2>2, PhaseStays, ReleaseAskKept
<1>3. CASE WatchAllows(c)
  BY <1>3, ReleaseAskKept DEF WatchAllows
<1> QED BY <1>2, <1>3 DEF Decide

(* The night watch's allow moves the call to its end, on the row's account. *)
LEMMA WatchStays ==
  ASSUME GateInv, AsksAreTheirs, RowsStay, NEW c \in DOMAIN calls, WatchAllows(c)
  PROVE  /\ AsksAreTheirs'
         /\ CallsStay \/ /\ RowHolds(calls[c].card.row)
                         /\ calls'[c].basis = calls[c].card.row
                         /\ DOMAIN calls' = DOMAIN calls
                         /\ \A e \in DOMAIN calls :
                              /\ calls'[e].op = calls[e].op /\ calls'[e].session = calls[e].session
                              /\ e # c => calls'[e].basis = calls[e].basis
<1> DEFINE row == calls[c].card.row
           d   == [calls[c] EXCEPT !.phase = "ran", !.basis = row]
<1>1. TypeOK /\ asks' = asks /\ now' = now /\ calls[c] \in CallRecords
  BY CallFields, ReleaseAskKept DEF GateInv, WatchAllows
<1>2. CASE calls' = [calls EXCEPT ![c].phase = "refused"]
  <2>1. CallsStay
    <3>1. "refused" \notin {"asked", "resolving"}
      OBVIOUS
    <3> QED BY <1>1, <1>2, <3>1, PhaseStays
  <2> QED BY <1>1, <2>1, QuietKeeps
<1>3. CASE RowHolds(row) /\ calls' = [calls EXCEPT ![c].phase = "ran", ![c].basis = row]
  <2>1. /\ d.op = calls[c].op /\ d.session = calls[c].session /\ d.basis = row
        /\ d.phase = "ran" /\ d.rec = calls[c].rec /\ d.card = calls[c].card
    BY <1>1 DEF CallRecords
  <2>2. calls' = [calls EXCEPT ![c] = d]
    BY <1>1, <1>3 DEF TypeOK
  <2> HIDE DEF d
  <2>3. /\ DOMAIN calls' = DOMAIN calls
        /\ \A e \in DOMAIN calls : calls'[e] = IF e = c THEN d ELSE calls[e]
    BY <1>1, <2>2 DEF TypeOK
  <2>4. /\ DOMAIN calls' = DOMAIN calls
        /\ \A e \in DOMAIN calls :
             /\ calls'[e].op = calls[e].op /\ calls'[e].session = calls[e].session
             /\ calls'[e].rec = calls[e].rec /\ calls'[e].card = calls[e].card
             /\ calls'[e].phase \in {"asked", "resolving"} => calls'[e].phase = calls[e].phase
             /\ e # c => calls'[e].basis = calls[e].basis
    BY <2>1, <2>3
  <2>5. \A r \in asks' : r.callId \in DOMAIN calls' /\ OfCall(r, calls'[r.callId])
    BY <1>1, <2>4 DEF AsksAreTheirs, OfCall
  <2>6. ASSUME NEW e \in DOMAIN calls'
        PROVE  /\ calls'[e].phase = "asked" => \E r \in asks' : r.callId = e /\ r.at = now'
               /\ calls'[e].phase = "resolving" => calls'[e].rec # NoRec
               /\ calls'[e].rec # NoRec => OfCall(calls'[e].rec, calls'[e])
               /\ calls'[e].card.kind = "params-edge" => RowFor(grants'[calls'[e].card.row], calls'[e])
    <3>1. e \in DOMAIN calls
      BY <2>4
    <3>2. /\ calls'[e].phase = "asked" => \E r \in asks' : r.callId = e /\ r.at = now'
          /\ calls'[e].phase = "resolving" => calls'[e].rec # NoRec
          /\ calls'[e].rec # NoRec => OfCall(calls'[e].rec, calls'[e])
      BY <1>1, <2>4, <3>1 DEF AsksAreTheirs, OfCall
    <3>3. ASSUME calls'[e].card.kind = "params-edge"
          PROVE  RowFor(grants'[calls'[e].card.row], calls'[e])
      <4>1. calls[e].card.row \in DOMAIN grants /\ RowFor(grants[calls[e].card.row], calls[e])
        BY <2>4, <3>1, <3>3 DEF AsksAreTheirs, GateInv, CardsNameRows
      <4>2. SameTerms(grants'[calls[e].card.row], grants[calls[e].card.row])
        BY <4>1 DEF RowsStay
      <4>3. calls'[e].card = calls[e].card /\ calls'[e].op = calls[e].op /\ calls'[e].session = calls[e].session
        BY <2>4, <3>1
      <4> QED BY <4>1, <4>2, <4>3, RowForKept
    <3> QED BY <3>2, <3>3
  <2>7. AsksAreTheirs'
    BY <2>5, <2>6 DEF AsksAreTheirs
  <2>8. calls'[c].basis = row
    BY <2>1, <2>3
  <2> QED BY <1>3, <2>4, <2>7, <2>8
<1> QED BY <1>2, <1>3 DEF WatchAllows

LEMMA QuietStepStays ==
  ASSUME Correlated, GateInv, AsksAreTheirs, RowsStay, QuietStep
  PROVE  /\ AsksAreTheirs'
         /\ CallsStay \/ \E c \in DOMAIN calls : WatchAllows(c)
<1>1. TypeOK
  BY DEF GateInv
<1>2. ASSUME NEW c \in DOMAIN calls, PolicyAnswer(c) PROVE AsksAreTheirs' /\ CallsStay
  <2>1. asks' = asks /\ now' = now /\ \E phase \in {"ran", "refused"} : calls' = [calls EXCEPT ![c].phase = phase]
    BY <1>2 DEF PolicyAnswer, book
  <2>2. CallsStay
    BY <1>1, <2>1, PhaseStays
  <2> QED BY <2>1, <2>2, QuietKeeps
<1>3. ASSUME NEW c \in DOMAIN calls, Decide(c) PROVE AsksAreTheirs' /\ (CallsStay \/ WatchAllows(c))
  BY <1>1, <1>3, AnsweredStays, WatchStays, QuietKeeps
<1>4. CASE Restart
  BY <1>1, <1>4, RestartStays, QuietKeeps DEF Restart
<1>5. CASE Tick
  <2>1. UNCHANGED calls /\ asks' = asks /\ \A c \in DOMAIN calls : calls[c].phase # "asked"
    BY <1>5 DEF Tick, Correlated, book
  <2> QED BY <2>1, UntouchedStay, QuietKeeps
<1>6. CASE \/ \E s \in Sessions, d \in DeskGrants : GrantsGrant(s, d)
           \/ \E p \in PlanPatterns : GrantPlan(p)
           \/ \E i \in DOMAIN grants : RevokeGrant(i)
           \/ \E g \in secrets : RevokeSecret(g)
           \/ \E route \in Routes, rule \in Rules :
                WireRefusal(route.host, IF route.kind = "HostAndPort" THEN route.port ELSE "80", rule)
           \/ UNCHANGED vars
  <2>1. UNCHANGED <<calls, asks, now>>
    BY <1>6 DEF GrantsGrant, GrantPlan, RevokeGrant, RevokeSecret, WireRefusal, vars, book
  <2> QED BY <2>1, UntouchedStay, QuietKeeps
<1> QED BY <1>2, <1>3, <1>4, <1>5, <1>6 DEF QuietStep

LEMMA GateKeepsAsks ==
  ASSUME GateInv, AsksAreTheirs, RowsStay, NEW s \in Sessions, NEW o \in Ops, Gate(s, o)
  PROVE  AsksAreTheirs'
<1>1. ASSUME NEW phase \in {"ran", "refused"}, NEW basis \in Nat,
             calls' = Append(calls, Call(s, o, phase, basis)), now' = now, asks' = asks
      PROVE  AsksAreTheirs'
  <2>1. phase \in Phases \ {"resolving"} /\ phase # "asked"
    BY DEF Phases
  <2> QED BY <1>1, <2>1, SeenKeepsAsks
<1>2. CASE calls' = Append(calls, Call(s, o, "asked", 0)) /\ now' = now /\ asks' = asks \cup {AskRecord(s, o)}
  <2>1. "asked" \in Phases \ {"resolving"} /\ 0 \in Nat
    BY DEF Phases
  <2> QED BY <1>2, <2>1, SeenKeepsAsks
<1>3. CASE GateTargetless(s, o)
  BY <1>1, <1>2, <1>3 DEF GateTargetless, Ran, Asked
<1>4. CASE GateTarget(s, o)
  <2> DEFINE plan == Covering(o, "plan")
             sess == { i \in Covering(o, "session") : ScopeOk(grants[i], s) }
             row  == FirstOf(IF plan # {} THEN plan ELSE sess)
  <2>1. /\ now' = now
        /\ \/ asks' = asks /\ \E phase \in {"ran", "refused"} : calls' = Append(calls, Call(s, o, phase, 0))
           \/ asks' = asks /\ plan \cup sess # {} /\ calls' = Append(calls, Call(s, o, "ran", row))
           \/ asks' = asks \cup {AskRecord(s, o)} /\ calls' = Append(calls, Call(s, o, "asked", 0))
    BY <1>4 DEF GateTarget, Ran, Asked
  <2>2. plan \cup sess # {} => row \in Nat
    <3>1. plan \cup sess # {} => row \in DOMAIN grants
      BY CoveringRow DEF GateInv
    <3> HIDE DEF row, plan, sess
    <3> QED BY <3>1 DEF GateInv, TypeOK
  <2> HIDE DEF row, plan, sess
  <2> QED BY <1>1, <1>2, <2>1, <2>2
<1> QED BY <1>3, <1>4 DEF Gate

LEMMA AsksKept ==
  ASSUME Correlated, GateInv, AsksAreTheirs, [Next]_vars
  PROVE  AsksAreTheirs'
<1>1. RowsStay
  BY TermsStay
<1>2. ASSUME NEW c \in DOMAIN calls, NEW withId \in DispatchIds, Dispatch(c, withId)
      PROVE  AsksAreTheirs'
  <2>1. withId = TRUE
    BY DEF Correlated
  <2> QED BY <1>2, <2>1, DispatchKeepsAsks
<1>3. ASSUME NEW c \in DOMAIN calls, Resolve(c) PROVE AsksAreTheirs'
  BY <1>3, ResolveKeepsAsks
<1>4. ASSUME NEW s \in Sessions, NEW o \in Ops, Gate(s, o) PROVE AsksAreTheirs'
  BY <1>1, <1>4, GateKeepsAsks
<1>5. CASE QuietStep
  BY <1>1, <1>5, QuietStepStays
<1> QED BY <1>2, <1>3, <1>4, <1>5 DEF Next, QuietStep

(* Concurrent asks of one tool never claim each other's records: what a    *)
(* request holds, and the card drawn of it, is of its own call (takeAsk).  *)
THEOREM RecordsAreTheirs == Spec => [](Correlated => AsksAreTheirs)
<1>1. Init => (Correlated => AsksAreTheirs)
  BY DEF Init, AsksAreTheirs
<1>2. GateInv /\ (Correlated => AsksAreTheirs) /\ [Next]_vars => (Correlated => AsksAreTheirs)'
  <2>1. Correlated' <=> Correlated
    BY DEF Correlated
  <2> QED BY <2>1, AsksKept
<1> QED BY <1>1, <1>2, GateInvariant, PTL DEF Spec

-----------------------------------------------------------------------------
(* Whose account a call runs on *)

(* A row that covers an operation in a session's scope is a row for its call. *)
LEMMA CoveringIsFor ==
  ASSUME NEW s, NEW o, NEW d, d.op = o, d.session = s, NEW i,
         i \in Covering(o, "plan") \/ (i \in Covering(o, "session") /\ ScopeOk(grants[i], s))
  PROVE  /\ Live(grants[i]) /\ Unspent(grants[i])
         /\ RowFor(grants[i], d)
BY DEF Covering, RowFor, PatternMatches

LEMMA GateRunsUnder ==
  ASSUME GateInv, NEW s \in Sessions, NEW o \in Ops, Gate(s, o)
  PROVE  \/ SameBases
         \/ \E i \in DOMAIN grants : \E c :
              /\ c \in DOMAIN calls' /\ Paid(i, c)
              /\ Live(grants[i]) /\ Unspent(grants[i]) /\ RowFor(grants[i], calls'[c])
<1> DEFINE plan == Covering(o, "plan")
           sess == { i \in Covering(o, "session") : ScopeOk(grants[i], s) }
           row  == FirstOf(IF plan # {} THEN plan ELSE sess)
<1>1. TypeOK
  BY DEF GateInv
<1>2. \/ \E phase \in {"ran", "asked", "refused"} : calls' = Append(calls, Call(s, o, phase, 0))
      \/ plan \cup sess # {} /\ grants' = Consumed(row) /\ calls' = Append(calls, Call(s, o, "ran", row))
  BY DEF Gate, GateTargetless, GateTarget, Ran, Asked
<1>3. CASE \E phase \in {"ran", "asked", "refused"} : calls' = Append(calls, Call(s, o, phase, 0))
  BY <1>1, <1>3, SeenKeeps DEF Phases
<1>4. CASE plan \cup sess # {} /\ grants' = Consumed(row) /\ calls' = Append(calls, Call(s, o, "ran", row))
  <2>1. row \in DOMAIN grants /\ row \in (plan \cup sess) /\ row \in Nat
    <3>1. row \in DOMAIN grants
      BY <1>1, <1>4, CoveringRow
    <3>2. plan \in SUBSET Nat /\ sess \in SUBSET Nat
      BY <1>1 DEF Covering, TypeOK
    <3>3. row \in plan \cup sess
      <4> HIDE DEF plan, sess
      <4> QED BY <1>4, <3>2, FirstOfIsAMember
    <3> QED BY <1>1, <3>1, <3>3 DEF TypeOK
  <2>2. row \in Covering(o, "plan") \/ (row \in Covering(o, "session") /\ ScopeOk(grants[row], s))
    <3> HIDE DEF row
    <3> QED BY <2>1
  <2> HIDE DEF row, plan, sess
  <2> DEFINE new == Call(s, o, "ran", row)
             n   == Len(calls) + 1
  <2>3. new.op = o /\ new.session = s
    BY DEF Call
  <2>4. Live(grants[row]) /\ Unspent(grants[row]) /\ RowFor(grants[row], new)
    BY <2>2, <2>3, CoveringIsFor
  <2>5. /\ DOMAIN calls' = DOMAIN calls \cup {n} /\ n \notin DOMAIN calls
        /\ calls'[n] = new
        /\ \A d \in DOMAIN calls' : calls'[d].basis = IF d = n THEN row ELSE calls[d].basis
    <3>1. "ran" \in Phases /\ "ran" \notin Waiting
      BY DEF Phases, Waiting
    <3>2. /\ DOMAIN calls' = DOMAIN calls \cup {n} /\ n \notin DOMAIN calls
          /\ \A d \in DOMAIN calls' : calls'[d].basis = IF d = n THEN row ELSE calls[d].basis
      BY <1>1, <1>4, <2>1, <3>1, SeenKeeps
    <3>3. new \in CallRecords /\ calls \in Seq(CallRecords) /\ calls' = Append(calls, new)
      BY <1>1, <1>4, <2>1, <3>1, CallSeen DEF TypeOK
    <3> HIDE DEF new
    <3>4. calls'[n] = new
      BY <3>3, AppendProperties
    <3> QED BY <3>2, <3>4
  <2> HIDE DEF new, n
  <2>6. Paid(row, n)
    BY <1>4, <2>1, <2>4, <2>5 DEF Paid
  <2> QED BY <2>1, <2>4, <2>5, <2>6
<1> QED BY <1>2, <1>3, <1>4

(* A call that runs on a grant's account runs under a grant that is live,  *)
(* unspent, in its session's scope and on its route at that very step      *)
(* (coveringGrants; answerRequest's re-check of the night watch's row).    *)
THEOREM RunsAlwaysUnder == ASSUME Correlated PROVE Spec => RunsUnderItsGrant
<1> DEFINE Under == \A c \in DOMAIN calls' :
       (calls'[c].basis # 0 /\ (c \in DOMAIN calls => calls[c].basis = 0)) =>
         LET g == grants[calls'[c].basis] IN
         /\ Live(g) /\ Unspent(g)
         /\ g.layer = "session" => ScopeOk(g, calls'[c].session)
         /\ PatternPrefixMatches(g.pattern, calls'[c].op.target)
<1>1. GateInv /\ AsksAreTheirs /\ Next => Under
  <2> SUFFICES ASSUME GateInv, AsksAreTheirs, Next PROVE Under
    OBVIOUS
  <2>1. CASE SameBases
    BY <2>1 DEF SameBases
  <2>2. CASE CallsStay
    BY <2>2 DEF CallsStay, Moved
  <2>3. ASSUME NEW i \in DOMAIN grants, NEW c, c \in DOMAIN calls', Paid(i, c),
               Live(grants[i]), Unspent(grants[i]), RowFor(grants[i], calls'[c])
        PROVE  Under
    <3>1. \A d \in DOMAIN calls' : d # c => d \in DOMAIN calls /\ calls'[d].basis = calls[d].basis
      BY <2>3 DEF Paid
    <3>2. calls'[c].basis = i
      BY <2>3 DEF Paid
    <3> QED BY <2>3, <3>1, <3>2 DEF RowFor
  <2>4. ASSUME NEW c \in DOMAIN calls, WatchAllows(c), ~CallsStay
        PROVE  Under
    <3>1. /\ RowHolds(calls[c].card.row) /\ calls'[c].basis = calls[c].card.row
          /\ DOMAIN calls' = DOMAIN calls
          /\ \A e \in DOMAIN calls :
               /\ calls'[e].op = calls[e].op /\ calls'[e].session = calls[e].session
               /\ e # c => calls'[e].basis = calls[e].basis
      BY <2>4, TermsStay, WatchStays
    <3>2. RowFor(grants[calls[c].card.row], calls[c])
      BY <2>4 DEF WatchAllows, AsksAreTheirs
    <3> QED BY <3>1, <3>2 DEF RowHolds, RowFor
  <2>5. CASE QuietStep
    BY <2>2, <2>4, <2>5, TermsStay, QuietStepStays
  <2>6. ASSUME NEW s \in Sessions, NEW o \in Ops, Gate(s, o) PROVE Under
    <3>1. CASE ~SameBases
      <4>1. PICK i \in DOMAIN grants : \E c : /\ c \in DOMAIN calls' /\ Paid(i, c)
                   /\ Live(grants[i]) /\ Unspent(grants[i]) /\ RowFor(grants[i], calls'[c])
        BY <2>6, <3>1, GateRunsUnder
      <4>2. PICK c : /\ c \in DOMAIN calls' /\ Paid(i, c)
                     /\ Live(grants[i]) /\ Unspent(grants[i]) /\ RowFor(grants[i], calls'[c])
        BY <4>1
      <4> HIDE DEF Under
      <4> QED BY <4>2, <2>3
    <3> QED BY <2>1, <3>1
  <2>7. ASSUME NEW c \in DOMAIN calls, Resolve(c) PROVE Under
    BY <2>1, <2>7, ResolveKeepsAsks
  <2>8. ASSUME NEW c \in DOMAIN calls, NEW withId \in DispatchIds, Dispatch(c, withId) PROVE Under
    <3>1. withId = TRUE
      BY DEF Correlated
    <3> QED BY <2>1, <2>8, <3>1, DispatchKeepsAsks
  <2> HIDE DEF Under
  <2> QED BY <2>5, <2>6, <2>7, <2>8 DEF Next, QuietStep
<1>2. GateInv /\ AsksAreTheirs /\ [Next]_vars => [Under]_vars
  BY <1>1
<1>3. Spec => []AsksAreTheirs
  BY RecordsAreTheirs, PTL
<1> QED BY <1>2, <1>3, GateInvariant, PTL DEF Spec, RunsUnderItsGrant

-----------------------------------------------------------------------------
(* What is cached *)

(* An operation's fingerprint tells whether the mediator delivers it: the  *)
(* same command, or the same read of the same target, goes the same way.   *)
DeliveredAlike ==
  \A o, p \in Ops : Fingerprint(o) = Fingerprint(p) => o.delivery = p.delivery

(* The store gains no approval and no secret; what the operator allowed stays said. *)
NothingGained ==
  /\ \A fp \in FPs : cache'[fp] # NoEntry => cache'[fp] = cache[fp]
  /\ \A g \in secrets' : \E h \in secrets : g.fp = h.fp /\ g.session = h.session
  /\ yes \subseteq yes'

LEMMA CacheShrinks ==
  ASSUME TypeOK, yes \subseteq yes',
         \A g \in secrets' : \E h \in secrets : g.fp = h.fp /\ g.session = h.session,
         \/ UNCHANGED cache
         \/ \E S : cache' = WithoutEntries(S)
         \/ \E fp \in FPs : cache' = CacheProbed(fp)
  PROVE  NothingGained
BY DEF NothingGained, WithoutEntries, CacheProbed, TypeOK

(* Only the operator's allow writes the cache and the secrets. *)
LEMMA OthersGainNothing ==
  ASSUME GateInv, [Next]_vars,
         ~\E c \in DOMAIN calls, pick \in {NoPattern} \cup Offered, runtime, shown \in BOOLEAN :
            OperatorAllows(c, pick, runtime, shown)
  PROVE  NothingGained
<1>1. TypeOK
  BY DEF GateInv
<1>2. ASSUME UNCHANGED secrets, UNCHANGED yes \/ \E y : yes' = yes \cup {y},
             \/ UNCHANGED cache
             \/ \E S : cache' = WithoutEntries(S)
             \/ \E fp \in FPs : cache' = CacheProbed(fp)
      PROVE  NothingGained
  BY <1>1, <1>2, CacheShrinks
<1>3. ASSUME NEW s \in Sessions, NEW o \in Ops, Gate(s, o) PROVE NothingGained
  <2>1. UNCHANGED <<secrets, yes>> /\ (UNCHANGED cache \/ cache' = CacheProbed(Fingerprint(o)))
    BY <1>3 DEF Gate, GateTargetless, GateTarget
  <2>2. Fingerprint(o) \in FPs
    BY DEF FPs
  <2> QED BY <1>2, <2>1, <2>2
<1>4. ASSUME NEW c \in DOMAIN calls, Decide(c) PROVE NothingGained
  <2>1. Refuse(c) \/ OperatorAllowsUnrecorded(c) \/ WatchAllows(c)
    BY <1>4 DEF Decide
  <2>2. UNCHANGED <<secrets, cache>> /\ (UNCHANGED yes \/ \E y : yes' = yes \cup {y})
    BY <2>1 DEF Refuse, OperatorAllowsUnrecorded, WatchAllows, store
  <2> QED BY <1>2, <2>2
<1>5. ASSUME NEW g \in secrets, RevokeSecret(g) PROVE NothingGained
  <2>1. [g EXCEPT !.revokedAt = now].fp = g.fp /\ [g EXCEPT !.revokedAt = now].session = g.session
    BY <1>1 DEF TypeOK, SecretRows
  <2>2. /\ secrets' = (secrets \ {g}) \cup {[g EXCEPT !.revokedAt = now]}
        /\ cache' = WithoutEntries(ReplayOf(g)) /\ UNCHANGED yes
    BY <1>5 DEF RevokeSecret
  <2>3. \A h \in secrets' : \E k \in secrets : h.fp = k.fp /\ h.session = k.session
    BY <2>1, <2>2
  <2> QED BY <1>1, <2>2, <2>3, CacheShrinks
<1>6. CASE \/ \E c \in DOMAIN calls : PolicyAnswer(c) \/ Resolve(c)
           \/ \E c \in DOMAIN calls, withId \in DispatchIds : Dispatch(c, withId)
           \/ \E s \in Sessions, d \in DeskGrants : GrantsGrant(s, d)
           \/ \E p \in PlanPatterns : GrantPlan(p)
           \/ \E i \in DOMAIN grants : RevokeGrant(i)
           \/ \E route \in Routes, rule \in Rules :
                WireRefusal(route.host, IF route.kind = "HostAndPort" THEN route.port ELSE "80", rule)
           \/ Tick \/ Restart
           \/ UNCHANGED vars
  <2>1. UNCHANGED <<secrets, yes>> /\ (UNCHANGED cache \/ \E S : cache' = WithoutEntries(S))
    BY <1>6 DEF PolicyAnswer, Resolve, Dispatch, GrantsGrant, GrantPlan, RevokeGrant, WireRefusal, Tick, Restart,
                vars, store
  <2> QED BY <1>2, <2>1
<1> QED BY <1>3, <1>4, <1>5, <1>6 DEF Next

LEMMA GainlessKeeps ==
  ASSUME OnlyWhatWasApproved, ReplayWithinEgressLife, RowsStay, NothingGained
  PROVE  OnlyWhatWasApproved' /\ ReplayWithinEgressLife'
<1>1. OnlyWhatWasApproved'
  BY DEF OnlyWhatWasApproved, NothingGained
<1>2. ASSUME NEW o \in Ops, EgressBound(o), cache'[Fingerprint(o)] # NoEntry
      PROVE  \E i \in DOMAIN grants' :
               /\ grants'[i].pattern = EgressPatternFor(cache'[Fingerprint(o)].target)
               /\ grants'[i].createdAt = cache'[Fingerprint(o)].grantedAt
               /\ grants'[i].class = o.methodClass
               /\ grants'[i].expiresAt >= cache'[Fingerprint(o)].expiresAt
  <2>1. cache'[Fingerprint(o)] = cache[Fingerprint(o)]
    BY <1>2 DEF NothingGained, FPs
  <2>2. PICK i \in DOMAIN grants :
          /\ grants[i].pattern = EgressPatternFor(cache[Fingerprint(o)].target)
          /\ grants[i].createdAt = cache[Fingerprint(o)].grantedAt
          /\ grants[i].class = o.methodClass
          /\ grants[i].expiresAt >= cache[Fingerprint(o)].expiresAt
    BY <1>2, <2>1 DEF ReplayWithinEgressLife
  <2>3. i \in DOMAIN grants' /\ SameTerms(grants'[i], grants[i])
    BY DEF RowsStay
  <2> QED BY <2>1, <2>2, <2>3 DEF SameTerms
<1>3. ReplayWithinEgressLife'
  BY <1>2 DEF ReplayWithinEgressLife, EgressBound
<1> QED BY <1>1, <1>3

(* Acts with one fingerprint are bound to the mediator alike, with one class. *)
LEMMA BoundAlike ==
  ASSUME DeliveredAlike, NEW o \in Ops, NEW p \in Ops, Fingerprint(o) = Fingerprint(p), EgressBound(o)
  PROVE  EgressBound(p) /\ p.methodClass = o.methodClass
<1>1. CanonicalTarget(o.target) = CanonicalTarget(p.target)
  BY DEF Fingerprint
<1>2. p.methodClass = o.methodClass
  BY DEF Fingerprint, EgressBound, None
<1> QED BY <1>1, <1>2 DEF EgressBound, DeliveredAlike

(* An allowed act that rides the mediator mints its egress row first, and the *)
(* row lives at least as long as the cached approval.                         *)
LEMMA MintsItsEgress ==
  ASSUME TypeOK, NEW c \in DOMAIN calls, NEW pick, NEW runtime \in BOOLEAN, NEW shown \in BOOLEAN,
         OperatorAllows(c, pick, runtime, shown), EgressBound(calls[c].rec.op)
  PROVE  \E i \in DOMAIN grants' :
           /\ grants'[i].pattern = EgressPatternFor(CanonicalTarget(calls[c].rec.op.target))
           /\ grants'[i].createdAt = now
           /\ grants'[i].class = calls[c].rec.op.methodClass
           /\ grants'[i].expiresAt >= now + CacheTtlFor(calls[c].rec.op)
<1> DEFINE r == calls[c].rec
           picked == pick # NoPattern
           root == IF picked /\ runtime THEN None ELSE r.root
           session == IF picked /\ runtime THEN None ELSE r.session
           class == IF r.op.methodClass \in {"read", "write"} THEN r.op.methodClass ELSE None
           leg == SessionGrant(EgressPatternFor(CanonicalTarget(r.op.target)), root, session, class,
                               EgressTtl, 0, IF shown THEN calls[c].pin ELSE {})
           row == SessionGrant(pick, root, session, class, PatternTtl, PatternUses, {})
           rest == IF picked THEN <<row>> ELSE << >>
           rows == MintedRows(c, pick, runtime, shown)
<1>1. /\ rows \in Seq(GrantRows) /\ grants \in Seq(GrantRows) /\ grants' = grants \o rows
  BY MintedAreRows DEF OperatorAllows, TypeOK
<1>2. rows = <<leg>> \o rest
  BY DEF MintedRows
<1>3. /\ leg.pattern = EgressPatternFor(CanonicalTarget(r.op.target))
      /\ leg.createdAt = now /\ leg.expiresAt = now + EgressTtl /\ leg.class = class
  BY DEF SessionGrant
<1>4. class = r.op.methodClass
  BY DEF EgressBound
<1>5. now + EgressTtl >= now + CacheTtlFor(r.op)
  <2>1. now \in Nat /\ EgressTtl \in Nat /\ CacheTtl \in Nat
    BY TermsAssumption DEF TypeOK
  <2>2. CacheTtlFor(r.op) \in Nat /\ CacheTtlFor(r.op) <= EgressTtl
    BY <2>1 DEF CacheTtlFor
  <2> QED BY <2>1, <2>2
<1>6. Len(rows) >= 1 /\ rows[1] = leg
  <2> HIDE DEF leg, row, rows
  <2>1. rest = <<row>> \/ rest = << >>
    OBVIOUS
  <2>2. rest \in Seq({row})
    <3>1. <<row>> \in Seq({row}) /\ << >> \in Seq({row})
      OBVIOUS
    <3> HIDE DEF rest
    <3> QED BY <2>1, <3>1
  <2> HIDE DEF rest
  <2>3. <<leg>> \in Seq({row, leg}) /\ rest \in Seq({row, leg})
    BY <2>2, SeqMonotonic
  <2> QED BY <1>2, <2>3, ConcatProperties
<1> HIDE DEF leg, rows
<1>7. Len(grants) + 1 \in DOMAIN grants' /\ grants'[Len(grants) + 1] = leg
  BY <1>1, <1>6, ConcatProperties
<1> QED BY <1>3, <1>4, <1>5, <1>7

LEMMA AllowKeeps ==
  ASSUME DeliveredAlike, GateInv, AsksAreTheirs, OnlyWhatWasApproved, ReplayWithinEgressLife, RowsStay,
         NEW c \in DOMAIN calls, NEW pick, NEW runtime \in BOOLEAN, NEW shown \in BOOLEAN,
         OperatorAllows(c, pick, runtime, shown)
  PROVE  OnlyWhatWasApproved' /\ ReplayWithinEgressLife'
<1> DEFINE r == calls[c].rec
           entry == [grantedAt |-> now, expiresAt |-> now + CacheTtlFor(r.op),
                     target |-> CanonicalTarget(r.op.target)]
           given == [fp |-> Fingerprint(calls[c].op), session |-> calls[c].session]
<1>1. /\ TypeOK /\ r # NoRec /\ yes' = yes \cup {given} /\ secrets' = secrets \cup NewSecrets(r)
      /\ cache' = cache \/ cache' = [cache EXCEPT ![r.fp] = entry]
  BY DEF GateInv, OperatorAllows
<1>2. r.op = calls[c].op /\ r.session = calls[c].session /\ r.fp = Fingerprint(calls[c].op)
  BY <1>1 DEF AsksAreTheirs, OfCall
<1>3. r.op \in Ops /\ r.fp = Fingerprint(r.op)
  BY <1>1, <1>2, CallFields
<1>4. \A fp \in FPs : cache'[fp] = cache[fp] \/ (fp = r.fp /\ cache'[fp] = entry)
  <2> HIDE DEF entry
  <2> QED BY <1>1 DEF TypeOK
<1>5. OnlyWhatWasApproved'
  <2>1. given \in yes' /\ given.fp = r.fp /\ given.session = r.session
    BY <1>1, <1>2
  <2>2. ASSUME NEW fp \in FPs, cache'[fp] # NoEntry
        PROVE  \E y \in yes' : y.fp = fp
    <3> HIDE DEF entry, given
    <3> QED BY <1>1, <1>4, <2>1, <2>2 DEF OnlyWhatWasApproved
  <2>3. ASSUME NEW g \in secrets'
        PROVE  [fp |-> g.fp, session |-> g.session] \in yes'
    <3>1. CASE g \in secrets
      BY <1>1, <3>1 DEF OnlyWhatWasApproved
    <3>2. CASE g \in NewSecrets(r)
      <4>1. g.fp = r.fp /\ g.session = r.session
        BY <3>2 DEF NewSecrets
      <4>2. [fp |-> g.fp, session |-> g.session] = given
        BY <1>2, <4>1
      <4> QED BY <1>1, <4>2
    <3> QED BY <1>1, <2>3, <3>1, <3>2
  <2> QED BY <2>2, <2>3 DEF OnlyWhatWasApproved, FPs
<1>6. ASSUME NEW o \in Ops, EgressBound(o), cache'[Fingerprint(o)] # NoEntry
      PROVE  \E i \in DOMAIN grants' :
               /\ grants'[i].pattern = EgressPatternFor(cache'[Fingerprint(o)].target)
               /\ grants'[i].createdAt = cache'[Fingerprint(o)].grantedAt
               /\ grants'[i].class = o.methodClass
               /\ grants'[i].expiresAt >= cache'[Fingerprint(o)].expiresAt
  <2>1. Fingerprint(o) \in FPs
    BY DEF FPs
  <2>2. CASE cache'[Fingerprint(o)] = cache[Fingerprint(o)]
    <3>1. PICK i \in DOMAIN grants :
            /\ grants[i].pattern = EgressPatternFor(cache[Fingerprint(o)].target)
            /\ grants[i].createdAt = cache[Fingerprint(o)].grantedAt
            /\ grants[i].class = o.methodClass
            /\ grants[i].expiresAt >= cache[Fingerprint(o)].expiresAt
      BY <1>6, <2>2 DEF ReplayWithinEgressLife
    <3>2. i \in DOMAIN grants' /\ SameTerms(grants'[i], grants[i])
      BY DEF RowsStay
    <3> QED BY <2>2, <3>1, <3>2 DEF SameTerms
  <2>3. CASE Fingerprint(o) = r.fp /\ cache'[Fingerprint(o)] = entry
    <3>1. EgressBound(r.op) /\ r.op.methodClass = o.methodClass
      BY <1>3, <1>6, <2>3, BoundAlike
    <3>2. /\ entry.target = CanonicalTarget(r.op.target) /\ entry.grantedAt = now
          /\ entry.expiresAt = now + CacheTtlFor(r.op)
      OBVIOUS
    <3> HIDE DEF entry
    <3> QED BY <1>1, <2>3, <3>1, <3>2, MintsItsEgress
  <2> QED BY <1>4, <2>1, <2>2, <2>3
<1>7. ReplayWithinEgressLife'
  BY <1>6 DEF ReplayWithinEgressLife, EgressBound
<1> QED BY <1>5, <1>7

(* A cached approval is one the operator gave, to the session the secret   *)
(* was granted to, and no longer than the egress row minted with it        *)
(* (takeAsk's correlation, cacheTtlFor).                                   *)
THEOREM CacheAlwaysApproved ==
  ASSUME Correlated, DeliveredAlike PROVE Spec => []CacheIsTheApprovals
<1>1. Init => CacheIsTheApprovals
  BY DEF Init, CacheIsTheApprovals, OnlyWhatWasApproved, ReplayWithinEgressLife, FPs
<1>2. GateInv /\ AsksAreTheirs /\ CacheIsTheApprovals /\ [Next]_vars => CacheIsTheApprovals'
  <2> SUFFICES ASSUME GateInv, AsksAreTheirs, CacheIsTheApprovals, [Next]_vars
               PROVE  CacheIsTheApprovals'
    OBVIOUS
  <2>1. RowsStay /\ OnlyWhatWasApproved /\ ReplayWithinEgressLife
    BY TermsStay DEF CacheIsTheApprovals
  <2>2. CASE \E c \in DOMAIN calls, pick \in {NoPattern} \cup Offered, runtime, shown \in BOOLEAN :
               OperatorAllows(c, pick, runtime, shown)
    BY <2>1, <2>2, AllowKeeps DEF CacheIsTheApprovals
  <2>3. CASE ~\E c \in DOMAIN calls, pick \in {NoPattern} \cup Offered, runtime, shown \in BOOLEAN :
               OperatorAllows(c, pick, runtime, shown)
    BY <2>1, <2>3, OthersGainNothing, GainlessKeeps DEF CacheIsTheApprovals
  <2> QED BY <2>2, <2>3
<1>3. Spec => []AsksAreTheirs
  BY RecordsAreTheirs, PTL
<1> QED BY <1>1, <1>2, <1>3, GateInvariant, PTL DEF Spec

-----------------------------------------------------------------------------
(* What waits.  Where no command names a secret and every session is of    *)
(* one lineage, each slot taken is backed by a pending record.             *)

OneLineage == \A s, t \in Sessions : RootOf[s] = RootOf[t]
Plain == OneLineage /\ Secrets = {}

Holding(p, r) == { fp \in FPs : p[fp] # NoPending /\ p[fp].root = r }
Backed(f, p) == \A r \in Sessions : f[r] <= Cardinality(Holding(p, r))

(* Roots are those of sessions. *)
IsRoot(r) == \E s \in Sessions : r = RootOf[s]
RootsAreKnown ==
  /\ \A fp \in FPs : pending[fp] # NoPending => IsRoot(pending[fp].root)
  /\ \A r \in asks : IsRoot(r.root)
  /\ \A c \in DOMAIN calls : calls[c].rec # NoRec => IsRoot(calls[c].rec.root)

Tables == [FPs -> PendingRecords \cup {NoPending}]

LEMMA HoldingFinite ==
  ASSUME NEW p, NEW r
  PROVE  IsFiniteSet(Holding(p, r)) /\ Cardinality(Holding(p, r)) \in Nat
<1>1. Holding(p, r) \in SUBSET FPs
  BY DEF Holding
<1> QED BY <1>1, FPsFinite, FS_Subset, FS_CardinalityType

LEMMA PendingIsNone ==
  ASSUME NEW e \in PendingRecords
  PROVE  e # NoPending
BY DEF PendingRecords, NoPending

(* Answering an ask gives back the slot its record backs. *)
LEMMA ReleasedBacked ==
  ASSUME NEW f \in [Sessions -> Nat], NEW p \in Tables, Backed(f, p), NEW fp \in FPs, NEW root \in Sessions,
         p[fp] # NoPending => p[fp].root = root
  PROVE  Backed(Released(f, root), [p EXCEPT ![fp] = NoPending])
<1> DEFINE q == [p EXCEPT ![fp] = NoPending]
<1> SUFFICES ASSUME NEW r \in Sessions
             PROVE  Released(f, root)[r] <= Cardinality(Holding(q, r))
  BY DEF Backed
<1>1. \A x \in FPs : q[x] = IF x = fp THEN NoPending ELSE p[x]
  BY DEF Tables
<1>2. f[r] \in Nat /\ f[r] <= Cardinality(Holding(p, r)) /\ Cardinality(Holding(p, r)) \in Nat
      /\ Cardinality(Holding(q, r)) \in Nat
  BY HoldingFinite DEF Backed
<1>3. CASE r = root
  <2>1. Holding(q, r) = Holding(p, r) \ {fp}
    BY <1>1 DEF Holding
  <2>2. Cardinality(Holding(q, r)) >= Cardinality(Holding(p, r)) - 1
    <3>1. Cardinality(Holding(p, r) \ {fp}) \in {Cardinality(Holding(p, r)) - 1, Cardinality(Holding(p, r))}
      <4>1. IsFiniteSet(Holding(p, r))
        BY HoldingFinite
      <4> QED BY <4>1, FS_RemoveElement
    <3> HIDE DEF q
    <3> QED BY <1>2, <2>1, <3>1
  <2>3. Released(f, root)[r] = IF f[r] > 0 THEN f[r] - 1 ELSE 0
    BY <1>3 DEF Released
  <2> HIDE DEF q
  <2> QED BY <1>2, <2>2, <2>3
<1>4. CASE r # root
  <2>1. Holding(q, r) = Holding(p, r)
    BY <1>1, <1>4 DEF Holding
  <2>2. Released(f, root)[r] = f[r]
    BY <1>4 DEF Released
  <2> QED BY <1>2, <2>1, <2>2
<1> QED BY <1>3, <1>4

(* The sweep takes back as many slots as it forgets records. *)
LEMMA SweptBacked ==
  ASSUME TypeOK, Backed(flood, pending)
  PROVE  Backed(SweptFlood, SweptPending)
<1> SUFFICES ASSUME NEW r \in Sessions
             PROVE  SweptFlood[r] <= Cardinality(Holding(SweptPending, r))
  BY DEF Backed
<1> DEFINE gone == { fp \in Stale : pending[fp].root = r }
<1>1. gone \subseteq Holding(pending, r) /\ Holding(SweptPending, r) = Holding(pending, r) \ gone
  BY DEF Holding, Stale, SweptPending
<1>2. /\ IsFiniteSet(gone) /\ Cardinality(gone) \in Nat
      /\ Cardinality(Holding(pending, r)) \in Nat
      /\ Cardinality(Holding(SweptPending, r)) = Cardinality(Holding(pending, r)) - Cardinality(gone)
  <2>1. Holding(pending, r) \cap gone = gone
    BY <1>1
  <2> HIDE DEF gone
  <2>2. IsFiniteSet(Holding(pending, r)) /\ Cardinality(Holding(pending, r)) \in Nat
    BY HoldingFinite
  <2>3. IsFiniteSet(gone) /\ Cardinality(gone) \in Nat
    BY <1>1, <2>2, FS_Subset, FS_CardinalityType
  <2>4. Cardinality(Holding(pending, r) \ gone) = Cardinality(Holding(pending, r)) - Cardinality(gone)
    BY <2>1, <2>2, FS_Difference
  <2> QED BY <1>1, <2>2, <2>3, <2>4
<1>3. flood[r] \in Nat /\ flood[r] <= Cardinality(Holding(pending, r))
  BY DEF TypeOK, Backed
<1>4. SweptFlood[r] = IF flood[r] > Cardinality(gone) THEN flood[r] - Cardinality(gone) ELSE 0
  BY DEF SweptFlood
<1>5. Cardinality(Holding(SweptPending, r)) \in Nat
  BY HoldingFinite
<1> HIDE DEF gone
<1> QED BY <1>2, <1>3, <1>4, <1>5

(* A new record backs a new slot. *)
LEMMA AddedBacked ==
  ASSUME NEW f \in [Sessions -> Nat], NEW p \in Tables, Backed(f, p), NEW fp \in FPs, p[fp] = NoPending,
         NEW root \in Sessions, NEW e \in PendingRecords, e.root = root
  PROVE  Backed([f EXCEPT ![root] = @ + 1], [p EXCEPT ![fp] = e])
<1> DEFINE q == [p EXCEPT ![fp] = e]
           g == [f EXCEPT ![root] = @ + 1]
<1> SUFFICES ASSUME NEW r \in Sessions
             PROVE  g[r] <= Cardinality(Holding(q, r))
  BY DEF Backed
<1>1. \A x \in FPs : q[x] = IF x = fp THEN e ELSE p[x]
  BY DEF Tables
<1>2. f[r] \in Nat /\ f[r] <= Cardinality(Holding(p, r)) /\ Cardinality(Holding(p, r)) \in Nat
  BY HoldingFinite DEF Backed
<1>3. e # NoPending
  BY PendingIsNone
<1>4. CASE r = root
  <2>1. Holding(q, r) = Holding(p, r) \cup {fp} /\ fp \notin Holding(p, r)
    BY <1>1, <1>3, <1>4 DEF Holding
  <2>2. Cardinality(Holding(q, r)) = Cardinality(Holding(p, r)) + 1
    BY <2>1, HoldingFinite, FS_AddElement
  <2>3. g[r] = f[r] + 1
    BY <1>4
  <2> HIDE DEF q, g
  <2> QED BY <1>2, <2>2, <2>3
<1>5. CASE r # root
  <2>1. Holding(q, r) = Holding(p, r)
    BY <1>1, <1>5 DEF Holding
  <2>2. g[r] = f[r]
    BY <1>5
  <2> QED BY <1>2, <2>1, <2>2
<1> QED BY <1>4, <1>5

(* Counting a duplicate leaves what backs the slots. *)
LEMMA CountedBacked ==
  ASSUME NEW f, NEW p, NEW q, Backed(f, p),
         \A x \in FPs : /\ q[x] # NoPending <=> p[x] # NoPending
                        /\ p[x] # NoPending => q[x].root = p[x].root
  PROVE  Backed(f, q)
<1>1. ASSUME NEW r PROVE Holding(q, r) = Holding(p, r)
  <2>1. \A x \in FPs : (q[x] # NoPending /\ q[x].root = r) <=> (p[x] # NoPending /\ p[x].root = r)
    OBVIOUS
  <2> QED BY <2>1 DEF Holding
<1> QED BY <1>1 DEF Backed

(* The root of an ask is its session's; with one lineage all roots are one. *)
LEMMA OneRoot ==
  ASSUME OneLineage, NEW r, NEW q, IsRoot(r), IsRoot(q)
  PROVE  r = q /\ r \in Sessions
BY ScopesAssumption DEF OneLineage, IsRoot

SlotsInv == RootsAreKnown /\ Backed(flood, pending)

LEMMA SlotsAreBackedIs == Backed(flood, pending) <=> SlotsAreBacked
BY DEF Backed, Holding, SlotsAreBacked

(* The calls hold records they held, or one of the asks. *)
RecsFrom ==
  \A c \in DOMAIN calls' : calls'[c].rec # NoRec =>
    (c \in DOMAIN calls /\ calls'[c].rec = calls[c].rec) \/ calls'[c].rec \in asks

LEMMA RecsOfSeen ==
  ASSUME TypeOK, NEW s \in Sessions, NEW o \in Ops, NEW phase \in Phases, NEW basis \in Nat,
         calls' = Append(calls, Call(s, o, phase, basis))
  PROVE  RecsFrom /\ DOMAIN calls' = DOMAIN calls \cup {Len(calls) + 1}
         /\ (\A c \in DOMAIN calls : calls'[c] = calls[c])
         /\ calls'[Len(calls) + 1].rec = NoRec /\ Len(calls) + 1 \notin DOMAIN calls
<1> DEFINE new == Call(s, o, phase, basis)
<1>1. new.rec = NoRec
  BY DEF Call
<1>2. new \in CallRecords /\ calls \in Seq(CallRecords)
  BY CallSeen DEF TypeOK
<1> HIDE DEF new
<1>3. /\ DOMAIN calls' = DOMAIN calls \cup {Len(calls) + 1} /\ Len(calls) + 1 \notin DOMAIN calls
      /\ \A c \in DOMAIN calls : calls'[c] = calls[c]
      /\ calls'[Len(calls) + 1] = new
  BY <1>2, AppendProperties DEF new
<1> QED BY <1>1, <1>3 DEF RecsFrom

LEMMA StaysRecs ==
  ASSUME CallsStay
  PROVE  RecsFrom
BY DEF CallsStay, Moved, RecsFrom

(* The slots and the records of one step of the gate. *)
LEMMA GateSlots ==
  ASSUME Plain, GateInv, SlotsInv, NEW s \in Sessions, NEW o \in Ops, Gate(s, o)
  PROVE  SlotsInv' /\ RecsFrom
<1> DEFINE fp   == Fingerprint(o)
           root == RootOf[s]
           plan == Covering(o, "plan")
           sess == { i \in Covering(o, "session") : ScopeOk(grants[i], s) }
           row  == FirstOf(IF plan # {} THEN plan ELSE sess)
<1>1. /\ TypeOK /\ o.refs = {} /\ fp \in FPs /\ root \in Sessions /\ IsRoot(root)
      /\ AskRecord(s, o).root = root
  BY OpsAssumption, ScopesAssumption DEF Plain, GateInv, FPs, IsRoot, AskRecord
<1>2. RecsFrom
  <2>1. \/ \E phase \in {"ran", "asked", "refused"} : calls' = Append(calls, Call(s, o, phase, 0))
        \/ plan \cup sess # {} /\ calls' = Append(calls, Call(s, o, "ran", row))
    BY DEF Gate, GateTargetless, GateTarget, Ran, Asked
  <2>2. plan \cup sess # {} => row \in Nat
    <3>1. plan \cup sess # {} => row \in DOMAIN grants
      BY <1>1, CoveringRow
    <3> HIDE DEF row, plan, sess
    <3> QED BY <1>1, <3>1 DEF TypeOK
  <2> HIDE DEF row, plan, sess
  <2> QED BY <1>1, <2>1, <2>2, RecsOfSeen DEF Phases
<1>3. \A r \in asks' : IsRoot(r.root)
  <2>1. asks' = asks \/ asks' = asks \cup {AskRecord(s, o)}
    BY DEF Gate, GateTargetless, GateTarget
  <2> QED BY <1>1, <2>1 DEF SlotsInv, RootsAreKnown
<1>4. \A c \in DOMAIN calls' : calls'[c].rec # NoRec => IsRoot(calls'[c].rec.root)
  BY <1>2 DEF RecsFrom, SlotsInv, RootsAreKnown
<1>5. /\ SweptPending \in Tables /\ SweptFlood \in [Sessions -> Nat] /\ Backed(SweptFlood, SweptPending)
      /\ \A x \in FPs : SweptPending[x] # NoPending => IsRoot(SweptPending[x].root)
  <2>1. \A x \in FPs : SweptPending[x] # NoPending => SweptPending[x] = pending[x]
    BY DEF SweptPending
  <2> QED BY <1>1, <2>1, SweepKept, SweptBacked DEF Tables, SlotsInv, RootsAreKnown
<1>6. Backed(flood', pending') /\ \A x \in FPs : pending'[x] # NoPending => IsRoot(pending'[x].root)
  <2>1. CASE UNCHANGED <<pending, flood>>
    BY <2>1 DEF SlotsInv, RootsAreKnown
  <2>2. CASE pending' = SweptPending /\ flood' = SweptFlood
    BY <1>5, <2>2
  <2>3. CASE /\ SweptPending[fp] # NoPending /\ flood' = SweptFlood
             /\ pending' = [SweptPending EXCEPT ![fp].count = @ + 1]
    <3>1. Backed(flood', pending') /\ pending'[fp].root = SweptPending[fp].root
          /\ \A x \in FPs : x # fp => pending'[x] = SweptPending[x]
      <4> DEFINE e == [SweptPending[fp] EXCEPT !.count = @ + 1]
      <4>1. SweptPending[fp] \in PendingRecords
        BY <1>1, <1>5, <2>3 DEF Tables
      <4>2. e \in PendingRecords /\ e.root = SweptPending[fp].root
        BY <4>1 DEF PendingRecords
      <4>3. pending' = [SweptPending EXCEPT ![fp] = e]
        BY <2>3
      <4> HIDE DEF e, fp
      <4>4. \A x \in FPs : pending'[x] = IF x = fp THEN e ELSE SweptPending[x]
        BY <1>5, <4>3 DEF Tables
      <4>5. e # NoPending
        BY <4>2, PendingIsNone
      <4>6. \A x \in FPs : /\ pending'[x] # NoPending <=> SweptPending[x] # NoPending
                           /\ SweptPending[x] # NoPending => pending'[x].root = SweptPending[x].root
        BY <2>3, <4>2, <4>4, <4>5
      <4>7. Backed(SweptFlood, pending')
        BY <1>5, <4>6, CountedBacked
      <4> QED BY <1>1, <2>3, <4>2, <4>4, <4>7
    <3> QED BY <1>5, <2>3, <3>1
  <2>4. CASE /\ SweptPending[fp] = NoPending
             /\ pending' = [SweptPending EXCEPT ![fp] = [count |-> 1, firstAt |-> now, root |-> root]]
             /\ flood' = [SweptFlood EXCEPT ![root] = @ + 1]
    <3> DEFINE e == [count |-> 1, firstAt |-> now, root |-> root]
    <3>1. e \in PendingRecords /\ e.root = root
      BY <1>1 DEF PendingRecords, TypeOK
    <3>2. \A x \in FPs : pending'[x] = IF x = fp THEN e ELSE SweptPending[x]
      BY <1>5, <2>4 DEF Tables
    <3>3. Backed(flood', pending')
      <4> HIDE DEF e, fp, root
      <4> QED BY <1>1, <1>5, <2>4, <3>1, AddedBacked DEF e
    <3> HIDE DEF e, fp, root
    <3> QED BY <1>1, <1>5, <3>1, <3>2, <3>3
  <2>5. CASE GateTargetless(s, o)
    BY <1>1, <2>1, <2>5 DEF GateTargetless
  <2>6. CASE GateTarget(s, o)
    <3>1. \/ pending' = SweptPending /\ flood' = SweptFlood
          \/ /\ SweptPending[fp] # NoPending /\ flood' = SweptFlood
             /\ pending' = [SweptPending EXCEPT ![fp].count = @ + 1]
          \/ /\ SweptPending[fp] = NoPending
             /\ pending' = [SweptPending EXCEPT ![fp] = [count |-> 1, firstAt |-> now, root |-> root]]
             /\ flood' = [SweptFlood EXCEPT ![root] = @ + 1]
      BY <2>6 DEF GateTarget
    <3> HIDE DEF fp, root
    <3> QED BY <2>2, <2>3, <2>4, <3>1
  <2> QED BY <2>5, <2>6 DEF Gate
<1> QED BY <1>2, <1>3, <1>4, <1>6 DEF SlotsInv, RootsAreKnown, FPs

LEMMA ReleaseSlots ==
  ASSUME Plain, GateInv, SlotsInv, NEW c \in DOMAIN calls, ReleaseAsk(c), RecsFrom
  PROVE  SlotsInv'
<1> DEFINE r == calls[c].rec
<1>1. TypeOK /\ asks' = asks
  BY ReleaseAskKept DEF GateInv
<1>2. \A d \in DOMAIN calls' : calls'[d].rec # NoRec => IsRoot(calls'[d].rec.root)
  BY DEF RecsFrom, SlotsInv, RootsAreKnown
<1>3. \A q \in asks' : IsRoot(q.root)
  BY <1>1 DEF SlotsInv, RootsAreKnown
<1>4. Backed(flood', pending') /\ \A x \in FPs : pending'[x] # NoPending => IsRoot(pending'[x].root)
  <2>1. CASE r = NoRec
    BY <2>1 DEF ReleaseAsk, SlotsInv, RootsAreKnown
  <2>2. CASE r # NoRec
    <3>1. /\ pending' = [pending EXCEPT ![r.fp] = NoPending] /\ flood' = Released(flood, r.root)
          /\ r.fp \in FPs /\ r.root \in Sessions /\ IsRoot(r.root)
      <4>1. r \in AskRecords
        BY <1>1, <2>2, CallFields
      <4> QED BY <2>2, <4>1, AskFields DEF ReleaseAsk, SlotsInv, RootsAreKnown
    <3>2. pending \in Tables /\ flood \in [Sessions -> Nat]
      BY <1>1 DEF TypeOK, Tables, PendingRecords
    <3>3. pending[r.fp] # NoPending => pending[r.fp].root = r.root
      BY <3>1, OneRoot DEF Plain, SlotsInv, RootsAreKnown
    <3>4. \A x \in FPs : pending'[x] # NoPending => pending'[x] = pending[x]
      BY <3>1, <3>2 DEF Tables
    <3> HIDE DEF r
    <3>5. Backed(Released(flood, r.root), [pending EXCEPT ![r.fp] = NoPending])
      BY <3>1, <3>2, <3>3, ReleasedBacked DEF SlotsInv
    <3> QED BY <3>1, <3>4, <3>5 DEF SlotsInv, RootsAreKnown
  <2> QED BY <2>1, <2>2
<1> QED BY <1>2, <1>3, <1>4 DEF SlotsInv, RootsAreKnown, FPs

LEMMA SlotsAlone ==
  ASSUME SlotsInv, RecsFrom, UNCHANGED <<pending, flood>>, asks' \subseteq asks
  PROVE  SlotsInv'
<1>1. \A d \in DOMAIN calls' : calls'[d].rec # NoRec => IsRoot(calls'[d].rec.root)
  BY DEF RecsFrom, SlotsInv, RootsAreKnown
<1>2. \A q \in asks' : IsRoot(q.root)
  BY DEF SlotsInv, RootsAreKnown
<1>3. Backed(flood', pending')
  BY DEF SlotsInv
<1> QED BY <1>1, <1>2, <1>3 DEF SlotsInv, RootsAreKnown, FPs

(* The steps that give no call a record. *)
SameRecs ==
  /\ DOMAIN calls' = DOMAIN calls /\ asks' \subseteq asks
  /\ \A c \in DOMAIN calls : calls'[c].rec = calls[c].rec

(* Call c draws a record of the queue, or none. *)
DrawnBy(c) ==
  /\ DOMAIN calls' = DOMAIN calls /\ asks' \subseteq asks
  /\ \A d \in DOMAIN calls : d # c => calls'[d].rec = calls[d].rec
  /\ calls'[c].rec = calls[c].rec \/ calls'[c].rec \in asks \ asks'

LEMMA StaysSameRecs ==
  ASSUME CallsStay, asks' \subseteq asks
  PROVE  SameRecs
BY DEF CallsStay, Moved, SameRecs

LEMMA AnsweredRecs ==
  ASSUME TypeOK, NEW c \in DOMAIN calls, PolicyAnswer(c) \/ Decide(c)
  PROVE  SameRecs
<1>1. CASE PolicyAnswer(c)
  <2>1. asks' = asks /\ \E phase \in {"ran", "refused"} : calls' = [calls EXCEPT ![c].phase = phase]
    BY <1>1 DEF PolicyAnswer, book
  <2> QED BY <2>1, PhaseStays, StaysSameRecs
<1>2. CASE Decide(c)
  <2>1. CASE CallsStay
    BY <1>2, <2>1, AnsweredStays, StaysSameRecs
  <2>2. CASE WatchAllows(c)
    <3>1. asks' = asks /\ calls[c] \in CallRecords
      BY <2>2, CallFields, ReleaseAskKept DEF WatchAllows
    <3>2. CASE calls' = [calls EXCEPT ![c].phase = "refused"]
      <4>1. "refused" \notin {"asked", "resolving"}
        OBVIOUS
      <4> QED BY <3>1, <3>2, <4>1, PhaseStays, StaysSameRecs
    <3>3. CASE calls' = [calls EXCEPT ![c].phase = "ran", ![c].basis = calls[c].card.row]
      <4>1. [calls[c] EXCEPT !.phase = "ran", !.basis = calls[c].card.row].rec = calls[c].rec
        BY <3>1 DEF CallRecords
      <4>2. /\ DOMAIN calls' = DOMAIN calls
            /\ \A d \in DOMAIN calls :
                 calls'[d] = IF d = c THEN [calls[c] EXCEPT !.phase = "ran", !.basis = calls[c].card.row]
                             ELSE calls[d]
        BY <3>3 DEF TypeOK
      <4> QED BY <3>1, <4>1, <4>2 DEF SameRecs
    <3> QED BY <2>2, <3>2, <3>3 DEF WatchAllows
  <2> QED BY <1>2, <2>1, <2>2, AnsweredStays
<1> QED BY <1>1, <1>2

LEMMA ResolveRecs ==
  ASSUME TypeOK, NEW c \in DOMAIN calls, Resolve(c)
  PROVE  SameRecs
<1> DEFINE card == Card(calls[c].rec.op, calls[c].rec.session)
<1>1. PICK pin \in SUBSET Addrs :
        calls' = [calls EXCEPT ![c].phase = "deciding", ![c].pin = pin, ![c].card = card]
  BY DEF Resolve
<1> HIDE DEF card
<1> DEFINE d == [calls[c] EXCEPT !.phase = "deciding", !.pin = pin, !.card = card]
<1>2. calls[c] \in CallRecords
  BY CallFields
<1>3. d.rec = calls[c].rec
  BY <1>2 DEF CallRecords
<1>4. \A e \in DOMAIN calls : calls'[e] = IF e = c THEN d ELSE calls[e]
  BY <1>1 DEF TypeOK
<1>5. DOMAIN calls' = DOMAIN calls /\ asks' = asks
  BY <1>1 DEF TypeOK, Resolve, book
<1> HIDE DEF d
<1> QED BY <1>3, <1>4, <1>5 DEF SameRecs

LEMMA DispatchRecs ==
  ASSUME TypeOK, NEW c \in DOMAIN calls, NEW withId, Dispatch(c, withId)
  PROVE  DrawnBy(c)
<1> DEFINE s    == calls[c].session
           tool == calls[c].op.tool
           recs == Claimed(s, tool, c, withId)
           phase(r) == IF PinApplies(r.op) THEN "resolving" ELSE "deciding"
           card(r)  == IF PinApplies(r.op) THEN NoCard ELSE Card(r.op, r.session)
<1>1. calls[c] \in CallRecords /\ asks' = asks \ Taken(s, tool, recs)
  BY CallFields DEF Dispatch
<1>2. CASE calls' = [calls EXCEPT ![c].phase = "deciding"]
  <2>1. "deciding" \notin {"asked", "resolving"}
    OBVIOUS
  <2>2. SameRecs
    BY <1>1, <1>2, <2>1, PhaseStays, StaysSameRecs
  <2> QED BY <2>2 DEF SameRecs, DrawnBy
<1>3. CASE \E r \in recs :
             calls' = [calls EXCEPT ![c].rec = r, ![c].phase = phase(r), ![c].card = card(r)]
  <2>1. PICK r \in recs : calls' = [calls EXCEPT ![c].rec = r, ![c].phase = phase(r), ![c].card = card(r)]
    BY <1>3
  <2> DEFINE d == [calls[c] EXCEPT !.rec = r, !.phase = phase(r), !.card = card(r)]
  <2>2. d.rec = r
    BY <1>1 DEF CallRecords
  <2>3. /\ DOMAIN calls' = DOMAIN calls
        /\ \A e \in DOMAIN calls : calls'[e] = IF e = c THEN d ELSE calls[e]
    BY <2>1 DEF TypeOK
  <2>4. recs \subseteq asks
    BY DEF Claimed, Queue
  <2>5. r \in asks \ asks'
    BY <1>1, <2>4 DEF Taken
  <2> HIDE DEF d, recs
  <2> QED BY <1>1, <2>2, <2>3, <2>5 DEF DrawnBy
<1>4. \/ calls' = [calls EXCEPT ![c].phase = "deciding"]
      \/ \E r \in recs :
           calls' = [calls EXCEPT ![c].rec = r, ![c].phase = phase(r), ![c].card = card(r)]
  BY DEF Dispatch
<1> QED BY <1>2, <1>3, <1>4

(* Of every step: which calls have which records after it. *)
LEMMA StepRecs ==
  ASSUME GateInv, [Next]_vars
  PROVE  \/ \E s \in Sessions, o \in Ops : Gate(s, o)
         \/ \E c \in DOMAIN calls : DrawnBy(c)
         \/ SameRecs
<1>1. TypeOK
  BY DEF GateInv
<1>2. ASSUME NEW c \in DOMAIN calls, PolicyAnswer(c) \/ Resolve(c) \/ Decide(c) PROVE SameRecs
  BY <1>1, <1>2, AnsweredRecs, ResolveRecs
<1>3. ASSUME NEW c \in DOMAIN calls, NEW withId \in DispatchIds, Dispatch(c, withId) PROVE DrawnBy(c)
  BY <1>1, <1>3, DispatchRecs
<1>4. CASE Restart
  BY <1>1, <1>4, RestartStays, StaysSameRecs DEF Restart
<1>5. CASE \/ \E s \in Sessions, d \in DeskGrants : GrantsGrant(s, d)
           \/ \E p \in PlanPatterns : GrantPlan(p)
           \/ \E i \in DOMAIN grants : RevokeGrant(i)
           \/ \E g \in secrets : RevokeSecret(g)
           \/ \E route \in Routes, rule \in Rules :
                WireRefusal(route.host, IF route.kind = "HostAndPort" THEN route.port ELSE "80", rule)
           \/ Tick \/ UNCHANGED vars
  <2>1. UNCHANGED <<calls, asks>>
    BY <1>5 DEF GrantsGrant, GrantPlan, RevokeGrant, RevokeSecret, WireRefusal, Tick, vars, book
  <2> QED BY <2>1 DEF SameRecs
<1> QED BY <1>2, <1>3, <1>4, <1>5 DEF Next

(* The gate's slots through every step. *)
LEMMA SlotsKeep ==
  ASSUME Plain, GateInv, SlotsInv, [Next]_vars
  PROVE  SlotsInv'
<1>1. TypeOK
  BY DEF GateInv
<1>2. ASSUME SameRecs PROVE RecsFrom
  BY <1>2 DEF SameRecs, RecsFrom
<1>3. ASSUME NEW c \in DOMAIN calls, PolicyAnswer(c) \/ Resolve(c) PROVE SlotsInv'
  <2>1. SameRecs /\ UNCHANGED <<pending, flood>>
    BY <1>1, <1>3, AnsweredRecs, ResolveRecs DEF PolicyAnswer, Resolve, book
  <2> QED BY <1>2, <2>1, SlotsAlone DEF SameRecs
<1>4. ASSUME NEW c \in DOMAIN calls, Decide(c) PROVE SlotsInv'
  <2>1. SameRecs
    BY <1>1, <1>4, AnsweredRecs
  <2>2. ReleaseAsk(c) \/ UNCHANGED <<pending, flood>>
    BY <1>4 DEF Decide, Refuse, OperatorAllows, OperatorAllowsUnrecorded, WatchAllows, book
  <2> QED BY <1>2, <2>1, <2>2, ReleaseSlots, SlotsAlone DEF SameRecs
<1>5. ASSUME NEW c \in DOMAIN calls, NEW withId \in DispatchIds, Dispatch(c, withId) PROVE SlotsInv'
  <2>1. DrawnBy(c) /\ UNCHANGED <<pending, flood>>
    BY <1>1, <1>5, DispatchRecs DEF Dispatch
  <2>2. RecsFrom
    BY <2>1 DEF DrawnBy, RecsFrom
  <2> QED BY <2>1, <2>2, SlotsAlone DEF DrawnBy
<1>6. CASE Restart
  <2>1. SameRecs /\ asks' = {}
    BY <1>1, <1>6, RestartStays, StaysSameRecs DEF Restart
  <2>2. /\ \A fp \in FPs : pending'[fp] = NoPending
        /\ \A r \in Sessions : flood'[r] = 0
    BY <1>6 DEF Restart
  <2>3. Backed(flood', pending')
    BY <2>2, HoldingFinite DEF Backed
  <2>4. \A d \in DOMAIN calls' : calls'[d].rec # NoRec => IsRoot(calls'[d].rec.root)
    BY <2>1 DEF SameRecs, SlotsInv, RootsAreKnown
  <2> QED BY <2>1, <2>2, <2>3, <2>4 DEF SlotsInv, RootsAreKnown, FPs
<1>7. CASE \/ \E s \in Sessions, d \in DeskGrants : GrantsGrant(s, d)
           \/ \E p \in PlanPatterns : GrantPlan(p)
           \/ \E i \in DOMAIN grants : RevokeGrant(i)
           \/ \E g \in secrets : RevokeSecret(g)
           \/ \E route \in Routes, rule \in Rules :
                WireRefusal(route.host, IF route.kind = "HostAndPort" THEN route.port ELSE "80", rule)
           \/ Tick \/ UNCHANGED vars
  <2>1. UNCHANGED <<calls, asks, pending, flood>>
    BY <1>7 DEF GrantsGrant, GrantPlan, RevokeGrant, RevokeSecret, WireRefusal, Tick, vars, book
  <2>2. SameRecs
    BY <2>1 DEF SameRecs
  <2> QED BY <1>2, <2>1, <2>2, SlotsAlone
<1>8. ASSUME NEW s \in Sessions, NEW o \in Ops, Gate(s, o) PROVE SlotsInv'
  BY <1>8, GateSlots
<1> QED BY <1>3, <1>4, <1>5, <1>6, <1>7, <1>8 DEF Next

(* A record is in the queue or with one call that waits, never with two. *)
ClaimsApart ==
  /\ \A r \in asks : r.callId \in DOMAIN calls
  /\ \A c \in Outstanding : calls[c].rec # NoRec =>
       calls[c].rec \notin asks /\ calls[c].rec.callId \in DOMAIN calls
  /\ RecordsClaimedOnce

LEMMA GateClaims ==
  ASSUME GateInv, ClaimsApart, NEW s \in Sessions, NEW o \in Ops, Gate(s, o)
  PROVE  ClaimsApart'
<1> DEFINE n == Len(calls) + 1
<1>1. /\ DOMAIN calls' = DOMAIN calls \cup {n} /\ n \notin DOMAIN calls
      /\ \A c \in DOMAIN calls : calls'[c] = calls[c]
      /\ calls'[n].rec = NoRec
  <2> DEFINE plan == Covering(o, "plan")
             sess == { i \in Covering(o, "session") : ScopeOk(grants[i], s) }
             row  == FirstOf(IF plan # {} THEN plan ELSE sess)
  <2>1. \/ \E phase \in {"ran", "asked", "refused"} : calls' = Append(calls, Call(s, o, phase, 0))
        \/ plan \cup sess # {} /\ calls' = Append(calls, Call(s, o, "ran", row))
    BY DEF Gate, GateTargetless, GateTarget, Ran, Asked
  <2>2. plan \cup sess # {} => row \in Nat
    <3>1. plan \cup sess # {} => row \in DOMAIN grants
      BY CoveringRow DEF GateInv
    <3> HIDE DEF row, plan, sess
    <3> QED BY <3>1 DEF GateInv, TypeOK
  <2> HIDE DEF row, plan, sess
  <2> QED BY <2>1, <2>2, RecsOfSeen DEF Phases, GateInv
<1>2. asks' = asks \/ asks' = asks \cup {AskRecord(s, o)}
  BY DEF Gate, GateTargetless, GateTarget
<1>3. AskRecord(s, o).callId = n
  BY DEF AskRecord
<1> HIDE DEF n
<1>4. \A r \in asks' : r \in asks \/ r.callId = n
  BY <1>2, <1>3
<1>5. \A c \in Outstanding' : calls'[c].rec # NoRec => c \in Outstanding /\ calls'[c].rec = calls[c].rec
  BY <1>1 DEF Outstanding
<1>6. \A r \in asks' : r.callId \in DOMAIN calls'
  BY <1>1, <1>4 DEF ClaimsApart
<1>7. \A c \in Outstanding' : calls'[c].rec # NoRec =>
        calls'[c].rec \notin asks' /\ calls'[c].rec.callId \in DOMAIN calls'
  BY <1>1, <1>4, <1>5 DEF ClaimsApart
<1>8. RecordsClaimedOnce'
  <2> SUFFICES ASSUME NEW c \in Outstanding', NEW d \in Outstanding', c # d, calls'[c].rec # NoRec,
                      calls'[c].rec = calls'[d].rec
               PROVE  FALSE
    BY DEF RecordsClaimedOnce
  <2> QED BY <1>5 DEF ClaimsApart, RecordsClaimedOnce
<1> QED BY <1>6, <1>7, <1>8 DEF ClaimsApart

LEMMA ClaimsKept ==
  ASSUME GateInv, ClaimsApart, [Next]_vars
  PROVE  ClaimsApart'
<1>1. ASSUME DOMAIN calls' = DOMAIN calls PROVE Outstanding' \subseteq Outstanding
  <2>1. CASE UNCHANGED vars
    BY <2>1 DEF vars, Outstanding
  <2>2. CASE Next
    <3>1. CallsMove
      BY <2>2, NextAccounts DEF Accounted
    <3> QED BY <1>1, <3>1 DEF CallsMove, Outstanding, Waiting
  <2> QED BY <2>1, <2>2
<1>2. ASSUME NEW s \in Sessions, NEW o \in Ops, Gate(s, o) PROVE ClaimsApart'
  BY <1>2, GateClaims
<1>3. ASSUME SameRecs PROVE ClaimsApart'
  <2>1. \A c \in Outstanding' : c \in Outstanding /\ calls'[c].rec = calls[c].rec
    BY <1>1, <1>3 DEF SameRecs, Outstanding
  <2>2. RecordsClaimedOnce'
    BY <2>1 DEF ClaimsApart, RecordsClaimedOnce
  <2> QED BY <1>3, <2>1, <2>2 DEF ClaimsApart, SameRecs
<1>4. ASSUME NEW c \in DOMAIN calls, DrawnBy(c) PROVE ClaimsApart'
  <2>1. Outstanding' \subseteq Outstanding /\ Outstanding \subseteq DOMAIN calls
    BY <1>1, <1>4 DEF DrawnBy, Outstanding
  <2>2. ASSUME NEW d \in Outstanding', calls'[d].rec # NoRec
        PROVE  \/ calls'[d].rec = calls[d].rec
               \/ d = c /\ calls'[d].rec \in asks \ asks'
    BY <1>4, <2>1 DEF DrawnBy
  <2>3. \A d \in Outstanding' : calls'[d].rec # NoRec =>
          calls'[d].rec \notin asks' /\ calls'[d].rec.callId \in DOMAIN calls'
    BY <1>4, <2>1, <2>2 DEF ClaimsApart, DrawnBy
  <2>4. RecordsClaimedOnce'
    <3> SUFFICES ASSUME NEW d \in Outstanding', NEW e \in Outstanding', d # e, calls'[d].rec # NoRec,
                        calls'[d].rec = calls'[e].rec
                 PROVE  FALSE
      BY DEF RecordsClaimedOnce
    <3>1. calls'[e].rec # NoRec
      OBVIOUS
    <3> QED BY <2>1, <2>2, <3>1 DEF ClaimsApart, RecordsClaimedOnce
  <2> QED BY <1>4, <2>3, <2>4 DEF ClaimsApart, DrawnBy
<1> QED BY <1>2, <1>3, <1>4, StepRecs

(* Nothing waits but what is asked, once: a slot taken is backed by a      *)
(* record the sweep or an answer finds, and no record is claimed twice     *)
(* (sweepPending, resolvePending, takeAsk).  The slots need one lineage:   *)
(* of two roots asking the same act, the answer to the second drops the    *)
(* record of the first and leaves its slot to no one.                      *)
THEOREM PendingAlwaysExact == ASSUME Plain PROVE Spec => []PendingIsExact
<1>1. Init => SlotsInv /\ ClaimsApart
  <2> SUFFICES ASSUME Init PROVE SlotsInv /\ ClaimsApart
    OBVIOUS
  <2>1. asks = {} /\ calls = << >> /\ (\A fp \in FPs : pending[fp] = NoPending) /\ \A r \in Sessions : flood[r] = 0
    BY DEF Init
  <2>2. Backed(flood, pending)
    BY <2>1, HoldingFinite DEF Backed
  <2>3. Outstanding = {}
    BY <2>1 DEF Outstanding
  <2> QED BY <2>1, <2>2, <2>3 DEF SlotsInv, RootsAreKnown, ClaimsApart, RecordsClaimedOnce
<1>2. GateInv /\ SlotsInv /\ ClaimsApart /\ [Next]_vars => (SlotsInv /\ ClaimsApart)'
  BY SlotsKeep, ClaimsKept
<1>3. SlotsInv /\ ClaimsApart => PendingIsExact
  BY SlotsAreBackedIs DEF SlotsInv, ClaimsApart, PendingIsExact
<1> QED BY <1>1, <1>2, <1>3, GateInvariant, PTL DEF Spec
=============================================================================
