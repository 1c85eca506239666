---------------------------- MODULE ApprovalGate ----------------------------
(***************************************************************************)
(* The approval gate (packages/approval): the grant store, the five-layer  *)
(* evaluation a tool call rides before it executes, the recorded answerer  *)
(* that turns a decision into grants, the night watch that may decide in   *)
(* the operator's absence, the grant commands, and the wire's lessons.     *)
(*                                                                         *)
(* The gate is one JavaScript process: an action is the code between two   *)
(* awaits.  A call is asked (Gate), waits in the host, is dispatched to    *)
(* the answerer (Dispatch), may wait for a name to resolve (Resolve), and  *)
(* waits for a decision; every other action may happen in between.         *)
(***************************************************************************)
EXTENDS GrantPatterns

CONSTANTS
  Sessions,       (* session ids; one agent per session                      *)
  RootOf,         (* session -> its root scope: the parent when forked       *)
  Descends,       (* set of pairs <<s, r>>: s is a '/'-descendant of r       *)
  Ops,            (* the operations calls may carry                          *)
  Secrets,        (* the secret references the composition declares          *)
  Addrs,          (* addresses a name may resolve to                         *)
  Rules,          (* the mediator's refusal rules                            *)
  DeskGrants,     (* the terms the operator may type at /grants-grant        *)
  PlanPatterns,   (* the patterns an approved plan may grant                 *)
  Egress,         (* the posture: "none", "open", "proxy" or "undeclared"    *)
  PinOffers,      (* is the address-pin offer composed?                      *)
  CacheTtl, EgressTtl, SecretTtl, PatternTtl, PatternUses, PendingTtl, MaxPending,
  DispatchIds,    (* may a request reach the answerer with / without a callId *)
  PromptDispatch, (* does the host dispatch an ask before time passes?       *)
  MaxCalls, MaxGrants, MaxTime     (* bounds of the model *)

ASSUME ScopesAssumption == RootOf \in [Sessions -> Sessions] /\ None \notin Sessions
ASSUME TermsAssumption ==
  /\ {CacheTtl, PendingTtl} \subseteq Nat
  /\ {EgressTtl, SecretTtl, PatternTtl, PatternUses, MaxPending} \subseteq Nat \ {0}
ASSUME BoundsAssumption == {MaxCalls, MaxGrants, MaxTime} \subseteq Nat
ASSUME DeskAssumption ==
  \A d \in DeskGrants :
    /\ d.ttl \in Nat \ {0} /\ d.maxUses \in Nat
    /\ d.class \in {"read", "write", None} /\ d.runtime \in BOOLEAN
ASSUME OpsAssumption == IsFiniteSet(Ops) /\ \A o \in Ops : o.refs \subseteq Secrets

VARIABLES
  now,      (* the clock, in ticks                                           *)
  grants,   (* session and plan grant rows in order of creation: id = index  *)
  secrets,  (* secret (injection) grants in order of creation                *)
  cache,    (* the exec cache: fingerprint -> entry                          *)
  pending,  (* dedup records: fingerprint -> record                          *)
  flood,    (* per-root count of pending requests                            *)
  asks,     (* ask records awaiting their decision                           *)
  calls,    (* the tool calls so far, in the order the gate saw them         *)
  yes       (* history: what the operator allowed, and for which session     *)

store == <<grants, secrets, cache>>
book  == <<pending, flood, asks>>
vars  == <<now, store, book, calls, yes>>

FPs == { Fingerprint(o) : o \in Ops }
NoEntry == [grantedAt |-> 0]
NoPending == [count |-> 0]
NoRec == [callId |-> 0]

-----------------------------------------------------------------------------
(* The rows *)

Live(g) == g.revokedAt = 0 /\ (g.expiresAt = 0 \/ g.expiresAt > now)
SpentForgotten(g) == TRUE
Unspent(g) == g.maxUses = 0 \/ g.uses < g.maxUses

ScopeOk(g, s) ==
  IF g.session # None THEN g.session = s
  ELSE g.root # None => (s = g.root \/ <<s, g.root>> \in Descends)

SessionGrant(pattern, root, session, class, ttl, maxUses, addresses) ==
  [layer |-> "session", pattern |-> pattern, root |-> root, session |-> session,
   class |-> class, addresses |-> addresses, createdAt |-> now, expiresAt |-> now + ttl,
   maxUses |-> maxUses, uses |-> 0, revokedAt |-> 0]

(* consumeUse: only a budgeted row counts its uses. *)
Consumed(i) == [grants EXCEPT ![i].uses = IF grants[i].maxUses = 0 THEN @ ELSE @ + 1]

FirstOf(S) == CHOOSE i \in S : \A j \in S : i <= j

(* coveringGrants: the rows of one layer that answer for operation o. *)
Covering(o, layer) ==
  { i \in DOMAIN grants :
      /\ grants[i].layer = layer
      /\ Live(grants[i]) /\ Unspent(grants[i])
      /\ PatternMatches(grants[i].pattern, o.target)
      /\ ClassCovers(grants[i].class, o.methodClass, Egress) }

CacheLive(fp) == cache[fp] # NoEntry /\ cache[fp].expiresAt > now

(* cacheGet deletes the entry it finds lapsed. *)
CacheProbed(fp) == IF CacheLive(fp) THEN cache ELSE [cache EXCEPT ![fp] = NoEntry]

-----------------------------------------------------------------------------
(* What an approval of an operation materialises *)

EgressBound(o) ==
  /\ Egress = "proxy" /\ o.methodClass \in {"read", "write"} /\ o.delivery
  /\ EgressPatternFor(CanonicalTarget(o.target)) # NoPattern

UncappedTtl(o) == CacheTtl
CacheTtlFor(o) == IF EgressBound(o) /\ EgressTtl < CacheTtl THEN EgressTtl ELSE CacheTtl

PinApplies(o) == PinOffers /\ EgressBound(o) /\ CanonicalTarget(o.target).host # None

-----------------------------------------------------------------------------
(* The cause of an ask: classifyAskCause, read by the night watch *)

PrefixRows(o, s) ==
  { i \in DOMAIN grants :
      /\ grants[i].layer = "session" => ScopeOk(grants[i], s)
      /\ PatternPrefixMatches(grants[i].pattern, o.target) }

(* The newest row; the code's sort is stable and lists session rows first. *)
Newest(S) ==
  CHOOSE i \in S : \A j \in S :
    \/ grants[i].createdAt > grants[j].createdAt
    \/ /\ grants[i].createdAt = grants[j].createdAt
       /\ \/ grants[i].layer = grants[j].layer /\ i <= j
          \/ grants[i].layer = "session" /\ grants[j].layer = "plan"

NoCard == [kind |-> "other"]

(* The decision card of a params edge: the newest live row covers the      *)
(* route and its query axis is what it is tested on.  Every other cause    *)
(* only words the ask.                                                     *)
Card(o, s) ==
  LET rows  == PrefixRows(o, s)
      usable == { i \in rows : Live(grants[i]) /\ Unspent(grants[i]) }
      row   == Newest(usable)
      axis  == grants[row].pattern.params
      refused == IF axis.mode = "allow" THEN QueryNames(o.target) \ axis.names ELSE QueryNames(o.target)
  IN
  IF (\E i \in rows : grants[i].revokedAt # 0) \/ usable = {} \/ axis.mode \in {"absent", "free"}
    THEN NoCard
    ELSE [kind |-> "params-edge", row |-> row, credential |-> refused \cap Credential]

-----------------------------------------------------------------------------
(* Calls *)

Call(s, o, phase, basis) ==
  [session |-> s, op |-> o, phase |-> phase, basis |-> basis, rec |-> NoRec, card |-> NoCard, pin |-> {}]

Ran(s, o, basis) == calls' = Append(calls, Call(s, o, "ran", basis))
Asked(s, o)      == calls' = Append(calls, Call(s, o, "asked", 0))

Outstanding == { c \in DOMAIN calls : calls[c].phase \in {"asked", "resolving", "deciding"} }

AskRecord(s, o) ==
  [fp |-> Fingerprint(o), root |-> RootOf[s], session |-> s, op |-> o,
   callId |-> Len(calls) + 1, at |-> now]

(* resolvePending: drop the dedup record and return one slot of the root. *)
Released(f, root) == [f EXCEPT ![root] = IF @ > 0 THEN @ - 1 ELSE 0]

(* sweepPending forgets the records older than the pending TTL, whose      *)
(* slots return to their roots.                                            *)
Stale == { fp \in FPs : pending[fp] # NoPending /\ now - pending[fp].firstAt > PendingTtl }
SweptPending == [fp \in FPs |-> IF fp \in Stale THEN NoPending ELSE pending[fp]]
SlotsKept == flood
SweptFlood ==
  [r \in Sessions |->
     LET n == Cardinality({ fp \in Stale : pending[fp].root = r }) IN
     IF flood[r] > n THEN flood[r] - n ELSE 0]

(* A call without a network target that names a declared secret is gated   *)
(* on its exact command; one that names none is not this gate's business.  *)
GateTargetless(s, o) ==
  LET fp == Fingerprint(o) IN
  /\ Targetless(o.target)
  /\ UNCHANGED <<now, grants, secrets, pending, yes>>
  /\ \/ /\ o.refs = {} /\ Ran(s, o, 0)
        /\ UNCHANGED <<cache, flood, asks>>
     \/ /\ o.refs # {} /\ CacheLive(fp) /\ Ran(s, o, 0)
        /\ UNCHANGED <<cache, flood, asks>>
     \/ /\ o.refs # {} /\ ~CacheLive(fp) /\ Asked(s, o)
        /\ cache' = CacheProbed(fp)
        /\ flood' = [flood EXCEPT ![RootOf[s]] = @ + 1]
        /\ asks' = asks \cup {AskRecord(s, o)}

(* evaluate: exec cache, plan grants, session grants, dedup, flood cap.    *)
(* Every path sweeps the pending records first.                            *)
GateTarget(s, o) ==
  LET fp   == Fingerprint(o)
      root == RootOf[s]
      plan == Covering(o, "plan")
      sess == { i \in Covering(o, "session") : ScopeOk(grants[i], s) }
  IN
  /\ ~Targetless(o.target)
  /\ cache' = CacheProbed(fp)
  /\ UNCHANGED <<now, secrets, yes>>
  /\ \/ (* layer 1 *)
        /\ CacheLive(fp) /\ Ran(s, o, 0)
        /\ pending' = SweptPending /\ flood' = SweptFlood
        /\ UNCHANGED <<grants, asks>>
     \/ (* layers 2 and 3: the row that answers pays *)
        /\ ~CacheLive(fp) /\ plan \cup sess # {}
        /\ LET i == FirstOf(IF plan # {} THEN plan ELSE sess) IN
             grants' = Consumed(i) /\ Ran(s, o, i)
        /\ pending' = SweptPending /\ flood' = SweptFlood
        /\ UNCHANGED asks
     \/ (* layer 4: an identical call is already waiting *)
        /\ ~CacheLive(fp) /\ plan \cup sess = {} /\ SweptPending[fp] # NoPending
        /\ pending' = [SweptPending EXCEPT ![fp].count = @ + 1]
        /\ flood' = SweptFlood
        /\ asks' = asks \cup {AskRecord(s, o)}
        /\ Asked(s, o)
        /\ UNCHANGED grants
     \/ (* layer 5: the flood cap *)
        /\ ~CacheLive(fp) /\ plan \cup sess = {} /\ SweptPending[fp] = NoPending
        /\ UNCHANGED grants
        /\ \/ /\ SweptFlood[root] >= MaxPending
              /\ calls' = Append(calls, Call(s, o, "refused", 0))
              /\ pending' = SweptPending /\ flood' = SweptFlood
              /\ UNCHANGED asks
           \/ /\ SweptFlood[root] < MaxPending
              /\ pending' = [SweptPending EXCEPT ![fp] = [count |-> 1, firstAt |-> now, root |-> root]]
              /\ flood' = [SweptFlood EXCEPT ![root] = @ + 1]
              /\ asks' = asks \cup {AskRecord(s, o)}
              /\ Asked(s, o)

(* The pre-execute decision of one call. *)
Gate(s, o) ==
  /\ Len(calls) < MaxCalls
  /\ GateTargetless(s, o) \/ GateTarget(s, o)

(* The host may answer an ask by policy, before any dispatch: the answerer *)
(* never hears of it.                                                      *)
PolicyAnswer(c) ==
  /\ calls[c].phase = "asked"
  /\ \E phase \in {"ran", "refused"} : calls' = [calls EXCEPT ![c].phase = phase]
  /\ UNCHANGED <<now, store, book, yes>>

(* takeAsk: the record an approval request claims.  Stale records of the   *)
(* queue are dropped; the callId decides, else the oldest record.          *)
Queue(s, tool) == { r \in asks : r.session = s /\ r.op.tool = tool }
StaleAsks(s, tool) == { r \in Queue(s, tool) : r.at < now - PendingTtl }
Claimed(s, tool, c, withId) ==
  LET fresh == Queue(s, tool) \ StaleAsks(s, tool)
      own   == { r \in fresh : withId /\ r.callId = c }
  IN IF own # {} THEN own
     ELSE { r \in fresh : \A q \in fresh : r.callId <= q.callId }

(* What leaves the queue: the claimed record and every stale one. *)
Taken(s, tool, recs) == StaleAsks(s, tool) \cup recs

(* An approval request reaches the answerer, which claims a record and     *)
(* publishes the deciding view; with no record left it only passes the     *)
(* request on.                                                             *)
Dispatch(c, withId) ==
  LET s    == calls[c].session
      tool == calls[c].op.tool
      recs == Claimed(s, tool, c, withId)
  IN
  /\ calls[c].phase = "asked"
  /\ asks' = asks \ Taken(s, tool, recs)
  /\ \/ /\ recs = {}
        /\ calls' = [calls EXCEPT ![c].phase = "deciding"]
     \/ \E r \in recs :
          calls' = [calls EXCEPT ![c].rec   = r,
                                 ![c].phase = IF PinApplies(r.op) THEN "resolving" ELSE "deciding",
                                 ![c].card  = IF PinApplies(r.op) THEN NoCard ELSE Card(r.op, r.session)]
  /\ UNCHANGED <<now, store, pending, flood, yes>>

(* The pin offer's lookup returns: some addresses, or none when it fails. *)
Resolve(c) ==
  /\ calls[c].phase = "resolving"
  /\ \E pin \in SUBSET Addrs :
       calls' = [calls EXCEPT ![c].phase = "deciding", ![c].pin = pin,
                              ![c].card = Card(calls[c].rec.op, calls[c].rec.session)]
  /\ UNCHANGED <<now, store, book, yes>>

(* The answerer's finally branch: the dedup record and the slot return. *)
ReleaseAsk(c) ==
  LET r == calls[c].rec IN
  IF r = NoRec THEN UNCHANGED <<pending, flood, asks>>
  ELSE /\ pending' = [pending EXCEPT ![r.fp] = NoPending]
       /\ flood' = Released(flood, r.root)
       /\ UNCHANGED asks

(* A refused, cancelled or unanswered ask materialises nothing. *)
Refuse(c) ==
  /\ calls[c].phase = "deciding"
  /\ calls' = [calls EXCEPT ![c].phase = "refused"]
  /\ ReleaseAsk(c)
  /\ UNCHANGED <<now, store, yes>>

(* The rows an operator's yes writes: the egress grant of a deliverable    *)
(* network act, then the picked pattern row, if any.  A pick for the whole *)
(* runtime unscopes both.                                                  *)
MintedRows(c, pick, runtime, shown) ==
  LET r == calls[c].rec
      picked == pick # NoPattern
      root == IF picked /\ runtime THEN None ELSE r.root
      session == IF picked /\ runtime THEN None ELSE r.session
      class == IF r.op.methodClass \in {"read", "write"} THEN r.op.methodClass ELSE None
  IN (IF EgressBound(r.op)
        THEN << SessionGrant(EgressPatternFor(CanonicalTarget(r.op.target)), root, session, class,
                             EgressTtl, 0, IF shown THEN calls[c].pin ELSE {}) >>
        ELSE << >>)
     \o (IF picked
        THEN << SessionGrant(pick, root, session, class, PatternTtl, PatternUses, {}) >>
        ELSE << >>)

NewSecrets(r) ==
  { [ref |-> ref, root |-> r.root, session |-> r.session, fp |-> r.fp,
     createdAt |-> now, expiresAt |-> now + SecretTtl, revokedAt |-> 0] : ref \in r.op.refs }

(* The operator allows the act once.  A surface may pick only from the     *)
(* offers of this ask; anything else picks nothing.  A scope is recorded   *)
(* with a pick, and only resolved addresses can be shown.                  *)
OperatorAllows(c, pick, runtime, shown) ==
  LET r == calls[c].rec IN
  /\ calls[c].phase = "deciding" /\ r # NoRec
  /\ pick \in PatternOffers(r.op, Egress) \cup {NoPattern}
  /\ runtime => pick # NoPattern
  /\ shown => calls[c].pin # {}
  /\ Len(grants) + Len(MintedRows(c, pick, runtime, shown)) <= MaxGrants
  /\ cache' = IF CacheTtlFor(r.op) = 0 THEN cache
              ELSE [cache EXCEPT ![r.fp] =
                      [grantedAt |-> now, expiresAt |-> now + CacheTtlFor(r.op),
                       target |-> CanonicalTarget(r.op.target)]]
  /\ secrets' = secrets \cup NewSecrets(r)
  /\ grants' = grants \o MintedRows(c, pick, runtime, shown)
  /\ calls' = [calls EXCEPT ![c].phase = "ran"]
  /\ yes' = yes \cup {[fp |-> Fingerprint(calls[c].op), session |-> calls[c].session]}
  /\ ReleaseAsk(c)
  /\ UNCHANGED now

(* A request the answerer has no record of: the yes materialises nothing. *)
OperatorAllowsUnrecorded(c) ==
  /\ calls[c].phase = "deciding" /\ calls[c].rec = NoRec
  /\ calls' = [calls EXCEPT ![c].phase = "ran"]
  /\ yes' = yes \cup {[fp |-> Fingerprint(calls[c].op), session |-> calls[c].session]}
  /\ UNCHANGED <<now, store, book>>

(* The re-check of the named row: it may have lapsed while the watch judged. *)
RowTrusted(i) == TRUE
RowHolds(i) == grants[i].layer = "session" /\ Live(grants[i]) /\ Unspent(grants[i])

(* The night watch allows a params edge under the row of its card: the row *)
(* pays if it is still live and unspent, else the yes becomes a no.        *)
WatchAllows(c) ==
  LET card == calls[c].card IN
  /\ calls[c].phase = "deciding" /\ card.kind = "params-edge" /\ card.credential = {}
  /\ \/ /\ RowHolds(card.row)
        /\ grants' = Consumed(card.row)
        /\ calls' = [calls EXCEPT ![c].phase = "ran", ![c].basis = card.row]
     \/ /\ ~RowHolds(card.row)
        /\ calls' = [calls EXCEPT ![c].phase = "refused"]
        /\ UNCHANGED grants
  /\ ReleaseAsk(c)
  /\ UNCHANGED <<now, secrets, cache, yes>>

-----------------------------------------------------------------------------
(* Commands, plans, the wire, the clock, restarts *)

(* The wire leg a URL row typed at the desk travels with. *)
DeskLeg(pattern) ==
  HostAndPort(pattern.host, IF pattern.port = None THEN SchemePort[pattern.scheme] ELSE pattern.port)

(* /grants-grant: under the mediated posture a network row needs a class,  *)
(* and a URL row travels with its wire leg.                                *)
GrantsGrant(s, d) ==
  LET root == IF d.runtime THEN None ELSE RootOf[s]
      session == IF d.runtime THEN None ELSE s
      row == SessionGrant(d.pattern, root, session, d.class, d.ttl, d.maxUses, {})
      leg == SessionGrant(DeskLeg(d.pattern), root, session, d.class, d.ttl, 0, {})
  IN
  /\ Egress = "proxy" => d.class # None
  /\ grants' = grants \o (IF Egress = "proxy" /\ d.pattern.kind = "UrlPrefix" THEN <<row, leg>> ELSE <<row>>)
  /\ Len(grants') <= MaxGrants
  /\ UNCHANGED <<now, secrets, cache, book, calls, yes>>

(* An approved plan grants a pattern, for every session and without end. *)
GrantPlan(p) ==
  /\ Len(grants) < MaxGrants
  /\ grants' = Append(grants,
       [SessionGrant(p, None, None, None, 0, 0, {}) EXCEPT !.layer = "plan", !.expiresAt = 0])
  /\ UNCHANGED <<now, secrets, cache, book, calls, yes>>

KillsNothing(pattern) == {}
KilledBy(pattern) == { fp \in FPs : cache[fp] # NoEntry /\ PatternMatches(pattern, cache[fp].target) }
WithoutEntries(S) == [fp \in FPs |-> IF fp \in S THEN NoEntry ELSE cache[fp]]

(* /grants-revoke of a session grant kills the cached approvals its        *)
(* pattern covers; revoking twice keeps the first date.                    *)
RevokeGrant(i) ==
  /\ grants[i].layer = "session"
  /\ grants' = [grants EXCEPT ![i].revokedAt = IF @ = 0 THEN now ELSE @]
  /\ cache' = WithoutEntries(KilledBy(grants[i].pattern))
  /\ UNCHANGED <<now, secrets, book, calls, yes>>

ReplayOf(g) == {g.fp}

(* /grants-revoke of a secret grant kills the approved command's entry. *)
RevokeSecret(g) ==
  /\ g.revokedAt = 0
  /\ secrets' = (secrets \ {g}) \cup {[g EXCEPT !.revokedAt = now]}
  /\ cache' = WithoutEntries(ReplayOf(g))
  /\ UNCHANGED <<now, grants, book, calls, yes>>

(* The mediator refused a connection under a rule that proves its route    *)
(* dead: the cached approvals routed there die.  A portless refusal proves *)
(* only that tunnels are dead.                                             *)
DeathRules == {"no-grant", "classless-grant", "expired", "revoked", "portless-grant"}

RoutedTo(target, host, port) ==
  LET route == EgressPatternFor(target) IN
  \/ route.kind = "HostAndPort" /\ route.host = host /\ route.port = port
  \/ route.kind = "ExactHost" /\ route.host = host

WireRefusal(host, port, rule) ==
  /\ cache' = IF rule \notin DeathRules THEN cache
              ELSE WithoutEntries({ fp \in FPs :
                     /\ cache[fp] # NoEntry
                     /\ RoutedTo(cache[fp].target, host, port)
                     /\ rule = "portless-grant" => cache[fp].target.url.scheme = "https" })
  /\ UNCHANGED <<now, grants, secrets, book, calls, yes>>

Tick ==
  /\ now < MaxTime
  /\ PromptDispatch => \A c \in DOMAIN calls : calls[c].phase # "asked"
  /\ now' = now + 1
  /\ UNCHANGED <<store, book, calls, yes>>

(* A restart reloads the store; calls in flight, their records and the     *)
(* flood bookkeeping are gone.                                             *)
Restart ==
  /\ pending' = [fp \in FPs |-> NoPending]
  /\ flood' = [r \in Sessions |-> 0]
  /\ asks' = {}
  /\ calls' = [c \in DOMAIN calls |->
                 IF c \in Outstanding THEN [calls[c] EXCEPT !.phase = "lost"] ELSE calls[c]]
  /\ UNCHANGED <<now, store, yes>>

Routes == { EgressPatternFor(CanonicalTarget(o.target)) : o \in Ops } \ {NoPattern}

Init ==
  /\ now = 1
  /\ grants = << >> /\ secrets = {}
  /\ cache = [fp \in FPs |-> NoEntry]
  /\ pending = [fp \in FPs |-> NoPending]
  /\ flood = [r \in Sessions |-> 0]
  /\ asks = {} /\ calls = << >> /\ yes = {}

Offered == UNION { PatternOffers(o, Egress) : o \in Ops }

Decide(c) ==
  \/ Refuse(c)
  \/ \E pick \in {NoPattern} \cup Offered, runtime, shown \in BOOLEAN :
       OperatorAllows(c, pick, runtime, shown)
  \/ OperatorAllowsUnrecorded(c)
  \/ WatchAllows(c)

Next ==
  \/ \E s \in Sessions, o \in Ops : Gate(s, o)
  \/ \E c \in DOMAIN calls : PolicyAnswer(c) \/ Resolve(c) \/ Decide(c)
  \/ \E c \in DOMAIN calls, withId \in DispatchIds : Dispatch(c, withId)
  \/ \E s \in Sessions, d \in DeskGrants : GrantsGrant(s, d)
  \/ \E p \in PlanPatterns : GrantPlan(p)
  \/ \E i \in DOMAIN grants : RevokeGrant(i)
  \/ \E g \in secrets : RevokeSecret(g)
  \/ \E route \in Routes, rule \in Rules :
       WireRefusal(route.host, IF route.kind = "HostAndPort" THEN route.port ELSE "80", rule)
  \/ Tick \/ Restart

Spec == Init /\ [][Next]_vars

-----------------------------------------------------------------------------
(* What the gate promises *)

DeskPatterns ==
  { d.pattern : d \in DeskGrants }
    \cup { DeskLeg(d.pattern) : d \in { e \in DeskGrants : e.pattern.kind = "UrlPrefix" } }
Patterns == Routes \cup Offered \cup PlanPatterns \cup DeskPatterns

GrantRows ==
  [layer : {"session", "plan"}, pattern : Patterns, root : Sessions \cup {None},
   session : Sessions \cup {None}, class : {"read", "write", None}, addresses : SUBSET Addrs,
   createdAt : Nat, expiresAt : Nat, maxUses : Nat, uses : Nat, revokedAt : Nat]
SecretRows ==
  [ref : Secrets, root : Sessions, session : Sessions, fp : FPs,
   createdAt : Nat, expiresAt : Nat, revokedAt : Nat]
CacheEntries ==
  [grantedAt : Nat, expiresAt : Nat, target : { CanonicalTarget(o.target) : o \in Ops }]
AskRecords ==
  [fp : FPs, root : Sessions, session : Sessions, op : Ops, callId : Nat, at : Nat]
Cards == {NoCard} \cup [kind : {"params-edge"}, row : Nat, credential : SUBSET Credential]
CallRecords ==
  [session : Sessions, op : Ops, basis : Nat, rec : AskRecords \cup {NoRec}, card : Cards,
   pin : SUBSET Addrs,
   phase : {"asked", "resolving", "deciding", "ran", "refused", "lost"}]

(* Every variable keeps its shape (the fields of grants.js's rows). *)
TypeOK ==
  /\ now \in Nat
  /\ grants \in Seq(GrantRows)
  /\ secrets \subseteq SecretRows
  /\ cache \in [FPs -> CacheEntries \cup {NoEntry}]
  /\ pending \in [FPs -> [count : Nat, firstAt : Nat, root : Sessions] \cup {NoPending}]
  /\ flood \in [Sessions -> Nat]
  /\ asks \subseteq AskRecords
  /\ calls \in Seq(CallRecords)
  /\ yes \subseteq [fp : FPs, session : Sessions]

(* A budgeted row answers for at most maxUses executions in its life,      *)
(* whichever of the gate's layers or the night watch spends it (consumeUse,*)
(* the re-check of answerRequest).                                         *)
RunsUnder(i) == { c \in DOMAIN calls : calls[c].basis = i }
BudgetHolds ==
  \A i \in DOMAIN grants :
    grants[i].maxUses # 0 => Cardinality(RunsUnder(i)) <= grants[i].maxUses

(* After a grant is revoked no cached approval given before the revocation *)
(* still covers a target of its pattern (revokeSessionGrant).              *)
RevocationReachesCache ==
  \A i \in DOMAIN grants, fp \in FPs :
    (/\ grants[i].revokedAt # 0
     /\ cache[fp] # NoEntry
     /\ PatternMatches(grants[i].pattern, cache[fp].target))
    => cache[fp].grantedAt >= grants[i].revokedAt

(* Only a call the operator allowed leaves a cached approval, and only the *)
(* session whose act was allowed gets its credential: concurrent asks of   *)
(* one tool never lend each other their decision (takeAsk's correlation).  *)
OnlyWhatWasApproved ==
  /\ \A fp \in FPs : cache[fp] # NoEntry => \E y \in yes : y.fp = fp
  /\ \A g \in secrets : [fp |-> g.fp, session |-> g.session] \in yes

(* Under the mediated posture a cached approval of a deliverable act never *)
(* outlives the egress grant minted with it (cacheTtlFor, #65).            *)
ReplayWithinEgressLife ==
  \A o \in Ops :
    LET entry == cache[Fingerprint(o)] IN
    (EgressBound(o) /\ entry # NoEntry) =>
      \E i \in DOMAIN grants :
        /\ grants[i].pattern = EgressPatternFor(entry.target)
        /\ grants[i].createdAt = entry.grantedAt
        /\ grants[i].class = o.methodClass
        /\ grants[i].expiresAt >= entry.expiresAt

(* A cached approval is one the operator gave, and no longer than what was *)
(* minted with it: the parts above.                                        *)
CacheIsTheApprovals == OnlyWhatWasApproved /\ ReplayWithinEgressLife

(* Every occupied slot of the flood cap belongs to a pending request that  *)
(* the sweep can still find, so the capacity of a root always comes back   *)
(* (sweepPending, resolvePending).                                         *)
SlotsAreBacked ==
  \A r \in Sessions :
    flood[r] <= Cardinality({ fp \in FPs : pending[fp] # NoPending /\ pending[fp].root = r })

(* A call that runs on a grant's account runs under a grant that is live,  *)
(* unspent, in scope and on its route at that very step, however long ago  *)
(* the decision was prepared (coveringGrants; answerRequest's re-check of  *)
(* the night watch's row).                                                 *)
RunsUnderItsGrant ==
  [][\A c \in DOMAIN calls' :
       (calls'[c].basis # 0 /\ (c \in DOMAIN calls => calls[c].basis = 0)) =>
         LET g == grants[calls'[c].basis] IN
         /\ Live(g) /\ Unspent(g)
         /\ g.layer = "session" => ScopeOk(g, calls'[c].session)
         /\ PatternPrefixMatches(g.pattern, calls'[c].op.target)]_vars

(* No two requests ever hold the same ask record, even when one arrives so *)
(* late that its own record is gone and it takes the oldest of the queue:  *)
(* one decision is never materialised twice (takeAsk).                     *)
RecordsClaimedOnce ==
  \A c, d \in Outstanding :
    (c # d /\ calls[c].rec # NoRec) => calls[c].rec # calls[d].rec

(* Nothing waits but what is asked, once: the parts above.                 *)
PendingIsExact == SlotsAreBacked /\ RecordsClaimedOnce
=============================================================================
