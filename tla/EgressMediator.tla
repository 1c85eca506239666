--------------------------- MODULE EgressMediator ---------------------------
(***************************************************************************)
(* The network mediator (packages/egress-proxy): a pool of listeners bound *)
(* at boot, one per session; every connection is decided against the live  *)
(* grant rows of the listener's session, its name is resolved by the       *)
(* mediator, and what was opened is cut when its row dies or is no longer  *)
(* the listener's.                                                         *)
(*                                                                         *)
(* A connection is decided in one turn of the event loop, then waits for   *)
(* the resolver, and a CONNECT waits again for its dial; rows are revoked  *)
(* and expire meanwhile.  The rows belong to the gate: here an operator    *)
(* mints and revokes them at will.                                         *)
(***************************************************************************)
EXTENDS GrantPatterns

CONSTANTS
  Sessions,     (* session ids                                                *)
  Descends,     (* pairs <<s, r>>: s is a '/'-descendant of r                 *)
  Slots,        (* the boot-time pool of listeners                            *)
  Requests,     (* the connections containers may ask for                     *)
  Mints,        (* the terms of rows the operator may mint                    *)
  Addrs,        (* the addresses names resolve to                             *)
  Public,       (* those the dial policy allows                               *)
  Recheck,      (* the reaper's period, in ticks                              *)
  MaxConns, MaxRows, MaxTime    (* bounds of the model *)

ASSUME MediatorAssumption ==
  /\ None \notin Sessions /\ Descends \subseteq Sessions \X Sessions /\ Public \subseteq Addrs
  /\ {MaxConns, MaxRows, MaxTime} \subseteq Nat /\ Recheck \in Nat \ {0}
ASSUME MintsAreTerms ==
  \A m \in Mints : /\ m.class \in {"read", "write", None} /\ m.addresses \subseteq Addrs
                  /\ m.ttl \in Nat /\ m.scope \in {"session", "lineage", "all"}

VARIABLES
  now,        (* the clock, in ticks                                         *)
  rows,       (* the network grant rows, in order of creation                *)
  slotOf,     (* the session each listener is assigned to                    *)
  freedAt,    (* when each listener was last released; a history             *)
  conns,      (* the connections so far                                      *)
  sinceReap,  (* ticks since the reaper last ran                             *)
  closed      (* has closeAll run?                                           *)

vars == <<now, rows, slotOf, freedAt, conns, sinceReap, closed>>

-----------------------------------------------------------------------------
(* classifyConnection: the verdict on one connection *)

Live(i) == rows[i].revokedAt = 0 /\ (rows[i].expiresAt = 0 \/ rows[i].expiresAt > now)

(* networkGrantsForSession; a listener without a session has no rows. *)
InScope(i, s) ==
  /\ s # None
  /\ \/ rows[i].session = s
     \/ rows[i].session = None /\ (rows[i].root \in {None, s} \/ <<s, rows[i].root>> \in Descends)

(* The rows that carry the request's class: write carries read. *)
SameClassOnly(R, class) == { i \in R : rows[i].class = class }
Carrying(R, class) == { i \in R : rows[i].class \in {"write", class} }

PortNamed(R) == { i \in R : rows[i].pattern.kind = "HostAndPort" }

Reaching(s, q) == { i \in DOMAIN rows : InScope(i, s) /\ PatternReaches(rows[i].pattern, q) }
Classed(R) == { i \in R : rows[i].class # None }
Alive(R) == { i \in R : Live(i) }

(* The rule a refusal names, or "ok". *)
Verdict(s, q) ==
  LET reaching == Reaching(s, q)
      classed  == Classed(reaching)
      alive    == Alive(classed)
  IN
  IF q.class = None /\ ~q.tunnel THEN "unknown-method"
  ELSE IF reaching = {} THEN "no-grant"
  ELSE IF classed = {} THEN "classless-grant"
  ELSE IF alive = {} THEN (IF \E i \in classed : rows[i].revokedAt # 0 THEN "revoked" ELSE "expired")
  ELSE IF q.tunnel THEN (IF PortNamed(alive) = {} THEN "portless-grant" ELSE "ok")
  ELSE IF Carrying(alive, q.class) = {} THEN "method-class"
  ELSE "ok"

FirstOf(S) == CHOOSE i \in S : \A j \in S : i <= j

(* The row an admitted connection rides: for a request, one of its own     *)
(* class before a broader one.                                             *)
Ridden(s, q) ==
  LET alive == Alive(Classed(Reaching(s, q)))
      own   == SameClassOnly(alive, q.class)
  IN FirstOf(IF q.tunnel THEN PortNamed(alive)
             ELSE IF own # {} THEN own ELSE Carrying(alive, q.class))

(* resolvePinned: the answers the dial policy allows and the row pins. *)
AnyAnswer(answers, i) == answers
Dialable(answers, i) ==
  { a \in answers \cap Public : rows[i].addresses = {} \/ a \in rows[i].addresses }

-----------------------------------------------------------------------------
(* Connections *)

(* envFor: a session has the listener it claimed; an exhausted pool        *)
(* refuses the confinement.                                                *)
FreeSlots == { l \in Slots : slotOf[l] = None }
Claim(s) ==
  /\ \A l \in Slots : slotOf[l] # s
  /\ \E l \in FreeSlots : slotOf' = [slotOf EXCEPT ![l] = s]
  /\ UNCHANGED <<now, rows, freedAt, conns, sinceReap, closed>>

(* release: the listener stays bound, what it carries stays open, and the  *)
(* next session to claim may be given it.                                  *)
Release(s) ==
  /\ \E l \in Slots :
       /\ slotOf[l] = s
       /\ slotOf' = [slotOf EXCEPT ![l] = None]
       /\ freedAt' = [freedAt EXCEPT ![l] = now]
  /\ UNCHANGED <<now, rows, conns, sinceReap, closed>>

(* A connection arrives on the listener l, from any container that was     *)
(* ever given its URL: it is decided for the session that has l now.       *)
Connect(l, q) ==
  LET s == slotOf[l] IN
  /\ ~closed /\ Len(conns) < MaxConns
  /\ conns' = Append(conns,
       [session |-> s, slot |-> l, req |-> q, client |-> TRUE, addr |-> None, openedAt |-> 0,
        row   |-> IF Verdict(s, q) = "ok" THEN Ridden(s, q) ELSE 0,
        phase |-> IF Verdict(s, q) = "ok" THEN "resolving" ELSE "refused"])
  /\ UNCHANGED <<now, rows, slotOf, freedAt, sinceReap, closed>>

(* The resolver answers, or fails with no answers.  A plain request is     *)
(* tracked from its dial on, a tunnel only once its dial has connected.    *)
Resolve(c) ==
  /\ conns[c].phase = "resolving"
  /\ \E answers \in SUBSET Addrs :
       \/ /\ Dialable(answers, conns[c].row) = {}
          /\ conns' = [conns EXCEPT ![c].phase = "refused"]
       \/ \E a \in Dialable(answers, conns[c].row) :
            conns' = [conns EXCEPT ![c].addr = a,
                                   ![c].phase = IF conns[c].req.tunnel THEN "dialing" ELSE "open",
                                   ![c].openedAt = now]
  /\ UNCHANGED <<now, rows, slotOf, freedAt, sinceReap, closed>>

(* A tunnel's dial connects, or fails. *)
Dialed(c) ==
  /\ conns[c].phase = "dialing"
  /\ \/ conns' = [conns EXCEPT ![c].phase = "open", ![c].openedAt = now]
     \/ conns' = [conns EXCEPT ![c].phase = "refused"]
  /\ UNCHANGED <<now, rows, slotOf, freedAt, sinceReap, closed>>

(* The origin ends an open connection. *)
OriginEnds(c) ==
  /\ conns[c].phase = "open"
  /\ conns' = [conns EXCEPT ![c].phase = "ended", ![c].client = FALSE]
  /\ UNCHANGED <<now, rows, slotOf, freedAt, sinceReap, closed>>

(* The client goes away.  Only an open tunnel has a handler that ends it;  *)
(* a connection still resolving or dialing goes on without its client, and *)
(* so does a plain exchange.                                               *)
ClientLeaves(c) ==
  /\ conns[c].client /\ conns[c].phase \in {"resolving", "dialing", "open"}
  /\ conns' = [conns EXCEPT ![c].client = FALSE,
                            ![c].phase = IF @ = "open" /\ conns[c].req.tunnel THEN "ended" ELSE @]
  /\ UNCHANGED <<now, rows, slotOf, freedAt, sinceReap, closed>>

-----------------------------------------------------------------------------
(* The reaper, the end, and the world *)

(* What the reaper cuts: tunnels and exchanges whose row is not among the  *)
(* live ones of the session their listener has now.                        *)
Stands(c) == Live(conns[c].row) /\ InScope(conns[c].row, slotOf[conns[c].slot])
TunnelsOnly == { c \in DOMAIN conns : conns[c].phase = "open" /\ ~Stands(c) /\ conns[c].req.tunnel }
DeadRowsOnly == { c \in DOMAIN conns : conns[c].phase = "open" /\ ~Live(conns[c].row) }
Doomed == { c \in DOMAIN conns : conns[c].phase = "open" /\ ~Stands(c) }

Reap ==
  /\ ~closed
  /\ conns' = [c \in DOMAIN conns |->
                 IF c \in Doomed THEN [conns[c] EXCEPT !.phase = "cut", !.client = FALSE] ELSE conns[c]]
  /\ sinceReap' = 0
  /\ UNCHANGED <<now, rows, slotOf, freedAt, closed>>

(* closeAll: the reapers stop, open connections end, every client socket   *)
(* is destroyed; what still resolves or dials goes on.                     *)
DropSocket(d) == [d EXCEPT !.client = FALSE]
CloseAll ==
  /\ ~closed
  /\ closed' = TRUE
  /\ slotOf' = [l \in Slots |-> None]
  /\ conns' = [c \in DOMAIN conns |->
                 IF conns[c].phase = "open" THEN [conns[c] EXCEPT !.phase = "ended", !.client = FALSE]
                 ELSE DropSocket(conns[c])]
  /\ UNCHANGED <<now, rows, freedAt, sinceReap>>

(* The gate's side: rows are minted for one session, a lineage or all. *)
Mint(s, m) ==
  /\ Len(rows) < MaxRows
  /\ rows' = Append(rows, [pattern |-> m.pattern, class |-> m.class, addresses |-> m.addresses,
                           session |-> IF m.scope = "session" THEN s ELSE None,
                           root |-> IF m.scope = "lineage" THEN s ELSE None,
                           expiresAt |-> now + m.ttl, revokedAt |-> 0])
  /\ UNCHANGED <<now, slotOf, freedAt, conns, sinceReap, closed>>

Revoke(i) ==
  /\ rows[i].revokedAt = 0
  /\ rows' = [rows EXCEPT ![i].revokedAt = now]
  /\ UNCHANGED <<now, slotOf, freedAt, conns, sinceReap, closed>>

(* Time passes; a reaper that is due runs before it does. *)
Tick ==
  /\ now < MaxTime
  /\ closed \/ sinceReap < Recheck
  /\ now' = now + 1
  /\ sinceReap' = IF closed THEN sinceReap ELSE sinceReap + 1
  /\ UNCHANGED <<rows, slotOf, freedAt, conns, closed>>

Init ==
  /\ now = 1 /\ rows = << >> /\ conns = << >>
  /\ slotOf = [l \in Slots |-> None] /\ freedAt = [l \in Slots |-> 0]
  /\ sinceReap = 0 /\ closed = FALSE

Next ==
  \/ \E s \in Sessions : Claim(s) \/ Release(s)
  \/ \E l \in Slots, q \in Requests : Connect(l, q)
  \/ \E c \in DOMAIN conns : Resolve(c) \/ Dialed(c) \/ OriginEnds(c) \/ ClientLeaves(c)
  \/ Reap \/ CloseAll
  \/ \E s \in Sessions, m \in Mints : Mint(s, m)
  \/ \E i \in DOMAIN rows : Revoke(i)
  \/ Tick

Spec == Init /\ [][Next]_vars

-----------------------------------------------------------------------------
(* What the mediator promises *)

RowRecords ==
  [pattern : { m.pattern : m \in Mints }, class : {"read", "write", None}, addresses : SUBSET Addrs,
   session : Sessions \cup {None}, root : Sessions \cup {None}, expiresAt : Nat, revokedAt : Nat]
ConnRecords ==
  [session : Sessions \cup {None}, slot : Slots, req : Requests, client : BOOLEAN, addr : Addrs \cup {None}, openedAt : Nat,
   row : Nat, phase : {"resolving", "dialing", "open", "refused", "ended", "cut"}]

(* Every variable keeps its shape; a connection past its verdict rides a   *)
(* row that exists.                                                        *)
MediatorTypeOK ==
  /\ now \in Nat \ {0} /\ sinceReap \in 0..Recheck /\ closed \in BOOLEAN
  /\ rows \in Seq(RowRecords)
  /\ slotOf \in [Slots -> Sessions \cup {None}] /\ freedAt \in [Slots -> Nat]
  /\ conns \in Seq(ConnRecords)
  /\ \A c \in DOMAIN conns : conns[c].phase # "refused" => conns[c].row \in DOMAIN rows

(* When a row died: revoked or expired, whichever came first. *)
DeadSince(i) ==
  LET r == rows[i] IN
  IF r.revokedAt # 0 /\ (r.expiresAt = 0 \/ r.revokedAt <= r.expiresAt) THEN r.revokedAt ELSE r.expiresAt

Overdue(c) ==
  /\ conns[c].phase = "open" /\ ~Live(conns[c].row)
  /\ now > DeadSince(conns[c].row) + Recheck /\ now > conns[c].openedAt + Recheck

(* Revocation and expiry reach what is already open, tunnels and exchanges *)
(* alike, within one period of the reaper: even a connection admitted      *)
(* before its row died and opened after it (the reaper, #79).              *)
CutWithinRecheck == ~closed => \A c \in DOMAIN conns : ~Overdue(c)

(* The name was granted, the address is dialed: what is open leads to an   *)
(* address the dial policy allows and the row names, whatever the resolver *)
(* answered, under a row of the session it was decided for (#55, #165).    *)
DialedWhereConsented ==
  \A c \in DOMAIN conns :
    conns[c].phase \in {"dialing", "open"} =>
      LET i == conns[c].row IN
      /\ conns[c].addr \in Public
      /\ rows[i].addresses # {} => conns[c].addr \in rows[i].addresses
      /\ InScope(i, conns[c].session)

(* Session identity is the socket (index.js:16-20, :142-146): what is open *)
(* rides a row of the session its listener has, and a listener that is     *)
(* released, whoever claims it next, carries what its former session       *)
(* opened, or had admitted, no longer than one period of the reaper; an    *)
(* exhausted pool never gives one away.                                    *)
CarriesItsOwn ==
  ~closed => \A c \in DOMAIN conns :
    conns[c].phase = "open" /\ ~InScope(conns[c].row, slotOf[conns[c].slot]) =>
      now <= freedAt[conns[c].slot] + Recheck \/ now <= conns[c].openedAt + Recheck
=============================================================================
