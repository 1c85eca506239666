----------------------------- MODULE Delegation -----------------------------
(***************************************************************************)
(* Delegation (packages/specialists/src): an agent runs children; MA-3     *)
(* keeps the Enforcer's record of every run and tells the parent at each   *)
(* transition; MA-4 lets one agent address another only under a scope over *)
(* the recipient's attention, which the recipient narrows or withdraws.    *)
(*                                                                         *)
(* The host is external: it starts and settles runs, with lifecycle edges  *)
(* whose handlers run in one step, and keeps the live agents.  A run may   *)
(* be of a new child or of one the parent ran before, whose runs may still *)
(* go on (child-state.test.js:161).  Both registries are in memory: a      *)
(* restart leaves the agents' headers and the runs a remote provider       *)
(* carries.                                                                *)
(***************************************************************************)
EXTENDS Naturals, SequencesExt, FiniteSets

CONSTANTS
  Agents, Root,     \* every session, and the top-level one
  MaxDepth,         \* mountedMaxDepth: the deepest child a row spawns
  Kinds,            \* ADDRESS_KINDS
  MaxRuns,          \* bound: runs in all
  MaxRestarts,      \* bound
  NoAgent

ASSUME RootIsAnAgent == Root \in Agents
ASSUME NoneIsNoAgent == NoAgent \notin Agents

VARIABLES
  header,    \* an agent's parentSession and depth, once created
  live,      \* the agents the host has
  runs,      \* the host's runs, by runId: the child, ended or not, the process
  records,   \* ChildStateRegistry: runId -> record
  told,      \* the picture in an agent's last notice
  scopes,    \* ConsentScopeRegistry, by number
  restarts

delegationVars == <<header, live, runs, records, told, scopes, restarts>>

Nothing == <<>>
DelegationInit ==
  /\ header = [a \in {Root} |-> [parent |-> NoAgent, depth |-> 0]]
  /\ live = {Root}
  /\ runs = Nothing
  /\ records = Nothing
  /\ told = [a \in Agents |-> {}]
  /\ scopes = Nothing
  /\ restarts = 0

\* A map with one entry more, or with that entry's value put anew.
Put(map, key, value) == [k \in DOMAIN map \cup {key} |-> IF k = key THEN value ELSE map[k]]

----------------------------------------------------------------------------
(* child-state.js *)

\* childrenOf: the parent's picture.
ChildrenOf(recs, p) == {[run |-> r, state |-> recs[r].state] :
                          r \in {r \in DOMAIN recs : recs[r].parent = p}}

\* inform: a parent that is gone is not told.
Inform(recs, p) == told' = IF p \in live THEN [told EXCEPT ![p] = ChildrenOf(recs, p)] ELSE told

\* A mutant: an end is paired with its starts by the child, not by the run.
SettleTheChild(run) ==
  [r \in DOMAIN records |-> IF records[r].child = records[run].child
                            THEN [records[r] EXCEPT !.state = "settled"] ELSE records[r]]

Settle(run) == [records EXCEPT ![run].state = "settled"]

----------------------------------------------------------------------------
(* consent.js *)

Declare(recipient, sender) ==
  [recipient |-> recipient, sender |-> sender, kinds |-> Kinds]

\* covering: a live scope for the address act. A withdrawn scope has no kinds left.
Covers(scs, recipient, sender, kind) ==
  \E i \in DOMAIN scs : /\ scs[i].recipient = recipient /\ scs[i].sender = sender
                        /\ kind \in scs[i].kinds

\* gateAddress: one's own attention is one's own.
MayAddress(scs, recipient, sender, kind) ==
  sender = recipient \/ Covers(scs, recipient, sender, kind)

\* A mutant: what is kept need not have been there.
KeepAny(scope, keep) == keep

Kept(scope, keep) == scope.kinds \cap keep

----------------------------------------------------------------------------
(* The host's edges *)

\* The host spawns under maxDepth; on subagent/start the record is made, the parent
\* told, and the reciprocal scopes declared, whatever was withdrawn before.
Start(p, c) ==
  /\ p \in live /\ Len(runs) < MaxRuns
  /\ header[p].depth < MaxDepth
  /\ \/ c \notin DOMAIN header
     \/ c \in live /\ header[c].parent = p
  /\ header' = Put(header, c, [parent |-> p, depth |-> header[p].depth + 1])
  /\ live' = live \cup {c}
  /\ runs' = Append(runs, [child |-> c, ended |-> FALSE, process |-> restarts])
  /\ records' = Put(records, Len(runs) + 1, [parent |-> p, child |-> c, state |-> "running"])
  /\ Inform(records', p)
  /\ scopes' = scopes \o <<Declare(c, p), Declare(p, c)>>
  /\ UNCHANGED restarts

\* subagent/end pairs with its start by runId; an end whose start this process
\* never saw makes no record.
End(run) ==
  /\ ~runs[run].ended
  /\ runs' = [runs EXCEPT ![run].ended = TRUE]
  /\ IF run \in DOMAIN records
     THEN records' = Settle(run) /\ Inform(records', records[run].parent)
     ELSE UNCHANGED <<records, told>>
  /\ UNCHANGED <<header, live, scopes, restarts>>

\* The host disposes of an agent none of whose runs goes on; its children may.
Leave(a) ==
  /\ a \in live \ {Root}
  /\ \A r \in DOMAIN runs : runs[r].child = a => runs[r].ended
  /\ live' = live \ {a}
  /\ UNCHANGED <<header, runs, records, told, scopes, restarts>>

----------------------------------------------------------------------------
(* The recipient's tool: consent_withdraw *)

\* _ownScope: only the recipient's.
Withdraw(a, i) ==
  /\ a \in live /\ scopes[i].recipient = a
  /\ scopes' = [scopes EXCEPT ![i].kinds = {}]
  /\ UNCHANGED <<header, live, runs, records, told, restarts>>

\* Narrowing must remove something; narrowing to nothing is withdrawal.
Narrow(a, i, keep) ==
  LET kept == Kept(scopes[i], keep)
  IN  /\ a \in live /\ scopes[i].recipient = a /\ scopes[i].kinds # {}
      /\ kept # scopes[i].kinds
      /\ scopes' = [scopes EXCEPT ![i].kinds = kept]
      /\ UNCHANGED <<header, live, runs, records, told, restarts>>

\* The process restarts on the agents it had.
Restart ==
  /\ restarts < MaxRestarts
  /\ restarts' = restarts + 1
  /\ records' = Nothing /\ scopes' = Nothing
  /\ told' = [a \in Agents |-> {}]
  /\ UNCHANGED <<header, live, runs>>

DelegationNext ==
  \/ \E p \in live, c \in Agents \ {Root} : Start(p, c)
  \/ \E r \in DOMAIN runs : End(r)
  \/ \E a \in live : Leave(a)
  \/ \E a \in live, i \in DOMAIN scopes : Withdraw(a, i)
  \/ \E a \in live, i \in DOMAIN scopes, keep \in SUBSET Kinds : Narrow(a, i, keep)
  \/ Restart

DelegationSpec == DelegationInit /\ [][DelegationNext]_delegationVars

----------------------------------------------------------------------------
(* Properties *)

\* MA-3: the last notice of every live parent is the truth about the runs it asked
\* for in this process, settled ones included, in whatever order they ended, several of
\* one child at once among them.
ParentsSeeTheirChildren ==
  \A p \in live :
    told[p] = {[run |-> r, state |-> IF runs[r].ended THEN "settled" ELSE "running"] :
                 r \in {r \in DOMAIN runs : /\ header[runs[r].child].parent = p
                                           /\ runs[r].process = restarts}}

\* MA-4: a recipient's attention opens to a sender by a delegation between the two
\* and by nothing else: what it narrowed or withdrew stays so, scope by scope.
OnlyDelegationOpens ==
  [][\A s, r \in Agents, kind \in Kinds :
       MayAddress(scopes', r, s, kind) /\ ~MayAddress(scopes, r, s, kind) =>
         /\ Len(runs') = Len(runs) + 1
         /\ LET c == Last(runs').child IN {s, r} = {c, header'[c].parent}]_delegationVars
=============================================================================
