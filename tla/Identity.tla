------------------------------ MODULE Identity ------------------------------
(***************************************************************************)
(* Whose deed a session is (packages/self-model/src, over the member roll): *)
(* the Enforcer certifies each session once in a process's life, chained to *)
(* its parent's certificate and countersigned by the Member its id is bound *)
(* to, and writes the certificate to a ledger the auditor reads offline     *)
(* (auditor/audit.mjs), beside the roll as it stands by then.               *)
(*                                                                         *)
(* The runtime reads the roll once, at boot.  A signature is that of the    *)
(* key named, and a digest is the certificate: certificates are numbered in *)
(* the order of issue.  A session's header (Parent) is durable; whether it  *)
(* can be read depends on the agents the host holds.                        *)
(***************************************************************************)
EXTENDS Roll

CONSTANTS
  Sessions,   \* session ids, as sequences of characters
  Parent,     \* header.parentSession of each, or None
  Declarable, \* the prefixes a composition declares, if it binds at all
  MaxCerts, MaxLost, MaxRows   \* bounds: certificates, lines lost, rows of the roll

ASSUME IdsAreSequences == \A id \in Sessions \cup Declarable : id \in Seq(ToSet(id))

\* A header is written when its session is spawned, one deeper than its parent's.
ASSUME HeadersAreLineages ==
  /\ Parent \in [Sessions -> Sessions \cup {None}] /\ None \notin Sessions
  /\ IsFiniteSet(Sessions)
  /\ \E depth \in [Sessions -> 0..Cardinality(Sessions)] :
       \A s \in Sessions : depth[s] = IF Parent[s] = None THEN 0 ELSE depth[Parent[s]] + 1

VARIABLES
  running,    \* bound: whether processes run over the roll in this behaviour
  verdict,    \* the members as the roll had them when the process booted
  binds,      \* memberBinding: by prefix, the founding key of a Member
  live,       \* the agents the host holds, whose headers can be read
  issued,     \* every certificate, in order
  subjects,   \* the certificate in force for each session, 0 for none
  ledger,     \* the certificates whose line was written
  declared    \* the prior declarations on their ledger

identityVars == <<running, verdict, binds, live, issued, subjects, ledger, declared>>

Today == Standing(entries)

----------------------------------------------------------------------------
(* self-model/src/index.js: the binding *)

\* bindingFor: the longest prefix of the id; one Member for all is the empty one.
Matching(s) == {p \in DOMAIN binds : IsPrefix(p, s)}
BindingFor(s) ==
  IF Matching(s) = {} THEN None
  ELSE binds[CHOOSE p \in Matching(s) : \A q \in Matching(s) : Len(q) <= Len(p)]

\* A mutant: a Member signs with the key it was admitted with.
FoundingKey(m) == Head(verdict.lineage[m])

CurrentKey(m) == Last(verdict.lineage[m])

\* A declared binding boots over a roll that verifies, with Members it admits, each
\* holding its current key; whether a Member was revoked is carried, and refuses nothing.
Bindings ==
  {<<>>} \cup IF Verifies(entries, checkpoints) THEN [Declarable -> DOMAIN Today.lineage] ELSE {}

----------------------------------------------------------------------------
(* self-model/src/index.js: certificates *)

Depth[s \in Sessions] == IF Parent[s] = None THEN 0 ELSE 1 + Depth[Parent[s]]

\* A mutant: a session with a parent is one deep.
OneDeep(s) == IF Parent[s] = None THEN 0 ELSE 1

\* header.delegationDepth
DepthOf(s) == Depth[s]

\* signSubjectCert, over the parent's certificate where there is one by now.
Certificate(s, inForce) ==
  [subject |-> s, depth |-> DepthOf(s), parent |-> Parent[s],
   parentCert |-> IF Parent[s] = None THEN 0 ELSE inForce[Parent[s]],
   member |-> IF BindingFor(s) = None THEN None ELSE CurrentKey(BindingFor(s)),
   deedOf |-> BindingFor(s)]

\* verifySubjectCert: what a roll lets a verifier say of the Member a certificate names.
Binding(st, c) == IF c.member = None THEN "unbound"
                  ELSE IF Seen(st, c.member) THEN "verified" ELSE "unverifiable"

\* resolveMember
StateOf(st, c) ==
  IF Binding(st, c) # "verified" THEN "none"
  ELSE LET m == MemberOf(st, c.member)
       IN  IF m \in st.revoked THEN "revoked"
           ELSE IF Last(st.lineage[m]) = c.member THEN "live" ELSE "superseded"
KeysOf(st, c) ==
  IF Binding(st, c) = "verified" THEN ToSet(st.lineage[MemberOf(st, c.member)]) ELSE {}

HasCertificate(s) == subjects[s] # 0

\* The sessions one issue certifies, the eldest first: s, and its ancestors up to one
\* that is certified or whose header cannot be read.
Uncertified[s \in Sessions] ==
  IF HasCertificate(s) THEN <<>>
  ELSE IF Parent[s] = None \/ Parent[s] \notin live THEN <<s>>
  ELSE Append(Uncertified[Parent[s]], s)

\* What is in force once the sessions `new` are certified, in that order.
InForce(new) ==
  [s \in Sessions |-> IF s \in ToSet(new) THEN Len(issued) + (CHOOSE i \in DOMAIN new : new[i] = s)
                     ELSE subjects[s]]

\* ensureSubject: each over its parent's certificate, which came before it.  A line that
\* cannot be appended is lost, and the certificate stands.
EnsureSubject(s) ==
  LET new == Uncertified[s]
  IN  /\ Len(issued) + Len(new) <= MaxCerts
      /\ subjects' = InForce(new)
      /\ issued' = issued \o [i \in DOMAIN new |-> Certificate(new[i], subjects')]
      /\ \E written \in SUBSET (Len(issued) + 1 .. Len(issued')) : ledger' = ledger \cup written
      /\ Cardinality(DOMAIN issued' \ ledger') <= MaxLost

\* attestFor, before the first step of a turn that has input and at self_describe.
Attests(s) == /\ s \in live
              /\ EnsureSubject(s)
              /\ UNCHANGED <<running, verdict, binds, live, declared>>

\* subagent/start, where the child's header can be read by then.
Spawns(s) == /\ Parent[s] \in live /\ s \notin live
             /\ live' = live \cup {s}
             /\ EnsureSubject(s)
             /\ UNCHANGED <<running, verdict, binds, declared>>

\* priorDeclarations.declare: by the Member's current key; an append that fails is warned of.
Declare(m) ==
  /\ m \in Range(binds)
  /\ declared' \in {declared, declared \cup {[member |-> m, key |-> CurrentKey(m)]}}
  /\ UNCHANGED <<running, verdict, binds, live, issued, subjects, ledger>>

\* A session the host opens or resumes, with no spawn.
Opens(s) == /\ s \notin live
            /\ live' = live \cup {s}
            /\ UNCHANGED <<running, verdict, binds, issued, subjects, ledger, declared>>

\* A new process: the keys and certificates in memory are gone, the files are not.
Restart ==
  /\ binds' \in Bindings
  /\ verdict' = Today
  /\ live' = {}
  /\ subjects' = [s \in Sessions |-> 0]
  /\ UNCHANGED <<running, issued, ledger, declared>>

----------------------------------------------------------------------------
(* self-model/src/inquiry.js *)

\* authorityChain: the sessions walked, and whether the walk reached a root.
AuthorityChain[s \in Sessions] ==
  IF s \notin live THEN [links |-> <<s>>, complete |-> FALSE]
  ELSE IF Parent[s] = None THEN [links |-> <<s>>, complete |-> TRUE]
  ELSE LET up == AuthorityChain[Parent[s]]
       IN  [links |-> <<s>> \o up.links, complete |-> up.complete]

\* certificateOf, with verifyCert: what an answer shows of a Member's certificate, and of
\* the Member as the roll had it at boot.
Shown(s) == IF ~HasCertificate(s) THEN [known |-> FALSE]
            ELSE LET c == issued[subjects[s]]
                 IN  [known |-> TRUE, depth |-> c.depth, parentCert |-> c.parentCert,
                      member |-> IF Binding(verdict, c) = "verified" THEN MemberOf(verdict, c.member) ELSE None,
                      state |-> StateOf(verdict, c)]

\* memberBinding.resolve: the lineage the judicature recuses by.
Resolved(s) == IF HasCertificate(s) THEN KeysOf(verdict, issued[subjects[s]]) ELSE {}

----------------------------------------------------------------------------
(* auditor/audit.mjs: the ledgers against the roll *)

BrokenLineage(c) ==
  c.parentCert # 0 /\ \/ c.parentCert \notin ledger
                      \/ issued[c.parentCert].subject # c.parent
                      \/ issued[c.parentCert].depth + 1 # c.depth

\* checkIdentities: the lines found in error.
IdentityErrors(st) ==
  {i \in ledger : \/ Binding(st, issued[i]) = "unverifiable"
                  \/ StateOf(st, issued[i]) = "revoked"
                  \/ BrokenLineage(issued[i])}

\* verifyPriorDeclaration
DeclarationRefused(st, d) == ~Seen(st, d.key) \/ MemberOf(st, d.key) \in st.revoked

----------------------------------------------------------------------------
IdentityInit ==
  /\ Init
  /\ running \in BOOLEAN
  /\ verdict = Nobody /\ binds = <<>> /\ live = {} /\ issued = <<>> /\ ledger = {} /\ declared = {}
  /\ subjects = [s \in Sessions |-> 0]

Acceptable(st) == {row \in Rows : Accepted(st, row)}

\* The office appends; while processes run, only rows that stand.
RollGrows == /\ IF running
                THEN Len(entries) < MaxRows /\ \E row \in Acceptable(Today) : AppendRow(row)
                ELSE Next
             /\ UNCHANGED identityVars

\* Bound: nothing but the roll moves past a declaration, which no certificate bears on.
SessionsAct == /\ running /\ declared = {}
               /\ \/ \E s \in Sessions : Attests(s) \/ Spawns(s) \/ Opens(s)
                  \/ \E m \in Keys : Declare(m)
                  \/ Restart
               /\ UNCHANGED vars

IdentitySpec == IdentityInit /\ [][RollGrows \/ SessionsAct]_<<vars, identityVars>>

----------------------------------------------------------------------------
(* Properties *)

\* #20, I-7: offline, the auditor finds in error the lines that bind a certificate the
\* ledger lost or a Member since revoked, and no other line: not for a restart, a
\* header unread, a rotation, or the order in which the sessions of a lineage came.
AuditNamesWhatIsLost ==
  LET roll == Today
  IN  /\ IdentityErrors(roll) = {i \in ledger : \/ issued[i].parentCert \in DOMAIN issued \ ledger
                                                \/ issued[i].deedOf \in roll.revoked}
      /\ \A d \in declared : DeclarationRefused(roll, d) <=> d.member \in roll.revoked

\* R-13, J-1: along an answered chain, what a Member's certificate says of its place is
\* what the recorded lineage says, the parent it is chained to is the one the chain shows,
\* and the Member it answers to is the one its id binds it to, never one superseded.  A
\* certified session recuses by that Member's keys and no other's.
AnsweredChainsHold ==
  \A s \in live :
    LET chain == AuthorityChain[s]
        n == Len(chain.links)
    IN  \A i \in 1..n :
          LET link == chain.links[i]
              shown == Shown(link)
          IN  shown.known =>
                /\ chain.complete => shown.depth = n - i
                /\ shown.parentCert # 0 /\ i < n => shown.parentCert = subjects[chain.links[i + 1]]
                /\ shown.member = BindingFor(link) /\ shown.state # "superseded"
                /\ Resolved(link) = IF shown.member = None THEN {} ELSE ToSet(verdict.lineage[shown.member])
=============================================================================
