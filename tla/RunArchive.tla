----------------------------- MODULE RunArchive -----------------------------
(***************************************************************************)
(* The successive runs of a community on one directory (tools/             *)
(* community-live.mjs): the manifest of the last one (run.json) with a copy *)
(* of each under runs/, and the identity set a resumed run reuses (tools/  *)
(* rehearsal-keyring.mjs).  A launch may die between any two of its writes, *)
(* or in one, which leaves that file cut short.                             *)
(*                                                                         *)
(* A key is the launch that generated it.  The Enforcer's key and annex are *)
(* written between the keyring and the roll, and a set without them has no *)
(* roll: they are left out, with the seed members, the witness, the ledger *)
(* and a key file cut short.  Two launches at once are not modelled.       *)
(***************************************************************************)
EXTENDS Naturals, Sequences, FiniteSets

CONSTANTS
  Crew,          \* the members a charter may name
  MaxLaunches,   \* bound
  Absent,        \* no such file
  Torn           \* what a file cut short holds

ASSUME FilesAreTold == /\ MaxLaunches \in Nat /\ Absent # Torn
                       /\ Absent \notin Nat \cup {"kept", "torn"} /\ Torn \notin Nat

VARIABLES
  launches,      \* how many launches there were: the tag of the last
  process,       \* the launch under way
  run,           \* run.json: the tag it carries
  copies,        \* runs/<tag>.json
  cuts,          \* the manifests run.json was given, in order
  keyring,       \* keyring.json: the launch whose authority keys it names
  authority,     \* private/dev-rehearsal-authority-*.pem
  pems,          \* private/member-*.pem
  roll           \* roll.json: whom it admits, and the keys that signed

archiveVars == <<launches, process, run, copies, cuts, keyring, authority, pems, roll>>

Idle == [phase |-> "idle"]
Phase == process.phase

ArchiveInit ==
  /\ launches = 0 /\ process = Idle
  /\ run = Absent /\ cuts = <<>>
  /\ copies = [t \in 1..MaxLaunches |-> Absent]
  /\ keyring = 0 /\ authority = <<0, 0, 0>>
  /\ pems = [m \in Crew |-> 0]
  /\ roll = Absent

diskVars == <<run, copies, cuts>>
setVars == <<keyring, authority, pems, roll>>

Goes(phase) == process' = [process EXCEPT !.phase = phase]

----------------------------------------------------------------------------
(* Before the boot: the previous cut, then the identity set *)

\* readPreviousRun: a malformed manifest is none.
PreviousRun == IF run = Torn THEN Absent ELSE run

Launch ==
  /\ Phase = "idle" /\ launches < MaxLaunches
  /\ launches' = launches + 1
  /\ \E roster \in (SUBSET Crew) \ {{}}, fresh \in BOOLEAN :
       process' = [phase |-> "preserving", roster |-> roster, fresh |-> fresh, reused |-> FALSE,
                   previous |-> PreviousRun, unread |-> run = Torn, started |-> FALSE]
  /\ UNCHANGED <<diskVars, setVars>>

Copied(tag, as) == copies' = IF tag # Absent /\ copies[tag] = Absent THEN [copies EXCEPT ![tag] = as] ELSE copies

\* A mutant: the copy is left to the next manifest.
CopiesLater(tag) == UNCHANGED copies

\* preservePreviousRun: a copy there is left alone.
Preserves(tag) == Copied(tag, "kept")

Preserve == /\ Phase = "preserving" /\ Preserves(process.previous) /\ Goes("identity")
            /\ UNCHANGED <<launches, run, cuts, setVars>>

\* A roll that is there and parses.
Parses(r) == r \notin {Absent, Torn}

\* verifyRoll: every row carries the quorum of the manifest's authority.
RollVerifies(r) == Parses(r) /\ \A signers \in r.signed : signers = <<keyring, keyring>>

\* ensureRehearsalKeyring: a set that is there is reused or, --fresh, minted over.
Mint == /\ Phase = "identity" /\ (keyring = 0 \/ process.fresh) /\ Goes("minting")
        /\ UNCHANGED <<launches, diskVars, setVars>>
Reuse == /\ Phase = "identity" /\ keyring # 0 /\ ~process.fresh
         /\ process' = IF RollVerifies(roll) THEN [process EXCEPT !.phase = "keys", !.reused = TRUE] ELSE Idle
         /\ UNCHANGED <<launches, diskVars, setVars>>

\* The authority's keys, one by one, and then the manifest that names them.
MintAuthority ==
  /\ Phase = "minting"
  /\ IF \E i \in 1..3 : authority[i] # launches
     THEN /\ LET i == CHOOSE j \in 1..3 : authority[j] # launches /\ \A k \in 1..j - 1 : authority[k] = launches
             IN  authority' = [authority EXCEPT ![i] = launches]
          /\ UNCHANGED <<keyring, process>>
     ELSE keyring' = launches /\ Goes("keys") /\ UNCHANGED authority
  /\ UNCHANGED <<launches, diskVars, pems, roll>>

\* A mutant: everyone the charter names is given a key.
Everyone == process.roster

\* Whom the roll has still to admit: the roster, or those a reused roll does not show.
Missing == IF process.reused THEN process.roster \ DOMAIN roll.admits ELSE process.roster

KeysReady == \A m \in Missing : pems[m] = launches

\* A member's new key is on disk before the roll admits it.
KeyFor(m) ==
  /\ Phase = "keys" /\ m \in Missing /\ pems[m] # launches
  /\ pems' = [pems EXCEPT ![m] = launches]
  /\ UNCHANGED <<launches, process, diskVars, keyring, authority, roll>>

\* The epoch is closed and the roll written: whole by a mint, with the new rows by a reuse.
WriteRoll ==
  /\ Phase = "keys" /\ KeysReady /\ Goes("booting")
  /\ LET before == IF process.reused THEN roll ELSE [admits |-> [m \in {} |-> 0], signed |-> {}]
     IN  roll' = IF Missing = {} THEN roll
                 ELSE [admits |-> [m \in DOMAIN before.admits \cup Missing |->
                                     IF m \in Missing THEN pems[m] ELSE before.admits[m]],
                       signed |-> before.signed \cup {<<authority[1], authority[2]>>}]
  /\ UNCHANGED <<launches, diskVars, keyring, authority, pems>>

\* seatTrustRoot: the body is sealed with every stored key, and two must verify.
TrustRootSeats == Cardinality({i \in 1..3 : authority[i] = keyring}) >= 2

\* The trust root is seated and the composition boots over the roll, or the launch ends
\* without a manifest.
Boot == /\ Phase = "booting"
        /\ IF TrustRootSeats /\ RollVerifies(roll) THEN Goes("running") ELSE process' = Idle
        /\ UNCHANGED <<launches, diskVars, setVars>>

----------------------------------------------------------------------------
(* The run, and its manifest *)

\* onRoute, onSeat.
Starts == /\ Phase = "running" /\ ~process.started
          /\ process' = [process EXCEPT !.started = TRUE]
          /\ UNCHANGED <<launches, diskVars, setVars>>

\* A run that never started leaves the previous cut in run.json: it is recorded beside it.
Finishes == /\ Phase = "running"
            /\ IF ~process.started /\ process.previous # Absent THEN process' = Idle ELSE Goes("writing")
            /\ UNCHANGED <<launches, diskVars, setVars>>

\* continuationOf: the manifest there was at the launch, if it was read.
Continued(tag) == [tag |-> tag, continuedFrom |-> process.previous, unread |-> process.unread]

\* writeRunManifest: run.json, which names the cut it continues, and then its copy.
WriteManifest ==
  /\ Phase = "writing" /\ Goes("copying")
  /\ run' = launches
  /\ cuts' = Append(cuts, Continued(launches))
  /\ UNCHANGED <<launches, copies, setVars>>
CopyManifest ==
  /\ Phase = "copying" /\ Copied(launches, "kept")
  /\ process' = Idle
  /\ UNCHANGED <<launches, run, cuts, setVars>>

\* A death: a boot that fails, the third signal, a kill.  In a write, it tears the file.
Dies ==
  /\ Phase # "idle" /\ process' = Idle
  /\ \/ UNCHANGED <<run, copies, roll>>
     \/ Phase = "preserving" /\ Copied(process.previous, "torn") /\ UNCHANGED <<run, roll>>
     \/ Phase = "keys" /\ Missing # {} /\ KeysReady /\ roll' = Torn /\ UNCHANGED <<run, copies>>
     \/ Phase = "writing" /\ run' = Torn /\ UNCHANGED <<copies, roll>>
     \/ Phase = "copying" /\ Copied(launches, "torn") /\ UNCHANGED <<run, roll>>
  /\ UNCHANGED <<launches, cuts, keyring, authority, pems>>

ArchiveActs == \/ Launch \/ Preserve \/ Mint \/ Reuse \/ MintAuthority \/ WriteRoll \/ Boot
               \/ \E m \in Crew : KeyFor(m)
               \/ Starts \/ Finishes \/ WriteManifest \/ CopyManifest \/ Dies

----------------------------------------------------------------------------
(* Properties *)

\* However launches fail and die, a cut whose manifest was written stays in the directory,
\* in run.json or as a copy: "even a started run that dies later cannot lose it"
\* (community-live.mjs:756-757). A death in the copy itself leaves it torn, and a torn
\* copy is left alone.
CutsStayReadable == \A i \in DOMAIN cuts : run = cuts[i].tag \/ copies[cuts[i].tag] # Absent

\* The cuts read back as one line: each names the one before it, over the launches that
\* failed between them, unless run.json was torn (run-manifest.mjs:1-11).
LineageSkipsNoCut ==
  \A i \in 2..Len(cuts) : cuts[i].continuedFrom = cuts[i - 1].tag \/ cuts[i].unread

\* The cuts are there and read back as one line: the parts above.
CutsAreKept == CutsStayReadable /\ LineageSkipsNoCut

\* Members keep their keys over every launch but a --fresh one, whatever died before
\* (community-live.mjs:427-431), and a running community signs with the keys of its roll.
MembersKeepTheirKeys ==
  [][/\ (Phase # "idle" /\ ~process.fresh /\ Parses(roll) /\ Parses(roll')) =>
          \A m \in DOMAIN roll.admits : m \in DOMAIN roll'.admits /\ roll'.admits[m] = roll.admits[m]
     /\ Phase' = "running" => \A m \in process.roster : pems[m] = roll.admits[m]]_archiveVars
=============================================================================
