---------------------------- MODULE LiveRunProofs ----------------------------
(***************************************************************************)
(* Theorems about a live run: the directory its launches write, the        *)
(* human's seat, the page that shows it and the feed behind the page, the  *)
(* members who post, and what is read of a run afterwards.  They keep      *)
(* variables of their own, and each has its own inductive invariant; only  *)
(* the seat and its page are taken together, since what the page shows is  *)
(* what the seat posed.                                                    *)
(*                                                                         *)
(* The files, for any number of launches and any process deaths: run.json  *)
(* is copied before it is written again, so no cut is lost; and a roll     *)
(* that verifies has the keys it names on disk, so that a launch that      *)
(* keeps the set signs with them.                                          *)
(*                                                                         *)
(* The seat and the page, for any cards, terms and clocks, and any answers *)
(* of the server lost, late or out of order: a halted floor is idle, a     *)
(* draft is one card's, a later answer to /state has every waiting card an *)
(* earlier one has, and a stream runs from where the page left off, or     *)
(* where the server's memory begins, to the last row of the feed.          *)
(*                                                                         *)
(* The members, for any charter that validates: a session is one member's, *)
(* whatever their prefixes share, and each post reaches each other member  *)
(* as its author's, once, or falls to the limit of one framing.            *)
(*                                                                         *)
(* What is read, for any record, log and contents: the pages of a reader   *)
(* leave nothing out while the record grows; the archive and the report    *)
(* read each act by its own result; a diff keeps a longest common part, so *)
(* the tally of the diffs adds up; a line of the lane is lost only to a    *)
(* death in its append.                                                    *)
(***************************************************************************)
EXTENDS LiveRun, SequenceTheorems, FiniteSetTheorems, TLAPS

-----------------------------------------------------------------------------
(* The files of one directory, launch after launch *)

Tags == 1..MaxLaunches
AtWork == {"preserving", "identity", "minting", "keys", "booting", "running", "writing"}
Preserved == AtWork \ {"preserving"}
Processes == [phase : AtWork \cup {"copying"}, roster : SUBSET Crew, fresh : BOOLEAN, reused : BOOLEAN,
              previous : {Absent} \cup Tags, unread : BOOLEAN, started : BOOLEAN]
CutRows == [tag : Tags, continuedFrom : {Absent} \cup Tags, unread : BOOLEAN]

ArchiveTypeOK ==
  /\ launches \in 0..MaxLaunches
  /\ process = Idle \/ process \in Processes
  /\ process # Idle => launches \in Tags
  /\ run \in {Absent, Torn} \cup Tags
  /\ copies \in [Tags -> {Absent, "kept", "torn"}]
  /\ cuts \in Seq(CutRows)

\* The manifest a launch finds is copied before run.json is written again.
CopiedFirst ==
  /\ Phase = "preserving" => process.previous = PreviousRun
  /\ Phase \in Preserved /\ run \in Tags => copies[run] # Absent

\* run.json is the last cut's, unless it is torn.
RunIsTheLastCut ==
  \/ run = Torn
  \/ cuts = <<>> /\ run = Absent
  \/ cuts # <<>> /\ run = cuts[Len(cuts)].tag

\* A launch knows which cut it goes on from, or that it could not be read.
KnowsTheLastCut ==
  Phase \in AtWork => process.unread \/ cuts = <<>> \/ process.previous = cuts[Len(cuts)].tag

CutsInv == ArchiveTypeOK /\ CopiedFirst /\ RunIsTheLastCut /\ KnowsTheLastCut /\ CutsAreKept

LEMMA NoTagIsAbsent == /\ Absent \notin Tags /\ Torn \notin Tags /\ Absent # Torn
                       /\ "kept" # Absent /\ "torn" # Absent
BY FilesAreTold DEF Tags

LEMMA CopiedTypes ==
  ASSUME ArchiveTypeOK, NEW tag \in {Absent} \cup Tags, NEW as \in {"kept", "torn"}, Copied(tag, as)
  PROVE  /\ copies' \in [Tags -> {Absent, "kept", "torn"}]
         /\ tag \in Tags => copies'[tag] # Absent
         /\ \A t \in Tags : copies[t] # Absent => copies'[t] # Absent
BY NoTagIsAbsent DEF ArchiveTypeOK, Copied

\* A step that writes no manifest: the launch is over, or goes on knowing what it knew.
MovesOn ==
  /\ UNCHANGED <<launches, run, cuts>>
  /\ copies' \in [Tags -> {Absent, "kept", "torn"}]
  /\ \A t \in Tags : copies[t] # Absent => copies'[t] # Absent
  /\ \/ process' = Idle
     \/ /\ process' \in Processes /\ Phase \in AtWork /\ Phase' \in Preserved
        /\ process'.previous = process.previous /\ process'.unread = process.unread
        /\ Phase = "preserving" /\ process.previous \in Tags => copies'[process.previous] # Absent

LEMMA CutTags ==
  ASSUME ArchiveTypeOK, NEW i \in DOMAIN cuts
  PROVE  cuts[i].tag \in Tags
<1>1. cuts \in Seq(CutRows)
  BY DEF ArchiveTypeOK
<1>2. cuts[i] \in CutRows
  BY <1>1
<1> QED BY <1>2 DEF CutRows

LEMMA MovesOnKeepsCuts ==
  ASSUME CutsInv, MovesOn
  PROVE  RunIsTheLastCut' /\ CutsAreKept'
<1>1. RunIsTheLastCut' /\ LineageSkipsNoCut'
  BY DEF CutsInv, MovesOn, RunIsTheLastCut, CutsAreKept, LineageSkipsNoCut
<1>2. CutsStayReadable'
  BY CutTags DEF CutsInv, MovesOn, CutsAreKept, CutsStayReadable
<1> QED BY <1>1, <1>2 DEF CutsAreKept

LEMMA MovesOnKeeps ==
  ASSUME CutsInv, MovesOn
  PROVE  CutsInv'
<1>1. ArchiveTypeOK'
  BY DEF CutsInv, ArchiveTypeOK, MovesOn, Idle, Phase, AtWork
<1>2. CASE process' = Idle
  <2>1. ~(Phase' \in AtWork)
    BY <1>2 DEF Idle, Phase, AtWork
  <2>2. CopiedFirst' /\ KnowsTheLastCut'
    BY <2>1 DEF CopiedFirst, KnowsTheLastCut, Preserved, AtWork
  <2>3. RunIsTheLastCut' /\ CutsAreKept'
    BY MovesOnKeepsCuts
  <2> QED BY <1>1, <2>2, <2>3 DEF CutsInv
<1>3. CASE process' # Idle
  <2>1. /\ Phase \in AtWork /\ Phase' \in Preserved
        /\ process'.previous = process.previous /\ process'.unread = process.unread
        /\ Phase = "preserving" /\ process.previous \in Tags => copies'[process.previous] # Absent
    BY <1>3 DEF MovesOn
  <2>2. CopiedFirst'
    <3>1. Phase' # "preserving"
      BY <2>1 DEF Preserved
    <3>2. ASSUME run \in Tags PROVE copies'[run] # Absent
      <4>1. CASE Phase = "preserving"
        <5>1. process.previous = run
          BY <3>2, <4>1, NoTagIsAbsent DEF CutsInv, CopiedFirst, PreviousRun
        <5> QED BY <2>1, <3>2, <4>1, <5>1
      <4>2. CASE Phase # "preserving"
        BY <2>1, <3>2, <4>2 DEF CutsInv, CopiedFirst, Preserved, MovesOn
      <4> QED BY <4>1, <4>2
    <3> QED BY <3>1, <3>2 DEF CopiedFirst, MovesOn
  <2>3. KnowsTheLastCut'
    BY <2>1 DEF CutsInv, KnowsTheLastCut, MovesOn
  <2>4. RunIsTheLastCut' /\ CutsAreKept'
    BY MovesOnKeepsCuts
  <2> QED BY <1>1, <2>2, <2>3, <2>4 DEF CutsInv
<1> QED BY <1>2, <1>3

LEMMA LaunchKeeps ==
  ASSUME CutsInv, Launch
  PROVE  CutsInv'
<1>1. PICK roster \in (SUBSET Crew) \ {{}}, fresh \in BOOLEAN :
        process' = [phase |-> "preserving", roster |-> roster, fresh |-> fresh, reused |-> FALSE,
                    previous |-> PreviousRun, unread |-> run = Torn, started |-> FALSE]
  BY DEF Launch
<1>2. PreviousRun \in {Absent} \cup Tags
  BY DEF PreviousRun, CutsInv, ArchiveTypeOK
<1>3. UNCHANGED <<run, copies, cuts>> /\ launches' = launches + 1 /\ launches < MaxLaunches
  BY DEF Launch, diskVars
<1>4. launches' \in Tags
  BY <1>3, FilesAreTold DEF CutsInv, ArchiveTypeOK, Tags
<1>5. process' \in Processes
  BY <1>1, <1>2 DEF Processes, AtWork
<1>6. ArchiveTypeOK'
  BY <1>3, <1>4, <1>5, FilesAreTold DEF CutsInv, ArchiveTypeOK, Tags
<1>7. CopiedFirst'
  BY <1>1, <1>3 DEF CopiedFirst, Phase, Preserved, PreviousRun
<1>8. RunIsTheLastCut' /\ CutsAreKept'
  BY <1>3 DEF CutsInv, RunIsTheLastCut, CutsAreKept, CutsStayReadable, LineageSkipsNoCut
<1>9. KnowsTheLastCut'
  BY <1>1, <1>3 DEF CutsInv, KnowsTheLastCut, RunIsTheLastCut, PreviousRun
<1> QED BY <1>6, <1>7, <1>8, <1>9 DEF CutsInv

\* Whatever run.json held is copied by now, and the new cut names the one before it.
LEMMA WriteKeeps ==
  ASSUME CutsInv, WriteManifest
  PROVE  CutsInv'
<1> DEFINE cut == [tag |-> launches, continuedFrom |-> process.previous, unread |-> process.unread]
<1>1. Phase = "writing" /\ process # Idle /\ process \in Processes /\ launches \in Tags
  BY DEF WriteManifest, Phase, Idle, CutsInv, ArchiveTypeOK
<1>2. cut \in CutRows
  BY <1>1 DEF CutRows, Processes
<1>3. process' = [process EXCEPT !.phase = "copying"] /\ run' = launches
      /\ cuts' = Append(cuts, cut) /\ UNCHANGED <<launches, copies>>
  BY DEF WriteManifest, Goes, Continued
<1> HIDE DEF cut
<1>4. /\ cuts \in Seq(CutRows) /\ Len(cuts) \in Nat /\ cuts' \in Seq(CutRows) /\ Len(cuts') = Len(cuts) + 1
      /\ cuts'[Len(cuts) + 1] = cut /\ \A i \in 1..Len(cuts) : cuts'[i] = cuts[i]
  BY <1>2, <1>3, AppendProperties, LenProperties DEF CutsInv, ArchiveTypeOK
<1>5. process' \in Processes /\ Phase' = "copying"
  BY <1>1, <1>3 DEF Processes, Phase
<1>6. ArchiveTypeOK'
  BY <1>1, <1>3, <1>4, <1>5 DEF CutsInv, ArchiveTypeOK
<1>7. CopiedFirst' /\ KnowsTheLastCut'
  BY <1>5 DEF CopiedFirst, KnowsTheLastCut, Preserved, AtWork
<1>8. RunIsTheLastCut'
  <2>1. cuts' # <<>>
    BY <1>4
  <2> QED BY <1>3, <1>4, <2>1 DEF RunIsTheLastCut, cut
<1>9. CutsStayReadable'
  <2> SUFFICES ASSUME NEW i \in DOMAIN cuts'
               PROVE  run' = cuts'[i].tag \/ copies'[cuts'[i].tag] # Absent
    BY DEF CutsStayReadable
  <2>1. i \in 1..Len(cuts) \/ i = Len(cuts) + 1
    BY <1>4
  <2>2. CASE i = Len(cuts) + 1
    BY <1>3, <1>4, <2>2 DEF cut
  <2>3. CASE i \in 1..Len(cuts)
    <3>1. i \in DOMAIN cuts /\ cuts'[i] = cuts[i] /\ cuts[i] \in CutRows
      BY <1>4, <2>3
    <3>2. run = cuts[i].tag \/ copies[cuts[i].tag] # Absent
      BY <3>1 DEF CutsInv, CutsAreKept, CutsStayReadable
    <3>3. cuts[i].tag \in Tags
      BY <3>1 DEF CutRows
    <3>4. run \in Tags => copies[run] # Absent
      BY <1>1 DEF CutsInv, CopiedFirst, Preserved, AtWork
    <3> QED BY <1>3, <3>1, <3>2, <3>3, <3>4
  <2> QED BY <2>1, <2>2, <2>3
<1>10. LineageSkipsNoCut'
  <2> SUFFICES ASSUME NEW i \in 2..Len(cuts')
               PROVE  cuts'[i].continuedFrom = cuts'[i - 1].tag \/ cuts'[i].unread
    BY DEF LineageSkipsNoCut
  <2>1. CASE i \in 2..Len(cuts)
    <3>1. i \in 1..Len(cuts) /\ i - 1 \in 1..Len(cuts)
      BY <1>4, <2>1
    <3> QED BY <1>4, <2>1, <3>1 DEF CutsInv, CutsAreKept, LineageSkipsNoCut
  <2>2. CASE i = Len(cuts) + 1
    <3>1. i - 1 = Len(cuts) /\ Len(cuts) \in 1..Len(cuts) /\ cuts # <<>>
      BY <1>4, <2>2
    <3>2. process.unread \/ process.previous = cuts[Len(cuts)].tag
      BY <1>1, <3>1 DEF CutsInv, KnowsTheLastCut, AtWork
    <3> QED BY <1>4, <2>2, <3>1, <3>2 DEF cut
  <2> QED BY <1>4, <2>1, <2>2
<1> QED BY <1>6, <1>7, <1>8, <1>9, <1>10 DEF CutsInv, CutsAreKept

LEMMA DiesKeeps ==
  ASSUME CutsInv, Dies
  PROVE  CutsInv'
<1>1. process' = Idle /\ UNCHANGED <<launches, cuts>> /\ process \in Processes /\ launches \in Tags
  BY DEF Dies, Phase, Idle, CutsInv, ArchiveTypeOK
<1>2. CASE UNCHANGED run
  <2>1. \/ UNCHANGED copies
        \/ Copied(process.previous, "torn")
        \/ Copied(launches, "torn")
    BY <1>2, NoTagIsAbsent DEF Dies, CutsInv
  <2>2. /\ copies' \in [Tags -> {Absent, "kept", "torn"}]
        /\ \A t \in Tags : copies[t] # Absent => copies'[t] # Absent
    BY <1>1, <2>1, CopiedTypes DEF CutsInv, ArchiveTypeOK, Processes
  <2>3. MovesOn
    BY <1>1, <1>2, <2>2 DEF MovesOn
  <2> QED BY <2>3, MovesOnKeeps
<1>3. CASE Phase = "writing" /\ run' = Torn /\ UNCHANGED copies
  <2>1. ~(Phase' \in AtWork)
    BY <1>1 DEF Idle, Phase, AtWork
  <2>2. ArchiveTypeOK'
    BY <1>1, <1>3 DEF CutsInv, ArchiveTypeOK
  <2>3. CopiedFirst' /\ KnowsTheLastCut' /\ RunIsTheLastCut'
    BY <1>3, <2>1 DEF CopiedFirst, KnowsTheLastCut, RunIsTheLastCut, Preserved, AtWork
  <2>4. CutsStayReadable'
    <3> SUFFICES ASSUME NEW i \in DOMAIN cuts PROVE copies[cuts[i].tag] # Absent
      BY <1>1, <1>3 DEF CutsStayReadable
    <3>1. cuts[i].tag \in Tags
      BY CutTags DEF CutsInv
    <3>2. run \in Tags => copies[run] # Absent
      BY <1>3 DEF CutsInv, CopiedFirst, Preserved, AtWork
    <3> QED BY <3>1, <3>2 DEF CutsInv, CutsAreKept, CutsStayReadable
  <2>5. LineageSkipsNoCut'
    BY <1>1 DEF CutsInv, CutsAreKept, LineageSkipsNoCut
  <2> QED BY <2>2, <2>3, <2>4, <2>5 DEF CutsInv, CutsAreKept
<1> QED BY <1>2, <1>3 DEF Dies

LEMMA ArchiveKeepsTheCuts ==
  ASSUME CutsInv, ArchiveActs
  PROVE  CutsInv'
<1>0. \A t \in Tags : copies[t] # Absent => copies[t] # Absent
  OBVIOUS
<1>1. CASE Launch
  BY <1>1, LaunchKeeps
<1>2. CASE Preserve
  <2>1. process \in Processes /\ process' = [process EXCEPT !.phase = "identity"] /\ Phase = "preserving"
    BY <1>2 DEF Preserve, Goes, Phase, Idle, CutsInv, ArchiveTypeOK
  <2>2. /\ copies' \in [Tags -> {Absent, "kept", "torn"}]
        /\ process.previous \in Tags => copies'[process.previous] # Absent
        /\ \A t \in Tags : copies[t] # Absent => copies'[t] # Absent
    BY <1>2, <2>1, CopiedTypes DEF Preserve, Preserves, CutsInv, Processes
  <2>3. MovesOn
    BY <1>2, <2>1, <2>2 DEF MovesOn, Preserve, Processes, Phase, AtWork, Preserved
  <2> QED BY <2>3, MovesOnKeeps
<1>3. CASE Mint \/ Reuse \/ MintAuthority \/ WriteRoll \/ Boot \/ Starts
            \/ (Finishes /\ UNCHANGED diskVars) \/ \E m \in Crew : KeyFor(m)
  <2>1. UNCHANGED <<launches, diskVars>> /\ Phase \in {"identity", "minting", "keys", "booting", "running"}
    BY <1>3 DEF Mint, Reuse, MintAuthority, WriteRoll, Boot, Starts, Finishes, KeyFor
  <2>2. process \in Processes
    BY <2>1 DEF Phase, Idle, CutsInv, ArchiveTypeOK
  <2>3. \/ process' = Idle
        \/ process' = process
        \/ \E phase \in Preserved : process' = [process EXCEPT !.phase = phase]
        \/ \E phase \in Preserved : process' = [process EXCEPT !.phase = phase, !.reused = TRUE]
        \/ process' = [process EXCEPT !.started = TRUE]
    BY <1>3 DEF Mint, Reuse, MintAuthority, WriteRoll, Boot, Starts, Finishes, KeyFor, Goes, Preserved, AtWork
  <2>4. \/ process' = Idle
        \/ /\ process' \in Processes /\ Phase' \in Preserved
           /\ process'.previous = process.previous /\ process'.unread = process.unread
    <3> USE DEF Preserved, AtWork
    <3>1. \A phase \in Preserved :
            LET p == [process EXCEPT !.phase = phase]
                q == [process EXCEPT !.phase = phase, !.reused = TRUE]
            IN  /\ p \in Processes /\ p.phase \in Preserved /\ p.previous = process.previous /\ p.unread = process.unread
                /\ q \in Processes /\ q.phase \in Preserved /\ q.previous = process.previous /\ q.unread = process.unread
      BY <2>2 DEF Processes
    <3>2. LET p == [process EXCEPT !.started = TRUE]
          IN  /\ p \in Processes /\ p.phase = process.phase
              /\ p.previous = process.previous /\ p.unread = process.unread
      BY <2>2 DEF Processes
    <3> QED BY <2>1, <2>2, <2>3, <3>1, <3>2 DEF Phase
  <2>5. MovesOn
    BY <2>1, <2>4 DEF MovesOn, diskVars, CutsInv, ArchiveTypeOK, AtWork
  <2> QED BY <2>5, MovesOnKeeps
<1>4. CASE WriteManifest
  BY <1>4, WriteKeeps
<1>5. CASE CopyManifest
  <2>1. process \in Processes /\ launches \in Tags
    BY <1>5 DEF CopyManifest, Phase, Idle, CutsInv, ArchiveTypeOK
  <2>2. /\ copies' \in [Tags -> {Absent, "kept", "torn"}]
        /\ \A t \in Tags : copies[t] # Absent => copies'[t] # Absent
    BY <1>5, <2>1, CopiedTypes DEF CopyManifest, CutsInv
  <2>3. MovesOn
    BY <1>5, <2>2 DEF MovesOn, CopyManifest
  <2> QED BY <2>3, MovesOnKeeps
<1>6. CASE Dies
  BY <1>6, DiesKeeps
<1> QED BY <1>1, <1>2, <1>3, <1>4, <1>5, <1>6 DEF ArchiveActs, Finishes

-----------------------------------------------------------------------------
(* The identity set *)

Early == {"preserving", "identity", "minting"}
Minting == Early \cup {"keys"}

KeysTypeOK ==
  /\ keyring \in Nat
  /\ authority \in [1..3 -> 0..launches]
  /\ pems \in [Crew -> Nat]
  /\ process # Idle => process.roster # {}

\* A roll is signed, and by the keys of a launch there was; before a launch writes its
\* own rows, by those of the launches before it.
RollIsSigned ==
  Parses(roll) => /\ roll.signed # {}
                  /\ \A s \in roll.signed : s[1] \in 0..launches
                  /\ Phase \in Minting => \A s \in roll.signed : s[1] # launches

\* A set in use has a roll that verifies; a new one is the launch's own, and, unless it
\* was asked for, the first there is.
SetInUse ==
  /\ keyring = 0 => ~Parses(roll)
  /\ Phase \in Early => ~process.reused
  /\ Phase = "keys" /\ process.reused => RollVerifies(roll)
  /\ Phase = "keys" /\ ~process.reused => keyring = launches
  /\ Phase = "minting" \/ (Phase = "keys" /\ ~process.reused) => process.fresh \/ ~Parses(roll)

\* The keys on disk are those a roll that verifies admits.
PemsAreTheRolls ==
  RollVerifies(roll) => \A m \in DOMAIN roll.admits : pems[m] = roll.admits[m]

RosterIsAdmitted ==
  /\ Phase \in {"booting", "running"} => process.roster \subseteq DOMAIN roll.admits
  /\ Phase = "running" => RollVerifies(roll)

KeysInv == KeysTypeOK /\ RollIsSigned /\ SetInUse /\ PemsAreTheRolls /\ RosterIsAdmitted

\* What a step may not do to the keys of a running community's members.
KeysAct ==
  /\ (Phase # "idle" /\ ~process.fresh /\ Parses(roll) /\ Parses(roll')) =>
       \A m \in DOMAIN roll.admits : m \in DOMAIN roll'.admits /\ roll'.admits[m] = roll.admits[m]
  /\ Phase' = "running" => \A m \in process.roster : pems[m] = roll.admits[m]

\* A launch that minted its own set finds no roll it can verify.
LEMMA MintedVerifiesNothing ==
  ASSUME KeysInv, Phase \in Minting, keyring = launches
  PROVE  ~RollVerifies(roll)
<1> SUFFICES ASSUME RollVerifies(roll) PROVE FALSE
  OBVIOUS
<1>1. PICK s \in roll.signed : TRUE
  BY DEF RollVerifies, KeysInv, RollIsSigned
<1>2. s = <<keyring, keyring>> /\ s[1] # launches
  BY DEF RollVerifies, KeysInv, RollIsSigned
<1>3. s[1] = launches
  BY <1>2
<1> QED BY <1>2, <1>3

\* Steps that leave the set as it is and take the launch from one phase to another.
PhaseMoves ==
  /\ UNCHANGED <<launches, setVars>>
  /\ \/ process' = Idle
     \/ /\ process \in Processes
        /\ process'.roster = process.roster /\ process'.fresh = process.fresh
        /\ Phase' \in Minting => Phase \in Minting
        /\ Phase' \in Early => Phase \in Early /\ process'.reused = process.reused
        /\ Phase' = "minting" => Phase = "minting" \/ keyring = 0 \/ process.fresh
        /\ Phase' = "keys" => process'.reused /\ RollVerifies(roll)
        /\ Phase' = "booting" => Phase = "booting"
        /\ Phase' = "running" => Phase \in {"booting", "running"} /\ RollVerifies(roll)

LEMMA PhaseMovesKeep ==
  ASSUME ArchiveTypeOK, KeysInv, PhaseMoves
  PROVE  KeysInv' /\ KeysAct
<1>1. KeysTypeOK'
  BY DEF KeysInv, KeysTypeOK, PhaseMoves, setVars, Processes, Idle
<1>2. CASE process' = Idle
  <2>1. Phase' = "idle"
    BY <1>2 DEF Idle, Phase
  <2>2. RollIsSigned' /\ SetInUse' /\ PemsAreTheRolls' /\ RosterIsAdmitted'
    BY <2>1 DEF KeysInv, PhaseMoves, setVars, RollIsSigned, SetInUse, PemsAreTheRolls, RosterIsAdmitted,
                Parses, RollVerifies, Minting, Early
  <2> QED BY <1>1, <2>1, <2>2 DEF KeysInv, KeysAct, PhaseMoves, setVars
<1>3. CASE process' # Idle
  <2>1. UNCHANGED <<launches, keyring, authority, pems, roll>>
    BY DEF PhaseMoves, setVars
  <2>2. /\ process'.roster = process.roster /\ process'.fresh = process.fresh
        /\ Phase' \in Minting => Phase \in Minting
        /\ Phase' \in Early => Phase \in Early /\ process'.reused = process.reused
        /\ Phase' = "minting" => Phase = "minting" \/ keyring = 0 \/ process.fresh
        /\ Phase' = "keys" => process'.reused /\ RollVerifies(roll)
        /\ Phase' = "booting" => Phase = "booting"
        /\ Phase' = "running" => Phase \in {"booting", "running"} /\ RollVerifies(roll)
    BY <1>3 DEF PhaseMoves
  <2>3. RollIsSigned'
    BY <2>1, <2>2 DEF KeysInv, RollIsSigned, Parses
  <2>4. SetInUse'
    BY <2>1, <2>2 DEF KeysInv, SetInUse, Parses, RollVerifies
  <2>5. PemsAreTheRolls'
    BY <2>1 DEF KeysInv, PemsAreTheRolls, Parses, RollVerifies
  <2>6. RosterIsAdmitted'
    BY <2>1, <2>2 DEF KeysInv, RosterIsAdmitted, Parses, RollVerifies
  <2>7. KeysAct
    BY <2>1, <2>2 DEF KeysInv, KeysAct, RosterIsAdmitted, PemsAreTheRolls
  <2> QED BY <1>1, <2>3, <2>4, <2>5, <2>6, <2>7 DEF KeysInv
<1> QED BY <1>2, <1>3

LEMMA LaunchKeepsKeys ==
  ASSUME ArchiveTypeOK, KeysInv, Launch
  PROVE  KeysInv' /\ KeysAct
<1>1. PICK roster \in (SUBSET Crew) \ {{}}, fresh \in BOOLEAN :
        process' = [phase |-> "preserving", roster |-> roster, fresh |-> fresh, reused |-> FALSE,
                    previous |-> PreviousRun, unread |-> run = Torn, started |-> FALSE]
  BY DEF Launch
<1>2. UNCHANGED <<keyring, authority, pems, roll>> /\ launches' = launches + 1 /\ Phase = "idle"
  BY DEF Launch, setVars
<1>3. Phase' = "preserving" /\ process'.roster # {}
  BY <1>1 DEF Phase
<1>4. launches \in Nat
  BY FilesAreTold DEF ArchiveTypeOK
<1>5. KeysTypeOK'
  <2>1. authority \in [1..3 -> 0..launches']
    BY <1>2, <1>4 DEF KeysInv, KeysTypeOK
  <2> QED BY <1>2, <1>3, <2>1 DEF KeysInv, KeysTypeOK
<1>6. RollIsSigned'
  BY <1>2, <1>4 DEF KeysInv, RollIsSigned, Parses
<1>7. SetInUse' /\ PemsAreTheRolls' /\ RosterIsAdmitted'
  BY <1>1, <1>2, <1>3 DEF KeysInv, SetInUse, PemsAreTheRolls, RosterIsAdmitted, Parses, RollVerifies
<1> QED BY <1>2, <1>3, <1>5, <1>6, <1>7 DEF KeysInv, KeysAct

LEMMA MintAuthorityKeeps ==
  ASSUME ArchiveTypeOK, KeysInv, MintAuthority
  PROVE  KeysInv' /\ KeysAct
<1>1. Phase = "minting" /\ UNCHANGED <<launches, pems, roll>> /\ process \in Processes /\ launches \in Tags
  BY DEF MintAuthority, ArchiveTypeOK, Phase, Idle
<1>2. launches \in Nat /\ launches # 0
  BY <1>1, FilesAreTold DEF Tags
<1>3. CASE \E i : authority' = [authority EXCEPT ![i] = launches] /\ UNCHANGED <<keyring, process>>
  <2>1. authority' \in [1..3 -> 0..launches]
    <3>1. launches \in 0..launches /\ authority \in [1..3 -> 0..launches]
      BY <1>2 DEF KeysInv, KeysTypeOK
    <3> QED BY ONLY <1>3, <3>1
  <2>2. KeysTypeOK'
    BY <1>1, <1>3, <2>1 DEF KeysInv, KeysTypeOK
  <2>3. RollIsSigned' /\ SetInUse' /\ PemsAreTheRolls' /\ RosterIsAdmitted'
    BY <1>1, <1>3 DEF KeysInv, RollIsSigned, SetInUse, PemsAreTheRolls, RosterIsAdmitted, Parses, RollVerifies, Phase
  <2> QED BY <1>1, <1>3, <2>2, <2>3 DEF KeysInv, KeysAct, Phase
<1>4. CASE keyring' = launches /\ process' = [process EXCEPT !.phase = "keys"] /\ UNCHANGED authority
  <2>1. /\ Phase' = "keys" /\ process'.roster = process.roster /\ process'.fresh = process.fresh
        /\ process'.reused = process.reused
    BY <1>1, <1>4 DEF Phase, Processes
  <2>2. ~process.reused
    BY <1>1 DEF KeysInv, SetInUse, Early
  <2>3. KeysTypeOK'
    BY <1>1, <1>2, <1>4, <2>1 DEF KeysInv, KeysTypeOK, Phase, Idle
  <2>4. RollIsSigned'
    BY <1>1, <1>4 DEF KeysInv, RollIsSigned, Parses, Minting, Early
  <2>5. SetInUse'
    BY <1>1, <1>2, <1>4, <2>1, <2>2 DEF KeysInv, SetInUse, Parses, Early
  <2>6. ~RollVerifies(roll)'
    <3>1. ASSUME Parses(roll), \A s \in roll.signed : s = <<launches, launches>> PROVE FALSE
      <4>1. PICK s \in roll.signed : s[1] # launches
        BY <1>1, <3>1 DEF KeysInv, RollIsSigned, Minting, Early
      <4> QED BY <3>1, <4>1
    <3> QED BY <1>1, <1>4, <3>1 DEF RollVerifies, Parses
  <2>7. PemsAreTheRolls' /\ RosterIsAdmitted'
    BY <2>1, <2>6 DEF PemsAreTheRolls, RosterIsAdmitted
  <2> QED BY <1>1, <2>1, <2>3, <2>4, <2>5, <2>7 DEF KeysInv, KeysAct
<1> QED BY <1>3, <1>4 DEF MintAuthority, Goes

\* A new key is made of a member the roll does not admit, or under a keyring no roll has.
LEMMA KeyForKeeps ==
  ASSUME ArchiveTypeOK, KeysInv, NEW m \in Crew, KeyFor(m)
  PROVE  KeysInv' /\ KeysAct
<1>1. /\ Phase = "keys" /\ m \in Missing /\ pems' = [pems EXCEPT ![m] = launches]
      /\ UNCHANGED <<launches, process, keyring, authority, roll>>
  BY DEF KeyFor
<1>2. launches \in Nat
  BY FilesAreTold DEF ArchiveTypeOK
<1>3. KeysTypeOK'
  BY <1>1, <1>2 DEF KeysInv, KeysTypeOK
<1>4. RollIsSigned' /\ SetInUse' /\ RosterIsAdmitted'
  BY <1>1 DEF KeysInv, RollIsSigned, SetInUse, RosterIsAdmitted, Parses, RollVerifies, Phase
<1>5. PemsAreTheRolls'
  <2> SUFFICES ASSUME RollVerifies(roll), NEW n \in DOMAIN roll.admits
               PROVE  pems'[n] = roll.admits[n]
    BY <1>1 DEF PemsAreTheRolls, RollVerifies, Parses
  <2>1. process.reused
    BY <1>1, MintedVerifiesNothing DEF KeysInv, SetInUse, Minting, Early
  <2>2. n # m
    BY <1>1, <2>1 DEF Missing
  <2> QED BY <1>1, <2>2 DEF KeysInv, KeysTypeOK, PemsAreTheRolls
<1> QED BY <1>1, <1>3, <1>4, <1>5 DEF KeysInv, KeysAct, Phase

LEMMA WriteRollKeeps ==
  ASSUME ArchiveTypeOK, KeysInv, WriteRoll
  PROVE  KeysInv' /\ KeysAct
<1> DEFINE before == IF process.reused THEN roll ELSE [admits |-> [m \in {} |-> 0], signed |-> {}]
           all == DOMAIN before.admits \cup Missing
           signer == <<authority[1], authority[2]>>
           new == [admits |-> [m \in all |-> IF m \in Missing THEN pems[m] ELSE before.admits[m]],
                   signed |-> before.signed \cup {signer}]
<1>1. /\ Phase = "keys" /\ process \in Processes /\ process' = [process EXCEPT !.phase = "booting"]
      /\ UNCHANGED <<launches, keyring, authority, pems>>
      /\ roll' = IF Missing = {} THEN roll ELSE new
  BY DEF WriteRoll, Goes, ArchiveTypeOK, Phase, Idle
<1>2. Phase' = "booting" /\ process'.roster = process.roster
  BY <1>1 DEF Processes, Phase
<1>3. process.roster # {} /\ (Missing = {} => process.reused)
  BY <1>1 DEF KeysInv, KeysTypeOK, Missing, Phase, Idle
<1>4. signer[1] \in 0..launches
  BY DEF KeysInv, KeysTypeOK
<1>5. new.signed # {} /\ signer \in new.signed /\ before.signed \subseteq new.signed
  OBVIOUS
<1>6. process.reused => RollVerifies(roll) /\ Parses(roll)
  BY <1>1 DEF KeysInv, SetInUse, RollVerifies
<1>7. \A s \in new.signed : s[1] \in 0..launches
  <2>1. \A s \in before.signed : s[1] \in 0..launches
    BY <1>6 DEF KeysInv, RollIsSigned
  <2> HIDE DEF before, signer
  <2> QED BY <1>4, <2>1
<1>8. KeysTypeOK'
  BY <1>1, <1>2, <1>3 DEF KeysInv, KeysTypeOK
<1>9. RollIsSigned'
  <2> HIDE DEF new
  <2>1. CASE Missing = {}
    BY <1>1, <1>2, <2>1 DEF KeysInv, RollIsSigned, Parses, Minting, Early
  <2>2. CASE Missing # {}
    BY <1>1, <1>2, <1>5, <1>7, <2>2 DEF RollIsSigned, Minting, Early
  <2> QED BY <2>1, <2>2
<1>10. SetInUse'
  <2>1. keyring # 0
    <3>1. CASE process.reused
      BY <1>6, <3>1 DEF KeysInv, SetInUse
    <3>2. CASE ~process.reused
      BY <1>1, <3>2, FilesAreTold DEF KeysInv, SetInUse, ArchiveTypeOK, Tags, Phase, Idle
    <3> QED BY <3>1, <3>2
  <2> QED BY <1>1, <1>2, <2>1 DEF SetInUse, Early
<1>11. process.roster \subseteq DOMAIN roll'.admits
  <2>1. CASE Missing = {}
    BY <1>1, <1>3, <2>1 DEF Missing
  <2>2. CASE Missing # {}
    <3>1. DOMAIN roll'.admits = all
      BY <1>1, <2>2
    <3>2. process.roster \subseteq DOMAIN before.admits \cup Missing
      BY DEF Missing
    <3> QED BY <3>1, <3>2
  <2> QED BY <2>1, <2>2
<1>12. RosterIsAdmitted'
  BY <1>2, <1>11 DEF RosterIsAdmitted
<1>13. PemsAreTheRolls'
  <2> SUFFICES ASSUME NEW n \in DOMAIN roll'.admits
               PROVE  pems[n] = roll'.admits[n]
    BY <1>1 DEF PemsAreTheRolls
  <2>1. \A m \in DOMAIN before.admits : pems[m] = before.admits[m]
    <3>1. CASE process.reused
      BY <1>6, <3>1 DEF KeysInv, PemsAreTheRolls
    <3>2. CASE ~process.reused
      BY <3>2
    <3> QED BY <3>1, <3>2
  <2>2. CASE Missing = {}
    BY <1>1, <1>3, <2>1, <2>2
  <2>3. CASE Missing # {}
    BY <1>1, <2>1, <2>3
  <2> QED BY <2>2, <2>3
<1>14. KeysAct
  <2>1. ASSUME ~process.fresh, Parses(roll), NEW m \in DOMAIN roll.admits
        PROVE  m \in DOMAIN roll'.admits /\ roll'.admits[m] = roll.admits[m]
    <3>1. process.reused
      BY <1>1, <2>1 DEF KeysInv, SetInUse
    <3>2. m \notin Missing
      BY <2>1, <3>1 DEF Missing
    <3> QED BY <1>1, <2>1, <3>1, <3>2
  <2> QED BY <1>2, <2>1 DEF KeysAct
<1> QED BY <1>8, <1>9, <1>10, <1>12, <1>13, <1>14 DEF KeysInv

\* A roll cut short is no roll.
LEMMA TornKeeps ==
  ASSUME ArchiveTypeOK, KeysInv, roll' = Torn, process' = Idle,
         UNCHANGED <<launches, keyring, authority, pems>>
  PROVE  KeysInv' /\ KeysAct
<1>1. ~Parses(roll)' /\ ~RollVerifies(roll)' /\ Phase' = "idle"
  BY DEF Parses, RollVerifies, Phase, Idle
<1>2. KeysTypeOK'
  BY DEF KeysInv, KeysTypeOK, Idle
<1> QED BY <1>1, <1>2 DEF KeysInv, RollIsSigned, SetInUse, PemsAreTheRolls, RosterIsAdmitted, KeysAct, Early

LEMMA ArchiveKeepsTheKeys ==
  ASSUME ArchiveTypeOK, KeysInv, ArchiveActs
  PROVE  KeysInv' /\ KeysAct
<1>1. CASE Launch
  BY <1>1, LaunchKeepsKeys
<1>2. CASE MintAuthority
  BY <1>2, MintAuthorityKeeps
<1>3. CASE WriteRoll
  BY <1>3, WriteRollKeeps
<1>4. CASE \E m \in Crew : KeyFor(m)
  BY <1>4, KeyForKeeps
<1>5. CASE Dies /\ roll' = Torn
  BY <1>5, TornKeeps DEF Dies
<1>6. CASE \/ Preserve \/ Mint \/ Reuse \/ Boot \/ Starts \/ Finishes \/ WriteManifest \/ CopyManifest
           \/ (Dies /\ UNCHANGED roll)
  <2>1. UNCHANGED <<launches, setVars>> /\ process \in Processes
    BY <1>6 DEF Preserve, Mint, Reuse, Boot, Starts, Finishes, WriteManifest, CopyManifest, Dies, setVars,
                ArchiveTypeOK, Phase, Idle
  <2>2. \/ process' = Idle
        \/ Phase = "preserving" /\ process' = [process EXCEPT !.phase = "identity"]
        \/ /\ Phase = "identity" /\ process' = [process EXCEPT !.phase = "minting"]
           /\ keyring = 0 \/ process.fresh
        \/ /\ Phase = "identity" /\ process' = [process EXCEPT !.phase = "keys", !.reused = TRUE]
           /\ RollVerifies(roll)
        \/ Phase = "booting" /\ process' = [process EXCEPT !.phase = "running"] /\ RollVerifies(roll)
        \/ Phase = "running" /\ process' = [process EXCEPT !.started = TRUE]
        \/ Phase = "running" /\ process' = [process EXCEPT !.phase = "writing"]
        \/ Phase = "writing" /\ process' = [process EXCEPT !.phase = "copying"]
    BY <1>6 DEF Preserve, Mint, Reuse, Boot, Starts, Finishes, WriteManifest, CopyManifest, Dies, Goes
  <2>3. PhaseMoves
    <3>1. Phase = "running" => RollVerifies(roll)
      BY DEF KeysInv, RosterIsAdmitted
    <3> QED BY <2>1, <2>2, <3>1 DEF PhaseMoves, Processes, Phase, Minting, Early
  <2> QED BY <2>3, PhaseMovesKeep
<1> QED BY <1>1, <1>2, <1>3, <1>4, <1>5, <1>6 DEF ArchiveActs, Dies

LEMMA ArchiveStarts ==
  ASSUME ArchiveInit
  PROVE  CutsInv /\ KeysInv
<1> USE DEF ArchiveInit
<1>1. /\ launches = 0 /\ 0 \in 0..MaxLaunches /\ process = Idle /\ Phase = "idle" /\ cuts = <<>>
      /\ copies \in [Tags -> {Absent, "kept", "torn"}]
  BY FilesAreTold DEF Idle, Phase, Tags
<1>2. ArchiveTypeOK
  BY <1>1 DEF ArchiveTypeOK
<1>3. CopiedFirst /\ RunIsTheLastCut /\ KnowsTheLastCut
  BY <1>1 DEF CopiedFirst, RunIsTheLastCut, KnowsTheLastCut, Preserved, AtWork
<1>4. CutsAreKept
  BY <1>1 DEF CutsAreKept, CutsStayReadable, LineageSkipsNoCut
<1>5. KeysTypeOK
  BY <1>1 DEF KeysTypeOK
<1>6. ~Parses(roll) /\ ~RollVerifies(roll)
  BY DEF Parses, RollVerifies
<1> QED BY <1>1, <1>2, <1>3, <1>4, <1>5, <1>6
        DEF CutsInv, KeysInv, RollIsSigned, SetInUse, PemsAreTheRolls, RosterIsAdmitted, Early

\* Of the run's parts, the archive's alone touches the archive's files.
LEMMA ArchiveAlone ==
  ASSUME [Next]_vars
  PROVE  ArchiveActs \/ UNCHANGED archiveVars
BY DEF Next, Seating, Paging, Archiving, Reading, Telling, TimePasses, vars

LEMMA ArchiveStep ==
  ASSUME CutsInv, KeysInv, [Next]_vars
  PROVE  CutsInv' /\ KeysInv' /\ [KeysAct]_archiveVars
<1>1. CASE ArchiveActs
  BY <1>1, ArchiveKeepsTheCuts, ArchiveKeepsTheKeys DEF CutsInv
<1>2. CASE UNCHANGED archiveVars
  <2> USE <1>2 DEF archiveVars
  <2>1. CutsInv'
    BY DEF CutsInv, ArchiveTypeOK, CopiedFirst, PreviousRun, RunIsTheLastCut, KnowsTheLastCut, CutsAreKept,
           CutsStayReadable, LineageSkipsNoCut, Phase
  <2>2. KeysInv'
    BY DEF KeysInv, KeysTypeOK, RollIsSigned, SetInUse, PemsAreTheRolls, RosterIsAdmitted, Parses, RollVerifies, Phase
  <2> QED BY <2>1, <2>2
<1> QED BY <1>1, <1>2, ArchiveAlone

\* The inductive invariant of the directory's files: what run.json holds is copied before
\* it is written again, a launch knows the cut it goes on from, and the keys on disk are
\* those of every roll that verifies.
THEOREM FilesInvariant == Spec => [](CutsInv /\ KeysInv)
<1>1. Init => CutsInv /\ KeysInv
  BY ArchiveStarts DEF Init
<1>2. CutsInv /\ KeysInv /\ [Next]_vars => (CutsInv /\ KeysInv)'
  BY ArchiveStep
<1> QED BY <1>1, <1>2, PTL DEF Spec

\* However launches fail and die, a cut written is kept, and the cuts read back as one
\* line (community-live.mjs:756-757, run-manifest.mjs:1-11).
THEOREM CutsAreAlwaysKept == Spec => []CutsAreKept
BY FilesInvariant, PTL DEF CutsInv

\* Members keep their keys over every launch that is no --fresh one, and a running
\* community signs with the keys of its roll (community-live.mjs:427-431).
THEOREM KeysAreKept == Spec => MembersKeepTheirKeys
<1>1. CutsInv /\ KeysInv /\ [Next]_vars => [KeysAct]_archiveVars
  BY ArchiveStep
<1>2. Spec => [][KeysAct]_archiveVars
  BY <1>1, FilesInvariant, PTL DEF Spec
<1> QED BY <1>2 DEF MembersKeepTheirKeys, KeysAct

-----------------------------------------------------------------------------
(* The human's seat *)

CardRows == [kind : {"ask", "question", "form", "floor"},
             state : {"pending", "answered", "timeout", "withdrawn"}, afterStop : BOOLEAN,
             expiresAt : Nat, firesAt : Nat, settledAt : Nat, draft : Nat]
Floors == [step : {"idle", "asked", "waiting", "acting"}, endsTurn : BOOLEAN,
           result : {"none", "landed", "refused"}, noticed : BOOLEAN]

SeatTypeOK ==
  /\ now \in Nat
  /\ cards \in Seq(CardRows)
  /\ drafts \in Seq(Nat)
  /\ silences \in Nat /\ halted \in BOOLEAN
  /\ floor \in Floors

\* A card runs out at the hour it shows, and nothing of a turn outlives an immediate stop.
SeatKeepsTime ==
  /\ \A i \in DOMAIN cards : cards[i].firesAt = cards[i].expiresAt
  /\ halted => floor.step = "idle"

SeatInv == SeatTypeOK /\ SeatKeepsTime /\ SilencesAreTheHumans /\ WaitsAreMeant /\ AnswersAreDraftedOnce

Silences == {i \in DOMAIN cards : cards[i].state = "timeout"}
Bearers == {i \in DOMAIN cards : cards[i].draft # 0}
Borne == {cards[i].draft : i \in Bearers}
Answered == {i \in DOMAIN cards : cards[i].kind = "form" /\ cards[i].state = "answered"}

LEMMA CardsAre ==
  ASSUME SeatTypeOK
  PROVE  /\ Len(cards) \in Nat /\ DOMAIN cards = 1..Len(cards)
         /\ \A i \in DOMAIN cards : cards[i] \in CardRows
         /\ IsFiniteSet(Silences) /\ IsFiniteSet(Pending)
<1>1. /\ Len(cards) \in Nat /\ DOMAIN cards = 1..Len(cards)
      /\ \A i \in DOMAIN cards : cards[i] \in CardRows
  BY DEF SeatTypeOK
<1>2. IsFiniteSet(1..Len(cards))
  BY <1>1, FS_Interval
<1>3. Silences \in SUBSET (1..Len(cards)) /\ Pending \in SUBSET (1..Len(cards))
  BY <1>1 DEF Silences, Pending
<1> QED BY <1>1, <1>2, <1>3, FS_Subset

LEMMA SilencesCounted ==
  SilencesAreTheHumans <=> /\ silences = Cardinality(Silences)
                           /\ \A i \in Silences : cards[i].settledAt >= cards[i].expiresAt
BY DEF SilencesAreTheHumans, Silences

LEMMA DraftsCounted ==
  AnswersAreDraftedOnce <=> /\ Borne \cup ToSet(drafts) = Answered
                            /\ Borne \cap ToSet(drafts) = {}
                            /\ IsInjective(drafts)
                            /\ \A i, k \in Bearers : cards[i].draft = cards[k].draft => i = k
BY DEF AnswersAreDraftedOnce, Bearers, Borne, Answered

\* A card is posed.
LEMMA CardPosed ==
  ASSUME SeatTypeOK, NEW card \in CardRows, cards' = Append(cards, card)
  PROVE  /\ cards' \in Seq(CardRows) /\ Len(cards') = Len(cards) + 1
         /\ DOMAIN cards' = DOMAIN cards \cup {Len(cards) + 1} /\ Len(cards) + 1 \notin DOMAIN cards
         /\ \A i \in DOMAIN cards : cards'[i] = cards[i]
         /\ cards'[Len(cards) + 1] = card
<1>1. Len(cards) \in Nat /\ cards \in Seq(CardRows)
  BY DEF SeatTypeOK
<1> QED BY <1>1

\* A card changes, and the others do not.
Alters(i, card) ==
  /\ cards' \in Seq(CardRows) /\ DOMAIN cards' = DOMAIN cards
  /\ \A k \in DOMAIN cards \ {i} : cards'[k] = cards[k]
  /\ cards'[i] = card

LEMMA CardSettled ==
  ASSUME SeatTypeOK, NEW i \in DOMAIN cards, NEW state \in {"answered", "timeout", "withdrawn"},
         cards' = Settled(i, state)
  PROVE  Alters(i, [cards[i] EXCEPT !.state = state, !.settledAt = now])
<1> DEFINE card == [cards[i] EXCEPT !.state = state, !.settledAt = now]
<1>1. cards \in Seq(CardRows) /\ i \in 1..Len(cards) /\ cards[i] \in CardRows /\ now \in Nat
  BY CardsAre DEF SeatTypeOK
<1>2. card \in CardRows
  BY <1>1 DEF CardRows
<1>3. cards' = [cards EXCEPT ![i] = card]
  BY <1>1 DEF Settled
<1> QED BY <1>1, <1>2, <1>3, ExceptSeq DEF Alters

LEMMA CardMoved ==
  ASSUME SeatTypeOK, NEW i \in DOMAIN cards, NEW at \in Nat, cards' = [cards EXCEPT ![i] = MovedTo(@, at)]
  PROVE  Alters(i, [cards[i] EXCEPT !.expiresAt = at, !.firesAt = at])
<1> DEFINE card == [cards[i] EXCEPT !.expiresAt = at, !.firesAt = at]
<1>1. cards \in Seq(CardRows) /\ i \in 1..Len(cards) /\ cards[i] \in CardRows
  BY CardsAre DEF SeatTypeOK
<1>2. card \in CardRows
  BY <1>1 DEF CardRows
<1>3. cards' = [cards EXCEPT ![i] = card]
  BY <1>1 DEF MovedTo
<1> QED BY <1>1, <1>2, <1>3, ExceptSeq DEF Alters

\* The fence's count, where no card runs out.
LEMMA SilencesKept ==
  ASSUME SeatInv, Silences' = Silences, silences' = silences,
         \A i \in Silences : cards'[i].settledAt = cards[i].settledAt /\ cards'[i].expiresAt = cards[i].expiresAt
  PROVE  SilencesAreTheHumans'
<1>1. SilencesAreTheHumans
  BY DEF SeatInv
<1> QED BY <1>1 DEF SilencesAreTheHumans, Silences

\* The drafts, where no form is answered and none rides a card.
LEMMA DraftsKept ==
  ASSUME SeatInv, drafts' = drafts, Bearers' = Bearers, Answered' = Answered,
         \A i \in Bearers : cards'[i].draft = cards[i].draft
  PROVE  AnswersAreDraftedOnce'
<1>1. AnswersAreDraftedOnce
  BY DEF SeatInv
<1>2. Borne' = Borne
  BY DEF Borne
<1> QED BY <1>1, <1>2, DraftsCounted DEF AnswersAreDraftedOnce, Bearers, Borne, Answered

\* A card posed without a draft, pending or withdrawn at once.
LEMMA PosedKeeps ==
  ASSUME SeatInv, NEW card \in CardRows, cards' = Append(cards, card),
         card.state \in {"pending", "withdrawn"}, card.draft = 0, card.firesAt = card.expiresAt,
         card.state = "pending" => (halted => card.kind = "ask" /\ card.afterStop),
         UNCHANGED <<now, drafts, silences, halted, floor>>
  PROVE  SeatInv'
<1> DEFINE n == Len(cards) + 1
<1>1. /\ cards' \in Seq(CardRows)
      /\ DOMAIN cards' = DOMAIN cards \cup {n} /\ n \notin DOMAIN cards
      /\ \A i \in DOMAIN cards : cards'[i] = cards[i]
      /\ cards'[n] = card
  BY CardPosed DEF SeatInv
<1> HIDE DEF n
<1>2. SeatTypeOK' /\ SeatKeepsTime'
  BY <1>1 DEF SeatInv, SeatTypeOK, SeatKeepsTime
<1>3. Silences' = Silences /\ Bearers' = Bearers /\ Answered' = Answered
  BY <1>1 DEF Silences, Bearers, Answered
<1>4. SilencesAreTheHumans'
  <2>1. \A i \in Silences : cards'[i] = cards[i]
    BY <1>1 DEF Silences
  <2> QED BY <1>3, <2>1, SilencesKept
<1>5. AnswersAreDraftedOnce'
  <2>1. \A i \in Bearers : cards'[i] = cards[i]
    BY <1>1 DEF Bearers
  <2> QED BY <1>3, <2>1, DraftsKept
<1>6. WaitsAreMeant'
  BY <1>1 DEF SeatInv, WaitsAreMeant, Pending
<1> QED BY <1>2, <1>4, <1>5, <1>6 DEF SeatInv

LEMMA PosedTypes ==
  ASSUME SeatInv, NEW kind \in {"ask", "question", "form", "floor"}, NEW draft \in Nat
  PROVE  Posed(kind, draft) \in CardRows
<1>1. now + CardTerm \in Nat /\ halted \in BOOLEAN
  BY TermsAreTimes DEF SeatInv, SeatTypeOK
<1> QED BY <1>1 DEF Posed, CardRows

LEMMA AskPosedKeeps ==
  ASSUME SeatInv, ApprovalPosed \/ QuestionPosed, now' = now
  PROVE  SeatInv'
<1>1. now \in Nat /\ halted \in BOOLEAN
  BY DEF SeatInv, SeatTypeOK
<1>2. CASE ApprovalPosed
  <2>1. Posed("ask", 0) \in CardRows
    BY PosedTypes
  <2> QED BY <1>1, <1>2, <2>1, PosedKeeps DEF ApprovalPosed, Pose, Posed
<1>3. CASE QuestionPosed
  <2>1. PICK kind \in {"question", "form"} : cards' = Append(cards, UnlessAborted(Posed(kind, 0)))
    BY <1>3 DEF QuestionPosed
  <2> DEFINE posed == Posed(kind, 0)
             card == UnlessAborted(posed)
  <2>2. posed \in CardRows
    BY PosedTypes
  <2>3. /\ posed.state = "pending" /\ posed.draft = 0 /\ posed.firesAt = posed.expiresAt
    BY DEF Posed
  <2>4. [posed EXCEPT !.state = "withdrawn", !.settledAt = now] \in CardRows
    BY <2>2, <1>1 DEF CardRows
  <2> HIDE DEF posed
  <2>5. /\ card \in CardRows /\ card.state \in {"pending", "withdrawn"} /\ card.draft = 0
        /\ card.firesAt = card.expiresAt /\ (card.state = "pending" => ~halted)
    BY <2>2, <2>3, <2>4, <1>1 DEF UnlessAborted, CardRows
  <2> HIDE DEF card
  <2>6. cards' = Append(cards, card)
    BY <2>1 DEF card, posed
  <2> QED BY <2>5, <2>6, <1>3, PosedKeeps DEF QuestionPosed
<1> QED BY <1>2, <1>3

\* The oldest draft rides a floor card.
LEMMA FloorPosedKeeps ==
  ASSUME SeatInv, FloorPosed, now' = now
  PROVE  SeatInv'
<1> DEFINE draft == IF drafts = <<>> THEN 0 ELSE Head(drafts)
           card == Posed("floor", draft)
           n == Len(cards) + 1
<1>1. /\ drafts \in Seq(Nat) /\ SeatTypeOK /\ ~halted /\ floor \in Floors /\ floor.step = "asked"
      /\ ~(EndingResult /\ floor.result = "landed")
  BY DEF SeatInv, SeatTypeOK, SeatKeepsTime, FloorPosed
<1>2. draft \in Nat
  BY <1>1
<1>3. card \in CardRows /\ cards' = Append(cards, card)
  BY <1>2, PosedTypes DEF FloorPosed, Pose
<1>4. card.state = "pending" /\ card.draft = draft /\ card.firesAt = card.expiresAt /\ card.kind = "floor"
  BY DEF Posed
<1>5. /\ cards' \in Seq(CardRows)
      /\ DOMAIN cards' = DOMAIN cards \cup {n} /\ n \notin DOMAIN cards
      /\ \A i \in DOMAIN cards : cards'[i] = cards[i]
      /\ cards'[n] = card
  BY <1>1, <1>3, CardPosed
<1> HIDE DEF n, card
<1>6. drafts' = IF drafts = <<>> THEN drafts ELSE Tail(drafts)
  BY DEF FloorPosed, WithoutFirst
<1>7. /\ floor' = [floor EXCEPT !.step = "waiting", !.endsTurn = @ /\ ~EndingResult]
      /\ silences' = silences /\ halted' = halted
  BY DEF FloorPosed
<1>8. SeatTypeOK'
  <2>1. drafts' \in Seq(Nat)
    BY <1>1, <1>6
  <2>2. (floor.endsTurn /\ ~EndingResult) \in BOOLEAN
    BY <1>1 DEF Floors, EndingResult
  <2>3. floor' \in Floors
    BY <1>1, <1>7, <2>2 DEF Floors
  <2> QED BY <1>1, <1>5, <1>7, <2>1, <2>3 DEF SeatTypeOK
<1>9. SeatKeepsTime'
  BY <1>1, <1>4, <1>5, <1>7 DEF SeatInv, SeatKeepsTime
<1>10. SilencesAreTheHumans'
  <2>1. Silences' = Silences /\ \A i \in Silences : cards'[i] = cards[i]
    BY <1>4, <1>5 DEF Silences
  <2> QED BY <1>7, <2>1, SilencesKept
<1>11. WaitsAreMeant'
  <2>1. floor'.endsTurn => floor'.result = "none"
    BY <1>1, <1>7 DEF Floors, EndingResult
  <2> QED BY <1>1, <1>7, <2>1 DEF WaitsAreMeant
<1>12. AnswersAreDraftedOnce'
  <2>1. Answered' = Answered /\ \A i \in Bearers : i \in DOMAIN cards /\ cards'[i] = cards[i]
    BY <1>4, <1>5 DEF Answered, Bearers
  <2>2. /\ Borne \cup ToSet(drafts) = Answered /\ Borne \cap ToSet(drafts) = {} /\ IsInjective(drafts)
        /\ \A i, k \in Bearers : cards[i].draft = cards[k].draft => i = k
    BY DraftsCounted DEF SeatInv
  <2>3. CASE drafts = <<>>
    <3>1. Bearers' = Bearers
      BY <1>4, <1>5, <2>3 DEF Bearers
    <3> QED BY <1>6, <2>1, <2>3, <3>1, DraftsKept
  <2>4. CASE drafts # <<>>
    <3>1. /\ Len(drafts) \in Nat /\ DOMAIN drafts = 1..Len(drafts) /\ Len(drafts) # 0
          /\ Head(drafts) = drafts[1] /\ draft = drafts[1]
          /\ DOMAIN drafts' = 1..(Len(drafts) - 1)
          /\ \A k \in DOMAIN drafts' : k + 1 \in DOMAIN drafts /\ drafts'[k] = drafts[k + 1]
      BY <1>1, <1>6, <2>4
    <3>2. draft \in ToSet(drafts)
      BY <3>1 DEF ToSet
    <3>3. draft # 0
      <4>1. draft \in DOMAIN cards
        BY <2>2, <3>2 DEF Answered
      <4> QED BY <4>1, <1>1, CardsAre
    <3> HIDE DEF draft
    <3>4. Bearers' = Bearers \cup {n} /\ n \notin Bearers
      BY <1>4, <1>5, <3>3 DEF Bearers
    <3>5. Borne' = Borne \cup {draft}
      BY <1>4, <1>5, <2>1, <3>4 DEF Borne
    <3>6. ToSet(drafts) = ToSet(drafts') \cup {draft}
      <4>1. \A k \in DOMAIN drafts : k = 1 \/ (k - 1 \in DOMAIN drafts' /\ drafts'[k - 1] = drafts[k])
        BY <3>1
      <4> QED BY <4>1, <3>1 DEF ToSet
    <3>7. draft \notin ToSet(drafts')
      BY <2>2, <3>1 DEF ToSet, IsInjective
    <3>8. IsInjective(drafts')
      BY <2>2, <3>1 DEF IsInjective
    <3>9. draft \notin Borne
      BY <2>2, <3>2
    <3>10. \A i, k \in Bearers' : cards'[i].draft = cards'[k].draft => i = k
      BY <2>1, <2>2, <1>4, <1>5, <3>4, <3>9 DEF Borne
    <3>11. /\ Borne' \cup ToSet(drafts') = Answered' /\ Borne' \cap ToSet(drafts') = {}
      BY <2>1, <2>2, <3>5, <3>6, <3>7, <3>9
    <3> QED BY <3>8, <3>10, <3>11 DEF AnswersAreDraftedOnce, Borne, Bearers, Answered
  <2> QED BY <2>3, <2>4
<1> QED BY <1>8, <1>9, <1>10, <1>11, <1>12 DEF SeatInv

\* A card settled: what the parts of the invariant see of it.
LEMMA SettledSeen ==
  ASSUME SeatInv, NEW i \in Pending, NEW state \in {"answered", "timeout", "withdrawn"},
         cards' = Settled(i, state), now' = now
  PROVE  /\ cards' \in Seq(CardRows) /\ DOMAIN cards' = DOMAIN cards /\ i \in DOMAIN cards
         /\ \A k \in DOMAIN cards \ {i} : cards'[k] = cards[k]
         /\ cards'[i].state = state /\ cards'[i].settledAt = now
         /\ cards'[i].kind = cards[i].kind /\ cards'[i].draft = cards[i].draft
         /\ cards'[i].firesAt = cards[i].firesAt /\ cards'[i].expiresAt = cards[i].expiresAt
         /\ cards'[i].afterStop = cards[i].afterStop
         /\ \A k \in DOMAIN cards : cards'[k].firesAt = cards'[k].expiresAt
         /\ Bearers' = Bearers /\ Borne' = Borne /\ \A k \in Bearers : cards'[k].draft = cards[k].draft
         /\ Pending' = Pending \ {i}
<1> DEFINE card == [cards[i] EXCEPT !.state = state, !.settledAt = now]
<1>1. SeatTypeOK /\ i \in DOMAIN cards /\ cards[i] \in CardRows
  BY CardsAre DEF SeatInv, Pending
<1>2. Alters(i, card)
  BY <1>1, CardSettled
<1>3. /\ card.state = state /\ card.settledAt = now /\ card.kind = cards[i].kind /\ card.draft = cards[i].draft
      /\ card.firesAt = cards[i].firesAt /\ card.expiresAt = cards[i].expiresAt
      /\ card.afterStop = cards[i].afterStop
  BY <1>1 DEF CardRows
<1> HIDE DEF card
<1>4. /\ cards' \in Seq(CardRows) /\ DOMAIN cards' = DOMAIN cards
      /\ \A k \in DOMAIN cards \ {i} : cards'[k] = cards[k]
      /\ cards'[i] = card
  BY <1>2 DEF Alters
<1>5. \A k \in DOMAIN cards : cards'[k].draft = cards[k].draft
  BY <1>3, <1>4
<1>6. Bearers' = Bearers /\ \A k \in Bearers : cards'[k].draft = cards[k].draft
  BY <1>4, <1>5 DEF Bearers
<1>7. Borne' = Borne
  BY <1>6 DEF Borne
<1>8. \A k \in DOMAIN cards : cards'[k].firesAt = cards'[k].expiresAt
  BY <1>3, <1>4 DEF SeatInv, SeatKeepsTime
<1>9. Pending' = Pending \ {i}
  BY <1>3, <1>4 DEF Pending
<1> QED BY <1>1, <1>3, <1>4, <1>6, <1>7, <1>8, <1>9

LEMMA FloorAfterTypes ==
  ASSUME SeatInv, NEW i \in Pending, NEW step \in {"acting", "idle"}, NEW ends \in BOOLEAN,
         floor' = FloorAfter(i, step, ends), step # "idle" => ~halted \/ cards[i].kind # "floor"
  PROVE  floor' \in Floors /\ (halted => floor'.step = "idle")
         /\ (floor'.step = "waiting" => ~(floor'.endsTurn /\ floor'.result = "landed"))
<1>1. floor \in Floors /\ (halted => floor.step = "idle")
      /\ (floor.step = "waiting" => ~(floor.endsTurn /\ floor.result = "landed"))
  BY DEF SeatInv, SeatTypeOK, SeatKeepsTime, WaitsAreMeant
<1>2. [floor EXCEPT !.step = step, !.endsTurn = ends] \in Floors
  BY <1>1 DEF Floors
<1> QED BY <1>1, <1>2 DEF FloorAfter, Floors

\* A form answered is drafted; any other card is answered and no more.
LEMMA AnswerKeeps ==
  ASSUME SeatInv, NEW i \in Pending, Answer(i), now' = now
  PROVE  SeatInv'
<1>1. SeatTypeOK /\ cards' = Settled(i, "answered") /\ halted' = halted /\ silences' = silences
  BY DEF SeatInv, Answer
<1>2. /\ cards' \in Seq(CardRows) /\ DOMAIN cards' = DOMAIN cards /\ i \in DOMAIN cards
      /\ \A k \in DOMAIN cards \ {i} : cards'[k] = cards[k]
      /\ cards'[i].state = "answered" /\ cards'[i].kind = cards[i].kind
      /\ \A k \in DOMAIN cards : cards'[k].firesAt = cards'[k].expiresAt
      /\ Bearers' = Bearers /\ Borne' = Borne /\ \A k \in Bearers : cards'[k].draft = cards[k].draft
      /\ Pending' = Pending \ {i}
  BY <1>1, SettledSeen
<1>3. cards[i].state = "pending" /\ i \in Nat
  BY <1>1, <1>2, CardsAre DEF Pending
<1>4. halted => cards[i].kind = "ask" /\ \A k \in Pending : cards[k].kind = "ask" /\ cards[k].afterStop
  BY DEF SeatInv, WaitsAreMeant
<1>5. floor' \in Floors /\ (halted => floor'.step = "idle")
         /\ (floor'.step = "waiting" => ~(floor'.endsTurn /\ floor'.result = "landed"))
  <2>1. PICK step \in {"acting", "idle"}, ends \in BOOLEAN : floor' = FloorAfter(i, step, ends)
    <3>1. floor.endsTurn \in BOOLEAN
      BY <1>1 DEF SeatTypeOK, Floors
    <3> QED BY <3>1 DEF Answer
  <2> QED BY <2>1, <1>4, FloorAfterTypes
<1>6. drafts' \in Seq(Nat)
  BY <1>1, <1>3 DEF Answer, SeatTypeOK
<1>7. SeatTypeOK' /\ SeatKeepsTime'
  BY <1>1, <1>2, <1>5, <1>6 DEF SeatTypeOK, SeatKeepsTime
<1>8. SilencesAreTheHumans'
  <2>1. Silences' = Silences /\ \A k \in Silences : cards'[k] = cards[k]
    BY <1>2, <1>3 DEF Silences
  <2> QED BY <1>1, <2>1, SilencesKept
<1>9. WaitsAreMeant'
  <2>1. \A k \in Pending' : k \in Pending /\ cards'[k] = cards[k]
    BY <1>2 DEF Pending
  <2> QED BY <1>1, <1>4, <1>5, <2>1 DEF WaitsAreMeant
<1>10. AnswersAreDraftedOnce'
  <2>1. CASE cards[i].kind # "form"
    <3>1. Answered' = Answered /\ drafts' = drafts
      BY <1>2, <1>3, <2>1 DEF Answered, Answer
    <3> QED BY <1>2, <3>1, DraftsKept
  <2>2. CASE cards[i].kind = "form"
    <3>1. Answered' = Answered \cup {i} /\ i \notin Answered
      BY <1>2, <1>3, <2>2 DEF Answered
    <3>2. /\ drafts' = Append(drafts, i) /\ drafts \in Seq(Nat) /\ Len(drafts) \in Nat
          /\ DOMAIN drafts = 1..Len(drafts) /\ DOMAIN drafts' = DOMAIN drafts \cup {Len(drafts) + 1}
          /\ Len(drafts) + 1 \notin DOMAIN drafts
          /\ \A k \in DOMAIN drafts : drafts'[k] = drafts[k]
          /\ drafts'[Len(drafts) + 1] = i
      BY <1>1, <1>3, <2>2 DEF Answer, SeatTypeOK
    <3>3. ToSet(drafts') = ToSet(drafts) \cup {i}
      BY <3>2 DEF ToSet
    <3>4. /\ Borne \cup ToSet(drafts) = Answered /\ Borne \cap ToSet(drafts) = {} /\ IsInjective(drafts)
          /\ \A j, k \in Bearers : cards[j].draft = cards[k].draft => j = k
      BY DraftsCounted DEF SeatInv
    <3>5. i \notin Borne /\ i \notin ToSet(drafts)
      BY <3>1, <3>4
    <3>6. IsInjective(drafts')
      BY <3>2, <3>4, <3>5 DEF IsInjective, ToSet
    <3>7. \A j, k \in Bearers' : cards'[j].draft = cards'[k].draft => j = k
      BY <1>2, <3>4
    <3>8. /\ Borne' \cup ToSet(drafts') = Answered' /\ Borne' \cap ToSet(drafts') = {}
      BY <1>2, <3>1, <3>3, <3>4, <3>5
    <3> QED BY <3>6, <3>7, <3>8 DEF AnswersAreDraftedOnce, Borne, Bearers, Answered
  <2> QED BY <2>1, <2>2
<1> QED BY <1>7, <1>8, <1>9, <1>10 DEF SeatInv

\* A card ends unanswered: nothing is drafted.
LEMMA UnansweredKeeps ==
  ASSUME SeatInv, NEW i \in Pending, NEW state \in {"timeout", "withdrawn"},
         cards' = Settled(i, state), now' = now, drafts' = drafts, halted' = halted,
         floor' = floor \/ floor' = FloorAfter(i, "idle", floor.endsTurn)
  PROVE  /\ cards' \in Seq(CardRows) /\ SeatKeepsTime' /\ WaitsAreMeant' /\ AnswersAreDraftedOnce'
         /\ floor' \in Floors
<1>1. SeatTypeOK
  BY DEF SeatInv
<1>2. /\ cards' \in Seq(CardRows) /\ DOMAIN cards' = DOMAIN cards /\ i \in DOMAIN cards
      /\ \A k \in DOMAIN cards \ {i} : cards'[k] = cards[k]
      /\ cards'[i].state = state
      /\ \A k \in DOMAIN cards : cards'[k].firesAt = cards'[k].expiresAt
      /\ Bearers' = Bearers /\ \A k \in Bearers : cards'[k].draft = cards[k].draft
      /\ Pending' = Pending \ {i}
  BY SettledSeen
<1>3. cards[i].state = "pending"
  BY DEF Pending
<1>4. halted => \A k \in Pending : cards[k].kind = "ask" /\ cards[k].afterStop
  BY DEF SeatInv, WaitsAreMeant
<1>5. floor' \in Floors /\ (halted => floor'.step = "idle")
         /\ (floor'.step = "waiting" => ~(floor'.endsTurn /\ floor'.result = "landed"))
  <2>1. CASE floor' = floor
    BY <2>1 DEF SeatInv, SeatTypeOK, SeatKeepsTime, WaitsAreMeant
  <2>2. CASE floor' = FloorAfter(i, "idle", floor.endsTurn)
    <3>1. floor.endsTurn \in BOOLEAN
      BY <1>1 DEF SeatTypeOK, Floors
    <3> QED BY <2>2, <3>1, FloorAfterTypes
  <2> QED BY <2>1, <2>2
<1>6. WaitsAreMeant'
  <2>1. \A k \in Pending' : k \in Pending /\ cards'[k] = cards[k]
    BY <1>2 DEF Pending
  <2> QED BY <1>4, <1>5, <2>1 DEF WaitsAreMeant
<1>7. Answered' = Answered
  BY <1>2, <1>3 DEF Answered
<1> QED BY <1>2, <1>5, <1>6, <1>7, DraftsKept DEF SeatKeepsTime

LEMMA RunsOutKeeps ==
  ASSUME SeatInv, RunsOut, now' = now
  PROVE  SeatInv'
<1>1. PICK i \in Pending : /\ cards[i].firesAt <= now /\ cards' = Settled(i, "timeout")
                           /\ floor' = FloorAfter(i, "idle", floor.endsTurn)
  BY DEF RunsOut
<1>2. SeatTypeOK /\ drafts' = drafts /\ halted' = halted
  BY DEF SeatInv, RunsOut
<1>3. /\ cards' \in Seq(CardRows) /\ SeatKeepsTime' /\ WaitsAreMeant' /\ AnswersAreDraftedOnce'
      /\ floor' \in Floors
  BY <1>1, <1>2, UnansweredKeeps
<1>4. silences' = silences + 1
  <2>1. {k \in DOMAIN <<"timeout">> : Silent(<<"timeout">>[k])} = {1}
    BY DEF Silent
  <2> QED BY <2>1, FS_Singleton DEF RunsOut, Resolved
<1>5. SilencesAreTheHumans'
  <2>1. /\ DOMAIN cards' = DOMAIN cards /\ i \in DOMAIN cards
        /\ \A k \in DOMAIN cards \ {i} : cards'[k] = cards[k]
        /\ cards'[i].state = "timeout" /\ cards'[i].settledAt = now
        /\ cards'[i].expiresAt = cards[i].expiresAt
    BY <1>1, SettledSeen
  <2>2. Silences' = Silences \cup {i} /\ i \notin Silences
    BY <2>1 DEF Silences, Pending
  <2>3. Cardinality(Silences') = Cardinality(Silences) + 1
    BY <1>2, <2>2, CardsAre, FS_AddElement
  <2>4. silences = Cardinality(Silences) /\ \A k \in Silences : cards[k].settledAt >= cards[k].expiresAt
    BY SilencesCounted DEF SeatInv
  <2>5. now >= cards[i].expiresAt
    <3>1. cards[i] \in CardRows /\ cards[i].firesAt = cards[i].expiresAt
      BY <1>2, <2>1, CardsAre DEF SeatInv, SeatKeepsTime
    <3> QED BY <1>1, <1>2, <3>1 DEF CardRows, SeatTypeOK
  <2>6. \A k \in Silences' : cards'[k].settledAt >= cards'[k].expiresAt
    <3>1. \A k \in Silences : k # i /\ k \in DOMAIN cards
      BY <2>2 DEF Silences
    <3> QED BY <2>1, <2>2, <2>4, <2>5, <3>1
  <2> QED BY <1>4, <2>3, <2>4, <2>6 DEF SilencesAreTheHumans, Silences
<1> QED BY <1>2, <1>3, <1>4, <1>5 DEF SeatInv, SeatTypeOK

\* What is withdrawn is no silence.
LEMMA NoSilence ==
  /\ {k \in DOMAIN <<"withdrawn">> : Silent(<<"withdrawn">>[k])} = {}
  /\ \A n : LET states == [k \in 1..n |-> "withdrawn"] IN {k \in DOMAIN states : Silent(states[k])} = {}
BY DEF Silent

LEMMA AbortedKeeps ==
  ASSUME SeatInv, Aborted, now' = now
  PROVE  SeatInv'
<1>1. PICK i \in Pending : cards' = Settled(i, "withdrawn")
  BY DEF Aborted
<1>2. SeatTypeOK /\ drafts' = drafts /\ halted' = halted /\ floor' = floor
  BY DEF SeatInv, Aborted
<1>3. /\ cards' \in Seq(CardRows) /\ SeatKeepsTime' /\ WaitsAreMeant' /\ AnswersAreDraftedOnce'
      /\ floor' \in Floors
  BY <1>1, <1>2, UnansweredKeeps
<1>4. silences' = silences
  <2> DEFINE silent == {k \in DOMAIN <<"withdrawn">> : Silent(<<"withdrawn">>[k])}
  <2>1. silences' = silences + Cardinality(silent)
    BY DEF Aborted, Resolved
  <2>2. silent = {}
    BY NoSilence
  <2> HIDE DEF silent
  <2> QED BY <1>2, <2>1, <2>2, FS_EmptySet DEF SeatTypeOK
<1>5. SilencesAreTheHumans'
  <2>1. /\ DOMAIN cards' = DOMAIN cards /\ \A k \in DOMAIN cards \ {i} : cards'[k] = cards[k]
        /\ cards'[i].state = "withdrawn"
    BY <1>1, SettledSeen
  <2>2. Silences' = Silences /\ \A k \in Silences : cards'[k] = cards[k]
    BY <2>1 DEF Silences, Pending
  <2> QED BY <1>4, <2>2, SilencesKept
<1> QED BY <1>2, <1>3, <1>4, <1>5 DEF SeatInv, SeatTypeOK

LEMMA ExtendsKeeps ==
  ASSUME SeatInv, Extends, now' = now
  PROVE  SeatInv'
<1>1. PICK i \in Pending : LET from == IF cards[i].expiresAt > now THEN cards[i].expiresAt ELSE now
                           IN  cards' = [cards EXCEPT ![i] = MovedTo(@, from + Extension)]
  BY DEF Extends
<1> DEFINE at == (IF cards[i].expiresAt > now THEN cards[i].expiresAt ELSE now) + Extension
           card == [cards[i] EXCEPT !.expiresAt = at, !.firesAt = at]
<1>2. SeatTypeOK /\ i \in DOMAIN cards /\ cards[i] \in CardRows /\ cards[i].state = "pending"
      /\ UNCHANGED <<drafts, silences, halted, floor>>
  BY CardsAre DEF SeatInv, Extends, Pending
<1>3. at \in Nat
  <2>1. cards[i].expiresAt \in Nat /\ now \in Nat
    BY <1>2 DEF CardRows, SeatTypeOK
  <2> QED BY <2>1, TermsAreTimes
<1>4. cards' = [cards EXCEPT ![i] = MovedTo(@, at)]
  BY <1>1
<1> HIDE DEF at
<1>5. Alters(i, card)
  BY <1>2, <1>3, <1>4, CardMoved
<1>6. /\ card.state = cards[i].state /\ card.kind = cards[i].kind /\ card.draft = cards[i].draft
      /\ card.afterStop = cards[i].afterStop /\ card.firesAt = card.expiresAt
  BY <1>2, <1>3 DEF CardRows
<1> HIDE DEF card
<1>7. /\ cards' \in Seq(CardRows) /\ DOMAIN cards' = DOMAIN cards
      /\ \A k \in DOMAIN cards \ {i} : cards'[k] = cards[k]
      /\ cards'[i] = card
  BY <1>5 DEF Alters
<1>8. SeatTypeOK' /\ SeatKeepsTime'
  BY <1>2, <1>6, <1>7 DEF SeatInv, SeatTypeOK, SeatKeepsTime
<1>9. SilencesAreTheHumans'
  <2>1. Silences' = Silences /\ \A k \in Silences : cards'[k] = cards[k]
    BY <1>2, <1>6, <1>7 DEF Silences
  <2> QED BY <1>2, <2>1, SilencesKept
<1>10. AnswersAreDraftedOnce'
  <2>1. Bearers' = Bearers /\ Answered' = Answered /\ \A k \in Bearers : cards'[k].draft = cards[k].draft
    BY <1>2, <1>6, <1>7 DEF Bearers, Answered
  <2> QED BY <1>2, <2>1, DraftsKept
<1>11. WaitsAreMeant'
  BY <1>2, <1>6, <1>7 DEF SeatInv, WaitsAreMeant, Pending
<1> QED BY <1>8, <1>9, <1>10, <1>11 DEF SeatInv

\* An immediate stop withdraws every card.
LEMMA StopsNowKeeps ==
  ASSUME SeatInv, StopsNow, now' = now
  PROVE  SeatInv'
<1> DEFINE gone(i) == [cards[i] EXCEPT !.state = "withdrawn", !.settledAt = now]
<1>1. /\ SeatTypeOK /\ drafts' = drafts /\ halted' = TRUE /\ floor' = [floor EXCEPT !.step = "idle"]
      /\ cards' = [i \in DOMAIN cards |-> IF i \in Pending THEN gone(i) ELSE cards[i]]
  BY DEF SeatInv, StopsNow
<1>2. /\ Len(cards) \in Nat /\ DOMAIN cards = 1..Len(cards) /\ now \in Nat
      /\ \A i \in DOMAIN cards : cards[i] \in CardRows
  BY <1>1, CardsAre DEF SeatTypeOK
<1>3. \A i \in DOMAIN cards :
        /\ gone(i) \in CardRows /\ gone(i).state = "withdrawn" /\ gone(i).kind = cards[i].kind
        /\ gone(i).draft = cards[i].draft /\ gone(i).firesAt = cards[i].firesAt
        /\ gone(i).expiresAt = cards[i].expiresAt
  BY <1>2 DEF CardRows
<1> HIDE DEF gone
<1>4. /\ DOMAIN cards' = DOMAIN cards
      /\ \A i \in DOMAIN cards : cards'[i] = IF i \in Pending THEN gone(i) ELSE cards[i]
  BY <1>1
<1>5. cards' \in Seq(CardRows)
  <2>1. \A i \in 1..Len(cards) : cards'[i] \in CardRows
    BY <1>2, <1>3, <1>4
  <2>2. cards' \in [1..Len(cards) -> CardRows]
    BY <1>1, <1>2, <2>1
  <2> QED BY <1>2, <2>2
<1>6. silences' = silences
  <2> DEFINE states == [k \in 1..Cardinality(Pending) |-> "withdrawn"]
             silent == {k \in DOMAIN states : Silent(states[k])}
  <2>1. silences' = silences + Cardinality(silent)
    BY DEF StopsNow, Resolved
  <2>2. silent = {}
    BY NoSilence
  <2> HIDE DEF silent
  <2> QED BY <1>1, <2>1, <2>2, FS_EmptySet DEF SeatTypeOK
<1>7. floor' \in Floors /\ floor'.step = "idle"
  BY <1>1 DEF SeatTypeOK, Floors
<1>8. SeatTypeOK' /\ SeatKeepsTime'
  <2>1. \A i \in DOMAIN cards : cards'[i].firesAt = cards'[i].expiresAt
    BY <1>3, <1>4 DEF SeatInv, SeatKeepsTime
  <2> QED BY <1>1, <1>2, <1>4, <1>5, <1>6, <1>7, <2>1 DEF SeatTypeOK, SeatKeepsTime
<1>9. SilencesAreTheHumans'
  <2>1. Silences' = Silences /\ \A k \in Silences : cards'[k] = cards[k]
    BY <1>3, <1>4 DEF Silences, Pending
  <2> QED BY <1>6, <2>1, SilencesKept
<1>10. AnswersAreDraftedOnce'
  <2>1. \A k \in DOMAIN cards : cards'[k].draft = cards[k].draft /\ cards'[k].kind = cards[k].kind
    BY <1>3, <1>4
  <2>2. Bearers' = Bearers /\ \A k \in Bearers : cards'[k].draft = cards[k].draft
    BY <1>4, <2>1 DEF Bearers
  <2>3. Answered' = Answered
    BY <1>3, <1>4 DEF Answered, Pending
  <2> QED BY <1>1, <2>2, <2>3, DraftsKept
<1>11. WaitsAreMeant'
  <2>1. Pending' = {}
    BY <1>3, <1>4 DEF Pending
  <2> QED BY <1>7, <2>1 DEF WaitsAreMeant
<1> QED BY <1>8, <1>9, <1>10, <1>11 DEF SeatInv

\* A step of the turn that touches no card.
LEMMA TurnKeeps ==
  ASSUME SeatInv, TurnBegins \/ TurnEnds \/ ActReturns, now' = now
  PROVE  SeatInv'
<1>1. /\ SeatTypeOK /\ UNCHANGED <<cards, drafts, silences, halted>>
      /\ floor' \in Floors /\ (halted => floor'.step = "idle") /\ floor'.step # "waiting"
  <2>1. SeatTypeOK /\ floor \in Floors /\ (halted => floor.step = "idle")
    BY DEF SeatInv, SeatTypeOK, SeatKeepsTime
  <2>2. CASE TurnBegins
    BY <2>1, <2>2 DEF TurnBegins, Floors
  <2>3. CASE TurnEnds
    BY <2>1, <2>3 DEF TurnEnds, Floors
  <2>4. CASE ActReturns
    BY <2>1, <2>4 DEF ActReturns, Floors
  <2> QED BY <2>2, <2>3, <2>4
<1>2. SeatTypeOK' /\ SeatKeepsTime'
  BY <1>1 DEF SeatInv, SeatTypeOK, SeatKeepsTime
<1>3. SilencesAreTheHumans' /\ AnswersAreDraftedOnce'
  BY <1>1 DEF SeatInv, SilencesAreTheHumans, AnswersAreDraftedOnce
<1>4. WaitsAreMeant'
  BY <1>1 DEF SeatInv, WaitsAreMeant, Pending
<1> QED BY <1>2, <1>3, <1>4 DEF SeatInv

LEMMA DoorsKeepTheSeat ==
  ASSUME SeatInv, Doors, now' = now
  PROVE  SeatInv'
BY AskPosedKeeps, TurnKeeps, FloorPosedKeeps, AbortedKeeps DEF Doors

LEMMA SeatActsKeepTheSeat ==
  ASSUME SeatInv, SeatActs, now' = now
  PROVE  SeatInv'
BY DoorsKeepTheSeat, AnswerKeeps, RunsOutKeeps, ExtendsKeeps, StopsNowKeeps DEF SeatActs

LEMMA HourKeepsTheSeat ==
  ASSUME SeatInv, Tick, UNCHANGED seatVars
  PROVE  SeatInv'
<1> USE DEF seatVars
<1>1. SeatTypeOK' /\ SeatKeepsTime'
  BY DEF SeatInv, SeatTypeOK, SeatKeepsTime, Tick
<1>2. SilencesAreTheHumans' /\ AnswersAreDraftedOnce' /\ WaitsAreMeant'
  BY DEF SeatInv, SilencesAreTheHumans, AnswersAreDraftedOnce, WaitsAreMeant, Pending
<1> QED BY <1>1, <1>2 DEF SeatInv

LEMMA SeatStutters ==
  ASSUME SeatInv, UNCHANGED <<now, seatVars>>
  PROVE  SeatInv'
<1> USE DEF seatVars
<1>1. SeatTypeOK' /\ SeatKeepsTime'
  BY DEF SeatInv, SeatTypeOK, SeatKeepsTime
<1>2. SilencesAreTheHumans' /\ AnswersAreDraftedOnce' /\ WaitsAreMeant'
  BY DEF SeatInv, SilencesAreTheHumans, AnswersAreDraftedOnce, WaitsAreMeant, Pending
<1> QED BY <1>1, <1>2 DEF SeatInv

LEMMA SeatStarts ==
  ASSUME ClockInit, SeatInit
  PROVE  SeatInv
<1> USE DEF ClockInit, SeatInit, NoTurnYet
<1>1. SeatTypeOK /\ SeatKeepsTime /\ WaitsAreMeant
  <2>1. floor \in Floors
    BY DEF Floors
  <2>2. cards \in Seq(CardRows) /\ drafts \in Seq(Nat) /\ DOMAIN cards = {}
    OBVIOUS
  <2> QED BY <2>1, <2>2 DEF SeatTypeOK, SeatKeepsTime, WaitsAreMeant, Pending
<1>2. SilencesAreTheHumans
  <2>1. Silences = {}
    BY DEF Silences
  <2> QED BY <2>1, FS_EmptySet, SilencesCounted
<1>3. AnswersAreDraftedOnce
  <2>1. Bearers = {} /\ Borne = {} /\ Answered = {} /\ ToSet(drafts) = {} /\ IsInjective(drafts)
    BY DEF Bearers, Borne, Answered, ToSet, IsInjective
  <2> QED BY <2>1, DraftsCounted
<1> QED BY <1>1, <1>2, <1>3 DEF SeatInv

-----------------------------------------------------------------------------
(* The run's page *)

Pages == [lastSeq : Nat, lines : Seq(Nat), finished : BOOLEAN, shown : SUBSET Nat,
          listed : SUBSET Nat, cards : SUBSET Nat, words : SUBSET Nat, asked : Nat, rendered : Nat,
          polledTo : Nat]
Streams == [open : BOOLEAN, rows : Seq(Nat)]
States == [number : Nat, upTo : Nat, posts : SUBSET Nat, pending : SUBSET Nat]
Outcomes == [card : Nat, outcome : {"settled", "refused", "gone"}, onPage : BOOLEAN]

PageTypeOK ==
  /\ feed \in Seq({"act", "post", "end"}) /\ closed \in BOOLEAN
  /\ stream \in Streams /\ page \in Pages
  /\ polls \in SUBSET States /\ presses \in SUBSET Outcomes

\* What the page has of the cards is of cards there are.
PageKnowsTheCards ==
  /\ page.listed \subseteq DOMAIN cards /\ page.cards \subseteq page.listed
  /\ page.words \subseteq page.listed
  /\ \A press \in presses : press.card \in DOMAIN cards

\* A newer answer to /state lacks no card still pending that an older one has, the one
\* rendered among them.
StatesAgree ==
  /\ page.rendered <= page.asked
  /\ \A p \in polls :
       /\ p.number <= page.asked /\ p.pending \subseteq DOMAIN cards
       /\ p.number >= page.rendered => page.listed \cap Pending \subseteq p.pending
       /\ \A q \in polls : p.number <= q.number => p.pending \cap Pending \subseteq q.pending

\* A button whose card goes on its answer pressed a card that no longer waits.
PressesAreTold ==
  \A press \in presses :
    /\ press.outcome # "refused" => press.card \notin Pending
    /\ press.outcome = "refused" => cards[press.card].kind \in {"form", "floor"}

CardsInv == PageKnowsTheCards /\ StatesAgree /\ PressesAreTold /\ CardsComeBack

\* The rows of the feed on their way, the stream's closing not among them.
OnTheWay == IF stream.rows # <<>> /\ stream.rows[Len(stream.rows)] = Closing
            THEN Len(stream.rows) - 1 ELSE Len(stream.rows)

\* What is on its way runs up to the feed's last row; only a closed feed's is closing.
RowsRunOn ==
  /\ ~stream.open => stream.rows = <<>>
  /\ OnTheWay <= Len(feed)
  /\ \A k \in 1..OnTheWay : stream.rows[k] = Len(feed) - OnTheWay + k
  /\ OnTheWay < Len(stream.rows) => closed

\* A stream takes up after the last row seen, or where the server's memory did.
StreamTakesUp ==
  stream.open =>
    LET next == Len(feed) - OnTheWay + 1
    IN  page.lastSeq = 0 \/ next <= page.lastSeq + 1 \/ Len(feed) >= next + HistoryCap - 1

LinesAreRows ==
  /\ page.lines = <<>> <=> page.lastSeq = 0
  /\ page.lines # <<>> => page.lines[Len(page.lines)] = page.lastSeq
  /\ \A k \in DOMAIN page.lines : page.lines[k] \in 1..Len(feed)
  /\ page.polledTo <= Len(feed)
  /\ \A p \in polls : p.upTo <= Len(feed) /\ p.posts = Forum \cap 1..p.upTo

FeedInv == RowsRunOn /\ StreamTakesUp /\ LinesAreRows /\ LinesAreTheFeeds

PageInv == PageTypeOK /\ CardsInv /\ FeedInv

\* The parts of the page that a step leaves alone.
SameCards == /\ page'.listed = page.listed /\ page'.cards = page.cards /\ page'.words = page.words
             /\ page'.asked = page.asked /\ page'.rendered = page.rendered
SameLines == /\ page'.lastSeq = page.lastSeq /\ page'.lines = page.lines
             /\ page'.shown = page.shown /\ page'.polledTo = page.polledTo

\* Of the cards there were, none comes to wait again.
PendingLoses ==
  /\ DOMAIN cards \subseteq DOMAIN cards'
  /\ \A i \in DOMAIN cards : cards'[i].kind = cards[i].kind /\ (i \in Pending' => i \in Pending)

LEMMA PosedLoses ==
  ASSUME SeatTypeOK, NEW card, cards' = Append(cards, card)
  PROVE  PendingLoses
<1>1. /\ DOMAIN cards \subseteq DOMAIN cards'
      /\ \A i \in DOMAIN cards : cards'[i] = cards[i]
  <2>1. cards \in Seq(CardRows) /\ Len(cards) \in Nat
    BY DEF SeatTypeOK
  <2> QED BY <2>1
<1> QED BY <1>1 DEF PendingLoses, Pending

LEMMA SettledLoses ==
  ASSUME SeatInv, NEW i \in Pending, NEW state \in {"answered", "timeout", "withdrawn"},
         cards' = Settled(i, state), now' = now
  PROVE  PendingLoses
<1>1. /\ DOMAIN cards' = DOMAIN cards
      /\ \A k \in DOMAIN cards \ {i} : cards'[k] = cards[k]
      /\ cards'[i].kind = cards[i].kind /\ Pending' = Pending \ {i}
  BY SettledSeen
<1> QED BY <1>1 DEF PendingLoses

LEMMA SeatActsLose ==
  ASSUME SeatInv, SeatActs, now' = now
  PROVE  PendingLoses
<1>1. SeatTypeOK
  BY DEF SeatInv
<1>2. CASE ApprovalPosed \/ QuestionPosed \/ FloorPosed
  <2>1. PICK card : cards' = Append(cards, card)
    BY <1>2 DEF ApprovalPosed, QuestionPosed, FloorPosed, Pose
  <2> QED BY <1>1, <2>1, PosedLoses
<1>3. CASE TurnBegins \/ TurnEnds \/ ActReturns
  <2>1. cards' = cards
    BY <1>3 DEF TurnBegins, TurnEnds, ActReturns
  <2> QED BY <2>1 DEF PendingLoses, Pending
<1>4. CASE Aborted \/ RunsOut \/ \E i \in Pending : Answer(i)
  <2>1. PICK i \in Pending : \E state \in {"answered", "timeout", "withdrawn"} : cards' = Settled(i, state)
    BY <1>4 DEF Aborted, RunsOut, Answer
  <2> QED BY <2>1, SettledLoses
<1>5. CASE Extends
  <2>1. PICK i \in Pending : \E at : cards' = [cards EXCEPT ![i] = MovedTo(@, at)]
    BY <1>5 DEF Extends
  <2>2. PICK at : cards' = [cards EXCEPT ![i] = MovedTo(@, at)]
    BY <2>1
  <2>3. i \in DOMAIN cards /\ cards[i] \in CardRows
    BY <1>1, CardsAre DEF Pending
  <2>4. MovedTo(cards[i], at).kind = cards[i].kind /\ MovedTo(cards[i], at).state = cards[i].state
    BY <2>3 DEF MovedTo, CardRows
  <2>5. DOMAIN cards' = DOMAIN cards /\ \A k \in DOMAIN cards : cards'[k].kind = cards[k].kind /\ cards'[k].state = cards[k].state
    BY <2>2, <2>3, <2>4
  <2> QED BY <2>5 DEF PendingLoses, Pending
<1>6. CASE StopsNow
  <2> DEFINE gone(i) == [cards[i] EXCEPT !.state = "withdrawn", !.settledAt = now]
  <2>1. cards' = [i \in DOMAIN cards |-> IF i \in Pending THEN gone(i) ELSE cards[i]]
    BY <1>6 DEF StopsNow
  <2>2. \A i \in DOMAIN cards : gone(i).kind = cards[i].kind /\ gone(i).state = "withdrawn"
    BY <1>1, CardsAre DEF CardRows
  <2> HIDE DEF gone
  <2>3. DOMAIN cards' = DOMAIN cards /\ \A k \in DOMAIN cards : cards'[k].kind = cards[k].kind /\ k \notin Pending'
    BY <2>1, <2>2 DEF Pending
  <2> QED BY <2>3 DEF PendingLoses
<1> QED BY <1>2, <1>3, <1>4, <1>5, <1>6 DEF SeatActs, Doors

-----------------------------------------------------------------------------
(* The cards on the page *)

\* The seat acts, or nothing of the cards does.
LEMMA SeatKeepsThePage ==
  ASSUME SeatInv, CardsInv, PendingLoses, SameCards, UNCHANGED <<polls, presses>>
  PROVE  CardsInv'
<1>1. PageKnowsTheCards'
  BY DEF CardsInv, PageKnowsTheCards, SameCards, PendingLoses
<1>2. PressesAreTold'
  BY DEF CardsInv, PageKnowsTheCards, PressesAreTold, PendingLoses
<1>3. CardsComeBack'
  BY DEF CardsInv, PageKnowsTheCards, CardsComeBack, SameCards, PendingLoses
<1>4. StatesAgree'
  <2>1. \A p \in polls : p.pending \cap Pending' \subseteq p.pending \cap Pending
    BY DEF CardsInv, StatesAgree, PendingLoses
  <2>2. page.listed \cap Pending' \subseteq page.listed \cap Pending
    BY DEF CardsInv, PageKnowsTheCards, PendingLoses
  <2> QED BY <2>1, <2>2 DEF CardsInv, StatesAgree, SameCards, PendingLoses
<1> QED BY <1>1, <1>2, <1>3, <1>4 DEF CardsInv

LEMMA PressKeepsThePage ==
  ASSUME SeatInv, CardsInv, NEW i \in DOMAIN cards, Press(i), now' = now
  PROVE  CardsInv'
<1>1. PICK outcome \in {"settled", "refused", "gone"} :
        /\ (outcome = "gone") <=> i \notin Pending
        /\ outcome = "refused" => cards[i].kind \in {"form", "floor"}
        /\ IF outcome = "settled" THEN Answer(i) ELSE UNCHANGED seatVars
        /\ presses' = presses \cup {[card |-> i, outcome |-> outcome, onPage |-> TRUE]}
  BY DEF Press
<1>2. UNCHANGED <<page, polls>>
  BY DEF Press
<1>3. PendingLoses /\ (outcome # "refused" => i \notin Pending')
  <2>1. CASE outcome = "settled"
    <3>1. i \in Pending /\ cards' = Settled(i, "answered")
      BY <1>1, <2>1 DEF Answer
    <3>2. Pending' = Pending \ {i}
      BY <3>1, SettledSeen
    <3> QED BY <3>1, <3>2, SettledLoses
  <2>2. CASE outcome # "settled"
    <3>1. cards' = cards
      BY <1>1, <2>2 DEF seatVars
    <3> QED BY <1>1, <2>2, <3>1 DEF PendingLoses, Pending
  <2> QED BY <2>1, <2>2
<1>4. PageKnowsTheCards'
  BY <1>1, <1>2, <1>3 DEF CardsInv, PageKnowsTheCards, PendingLoses
<1>5. PressesAreTold'
  BY <1>1, <1>3 DEF CardsInv, PageKnowsTheCards, PressesAreTold, PendingLoses
<1>6. CardsComeBack'
  BY <1>2, <1>3 DEF CardsInv, PageKnowsTheCards, CardsComeBack, PendingLoses
<1>7. StatesAgree'
  <2>1. \A p \in polls : p.pending \cap Pending' \subseteq p.pending \cap Pending
    BY <1>3 DEF CardsInv, StatesAgree, PendingLoses
  <2>2. page.listed \cap Pending' \subseteq page.listed \cap Pending
    BY <1>3 DEF CardsInv, PageKnowsTheCards, PendingLoses
  <2> QED BY <1>2, <1>3, <2>1, <2>2 DEF CardsInv, StatesAgree, PendingLoses
<1> QED BY <1>4, <1>5, <1>6, <1>7 DEF CardsInv

LEMMA PollAnsweredIsNewest ==
  ASSUME PageTypeOK, CardsInv, PollAnswered, UNCHANGED seatVars
  PROVE  CardsInv'
<1> DEFINE poll == [number |-> page'.asked, upTo |-> Len(feed), posts |-> Forum, pending |-> Pending]
<1>1. /\ page \in Pages /\ page' = [page EXCEPT !.asked = @ + 1] /\ polls' = polls \cup {poll}
      /\ presses' = presses /\ cards' = cards
  BY DEF PageTypeOK, PollAnswered, seatVars
<1>2. /\ page'.asked = page.asked + 1 /\ page'.rendered = page.rendered /\ page'.listed = page.listed
      /\ page'.cards = page.cards /\ page'.words = page.words /\ page.asked \in Nat /\ page.rendered \in Nat
  BY ONLY <1>1 DEF Pages
<1>3. poll.number = page.asked + 1 /\ poll.pending = Pending /\ Pending' = Pending
  BY <1>1, <1>2 DEF Pending
<1> HIDE DEF poll
<1>4. PageKnowsTheCards' /\ PressesAreTold' /\ CardsComeBack'
  BY <1>1, <1>2, <1>3 DEF CardsInv, PageKnowsTheCards, PressesAreTold, CardsComeBack
<1>5. \A p \in polls : p.number \in Nat
  BY DEF PageTypeOK, States
<1>6. StatesAgree'
  <2>1. /\ page.rendered <= page.asked
        /\ \A p \in polls :
             /\ p.number <= page.asked /\ p.pending \subseteq DOMAIN cards
             /\ p.number >= page.rendered => page.listed \cap Pending \subseteq p.pending
             /\ \A q \in polls : p.number <= q.number => p.pending \cap Pending \subseteq q.pending
    BY DEF CardsInv, StatesAgree
  <2>2. Pending \subseteq DOMAIN cards
    BY DEF Pending
  <2>3. \A p \in polls' : p.number <= page'.asked /\ p.pending \subseteq DOMAIN cards
    BY <1>1, <1>2, <1>3, <1>5, <2>1, <2>2
  <2>4. \A p \in polls' : p.number >= page.rendered => page.listed \cap Pending \subseteq p.pending
    BY <1>1, <1>3, <2>1
  <2>5. \A p, q \in polls' : p.number <= q.number => p.pending \cap Pending \subseteq q.pending
    <3> SUFFICES ASSUME NEW p \in polls', NEW q \in polls', p.number <= q.number
                 PROVE  p.pending \cap Pending \subseteq q.pending
      OBVIOUS
    <3>1. CASE q = poll
      BY <1>3, <3>1
    <3>2. CASE q # poll
      <4>1. q \in polls /\ q.number <= page.asked
        BY <1>1, <2>1, <3>2
      <4>2. p # poll
        BY <1>2, <1>3, <1>5, <4>1
      <4> QED BY <1>1, <2>1, <4>1, <4>2
    <3> QED BY <3>1, <3>2
  <2> QED BY <1>1, <1>2, <1>3, <2>1, <2>3, <2>4, <2>5 DEF StatesAgree
<1> QED BY <1>4, <1>6 DEF CardsInv

\* What a poll that arrives makes of the page's cards.
LEMMA RenderedSeen ==
  ASSUME PageTypeOK, NEW poll \in polls,
         page' = Shown([Rendered(poll.pending) EXCEPT !.rendered = poll.number,
                                                     !.polledTo = IF poll.upTo > @ THEN poll.upTo ELSE @],
                       poll.posts)
  PROVE  /\ page' \in Pages
         /\ page'.listed = poll.pending /\ page'.asked = page.asked /\ page'.rendered = poll.number
         /\ page'.cards = (IF poll.pending = page.listed THEN page.cards ELSE poll.pending)
         /\ page'.words = (IF poll.pending = page.listed THEN page.words ELSE Carried(poll.pending))
         /\ page'.lastSeq = page.lastSeq /\ page'.lines = page.lines /\ page'.finished = page.finished
         /\ page'.polledTo = (IF poll.upTo > page.polledTo THEN poll.upTo ELSE page.polledTo)
         /\ page'.shown = page.shown \cup poll.posts
<1>1. page \in Pages /\ poll \in States
  BY DEF PageTypeOK
<1>2. poll.number \in Nat /\ poll.upTo \in Nat /\ poll.posts \in SUBSET Nat /\ poll.pending \in SUBSET Nat
  BY <1>1 DEF States
<1>3. Carried(poll.pending) \in SUBSET Nat
  BY <1>1 DEF Carried, Pages
<1> DEFINE now1 == Rendered(poll.pending)
<1>4. /\ now1 \in Pages /\ now1.listed = poll.pending
      /\ now1.asked = page.asked /\ now1.lastSeq = page.lastSeq /\ now1.lines = page.lines
      /\ now1.finished = page.finished /\ now1.polledTo = page.polledTo /\ now1.shown = page.shown
      /\ now1.cards = (IF poll.pending = page.listed THEN page.cards ELSE poll.pending)
      /\ now1.words = (IF poll.pending = page.listed THEN page.words ELSE Carried(poll.pending))
  <2> DEFINE words == Carried(poll.pending)
  <2>1. words \in SUBSET Nat
    BY <1>3
  <2>2. now1 = IF poll.pending = page.listed THEN page
               ELSE [page EXCEPT !.listed = poll.pending, !.cards = poll.pending, !.words = words]
    BY DEF Rendered
  <2> HIDE DEF words, now1
  <2>3. /\ now1 \in Pages /\ now1.listed = poll.pending
        /\ now1.asked = page.asked /\ now1.lastSeq = page.lastSeq /\ now1.lines = page.lines
        /\ now1.finished = page.finished /\ now1.polledTo = page.polledTo /\ now1.shown = page.shown
        /\ now1.cards = (IF poll.pending = page.listed THEN page.cards ELSE poll.pending)
        /\ now1.words = (IF poll.pending = page.listed THEN page.words ELSE words)
    BY ONLY <1>1, <1>2, <2>1, <2>2 DEF Pages
  <2> QED BY <2>3 DEF words
<1>5. page' = Shown([now1 EXCEPT !.rendered = poll.number,
                                 !.polledTo = IF poll.upTo > @ THEN poll.upTo ELSE @], poll.posts)
  OBVIOUS
<1> HIDE DEF now1
<1> DEFINE now2 == [now1 EXCEPT !.rendered = poll.number, !.polledTo = IF poll.upTo > @ THEN poll.upTo ELSE @]
<1>6. /\ now2 \in Pages /\ now2.rendered = poll.number /\ now2.shown = now1.shown
      /\ now2.polledTo = (IF poll.upTo > now1.polledTo THEN poll.upTo ELSE now1.polledTo)
      /\ now2.listed = now1.listed /\ now2.cards = now1.cards /\ now2.words = now1.words /\ now2.asked = now1.asked
      /\ now2.lastSeq = now1.lastSeq /\ now2.lines = now1.lines /\ now2.finished = now1.finished
  BY ONLY <1>2, <1>4 DEF Pages
<1>7. page' = [now2 EXCEPT !.shown = @ \cup poll.posts]
  BY <1>5 DEF Shown
<1> HIDE DEF now2
<1>8. /\ page' \in Pages /\ page'.shown = now2.shown \cup poll.posts
      /\ page'.rendered = now2.rendered /\ page'.polledTo = now2.polledTo
      /\ page'.listed = now2.listed /\ page'.cards = now2.cards /\ page'.words = now2.words /\ page'.asked = now2.asked
      /\ page'.lastSeq = now2.lastSeq /\ page'.lines = now2.lines /\ page'.finished = now2.finished
  BY ONLY <1>2, <1>6, <1>7 DEF Pages
<1> QED BY <1>4, <1>6, <1>8

LEMMA PollArrivesAgrees ==
  ASSUME PageTypeOK, CardsInv, PollArrives, UNCHANGED seatVars
  PROVE  /\ CardsInv'
         /\ page.words \cap Pending' \subseteq page'.words \/ page'.rendered < page.rendered
<1>1. PICK poll \in polls :
       /\ polls' = polls \ {poll}
       /\ page' = Shown([Rendered(poll.pending) EXCEPT !.rendered = poll.number,
                                                       !.polledTo = IF poll.upTo > @ THEN poll.upTo ELSE @],
                       poll.posts)
       /\ presses' = IF poll.pending = page.listed THEN presses
                     ELSE {[press EXCEPT !.onPage = FALSE] : press \in presses}
  BY DEF PollArrives
<1>2. /\ page'.listed = poll.pending /\ page'.asked = page.asked /\ page'.rendered = poll.number
      /\ page'.cards = (IF poll.pending = page.listed THEN page.cards ELSE poll.pending)
      /\ page'.words = (IF poll.pending = page.listed THEN page.words ELSE Carried(poll.pending))
  BY <1>1, RenderedSeen
<1>3. cards' = cards /\ Pending' = Pending
  BY DEF seatVars, Pending
<1>4. /\ page.rendered <= page.asked
      /\ \A p \in polls :
           /\ p.number <= page.asked /\ p.pending \subseteq DOMAIN cards
           /\ p.number >= page.rendered => page.listed \cap Pending \subseteq p.pending
           /\ \A q \in polls : p.number <= q.number => p.pending \cap Pending \subseteq q.pending
  BY DEF CardsInv, StatesAgree
<1>5. /\ page.listed \subseteq DOMAIN cards /\ page.cards \subseteq page.listed
      /\ page.words \subseteq page.listed /\ page.listed \cap Pending \subseteq page.cards
      /\ \A press \in presses : press.card \in DOMAIN cards
  BY DEF CardsInv, PageKnowsTheCards, CardsComeBack
<1>6. \A press \in presses' : \E old \in presses : press.card = old.card /\ press.outcome = old.outcome
  <2>1. \A old \in presses : LET new == [old EXCEPT !.onPage = FALSE]
                             IN  new.card = old.card /\ new.outcome = old.outcome
    BY DEF PageTypeOK, Outcomes
  <2> QED BY <1>1, <2>1
<1>7. PressesAreTold' /\ \A press \in presses' : press.card \in DOMAIN cards
  BY <1>3, <1>5, <1>6 DEF CardsInv, PressesAreTold
<1>8. PageKnowsTheCards'
  BY <1>2, <1>3, <1>4, <1>5, <1>7 DEF PageKnowsTheCards, Carried
<1>9. CardsComeBack'
  BY <1>2, <1>3, <1>5 DEF CardsComeBack
<1>10. StatesAgree'
  BY <1>1, <1>2, <1>3, <1>4 DEF StatesAgree
<1>11. page.words \cap Pending' \subseteq page'.words \/ page'.rendered < page.rendered
  <2>1. CASE poll.pending = page.listed
    BY <1>2, <2>1
  <2>2. CASE poll.pending # page.listed /\ poll.number >= page.rendered
    BY <1>2, <1>3, <1>4, <1>5, <2>2 DEF Carried
  <2>3. CASE ~(poll.number >= page.rendered)
    <3>1. poll.number \in Nat /\ page.rendered \in Nat
      BY DEF PageTypeOK, States, Pages
    <3> QED BY <1>2, <2>3, <3>1
  <2> QED BY <2>1, <2>2, <2>3
<1> QED BY <1>7, <1>8, <1>9, <1>10, <1>11 DEF CardsInv

LEMMA TypesKeeps ==
  ASSUME PageTypeOK, CardsInv, Types
  PROVE  CardsInv' /\ page.words \cap Pending' \subseteq page'.words
<1>1. PICK i \in page.cards : page' = [page EXCEPT !.words = @ \cup {i}]
  BY DEF Types
<1>2. page \in Pages /\ UNCHANGED <<cards, polls, presses>>
  BY DEF PageTypeOK, Types, seatVars
<1>3. /\ page'.words = page.words \cup {i} /\ page'.listed = page.listed /\ page'.cards = page.cards
      /\ page'.asked = page.asked /\ page'.rendered = page.rendered
  BY ONLY <1>1, <1>2 DEF Pages
<1> QED BY <1>2, <1>3 DEF CardsInv, PageKnowsTheCards, StatesAgree, PressesAreTold, CardsComeBack, Pending

LEMMA PressReturnsKeeps ==
  ASSUME PageTypeOK, CardsInv, PressReturns, UNCHANGED seatVars
  PROVE  CardsInv' /\ page.words \cap Pending' \subseteq page'.words
<1>1. PICK press \in presses :
       /\ presses' = presses \ {press}
       /\ page' = IF press.onPage /\ Removes(press)
                  THEN [page EXCEPT !.cards = @ \ {press.card}, !.words = @ \ {press.card}] ELSE page
  BY DEF PressReturns
<1>2. page \in Pages /\ UNCHANGED <<cards, polls>> /\ press.outcome \in {"settled", "refused", "gone"}
  BY DEF PageTypeOK, PressReturns, seatVars, Outcomes
<1>3. Pending' = Pending
  BY <1>2 DEF Pending
<1>4. CASE page' = page
  BY <1>1, <1>2, <1>3, <1>4 DEF CardsInv, PageKnowsTheCards, StatesAgree, PressesAreTold, CardsComeBack
<1>5. CASE Removes(press) /\ page' = [page EXCEPT !.cards = @ \ {press.card}, !.words = @ \ {press.card}]
  <2> DEFINE i == press.card
  <2>1. i \notin Pending
    BY <1>2, <1>5 DEF CardsInv, PressesAreTold, Removes
  <2>2. page' = [page EXCEPT !.cards = @ \ {i}, !.words = @ \ {i}]
    BY <1>5
  <2> HIDE DEF i
  <2>3. /\ page'.words = page.words \ {i} /\ page'.listed = page.listed /\ page'.cards = page.cards \ {i}
        /\ page'.asked = page.asked /\ page'.rendered = page.rendered
    BY ONLY <1>2, <2>2 DEF Pages
  <2> QED BY <1>1, <1>2, <1>3, <2>1, <2>3 DEF CardsInv, PageKnowsTheCards, StatesAgree, PressesAreTold, CardsComeBack
<1> QED BY <1>1, <1>4, <1>5

LEMMA PressFailsKeeps ==
  ASSUME CardsInv, PressFails, UNCHANGED seatVars
  PROVE  CardsInv'
<1>1. presses' \subseteq presses /\ UNCHANGED <<cards, page, polls>>
  BY DEF PressFails, seatVars
<1> QED BY <1>1 DEF CardsInv, PageKnowsTheCards, StatesAgree, PressesAreTold, CardsComeBack, Pending

-----------------------------------------------------------------------------
(* The feed and the stream *)

LEMMA FeedTypes ==
  ASSUME PageTypeOK
  PROVE  /\ Len(feed) \in Nat /\ DOMAIN feed = 1..Len(feed)
         /\ stream.open \in BOOLEAN /\ stream.rows \in Seq(Nat) /\ Len(stream.rows) \in Nat
         /\ OnTheWay \in Nat /\ OnTheWay \in {Len(stream.rows), Len(stream.rows) - 1}
         /\ page.lastSeq \in Nat /\ page.lines \in Seq(Nat) /\ page.polledTo \in Nat /\ page.shown \in SUBSET Nat
         /\ \A p \in polls : p.upTo \in Nat
<1>1. feed \in Seq({"act", "post", "end"}) /\ stream \in Streams /\ page \in Pages
  BY DEF PageTypeOK
<1>2. stream.open \in BOOLEAN /\ stream.rows \in Seq(Nat) /\ Len(stream.rows) \in Nat
  BY <1>1 DEF Streams
<1>3. stream.rows # <<>> => Len(stream.rows) > 0
  BY <1>2
<1>4. OnTheWay \in Nat /\ OnTheWay \in {Len(stream.rows), Len(stream.rows) - 1}
  BY <1>2, <1>3 DEF OnTheWay
<1>5. page.lastSeq \in Nat /\ page.lines \in Seq(Nat) /\ page.polledTo \in Nat /\ page.shown \in SUBSET Nat
  BY ONLY <1>1 DEF Pages
<1> QED BY <1>1, <1>2, <1>4, <1>5 DEF PageTypeOK, States

\* Nothing of the feed moves.
LEMMA FeedStays ==
  ASSUME FeedInv, SameLines, UNCHANGED <<feed, closed, stream, polls>>
  PROVE  FeedInv'
<1>1. RowsRunOn' /\ StreamTakesUp'
  BY DEF FeedInv, RowsRunOn, StreamTakesUp, OnTheWay, SameLines
<1>2. LinesAreRows' /\ LinesAreTheFeeds'
  BY DEF FeedInv, LinesAreRows, LinesAreTheFeeds, SameLines, Forum
<1> QED BY <1>1, <1>2 DEF FeedInv

\* What the page has of the feed is as true of a feed gone on.
LEMMA LinesStay ==
  ASSUME PageTypeOK, LinesAreRows, LinesAreTheFeeds, page' = page, polls' = polls,
         Len(feed') \in Nat, Len(feed') >= Len(feed), Forum' \cap (1..Len(feed)) = Forum
  PROVE  LinesAreRows' /\ LinesAreTheFeeds'
<1>1. /\ Len(feed) \in Nat /\ page.lines \in Seq(Nat) /\ page.polledTo \in Nat
      /\ \A p \in polls : p.upTo \in Nat
  BY FeedTypes
<1>2. /\ \A k \in DOMAIN page.lines : page.lines[k] \in 1..Len(feed)
      /\ page.polledTo <= Len(feed)
      /\ \A p \in polls : p.upTo <= Len(feed) /\ p.posts = Forum \cap 1..p.upTo
  BY DEF LinesAreRows
<1>3. \A p \in polls : p.posts = Forum' \cap 1..p.upTo
  <2> SUFFICES ASSUME NEW p \in polls PROVE p.posts = Forum' \cap 1..p.upTo
    OBVIOUS
  <2>1. 1..p.upTo \subseteq 1..Len(feed)
    BY <1>1, <1>2
  <2> QED BY <1>2, <2>1
<1>4. LinesAreRows'
  BY <1>1, <1>2, <1>3 DEF LinesAreRows
<1>5. ToSet(page.lines) \cup 1..page.polledTo \subseteq 1..Len(feed)
  BY <1>1, <1>2 DEF ToSet
<1>6. Forum' \cap (ToSet(page.lines) \cup 1..page.polledTo) = page.shown
  BY <1>5 DEF LinesAreTheFeeds
<1>7. \A k \in 1 .. Len(page.lines) - 1 :
         \/ page.lines[k + 1] = page.lines[k] + 1
         \/ page.lines[k + 1] > page.lines[k] /\ Len(feed') >= page.lines[k + 1] + HistoryCap - 1
  <2> SUFFICES ASSUME NEW k \in 1 .. Len(page.lines) - 1
               PROVE  \/ page.lines[k + 1] = page.lines[k] + 1
                      \/ page.lines[k + 1] > page.lines[k] /\ Len(feed') >= page.lines[k + 1] + HistoryCap - 1
    OBVIOUS
  <2>1. k + 1 \in DOMAIN page.lines /\ page.lines[k + 1] \in Nat
    <3>1. Len(page.lines) \in Nat /\ DOMAIN page.lines = 1..Len(page.lines)
      BY <1>1
    <3>2. k + 1 \in DOMAIN page.lines
      BY ONLY <3>1, k \in 1 .. Len(page.lines) - 1
    <3> QED BY <1>1, <3>2
  <2>2. \/ page.lines[k + 1] = page.lines[k] + 1
        \/ page.lines[k + 1] > page.lines[k] /\ Len(feed) >= page.lines[k + 1] + HistoryCap - 1
    BY DEF LinesAreTheFeeds
  <2> QED BY <1>1, <2>1, <2>2, FreshRowsAreRemembered
<1> QED BY <1>4, <1>6, <1>7 DEF LinesAreTheFeeds

\* A row or the closing is told to an open stream.
LEMMA ToldOn ==
  ASSUME PageTypeOK, RowsRunOn, ~closed, stream.open, NEW row \in Nat,
         stream' = [stream EXCEPT !.rows = Append(@, row)]
  PROVE  /\ stream' \in Streams /\ stream'.open /\ OnTheWay = Len(stream.rows)
         /\ Len(stream'.rows) = Len(stream.rows) + 1 /\ stream'.rows # <<>>
         /\ \A k \in 1..Len(stream.rows) : stream'.rows[k] = stream.rows[k]
         /\ stream'.rows[Len(stream'.rows)] = row
<1>1. stream \in Streams /\ stream.rows \in Seq(Nat) /\ Len(stream.rows) \in Nat
  BY FeedTypes DEF PageTypeOK
<1> DEFINE rows == stream.rows
<1>2. stream'.rows = Append(rows, row) /\ stream'.open = stream.open /\ Append(rows, row) \in Seq(Nat)
  <2>1. Append(rows, row) \in Seq(Nat)
    BY <1>1
  <2>2. stream' = [stream EXCEPT !.rows = Append(rows, row)]
    OBVIOUS
  <2>3. stream.open \in BOOLEAN /\ DOMAIN stream = {"open", "rows"}
    BY <1>1 DEF Streams
  <2> QED BY <2>1, <2>2, <2>3
<1>3. stream' \in Streams
  BY <1>1, <1>2 DEF Streams
<1>4. OnTheWay = Len(stream.rows)
  BY FeedTypes DEF RowsRunOn
<1>5. /\ Len(Append(rows, row)) = Len(rows) + 1 /\ Append(rows, row) # <<>>
      /\ \A k \in 1..Len(rows) : Append(rows, row)[k] = rows[k]
      /\ Append(rows, row)[Len(rows) + 1] = row
  BY <1>1
<1> QED BY <1>2, <1>3, <1>4, <1>5

LEMMA PublishKeeps ==
  ASSUME PageTypeOK, FeedInv, Publish
  PROVE  FeedInv' /\ feed' \in Seq({"act", "post", "end"}) /\ stream' \in Streams
<1> DEFINE n == Len(feed)
<1>1. PICK kind \in {"act", "post", "end"} : feed' = Append(feed, kind)
  BY DEF Publish
<1>2. /\ feed \in Seq({"act", "post", "end"}) /\ n \in Nat /\ stream \in Streams
      /\ ~closed /\ UNCHANGED <<closed, page, polls>>
  BY FeedTypes DEF PageTypeOK, Publish
<1>3. /\ feed' \in Seq({"act", "post", "end"}) /\ Len(feed') = n + 1
      /\ DOMAIN feed' = 1..(n + 1) /\ \A k \in 1..n : feed'[k] = feed[k]
  BY <1>1, <1>2
<1>4. Forum' \cap (1..n) = Forum
  BY <1>2, <1>3, FeedTypes DEF Forum
<1>5. LinesAreRows' /\ LinesAreTheFeeds'
  BY <1>2, <1>3, <1>4, LinesStay DEF FeedInv
<1>6. RowsRunOn /\ StreamTakesUp
  BY DEF FeedInv
<1>7. CASE ~stream.open
  <2>1. stream' = stream /\ stream.rows = <<>>
    BY <1>6, <1>7 DEF Publish, RowsRunOn
  <2>2. OnTheWay' = 0 /\ Len(stream.rows) = 0
    BY <2>1 DEF OnTheWay
  <2>3. RowsRunOn'
    BY <1>3, <2>1, <2>2, <1>2 DEF RowsRunOn
  <2>4. StreamTakesUp'
    BY <2>1, <1>7 DEF StreamTakesUp
  <2> QED BY <1>2, <1>3, <1>5, <2>1, <2>3, <2>4 DEF FeedInv
<1>8. CASE stream.open
  <2>1. stream' = [stream EXCEPT !.rows = Append(@, n + 1)]
    BY <1>3, <1>8 DEF Publish
  <2>2. /\ stream' \in Streams /\ stream'.open /\ OnTheWay = Len(stream.rows)
        /\ Len(stream'.rows) = Len(stream.rows) + 1 /\ stream'.rows # <<>>
        /\ \A k \in 1..Len(stream.rows) : stream'.rows[k] = stream.rows[k]
        /\ stream'.rows[Len(stream'.rows)] = n + 1
    <3> DEFINE row == n + 1
    <3>1. row \in Nat
      BY <1>2
    <3>2. stream' = [stream EXCEPT !.rows = Append(@, row)]
      BY <2>1
    <3> HIDE DEF row
    <3>3. /\ stream' \in Streams /\ stream'.open /\ OnTheWay = Len(stream.rows)
          /\ Len(stream'.rows) = Len(stream.rows) + 1 /\ stream'.rows # <<>>
          /\ \A k \in 1..Len(stream.rows) : stream'.rows[k] = stream.rows[k]
          /\ stream'.rows[Len(stream'.rows)] = row
      BY <1>2, <1>6, <1>8, <3>1, <3>2, ToldOn
    <3> QED BY <3>3 DEF row
  <2>3. OnTheWay \in Nat /\ OnTheWay <= n /\ \A k \in 1..OnTheWay : stream.rows[k] = n - OnTheWay + k
    BY <1>6, FeedTypes DEF RowsRunOn
  <2>4. OnTheWay' = OnTheWay + 1
    BY <1>2, <2>2 DEF OnTheWay, Closing
  <2>5. \A k \in 1..(OnTheWay + 1) : stream'.rows[k] = (n + 1) - (OnTheWay + 1) + k
    <3> SUFFICES ASSUME NEW k \in 1..(OnTheWay + 1) PROVE stream'.rows[k] = (n + 1) - (OnTheWay + 1) + k
      OBVIOUS
    <3>1. CASE k \in 1..OnTheWay
      <4>1. stream'.rows[k] = n - OnTheWay + k
        BY <2>2, <2>3, <3>1
      <4> QED BY <1>2, <2>3, <3>1, <4>1
    <3>2. CASE k = OnTheWay + 1
      <4>1. stream'.rows[k] = n + 1
        BY <2>2, <3>2
      <4> QED BY <1>2, <2>3, <3>2, <4>1
    <3> QED BY <2>3, <3>1, <3>2
  <2>6. RowsRunOn'
    <3>1. OnTheWay' <= Len(feed') /\ ~(OnTheWay' < Len(stream'.rows))
      BY <1>2, <1>3, <2>2, <2>3, <2>4
    <3>2. \A k \in 1..OnTheWay' : stream'.rows[k] = Len(feed') - OnTheWay' + k
      BY <1>3, <2>4, <2>5
    <3> QED BY <2>2, <3>1, <3>2 DEF RowsRunOn
  <2>7. StreamTakesUp'
    BY <1>2, <1>3, <1>6, <1>8, <2>3, <2>4, FeedTypes, FreshRowsAreRemembered DEF StreamTakesUp
  <2> QED BY <1>3, <1>5, <2>2, <2>6, <2>7 DEF FeedInv
<1> QED BY <1>7, <1>8, <1>2

LEMMA ClosesKeeps ==
  ASSUME PageTypeOK, FeedInv, Closes
  PROVE  FeedInv' /\ closed' \in BOOLEAN /\ stream' \in Streams
<1>1. /\ ~closed /\ closed' = TRUE /\ UNCHANGED <<feed, page, polls>> /\ stream \in Streams
      /\ Len(feed) \in Nat /\ RowsRunOn /\ StreamTakesUp
  BY FeedTypes DEF PageTypeOK, Closes, FeedInv
<1>2. LinesAreRows' /\ LinesAreTheFeeds'
  BY <1>1 DEF FeedInv, LinesAreRows, LinesAreTheFeeds, Forum
<1>3. CASE ~stream.open
  <2>1. stream' = stream
    BY <1>3 DEF Closes
  <2> QED BY <1>1, <1>2, <1>3, <2>1 DEF FeedInv, RowsRunOn, StreamTakesUp, OnTheWay
<1>4. CASE stream.open
  <2>1. stream' = [stream EXCEPT !.rows = Append(@, Closing)] /\ Closing \in Nat
    BY <1>4 DEF Closes, Closing
  <2>2. /\ stream' \in Streams /\ stream'.open /\ OnTheWay = Len(stream.rows)
        /\ Len(stream'.rows) = Len(stream.rows) + 1 /\ stream'.rows # <<>>
        /\ \A k \in 1..Len(stream.rows) : stream'.rows[k] = stream.rows[k]
        /\ stream'.rows[Len(stream'.rows)] = Closing
    BY <1>1, <1>4, <2>1, ToldOn
  <2>3. OnTheWay' = OnTheWay
    BY <2>2, FeedTypes DEF OnTheWay
  <2>4. RowsRunOn' /\ StreamTakesUp'
    BY <1>1, <1>4, <2>2, <2>3 DEF RowsRunOn, StreamTakesUp
  <2> QED BY <1>1, <1>2, <2>2, <2>4 DEF FeedInv
<1> QED BY <1>3, <1>4

\* What the server remembers runs up to the feed's last row.
LEMMA ReplayRunsOn ==
  ASSUME PageTypeOK, LinesAreRows
  PROVE  LET rows == Replay(page.lastSeq)
         IN  /\ rows \in Seq(Nat) /\ Len(rows) \in 0..Len(feed)
             /\ \A k \in 1..Len(rows) : rows[k] = Len(feed) - Len(rows) + k
             /\ page.lastSeq > 0 => LET next == Len(feed) - Len(rows) + 1
                                    IN  next <= page.lastSeq + 1 \/ Len(feed) >= next + HistoryCap - 1
<1> DEFINE seen == IF page.lastSeq > 0 THEN page.lastSeq ELSE Len(feed) - FreshRows
           past == IF seen > Forgotten THEN seen ELSE Forgotten
           rows == Replay(page.lastSeq)
<1>1. Len(feed) \in Nat /\ HistoryCap \in Nat /\ FreshRows \in Nat /\ page.lastSeq \in Nat
  BY FeedTypes, FreshRowsAreRemembered
<1>2. page.lastSeq <= Len(feed)
  <2>1. CASE page.lines # <<>>
    <3>1. page.lines \in Seq(Nat)
      BY FeedTypes
    <3>2. Len(page.lines) \in DOMAIN page.lines
      BY <2>1, <3>1
    <3> QED BY <1>1, <2>1, <3>2 DEF LinesAreRows
  <2>2. CASE page.lines = <<>>
    BY <1>1, <2>2 DEF LinesAreRows
  <2> QED BY <2>1, <2>2
<1>3. /\ Forgotten \in 0..Len(feed) /\ seen \in Int /\ seen <= Len(feed)
      /\ Forgotten = 0 \/ Forgotten = Len(feed) - HistoryCap
  BY <1>1, <1>2 DEF Forgotten
<1>4. past \in 0..Len(feed) /\ (past = seen \/ past = Forgotten) /\ (page.lastSeq > 0 => seen = page.lastSeq)
  BY <1>3
<1>5. page.lastSeq > 0 => past = page.lastSeq \/ past = Len(feed) - HistoryCap
  BY <1>1, <1>3
<1>6. rows = [k \in 1 .. Len(feed) - past |-> past + k]
  BY DEF Replay, HistoryAfter
<1> HIDE DEF past, rows, seen
<1>7. Len(feed) - past \in Nat /\ \A k \in 1 .. Len(feed) - past : past + k \in Nat
  BY <1>1, <1>4
<1>8. rows \in Seq(Nat) /\ Len(rows) = Len(feed) - past
  <2>1. rows \in [1 .. Len(feed) - past -> Nat]
    BY <1>6, <1>7
  <2> QED BY <1>6, <1>7, <2>1
<1>9. \A k \in 1..Len(rows) : rows[k] = Len(feed) - Len(rows) + k
  BY <1>1, <1>4, <1>6, <1>8
<1>10. page.lastSeq > 0 => \/ Len(feed) - Len(rows) + 1 <= page.lastSeq + 1
                           \/ Len(feed) >= Len(feed) - Len(rows) + 1 + HistoryCap - 1
  BY <1>1, <1>4, <1>5, <1>8
<1> QED BY <1>1, <1>4, <1>8, <1>9, <1>10 DEF rows

LEMMA ConnectsKeeps ==
  ASSUME PageTypeOK, FeedInv, Connects
  PROVE  FeedInv' /\ stream' \in Streams
<1> DEFINE rows == Replay(page.lastSeq)
<1>1. stream' = [open |-> TRUE, rows |-> rows] /\ UNCHANGED <<feed, closed, page, polls>>
  BY DEF Connects
<1>2. /\ rows \in Seq(Nat) /\ Len(rows) \in 0..Len(feed)
      /\ \A k \in 1..Len(rows) : rows[k] = Len(feed) - Len(rows) + k
      /\ page.lastSeq > 0 => \/ Len(feed) - Len(rows) + 1 <= page.lastSeq + 1
                             \/ Len(feed) >= Len(feed) - Len(rows) + 1 + HistoryCap - 1
  BY ReplayRunsOn DEF FeedInv
<1> HIDE DEF rows
<1>3. stream' \in Streams /\ stream'.open /\ stream'.rows = rows
  BY <1>1, <1>2 DEF Streams
<1>4. Len(feed) \in Nat /\ Len(rows) \in Nat /\ page.lastSeq \in Nat
  BY <1>2, FeedTypes
<1>5. OnTheWay' = Len(rows)
  <2>1. rows # <<>> => rows[Len(rows)] # 0
    <3>1. rows # <<>> => Len(rows) \in 1..Len(rows)
      BY <1>2
    <3> QED BY <1>2, <1>4, <3>1
  <2> QED BY <1>3, <2>1 DEF OnTheWay, Closing
<1>6. RowsRunOn'
  BY <1>1, <1>2, <1>3, <1>4, <1>5 DEF RowsRunOn
<1>7. StreamTakesUp'
  <2>1. page.lastSeq = 0 \/ page.lastSeq > 0
    BY <1>4
  <2> QED BY <1>1, <1>2, <1>5, <2>1 DEF StreamTakesUp
<1>8. LinesAreRows' /\ LinesAreTheFeeds'
  BY <1>1 DEF FeedInv, LinesAreRows, LinesAreTheFeeds, Forum
<1> QED BY <1>3, <1>6, <1>7, <1>8 DEF FeedInv

\* A stream that is gone has nothing on its way.
LEMMA GoneKeeps ==
  ASSUME PageTypeOK, stream' = NoStream, feed' = feed
  PROVE  RowsRunOn' /\ StreamTakesUp' /\ stream' \in Streams
<1>1. stream'.rows = <<>> /\ ~stream'.open /\ stream' \in Streams /\ Len(feed) \in Nat
  BY FeedTypes DEF NoStream, Streams
<1>2. OnTheWay' = 0 /\ Len(stream'.rows) = 0
  BY <1>1 DEF OnTheWay
<1> QED BY <1>1, <1>2 DEF RowsRunOn, StreamTakesUp

LEMMA DropsKeeps ==
  ASSUME PageTypeOK, FeedInv, Drops
  PROVE  FeedInv' /\ stream' \in Streams
<1>1. stream' = NoStream /\ UNCHANGED <<feed, closed, page, polls>>
  BY DEF Drops
<1>2. LinesAreRows' /\ LinesAreTheFeeds'
  BY <1>1 DEF FeedInv, LinesAreRows, LinesAreTheFeeds, Forum
<1> QED BY <1>1, <1>2, GoneKeeps DEF FeedInv

-----------------------------------------------------------------------------
(* A row arrives *)

\* What a row seen makes of the page.
LEMMA SeenIs ==
  ASSUME PageTypeOK, NEW row \in Nat, page' = Seen(row)
  PROVE  /\ page' \in Pages /\ SameCards
         /\ page'.lastSeq = row /\ page'.lines = Append(page.lines, row) /\ page'.polledTo = page.polledTo
         /\ page'.shown = page.shown \cup ({row} \cap Forum)
<1>1. page \in Pages /\ page.lines \in Seq(Nat) /\ page.finished \in BOOLEAN
  BY DEF PageTypeOK, Pages
<1> DEFINE ends == page.finished \/ feed[row] = "end"
           lines == Append(page.lines, row)
           posts == {row} \cap Forum
           seen == [page EXCEPT !.lastSeq = row, !.lines = lines, !.finished = ends]
<1>2. ends \in BOOLEAN /\ lines \in Seq(Nat) /\ posts \in SUBSET Nat
  BY <1>1
<1>3. page' = [seen EXCEPT !.shown = @ \cup posts]
  BY DEF Seen, Shown
<1> HIDE DEF ends, lines, posts
<1>4. /\ seen \in Pages /\ seen.lastSeq = row /\ seen.lines = lines /\ seen.polledTo = page.polledTo
      /\ seen.shown = page.shown /\ seen.listed = page.listed /\ seen.cards = page.cards
      /\ seen.words = page.words /\ seen.asked = page.asked /\ seen.rendered = page.rendered
  BY ONLY <1>1, <1>2, row \in Nat DEF Pages
<1> HIDE DEF seen
<1>5. /\ page' \in Pages /\ page'.lastSeq = seen.lastSeq /\ page'.lines = seen.lines /\ page'.polledTo = seen.polledTo
      /\ page'.shown = seen.shown \cup posts /\ page'.listed = seen.listed /\ page'.cards = seen.cards
      /\ page'.words = seen.words /\ page'.asked = seen.asked /\ page'.rendered = seen.rendered
  BY ONLY <1>2, <1>3, <1>4 DEF Pages
<1> QED BY <1>4, <1>5 DEF SameCards, lines, posts

LEMMA FinishedIs ==
  ASSUME PageTypeOK, page' = [page EXCEPT !.finished = TRUE]
  PROVE  page' \in Pages /\ SameCards /\ SameLines
<1>1. page \in Pages
  BY DEF PageTypeOK
<1>2. /\ page' \in Pages /\ page'.lastSeq = page.lastSeq /\ page'.lines = page.lines /\ page'.polledTo = page.polledTo
      /\ page'.shown = page.shown /\ page'.listed = page.listed /\ page'.cards = page.cards
      /\ page'.words = page.words /\ page'.asked = page.asked /\ page'.rendered = page.rendered
  BY ONLY <1>1, page' = [page EXCEPT !.finished = TRUE] DEF Pages
<1> QED BY <1>2 DEF SameCards, SameLines

\* The row at the head of the stream, and those behind it.
LEMMA HeadIs ==
  ASSUME PageTypeOK, RowsRunOn, stream.rows # <<>>
  PROVE  LET row == Head(stream.rows) rest == Tail(stream.rows)
         IN  /\ row \in Nat /\ rest \in Seq(Nat)
             /\ row = Closing \/ (row = Len(feed) - OnTheWay + 1 /\ OnTheWay >= 1 /\ row \in 1..Len(feed))
             /\ row # Closing /\ stream' = [stream EXCEPT !.rows = rest] =>
                    /\ stream' \in Streams /\ stream'.open = stream.open /\ OnTheWay' = OnTheWay - 1
                    /\ Len(rest) = Len(stream.rows) - 1
                    /\ stream'.rows = rest
                    /\ \A k \in 1..(OnTheWay - 1) : rest[k] = stream.rows[k + 1]
<1> DEFINE rows == stream.rows
           row == Head(rows)
           rest == Tail(rows)
<1>1. /\ rows \in Seq(Nat) /\ Len(rows) \in Nat /\ Len(rows) # 0 /\ Len(feed) \in Nat /\ OnTheWay \in Nat
      /\ OnTheWay \in {Len(rows), Len(rows) - 1} /\ stream \in Streams
  BY FeedTypes DEF PageTypeOK
<1>2. /\ row = rows[1] /\ row \in Nat /\ rest \in Seq(Nat) /\ Len(rest) = Len(rows) - 1
      /\ \A k \in 1..(Len(rows) - 1) : rest[k] = rows[k + 1]
  BY <1>1
<1>3. row = Closing \/ (row = Len(feed) - OnTheWay + 1 /\ OnTheWay >= 1 /\ row \in 1..Len(feed))
  <2>1. CASE OnTheWay = 0
    <3>1. Len(rows) = 1
      BY <1>1, <2>1
    <3> QED BY <1>1, <1>2, <2>1, <3>1 DEF OnTheWay
  <2>2. CASE OnTheWay >= 1
    <3>1. rows[1] = Len(feed) - OnTheWay + 1 /\ OnTheWay <= Len(feed)
      BY <1>1, <2>2 DEF RowsRunOn
    <3> QED BY <1>1, <1>2, <2>2, <3>1
  <2> QED BY <1>1, <2>1, <2>2
<1>4. ASSUME row # Closing, stream' = [stream EXCEPT !.rows = rest]
      PROVE  /\ stream' \in Streams /\ stream'.open = stream.open /\ stream'.rows = rest
             /\ OnTheWay' = OnTheWay - 1 /\ \A k \in 1..(OnTheWay - 1) : rest[k] = rows[k + 1]
  <2>1. stream' \in Streams /\ stream'.open = stream.open /\ stream'.rows = rest
    BY <1>1, <1>2, <1>4 DEF Streams
  <2>2. OnTheWay' = OnTheWay - 1
    <3> HIDE DEF rest, row
    <3>1. CASE Len(rows) = 1
      <4>1. rest = <<>> /\ Len(rest) = 0 /\ OnTheWay = 1
        <5>1. OnTheWay = 1
          BY <1>1, <1>3, <1>4, <3>1
        <5>2. Len(rest) = 0
          BY <1>1, <1>2, <3>1
        <5> QED BY <1>2, <5>1, <5>2
      <4>2. OnTheWay' = 0
        BY <2>1, <4>1 DEF OnTheWay
      <4> QED BY <4>1, <4>2
    <3>2. CASE Len(rows) > 1
      <4>1. rest # <<>> /\ rest[Len(rest)] = rows[Len(rows)]
        <5>1. Len(rest) \in 1..(Len(rows) - 1) /\ Len(rest) + 1 = Len(rows)
          BY <1>1, <1>2, <3>2
        <5>2. rest[Len(rest)] = rows[Len(rest) + 1]
          BY <1>2, <5>1
        <5> QED BY <5>1, <5>2
      <4> QED BY <1>1, <1>2, <2>1, <4>1 DEF OnTheWay
    <3> DEFINE length == Len(rows)
    <3>3. length \in Nat /\ length # 0
      BY <1>1
    <3> HIDE DEF length
    <3>4. length = 1 \/ length > 1
      BY <3>3
    <3> QED BY <3>1, <3>2, <3>4 DEF length
  <2>3. \A k \in 1..(OnTheWay - 1) : rest[k] = rows[k + 1]
    BY <1>1, <1>2
  <2> QED BY <2>1, <2>2, <2>3
<1> QED BY <1>2, <1>3, <1>4

\* The rows behind the head run on.
LEMMA RestRunsOn ==
  ASSUME PageTypeOK, RowsRunOn, stream.rows # <<>>, Head(stream.rows) # Closing,
         stream' = [stream EXCEPT !.rows = Tail(@)], UNCHANGED <<feed, closed>>
  PROVE  RowsRunOn' /\ stream' \in Streams /\ stream'.open = stream.open /\ OnTheWay' = OnTheWay - 1
<1> DEFINE rest == Tail(stream.rows)
<1>1. /\ Head(stream.rows) = Len(feed) - OnTheWay + 1 /\ OnTheWay >= 1
      /\ stream' \in Streams /\ stream'.open = stream.open /\ OnTheWay' = OnTheWay - 1
      /\ Len(rest) = Len(stream.rows) - 1 /\ stream'.rows = rest
      /\ \A k \in 1..(OnTheWay - 1) : rest[k] = stream.rows[k + 1]
  BY HeadIs
<1>2. OnTheWay \in Nat /\ Len(feed) \in Nat /\ Len(stream.rows) \in Nat
  BY FeedTypes
<1> HIDE DEF rest
<1>3. stream.open
  BY DEF RowsRunOn
<1>4. \A k \in 1..(OnTheWay - 1) : rest[k] = Len(feed) - (OnTheWay - 1) + k
  <2>1. \A k \in 1..(OnTheWay - 1) : k + 1 \in 1..OnTheWay /\ stream.rows[k + 1] = Len(feed) - OnTheWay + (k + 1)
    BY <1>2 DEF RowsRunOn
  <2> QED BY <1>1, <1>2, <2>1
<1>5. RowsRunOn'
  <2>1. OnTheWay <= Len(feed) /\ (OnTheWay < Len(stream.rows) => closed)
    BY DEF RowsRunOn
  <2>2. OnTheWay' <= Len(feed') /\ (OnTheWay' < Len(stream'.rows) => closed') /\ stream'.open
    BY <1>1, <1>2, <1>3, <2>1
  <2>3. \A k \in 1..OnTheWay' : stream'.rows[k] = Len(feed') - OnTheWay' + k
    BY <1>1, <1>4
  <2> QED BY <2>2, <2>3 DEF RowsRunOn
<1> QED BY <1>1, <1>5

\* A new row's line follows the last, or comes after what the server forgot.
LEMMA SeenKeepsLines ==
  ASSUME PageTypeOK, FeedInv, NEW row \in 1..Len(feed), page' = Seen(row), row > page.lastSeq,
         page.lastSeq = 0 \/ row <= page.lastSeq + 1 \/ Len(feed) >= row + HistoryCap - 1,
         UNCHANGED <<feed, polls>>
  PROVE  LinesAreRows' /\ LinesAreTheFeeds'
<1>1. /\ page'.lastSeq = row /\ page'.lines = Append(page.lines, row) /\ page'.polledTo = page.polledTo
      /\ page'.shown = page.shown \cup ({row} \cap Forum)
  BY SeenIs, FeedTypes
<1> DEFINE lines == page.lines
           more == Append(lines, row)
<1>2. lines \in Seq(Nat) /\ Len(lines) \in Nat /\ row \in Nat /\ Len(feed) \in Nat /\ page.lastSeq \in Nat
      /\ HistoryCap \in Nat
  BY FeedTypes, FreshRowsAreRemembered
<1>3. /\ more # <<>> /\ Len(more) = Len(lines) + 1 /\ more[Len(lines) + 1] = row
      /\ DOMAIN more = 1..(Len(lines) + 1) /\ DOMAIN lines = 1..Len(lines)
      /\ \A k \in 1..Len(lines) : more[k] = lines[k]
  BY <1>2
<1>4. ToSet(more) = ToSet(lines) \cup {row}
  <2>1. \A k \in 1..(Len(lines) + 1) : k \in 1..Len(lines) \/ k = Len(lines) + 1
    BY <1>2
  <2> HIDE DEF more, lines
  <2>2. ASSUME NEW k \in DOMAIN more PROVE more[k] \in ToSet(lines) \cup {row}
    BY <1>3, <2>1, <2>2 DEF ToSet
  <2>3. \A k \in DOMAIN lines : k \in DOMAIN more /\ lines[k] = more[k]
    BY <1>2, <1>3
  <2>4. Len(lines) + 1 \in DOMAIN more
    BY <1>2, <1>3
  <2> QED BY <1>3, <2>2, <2>3, <2>4 DEF ToSet
<1> HIDE DEF more
<1>5. LinesAreRows /\ LinesAreTheFeeds
  BY DEF FeedInv
<1>6. LinesAreRows'
  <2>1. \A k \in DOMAIN more : more[k] \in 1..Len(feed)
    <3> SUFFICES ASSUME NEW k \in DOMAIN more PROVE more[k] \in 1..Len(feed)
      OBVIOUS
    <3>1. k \in DOMAIN lines \/ k = Len(lines) + 1
      BY <1>2, <1>3
    <3> QED BY <1>3, <1>5, <3>1 DEF LinesAreRows
  <2>2. page'.lines = more /\ Len(more) = Len(lines) + 1 /\ polls' = polls /\ feed' = feed
    BY <1>1, <1>3 DEF more
  <2>3. more # <<>> /\ page'.lastSeq # 0 /\ more[Len(more)] = page'.lastSeq
    BY <1>1, <1>2, <1>3, <2>2
  <2>4. page'.polledTo <= Len(feed) /\ \A p \in polls : p.upTo <= Len(feed) /\ p.posts = Forum \cap 1..p.upTo
    BY <1>1, <1>5 DEF LinesAreRows
  <2> QED BY <2>1, <2>2, <2>3, <2>4 DEF LinesAreRows, Forum
<1>7. Forum \cap (ToSet(more) \cup 1..page.polledTo) = page.shown \cup ({row} \cap Forum)
  BY <1>4, <1>5 DEF LinesAreTheFeeds
<1>8. \A k \in 1..Len(lines) : \/ more[k + 1] = more[k] + 1
                               \/ more[k + 1] > more[k] /\ Len(feed) >= more[k + 1] + HistoryCap - 1
  <2> SUFFICES ASSUME NEW k \in 1..Len(lines)
               PROVE  \/ more[k + 1] = more[k] + 1
                      \/ more[k + 1] > more[k] /\ Len(feed) >= more[k + 1] + HistoryCap - 1
    OBVIOUS
  <2>1. CASE k = Len(lines)
    <3>1. lines # <<>> /\ more[k] = page.lastSeq /\ page.lastSeq # 0
      <4>1. lines # <<>>
        BY <1>2, <2>1
      <4> QED BY <1>3, <1>5, <2>1, <4>1 DEF LinesAreRows
    <3>2. more[k + 1] = row
      BY <1>3, <2>1
    <3>3. row > more[k] /\ (row <= more[k] + 1 \/ Len(feed) >= row + HistoryCap - 1)
      BY <3>1
    <3>4. more[k] \in Nat
      BY <1>2, <3>1
    <3> HIDE DEF lines
    <3> QED BY <1>2, <3>2, <3>3, <3>4
  <2>2. CASE k < Len(lines)
    <3>1. k \in 1 .. Len(lines) - 1 /\ k + 1 \in 1..Len(lines)
      BY <1>2, <2>2
    <3>2. \/ lines[k + 1] = lines[k] + 1
          \/ lines[k + 1] > lines[k] /\ Len(feed) >= lines[k + 1] + HistoryCap - 1
      BY <1>5, <3>1 DEF LinesAreTheFeeds
    <3> QED BY <1>3, <3>1, <3>2
  <2> QED BY <1>2, <2>1, <2>2
<1>9. LinesAreTheFeeds'
  <2>1. /\ page'.lines = more /\ Len(page'.lines) - 1 = Len(lines) /\ Forum' = Forum
    BY <1>1, <1>2, <1>3 DEF more, Forum
  <2> QED BY <1>1, <1>7, <1>8, <2>1 DEF LinesAreTheFeeds
<1> QED BY <1>6, <1>9

LEMMA OnEventKeeps ==
  ASSUME PageTypeOK, FeedInv, OnEvent
  PROVE  FeedInv' /\ SameCards /\ page' \in Pages /\ stream' \in Streams
<1> DEFINE row == Head(stream.rows)
<1>1. /\ stream.rows # <<>> /\ UNCHANGED <<feed, closed, polls>>
      /\ page' = CASE row = Closing -> [page EXCEPT !.finished = TRUE]
                   [] row # Closing /\ row <= page.lastSeq -> page
                   [] OTHER -> Seen(row)
      /\ stream' = IF page'.finished THEN NoStream ELSE [stream EXCEPT !.rows = Tail(@)]
  BY DEF OnEvent
<1>2. /\ RowsRunOn /\ StreamTakesUp /\ LinesAreRows /\ LinesAreTheFeeds /\ page \in Pages
      /\ OnTheWay \in Nat /\ Len(feed) \in Nat /\ page.lastSeq \in Nat /\ HistoryCap \in Nat
  BY FeedTypes, FreshRowsAreRemembered DEF FeedInv, PageTypeOK
<1>3. row \in Nat /\ (row = Closing \/ (row = Len(feed) - OnTheWay + 1 /\ OnTheWay >= 1 /\ row \in 1..Len(feed)))
  BY <1>1, <1>2, HeadIs
<1>4. stream.open
  BY <1>1, <1>2 DEF RowsRunOn
<1>5. row # Closing =>
        page.lastSeq = 0 \/ row <= page.lastSeq + 1 \/ Len(feed) >= row + HistoryCap - 1
  BY <1>2, <1>3, <1>4 DEF StreamTakesUp
<1> HIDE DEF row
<1>6. /\ page' \in Pages /\ SameCards /\ LinesAreRows' /\ LinesAreTheFeeds'
      /\ row = Closing => page'.finished
      /\ row # Closing => page'.lastSeq >= row /\ page'.lastSeq \in Nat
  <2>1. CASE row = Closing
    <3>1. page' = [page EXCEPT !.finished = TRUE]
      BY <1>1, <2>1
    <3>2. page' \in Pages /\ SameCards /\ SameLines
      BY <3>1, FinishedIs
    <3>3. page'.finished
      BY <1>2, <3>1 DEF Pages
    <3>4. LinesAreRows' /\ LinesAreTheFeeds'
      BY <1>1, <1>2, <3>2 DEF LinesAreRows, LinesAreTheFeeds, SameLines, Forum
    <3> QED BY <2>1, <3>2, <3>3, <3>4
  <2>2. CASE row # Closing /\ row <= page.lastSeq
    <3>1. page' = page
      BY <1>1, <2>2
    <3>2. LinesAreRows' /\ LinesAreTheFeeds'
      BY <1>1, <1>2, <3>1 DEF LinesAreRows, LinesAreTheFeeds, Forum
    <3> QED BY <1>2, <1>3, <2>2, <3>1, <3>2 DEF SameCards
  <2>3. CASE row # Closing /\ ~(row <= page.lastSeq)
    <3>1. page' = Seen(row)
      BY <1>1, <2>3
    <3>2. row > page.lastSeq /\ row \in 1..Len(feed)
      BY <1>2, <1>3, <2>3
    <3>3. page' \in Pages /\ SameCards /\ page'.lastSeq = row
      BY <1>3, <3>1, SeenIs
    <3>4. LinesAreRows' /\ LinesAreTheFeeds'
      BY <1>1, <1>5, <2>3, <3>1, <3>2, SeenKeepsLines
    <3> QED BY <1>3, <2>3, <3>3, <3>4
  <2> QED BY <2>1, <2>2, <2>3
<1>7. CASE page'.finished
  <2>1. stream' = NoStream
    BY <1>1, <1>7
  <2> QED BY <1>1, <1>6, <2>1, GoneKeeps DEF FeedInv
<1>8. CASE ~page'.finished
  <2>1. row # Closing /\ stream' = [stream EXCEPT !.rows = Tail(@)]
    BY <1>1, <1>6, <1>8
  <2>2. RowsRunOn' /\ stream' \in Streams /\ stream'.open = stream.open /\ OnTheWay' = OnTheWay - 1
    BY <1>1, <1>2, <2>1, RestRunsOn DEF row
  <2>3. StreamTakesUp'
    <3>1. feed' = feed /\ row = Len(feed) - OnTheWay + 1
      BY <1>1, <1>3, <2>1
    <3>2. Len(feed) - (OnTheWay - 1) + 1 = row + 1 /\ row + 1 <= page'.lastSeq + 1
      BY <1>2, <1>3, <1>6, <2>1, <3>1
    <3> QED BY <2>2, <3>1, <3>2 DEF StreamTakesUp
  <2> QED BY <1>6, <2>2, <2>3 DEF FeedInv
<1> QED BY <1>7, <1>8

-----------------------------------------------------------------------------
(* The poll, and the whole *)

LEMMA PollAnsweredKeeps ==
  ASSUME PageTypeOK, CardsInv, FeedInv, PollAnswered, UNCHANGED seatVars,
         DOMAIN cards \subseteq Nat
  PROVE  FeedInv' /\ page' \in Pages /\ polls' \in SUBSET States
<1> DEFINE poll == [number |-> page'.asked, upTo |-> Len(feed), posts |-> Forum, pending |-> Pending]
<1>1. /\ page \in Pages /\ page' = [page EXCEPT !.asked = @ + 1] /\ polls' = polls \cup {poll}
      /\ UNCHANGED <<feed, closed, stream>>
  BY DEF PageTypeOK, PollAnswered
<1>2. /\ page' \in Pages /\ page'.asked = page.asked + 1 /\ page.asked \in Nat
      /\ page'.lastSeq = page.lastSeq /\ page'.lines = page.lines
      /\ page'.shown = page.shown /\ page'.polledTo = page.polledTo
  <2>1. page.asked \in Nat /\ page.asked + 1 \in Nat
    BY <1>1 DEF Pages
  <2>2. page' \in Pages
    BY ONLY <1>1, <2>1 DEF Pages
  <2> QED BY ONLY <1>1, <2>1, <2>2 DEF Pages
<1>3. /\ poll \in States /\ poll.upTo = Len(feed) /\ poll.posts = Forum /\ Len(feed) \in Nat
      /\ Forum \subseteq 1..Len(feed)
  <2>1. Forum \subseteq 1..Len(feed) /\ Len(feed) \in Nat /\ Pending \subseteq Nat
    BY FeedTypes DEF Forum, Pending
  <2> QED BY <1>2, <2>1 DEF States
<1> HIDE DEF poll
<1>4. RowsRunOn' /\ StreamTakesUp'
  BY <1>1, <1>2 DEF FeedInv, RowsRunOn, StreamTakesUp, OnTheWay
<1>5. LinesAreRows' /\ LinesAreTheFeeds'
  <2>1. Forum' = Forum /\ Forum = Forum \cap 1..Len(feed)
    BY <1>1, <1>3 DEF Forum
  <2> QED BY <1>1, <1>2, <1>3, <2>1 DEF FeedInv, LinesAreRows, LinesAreTheFeeds
<1>6. polls' \in SUBSET States
  BY <1>1, <1>3 DEF PageTypeOK
<1> QED BY <1>2, <1>4, <1>5, <1>6 DEF FeedInv

LEMMA PollArrivesKeeps ==
  ASSUME PageTypeOK, FeedInv, PollArrives
  PROVE  FeedInv' /\ page' \in Pages /\ polls' \in SUBSET States /\ presses' \in SUBSET Outcomes
<1>1. PICK poll \in polls :
       /\ polls' = polls \ {poll}
       /\ page' = Shown([Rendered(poll.pending) EXCEPT !.rendered = poll.number,
                                                       !.polledTo = IF poll.upTo > @ THEN poll.upTo ELSE @],
                       poll.posts)
       /\ presses' = IF poll.pending = page.listed THEN presses
                     ELSE {[press EXCEPT !.onPage = FALSE] : press \in presses}
  BY DEF PollArrives
<1>2. /\ page' \in Pages /\ page'.lastSeq = page.lastSeq /\ page'.lines = page.lines
      /\ page'.polledTo = (IF poll.upTo > page.polledTo THEN poll.upTo ELSE page.polledTo)
      /\ page'.shown = page.shown \cup poll.posts
  BY <1>1, RenderedSeen
<1>3. UNCHANGED <<feed, closed, stream>>
  BY DEF PollArrives
<1>4. RowsRunOn' /\ StreamTakesUp'
  BY <1>2, <1>3 DEF FeedInv, RowsRunOn, StreamTakesUp, OnTheWay
<1>5. /\ poll.upTo <= Len(feed) /\ poll.posts = Forum \cap 1..poll.upTo /\ poll.upTo \in Nat
      /\ page.polledTo \in Nat /\ Forum' = Forum /\ Len(feed) \in Nat
  BY <1>3, FeedTypes DEF FeedInv, LinesAreRows, Forum
<1>6. LinesAreRows'
  BY <1>1, <1>2, <1>3, <1>5 DEF FeedInv, LinesAreRows
<1>7. LinesAreTheFeeds'
  <2>1. 1..page'.polledTo = 1..page.polledTo \cup 1..poll.upTo
    BY <1>2, <1>5
  <2>2. Forum \cap (ToSet(page.lines) \cup 1..page'.polledTo) = page.shown \cup poll.posts
    BY <1>5, <2>1 DEF FeedInv, LinesAreTheFeeds
  <2> QED BY <1>2, <1>3, <1>5, <2>2 DEF FeedInv, LinesAreTheFeeds
<1>8. presses' \in SUBSET Outcomes
  <2>1. \A press \in presses : [press EXCEPT !.onPage = FALSE] \in Outcomes
    BY DEF PageTypeOK, Outcomes
  <2> QED BY <1>1, <2>1 DEF PageTypeOK
<1> QED BY <1>1, <1>2, <1>4, <1>6, <1>7, <1>8 DEF FeedInv, PageTypeOK

LEMMA TypesTypes ==
  ASSUME PageTypeOK, CardsInv, Types, DOMAIN cards \subseteq Nat
  PROVE  page' \in Pages /\ SameLines
<1>1. PICK i \in page.cards : page' = [page EXCEPT !.words = @ \cup {i}]
  BY DEF Types
<1>2. page \in Pages /\ i \in Nat
  BY DEF PageTypeOK, CardsInv, PageKnowsTheCards
<1>3. page' \in Pages /\ page'.lastSeq = page.lastSeq /\ page'.lines = page.lines
      /\ page'.shown = page.shown /\ page'.polledTo = page.polledTo
  BY ONLY <1>1, <1>2 DEF Pages
<1> QED BY <1>3 DEF SameLines

LEMMA PressReturnsTypes ==
  ASSUME PageTypeOK, PressReturns
  PROVE  page' \in Pages /\ SameLines /\ presses' \in SUBSET Outcomes
<1>1. PICK press \in presses :
       /\ presses' = presses \ {press}
       /\ page' = IF press.onPage /\ Removes(press)
                  THEN [page EXCEPT !.cards = @ \ {press.card}, !.words = @ \ {press.card}] ELSE page
  BY DEF PressReturns
<1>2. page \in Pages /\ presses' \in SUBSET Outcomes
  BY <1>1 DEF PageTypeOK
<1>3. page' = page \/ page' = [page EXCEPT !.cards = @ \ {press.card}, !.words = @ \ {press.card}]
  BY <1>1
<1>4. page' \in Pages /\ page'.lastSeq = page.lastSeq /\ page'.lines = page.lines
      /\ page'.shown = page.shown /\ page'.polledTo = page.polledTo
  BY ONLY <1>2, <1>3 DEF Pages
<1> QED BY <1>2, <1>4 DEF SameLines

\* Words typed are kept, but where an older answer overtook a newer one.
WordsStay == page.words \cap Pending' \subseteq page'.words \/ page'.rendered < page.rendered

\* The page is let alone, whatever the seat does.
LEMMA PageIsLeft ==
  ASSUME SeatInv, PageInv, PendingLoses, UNCHANGED pageVars
  PROVE  PageInv'
<1>1. SameCards /\ SameLines /\ UNCHANGED <<feed, closed, stream, page, polls, presses>>
  BY DEF pageVars, SameCards, SameLines
<1>2. CardsInv' /\ FeedInv'
  BY <1>1, SeatKeepsThePage, FeedStays DEF PageInv
<1> QED BY <1>1, <1>2 DEF PageInv, PageTypeOK

LEMMA SeatStillLoses ==
  ASSUME UNCHANGED seatVars
  PROVE  PendingLoses
BY DEF seatVars, PendingLoses, Pending

LEMMA FeedActsKeep ==
  ASSUME SeatInv, PageInv, FeedActs
  PROVE  PageInv' /\ SameCards
<1>1. PageTypeOK /\ CardsInv /\ FeedInv
  BY DEF PageInv
<1>2. UNCHANGED <<polls, presses>> /\ UNCHANGED seatVars
  BY DEF FeedActs, Publish, Closes, Connects, Drops, OnEvent
<1>3. /\ FeedInv' /\ feed' \in Seq({"act", "post", "end"}) /\ closed' \in BOOLEAN
      /\ stream' \in Streams /\ page' \in Pages /\ SameCards
  <2>1. CASE Publish
    BY <1>1, <2>1, PublishKeeps DEF Publish, PageTypeOK, SameCards
  <2>2. CASE Closes
    BY <1>1, <2>2, ClosesKeeps DEF Closes, PageTypeOK, SameCards
  <2>3. CASE Connects
    BY <1>1, <2>3, ConnectsKeeps DEF Connects, PageTypeOK, SameCards
  <2>4. CASE Drops
    BY <1>1, <2>4, DropsKeeps DEF Drops, PageTypeOK, SameCards
  <2>5. CASE OnEvent
    BY <1>1, <2>5, OnEventKeeps DEF OnEvent, PageTypeOK
  <2> QED BY <2>1, <2>2, <2>3, <2>4, <2>5 DEF FeedActs
<1>4. CardsInv'
  BY <1>1, <1>2, <1>3, SeatStillLoses, SeatKeepsThePage
<1> QED BY <1>1, <1>2, <1>3, <1>4 DEF PageInv, PageTypeOK

LEMMA PollingKeeps ==
  ASSUME SeatInv, PageInv, Polling
  PROVE  PageInv' /\ WordsStay
<1>1. PageTypeOK /\ CardsInv /\ FeedInv /\ UNCHANGED seatVars /\ DOMAIN cards \subseteq Nat
  BY CardsAre DEF PageInv, SeatInv, Polling
<1>2. CASE PollAnswered
  <2>1. CardsInv' /\ FeedInv' /\ page' \in Pages /\ polls' \in SUBSET States
    BY <1>1, <1>2, PollAnsweredIsNewest, PollAnsweredKeeps
  <2>2. page'.words = page.words
    BY <1>1, <1>2 DEF PollAnswered, PageTypeOK, Pages
  <2> QED BY <1>1, <1>2, <2>1, <2>2 DEF PageInv, PageTypeOK, PollAnswered, WordsStay
<1>3. CASE PollArrives
  <2>1. CardsInv' /\ WordsStay
    BY <1>1, <1>3, PollArrivesAgrees DEF WordsStay
  <2>2. FeedInv' /\ page' \in Pages /\ polls' \in SUBSET States /\ presses' \in SUBSET Outcomes
    BY <1>1, <1>3, PollArrivesKeeps
  <2> QED BY <1>1, <1>3, <2>1, <2>2 DEF PageInv, PageTypeOK, PollArrives
<1> QED BY <1>2, <1>3 DEF Polling

LEMMA CardActsKeep ==
  ASSUME SeatInv, PageInv, CardActs, now' = now
  PROVE  SeatInv' /\ PageInv' /\ (page' = page \/ WordsStay)
<1>1. PageTypeOK /\ CardsInv /\ FeedInv /\ DOMAIN cards \subseteq Nat
  BY CardsAre DEF PageInv, SeatInv
<1>2. CASE PressReturns /\ UNCHANGED seatVars
  <2>1. CardsInv' /\ WordsStay
    BY <1>1, <1>2, PressReturnsKeeps DEF WordsStay
  <2>2. page' \in Pages /\ SameLines /\ presses' \in SUBSET Outcomes
    BY <1>1, <1>2, PressReturnsTypes
  <2>3. UNCHANGED <<feed, closed, stream, polls>>
    BY <1>2 DEF PressReturns
  <2>4. FeedInv'
    BY <1>1, <2>2, <2>3, FeedStays
  <2> QED BY <1>1, <1>2, <2>1, <2>2, <2>3, <2>4, SeatStutters DEF PageInv, PageTypeOK
<1>3. CASE PressFails /\ UNCHANGED seatVars
  <2>1. CardsInv'
    BY <1>1, <1>3, PressFailsKeeps
  <2>2. UNCHANGED <<feed, closed, stream, page, polls>> /\ presses' \subseteq presses
    BY <1>3 DEF PressFails
  <2>3. FeedInv'
    BY <1>1, <2>2, FeedStays DEF SameLines
  <2> QED BY <1>1, <1>3, <2>1, <2>2, <2>3, SeatStutters DEF PageInv, PageTypeOK
<1>4. CASE Types
  <2>1. CardsInv' /\ WordsStay
    BY <1>1, <1>4, TypesKeeps DEF WordsStay
  <2>2. page' \in Pages /\ SameLines
    BY <1>1, <1>4, TypesTypes
  <2>3. UNCHANGED seatVars /\ UNCHANGED <<feed, closed, stream, polls, presses>>
    BY <1>4 DEF Types
  <2>4. FeedInv'
    BY <1>1, <2>2, <2>3, FeedStays
  <2> QED BY <1>1, <2>1, <2>2, <2>3, <2>4, SeatStutters DEF PageInv, PageTypeOK
<1>5. CASE \E i \in DOMAIN cards : Press(i)
  <2>1. PICK i \in DOMAIN cards : Press(i)
    BY <1>5
  <2>2. CardsInv' /\ UNCHANGED <<feed, closed, stream, page, polls>>
    BY <1>1, <2>1, PressKeepsThePage DEF Press
  <2>3. FeedInv'
    BY <1>1, <2>2, FeedStays DEF SameLines
  <2>4. PICK outcome \in {"settled", "refused", "gone"} :
          /\ (outcome = "gone") <=> i \notin Pending
          /\ IF outcome = "settled" THEN Answer(i) ELSE UNCHANGED seatVars
          /\ presses' = presses \cup {[card |-> i, outcome |-> outcome, onPage |-> TRUE]}
    BY <2>1 DEF Press
  <2>5. presses' \in SUBSET Outcomes
    <3>1. i \in Nat
      BY <1>1, <2>1
    <3>2. [card |-> i, outcome |-> outcome, onPage |-> TRUE] \in Outcomes
      BY <2>4, <3>1 DEF Outcomes
    <3> QED BY <1>1, <2>4, <3>2 DEF PageTypeOK
  <2>6. SeatInv'
    <3>1. CASE outcome = "settled"
      BY <2>4, <3>1, AnswerKeeps
    <3>2. CASE outcome # "settled"
      BY <2>4, <3>2, SeatStutters
    <3> QED BY <3>1, <3>2
  <2> QED BY <1>1, <2>2, <2>3, <2>5, <2>6 DEF PageInv, PageTypeOK
<1> QED BY <1>2, <1>3, <1>4, <1>5 DEF CardActs

LEMMA PageStarts ==
  ASSUME SeatInit, PageInit
  PROVE  PageInv
<1>1. /\ feed = <<>> /\ closed = FALSE /\ stream = [open |-> FALSE, rows |-> <<>>] /\ polls = {} /\ presses = {}
      /\ cards = <<>>
  BY DEF PageInit, SeatInit, NoStream
<1>2. /\ page = [lastSeq |-> 0, lines |-> <<>>, finished |-> FALSE, shown |-> {},
                 listed |-> {}, cards |-> {}, words |-> {}, asked |-> 0, rendered |-> 0, polledTo |-> 0]
  BY DEF PageInit, NewPage
<1>3. /\ page \in Pages /\ page.lastSeq = 0 /\ page.lines = <<>> /\ page.shown = {} /\ page.listed = {}
      /\ page.cards = {} /\ page.words = {} /\ page.asked = 0 /\ page.rendered = 0 /\ page.polledTo = 0
  <2>1. <<>> \in Seq(Nat) /\ {} \in SUBSET Nat /\ 0 \in Nat
    OBVIOUS
  <2> QED BY <1>2, <2>1 DEF Pages
<1>4. /\ feed \in Seq({"act", "post", "end"}) /\ Len(feed) = 0 /\ DOMAIN feed = {} /\ Forum = {}
      /\ stream \in Streams /\ stream.rows = <<>> /\ ~stream.open /\ Len(stream.rows) = 0
  BY <1>1 DEF Streams, Forum
<1>5. PageTypeOK
  BY <1>1, <1>3, <1>4 DEF PageTypeOK
<1>6. CardsInv
  BY <1>1, <1>3 DEF CardsInv, PageKnowsTheCards, StatesAgree, PressesAreTold, CardsComeBack
<1>7. RowsRunOn /\ StreamTakesUp
  <2>1. OnTheWay = 0
    BY <1>4 DEF OnTheWay
  <2> QED BY <1>4, <2>1 DEF RowsRunOn, StreamTakesUp
<1>8. LinesAreRows
  <2>1. DOMAIN page.lines = {}
    BY <1>3
  <2> QED BY <1>1, <1>3, <1>4, <2>1 DEF LinesAreRows
<1>9. LinesAreTheFeeds
  <2>1. Len(page.lines) = 0
    BY <1>3
  <2>2. 1 .. Len(page.lines) - 1 = {}
    BY <2>1
  <2> QED BY <1>3, <1>4, <2>2 DEF LinesAreTheFeeds
<1> QED BY <1>5, <1>6, <1>7, <1>8, <1>9 DEF PageInv, FeedInv

\* Of the run's parts, the seat's and the page's alone touch the seat and the page.
LEMMA SeatAndPageAlone ==
  ASSUME [Next]_vars
  PROVE  \/ SeatActs /\ now' = now /\ UNCHANGED pageVars
         \/ Tick /\ UNCHANGED seatVars /\ UNCHANGED pageVars
         \/ FeedActs /\ now' = now
         \/ CardActs /\ now' = now
         \/ Polling /\ now' = now
         \/ UNCHANGED <<now, seatVars>> /\ UNCHANGED pageVars
BY DEF Next, Seating, Paging, Archiving, Reading, Telling, TimePasses, SeatActs, vars

LEMMA SeatAndPageStep ==
  ASSUME SeatInv, PageInv, [Next]_vars
  PROVE  SeatInv' /\ PageInv' /\ [WordsStay]_page
<1>1. CASE SeatActs /\ now' = now /\ UNCHANGED pageVars
  BY <1>1, SeatActsKeepTheSeat, SeatActsLose, PageIsLeft DEF pageVars
<1>2. CASE Tick /\ UNCHANGED seatVars /\ UNCHANGED pageVars
  BY <1>2, HourKeepsTheSeat, SeatStillLoses, PageIsLeft DEF pageVars
<1>3. CASE FeedActs /\ now' = now
  <2>1. UNCHANGED seatVars
    BY <1>3 DEF FeedActs
  <2>2. SeatInv' /\ PageInv' /\ SameCards
    BY <1>3, <2>1, SeatStutters, FeedActsKeep
  <2> QED BY <2>2 DEF WordsStay, SameCards
<1>4. CASE CardActs /\ now' = now
  BY <1>4, CardActsKeep
<1>5. CASE Polling /\ now' = now
  <2>1. UNCHANGED seatVars
    BY <1>5 DEF Polling
  <2> QED BY <1>5, <2>1, SeatStutters, PollingKeeps
<1>6. CASE UNCHANGED <<now, seatVars>> /\ UNCHANGED pageVars
  BY <1>6, SeatStutters, SeatStillLoses, PageIsLeft DEF pageVars
<1> QED BY <1>1, <1>2, <1>3, <1>4, <1>5, <1>6, SeatAndPageAlone

\* The inductive invariant of the human's seat and its page: what an older answer to
\* /state has still pending a newer one has too, a button whose card goes pressed a card
\* that no longer waits, and a stream runs from where the page left off, or where the
\* server's memory begins, to the feed's last row.
THEOREM SeatAndPageInvariant == Spec => [](SeatInv /\ PageInv)
<1>1. Init => SeatInv /\ PageInv
  BY SeatStarts, PageStarts DEF Init
<1>2. SeatInv /\ PageInv /\ [Next]_vars => (SeatInv /\ PageInv)'
  BY SeatAndPageStep
<1> QED BY <1>1, <1>2, PTL DEF Spec

\* The human is asked what is the human's to answer, and shown what there is, on
\* whatever network (human.js:60-95, human-member.js:124-131, page.js:611-614,688-694).
THEOREM SeatAndPageAlwaysHold == Spec => []SeatAndPageHold
<1>1. SeatInv /\ PageInv => SeatAndPageHold
  BY DEF SeatInv, PageInv, CardsInv, FeedInv, SeatAndPageHold
<1> QED BY <1>1, SeatAndPageInvariant, PTL

\* The poll never fights the human (page.js:376-380).
THEOREM WordsAreAlwaysKept == Spec => WordsAreKept
<1>1. SeatInv /\ PageInv /\ [Next]_vars => [WordsStay]_page
  BY SeatAndPageStep
<1>2. Spec => [][WordsStay]_page
  BY <1>1, SeatAndPageInvariant, PTL DEF Spec
<1> QED BY <1>2 DEF WordsAreKept, WordsStay

-----------------------------------------------------------------------------
(* The charter's members *)

Roster == ToSet(Declared)
Tag == declaredBy.tag

\* The members seated are a charter's that validates, each on its own session.
CharterInv ==
  /\ declaredBy.members \in Rosters \cup {<<>>}
  /\ Tag \in RunTags \cup {<<>>}
  /\ \/ seats = <<>>
     \/ MembersDiffer /\ DOMAIN seats = Ids /\ \A m \in Roster : seats[m.id] = SessionOf(m)

LEMMA SlugsAre ==
  ASSUME CharterInv
  PROVE  /\ \A m \in Roster : m.prefix \in Seq(STRING)
         /\ Tag \in Seq(STRING) /\ \A k \in 1..Len(Tag) : Tag[k] # Dash
<1>1. \A m \in Roster : m.prefix \in Seq(STRING)
  <2>1. CASE declaredBy.members = <<>>
    BY <2>1 DEF Roster, Declared, ToSet
  <2>2. CASE declaredBy.members \in Rosters
    BY <2>2, TagsHaveNoDash DEF Roster, Declared
  <2> QED BY <2>1, <2>2 DEF CharterInv
<1>2. Tag \in Seq(STRING) /\ \A k \in 1..Len(Tag) : Tag[k] # Dash
  <2>1. CASE Tag = <<>>
    BY <2>1
  <2>2. CASE Tag \in RunTags
    <3>1. Tag \in Seq(STRING) /\ Dash \notin ToSet(Tag)
      BY <2>2, TagsHaveNoDash
    <3> QED BY <3>1 DEF ToSet
  <2> QED BY <2>1, <2>2 DEF CharterInv
<1> QED BY <1>1, <1>2

\* A prefix, place by place.
LEMMA PrefixIs ==
  ASSUME NEW p \in Seq(STRING), NEW s \in Seq(STRING)
  PROVE  IsPrefix(p, s) <=> Len(p) <= Len(s) /\ \A k \in 1..Len(p) : p[k] = s[k]
<1>1. Len(p) \in Nat /\ Len(s) \in Nat
  OBVIOUS
<1>2. SubSeq(p, 1, Len(p)) = p
  BY SubSeqFull
<1>3. ASSUME Len(p) <= Len(s)
      PROVE  /\ SubSeq(s, 1, Len(p)) \in Seq(STRING) /\ Len(SubSeq(s, 1, Len(p))) = Len(p)
             /\ \A k \in 1..Len(p) : SubSeq(s, 1, Len(p))[k] = s[k]
  <2>1. \A k \in 1..Len(p) : s[k] \in STRING
    BY <1>1, <1>3
  <2> QED BY <1>1, <2>1, SubSeqProperties
<1>4. ASSUME Len(p) <= Len(s), \A k \in 1..Len(p) : p[k] = s[k]
      PROVE  p = SubSeq(s, 1, Len(p))
  <2> DEFINE q == SubSeq(s, 1, Len(p))
  <2>1. q \in Seq(STRING) /\ Len(q) = Len(p) /\ \A k \in 1..Len(p) : p[k] = q[k]
    BY <1>3, <1>4
  <2> HIDE DEF q
  <2>2. p = q
    BY <2>1, SeqEqual
  <2> QED BY <2>2 DEF q
<1> QED BY <1>2, <1>3, <1>4 DEF IsPrefix

\* A member's prefix, and the dash after it.
LEMMA Dashed ==
  ASSUME NEW p \in Seq(STRING)
  PROVE  /\ p \o <<Dash>> \in Seq(STRING) /\ Len(p \o <<Dash>>) = Len(p) + 1
         /\ \A k \in 1..Len(p) : (p \o <<Dash>>)[k] = p[k]
         /\ (p \o <<Dash>>)[Len(p) + 1] = Dash
<1>1. <<Dash>> \in Seq(STRING) /\ Len(<<Dash>>) = 1 /\ <<Dash>>[1] = Dash
  BY TagsHaveNoDash
<1> DEFINE dash == <<Dash>>
<1> HIDE DEF dash
<1>2. dash \in Seq(STRING) /\ Len(dash) = 1 /\ dash[1] = Dash
  BY <1>1 DEF dash
<1>3. /\ p \o dash \in Seq(STRING) /\ Len(p \o dash) = Len(p) + 1
      /\ \A k \in 1..Len(p) : (p \o dash)[k] = p[k]
      /\ (p \o dash)[Len(p) + 1] = Dash
  <2>1. Len(p) \in Nat
    OBVIOUS
  <2>2. /\ p \o dash \in Seq(STRING) /\ Len(p \o dash) = Len(p) + Len(dash)
        /\ \A k \in 1..(Len(p) + Len(dash)) : (p \o dash)[k] = IF k <= Len(p) THEN p[k] ELSE dash[k - Len(p)]
    BY <1>2, ConcatProperties
  <2> QED BY <1>2, <2>1, <2>2
<1> QED BY <1>3 DEF dash

\* A session: the prefix, or the prefix, a dash and the tag.
LEMMA SessionIs ==
  ASSUME CharterInv, NEW m \in Roster
  PROVE  /\ SessionOf(m) \in Seq(STRING)
         /\ \A k \in 1..Len(m.prefix) : SessionOf(m)[k] = m.prefix[k]
         /\ Tag = <<>> => SessionOf(m) = m.prefix
         /\ Tag # <<>> => /\ Len(SessionOf(m)) = Len(m.prefix) + 1 + Len(Tag)
                          /\ SessionOf(m)[Len(m.prefix) + 1] = Dash
                          /\ \A k \in 1..Len(Tag) : SessionOf(m)[Len(m.prefix) + 1 + k] # Dash
<1> DEFINE p == m.prefix
           dashed == p \o <<Dash>>
<1>1. p \in Seq(STRING) /\ Tag \in Seq(STRING) /\ \A k \in 1..Len(Tag) : Tag[k] # Dash
  BY SlugsAre
<1>2. CASE Tag = <<>>
  BY <1>1, <1>2 DEF SessionOf, Tag
<1>3. CASE Tag # <<>>
  <2>1. SessionOf(m) = dashed \o Tag
    BY <1>3 DEF SessionOf, Tag
  <2>2. /\ dashed \in Seq(STRING) /\ Len(dashed) = Len(p) + 1
        /\ \A k \in 1..Len(p) : dashed[k] = p[k]
        /\ dashed[Len(p) + 1] = Dash
    BY <1>1, Dashed
  <2> HIDE DEF dashed, p
  <2>3. Len(p) \in Nat /\ Len(Tag) \in Nat
    BY <1>1
  <2>4. /\ dashed \o Tag \in Seq(STRING) /\ Len(dashed \o Tag) = Len(p) + 1 + Len(Tag)
        /\ \A k \in 1..(Len(p) + 1 + Len(Tag)) :
             (dashed \o Tag)[k] = IF k <= Len(p) + 1 THEN dashed[k] ELSE Tag[k - (Len(p) + 1)]
    <3> HIDE DEF Tag
    <3>1. /\ dashed \o Tag \in Seq(STRING) /\ Len(dashed \o Tag) = Len(dashed) + Len(Tag)
          /\ \A k \in 1..(Len(dashed) + Len(Tag)) :
               (dashed \o Tag)[k] = IF k <= Len(dashed) THEN dashed[k] ELSE Tag[k - Len(dashed)]
      BY <1>1, <2>2, ConcatProperties
    <3> QED BY ONLY <2>2, <3>1
  <2>5. \A k \in 1..Len(p) : (dashed \o Tag)[k] = p[k]
    BY <2>2, <2>3, <2>4
  <2>6. (dashed \o Tag)[Len(p) + 1] = Dash
    BY <2>2, <2>3, <2>4
  <2>7. \A k \in 1..Len(Tag) : (dashed \o Tag)[Len(p) + 1 + k] # Dash
    <3> SUFFICES ASSUME NEW k \in 1..Len(Tag) PROVE (dashed \o Tag)[Len(p) + 1 + k] # Dash
      OBVIOUS
    <3>1. (dashed \o Tag)[Len(p) + 1 + k] = Tag[k]
      BY <2>3, <2>4
    <3> QED BY <1>1, <3>1
  <2> QED BY <1>3, <2>1, <2>4, <2>5, <2>6, <2>7 DEF p
<1> QED BY <1>2, <1>3

LEMMA MembersAreApart ==
  ASSUME MembersDiffer, NEW m \in Roster, NEW n \in Roster
  PROVE  (m.id = n.id => m = n) /\ (m.prefix = n.prefix => m = n)
<1>1. PICK i \in DOMAIN Declared : m = Declared[i]
  BY DEF Roster, ToSet
<1>2. PICK k \in DOMAIN Declared : n = Declared[k]
  BY DEF Roster, ToSet
<1> QED BY <1>1, <1>2 DEF MembersDiffer, Distinct

\* The longest is the one no other is as long as.
LEMMA LongestIs ==
  ASSUME NEW matching, NEW m \in matching, \A n \in matching : n.prefix \in Seq(STRING),
         \A n \in matching \ {m} : Len(n.prefix) < Len(m.prefix)
  PROVE  Longest(matching) = m.id
<1>1. \A n \in matching : Len(n.prefix) \in Nat
  OBVIOUS
<1>2. \A n \in matching : Len(n.prefix) <= Len(m.prefix)
  BY <1>1
<1> DEFINE longest == CHOOSE x \in matching : \A n \in matching : Len(n.prefix) <= Len(x.prefix)
<1>3. longest \in matching /\ \A n \in matching : Len(n.prefix) <= Len(longest.prefix)
  BY <1>2
<1>4. Longest(matching) = longest.id
  BY DEF Longest
<1> HIDE DEF longest
<1>5. longest = m
  BY <1>1, <1>3
<1> QED BY <1>4, <1>5

\* Of two prefixes of a session, the one no shorter takes in the session's tag.
LEMMA LongerTakesIn ==
  ASSUME CharterInv, MembersDiffer, NEW m \in Roster, NEW n \in Roster, n # m,
         IsPrefix(n.prefix, SessionOf(m)), ~(Len(n.prefix) < Len(m.prefix))
  PROVE  TakesInTag(m, n) /\ Tag # <<>>
<1> DEFINE s == SessionOf(m)
<1>1. m.prefix \in Seq(STRING) /\ n.prefix \in Seq(STRING) /\ s \in Seq(STRING)
      /\ Len(m.prefix) \in Nat /\ Len(n.prefix) \in Nat /\ Len(s) \in Nat
  BY SlugsAre, SessionIs
<1>2. Len(n.prefix) <= Len(s) /\ \A k \in 1..Len(n.prefix) : n.prefix[k] = s[k]
  BY <1>1, PrefixIs
<1>3. \A k \in 1..Len(m.prefix) : s[k] = m.prefix[k]
  BY SessionIs
<1>4. Len(n.prefix) # Len(m.prefix)
  <2>1. SUFFICES ASSUME Len(n.prefix) = Len(m.prefix) PROVE FALSE
    OBVIOUS
  <2>2. \A k \in 1..Len(m.prefix) : n.prefix[k] = m.prefix[k]
    BY <1>2, <1>3, <2>1
  <2>3. n.prefix = m.prefix
    BY <1>1, <2>1, <2>2, SeqEqual
  <2> QED BY <2>3, MembersAreApart
<1>5. Len(n.prefix) >= Len(m.prefix) + 1
  BY <1>1, <1>4
<1>6. Tag # <<>>
  <2>1. Tag = <<>> => s = m.prefix
    BY SessionIs
  <2> QED BY <1>1, <1>2, <1>5, <2>1
<1>7. s[Len(m.prefix) + 1] = Dash
  BY <1>6, SessionIs
<1> DEFINE dashed == m.prefix \o <<Dash>>
<1>8. /\ dashed \in Seq(STRING) /\ Len(dashed) = Len(m.prefix) + 1
      /\ \A k \in 1..Len(m.prefix) : dashed[k] = m.prefix[k]
      /\ dashed[Len(m.prefix) + 1] = Dash
  BY <1>1, Dashed
<1> HIDE DEF dashed, s
<1>9. \A k \in 1..Len(dashed) : dashed[k] = n.prefix[k]
  <2> SUFFICES ASSUME NEW k \in 1..Len(dashed) PROVE dashed[k] = n.prefix[k]
    OBVIOUS
  <2>1. k \in 1..Len(n.prefix) /\ (k \in 1..Len(m.prefix) \/ k = Len(m.prefix) + 1)
    BY <1>1, <1>5, <1>8
  <2> QED BY <1>2, <1>3, <1>7, <1>8, <2>1
<1>10. IsPrefix(dashed, n.prefix)
  BY <1>1, <1>5, <1>8, <1>9, PrefixIs
<1> QED BY <1>6, <1>10 DEF TakesInTag, dashed

LEMMA MembersAreTheirSessions ==
  ASSUME CharterInv
  PROVE  SessionsAreTheirMembers
<1>1. CASE seats = <<>>
  <2>1. DOMAIN seats = {}
    BY <1>1
  <2> QED BY <2>1 DEF SessionsAreTheirMembers
<1>2. CASE seats # <<>>
  <2>1. MembersDiffer /\ DOMAIN seats = Ids
    BY <1>2 DEF CharterInv
  <2>2. \A m \in Roster : m.id \in Ids /\ seats[m.id] = SessionOf(m)
    BY <1>2 DEF CharterInv, Ids, Roster
  <2> SUFFICES ASSUME NEW m \in Roster, m.id \in DOMAIN seats
               PROVE  LET s == seats[m.id]
                          others == {n \in Roster : TakesInTag(m, n)}
                      IN  /\ MemberOfSession(s) = m.id \/ \E n \in others : n.prefix = s
                          /\ BoundBy(s) = m.id \/ others # {}
                          /\ \A id \in DOMAIN seats \ {m.id} : seats[id] # s \/ \E n \in others : n.prefix = s
    BY DEF SessionsAreTheirMembers, Roster
  <2> DEFINE s == SessionOf(m)
             others == {n \in Roster : TakesInTag(m, n)}
  <2>3. seats[m.id] = s /\ s \in Seq(STRING) /\ Len(s) \in Nat
    BY <2>2, SessionIs
  <2>4. /\ \A n \in Roster : n.prefix \in Seq(STRING) /\ Len(n.prefix) \in Nat
        /\ Tag \in Seq(STRING) /\ Len(Tag) \in Nat
    BY SlugsAre
  <2>5. IsPrefix(m.prefix, s)
    <3>1. Len(m.prefix) <= Len(s)
      <4>1. CASE Tag = <<>>
        BY <2>4, <4>1, SessionIs
      <4>2. CASE Tag # <<>>
        BY <2>4, <4>2, SessionIs
      <4> QED BY <4>1, <4>2
    <3>2. \A k \in 1..Len(m.prefix) : m.prefix[k] = s[k]
      BY SessionIs
    <3> QED BY <2>3, <2>4, <3>1, <3>2, PrefixIs
  <2>6. BoundBy(s) = m.id \/ others # {}
    <3> SUFFICES ASSUME others = {} PROVE BoundBy(s) = m.id
      OBVIOUS
    <3> DEFINE bound == {n \in Roster : IsPrefix(n.prefix, s)}
    <3>1. m \in bound
      BY <2>5
    <3>2. \A n \in bound \ {m} : Len(n.prefix) < Len(m.prefix)
      BY <2>1, LongerTakesIn
    <3>3. \A n \in bound : n.prefix \in Seq(STRING)
      BY <2>4
    <3> HIDE DEF bound
    <3>4. Longest(bound) = m.id
      BY <3>1, <3>2, <3>3, LongestIs
    <3> QED BY <3>4 DEF BoundBy, bound, Roster
  <2>7. MemberOfSession(s) = m.id \/ \E n \in others : n.prefix = s
    <3> SUFFICES ASSUME \A n \in others : n.prefix # s PROVE MemberOfSession(s) = m.id
      OBVIOUS
    <3> DEFINE matching == {n \in Roster : s = n.prefix \/ IsPrefix(n.prefix \o <<Dash>>, s)}
    <3>1. m \in matching
      <4>1. CASE Tag = <<>>
        BY <4>1, SessionIs
      <4>2. CASE Tag # <<>>
        <5> DEFINE dashed == m.prefix \o <<Dash>>
        <5>1. /\ dashed \in Seq(STRING) /\ Len(dashed) = Len(m.prefix) + 1
              /\ \A k \in 1..Len(m.prefix) : dashed[k] = m.prefix[k]
              /\ dashed[Len(m.prefix) + 1] = Dash
          BY <2>4, Dashed
        <5>2. /\ Len(s) = Len(m.prefix) + 1 + Len(Tag) /\ s[Len(m.prefix) + 1] = Dash
              /\ \A k \in 1..Len(m.prefix) : s[k] = m.prefix[k]
          BY <4>2, SessionIs
        <5> HIDE DEF dashed, s
        <5>3. Len(dashed) <= Len(s)
          BY <2>4, <5>1, <5>2
        <5>4. \A k \in 1..Len(dashed) : dashed[k] = s[k]
          <6> SUFFICES ASSUME NEW k \in 1..Len(dashed) PROVE dashed[k] = s[k]
            OBVIOUS
          <6>1. k \in 1..Len(m.prefix) \/ k = Len(m.prefix) + 1
            BY <2>4, <5>1
          <6> QED BY <5>1, <5>2, <6>1
        <5>5. IsPrefix(dashed, s)
          BY <2>3, <5>1, <5>3, <5>4, PrefixIs
        <5> QED BY <5>5 DEF dashed
      <4> QED BY <4>1, <4>2
    <3>2. ASSUME NEW n \in matching \ {m} PROVE Len(n.prefix) < Len(m.prefix)
      <4>1. SUFFICES ASSUME ~(Len(n.prefix) < Len(m.prefix)) PROVE FALSE
        OBVIOUS
      <4> DEFINE dashed == n.prefix \o <<Dash>>
      <4>2. /\ dashed \in Seq(STRING) /\ Len(dashed) = Len(n.prefix) + 1
            /\ \A k \in 1..Len(n.prefix) : dashed[k] = n.prefix[k]
            /\ dashed[Len(n.prefix) + 1] = Dash
        BY <2>4, Dashed
      <4>3. n.prefix = s \/ (Len(dashed) <= Len(s) /\ \A k \in 1..Len(dashed) : dashed[k] = s[k])
        <5>1. n.prefix = s \/ IsPrefix(dashed, s)
          OBVIOUS
        <5> QED BY <2>3, <4>2, <5>1, PrefixIs
      <4> HIDE DEF dashed
      <4>4. n \in Roster /\ n # m
        OBVIOUS
      <4>5. IsPrefix(n.prefix, s)
        <5>1. CASE n.prefix = s
          BY <2>3, <5>1, PrefixIs
        <5>2. CASE Len(dashed) <= Len(s) /\ \A k \in 1..Len(dashed) : dashed[k] = s[k]
          <6>1. Len(n.prefix) <= Len(s) /\ \A k \in 1..Len(n.prefix) : n.prefix[k] = s[k]
            BY <2>3, <2>4, <4>2, <4>4, <5>2
          <6> QED BY <2>3, <2>4, <4>4, <6>1, PrefixIs
        <5> QED BY <4>3, <5>1, <5>2
      <4>6. TakesInTag(m, n) /\ Tag # <<>>
        BY <2>1, <4>1, <4>4, <4>5, LongerTakesIn
      <4>7. n.prefix # s
        BY <4>4, <4>6
      <4>8. /\ Len(s) = Len(m.prefix) + 1 + Len(Tag)
            /\ \A k \in 1..Len(Tag) : s[Len(m.prefix) + 1 + k] # Dash
        BY <4>6, SessionIs
      <4>9. Len(n.prefix) >= Len(m.prefix) + 1
        <5>1. IsPrefix(m.prefix \o <<Dash>>, n.prefix)
          BY <4>6 DEF TakesInTag
        <5>2. Len(m.prefix \o <<Dash>>) = Len(m.prefix) + 1
          BY <2>4, Dashed
        <5> QED BY <2>4, <4>4, <5>1, <5>2 DEF IsPrefix
      <4>10. s[Len(n.prefix) + 1] = Dash /\ Len(n.prefix) + 1 <= Len(s)
        <5>1. Len(n.prefix) + 1 \in 1..Len(dashed)
          BY <2>4, <4>2, <4>4
        <5> QED BY <4>2, <4>3, <4>7, <5>1
      <4> DEFINE k == Len(n.prefix) - Len(m.prefix)
      <4>11. k \in 1..Len(Tag) /\ Len(m.prefix) + 1 + k = Len(n.prefix) + 1
        <5> DEFINE a == Len(n.prefix)
                   b == Len(m.prefix)
                   c == Len(Tag)
                   length == Len(s)
        <5>1. a \in Nat /\ b \in Nat /\ c \in Nat /\ length = b + 1 + c /\ a >= b + 1 /\ a + 1 <= length
          BY <2>4, <4>4, <4>8, <4>9, <4>10
        <5> HIDE DEF a, b, c, length
        <5>2. a - b \in 1..c /\ b + 1 + (a - b) = a + 1
          BY <5>1
        <5> QED BY <5>2 DEF a, b, c
      <4> HIDE DEF k, s
      <4> QED BY <4>8, <4>10, <4>11
    <3>3. \A n \in matching : n.prefix \in Seq(STRING)
      BY <2>4
    <3> HIDE DEF matching
    <3>4. Longest(matching) = m.id
      BY <3>1, <3>2, <3>3, LongestIs
    <3> QED BY <3>4 DEF MemberOfSession, matching, Roster
  <2>8. ASSUME NEW id \in DOMAIN seats \ {m.id} PROVE seats[id] # s
    <3>1. id \in Ids
      BY <2>1
    <3>2. PICK n \in Roster : n.id = id
      BY <3>1 DEF Ids, Roster
    <3>3. seats[id] = SessionOf(n) /\ n # m
      BY <2>2, <3>2
    <3>4. SUFFICES ASSUME SessionOf(n) = s PROVE FALSE
      BY <3>3
    <3>5. Len(n.prefix) = Len(m.prefix)
      <4>1. CASE Tag = <<>>
        BY <3>4, <4>1, SessionIs
      <4>2. CASE Tag # <<>>
        <5>1. Len(n.prefix) + 1 + Len(Tag) = Len(m.prefix) + 1 + Len(Tag)
          BY <3>4, <4>2, SessionIs
        <5> QED BY <2>4, <5>1
      <4> QED BY <4>1, <4>2
    <3>6. \A k \in 1..Len(m.prefix) : n.prefix[k] = m.prefix[k]
      <4>1. \A k \in 1..Len(m.prefix) : SessionOf(m)[k] = m.prefix[k]
        BY SessionIs
      <4>2. \A k \in 1..Len(n.prefix) : SessionOf(n)[k] = n.prefix[k]
        BY SessionIs
      <4> QED BY <3>4, <3>5, <4>1, <4>2
    <3>7. n.prefix = m.prefix
      BY <2>4, <3>5, <3>6, SeqEqual
    <3> QED BY <2>1, <3>3, <3>7, MembersAreApart
  <2> HIDE DEF s, others
  <2> QED BY <2>3, <2>6, <2>7, <2>8 DEF others
<1> QED BY <1>1, <1>2

LEMMA SeatsMembersKeeps ==
  ASSUME CharterInv, SeatsMembers
  PROVE  CharterInv'
<1> DEFINE chosen(id) == CHOOSE m \in Roster : m.id = id
<1>1. MembersDiffer /\ declaredBy' = declaredBy
  BY DEF SeatsMembers, Validates
<1>2. seats' = [id \in Ids |-> SessionOf(chosen(id))]
  BY DEF SeatsMembers, Roster
<1>3. \A m \in Roster : m.id \in Ids /\ chosen(m.id) = m
  <2> SUFFICES ASSUME NEW m \in Roster PROVE m.id \in Ids /\ chosen(m.id) = m
    OBVIOUS
  <2> DEFINE own == chosen(m.id)
  <2>1. own \in Roster /\ own.id = m.id
    OBVIOUS
  <2> HIDE DEF own
  <2>2. own = m
    BY <1>1, <2>1, MembersAreApart
  <2> QED BY <2>2 DEF own, Ids, Roster
<1> HIDE DEF chosen
<1>4. DOMAIN seats' = Ids /\ \A m \in Roster : seats'[m.id] = SessionOf(m)
  BY <1>2, <1>3
<1>5. Ids' = Ids /\ Roster' = Roster /\ (\A m : SessionOf(m)' = SessionOf(m)) /\ MembersDiffer' = MembersDiffer
      /\ Tag' = Tag
  BY <1>1 DEF Ids, Roster, Declared, SessionOf, MembersDiffer, Distinct, Tag
<1> QED BY <1>1, <1>4, <1>5 DEF CharterInv

LEMMA CharterStays ==
  ASSUME CharterInv, UNCHANGED charterVars
  PROVE  CharterInv'
<1>1. UNCHANGED <<declaredBy, seats>>
  BY DEF charterVars
<1>2. Ids' = Ids /\ Roster' = Roster /\ (\A m : SessionOf(m)' = SessionOf(m)) /\ MembersDiffer' = MembersDiffer
      /\ Tag' = Tag
  BY <1>1 DEF Ids, Roster, Declared, SessionOf, MembersDiffer, Distinct, Tag
<1> QED BY <1>1, <1>2 DEF CharterInv

LEMMA CharterStarts ==
  ASSUME CharterInit \/ NoCharter
  PROVE  CharterInv
<1>1. CASE NoCharter
  BY <1>1 DEF NoCharter, CharterInv, Tag
<1>2. CASE CharterInit
  <2>1. PICK members \in Rosters, tag \in RunTags :
         \E desk : declaredBy = [members |-> members, desk |-> desk, tag |-> tag]
    BY <1>2 DEF CharterInit
  <2>2. declaredBy.members = members /\ declaredBy.tag = tag
    BY <2>1
  <2> QED BY <1>2, <2>2 DEF CharterInit, CharterInv, Tag
<1> QED BY <1>1, <1>2

-----------------------------------------------------------------------------
(* What a member is told of the forum *)

PostRows == [by : Tellers, at : Nat]
Framings == [posts : SUBSET Nat, asOf : Nat]
Turns == [seat : Tellers, from : Nat, begun : Nat, posts : Nat]
Citations == [from : Nat, to : Nat, turn : Nat, behind : BOOLEAN, failed : BOOLEAN]

NewsTypeOK ==
  /\ board \in Seq(PostRows)
  /\ emitted \in [Tellers -> Nat] /\ chained \in [Tellers -> Nat] /\ readUpTo \in [Tellers -> Nat]
  /\ told \in [Tellers -> Seq(Framings)]
  /\ turnOf # NoTurnOf => turnOf \in Turns
  /\ DOMAIN cites \subseteq DOMAIN board /\ \A i \in DOMAIN cites : cites[i] \in Citations

LastAsOf(s) == told[s][Len(told[s])].asOf

\* The posts past a member's cursor are the others'; those between its last framing and
\* its cursor are its own.
CursorsPassTheirOwn ==
  \A s \in Tellers :
    /\ readUpTo[s] <= Len(board)
    /\ \A k \in DOMAIN told[s] : told[s][k].asOf <= Len(board)
    /\ ~InTurn(s) =>
         /\ \A i \in DOMAIN board : i > readUpTo[s] => board[i].by # s
         /\ told[s] # <<>> => /\ LastAsOf(s) <= readUpTo[s]
                              /\ \A i \in DOMAIN board : LastAsOf(s) < i /\ i <= readUpTo[s] => board[i].by = s

\* Since a turn began its member alone has posted, past what the turn began with.
TurnsAreTheirMembers ==
  /\ \A s \in Tellers : chained[s] <= emitted[s]
  /\ \A s \in Tellers : InTurn(s) =>
       /\ turnOf.from = chained[s] /\ turnOf.from <= turnOf.begun /\ turnOf.begun <= emitted[s]
       /\ turnOf.posts <= Len(board)
       /\ told[s] # <<>> /\ LastAsOf(s) = turnOf.posts
       /\ \A i \in DOMAIN board : i > turnOf.posts =>
            board[i].by = s /\ turnOf.begun < board[i].at /\ board[i].at <= emitted[s]

\* The posts of others on a board, after one place and up to another.
OthersPosts(posts, s, after, upTo) == {i \in after + 1..upTo : posts[i].by # s}

ToldOnce ==
  \A s \in Tellers : \A k \in 2..Len(told[s]) :
    told[s][k].posts = NewestOf(OthersPosts(board, s, told[s][k - 1].asOf, told[s][k].asOf), ShowLimit)
CitesCover ==
  \A i \in DOMAIN cites :
    LET c == cites[i]
    IN  /\ c.from <= board[i].at /\ (c.failed \/ board[i].at <= c.to)
        /\ c.behind \/ c.from >= c.turn

NewsInv == NewsTypeOK /\ CursorsPassTheirOwn /\ TurnsAreTheirMembers /\ ToldOnce /\ CitesCover

LEMMA NewsTypes ==
  ASSUME NewsTypeOK, NEW s \in Tellers
  PROVE  /\ Len(board) \in Nat /\ DOMAIN board = 1..Len(board)
         /\ \A i \in DOMAIN board : board[i].by \in Tellers /\ board[i].at \in Nat
         /\ emitted[s] \in Nat /\ chained[s] \in Nat /\ readUpTo[s] \in Nat
         /\ told[s] \in Seq(Framings) /\ Len(told[s]) \in Nat /\ DOMAIN told[s] = 1..Len(told[s])
         /\ \A k \in DOMAIN told[s] : told[s][k] \in Framings /\ told[s][k].asOf \in Nat
         /\ told[s] # <<>> => Len(told[s]) \in DOMAIN told[s] /\ LastAsOf(s) \in Nat
<1>1. board \in Seq(PostRows) /\ told[s] \in Seq(Framings)
  BY DEF NewsTypeOK
<1>2. /\ Len(board) \in Nat /\ DOMAIN board = 1..Len(board)
      /\ \A i \in DOMAIN board : board[i] \in PostRows
  BY <1>1
<1>3. /\ Len(told[s]) \in Nat /\ DOMAIN told[s] = 1..Len(told[s])
      /\ \A k \in DOMAIN told[s] : told[s][k] \in Framings
      /\ told[s] # <<>> => Len(told[s]) \in DOMAIN told[s]
  BY <1>1
<1> QED BY <1>1, <1>2, <1>3 DEF NewsTypeOK, PostRows, Framings, LastAsOf

\* The newest of the newest are the newest.
LEMMA NewestTwice ==
  ASSUME NEW P \in SUBSET Nat, IsFiniteSet(P), NEW m \in Nat, NEW n \in Nat, n <= m
  PROVE  NewestOf(NewestOf(P, m), n) = NewestOf(P, n)
<1> DEFINE above(i) == {j \in P : j > i}
           kept == NewestOf(P, m)
<1>1. \A i \in P : IsFiniteSet(above(i)) /\ Cardinality(above(i)) \in Nat
  <2> SUFFICES ASSUME NEW i \in P PROVE IsFiniteSet(above(i)) /\ Cardinality(above(i)) \in Nat
    OBVIOUS
  <2>1. above(i) \in SUBSET P
    OBVIOUS
  <2>2. IsFiniteSet(above(i))
    BY <2>1, FS_Subset
  <2> QED BY <2>2, FS_CardinalityType
<1>2. \A i, j \in P : j > i => Cardinality(above(j)) <= Cardinality(above(i))
  <2> SUFFICES ASSUME NEW i \in P, NEW j \in P, j > i PROVE Cardinality(above(j)) <= Cardinality(above(i))
    OBVIOUS
  <2>1. above(j) \in SUBSET above(i)
    <3>1. \A k \in P : k > j => k > i
      OBVIOUS
    <3> QED BY <3>1
  <2> HIDE DEF above
  <2> QED BY <1>1, <2>1, FS_Subset
<1>3. \A i : i \in kept <=> i \in P /\ Cardinality(above(i)) < m
  BY DEF NewestOf
<1>4. \A i \in kept : {j \in kept : j > i} = above(i)
  <2> SUFFICES ASSUME NEW i \in kept PROVE {j \in kept : j > i} = above(i)
    OBVIOUS
  <2>1. i \in P /\ Cardinality(above(i)) < m
    BY <1>3
  <2>2. \A j \in P : j > i => j \in kept
    <3> SUFFICES ASSUME NEW j \in P, j > i PROVE Cardinality(above(j)) < m
      BY <1>3
    <3> HIDE DEF above, kept
    <3>1. Cardinality(above(j)) \in Nat /\ Cardinality(above(i)) \in Nat
      BY <1>1, <2>1
    <3>2. Cardinality(above(j)) <= Cardinality(above(i))
      BY <1>2, <2>1
    <3> QED BY <2>1, <3>1, <3>2
  <2> HIDE DEF kept
  <2> QED BY <1>3, <2>2
<1> HIDE DEF kept
<1>5. \A i : i \in NewestOf(kept, n) <=> i \in kept /\ Cardinality(above(i)) < n
  <2>1. \A i : i \in NewestOf(kept, n) <=> i \in kept /\ Cardinality({j \in kept : j > i}) < n
    BY DEF NewestOf
  <2> QED BY <1>4, <2>1
<1>6. \A i : i \in NewestOf(P, n) <=> i \in P /\ Cardinality(above(i)) < n
  BY DEF NewestOf
<1> HIDE DEF above
<1>7. \A i \in P : Cardinality(above(i)) < n => Cardinality(above(i)) < m
  BY <1>1
<1>8. \A i : i \in NewestOf(kept, n) <=> i \in NewestOf(P, n)
  BY <1>3, <1>5, <1>6, <1>7
<1> QED BY <1>8 DEF kept

\* A framing shows the newest of what the others posted since the last one.
LEMMA FramingIs ==
  ASSUME NewsInv, NEW s \in Tellers, ~InTurn(s), Briefed(s)
  PROVE  Framing(s) = NewestOf(OthersPosts(board, s, LastAsOf(s), Len(board)), ShowLimit)
<1> DEFINE past == {i \in DOMAIN board : i > readUpTo[s]}
           others == {i \in LastAsOf(s) + 1..Len(board) : board[i].by # s}
<1>1. /\ Len(board) \in Nat /\ DOMAIN board = 1..Len(board) /\ readUpTo[s] \in Nat /\ LastAsOf(s) \in Nat
  BY NewsTypes DEF NewsInv, Briefed
<1>2. /\ \A i \in DOMAIN board : i > readUpTo[s] => board[i].by # s
      /\ LastAsOf(s) <= readUpTo[s]
      /\ \A i \in DOMAIN board : LastAsOf(s) < i /\ i <= readUpTo[s] => board[i].by = s
  BY DEF NewsInv, CursorsPassTheirOwn, Briefed
<1>3. past = others
  <2>1. \A i \in past : i \in others
    BY <1>1, <1>2
  <2>2. \A i \in others : i \in past
    <3> SUFFICES ASSUME NEW i \in others PROVE i \in past
      OBVIOUS
    <3>1. i \in DOMAIN board /\ LastAsOf(s) < i /\ board[i].by # s /\ i \in Nat
      BY <1>1
    <3>2. ~(i <= readUpTo[s])
      BY <1>2, <3>1
    <3> QED BY <1>1, <3>1, <3>2
  <2> QED BY <2>1, <2>2
<1>4. past \in SUBSET Nat /\ IsFiniteSet(past)
  <2>1. past \in SUBSET (1..Len(board)) /\ IsFiniteSet(1..Len(board))
    BY <1>1, FS_Interval
  <2> QED BY <2>1, <1>1, FS_Subset
<1> HIDE DEF past, others
<1>5. NewestOf(NewestOf(past, ReadLimit), ShowLimit) = NewestOf(past, ShowLimit)
  BY <1>4, NewestTwice, LimitsAreOrdered
<1>6. Framing(s) = NewestOf(NewestOf(past, ReadLimit), ShowLimit)
  BY DEF Framing, NewPosts, past
<1> QED BY <1>3, <1>5, <1>6 DEF others, OthersPosts

\* What was told and cited stays so as the board grows.
LEMMA PastStays ==
  ASSUME NewsInv, Len(board') \in Nat, Len(board') >= Len(board),
         \A i \in DOMAIN board : board'[i] = board[i],
         NEW s \in Tellers, NEW k \in 2..Len(told[s])
  PROVE  told[s][k].posts =
           NewestOf(OthersPosts(board', s, told[s][k - 1].asOf, told[s][k].asOf), ShowLimit)
<1>1. /\ Len(board) \in Nat /\ DOMAIN board = 1..Len(board) /\ k \in DOMAIN told[s] /\ k - 1 \in DOMAIN told[s]
      /\ \A j \in DOMAIN told[s] : told[s][j].asOf \in Nat
  <2>1. /\ Len(board) \in Nat /\ DOMAIN board = 1..Len(board) /\ DOMAIN told[s] = 1..Len(told[s])
        /\ Len(told[s]) \in Nat /\ \A j \in DOMAIN told[s] : told[s][j].asOf \in Nat
    BY NewsTypes DEF NewsInv
  <2> QED BY <2>1
<1>2. told[s][k].asOf <= Len(board)
  BY <1>1 DEF NewsInv, CursorsPassTheirOwn
<1> DEFINE since == told[s][k - 1].asOf + 1..told[s][k].asOf
<1>3. since \subseteq DOMAIN board
  BY <1>1, <1>2
<1>4. OthersPosts(board', s, told[s][k - 1].asOf, told[s][k].asOf)
        = OthersPosts(board, s, told[s][k - 1].asOf, told[s][k].asOf)
  BY <1>3 DEF OthersPosts
<1> QED BY <1>4 DEF NewsInv, ToldOnce

LEMMA TurnStartsKeeps ==
  ASSUME NewsInv, NEW s \in Tellers, TurnStarts(s)
  PROVE  NewsInv'
<1> DEFINE posts == IF Briefed(s) THEN Framing(s) ELSE {}
           framing == [posts |-> posts, asOf |-> Len(board)]
           turn == [seat |-> s, from |-> chained[s], begun |-> emitted[s], posts |-> Len(board)]
<1>1. /\ NewsTypeOK /\ turnOf = NoTurnOf /\ told' = [told EXCEPT ![s] = Append(@, framing)] /\ turnOf' = turn
      /\ UNCHANGED <<board, emitted, chained, readUpTo, cites>>
  BY DEF NewsInv, TurnStarts
<1>2. /\ Len(board) \in Nat /\ DOMAIN board = 1..Len(board) /\ emitted[s] \in Nat /\ chained[s] \in Nat
      /\ told[s] \in Seq(Framings) /\ Len(told[s]) \in Nat /\ DOMAIN told[s] = 1..Len(told[s])
  BY <1>1, NewsTypes
<1>3. framing \in Framings /\ framing.asOf = Len(board) /\ framing.posts = posts
  <2>1. Framing(s) \in SUBSET Nat
    BY <1>2 DEF Framing, NewPosts, NewestOf
  <2> QED BY <1>2, <2>1 DEF Framings
<1>4. turn \in Turns /\ turn.seat = s /\ turn.from = chained[s] /\ turn.begun = emitted[s] /\ turn.posts = Len(board)
  BY <1>2 DEF Turns
<1> HIDE DEF framing, turn
<1> DEFINE longer == Append(told[s], framing)
<1>5. /\ longer \in Seq(Framings) /\ Len(longer) = Len(told[s]) + 1 /\ longer # <<>>
      /\ DOMAIN longer = 1..(Len(told[s]) + 1)
      /\ \A k \in 1..Len(told[s]) : longer[k] = told[s][k]
      /\ longer[Len(told[s]) + 1] = framing
  BY <1>2, <1>3
<1>6. /\ told' \in [Tellers -> Seq(Framings)] /\ told'[s] = longer
      /\ \A r \in Tellers \ {s} : told'[r] = told[r]
  BY <1>1, <1>5 DEF NewsTypeOK
<1> HIDE DEF longer
<1>7. NewsTypeOK'
  BY <1>1, <1>4, <1>6 DEF NewsTypeOK
<1>8. \A r \in Tellers \ {s} : ~InTurn(r)' /\ LastAsOf(r)' = LastAsOf(r)
  BY <1>1, <1>4, <1>6 DEF InTurn, LastAsOf
<1>9. LastAsOf(s)' = Len(board)
  BY <1>2, <1>3, <1>5, <1>6 DEF LastAsOf
<1>10. \A r \in Tellers : ~InTurn(r)
  BY <1>1 DEF InTurn
<1>11. CursorsPassTheirOwn'
  <2> SUFFICES ASSUME NEW r \in Tellers
               PROVE  /\ readUpTo[r] <= Len(board)
                      /\ \A k \in DOMAIN told'[r] : told'[r][k].asOf <= Len(board)
                      /\ ~InTurn(r)' =>
                           /\ \A i \in DOMAIN board : i > readUpTo[r] => board[i].by # r
                           /\ told'[r] # <<>> => /\ LastAsOf(r)' <= readUpTo[r]
                                                 /\ \A i \in DOMAIN board :
                                                      LastAsOf(r)' < i /\ i <= readUpTo[r] => board[i].by = r
    BY <1>1 DEF CursorsPassTheirOwn
  <2>1. CursorsPassTheirOwn
    BY DEF NewsInv
  <2>2. CASE r # s
    BY <1>6, <1>8, <1>10, <2>1, <2>2 DEF CursorsPassTheirOwn
  <2>3. CASE r = s
    <3>1. \A k \in DOMAIN longer : longer[k].asOf <= Len(board)
      <4> SUFFICES ASSUME NEW k \in DOMAIN longer PROVE longer[k].asOf <= Len(board)
        OBVIOUS
      <4>1. k \in 1..Len(told[s]) \/ k = Len(told[s]) + 1
        BY <1>2, <1>5
      <4> QED BY <1>2, <1>3, <1>5, <2>1, <4>1 DEF CursorsPassTheirOwn
    <3>2. turnOf' # NoTurnOf => InTurn(s)'
      BY <1>1, <1>4 DEF InTurn
    <3>3. turnOf' # NoTurnOf
      BY <1>1 DEF NoTurnOf, turn
    <3> QED BY <1>6, <2>1, <2>3, <3>1, <3>2, <3>3 DEF CursorsPassTheirOwn
  <2> QED BY <2>2, <2>3
<1>12. TurnsAreTheirMembers'
  <2>1. \A r \in Tellers : chained[r] <= emitted[r]
    BY DEF NewsInv, TurnsAreTheirMembers
  <2>2. \A i \in DOMAIN board : ~(i > Len(board))
    BY <1>2
  <2>3. /\ turnOf'.from = chained[s] /\ turnOf'.begun = emitted[s] /\ turnOf'.posts = Len(board)
        /\ chained[s] <= emitted[s] /\ emitted[s] <= emitted[s] /\ Len(board) <= Len(board)
        /\ told'[s] # <<>> /\ LastAsOf(s)' = Len(board)
    BY <1>1, <1>2, <1>4, <1>5, <1>6, <1>9, <2>1
  <2> QED BY <1>1, <1>8, <2>1, <2>2, <2>3 DEF TurnsAreTheirMembers
<1>13. ToldOnce'
  <2> SUFFICES ASSUME NEW r \in Tellers, NEW k \in 2..Len(told'[r])
               PROVE  told'[r][k].posts =
                        NewestOf(OthersPosts(board, r, told'[r][k - 1].asOf, told'[r][k].asOf), ShowLimit)
    BY <1>1 DEF ToldOnce
  <2>1. CASE r # s
    BY <1>6, <2>1 DEF NewsInv, ToldOnce
  <2>2. CASE r = s /\ k <= Len(told[s])
    <3>1. k \in 2..Len(told[s]) /\ k \in 1..Len(told[s]) /\ k - 1 \in 1..Len(told[s])
      BY <1>2, <2>2
    <3> QED BY <1>5, <1>6, <2>2, <3>1 DEF NewsInv, ToldOnce
  <2>3. CASE r = s /\ k > Len(told[s])
    <3>1. k = Len(told[s]) + 1 /\ Len(told[s]) \in 1..Len(told[s])
      BY <1>2, <1>5, <1>6, <2>3
    <3>2. Briefed(s)
      BY <1>2, <3>1 DEF Briefed
    <3>3. told'[r][k].posts = Framing(s) /\ told'[r][k].asOf = Len(board)
      BY <1>3, <1>5, <1>6, <2>3, <3>1, <3>2
    <3>4. told'[r][k - 1].asOf = LastAsOf(s)
      <4>1. k - 1 = Len(told[s])
        BY <1>2, <3>1
      <4> QED BY <1>5, <1>6, <2>3, <3>1, <4>1 DEF LastAsOf
    <3>5. Framing(s) = NewestOf(OthersPosts(board, s, LastAsOf(s), Len(board)), ShowLimit)
      BY <1>10, <3>2, FramingIs
    <3> QED BY <2>3, <3>3, <3>4, <3>5
  <2>4. k \in Nat
    OBVIOUS
  <2> QED BY <1>2, <2>1, <2>2, <2>3, <2>4
<1>14. CitesCover'
  BY <1>1 DEF NewsInv, CitesCover
<1> QED BY <1>7, <1>11, <1>12, <1>13, <1>14 DEF NewsInv

LEMMA DoesMoreKeeps ==
  ASSUME NewsInv, NEW s \in Tellers, DoesMore(s)
  PROVE  NewsInv'
<1>1. /\ NewsTypeOK /\ emitted' = [emitted EXCEPT ![s] = @ + 1]
      /\ UNCHANGED <<board, chained, readUpTo, told, cites, turnOf, turnsTaken>>
  BY DEF NewsInv, DoesMore
<1>2. /\ emitted' \in [Tellers -> Nat]
      /\ \A r \in Tellers : emitted[r] \in Nat /\ emitted'[r] >= emitted[r] /\ chained[r] \in Nat
  BY <1>1 DEF NewsTypeOK
<1>3. NewsTypeOK'
  BY <1>1, <1>2 DEF NewsTypeOK
<1>4. CursorsPassTheirOwn' /\ ToldOnce' /\ CitesCover'
  BY <1>1 DEF NewsInv, CursorsPassTheirOwn, ToldOnce, CitesCover, InTurn, LastAsOf
<1>5. TurnsAreTheirMembers'
  <2>1. turnOf # NoTurnOf => turnOf.begun \in Nat
    BY <1>1 DEF NewsTypeOK, Turns
  <2>2. \A i \in DOMAIN board : board[i].at \in Nat
    BY <1>1, NewsTypes
  <2>3. \A r \in Tellers : InTurn(r)' = InTurn(r) /\ LastAsOf(r)' = LastAsOf(r)
    BY <1>1 DEF InTurn, LastAsOf
  <2>4. \A r \in Tellers : chained[r] <= emitted'[r]
    BY <1>2 DEF NewsInv, TurnsAreTheirMembers
  <2>5. ASSUME NEW r \in Tellers, InTurn(r)
        PROVE  /\ turnOf.from = chained[r] /\ turnOf.from <= turnOf.begun /\ turnOf.begun <= emitted'[r]
               /\ turnOf.posts <= Len(board)
               /\ told[r] # <<>> /\ LastAsOf(r) = turnOf.posts
               /\ \A i \in DOMAIN board : i > turnOf.posts =>
                    board[i].by = r /\ turnOf.begun < board[i].at /\ board[i].at <= emitted'[r]
    <3>1. turnOf.begun \in Nat /\ emitted[r] \in Nat /\ emitted'[r] \in Nat /\ emitted'[r] >= emitted[r]
      BY <1>2, <2>1, <2>5 DEF InTurn
    <3>2. /\ turnOf.from = chained[r] /\ turnOf.from <= turnOf.begun /\ turnOf.begun <= emitted[r]
          /\ turnOf.posts <= Len(board)
          /\ told[r] # <<>> /\ LastAsOf(r) = turnOf.posts
          /\ \A i \in DOMAIN board : i > turnOf.posts =>
               board[i].by = r /\ turnOf.begun < board[i].at /\ board[i].at <= emitted[r]
      BY <2>5 DEF NewsInv, TurnsAreTheirMembers
    <3>3. \A i \in DOMAIN board : board[i].at <= emitted[r] => board[i].at <= emitted'[r]
      BY <2>2, <3>1
    <3> QED BY <3>1, <3>2, <3>3
  <2> QED BY <1>1, <2>3, <2>4, <2>5 DEF TurnsAreTheirMembers
<1> QED BY <1>3, <1>4, <1>5 DEF NewsInv

LEMMA PostsKeeps ==
  ASSUME NewsInv, NEW s \in Tellers, Posts(s)
  PROVE  NewsInv'
<1> DEFINE n == Len(board)
           post == [by |-> s, at |-> emitted[s] + 1]
<1>1. /\ NewsTypeOK /\ InTurn(s) /\ emitted' = [emitted EXCEPT ![s] = @ + 1] /\ board' = Append(board, post)
      /\ UNCHANGED <<chained, readUpTo, told, cites, turnOf, turnsTaken>>
  BY DEF NewsInv, Posts
<1>2. /\ emitted' \in [Tellers -> Nat] /\ emitted'[s] = emitted[s] + 1
      /\ \A r \in Tellers : emitted[r] \in Nat /\ emitted'[r] >= emitted[r] /\ chained[r] \in Nat
  BY <1>1 DEF NewsTypeOK
<1>3. post \in PostRows /\ post.by = s /\ post.at = emitted[s] + 1
  BY <1>2 DEF PostRows
<1> HIDE DEF post
<1>4. /\ board' \in Seq(PostRows) /\ n \in Nat /\ Len(board') = n + 1 /\ DOMAIN board = 1..n
      /\ DOMAIN board' = DOMAIN board \cup {n + 1} /\ n + 1 \notin DOMAIN board
      /\ \A i \in DOMAIN board : board'[i] = board[i]
      /\ board'[n + 1] = post
  BY <1>1, <1>3 DEF NewsTypeOK
<1>5. NewsTypeOK'
  BY <1>1, <1>2, <1>4 DEF NewsTypeOK
<1>6. \A r \in Tellers : /\ InTurn(r)' = InTurn(r) /\ LastAsOf(r)' = LastAsOf(r)
                         /\ (InTurn(r) => r = s)
  BY <1>1 DEF InTurn, LastAsOf
<1>7. \A r \in Tellers : /\ readUpTo[r] \in Nat
                         /\ \A k \in DOMAIN told[r] : told[r][k].asOf \in Nat
                         /\ told[r] # <<>> => LastAsOf(r) \in Nat
  BY <1>1, NewsTypes
<1>8. CursorsPassTheirOwn'
  <2> SUFFICES ASSUME NEW r \in Tellers
               PROVE  /\ readUpTo[r] <= n + 1
                      /\ \A k \in DOMAIN told[r] : told[r][k].asOf <= n + 1
                      /\ ~InTurn(r) =>
                           /\ \A i \in DOMAIN board' : i > readUpTo[r] => board'[i].by # r
                           /\ told[r] # <<>> => /\ LastAsOf(r) <= readUpTo[r]
                                                 /\ \A i \in DOMAIN board' :
                                                      LastAsOf(r) < i /\ i <= readUpTo[r] => board'[i].by = r
    BY <1>1, <1>4, <1>6 DEF CursorsPassTheirOwn
  <2>1. /\ readUpTo[r] <= n
        /\ \A k \in DOMAIN told[r] : told[r][k].asOf <= n
        /\ ~InTurn(r) =>
             /\ \A i \in DOMAIN board : i > readUpTo[r] => board[i].by # r
             /\ told[r] # <<>> => /\ LastAsOf(r) <= readUpTo[r]
                                  /\ \A i \in DOMAIN board :
                                       LastAsOf(r) < i /\ i <= readUpTo[r] => board[i].by = r
    BY DEF NewsInv, CursorsPassTheirOwn
  <2>2. readUpTo[r] <= n + 1 /\ \A k \in DOMAIN told[r] : told[r][k].asOf <= n + 1
    BY <1>4, <1>7, <2>1
  <2>3. ~InTurn(r) => s # r
    BY <1>1
  <2>4. ~(n + 1 <= readUpTo[r])
    BY <1>4, <1>7, <2>1
  <2> HIDE DEF n
  <2>5. ~InTurn(r) => \A i \in DOMAIN board' : i > readUpTo[r] => board'[i].by # r
    BY <1>3, <1>4, <2>1, <2>3
  <2>6. ~InTurn(r) /\ told[r] # <<>> =>
          \A i \in DOMAIN board' : LastAsOf(r) < i /\ i <= readUpTo[r] => board'[i].by = r
    BY <1>4, <2>1, <2>4
  <2> QED BY <2>1, <2>2, <2>5, <2>6
<1>9. TurnsAreTheirMembers'
  <2>1. /\ turnOf.from = chained[s] /\ turnOf.from <= turnOf.begun /\ turnOf.begun <= emitted[s]
        /\ turnOf.posts <= n
        /\ told[s] # <<>> /\ LastAsOf(s) = turnOf.posts
        /\ \A i \in DOMAIN board : i > turnOf.posts =>
             board[i].by = s /\ turnOf.begun < board[i].at /\ board[i].at <= emitted[s]
    BY <1>1 DEF NewsInv, TurnsAreTheirMembers
  <2>2. turnOf.begun \in Nat /\ turnOf.posts \in Nat /\ turnOf \in Turns
    BY <1>1 DEF NewsTypeOK, Turns, InTurn
  <2>3. \A i \in DOMAIN board : board[i].at \in Nat
    BY <1>1, NewsTypes
  <2>4. \A r \in Tellers : chained[r] <= emitted'[r]
    BY <1>2 DEF NewsInv, TurnsAreTheirMembers
  <2> DEFINE more == emitted[s] + 1
  <2>5. emitted[s] \in Nat /\ more \in Nat /\ more > emitted[s] /\ emitted'[s] = more
    BY <1>2
  <2> HIDE DEF more
  <2>6. turnOf.begun <= more /\ turnOf.posts <= n + 1 /\ turnOf.begun < more
    BY <1>4, <2>1, <2>2, <2>5
  <2>7. \A i \in DOMAIN board' : i > turnOf.posts =>
          board'[i].by = s /\ turnOf.begun < board'[i].at /\ board'[i].at <= more
    <3> SUFFICES ASSUME NEW i \in DOMAIN board', i > turnOf.posts
                 PROVE  board'[i].by = s /\ turnOf.begun < board'[i].at /\ board'[i].at <= more
      OBVIOUS
    <3>1. CASE i \in DOMAIN board
      BY <1>4, <2>1, <2>3, <2>5, <3>1
    <3>2. CASE i = n + 1
      BY <1>3, <1>4, <2>5, <2>6, <3>2 DEF more
    <3> QED BY <1>4, <3>1, <3>2
  <2> QED BY <1>1, <1>4, <1>6, <2>1, <2>4, <2>5, <2>6, <2>7 DEF TurnsAreTheirMembers
<1>10. ToldOnce'
  <2>1. n + 1 >= n
    BY <1>4
  <2> QED BY <1>1, <1>4, <2>1, PastStays DEF ToldOnce
<1>11. CitesCover'
  BY <1>1, <1>4 DEF NewsInv, NewsTypeOK, CitesCover
<1> QED BY <1>5, <1>8, <1>9, <1>10, <1>11 DEF NewsInv

LEMMA TurnIsOverKeeps ==
  ASSUME NewsInv, NEW s \in Tellers, TurnIsOver(s)
  PROVE  NewsInv'
<1>1. PICK upTo \in chained[s]..emitted[s] :
       /\ chained' = [chained EXCEPT ![s] = upTo]
       /\ cites' = [i \in DOMAIN cites \cup (IF upTo > turnOf.from THEN OwnPosts(s) ELSE {}) |->
                      IF i \in DOMAIN cites THEN cites[i]
                      ELSE [from |-> RangeStart(s), to |-> upTo, turn |-> turnOf.begun + 1,
                            behind |-> turnOf.from < turnOf.begun, failed |-> upTo < emitted[s]]]
  BY DEF TurnIsOver
<1> DEFINE c == [from |-> RangeStart(s), to |-> upTo, turn |-> turnOf.begun + 1,
                 behind |-> turnOf.from < turnOf.begun, failed |-> upTo < emitted[s]]
           own == IF upTo > turnOf.from THEN OwnPosts(s) ELSE {}
<1>2. /\ NewsTypeOK /\ InTurn(s) /\ turnOf \in Turns
      /\ readUpTo' = [readUpTo EXCEPT ![s] = Len(board)] /\ turnOf' = NoTurnOf
      /\ UNCHANGED <<board, emitted, told, turnsTaken>>
  BY DEF NewsInv, NewsTypeOK, TurnIsOver, InTurn, CursorAfter
<1>3. /\ turnOf.from \in Nat /\ turnOf.begun \in Nat /\ turnOf.posts \in Nat
      /\ turnOf.from = chained[s] /\ turnOf.from <= turnOf.begun /\ turnOf.begun <= emitted[s]
      /\ turnOf.posts <= Len(board)
      /\ told[s] # <<>> /\ LastAsOf(s) = turnOf.posts
      /\ \A i \in DOMAIN board : i > turnOf.posts =>
           board[i].by = s /\ turnOf.begun < board[i].at /\ board[i].at <= emitted[s]
  BY <1>2 DEF NewsInv, TurnsAreTheirMembers, Turns
<1>4. /\ Len(board) \in Nat /\ DOMAIN board = 1..Len(board) /\ emitted[s] \in Nat /\ chained[s] \in Nat
      /\ \A i \in DOMAIN board : board[i].at \in Nat
  BY <1>2, NewsTypes
<1>5. upTo \in Nat /\ upTo <= emitted[s]
  BY <1>1, <1>4
<1>6. /\ c \in Citations /\ c.from = turnOf.from + 1 /\ c.to = upTo /\ c.turn = turnOf.begun + 1
      /\ (c.behind <=> turnOf.from < turnOf.begun) /\ (c.failed <=> upTo < emitted[s])
  <2>1. (turnOf.from < turnOf.begun) \in BOOLEAN /\ (upTo < emitted[s]) \in BOOLEAN
    OBVIOUS
  <2>2. RangeStart(s) \in Nat /\ turnOf.begun + 1 \in Nat
    BY <1>3 DEF RangeStart
  <2> QED BY <1>5, <2>1, <2>2 DEF Citations, RangeStart
<1>7. own \subseteq DOMAIN board /\ \A i \in own : i > turnOf.posts
  BY DEF OwnPosts
<1>8. DOMAIN cites' = DOMAIN cites \cup own /\ \A i \in DOMAIN cites' : cites'[i] = IF i \in DOMAIN cites THEN cites[i] ELSE c
  BY <1>1
<1> HIDE DEF c, own
<1>9. NewsTypeOK'
  <2>1. chained' \in [Tellers -> Nat] /\ readUpTo' \in [Tellers -> Nat]
    BY <1>1, <1>2, <1>4, <1>5 DEF NewsTypeOK
  <2> QED BY <1>2, <1>6, <1>7, <1>8, <2>1 DEF NewsTypeOK
<1>10. CursorsPassTheirOwn'
  <2> SUFFICES ASSUME NEW r \in Tellers
               PROVE  /\ readUpTo'[r] <= Len(board)
                      /\ \A k \in DOMAIN told[r] : told[r][k].asOf <= Len(board)
                      /\ \A i \in DOMAIN board : i > readUpTo'[r] => board[i].by # r
                      /\ told[r] # <<>> => /\ LastAsOf(r) <= readUpTo'[r]
                                           /\ \A i \in DOMAIN board :
                                                LastAsOf(r) < i /\ i <= readUpTo'[r] => board[i].by = r
    BY <1>2 DEF CursorsPassTheirOwn, LastAsOf
  <2>1. CursorsPassTheirOwn
    BY DEF NewsInv
  <2>2. CASE r # s
    <3>1. readUpTo'[r] = readUpTo[r] /\ ~InTurn(r)
      BY <1>2, <2>2 DEF NewsTypeOK, InTurn
    <3> QED BY <2>1, <3>1 DEF CursorsPassTheirOwn
  <2>3. CASE r = s
    <3>1. readUpTo'[s] = Len(board)
      BY <1>2 DEF NewsTypeOK
    <3>2. \A i \in DOMAIN board : ~(i > Len(board))
      BY <1>4
    <3> QED BY <1>3, <1>4, <2>1, <2>3, <3>1, <3>2 DEF CursorsPassTheirOwn
  <2> QED BY <2>2, <2>3
<1>11. TurnsAreTheirMembers'
  <2>1. \A r \in Tellers : ~InTurn(r)'
    BY <1>2 DEF InTurn
  <2>2. \A r \in Tellers : chained'[r] <= emitted[r]
    BY <1>1, <1>2, <1>5 DEF NewsInv, NewsTypeOK, TurnsAreTheirMembers
  <2> QED BY <1>2, <2>1, <2>2 DEF TurnsAreTheirMembers
<1>12. ToldOnce'
  BY <1>2 DEF NewsInv, ToldOnce
<1>13. CitesCover'
  <2> SUFFICES ASSUME NEW i \in DOMAIN cites'
               PROVE  /\ cites'[i].from <= board[i].at /\ (cites'[i].failed \/ board[i].at <= cites'[i].to)
                      /\ cites'[i].behind \/ cites'[i].from >= cites'[i].turn
    BY <1>2 DEF CitesCover
  <2>1. CASE i \in DOMAIN cites
    BY <1>8, <2>1 DEF NewsInv, CitesCover
  <2>2. CASE i \notin DOMAIN cites
    <3>1. i \in DOMAIN board /\ i > turnOf.posts /\ cites'[i] = c
      BY <1>7, <1>8, <2>2
    <3>2. turnOf.begun < board[i].at /\ board[i].at <= emitted[s] /\ board[i].at \in Nat
      BY <1>3, <1>4, <3>1
    <3>3. c.from <= board[i].at /\ (c.failed \/ board[i].at <= c.to)
      BY <1>3, <1>4, <1>5, <1>6, <3>2
    <3>4. c.behind \/ c.from >= c.turn
      BY <1>3, <1>6
    <3> QED BY <3>1, <3>3, <3>4
  <2> QED BY <2>1, <2>2
<1> QED BY <1>9, <1>10, <1>11, <1>12, <1>13 DEF NewsInv

LEMMA NewsStays ==
  ASSUME NewsInv, UNCHANGED newsVars
  PROVE  NewsInv'
BY DEF newsVars, NewsInv, NewsTypeOK, CursorsPassTheirOwn, TurnsAreTheirMembers, ToldOnce, CitesCover, InTurn, LastAsOf

LEMMA NewsStarts ==
  ASSUME NewsInit
  PROVE  NewsInv
<1>1. /\ board = <<>> /\ cites = <<>> /\ turnOf = NoTurnOf
      /\ emitted = [s \in Tellers |-> 0] /\ chained = [s \in Tellers |-> 0]
      /\ readUpTo = [s \in Tellers |-> 0] /\ told = [s \in Tellers |-> <<>>]
  BY DEF NewsInit
<1>2. board \in Seq(PostRows) /\ Len(board) = 0 /\ DOMAIN board = {} /\ DOMAIN cites = {}
      /\ \A s \in Tellers : told[s] = <<>> /\ DOMAIN told[s] = {} /\ Len(told[s]) = 0
  BY <1>1
<1>3. NewsTypeOK
  BY <1>1, <1>2 DEF NewsTypeOK
<1>4. CursorsPassTheirOwn /\ TurnsAreTheirMembers /\ CitesCover
  BY <1>1, <1>2 DEF CursorsPassTheirOwn, TurnsAreTheirMembers, CitesCover, InTurn
<1>5. ToldOnce
  BY <1>2 DEF ToldOnce
<1> QED BY <1>3, <1>4, <1>5 DEF NewsInv

\* Of the run's parts, the charter's and the news' alone touch the members.
LEMMA MembersAlone ==
  ASSUME [Next]_vars
  PROVE  \/ SeatsMembers /\ UNCHANGED newsVars
         \/ NewsActs /\ UNCHANGED charterVars
         \/ UNCHANGED memberVars
BY DEF Next, Seating, Paging, Archiving, Reading, Telling, TimePasses, vars, memberVars

LEMMA MembersStep ==
  ASSUME CharterInv, NewsInv, [Next]_vars
  PROVE  CharterInv' /\ NewsInv'
<1>1. CASE SeatsMembers /\ UNCHANGED newsVars
  BY <1>1, SeatsMembersKeeps, NewsStays
<1>2. CASE NewsActs /\ UNCHANGED charterVars
  <2>1. PICK s \in Tellers : TurnStarts(s) \/ DoesMore(s) \/ Posts(s) \/ TurnIsOver(s)
    BY <1>2 DEF NewsActs
  <2> QED BY <1>2, <2>1, CharterStays, TurnStartsKeeps, DoesMoreKeeps, PostsKeeps, TurnIsOverKeeps
<1>3. CASE UNCHANGED memberVars
  BY <1>3, CharterStays, NewsStays DEF memberVars
<1> QED BY <1>1, <1>2, <1>3, MembersAlone

\* The inductive invariant of the members seated and what they are told: each has its own
\* session, the posts past a member's cursor are the others', those between its last
\* framing and its cursor its own, and a turn's acts come after those it began with.
THEOREM MembersInvariant == Spec => [](CharterInv /\ NewsInv)
<1>1. Init => CharterInv /\ NewsInv
  BY CharterStarts, NewsStarts DEF Init
<1>2. CharterInv /\ NewsInv /\ [Next]_vars => (CharterInv /\ NewsInv)'
  BY MembersStep
<1> QED BY <1>1, <1>2, PTL DEF Spec

\* A session's posts and deeds are its member's, and reach the others as that, each once
\* (charter.js:239-241,289-290).
THEOREM DeedsAreAlwaysTheirMembers == Spec => []DeedsAreTheirMembers
<1>1. CharterInv /\ NewsInv => DeedsAreTheirMembers
  <2>1. NewsInv => NewsIsToldOnce
    BY DEF NewsInv, ToldOnce, OthersPosts, CitesCover, NewsIsToldOnce
  <2> QED BY <2>1, MembersAreTheirSessions DEF DeedsAreTheirMembers
<1> QED BY <1>1, MembersInvariant, PTL

-----------------------------------------------------------------------------
(* Least and greatest numbers, and sets of one size *)

LEMMA LeastNumber ==
  ASSUME NEW S \in SUBSET Nat, S # {}
  PROVE  \E i \in S : \A j \in S : i <= j
<1> DEFINE Below == {0..k : k \in S}
<1>1. Below \subseteq FiniteSubsetsOf(Nat) /\ Below # {}
  <2>1. \A k \in S : 0..k \in SUBSET Nat /\ IsFiniteSet(0..k)
    BY FS_Interval
  <2> QED BY <2>1 DEF FiniteSubsetsOf
<1>2. PICK X \in Below : \A Y \in Below : ~(<<Y, X>> \in StrictSubsetOrdering(Nat))
  <2> HIDE DEF Below
  <2> QED BY <1>1, FS_StrictSubsetOrderingWellFounded, WFMin
<1>3. PICK m \in S : X = 0..m
  BY <1>2
<1>4. ASSUME NEW k \in S, k < m PROVE FALSE
  <2>1. 0..k \in SUBSET Nat /\ 0..m \in SUBSET Nat /\ 0..k \subseteq 0..m
    BY <1>4
  <2>2. m \in 0..m /\ m \notin 0..k
    BY <1>4
  <2>3. 0..k # 0..m
    BY <2>2
  <2>4. <<0..k, 0..m>> \in StrictSubsetOrdering(Nat)
    BY <2>1, <2>3 DEF StrictSubsetOrdering
  <2>5. 0..k \in Below
    OBVIOUS
  <2> HIDE DEF Below
  <2> QED BY <1>2, <1>3, <2>4, <2>5
<1>5. \A k \in S : m <= k
  BY <1>4
<1> QED BY <1>5

LEMMA GreatestNumber ==
  ASSUME NEW N \in Nat, NEW S \in SUBSET (0..N), S # {}
  PROVE  \E i \in S : \A j \in S : j <= i
<1> DEFINE T == {N - i : i \in S}
<1>1. T \in SUBSET Nat /\ T # {}
  <2>1. \A i \in S : N - i \in Nat
    OBVIOUS
  <2>2. T \subseteq Nat
    BY <2>1
  <2>3. PICK i : i \in S
    OBVIOUS
  <2>4. N - i \in T
    BY <2>3
  <2> QED BY <2>2, <2>4
<1>2. PICK t \in T : \A u \in T : t <= u
  <2> HIDE DEF T
  <2> QED BY <1>1, LeastNumber
<1>3. PICK i \in S : t = N - i
  OBVIOUS
<1>4. ASSUME NEW j \in S PROVE j <= i
  <2>1. N - j \in T
    OBVIOUS
  <2>2. i \in 0..N /\ j \in 0..N
    OBVIOUS
  <2> HIDE DEF T
  <2>3. t <= N - j
    BY <1>2, <2>1
  <2> QED BY <1>3, <2>2, <2>3
<1> QED BY <1>4

LEMMA SameCount ==
  ASSUME NEW S, NEW T, NEW f \in [S -> T], IsFiniteSet(T),
         \A x, y \in S : f[x] = f[y] => x = y, \A t \in T : \E x \in S : f[x] = t
  PROVE  IsFiniteSet(S) /\ Cardinality(S) = Cardinality(T)
<1>1. f \in Injection(S, T) /\ f \in Surjection(S, T)
  BY DEF Injection, Surjection, IsInjective
<1> QED BY <1>1, FS_Injection

-----------------------------------------------------------------------------
(* The reports on their lane *)

LaneLines == [reports : Seq(Nat), tears : Nat, ends : BOOLEAN]

\* A line has a report, none past the n-th, and each but one for a death that tore it.
LineOK(line, n) ==
  /\ line \in LaneLines /\ line.reports # <<>>
  /\ \A k \in DOMAIN line.reports : line.reports[k] <= n
  /\ Len(line.reports) <= line.tears + 1
  /\ Len(line.reports) <= line.tears \/ line.ends
Earlier(line, other) ==
  \A k \in DOMAIN line.reports, m \in DOMAIN other.reports : line.reports[k] < other.reports[m]

LaneInv ==
  /\ reported \in Nat /\ lane \in Seq(LaneLines)
  /\ \A i \in DOMAIN lane : LineOK(lane[i], reported)
  /\ \A i \in DOMAIN lane : i < Len(lane) => lane[i].ends
  /\ \A i, j \in DOMAIN lane : i < j => Earlier(lane[i], lane[j])

LEMMA LineIs ==
  ASSUME NEW n \in Nat, NEW line, LineOK(line, n)
  PROVE  /\ line.reports \in Seq(Nat) /\ Len(line.reports) \in Nat /\ Len(line.reports) >= 1
         /\ DOMAIN line.reports = 1..Len(line.reports)
         /\ line.tears \in Nat /\ line.ends \in BOOLEAN
         /\ \A k \in DOMAIN line.reports : line.reports[k] \in Nat
<1>1. line.reports \in Seq(Nat) /\ line.reports # <<>> /\ line.tears \in Nat /\ line.ends \in BOOLEAN
  BY DEF LineOK, LaneLines
<1>2. PICK reports : reports = line.reports
  OBVIOUS
<1>3. reports \in Seq(Nat) /\ reports # <<>>
  BY <1>1, <1>2
<1>4. /\ Len(reports) \in Nat /\ Len(reports) >= 1 /\ DOMAIN reports = 1..Len(reports)
      /\ \A k \in DOMAIN reports : reports[k] \in Nat
  BY ONLY <1>3
<1> QED BY <1>1, <1>2, <1>4

LEMMA LineStaysOK ==
  ASSUME NEW n \in Nat, NEW line, LineOK(line, n)
  PROVE  LineOK(line, n + 1)
<1>1. \A k \in DOMAIN line.reports : line.reports[k] <= n + 1
  <2>1. \A k \in DOMAIN line.reports : line.reports[k] \in Nat /\ line.reports[k] <= n
    BY LineIs DEF LineOK
  <2> QED BY <2>1
<1> QED BY <1>1 DEF LineOK

\* A report in a line of its own.
LEMMA FreshLine ==
  ASSUME NEW n \in Nat
  PROVE  LET line == Whole(<<n + 1>>, 0)
         IN  /\ LineOK(line, n + 1) /\ line.ends
             /\ \A other : LineOK(other, n) => Earlier(other, line)
<1> DEFINE line == Whole(<<n + 1>>, 0)
<1>1. /\ line.reports = <<n + 1>> /\ line.tears = 0 /\ line.ends = TRUE
      /\ line = [reports |-> <<n + 1>>, tears |-> 0, ends |-> TRUE]
  BY DEF Whole
<1>2. <<n + 1>> \in Seq(Nat) /\ Len(<<n + 1>>) = 1 /\ <<n + 1>> # <<>> /\ DOMAIN <<n + 1>> = {1} /\ <<n + 1>>[1] = n + 1
  OBVIOUS
<1> HIDE DEF line
<1>3. line \in LaneLines
  BY <1>1, <1>2 DEF LaneLines
<1>4. LineOK(line, n + 1)
  BY <1>1, <1>2, <1>3 DEF LineOK
<1>5. ASSUME NEW other, LineOK(other, n) PROVE Earlier(other, line)
  <2>1. \A k \in DOMAIN other.reports : other.reports[k] \in Nat /\ other.reports[k] <= n
    BY <1>5, LineIs DEF LineOK
  <2> QED BY <1>1, <1>2, <2>1 DEF Earlier
<1> QED BY <1>1, <1>4, <1>5 DEF line

\* A report run into a torn line.
LEMMA LineGoesOn ==
  ASSUME NEW n \in Nat, NEW old, LineOK(old, n), ~old.ends
  PROVE  LET line == Whole(Append(old.reports, n + 1), old.tears)
         IN  /\ LineOK(line, n + 1) /\ line.ends
             /\ \A other : LineOK(other, n) /\ Earlier(other, old) => Earlier(other, line)
<1> DEFINE more == Append(old.reports, n + 1)
           line == Whole(more, old.tears)
<1>1. PICK reports, size, tears : reports = old.reports /\ size = Len(reports) /\ tears = old.tears
  OBVIOUS
<1>2. /\ reports \in Seq(Nat) /\ size \in Nat /\ DOMAIN reports = 1..size /\ tears \in Nat
      /\ \A k \in 1..size : reports[k] \in Nat /\ reports[k] <= n
  BY <1>1, LineIs DEF LineOK
<1>3. size <= tears
  BY <1>1 DEF LineOK
<1>4. /\ more \in Seq(Nat) /\ Len(more) = size + 1 /\ more # <<>> /\ DOMAIN more = 1..(size + 1)
      /\ \A k \in 1..size : more[k] = reports[k]
      /\ more[size + 1] = n + 1
  <2>1. more = Append(reports, n + 1) /\ n + 1 \in Nat /\ size = Len(reports)
    BY <1>1
  <2> HIDE DEF more
  <2> QED BY ONLY <1>2, <2>1
<1> HIDE DEF more
<1>5. \A k \in DOMAIN more : k \in 1..size \/ k = size + 1
  BY ONLY <1>2, <1>4
<1>6. line.reports = more /\ line.tears = tears /\ line.ends = TRUE /\ line \in LaneLines
  BY <1>1, <1>2, <1>4 DEF Whole, LaneLines
<1> HIDE DEF line
<1>7. \A k \in DOMAIN more : more[k] <= n + 1
  BY <1>2, <1>4, <1>5
<1>8. LineOK(line, n + 1)
  <2>1. Len(more) <= tears + 1
    BY <1>2, <1>3, <1>4
  <2> QED BY <1>4, <1>6, <1>7, <2>1 DEF LineOK
<1>9. ASSUME NEW other, LineOK(other, n), Earlier(other, old) PROVE Earlier(other, line)
  <2>1. \A k \in DOMAIN other.reports : other.reports[k] \in Nat /\ other.reports[k] <= n
    BY <1>9, LineIs DEF LineOK
  <2>2. \A k \in DOMAIN other.reports, m \in 1..size : other.reports[k] < reports[m]
    BY <1>1, <1>2, <1>9 DEF Earlier
  <2> SUFFICES ASSUME NEW k \in DOMAIN other.reports, NEW m \in DOMAIN more
               PROVE  other.reports[k] < more[m]
    BY <1>6 DEF Earlier
  <2>3. CASE m \in 1..size
    BY <1>4, <2>2, <2>3
  <2>4. CASE m = size + 1
    BY <1>4, <2>1, <2>4
  <2> QED BY <1>5, <2>3, <2>4
<1> QED BY <1>6, <1>8, <1>9 DEF line, more

\* A line torn.
LEMMA LineTears ==
  ASSUME NEW n \in Nat, NEW old, LineOK(old, n)
  PROVE  LET line == [old EXCEPT !.ends = FALSE, !.tears = @ + 1]
         IN  LineOK(line, n) /\ line.reports = old.reports
<1> DEFINE line == [old EXCEPT !.ends = FALSE, !.tears = @ + 1]
<1>1. old \in LaneLines /\ old.reports \in Seq(Nat) /\ old.tears \in Nat
  BY LineIs DEF LineOK
<1>2. line = [reports |-> old.reports, tears |-> old.tears + 1, ends |-> FALSE]
  <2>1. PICK reports, tears, ends : old = [reports |-> reports, tears |-> tears, ends |-> ends]
    <3>1. old = [reports |-> old.reports, tears |-> old.tears, ends |-> old.ends]
      BY <1>1 DEF LaneLines
    <3> QED BY <3>1
  <2>2. PICK torn, no : torn = [old EXCEPT !.ends = no] /\ no = FALSE
    OBVIOUS
  <2>3. torn = [reports |-> reports, tears |-> tears, ends |-> no]
    BY ONLY <2>1, <2>2
  <2>4. PICK more : more = old.tears + 1
    OBVIOUS
  <2>5. [torn EXCEPT !.tears = more] = [reports |-> reports, tears |-> more, ends |-> no]
    BY ONLY <2>3
  <2>6. line = [torn EXCEPT !.tears = more] /\ old.reports = reports
    BY <2>1, <2>2, <2>4
  <2> QED BY <2>2, <2>4, <2>5, <2>6
<1> HIDE DEF line
<1>3. line.reports = old.reports /\ line.tears = old.tears + 1 /\ line.ends = FALSE
  BY <1>2
<1>4. old.tears + 1 \in Nat
  BY <1>1
<1>5. line \in LaneLines
  BY <1>1, <1>2, <1>4 DEF LaneLines
<1>6. Len(line.reports) <= line.tears /\ Len(line.reports) <= line.tears + 1
  <2>1. PICK size, tears : size = Len(old.reports) /\ tears = old.tears
    OBVIOUS
  <2>2. size \in Nat /\ tears \in Nat /\ size <= tears + 1
    BY <2>1, LineIs DEF LineOK
  <2> QED BY <1>3, <2>1, <2>2
<1>7. line.reports # <<>> /\ \A k \in DOMAIN line.reports : line.reports[k] <= n
  BY <1>3 DEF LineOK
<1> QED BY <1>3, <1>5, <1>6, <1>7 DEF LineOK, line

\* The archive has what the lines have.
LEMMA LinesReachTheArchive == LaneInv => ReportsReachTheArchive
<1> SUFFICES ASSUME LaneInv PROVE ReportsReachTheArchive
  OBVIOUS
<1>1. \A i \in DOMAIN FileChanges : i \in DOMAIN lane /\ LineParses(lane[i]) /\ FileChanges[i] = lane[i].reports[1]
  BY DEF FileChanges
<1>2. \A i \in DOMAIN lane : LineOK(lane[i], reported) /\ 1 \in DOMAIN lane[i].reports
  BY LineIs DEF LaneInv
<1>3. ASSUME NEW i \in DOMAIN FileChanges, NEW k \in DOMAIN FileChanges, i < k
      PROVE  FileChanges[i] < FileChanges[k]
  <2>1. Earlier(lane[i], lane[k])
    BY <1>1, <1>3 DEF LaneInv
  <2> QED BY <1>1, <1>2, <2>1 DEF Earlier
<1>4. ASSUME NEW i \in DOMAIN lane
      PROVE  /\ Len(lane[i].reports) <= lane[i].tears + 1
             /\ lane[i].tears = 0 => i \in DOMAIN FileChanges /\ FileChanges[i] = lane[i].reports[1]
  <2>1. PICK size, tears : size = Len(lane[i].reports) /\ tears = lane[i].tears
    OBVIOUS
  <2>2. size \in Nat /\ size >= 1 /\ tears \in Nat /\ size <= tears + 1
    BY <1>2, <2>1, LineIs DEF LaneInv, LineOK
  <2>3. size <= tears \/ lane[i].ends
    BY <1>2, <2>1 DEF LineOK
  <2>4. ASSUME tears = 0 PROVE LineParses(lane[i])
    <3>1. size = 1 /\ ~(size <= tears)
      BY <2>2, <2>4
    <3> QED BY <2>1, <2>3, <3>1 DEF LineParses
  <2>5. tears = 0 => i \in DOMAIN FileChanges
    BY <2>4 DEF FileChanges
  <2> QED BY <1>1, <2>1, <2>2, <2>5
<1> QED BY <1>3, <1>4 DEF ReportsReachTheArchive

\* A report written takes the end of the lane, in a line of its own or in one torn.
LEMMA AppendedKeeps ==
  ASSUME LaneInv, reported' = reported + 1, lane' = Appended(lane, reported + 1)
  PROVE  LaneInv'
<1> DEFINE size == Len(lane)
<1>1. /\ size \in Nat /\ DOMAIN lane = 1..size /\ reported \in Nat /\ reported' \in Nat
      /\ lane \in Seq(LaneLines)
      /\ \A i \in DOMAIN lane : LineOK(lane[i], reported) /\ LineOK(lane[i], reported')
  BY LineStaysOK DEF LaneInv
<1>2. CASE lane # <<>> /\ ~lane[size].ends
  <2>1. size \in DOMAIN lane
    BY <1>1, <1>2
  <2>2. PICK line : line = Whole(Append(lane[size].reports, reported + 1), lane[size].tears)
    OBVIOUS
  <2>3. /\ LineOK(line, reported') /\ line.ends
        /\ \A i \in DOMAIN lane : Earlier(lane[i], lane[size]) => Earlier(lane[i], line)
    BY <1>1, <1>2, <2>1, <2>2, LineGoesOn
  <2>4. lane' = [lane EXCEPT ![size] = line]
    BY <1>2, <2>2 DEF Appended
  <2>5. /\ lane' \in Seq(LaneLines) /\ Len(lane') = size /\ DOMAIN lane' = DOMAIN lane
        /\ lane'[size] = line /\ \A i \in DOMAIN lane : i # size => lane'[i] = lane[i]
    <3>1. line \in LaneLines
      BY <2>3 DEF LineOK
    <3> QED BY <1>1, <2>1, <2>4, <3>1
  <2>6. \A i \in DOMAIN lane' : LineOK(lane'[i], reported')
    BY <1>1, <2>3, <2>5
  <2>7. \A i \in DOMAIN lane' : i < Len(lane') => lane'[i].ends
    <3> SUFFICES ASSUME NEW i \in DOMAIN lane, i < size PROVE lane'[i].ends
      BY <2>5
    <3>1. lane'[i] = lane[i]
      BY <1>1, <2>5
    <3> QED BY <3>1 DEF LaneInv
  <2>8. ASSUME NEW i \in DOMAIN lane, NEW j \in DOMAIN lane, i < j
        PROVE  Earlier(lane'[i], lane'[j])
    <3>1. lane'[i] = lane[i] /\ Earlier(lane[i], lane[j])
      <4>1. i # size
        BY <1>1, <2>8
      <4> QED BY <2>5, <2>8, <4>1 DEF LaneInv
    <3> QED BY <2>3, <2>5, <3>1
  <2> QED BY <1>1, <2>5, <2>6, <2>7, <2>8 DEF LaneInv
<1>3. CASE ~(lane # <<>> /\ ~lane[size].ends)
  <2>1. PICK line : line = Whole(<<reported + 1>>, 0)
    OBVIOUS
  <2>2. /\ LineOK(line, reported') /\ line.ends
        /\ \A i \in DOMAIN lane : Earlier(lane[i], line)
    BY <1>1, <2>1, FreshLine
  <2>3. lane' = Append(lane, line)
    BY <1>3, <2>1 DEF Appended
  <2>4. /\ lane' \in Seq(LaneLines) /\ Len(lane') = size + 1 /\ DOMAIN lane' = 1..(size + 1)
        /\ lane'[size + 1] = line /\ \A i \in DOMAIN lane : lane'[i] = lane[i]
    <3>1. line \in LaneLines
      BY <2>2 DEF LineOK
    <3> QED BY <1>1, <2>3, <3>1
  <2>5. \A i \in DOMAIN lane' : i \in DOMAIN lane \/ i = size + 1
    BY <1>1, <2>4
  <2>6. \A i \in DOMAIN lane : lane[i].ends
    <3> SUFFICES ASSUME NEW i \in DOMAIN lane PROVE lane[i].ends
      OBVIOUS
    <3>1. lane # <<>> /\ (i < size \/ i = size)
      BY <1>1
    <3> QED BY <1>3, <3>1 DEF LaneInv
  <2>7. \A i \in DOMAIN lane' : LineOK(lane'[i], reported') /\ lane'[i].ends
    BY <1>1, <2>2, <2>4, <2>5, <2>6
  <2>8. ASSUME NEW i \in DOMAIN lane', NEW j \in DOMAIN lane', i < j
        PROVE  Earlier(lane'[i], lane'[j])
    <3>1. i \in DOMAIN lane /\ lane'[i] = lane[i]
      <4>1. i \in DOMAIN lane
        BY <1>1, <2>4, <2>8
      <4> QED BY <2>4, <4>1
    <3>2. CASE j \in DOMAIN lane
      BY <2>4, <2>8, <3>1, <3>2 DEF LaneInv
    <3>3. CASE j = size + 1
      BY <2>2, <2>4, <3>1, <3>3
    <3> QED BY <2>5, <3>2, <3>3
  <2> QED BY <1>1, <2>4, <2>7, <2>8 DEF LaneInv
<1> QED BY <1>2, <1>3

\* A death tears the last line.
LEMMA TearKeeps ==
  ASSUME LaneInv, DiesReporting
  PROVE  LaneInv'
<1> DEFINE size == Len(lane)
<1>1. /\ size \in Nat /\ DOMAIN lane = 1..size /\ size \in DOMAIN lane /\ reported' = reported
      /\ reported \in Nat /\ lane \in Seq(LaneLines)
  BY DEF DiesReporting, LaneInv
<1>2. PICK line : line = [lane[size] EXCEPT !.ends = FALSE, !.tears = @ + 1]
  OBVIOUS
<1>3. LineOK(line, reported) /\ line.reports = lane[size].reports
  <2>1. LineOK(lane[size], reported)
    BY <1>1 DEF LaneInv
  <2> QED BY <1>1, <1>2, <2>1, LineTears
<1>4. lane' = [lane EXCEPT ![size] = line]
  BY <1>2 DEF DiesReporting
<1>5. /\ lane' \in Seq(LaneLines) /\ Len(lane') = size /\ DOMAIN lane' = DOMAIN lane
      /\ lane'[size] = line /\ \A i \in DOMAIN lane : i # size => lane'[i] = lane[i]
  <2>1. line \in LaneLines
    BY <1>3 DEF LineOK
  <2> QED BY <1>1, <1>4, <2>1
<1>6. \A i \in DOMAIN lane : lane'[i].reports = lane[i].reports /\ LineOK(lane'[i], reported)
  BY <1>3, <1>5 DEF LaneInv
<1>7. \A i \in DOMAIN lane : i < size => lane'[i].ends
  <2> SUFFICES ASSUME NEW i \in DOMAIN lane, i < size PROVE lane'[i].ends
    OBVIOUS
  <2>1. lane'[i] = lane[i]
    BY <1>1, <1>5
  <2> QED BY <2>1 DEF LaneInv
<1>8. \A i, j \in DOMAIN lane : i < j => Earlier(lane'[i], lane'[j])
  BY <1>6 DEF LaneInv, Earlier
<1> QED BY <1>1, <1>5, <1>6, <1>7, <1>8 DEF LaneInv

LEMMA LaneStays == LaneInv /\ UNCHANGED <<reported, lane>> => LaneInv'
BY DEF LaneInv

LEMMA ReportLostKeeps ==
  ASSUME LaneInv, reported' = reported + 1, lane' = lane
  PROVE  LaneInv'
BY LineStaysOK DEF LaneInv

LEMMA ChangesKeepTheLane ==
  ASSUME LaneInv, ChangesActs
  PROVE  LaneInv'
<1>1. CASE Edited \/ Reseeds
  BY <1>1, LaneStays DEF Edited, Reseeds
<1>2. CASE DiesReporting
  BY <1>2, TearKeeps
<1>3. CASE SnapshotNow
  <2>1. \/ UNCHANGED <<reported, lane>>
        \/ reported' = reported + 1 /\ (lane' = lane \/ lane' = Appended(lane, reported + 1))
    BY <1>3 DEF SnapshotNow
  <2> QED BY <2>1, LaneStays, AppendedKeeps, ReportLostKeeps
<1> QED BY <1>1, <1>2, <1>3 DEF ChangesActs

-----------------------------------------------------------------------------
(* The table and the walk of a diff *)

Sum(c) == c[1] + c[2]

LEMMA LastCell ==
  ASSUME NEW m \in Nat, NEW n \in Nat, NEW bad \in SUBSET ((1..m) \X (1..n)), bad # {}
  PROVE  \E c \in bad : \A d \in bad : Sum(d) <= Sum(c)
<1> DEFINE sums == {Sum(c) : c \in bad}
<1>1. \A c \in bad : Sum(c) \in 0..(m + n)
  BY DEF Sum
<1>2. sums \in SUBSET (0..(m + n)) /\ sums # {} /\ m + n \in Nat
  BY <1>1
<1>3. PICK s \in sums : \A t \in sums : t <= s
  <2> HIDE DEF sums
  <2> QED BY <1>2, GreatestNumber
<1> QED BY <1>3

\* The next cells are cells, nearer the end.
LEMMA NextCells ==
  ASSUME NEW a \in Seq(AllKinds), NEW b \in Seq(AllKinds), NEW c \in Cells(a, b)
  PROVE  /\ c = <<c[1], c[2]>> /\ c[1] \in 1..(Len(a) + 1) /\ c[2] \in 1..(Len(b) + 1)
         /\ Sum(c) \in 2..(Len(a) + Len(b) + 2)
         /\ ~AtEnd(a, b, c) =>
              /\ c[1] \in DOMAIN a /\ c[2] \in DOMAIN b
              /\ Across(c) \in Cells(a, b) /\ Sum(Across(c)) = Sum(c) + 2
              /\ Down(c) \in Cells(a, b) /\ Sum(Down(c)) = Sum(c) + 1
              /\ Along(c) \in Cells(a, b) /\ Sum(Along(c)) = Sum(c) + 1
<1>1. PICK la \in Nat, lb \in Nat : la = Len(a) /\ lb = Len(b)
  OBVIOUS
<1>2. DOMAIN a = 1..la /\ DOMAIN b = 1..lb
  BY <1>1
<1>3. PICK i \in 1..(la + 1), j \in 1..(lb + 1) : c = <<i, j>>
  BY <1>1 DEF Cells
<1>4. c[1] = i /\ c[2] = j /\ Sum(c) = i + j
  BY <1>3 DEF Sum
<1>5. ASSUME i <= la, j <= lb
      PROVE  /\ <<i + 1, j + 1>> \in Cells(a, b) /\ Sum(<<i + 1, j + 1>>) = i + j + 2
             /\ <<i + 1, j>> \in Cells(a, b) /\ Sum(<<i + 1, j>>) = i + j + 1
             /\ <<i, j + 1>> \in Cells(a, b) /\ Sum(<<i, j + 1>>) = i + j + 1
  BY <1>1, <1>5 DEF Cells, Sum
<1>6. ~AtEnd(a, b, c) => i <= la /\ j <= lb
  BY <1>1, <1>4 DEF AtEnd
<1> QED BY <1>1, <1>2, <1>3, <1>4, <1>5, <1>6 DEF Across, Down, Along

Rules(a, b, base, rule, f) ==
  \A c \in Cells(a, b) :
    f[c] = IF AtEnd(a, b, c) THEN base[c] ELSE rule[c][<<f[Across(c)], f[Down(c)], f[Along(c)]>>]

\* A function on the cells that each cell's rule makes of the three next to it.
LEMMA TableExists ==
  ASSUME NEW a \in Seq(AllKinds), NEW b \in Seq(AllKinds), NEW V,
         NEW base \in [Cells(a, b) -> V], NEW rule \in [Cells(a, b) -> [V \X V \X V -> V]]
  PROVE  \E f \in [Cells(a, b) -> V] : Rules(a, b, base, rule, f)
<1> DEFINE N == Len(a) + Len(b) + 2
           Made(f, c) == f[c] = IF AtEnd(a, b, c) THEN base[c]
                                ELSE rule[c][<<f[Across(c)], f[Down(c)], f[Along(c)]>>]
           MadeFrom(f, s) == \A c \in Cells(a, b) : s <= Sum(c) => Made(f, c)
           good == {s \in 0..(N + 1) : \E f \in [Cells(a, b) -> V] : MadeFrom(f, s)}
<1>1. N \in Nat
  OBVIOUS
<1>2. \A c \in Cells(a, b) : Sum(c) \in 2..N
  BY NextCells
<1>3. N + 1 \in good
  <2>1. base \in [Cells(a, b) -> V] /\ MadeFrom(base, N + 1)
    BY <1>1, <1>2
  <2> HIDE DEF N, MadeFrom
  <2> QED BY <1>1, <2>1
<1>4. ASSUME NEW s \in good, s # 0 PROVE s - 1 \in good
  <2>1. PICK f \in [Cells(a, b) -> V] : MadeFrom(f, s)
    OBVIOUS
  <2>2. s \in Nat /\ s - 1 \in 0..(N + 1)
    BY <1>1, <1>4
  <2> DEFINE next(c) == <<f[Across(c)], f[Down(c)], f[Along(c)]>>
             value(c) == IF AtEnd(a, b, c) THEN base[c] ELSE rule[c][next(c)]
             g == [c \in Cells(a, b) |-> IF s <= Sum(c) THEN f[c] ELSE value(c)]
  <2>3. ASSUME NEW c \in Cells(a, b), ~AtEnd(a, b, c)
        PROVE  next(c) \in V \X V \X V
    BY <2>3, NextCells
  <2>4. \A c \in Cells(a, b) : value(c) \in V
    <3> SUFFICES ASSUME NEW c \in Cells(a, b) PROVE value(c) \in V
      OBVIOUS
    <3>1. rule[c] \in [V \X V \X V -> V] /\ base[c] \in V
      OBVIOUS
    <3> HIDE DEF next
    <3> QED BY <2>3, <3>1
  <2>5. g \in [Cells(a, b) -> V]
    <3> HIDE DEF value
    <3> QED BY <2>4
  <2>6. ASSUME NEW c \in Cells(a, b), s - 1 <= Sum(c) PROVE Made(g, c)
    <3>1. Sum(c) \in Nat
      BY NextCells
    <3>2. ASSUME ~AtEnd(a, b, c)
          PROVE  g[Across(c)] = f[Across(c)] /\ g[Down(c)] = f[Down(c)] /\ g[Along(c)] = f[Along(c)]
      <4>1. /\ Across(c) \in Cells(a, b) /\ s <= Sum(Across(c))
            /\ Down(c) \in Cells(a, b) /\ s <= Sum(Down(c))
            /\ Along(c) \in Cells(a, b) /\ s <= Sum(Along(c))
        <5>1. /\ Across(c) \in Cells(a, b) /\ Sum(Across(c)) = Sum(c) + 2
              /\ Down(c) \in Cells(a, b) /\ Sum(Down(c)) = Sum(c) + 1
              /\ Along(c) \in Cells(a, b) /\ Sum(Along(c)) = Sum(c) + 1
          BY <3>2, NextCells
        <5>2. s <= Sum(c) + 2 /\ s <= Sum(c) + 1
          BY <2>2, <2>6, <3>1
        <5> QED BY <5>1, <5>2
      <4> HIDE DEF value
      <4> QED BY <4>1
    <3>3. g[c] = value(c)
      <4>1. CASE s <= Sum(c)
        <5>1. f[c] = value(c)
          BY <2>1, <4>1
        <5> HIDE DEF value
        <5> QED BY <4>1, <5>1
      <4>2. CASE ~(s <= Sum(c))
        <5> HIDE DEF value
        <5> QED BY <4>2
      <4> QED BY <4>1, <4>2
    <3> HIDE DEF g
    <3> QED BY <3>2, <3>3
  <2> HIDE DEF g, Made, N
  <2>7. MadeFrom(g, s - 1)
    BY <2>6
  <2> HIDE DEF MadeFrom
  <2> QED BY <2>2, <2>5, <2>7
<1>5. 0 \in good
  <2> HIDE DEF good
  <2>1. PICK s \in good : \A t \in good : s <= t
    <3>1. 0..(N + 1) \subseteq Nat
      BY <1>1
    <3>2. good \in SUBSET Nat /\ good # {}
      BY <1>3, <3>1 DEF good
    <3> QED BY <3>2, LeastNumber
  <2>2. s \in Nat
    BY <1>1 DEF good
  <2>3. s # 0 => s <= s - 1
    BY <1>4, <2>1
  <2> QED BY <2>1, <2>2, <2>3
<1>6. PICK f \in [Cells(a, b) -> V] : MadeFrom(f, 0)
  BY <1>5
<1>7. \A c \in Cells(a, b) : 0 <= Sum(c)
  BY <1>2
<1> QED BY <1>6, <1>7 DEF Rules

LEMMA LargerIs == \A m, n \in Nat : Larger(m, n) \in Nat /\ m <= Larger(m, n) /\ n <= Larger(m, n)
                                  /\ (Larger(m, n) = m \/ Larger(m, n) = n)
BY DEF Larger

LEMMA CommonIs ==
  ASSUME NEW a \in Seq(AllKinds), NEW b \in Seq(AllKinds)
  PROVE  /\ Common(a, b) \in [Cells(a, b) -> Nat]
         /\ \A c \in Cells(a, b) :
              Common(a, b)[c] = IF AtEnd(a, b, c) THEN 0
                                ELSE IF Same(a, b, c) THEN Common(a, b)[Across(c)] + 1
                                ELSE Larger(Common(a, b)[Down(c)], Common(a, b)[Along(c)])
<1> DEFINE value(f, c) == IF AtEnd(a, b, c) THEN 0
                          ELSE IF Same(a, b, c) THEN f[Across(c)] + 1
                          ELSE Larger(f[Down(c)], f[Along(c)])
           step(c, t) == IF Same(a, b, c) THEN t[1] + 1 ELSE Larger(t[2], t[3])
           base == [c \in Cells(a, b) |-> 0]
           rule == [c \in Cells(a, b) |-> [t \in Nat \X Nat \X Nat |-> step(c, t)]]
<1>1. base \in [Cells(a, b) -> Nat]
  OBVIOUS
<1>2. rule \in [Cells(a, b) -> [Nat \X Nat \X Nat -> Nat]]
  <2>1. \A c \in Cells(a, b) : \A t \in Nat \X Nat \X Nat : step(c, t) \in Nat
    <3> SUFFICES ASSUME NEW c \in Cells(a, b), NEW t \in Nat \X Nat \X Nat PROVE step(c, t) \in Nat
      OBVIOUS
    <3>1. PICK i \in Nat, j \in Nat, k \in Nat : t[1] = i /\ t[2] = j /\ t[3] = k
      OBVIOUS
    <3> QED BY <3>1, LargerIs
  <2> HIDE DEF step
  <2> QED BY <2>1
<1>3. PICK f \in [Cells(a, b) -> Nat] : Rules(a, b, base, rule, f)
  <2> HIDE DEF base, rule
  <2> QED BY <1>1, <1>2, TableExists
<1>4. ASSUME NEW c \in Cells(a, b) PROVE f[c] = value(f, c)
  <2>1. CASE AtEnd(a, b, c)
    BY <1>3, <2>1 DEF Rules
  <2>2. CASE ~AtEnd(a, b, c)
    <3>1. f[Across(c)] \in Nat /\ f[Down(c)] \in Nat /\ f[Along(c)] \in Nat
      BY <2>2, NextCells
    <3>2. <<f[Across(c)], f[Down(c)], f[Along(c)]>> \in Nat \X Nat \X Nat
      BY <3>1
    <3>3. f[c] = rule[c][<<f[Across(c)], f[Down(c)], f[Along(c)]>>]
      BY <1>3, <2>2 DEF Rules
    <3>4. rule[c][<<f[Across(c)], f[Down(c)], f[Along(c)]>>] = step(c, <<f[Across(c)], f[Down(c)], f[Along(c)]>>)
      <4> HIDE DEF step
      <4> QED BY <3>2
    <3> HIDE DEF rule
    <3> QED BY <2>2, <3>3, <3>4
  <2> QED BY <2>1, <2>2
<1>5. f = [c \in Cells(a, b) |-> value(f, c)]
  <2> HIDE DEF value
  <2>1. f = [c \in Cells(a, b) |-> f[c]]
    OBVIOUS
  <2> QED BY <1>4, <2>1
<1>6. Common(a, b) = [c \in Cells(a, b) |-> value(Common(a, b), c)]
  <2>1. Common(a, b) = CHOOSE g : g = [c \in Cells(a, b) |-> value(g, c)]
    BY DEF Common
  <2> HIDE DEF value
  <2> QED BY <1>5, <2>1
<1>7. PICK g : g = Common(a, b)
  OBVIOUS
<1>8. \A c \in Cells(a, b) : g[c] = value(g, c)
  <2> HIDE DEF value
  <2> QED BY <1>6, <1>7
<1>9. \A c \in Cells(a, b) : g[c] \in Nat
  <2> DEFINE bad == {c \in Cells(a, b) : g[c] \notin Nat}
  <2>1. ASSUME bad # {} PROVE FALSE
    <3>1. PICK c \in bad : \A d \in bad : Sum(d) <= Sum(c)
      <4>1. bad \in SUBSET Cells(a, b) /\ Len(a) + 1 \in Nat /\ Len(b) + 1 \in Nat
        OBVIOUS
      <4> HIDE DEF bad
      <4> QED BY <2>1, <4>1, LastCell DEF Cells
    <3>2. c \in Cells(a, b) /\ g[c] \notin Nat /\ Sum(c) \in Nat
      BY NextCells
    <3>3. ASSUME ~AtEnd(a, b, c)
          PROVE  g[Across(c)] \in Nat /\ g[Down(c)] \in Nat /\ g[Along(c)] \in Nat
      <4>1. /\ Across(c) \in Cells(a, b) /\ ~(Sum(Across(c)) <= Sum(c))
            /\ Down(c) \in Cells(a, b) /\ ~(Sum(Down(c)) <= Sum(c))
            /\ Along(c) \in Cells(a, b) /\ ~(Sum(Along(c)) <= Sum(c))
        <5>1. /\ Across(c) \in Cells(a, b) /\ Sum(Across(c)) = Sum(c) + 2
              /\ Down(c) \in Cells(a, b) /\ Sum(Down(c)) = Sum(c) + 1
              /\ Along(c) \in Cells(a, b) /\ Sum(Along(c)) = Sum(c) + 1
          BY <3>2, <3>3, NextCells
        <5>2. ~(Sum(c) + 2 <= Sum(c)) /\ ~(Sum(c) + 1 <= Sum(c))
          BY <3>2
        <5> QED BY <5>1, <5>2
      <4>2. Across(c) \notin bad /\ Down(c) \notin bad /\ Along(c) \notin bad
        <5> HIDE DEF bad
        <5> QED BY <3>1, <4>1
      <4> QED BY <4>1, <4>2
    <3>4. CASE AtEnd(a, b, c)
      BY <1>8, <3>2, <3>4
    <3>5. CASE ~AtEnd(a, b, c)
      <4>1. PICK i \in Nat, j \in Nat, k \in Nat : i = g[Across(c)] /\ j = g[Down(c)] /\ k = g[Along(c)]
        BY <3>3, <3>5
      <4>2. g[c] = i + 1 \/ g[c] = Larger(j, k)
        BY <1>8, <3>2, <3>5, <4>1
      <4>3. i + 1 \in Nat
        OBVIOUS
      <4>4. Larger(j, k) \in Nat
        BY LargerIs
      <4> QED BY <3>2, <4>2, <4>3, <4>4
    <3> QED BY <3>4, <3>5
  <2> QED BY <2>1
<1>10. g = [c \in Cells(a, b) |-> g[c]]
  <2> HIDE DEF value
  <2>1. PICK h : h = [c \in Cells(a, b) |-> value(g, c)]
    OBVIOUS
  <2>2. g = h
    BY <1>6, <1>7, <2>1
  <2> QED BY <2>1, <2>2
<1>11. g \in [Cells(a, b) -> Nat]
  BY <1>9, <1>10
<1> QED BY <1>7, <1>8, <1>11

-----------------------------------------------------------------------------

Firsts(pairs) == {c[1] : c \in pairs}
Seconds(pairs) == {c[2] : c \in pairs}

\* What a walk from a cell on accounts for, by what goes, comes and stays.
AccountFrom(a, b, c, goes, comes, stays) ==
  /\ stays \in SUBSET ((c[1]..Len(a)) \X (c[2]..Len(b)))
  /\ InStep(stays, a, b)
  /\ goes = (c[1]..Len(a)) \ Firsts(stays)
  /\ comes = (c[2]..Len(b)) \ Seconds(stays)

LEMMA AccountAtEnd ==
  ASSUME NEW a, NEW b, NEW c
  PROVE  AccountFrom(a, b, c, c[1]..Len(a), c[2]..Len(b), {})
BY DEF AccountFrom, Firsts, Seconds, InStep

LEMMA CellBefore ==
  ASSUME NEW a \in Seq(AllKinds), NEW b \in Seq(AllKinds), NEW c \in Cells(a, b), ~AtEnd(a, b, c)
  PROVE  \E la \in Nat, lb \in Nat, i \in Nat, j \in Nat :
           la = Len(a) /\ lb = Len(b) /\ i = c[1] /\ j = c[2] /\ i <= la /\ j <= lb /\ c = <<i, j>>
<1>1. PICK la \in Nat, lb \in Nat : la = Len(a) /\ lb = Len(b)
  OBVIOUS
<1>2. c = <<c[1], c[2]>> /\ c[1] \in 1..(la + 1) /\ c[2] \in 1..(lb + 1)
  BY <1>1, NextCells
<1>3. PICK i, j : i = c[1] /\ j = c[2]
  OBVIOUS
<1>4. ~(i > la) /\ ~(j > lb)
  BY <1>1, <1>3 DEF AtEnd
<1>5. i \in Nat /\ j \in Nat /\ i <= la /\ j <= lb /\ c = <<i, j>>
  BY <1>2, <1>3, <1>4
<1> QED BY <1>1, <1>3, <1>5

LEMMA AccountStays ==
  ASSUME NEW a \in Seq(AllKinds), NEW b \in Seq(AllKinds), NEW c \in Cells(a, b), ~AtEnd(a, b, c), Same(a, b, c),
         NEW goes, NEW comes, NEW stays, AccountFrom(a, b, Across(c), goes, comes, stays)
  PROVE  AccountFrom(a, b, c, goes, comes, stays \cup {c}) /\ c \notin stays
<1>1. PICK la \in Nat, lb \in Nat, i \in Nat, j \in Nat :
        la = Len(a) /\ lb = Len(b) /\ i = c[1] /\ j = c[2] /\ i <= la /\ j <= lb /\ c = <<i, j>>
  BY CellBefore
<1>2. Across(c)[1] = i + 1 /\ Across(c)[2] = j + 1
  BY <1>1 DEF Across
<1>3. stays \in SUBSET (((i + 1)..la) \X ((j + 1)..lb)) /\ InStep(stays, a, b)
  BY <1>1, <1>2 DEF AccountFrom
<1>4. \A d \in stays : d[1] \in (i + 1)..la /\ d[2] \in (j + 1)..lb
  BY <1>3
<1>5. \A d \in stays : i < d[1] /\ j < d[2] /\ ~(d[1] < i) /\ ~(d[2] < j)
  BY <1>4
<1>6. InStep(stays \cup {c}, a, b)
  <2>1. c[1] = i /\ c[2] = j /\ ~(i < i) /\ ~(j < j)
    BY <1>1
  <2> QED BY <1>3, <1>5, <2>1 DEF InStep
<1>7. stays \cup {c} \in SUBSET ((i..la) \X (j..lb))
  BY <1>1, <1>3
<1>8. c \notin stays
  BY <1>1, <1>5
<1>9. goes = (i..la) \ Firsts(stays \cup {c})
  <2>1. goes = ((i + 1)..la) \ Firsts(stays)
    BY <1>1, <1>2 DEF AccountFrom
  <2>2. Firsts(stays \cup {c}) = Firsts(stays) \cup {i}
    BY <1>1 DEF Firsts
  <2>3. i..la = ((i + 1)..la) \cup {i} /\ i \notin (i + 1)..la
    BY <1>1
  <2> QED BY <2>1, <2>2, <2>3
<1>10. comes = (j..lb) \ Seconds(stays \cup {c})
  <2>1. comes = ((j + 1)..lb) \ Seconds(stays)
    BY <1>1, <1>2 DEF AccountFrom
  <2>2. Seconds(stays \cup {c}) = Seconds(stays) \cup {j}
    BY <1>1 DEF Seconds
  <2>3. j..lb = ((j + 1)..lb) \cup {j} /\ j \notin (j + 1)..lb
    BY <1>1
  <2> QED BY <2>1, <2>2, <2>3
<1> QED BY <1>1, <1>6, <1>7, <1>8, <1>9, <1>10 DEF AccountFrom

LEMMA AccountGoes ==
  ASSUME NEW a \in Seq(AllKinds), NEW b \in Seq(AllKinds), NEW c \in Cells(a, b), ~AtEnd(a, b, c),
         NEW goes, NEW comes, NEW stays, AccountFrom(a, b, Down(c), goes, comes, stays)
  PROVE  AccountFrom(a, b, c, goes \cup {c[1]}, comes, stays)
<1>1. PICK la \in Nat, lb \in Nat, i \in Nat, j \in Nat :
        la = Len(a) /\ lb = Len(b) /\ i = c[1] /\ j = c[2] /\ i <= la /\ j <= lb /\ c = <<i, j>>
  BY CellBefore
<1>2. Down(c)[1] = i + 1 /\ Down(c)[2] = j
  BY <1>1 DEF Down
<1>3. /\ stays \in SUBSET (((i + 1)..la) \X (j..lb)) /\ InStep(stays, a, b)
      /\ goes = ((i + 1)..la) \ Firsts(stays) /\ comes = (j..lb) \ Seconds(stays)
  BY <1>1, <1>2 DEF AccountFrom
<1>4. i..la = ((i + 1)..la) \cup {i} /\ i \notin (i + 1)..la
  BY <1>1
<1>5. i \notin Firsts(stays)
  BY <1>3, <1>4 DEF Firsts
<1>6. goes \cup {i} = (i..la) \ Firsts(stays)
  BY <1>3, <1>4, <1>5
<1>7. stays \in SUBSET ((i..la) \X (j..lb))
  BY <1>3, <1>4
<1> QED BY <1>1, <1>3, <1>6, <1>7 DEF AccountFrom

LEMMA AccountComes ==
  ASSUME NEW a \in Seq(AllKinds), NEW b \in Seq(AllKinds), NEW c \in Cells(a, b), ~AtEnd(a, b, c),
         NEW goes, NEW comes, NEW stays, AccountFrom(a, b, Along(c), goes, comes, stays)
  PROVE  AccountFrom(a, b, c, goes, comes \cup {c[2]}, stays)
<1>1. PICK la \in Nat, lb \in Nat, i \in Nat, j \in Nat :
        la = Len(a) /\ lb = Len(b) /\ i = c[1] /\ j = c[2] /\ i <= la /\ j <= lb /\ c = <<i, j>>
  BY CellBefore
<1>2. Along(c)[1] = i /\ Along(c)[2] = j + 1
  BY <1>1 DEF Along
<1>3. /\ stays \in SUBSET ((i..la) \X ((j + 1)..lb)) /\ InStep(stays, a, b)
      /\ goes = (i..la) \ Firsts(stays) /\ comes = ((j + 1)..lb) \ Seconds(stays)
  BY <1>1, <1>2 DEF AccountFrom
<1>4. j..lb = ((j + 1)..lb) \cup {j} /\ j \notin (j + 1)..lb
  BY <1>1
<1>5. j \notin Seconds(stays)
  BY <1>3, <1>4 DEF Seconds
<1>6. comes \cup {j} = (j..lb) \ Seconds(stays)
  BY <1>3, <1>4, <1>5
<1>7. stays \in SUBSET ((i..la) \X (j..lb))
  BY <1>3, <1>4
<1> QED BY <1>1, <1>3, <1>6, <1>7 DEF AccountFrom

-----------------------------------------------------------------------------

Diffs == [goes : SUBSET Nat, comes : SUBSET Nat, stays : SUBSET (Nat \X Nat)]

LEMMA DiffMoves ==
  ASSUME NEW d \in Diffs, NEW i \in Nat, NEW c \in Nat \X Nat
  PROVE  /\ [d EXCEPT !.goes = @ \cup {i}] = [goes |-> d.goes \cup {i}, comes |-> d.comes, stays |-> d.stays]
         /\ [d EXCEPT !.comes = @ \cup {i}] = [goes |-> d.goes, comes |-> d.comes \cup {i}, stays |-> d.stays]
         /\ [d EXCEPT !.stays = @ \cup {c}] = [goes |-> d.goes, comes |-> d.comes, stays |-> d.stays \cup {c}]
         /\ [d EXCEPT !.goes = @ \cup {i}] \in Diffs
         /\ [d EXCEPT !.comes = @ \cup {i}] \in Diffs
         /\ [d EXCEPT !.stays = @ \cup {c}] \in Diffs
<1>1. PICK goes \in SUBSET Nat, comes \in SUBSET Nat, stays \in SUBSET (Nat \X Nat) :
        d = [goes |-> goes, comes |-> comes, stays |-> stays]
  BY DEF Diffs
<1>2. PICK g, m, s : g = goes \cup {i} /\ m = comes \cup {i} /\ s = stays \cup {c}
  OBVIOUS
<1>3. g \in SUBSET Nat /\ m \in SUBSET Nat /\ s \in SUBSET (Nat \X Nat)
  BY <1>2
<1>4. [d EXCEPT !.goes = g] = [goes |-> g, comes |-> comes, stays |-> stays]
  BY ONLY <1>1
<1>5. [d EXCEPT !.comes = m] = [goes |-> goes, comes |-> m, stays |-> stays]
  BY ONLY <1>1
<1>6. [d EXCEPT !.stays = s] = [goes |-> goes, comes |-> comes, stays |-> s]
  BY ONLY <1>1
<1>7. d.goes = goes /\ d.comes = comes /\ d.stays = stays
  BY ONLY <1>1
<1> QED BY <1>2, <1>3, <1>4, <1>5, <1>6, <1>7 DEF Diffs

\* The walk from a cell on, by that from the next.
WalkStep(a, b, w, c) ==
  IF AtEnd(a, b, c) THEN Leftover(a, b, c)
  ELSE IF Same(a, b, c) THEN [w[Across(c)] EXCEPT !.stays = @ \cup {c}]
  ELSE IF DropsFirst(Common(a, b), c) THEN [w[Down(c)] EXCEPT !.goes = @ \cup {c[1]}]
  ELSE [w[Along(c)] EXCEPT !.comes = @ \cup {c[2]}]

LEMMA WalkIs ==
  ASSUME NEW a \in Seq(AllKinds), NEW b \in Seq(AllKinds)
  PROVE  \E w : /\ Walk(a, b) = w[<<1, 1>>]
               /\ \A c \in Cells(a, b) : w[c] = WalkStep(a, b, w, c)
<1> DEFINE step(c, t) ==
             IF Same(a, b, c) THEN [t[1] EXCEPT !.stays = @ \cup {c}]
             ELSE IF DropsFirst(Common(a, b), c) THEN [t[2] EXCEPT !.goes = @ \cup {c[1]}]
             ELSE [t[3] EXCEPT !.comes = @ \cup {c[2]}]
           base == [c \in Cells(a, b) |-> Leftover(a, b, c)]
           rule == [c \in Cells(a, b) |-> [t \in Diffs \X Diffs \X Diffs |-> step(c, t)]]
<1>1. base \in [Cells(a, b) -> Diffs]
  <2> SUFFICES ASSUME NEW c \in Cells(a, b) PROVE Leftover(a, b, c) \in Diffs
    OBVIOUS
  <2>1. PICK i, j, la, lb : i = c[1] /\ j = c[2] /\ la = Len(a) /\ lb = Len(b)
    OBVIOUS
  <2>3. la \in Nat /\ lb \in Nat /\ i \in 1..(la + 1) /\ j \in 1..(lb + 1)
    BY <2>1, NextCells
  <2>2. i..la \subseteq Nat /\ j..lb \subseteq Nat
    BY <2>3
  <2> QED BY <2>1, <2>2 DEF Leftover, Diffs
<1>2. rule \in [Cells(a, b) -> [Diffs \X Diffs \X Diffs -> Diffs]]
  <2>1. ASSUME NEW c \in Cells(a, b), NEW t \in Diffs \X Diffs \X Diffs PROVE step(c, t) \in Diffs
    <3>1. t[1] \in Diffs /\ t[2] \in Diffs /\ t[3] \in Diffs
      OBVIOUS
    <3>2. c[1] \in Nat /\ c[2] \in Nat /\ c \in Nat \X Nat
      <4>1. c = <<c[1], c[2]>> /\ c[1] \in 1..(Len(a) + 1) /\ c[2] \in 1..(Len(b) + 1)
        BY NextCells
      <4>2. c[1] \in Nat /\ c[2] \in Nat
        BY <4>1
      <4> QED BY <4>1, <4>2
    <3>3. /\ [t[1] EXCEPT !.stays = @ \cup {c}] \in Diffs
          /\ [t[2] EXCEPT !.goes = @ \cup {c[1]}] \in Diffs
          /\ [t[3] EXCEPT !.comes = @ \cup {c[2]}] \in Diffs
      BY <3>1, <3>2, DiffMoves
    <3> QED BY <3>3
  <2> HIDE DEF step
  <2> QED BY <2>1
<1>3. PICK f \in [Cells(a, b) -> Diffs] : Rules(a, b, base, rule, f)
  <2> HIDE DEF base, rule
  <2> QED BY <1>1, <1>2, TableExists
<1>4. ASSUME NEW c \in Cells(a, b) PROVE f[c] = WalkStep(a, b, f, c)
  <2>1. CASE AtEnd(a, b, c)
    BY <1>3, <2>1 DEF Rules, WalkStep
  <2>2. CASE ~AtEnd(a, b, c)
    <3>1. f[Across(c)] \in Diffs /\ f[Down(c)] \in Diffs /\ f[Along(c)] \in Diffs
      BY <2>2, NextCells
    <3> DEFINE t == <<f[Across(c)], f[Down(c)], f[Along(c)]>>
    <3>2. t \in Diffs \X Diffs \X Diffs
      BY <3>1
    <3>3. f[c] = rule[c][t]
      <4> HIDE DEF rule, base
      <4> QED BY <1>3, <2>2 DEF Rules
    <3>4. rule[c][t] = step(c, t)
      <4> HIDE DEF step, t
      <4> QED BY <3>2
    <3>5. t[1] = f[Across(c)] /\ t[2] = f[Down(c)] /\ t[3] = f[Along(c)]
      OBVIOUS
    <3> HIDE DEF rule, t
    <3> QED BY <2>2, <3>3, <3>4, <3>5 DEF WalkStep
  <2> QED BY <2>1, <2>2
<1>5. f = [c \in Cells(a, b) |-> WalkStep(a, b, f, c)]
  <2>1. f = [c \in Cells(a, b) |-> f[c]]
    OBVIOUS
  <2> QED BY <1>4, <2>1
<1>6. PICK w : w = CHOOSE g : g = [c \in Cells(a, b) |-> WalkStep(a, b, g, c)]
  OBVIOUS
<1>7. w = [c \in Cells(a, b) |-> WalkStep(a, b, w, c)]
  BY <1>5, <1>6
<1>8. \A c \in Cells(a, b) : w[c] = WalkStep(a, b, w, c)
  BY <1>7
<1>9. Walk(a, b) = w[<<1, 1>>]
  BY <1>6 DEF Walk, WalkStep
<1> QED BY <1>8, <1>9

-----------------------------------------------------------------------------

WalkOK(a, b, c, d) ==
  /\ d \in Diffs /\ AccountFrom(a, b, c, d.goes, d.comes, d.stays)
  /\ IsFiniteSet(d.stays) /\ Cardinality(d.stays) = Common(a, b)[c]

LEMMA WalkStepOK ==
  ASSUME NEW a \in Seq(AllKinds), NEW b \in Seq(AllKinds), NEW c \in Cells(a, b), NEW w,
         ~AtEnd(a, b, c) => /\ WalkOK(a, b, Across(c), w[Across(c)])
                            /\ WalkOK(a, b, Down(c), w[Down(c)])
                            /\ WalkOK(a, b, Along(c), w[Along(c)])
  PROVE  WalkOK(a, b, c, WalkStep(a, b, w, c))
<1> DEFINE lcs == Common(a, b)
<1>1. c[1] \in Nat /\ c[2] \in Nat /\ c \in Nat \X Nat
  <2>1. c = <<c[1], c[2]>> /\ c[1] \in 1..(Len(a) + 1) /\ c[2] \in 1..(Len(b) + 1)
    BY NextCells
  <2>2. c[1] \in Nat /\ c[2] \in Nat
    BY <2>1
  <2> QED BY <2>1, <2>2
<1>2. lcs[c] = IF AtEnd(a, b, c) THEN 0
               ELSE IF Same(a, b, c) THEN lcs[Across(c)] + 1 ELSE Larger(lcs[Down(c)], lcs[Along(c)])
  BY CommonIs
<1>3. ~AtEnd(a, b, c) => lcs[Across(c)] \in Nat /\ lcs[Down(c)] \in Nat /\ lcs[Along(c)] \in Nat
  BY NextCells, CommonIs
<1> HIDE DEF lcs
<1>4. CASE AtEnd(a, b, c)
  <2>1. WalkStep(a, b, w, c) = Leftover(a, b, c)
    BY <1>4 DEF WalkStep
  <2>2. PICK goes, comes, stays : goes = c[1]..Len(a) /\ comes = c[2]..Len(b) /\ stays = {}
    OBVIOUS
  <2>3. goes \in SUBSET Nat /\ comes \in SUBSET Nat /\ stays \in SUBSET (Nat \X Nat)
    <3>1. Len(a) \in Nat /\ Len(b) \in Nat
      OBVIOUS
    <3> QED BY <1>1, <2>2, <3>1
  <2>4. PICK d : d = [goes |-> goes, comes |-> comes, stays |-> stays]
    OBVIOUS
  <2>5. d \in Diffs /\ d.goes = goes /\ d.comes = comes /\ d.stays = stays
    BY <2>3, <2>4 DEF Diffs
  <2>6. AccountFrom(a, b, c, goes, comes, stays)
    BY <2>2, AccountAtEnd
  <2>7. IsFiniteSet(stays) /\ Cardinality(stays) = lcs[c]
    BY <1>2, <1>4, <2>2, FS_EmptySet
  <2> QED BY <2>1, <2>2, <2>4, <2>5, <2>6, <2>7 DEF Leftover, WalkOK, lcs
<1>5. CASE ~AtEnd(a, b, c) /\ Same(a, b, c)
  <2>1. PICK d : d = w[Across(c)]
    OBVIOUS
  <2>2. WalkOK(a, b, Across(c), d)
    BY <1>5, <2>1
  <2>3. WalkStep(a, b, w, c) = [d EXCEPT !.stays = @ \cup {c}]
    BY <1>5, <2>1 DEF WalkStep
  <2>4. PICK e : e = [d EXCEPT !.stays = @ \cup {c}]
    OBVIOUS
  <2>5. e \in Diffs /\ e.goes = d.goes /\ e.comes = d.comes /\ e.stays = d.stays \cup {c}
    <3>1. e = [goes |-> d.goes, comes |-> d.comes, stays |-> d.stays \cup {c}] /\ e \in Diffs
      BY <1>1, <2>2, <2>4, DiffMoves DEF WalkOK
    <3> QED BY <3>1
  <2>6. AccountFrom(a, b, c, e.goes, e.comes, e.stays) /\ c \notin d.stays
    <3>1. AccountFrom(a, b, Across(c), d.goes, d.comes, d.stays)
      BY <2>2 DEF WalkOK
    <3>2. AccountFrom(a, b, c, d.goes, d.comes, d.stays \cup {c}) /\ c \notin d.stays
      BY <1>5, <3>1, AccountStays
    <3> QED BY <2>5, <3>2
  <2>7. IsFiniteSet(e.stays) /\ Cardinality(e.stays) = Cardinality(d.stays) + 1
    <3>1. PICK stays : stays = d.stays
      OBVIOUS
    <3>2. IsFiniteSet(stays) /\ c \notin stays
      BY <2>2, <2>6, <3>1 DEF WalkOK
    <3>3. IsFiniteSet(stays \cup {c}) /\ Cardinality(stays \cup {c}) = Cardinality(stays) + 1
      BY <3>2, FS_AddElement
    <3> QED BY <2>5, <3>1, <3>3
  <2>8. Cardinality(e.stays) = lcs[c]
    BY <1>2, <1>5, <2>2, <2>7 DEF WalkOK, lcs
  <2> QED BY <2>3, <2>4, <2>5, <2>6, <2>7, <2>8 DEF WalkOK, lcs
<1>6. CASE ~AtEnd(a, b, c) /\ ~Same(a, b, c) /\ DropsFirst(lcs, c)
  <2>1. PICK d : d = w[Down(c)]
    OBVIOUS
  <2>2. WalkOK(a, b, Down(c), d)
    BY <1>6, <2>1
  <2>3. WalkStep(a, b, w, c) = [d EXCEPT !.goes = @ \cup {c[1]}]
    BY <1>6, <2>1 DEF WalkStep, lcs
  <2>4. PICK e : e = [d EXCEPT !.goes = @ \cup {c[1]}]
    OBVIOUS
  <2>5. e \in Diffs /\ e.goes = d.goes \cup {c[1]} /\ e.comes = d.comes /\ e.stays = d.stays
    <3>1. e = [goes |-> d.goes \cup {c[1]}, comes |-> d.comes, stays |-> d.stays] /\ e \in Diffs
      BY <1>1, <2>2, <2>4, DiffMoves DEF WalkOK
    <3> QED BY <3>1
  <2>6. AccountFrom(a, b, c, e.goes, e.comes, e.stays)
    BY <1>6, <2>2, <2>5, AccountGoes DEF WalkOK
  <2>7. lcs[c] = lcs[Down(c)]
    BY <1>2, <1>3, <1>6 DEF DropsFirst, Larger
  <2> QED BY <2>2, <2>3, <2>4, <2>5, <2>6, <2>7 DEF WalkOK, lcs
<1>7. CASE ~AtEnd(a, b, c) /\ ~Same(a, b, c) /\ ~DropsFirst(lcs, c)
  <2>1. PICK d : d = w[Along(c)]
    OBVIOUS
  <2>2. WalkOK(a, b, Along(c), d)
    BY <1>7, <2>1
  <2>3. WalkStep(a, b, w, c) = [d EXCEPT !.comes = @ \cup {c[2]}]
    BY <1>7, <2>1 DEF WalkStep, lcs
  <2>4. PICK e : e = [d EXCEPT !.comes = @ \cup {c[2]}]
    OBVIOUS
  <2>5. e \in Diffs /\ e.goes = d.goes /\ e.comes = d.comes \cup {c[2]} /\ e.stays = d.stays
    <3>1. e = [goes |-> d.goes, comes |-> d.comes \cup {c[2]}, stays |-> d.stays] /\ e \in Diffs
      BY <1>1, <2>2, <2>4, DiffMoves DEF WalkOK
    <3> QED BY <3>1
  <2>6. AccountFrom(a, b, c, e.goes, e.comes, e.stays)
    BY <1>7, <2>2, <2>5, AccountComes DEF WalkOK
  <2>7. lcs[c] = lcs[Along(c)]
    BY <1>2, <1>3, <1>7 DEF DropsFirst, Larger
  <2> QED BY <2>2, <2>3, <2>4, <2>5, <2>6, <2>7 DEF WalkOK, lcs
<1> QED BY <1>4, <1>5, <1>6, <1>7

\* The walk accounts for the two texts, and keeps as many lines as the table says.
LEMMA WalkAccounts ==
  ASSUME NEW a \in Seq(AllKinds), NEW b \in Seq(AllKinds)
  PROVE  WalkOK(a, b, <<1, 1>>, Walk(a, b))
<1>1. PICK w : /\ Walk(a, b) = w[<<1, 1>>]
               /\ \A c \in Cells(a, b) : w[c] = WalkStep(a, b, w, c)
  BY WalkIs
<1> DEFINE bad == {c \in Cells(a, b) : ~WalkOK(a, b, c, w[c])}
<1>2. ASSUME bad # {} PROVE FALSE
  <2>1. PICK c \in bad : \A d \in bad : Sum(d) <= Sum(c)
    <3>1. bad \in SUBSET Cells(a, b) /\ Len(a) + 1 \in Nat /\ Len(b) + 1 \in Nat
      OBVIOUS
    <3> HIDE DEF bad
    <3> QED BY <1>2, <3>1, LastCell DEF Cells
  <2>2. c \in Cells(a, b) /\ ~WalkOK(a, b, c, w[c]) /\ Sum(c) \in Nat
    BY NextCells
  <2>3. ASSUME ~AtEnd(a, b, c)
        PROVE  /\ WalkOK(a, b, Across(c), w[Across(c)])
               /\ WalkOK(a, b, Down(c), w[Down(c)])
               /\ WalkOK(a, b, Along(c), w[Along(c)])
    <3>1. /\ Across(c) \in Cells(a, b) /\ Sum(Across(c)) = Sum(c) + 2
          /\ Down(c) \in Cells(a, b) /\ Sum(Down(c)) = Sum(c) + 1
          /\ Along(c) \in Cells(a, b) /\ Sum(Along(c)) = Sum(c) + 1
      BY <2>2, <2>3, NextCells
    <3>2. ~(Sum(c) + 2 <= Sum(c)) /\ ~(Sum(c) + 1 <= Sum(c))
      BY <2>2
    <3>3. Across(c) \notin bad /\ Down(c) \notin bad /\ Along(c) \notin bad
      <4> HIDE DEF bad
      <4> QED BY <2>1, <3>1, <3>2
    <3> QED BY <3>1, <3>3
  <2> HIDE DEF bad
  <2> QED BY <1>1, <2>2, <2>3, WalkStepOK
<1>3. <<1, 1>> \in Cells(a, b)
  BY DEF Cells
<1> QED BY <1>1, <1>2, <1>3

-----------------------------------------------------------------------------

\* No more lines than the table says are in step in what is left of the texts.
Bounded(a, b, c) ==
  \A pairs \in SUBSET ((c[1]..Len(a)) \X (c[2]..Len(b))) :
    InStep(pairs, a, b) => IsFiniteSet(pairs) /\ Cardinality(pairs) <= Common(a, b)[c]

LEMMA InStepWithin ==
  ASSUME NEW a, NEW b, NEW pairs, NEW some \in SUBSET pairs, InStep(pairs, a, b)
  PROVE  InStep(some, a, b)
BY DEF InStep

LEMMA BoundedStep ==
  ASSUME NEW a \in Seq(AllKinds), NEW b \in Seq(AllKinds), NEW c \in Cells(a, b),
         ~AtEnd(a, b, c) => Bounded(a, b, Across(c)) /\ Bounded(a, b, Down(c)) /\ Bounded(a, b, Along(c))
  PROVE  Bounded(a, b, c)
<1> DEFINE lcs == Common(a, b)
<1> SUFFICES ASSUME NEW pairs \in SUBSET ((c[1]..Len(a)) \X (c[2]..Len(b))), InStep(pairs, a, b)
             PROVE  IsFiniteSet(pairs) /\ Cardinality(pairs) <= lcs[c]
  BY DEF Bounded
<1>1. lcs[c] = IF AtEnd(a, b, c) THEN 0
               ELSE IF Same(a, b, c) THEN lcs[Across(c)] + 1 ELSE Larger(lcs[Down(c)], lcs[Along(c)])
  BY CommonIs
<1>2. ~AtEnd(a, b, c) => lcs[Across(c)] \in Nat /\ lcs[Down(c)] \in Nat /\ lcs[Along(c)] \in Nat
  BY NextCells, CommonIs
<1> HIDE DEF lcs
<1>3. CASE AtEnd(a, b, c)
  <2>1. pairs = {}
    <3>1. PICK la, lb, i, j : la = Len(a) /\ lb = Len(b) /\ i = c[1] /\ j = c[2]
      OBVIOUS
    <3>2. la \in Nat /\ lb \in Nat /\ i \in 1..(la + 1) /\ j \in 1..(lb + 1)
      BY <3>1, NextCells
    <3>3. i > la \/ j > lb
      BY <1>3, <3>1 DEF AtEnd
    <3>4. i..la = {} \/ j..lb = {}
      BY <3>2, <3>3
    <3> QED BY <3>1, <3>4
  <2> QED BY <1>1, <1>3, <2>1, FS_EmptySet
<1>4. CASE ~AtEnd(a, b, c)
  <2>1. PICK la \in Nat, lb \in Nat, i \in Nat, j \in Nat :
          la = Len(a) /\ lb = Len(b) /\ i = c[1] /\ j = c[2] /\ i <= la /\ j <= lb /\ c = <<i, j>>
    BY <1>4, CellBefore
  <2>2. /\ Across(c)[1] = i + 1 /\ Across(c)[2] = j + 1
        /\ Down(c)[1] = i + 1 /\ Down(c)[2] = j /\ Along(c)[1] = i /\ Along(c)[2] = j + 1
    BY <2>1 DEF Across, Down, Along
  <2>3. pairs \in SUBSET ((i..la) \X (j..lb))
    BY <2>1
  <2>4. /\ \A p \in i..la : p = i \/ p \in (i + 1)..la
        /\ \A p \in j..lb : p = j \/ p \in (j + 1)..lb
    BY <2>1
  <2>5. ASSUME NEW d \in pairs, NEW e \in pairs, d[1] = i, e[2] = j
        PROVE  d = c /\ e = c
    <3>1. d[1] \in i..la /\ d[2] \in j..lb /\ e[1] \in i..la /\ e[2] \in j..lb
          /\ d = <<d[1], d[2]>> /\ e = <<e[1], e[2]>>
      BY <2>3
    <3>2. PICK p, q : p = e[1] /\ q = d[2]
      OBVIOUS
    <3>3. p \in Nat /\ q \in Nat /\ p >= i /\ q >= j
      BY <2>1, <3>1, <3>2
    <3>4. /\ i < p <=> q < j
          /\ p < i <=> j < q
      BY <2>5, <3>2 DEF InStep
    <3>5. p = i /\ q = j
      BY <3>3, <3>4
    <3> QED BY <2>1, <2>5, <3>1, <3>2, <3>5
  <2>6. CASE Same(a, b, c)
    <3> DEFINE edge == {d \in pairs : d[1] = i \/ d[2] = j}
    <3>1. ASSUME NEW d \in edge, NEW e \in edge PROVE d = e
      <4>1. d \in pairs /\ e \in pairs /\ (d[1] = i \/ d[2] = j) /\ (e[1] = i \/ e[2] = j)
        OBVIOUS
      <4>2. d = <<d[1], d[2]>> /\ e = <<e[1], e[2]>> /\ d[1] \in i..la /\ e[1] \in i..la /\ d[2] \in j..lb /\ e[2] \in j..lb
        BY <2>3, <4>1
      <4>3. PICK d1, d2, e1, e2 : d1 = d[1] /\ d2 = d[2] /\ e1 = e[1] /\ e2 = e[2]
        OBVIOUS
      <4>4. (d1 < e1 <=> d2 < e2) /\ (e1 < d1 <=> e2 < d2)
        BY <4>1, <4>3 DEF InStep
      <4>5. d1 \in Int /\ d2 \in Int /\ e1 \in Int /\ e2 \in Int
        BY <4>2, <4>3
      <4>6. d1 = e1 <=> d2 = e2
        BY <4>4, <4>5
      <4>7. CASE d[1] = e[1] \/ d[2] = e[2]
        BY <4>2, <4>3, <4>6, <4>7
      <4>8. CASE ~(d[1] = e[1] \/ d[2] = e[2])
        BY <2>5, <4>1, <4>8
      <4> QED BY <4>7, <4>8
    <3>2. PICK x : edge \subseteq {x}
      <4>1. CASE edge = {}
        BY <4>1
      <4>2. CASE edge # {}
        <5>1. PICK x : x \in edge
          BY <4>2
        <5> HIDE DEF edge
        <5> QED BY <3>1, <5>1
      <4> QED BY <4>1, <4>2
    <3> DEFINE rest == pairs \ {x}
    <3>3. rest \in SUBSET ((Across(c)[1]..Len(a)) \X (Across(c)[2]..Len(b)))
      <4> SUFFICES ASSUME NEW d \in pairs, d # x PROVE d \in ((i + 1)..la) \X ((j + 1)..lb)
        BY <2>1, <2>2
      <4>1. d[1] \in i..la /\ d[2] \in j..lb /\ d = <<d[1], d[2]>>
        BY <2>3
      <4>2. d[1] # i /\ d[2] # j
        BY <3>2
      <4> QED BY <2>4, <4>1, <4>2
    <3>4. InStep(rest, a, b)
      BY InStepWithin
    <3> HIDE DEF rest
    <3>5. IsFiniteSet(rest) /\ Cardinality(rest) <= lcs[Across(c)]
      BY <1>4, <3>3, <3>4 DEF Bounded, lcs
    <3>6. IsFiniteSet(rest \cup {x}) /\ Cardinality(rest \cup {x}) <= lcs[Across(c)] + 1
      <4>1. Cardinality(rest) \in Nat
        BY <3>5, FS_CardinalityType
      <4>2. IsFiniteSet(rest \cup {x}) /\ (Cardinality(rest \cup {x}) = Cardinality(rest) \/ Cardinality(rest \cup {x}) = Cardinality(rest) + 1)
        BY <3>5, FS_AddElement
      <4> QED BY <1>2, <1>4, <3>5, <4>1, <4>2
    <3>7. IsFiniteSet(pairs) /\ Cardinality(pairs) <= Cardinality(rest \cup {x})
      <4>1. pairs \in SUBSET (rest \cup {x})
        BY DEF rest
      <4> QED BY <3>6, <4>1, FS_Subset
    <3>8. Cardinality(pairs) \in Nat /\ Cardinality(rest \cup {x}) \in Nat
      BY <3>6, <3>7, FS_CardinalityType
    <3> QED BY <1>1, <1>2, <1>4, <2>6, <3>6, <3>7, <3>8
  <2>7. CASE ~Same(a, b, c)
    <3>1. c \notin pairs
      BY <2>7 DEF InStep
    <3>2. (\A d \in pairs : d[1] # i) \/ (\A d \in pairs : d[2] # j)
      BY <2>5, <3>1
    <3>3. PICK rest, m, n : rest = Cardinality(pairs) /\ m = lcs[Down(c)] /\ n = lcs[Along(c)]
      OBVIOUS
    <3>7. m \in Nat /\ n \in Nat
      BY <1>2, <1>4, <3>3
    <3>4. lcs[c] = Larger(m, n) /\ m <= Larger(m, n) /\ n <= Larger(m, n) /\ Larger(m, n) \in Nat
      BY <1>1, <1>4, <2>7, <3>3, <3>7, LargerIs
    <3>5. IsFiniteSet(pairs) /\ (rest <= m \/ rest <= n)
      <4>1. CASE \A d \in pairs : d[1] # i
        <5>1. pairs \in SUBSET ((Down(c)[1]..Len(a)) \X (Down(c)[2]..Len(b)))
          BY <2>1, <2>2, <2>3, <2>4, <4>1
        <5> QED BY <1>4, <3>3, <5>1 DEF Bounded, lcs
      <4>2. CASE \A d \in pairs : d[2] # j
        <5>1. pairs \in SUBSET ((Along(c)[1]..Len(a)) \X (Along(c)[2]..Len(b)))
          BY <2>1, <2>2, <2>3, <2>4, <4>2
        <5> QED BY <1>4, <3>3, <5>1 DEF Bounded, lcs
      <4> QED BY <3>2, <4>1, <4>2
    <3>6. rest \in Nat
      BY <3>3, <3>5, FS_CardinalityType
    <3> QED BY <3>3, <3>4, <3>5, <3>6, <3>7
  <2> QED BY <2>6, <2>7
<1> QED BY <1>3, <1>4

LEMMA CommonIsMost ==
  ASSUME NEW a \in Seq(AllKinds), NEW b \in Seq(AllKinds)
  PROVE  Bounded(a, b, <<1, 1>>)
<1> DEFINE bad == {c \in Cells(a, b) : ~Bounded(a, b, c)}
<1>1. ASSUME bad # {} PROVE FALSE
  <2>1. PICK c \in bad : \A d \in bad : Sum(d) <= Sum(c)
    <3>1. bad \in SUBSET Cells(a, b) /\ Len(a) + 1 \in Nat /\ Len(b) + 1 \in Nat
      OBVIOUS
    <3> HIDE DEF bad
    <3> QED BY <1>1, <3>1, LastCell DEF Cells
  <2>2. c \in Cells(a, b) /\ ~Bounded(a, b, c) /\ Sum(c) \in Nat
    BY NextCells
  <2>3. ASSUME ~AtEnd(a, b, c)
        PROVE  Bounded(a, b, Across(c)) /\ Bounded(a, b, Down(c)) /\ Bounded(a, b, Along(c))
    <3>1. /\ Across(c) \in Cells(a, b) /\ Sum(Across(c)) = Sum(c) + 2
          /\ Down(c) \in Cells(a, b) /\ Sum(Down(c)) = Sum(c) + 1
          /\ Along(c) \in Cells(a, b) /\ Sum(Along(c)) = Sum(c) + 1
      BY <2>2, <2>3, NextCells
    <3>2. ~(Sum(c) + 2 <= Sum(c)) /\ ~(Sum(c) + 1 <= Sum(c))
      BY <2>2
    <3>3. Across(c) \notin bad /\ Down(c) \notin bad /\ Along(c) \notin bad
      <4> HIDE DEF bad
      <4> QED BY <2>1, <3>1, <3>2
    <3> QED BY <3>1, <3>3
  <2> HIDE DEF bad
  <2> QED BY <2>2, <2>3, BoundedStep
<1>2. <<1, 1>> \in Cells(a, b)
  BY DEF Cells
<1> QED BY <1>1, <1>2

-----------------------------------------------------------------------------

Parted(a, pairs, left, kind, ofKind) ==
  /\ ofKind \in SUBSET pairs
  /\ left = DOMAIN a \ Firsts(pairs) /\ Firsts(pairs) \subseteq DOMAIN a
  /\ \A c \in pairs : a[c[1]] = kind <=> c \in ofKind
  /\ \A c, d \in pairs : c[1] = d[1] => c = d

\* The lines of a kind: those that go or come, and those that stay.
LEMMA CountsPart ==
  ASSUME NEW a \in Seq(AllKinds), NEW pairs, NEW left, NEW kind, NEW ofKind, Parted(a, pairs, left, kind, ofKind)
  PROVE  /\ IsFiniteSet(ofKind) /\ Cardinality(ofKind) \in Nat /\ TimesAt(kind, left, a) \in Nat
         /\ TimesAt(kind, DOMAIN a, a) = TimesAt(kind, left, a) + Cardinality(ofKind)
<1> DEFINE all == {i \in DOMAIN a : a[i] = kind}
           some == {i \in left : a[i] = kind}
           firsts == Firsts(ofKind)
           first == [c \in ofKind |-> c[1]]
<1>9. /\ ofKind \in SUBSET pairs
      /\ left = DOMAIN a \ Firsts(pairs) /\ Firsts(pairs) \subseteq DOMAIN a
      /\ \A c \in pairs : a[c[1]] = kind <=> c \in ofKind
      /\ \A c, d \in pairs : c[1] = d[1] => c = d
  BY DEF Parted
<1>1. all = some \cup firsts /\ some \cap firsts = {}
  <2>1. \A i \in firsts : i \in Firsts(pairs) /\ i \in DOMAIN a /\ a[i] = kind
    BY <1>9 DEF Firsts
  <2>2. \A i \in all : i \notin left => i \in firsts
    BY <1>9 DEF Firsts
  <2> QED BY <1>9, <2>1, <2>2
<1>2. IsFiniteSet(all) /\ IsFiniteSet(some) /\ IsFiniteSet(firsts)
  <2>1. IsFiniteSet(DOMAIN a)
    <3>1. DOMAIN a = 1..Len(a) /\ 1 \in Int /\ Len(a) \in Int
      OBVIOUS
    <3> QED BY <3>1, FS_Interval
  <2>2. all \in SUBSET DOMAIN a /\ some \in SUBSET DOMAIN a /\ firsts \in SUBSET DOMAIN a
    BY <1>1
  <2> HIDE DEF all, some, firsts
  <2> QED BY <2>1, <2>2, FS_Subset
<1>4. IsFiniteSet(ofKind) /\ Cardinality(ofKind) = Cardinality(firsts)
  <2>1. first \in [ofKind -> firsts]
    BY DEF Firsts
  <2>2. \A c, d \in ofKind : first[c] = first[d] => c = d
    BY <1>9
  <2>3. \A i \in firsts : \E c \in ofKind : first[c] = i
    BY DEF Firsts
  <2> HIDE DEF first, firsts
  <2> QED BY <1>2, <2>1, <2>2, <2>3, SameCount
<1>5. Cardinality(all) = Cardinality(some) + Cardinality(firsts)
  <2> HIDE DEF all, some, firsts
  <2>1. Cardinality(some \cap firsts) = 0
    BY <1>1, FS_EmptySet
  <2>2. Cardinality(some) \in Nat /\ Cardinality(firsts) \in Nat
    BY <1>2, FS_CardinalityType
  <2>3. Cardinality(some \cup firsts) = Cardinality(some) + Cardinality(firsts) - Cardinality(some \cap firsts)
    BY <1>2, FS_Union
  <2> QED BY <1>1, <2>1, <2>2, <2>3
<1>6. TimesAt(kind, DOMAIN a, a) = Cardinality(all) /\ TimesAt(kind, left, a) = Cardinality(some)
  BY DEF TimesAt
<1>7. Cardinality(some) \in Nat /\ Cardinality(firsts) \in Nat
  <2> HIDE DEF some, firsts
  <2> QED BY <1>2, FS_CardinalityType
<1> QED BY <1>4, <1>5, <1>6, <1>7

\* The same of the lines of the other text.
LEMMA CountsPartOther ==
  ASSUME NEW b \in Seq(AllKinds), NEW pairs, NEW left, NEW kind, NEW ofKind \in SUBSET pairs,
         left = DOMAIN b \ Seconds(pairs), Seconds(pairs) \subseteq DOMAIN b,
         \A c \in pairs : b[c[2]] = kind <=> c \in ofKind,
         \A c, d \in pairs : c[2] = d[2] => c = d
  PROVE  /\ TimesAt(kind, left, b) \in Nat
         /\ TimesAt(kind, DOMAIN b, b) = TimesAt(kind, left, b) + Cardinality(ofKind)
<1> DEFINE turned == {<<c[2], c[1]>> : c \in pairs}
           turnedOf == {<<c[2], c[1]>> : c \in ofKind}
           turn == [c \in ofKind |-> <<c[2], c[1]>>]
<1>1. \A c, d \in pairs : <<c[2], c[1]>> = <<d[2], d[1]>> => c = d
  OBVIOUS
<1>2. left = DOMAIN b \ Firsts(turned) /\ Firsts(turned) \subseteq DOMAIN b
  <2>1. \A c \in pairs : <<c[2], c[1]>>[1] = c[2]
    OBVIOUS
  <2>2. ASSUME NEW x \in Firsts(turned) PROVE x \in Seconds(pairs)
    <3>1. PICK e \in turned : x = e[1]
      BY DEF Firsts
    <3>2. PICK c \in pairs : e = <<c[2], c[1]>>
      OBVIOUS
    <3> QED BY <2>1, <3>1, <3>2 DEF Seconds
  <2>3. ASSUME NEW x \in Seconds(pairs) PROVE x \in Firsts(turned)
    <3>1. PICK c \in pairs : x = c[2]
      BY DEF Seconds
    <3>2. <<c[2], c[1]>> \in turned
      OBVIOUS
    <3> HIDE DEF turned
    <3> QED BY <2>1, <3>1, <3>2 DEF Firsts
  <2>4. Firsts(turned) = Seconds(pairs)
    BY <2>2, <2>3
  <2> QED BY <2>4
<1>3. turnedOf \in SUBSET turned
  OBVIOUS
<1>4. \A e \in turned : b[e[1]] = kind <=> e \in turnedOf
  <2> SUFFICES ASSUME NEW c \in pairs
               PROVE  b[<<c[2], c[1]>>[1]] = kind <=> <<c[2], c[1]>> \in turnedOf
    OBVIOUS
  <2>1. <<c[2], c[1]>>[1] = c[2]
    OBVIOUS
  <2>2. <<c[2], c[1]>> \in turnedOf <=> c \in ofKind
    BY <1>1
  <2> HIDE DEF turnedOf
  <2> QED BY <2>1, <2>2
<1>5. \A e, f \in turned : e[1] = f[1] => e = f
  OBVIOUS
<1>6. /\ IsFiniteSet(turnedOf) /\ TimesAt(kind, left, b) \in Nat
      /\ TimesAt(kind, DOMAIN b, b) = TimesAt(kind, left, b) + Cardinality(turnedOf)
  <2> HIDE DEF turned, turnedOf
  <2>1. Parted(b, turned, left, kind, turnedOf)
    BY <1>2, <1>3, <1>4, <1>5 DEF Parted
  <2> QED BY <2>1, CountsPart
<1>7. Cardinality(ofKind) = Cardinality(turnedOf)
  <2>1. turn \in [ofKind -> turnedOf]
    OBVIOUS
  <2>2. \A c, d \in ofKind : turn[c] = turn[d] => c = d
    BY <1>1
  <2>3. \A e \in turnedOf : \E c \in ofKind : turn[c] = e
    OBVIOUS
  <2> HIDE DEF turn, turnedOf
  <2> QED BY <1>6, <2>1, <2>2, <2>3, SameCount
<1> QED BY <1>6, <1>7

\* What an account of two texts adds up to.
LEMMA AccountAddsUp ==
  ASSUME NEW a \in Seq(AllKinds), NEW b \in Seq(AllKinds), NEW d, Accounts(d, a, b),
         d.stays \in SUBSET ((DOMAIN a) \X DOMAIN b), NEW kind
  PROVE  /\ TimesAt(kind, DOMAIN a, a) \in Nat /\ TimesAt(kind, DOMAIN b, b) \in Nat
         /\ TimesAt(kind, DOMAIN b, b) =
              TimesAt(kind, DOMAIN a, a) + TimesAt(kind, d.comes, b) - TimesAt(kind, d.goes, a)
<1> DEFINE pairs == d.stays
           ofKind == {c \in pairs : a[c[1]] = kind}
<1>1. /\ pairs \in SUBSET ((DOMAIN a) \X DOMAIN b) /\ InStep(pairs, a, b)
      /\ d.goes = DOMAIN a \ Firsts(pairs) /\ d.comes = DOMAIN b \ Seconds(pairs)
  BY DEF Accounts, Firsts, Seconds
<1>2. \A c \in pairs : c = <<c[1], c[2]>> /\ c[1] \in DOMAIN a /\ c[2] \in DOMAIN b /\ a[c[1]] = b[c[2]]
  BY <1>1 DEF InStep, Same
<1> HIDE DEF pairs
<1>3. ASSUME NEW c \in pairs, NEW e \in pairs, c[1] = e[1] \/ c[2] = e[2]
      PROVE  c = e
  <2>1. PICK c1, c2, e1, e2 : c1 = c[1] /\ c2 = c[2] /\ e1 = e[1] /\ e2 = e[2]
    OBVIOUS
  <2>2. c1 \in Nat /\ c2 \in Nat /\ e1 \in Nat /\ e2 \in Nat
    BY <1>2, <2>1
  <2>3. (c1 < e1 <=> c2 < e2) /\ (e1 < c1 <=> e2 < c2)
    BY <1>1, <2>1 DEF InStep
  <2>4. c1 = e1 /\ c2 = e2
    BY <1>3, <2>1, <2>2, <2>3
  <2> QED BY <1>2, <2>1, <2>4
<1>4. Firsts(pairs) \subseteq DOMAIN a /\ Seconds(pairs) \subseteq DOMAIN b
  BY <1>2 DEF Firsts, Seconds
<1>5. ofKind \in SUBSET pairs /\ (\A c \in pairs : a[c[1]] = kind <=> c \in ofKind)
      /\ (\A c \in pairs : b[c[2]] = kind <=> c \in ofKind)
  BY <1>2
<1> HIDE DEF ofKind
<1>8. d.goes = DOMAIN a \ Firsts(pairs)
  BY <1>1
<1>9. \A c, e \in pairs : c[1] = e[1] => c = e
  BY <1>3
<1>10. PICK goes : goes = d.goes
  OBVIOUS
<1>11. goes = DOMAIN a \ Firsts(pairs)
  BY <1>8, <1>10
<1>12. ofKind \in SUBSET pairs /\ \A c \in pairs : a[c[1]] = kind <=> c \in ofKind
  BY <1>5
<1>13. Parted(a, pairs, goes, kind, ofKind)
  BY <1>4, <1>9, <1>11, <1>12 DEF Parted
<1>6. /\ IsFiniteSet(ofKind) /\ Cardinality(ofKind) \in Nat /\ TimesAt(kind, goes, a) \in Nat
      /\ TimesAt(kind, DOMAIN a, a) = TimesAt(kind, goes, a) + Cardinality(ofKind)
  BY <1>13, CountsPart
<1>7. /\ TimesAt(kind, d.comes, b) \in Nat
      /\ TimesAt(kind, DOMAIN b, b) = TimesAt(kind, d.comes, b) + Cardinality(ofKind)
  BY <1>1, <1>3, <1>4, <1>5, CountsPartOther
<1> QED BY <1>6, <1>7, <1>10

\* What a diff says of the two texts.
LEMMA DiffIs ==
  ASSUME NEW a \in Seq(AllKinds), NEW b \in Seq(AllKinds)
  PROVE  LET diff == Walk(a, b)
         IN  /\ Accounts(diff, a, b)
             /\ diff.stays \in SUBSET ((DOMAIN a) \X DOMAIN b)
             /\ \A pairs \in SUBSET ((DOMAIN a) \X DOMAIN b) :
                  InStep(pairs, a, b) => Cardinality(pairs) <= Cardinality(diff.stays)
<1>1. PICK d, c : d = Walk(a, b) /\ c = <<1, 1>>
  OBVIOUS
<1>2. c[1] = 1 /\ c[2] = 1
  BY <1>1
<1>3. WalkOK(a, b, c, d) /\ Bounded(a, b, c)
  BY <1>1, WalkAccounts, CommonIsMost
<1>4. DOMAIN a = c[1]..Len(a) /\ DOMAIN b = c[2]..Len(b)
  BY <1>2
<1>5. AccountFrom(a, b, c, d.goes, d.comes, d.stays) /\ Cardinality(d.stays) = Common(a, b)[c]
  BY <1>3 DEF WalkOK
<1>6. Accounts(d, a, b)
  BY <1>4, <1>5 DEF Accounts, AccountFrom, Firsts, Seconds
<1>7. d.stays \in SUBSET ((DOMAIN a) \X DOMAIN b)
  BY <1>4, <1>5 DEF AccountFrom
<1>8. ASSUME NEW pairs \in SUBSET ((DOMAIN a) \X DOMAIN b), InStep(pairs, a, b)
      PROVE  Cardinality(pairs) <= Cardinality(d.stays)
  <2>1. Cardinality(pairs) <= Common(a, b)[c]
    BY <1>3, <1>4, <1>8 DEF Bounded
  <2> QED BY <1>5, <2>1
<1> QED BY <1>1, <1>6, <1>7, <1>8

-----------------------------------------------------------------------------
(* The page's count of the lines *)

Contents == Texts \cup {NoFile, NotText}

TallyInv ==
  /\ onDisk \in Contents /\ last \in Contents
  /\ tally = NotText \/ tally = CountOf(last)

LEMMA SplitIs ==
  ASSUME NEW x \in Contents
  PROVE  Split(x) \in Seq(AllKinds)
<1>1. <<Blank>> \in Seq(AllKinds)
  BY DEF AllKinds
<1>2. ASSUME x \in Texts PROVE x \in Seq(AllKinds)
  <2>1. PICK n \in 1..MaxLength : x \in [1..n -> LineKinds]
    BY <1>2 DEF Texts
  <2>2. n \in Nat /\ x \in [1..n -> AllKinds]
    BY <2>1, TextBounds DEF AllKinds
  <2> QED BY <2>2
<1> QED BY <1>1, <1>2 DEF Split, IsText, Contents

\* A report taken in leaves the count of the file, or none.
LEMMA TakesInAddsUp ==
  ASSUME NEW before \in Contents, NEW after \in Contents, tally = NotText \/ tally = CountOf(before)
  PROVE  TakesIn(before, after) = NotText \/ TakesIn(before, after) = CountOf(after)
<1> DEFINE diff == ShownDiff(before, after)
           from == IF before = NoFile THEN CountOf(NoFile) ELSE tally
           sum == [kind \in AllKinds |-> from[kind] + TimesAt(kind, diff.comes, Split(after))
                                                    - TimesAt(kind, diff.goes, Split(before))]
<1>1. \/ after = NoFile /\ TakesIn(before, after) = CountOf(NoFile)
      \/ after # NoFile /\ (IsCut(diff, LineCap) \/ from = NotText) /\ TakesIn(before, after) = NotText
      \/ after # NoFile /\ ~IsCut(diff, LineCap) /\ from # NotText /\ TakesIn(before, after) = sum
  <2> HIDE DEF sum, diff, from
  <2>1. TakesIn(before, after) = CASE after = NoFile -> CountOf(NoFile)
          [] after # NoFile /\ (IsCut(diff, LineCap) \/ from = NotText) -> NotText
          [] after # NoFile /\ ~IsCut(diff, LineCap) /\ from # NotText -> sum
    BY DEF TakesIn, sum, diff, from
  <2> QED BY <2>1
<1>2. ASSUME from # NotText PROVE sum = CountOf(after)
  <2>1. from = CountOf(before)
    BY <1>2
  <2>2. Split(before) \in Seq(AllKinds) /\ Split(after) \in Seq(AllKinds)
    BY SplitIs
  <2>3. PICK a, b : a = Split(before) /\ b = Split(after)
    OBVIOUS
  <2>4. Accounts(diff, a, b) /\ diff.stays \in SUBSET ((DOMAIN a) \X DOMAIN b)
    BY <2>2, <2>3, DiffIs DEF ShownDiff
  <2>5. \A kind \in AllKinds : TimesAt(kind, DOMAIN b, b) =
          TimesAt(kind, DOMAIN a, a) + TimesAt(kind, diff.comes, b) - TimesAt(kind, diff.goes, a)
    <3> HIDE DEF diff
    <3> QED BY <2>2, <2>3, <2>4, AccountAddsUp
  <2>6. \A kind \in AllKinds : from[kind] = TimesAt(kind, DOMAIN a, a)
    BY <2>1, <2>3 DEF CountOf
  <2> HIDE DEF diff, from
  <2> QED BY <2>3, <2>5, <2>6 DEF CountOf
<1> HIDE DEF sum, from, diff
<1> QED BY <1>1, <1>2

LEMMA ChangesKeepTheTally ==
  ASSUME TallyInv, ChangesActs
  PROVE  TallyInv'
<1>1. CASE Edited
  BY <1>1 DEF Edited, TallyInv, Contents
<1>2. CASE DiesReporting
  BY <1>2 DEF DiesReporting, TallyInv
<1>3. CASE Reseeds
  BY <1>3, SeedIsText DEF Reseeds, TallyInv, Contents
<1>4. CASE SnapshotNow
  <2>1. AsRead \in Contents
    BY DEF AsRead, IsText, TallyInv, Contents
  <2>2. onDisk' = onDisk /\ last' = AsRead
    BY <1>4 DEF SnapshotNow
  <2>3. CASE last = AsRead
    BY <1>4, <2>1, <2>2, <2>3 DEF SnapshotNow, Before, TallyInv
  <2>4. CASE last # AsRead
    <3>1. tally' = TakesIn(last, AsRead)
      BY <1>4, <2>4 DEF SnapshotNow, Before
    <3>2. tally' = NotText \/ tally' = CountOf(AsRead)
      BY <2>1, <3>1, TakesInAddsUp DEF TallyInv
    <3> QED BY <2>1, <2>2, <3>2 DEF TallyInv
  <2> QED BY <2>3, <2>4
<1> QED BY <1>1, <1>2, <1>3, <1>4 DEF ChangesActs

LEMMA TallyAddsUp == TallyInv => DiffsAddUp
<1> SUFFICES ASSUME TallyInv PROVE DiffsAddUp
  OBVIOUS
<1>1. AsRead \in Contents /\ last \in Contents /\ onDisk \in Contents /\ Seed \in Contents
  BY SeedIsText DEF AsRead, IsText, TallyInv, Contents
<1>2. /\ Split(AsRead) \in Seq(AllKinds) /\ Split(last) \in Seq(AllKinds)
      /\ Split(onDisk) \in Seq(AllKinds) /\ Split(Seed) \in Seq(AllKinds)
  BY <1>1, SplitIs
<1>3. \A a, b \in Seq(AllKinds) :
        LET diff == Walk(a, b)
        IN  /\ Accounts(diff, a, b)
            /\ \A pairs \in SUBSET ((DOMAIN a) \X DOMAIN b) :
                 InStep(pairs, a, b) => Cardinality(pairs) <= Cardinality(diff.stays)
  BY DiffIs
<1>4. \A kind \in AllKinds :
        CountOf(onDisk)[kind] = CountOf(Seed)[kind] + TimesAt(kind, FrozenVsFinal.comes, Split(onDisk))
                                                    - TimesAt(kind, FrozenVsFinal.goes, Split(Seed))
  <2>1. PICK a, b, diff : a = Split(Seed) /\ b = Split(onDisk) /\ diff = FrozenVsFinal
    OBVIOUS
  <2>2. a \in Seq(AllKinds) /\ b \in Seq(AllKinds) /\ diff = Walk(a, b)
    BY <1>2, <2>1 DEF FrozenVsFinal, ShownDiff
  <2>3. Accounts(diff, a, b) /\ diff.stays \in SUBSET ((DOMAIN a) \X DOMAIN b)
    BY <2>2, DiffIs
  <2>4. \A kind \in AllKinds : TimesAt(kind, DOMAIN b, b) =
          TimesAt(kind, DOMAIN a, a) + TimesAt(kind, diff.comes, b) - TimesAt(kind, diff.goes, a)
    BY <2>2, <2>3, AccountAddsUp
  <2>5. \A kind \in AllKinds : CountOf(onDisk)[kind] = TimesAt(kind, DOMAIN b, b)
                             /\ CountOf(Seed)[kind] = TimesAt(kind, DOMAIN a, a)
    BY <2>1 DEF CountOf
  <2> QED BY <2>1, <2>4, <2>5
<1> QED BY <1>2, <1>3, <1>4 DEF DiffsAddUp, TallyInv

-----------------------------------------------------------------------------
(* What the archive and the report make of a log, row by row *)

Begins(of) == IF of = "archive" THEN [entries |-> <<>>, open |-> <<>>]
              ELSE [stats |-> NoCounts, names |-> <<>>, posts |-> {}, passes |-> {}]
GoesOn(of, st, n, row) == IF of = "archive" THEN Archived(st, n, row) ELSE Counted(st, row)
RunsOver(of, rows, f) ==
  /\ f = [n \in 0..Len(rows) |-> f[n]]
  /\ \A n \in 0..Len(rows) : f[n] = IF n = 0 THEN Begins(of) ELSE GoesOn(of, f[n - 1], n, rows[n])

LEMMA RunExists ==
  ASSUME NEW of, NEW rows, Len(rows) \in Nat
  PROVE  \E f : RunsOver(of, rows, f)
<1> DEFINE N == Len(rows)
           Made(f, n) == f[n] = IF n = 0 THEN Begins(of) ELSE GoesOn(of, f[n - 1], n, rows[n])
           Upto(k, f) == f = [n \in 0..N |-> f[n]] /\ \A n \in 0..N : n <= k => Made(f, n)
           bad == {k \in 0..N : ~\E f : Upto(k, f)}
<1>1. ASSUME bad # {} PROVE FALSE
  <2>1. PICK m \in bad : \A j \in bad : m <= j
    <3>1. bad \in SUBSET Nat
      <4>1. 0..N \subseteq Nat
        OBVIOUS
      <4> HIDE DEF Upto
      <4> QED BY <4>1
    <3> HIDE DEF bad
    <3> QED BY <1>1, <3>1, LeastNumber
  <2>2. m \in 0..N /\ ~\E f : Upto(m, f)
    OBVIOUS
  <2>3. PICK h : m # 0 => Upto(m - 1, h)
    <3>1. CASE m = 0
      BY <3>1
    <3>2. CASE m # 0
      <4>1. m - 1 \in 0..N /\ ~(m <= m - 1)
        BY <2>2, <3>2
      <4>2. m - 1 \notin bad
        <5> HIDE DEF bad
        <5> QED BY <2>1, <4>1
      <4> HIDE DEF Upto
      <4> QED BY <4>1, <4>2
    <3> QED BY <3>1, <3>2
  <2> DEFINE value == IF m = 0 THEN Begins(of) ELSE GoesOn(of, h[m - 1], m, rows[m])
             g == [n \in 0..N |-> IF n = m THEN value ELSE h[n]]
  <2>4. g = [n \in 0..N |-> g[n]]
    OBVIOUS
  <2>5. ASSUME NEW n \in 0..N, n <= m PROVE Made(g, n)
    <3>1. n \in Nat /\ m \in Nat
      BY <2>2
    <3>2. CASE n = m
      <4>1. g[n] = value
        BY <3>2
      <4>2. n # 0 => g[n - 1] = h[n - 1]
        <5>1. n # 0 => n - 1 \in 0..N /\ n - 1 # m
          BY <3>1, <3>2
        <5> QED BY <5>1
      <4> HIDE DEF g
      <4> QED BY <3>2, <4>1, <4>2
    <3>3. CASE n # m
      <4>1. n <= m - 1 /\ m # 0
        BY <2>5, <3>1, <3>3
      <4>2. Made(h, n)
        BY <2>3, <4>1
      <4>3. g[n] = h[n]
        BY <3>3
      <4>4. n # 0 => g[n - 1] = h[n - 1]
        <5>1. n # 0 => n - 1 \in 0..N /\ n - 1 # m
          BY <2>5, <3>1
        <5> QED BY <5>1
      <4> HIDE DEF g
      <4> QED BY <4>2, <4>3, <4>4
    <3> QED BY <3>2, <3>3
  <2> HIDE DEF g, Made
  <2> QED BY <2>2, <2>4, <2>5
<1>2. N \in 0..N /\ N \notin bad
  <2> HIDE DEF bad
  <2> QED BY <1>1
<1>3. PICK f : Upto(N, f)
  BY <1>2
<1>4. \A n \in 0..N : n <= N
  OBVIOUS
<1> QED BY <1>3, <1>4 DEF RunsOver

LEMMA ArchiveRuns ==
  ASSUME NEW rows, Len(rows) \in Nat
  PROVE  \E f : RunsOver("archive", rows, f) /\ ArchiveOf(rows) = f[Len(rows)].entries
<1> DEFINE begin == [entries |-> <<>>, open |-> <<>>]
           value(f, n) == IF n = 0 THEN begin ELSE Archived(f[n - 1], n, rows[n])
<1>1. PICK f : RunsOver("archive", rows, f)
  BY RunExists
<1>2. \A g : RunsOver("archive", rows, g) <=> g = [n \in 0..Len(rows) |-> value(g, n)]
  <2> SUFFICES ASSUME NEW g
               PROVE  RunsOver("archive", rows, g) <=> g = [n \in 0..Len(rows) |-> value(g, n)]
    OBVIOUS
  <2>1. \A n : value(g, n) = IF n = 0 THEN Begins("archive") ELSE GoesOn("archive", g[n - 1], n, rows[n])
    BY DEF Begins, GoesOn
  <2> HIDE DEF value
  <2> QED BY <2>1 DEF RunsOver
<1>3. PICK w : w = CHOOSE g : g = [n \in 0..Len(rows) |-> value(g, n)]
  OBVIOUS
<1>4. w = [n \in 0..Len(rows) |-> value(w, n)]
  <2> HIDE DEF value
  <2> QED BY <1>1, <1>2, <1>3
<1>5. ArchiveOf(rows) = w[Len(rows)].entries
  BY <1>3 DEF ArchiveOf
<1> HIDE DEF value
<1> QED BY <1>2, <1>4, <1>5

LEMMA ReportRuns ==
  ASSUME NEW rows, Len(rows) \in Nat
  PROVE  \E f : /\ RunsOver("report", rows, f)
                /\ ReportOf(rows) = [stats |-> f[Len(rows)].stats,
                                     unresolved |-> Cardinality(DOMAIN f[Len(rows)].names)]
<1> DEFINE begin == [stats |-> NoCounts, names |-> <<>>, posts |-> {}, passes |-> {}]
           value(f, n) == IF n = 0 THEN begin ELSE Counted(f[n - 1], rows[n])
<1>1. PICK f : RunsOver("report", rows, f)
  BY RunExists
<1>2. \A g : RunsOver("report", rows, g) <=> g = [n \in 0..Len(rows) |-> value(g, n)]
  <2> SUFFICES ASSUME NEW g
               PROVE  RunsOver("report", rows, g) <=> g = [n \in 0..Len(rows) |-> value(g, n)]
    OBVIOUS
  <2>1. \A n : value(g, n) = IF n = 0 THEN Begins("report") ELSE GoesOn("report", g[n - 1], n, rows[n])
    BY DEF Begins, GoesOn
  <2> HIDE DEF value
  <2> QED BY <2>1 DEF RunsOver
<1>3. PICK w : w = CHOOSE g : g = [n \in 0..Len(rows) |-> value(g, n)]
  OBVIOUS
<1>4. w = [n \in 0..Len(rows) |-> value(w, n)]
  <2> HIDE DEF value
  <2> QED BY <1>1, <1>2, <1>3
<1>5. ReportOf(rows) = [stats |-> w[Len(rows)].stats, unresolved |-> Cardinality(DOMAIN w[Len(rows)].names)]
  BY <1>3 DEF ReportOf
<1> HIDE DEF value
<1> QED BY <1>2, <1>4, <1>5

-----------------------------------------------------------------------------

LogRows == {Call(id, tool) : id \in CallIds, tool \in Tools}
             \cup {Result(id, answer) : id \in CallIds, answer \in Answers} \cup {TornRow}

TimelineInv == log \in Seq(LogRows)

CallsTo(n) == {k \in 1..n : log[k].type = "tool/call"}
Quiet(k, n) == Later(k, n) = {}

\* What a call came to in the first rows.
FirstLater(k, n) == CHOOSE j \in Later(k, n) : Later(k, j - 1) = {}
AnswerUpto(k, n) ==
  IF Quiet(k, n) \/ log[FirstLater(k, n)].type # "tool/result" THEN "none"
  ELSE log[FirstLater(k, n)].answer

LEMMA RowIs ==
  ASSUME NEW row \in LogRows
  PROVE  \/ row.type = "tool/call" /\ row.id \in CallIds /\ row.tool \in Tools /\ row.answer = "none"
         \/ row.type = "tool/result" /\ row.id \in CallIds /\ row.answer \in Answers
         \/ row.type = "torn"
<1>1. CASE \E id \in CallIds, tool \in Tools : row = Call(id, tool)
  BY <1>1 DEF Call
<1>2. CASE \E id \in CallIds, answer \in Answers : row = Result(id, answer)
  BY <1>2 DEF Result
<1>3. CASE row = TornRow
  BY <1>3 DEF TornRow
<1> QED BY <1>1, <1>2, <1>3 DEF LogRows

LEMMA LogIs ==
  ASSUME TimelineInv
  PROVE  /\ Len(log) \in Nat /\ DOMAIN log = 1..Len(log)
         /\ \A n \in 1..Len(log) :
              \/ log[n].type = "tool/call" /\ log[n].id \in CallIds /\ log[n].tool \in Tools
              \/ log[n].type = "tool/result" /\ log[n].id \in CallIds /\ log[n].answer \in Answers
              \/ log[n].type = "torn"
<1>1. Len(log) \in Nat /\ DOMAIN log = 1..Len(log) /\ \A n \in 1..Len(log) : log[n] \in LogRows
  BY DEF TimelineInv
<1> QED BY <1>1, RowIs

\* The rows of an id after a call, one row more.
LEMMA LaterGrows ==
  ASSUME NEW k \in Nat, NEW n \in Nat, k <= n
  PROVE  Later(k, n + 1) = IF log[n + 1].type # "torn" /\ log[n + 1].id = log[k].id
                           THEN Later(k, n) \cup {n + 1} ELSE Later(k, n)
<1>1. \A j : j \in (k + 1)..(n + 1) <=> j \in (k + 1)..n \/ j = n + 1
  OBVIOUS
<1> QED BY <1>1 DEF Later

LEMMA NoneLater ==
  ASSUME NEW k \in Nat
  PROVE  Later(k, k) = {}
<1>1. (k + 1)..k = {}
  OBVIOUS
<1> QED BY <1>1 DEF Later

LEMMA FirstLaterIs ==
  ASSUME NEW k \in Nat, NEW n \in Nat, ~Quiet(k, n)
  PROVE  /\ FirstLater(k, n) \in Later(k, n) /\ Later(k, FirstLater(k, n) - 1) = {}
         /\ \A j \in Later(k, n) : Later(k, j - 1) = {} => j = FirstLater(k, n)
<1>1. Later(k, n) \in SUBSET Nat /\ Later(k, n) # {}
  BY DEF Quiet, Later
<1>2. PICK m \in Later(k, n) : \A j \in Later(k, n) : m <= j
  BY <1>1, LeastNumber
<1>3. Later(k, m - 1) = {}
  <2>1. ASSUME NEW j \in Later(k, m - 1) PROVE FALSE
    <3>1. m \in (k + 1)..n
      BY DEF Later
    <3>2. j \in (k + 1)..n /\ ~(m <= j) /\ j \in Later(k, n)
      BY <2>1, <3>1 DEF Later
    <3> QED BY <1>2, <3>2
  <2> QED BY <2>1
<1>4. \A i, j \in Later(k, n) : i < j => Later(k, j - 1) # {}
  <2> SUFFICES ASSUME NEW i \in Later(k, n), NEW j \in Later(k, n), i < j
               PROVE  i \in Later(k, j - 1)
    OBVIOUS
  <2>1. i \in (k + 1)..n /\ j \in (k + 1)..n
    BY DEF Later
  <2>2. i \in (k + 1)..(j - 1)
    BY <2>1
  <2> QED BY <2>2 DEF Later
<1>5. \A i, j \in Later(k, n) : i = j \/ i < j \/ j < i
  BY <1>1
<1>6. FirstLater(k, n) \in Later(k, n) /\ Later(k, FirstLater(k, n) - 1) = {}
  BY <1>2, <1>3 DEF FirstLater
<1> HIDE DEF FirstLater
<1> QED BY <1>4, <1>5, <1>6

\* What a call came to stays; it is what the first row of its id says.
LEMMA AnswerMoves ==
  ASSUME NEW k \in Nat, NEW n \in Nat, k <= n
  PROVE  LET row == log[n + 1]
             same == row.type # "torn" /\ row.id = log[k].id
         IN  /\ Quiet(k, n + 1) <=> Quiet(k, n) /\ ~same
             /\ ~same \/ ~Quiet(k, n) => AnswerUpto(k, n + 1) = AnswerUpto(k, n)
             /\ same /\ Quiet(k, n) =>
                  AnswerUpto(k, n + 1) = IF row.type = "tool/result" THEN row.answer ELSE "none"
<1> DEFINE row == log[n + 1]
           same == row.type # "torn" /\ row.id = log[k].id
<1>1. Later(k, n + 1) = IF same THEN Later(k, n) \cup {n + 1} ELSE Later(k, n)
  BY LaterGrows
<1>2. n + 1 \in Nat /\ n + 1 - 1 = n
  OBVIOUS
<1> HIDE DEF same
<1>3. Quiet(k, n + 1) <=> Quiet(k, n) /\ ~same
  BY <1>1 DEF Quiet
<1>4. ASSUME ~same PROVE AnswerUpto(k, n + 1) = AnswerUpto(k, n)
  <2>1. Later(k, n + 1) = Later(k, n)
    BY <1>1, <1>4
  <2>2. FirstLater(k, n + 1) = FirstLater(k, n)
    BY <2>1 DEF FirstLater
  <2> QED BY <2>1, <2>2 DEF AnswerUpto, Quiet
<1>5. ASSUME ~Quiet(k, n) PROVE AnswerUpto(k, n + 1) = AnswerUpto(k, n)
  <2>1. FirstLater(k, n) \in Later(k, n + 1) /\ Later(k, FirstLater(k, n) - 1) = {}
    BY <1>1, <1>5, FirstLaterIs
  <2>2. FirstLater(k, n) = FirstLater(k, n + 1)
    BY <1>2, <1>3, <1>5, <2>1, FirstLaterIs
  <2> QED BY <1>3, <1>5, <2>2 DEF AnswerUpto
<1>6. ASSUME same, Quiet(k, n)
      PROVE  AnswerUpto(k, n + 1) = IF row.type = "tool/result" THEN row.answer ELSE "none"
  <2>1. n + 1 \in Later(k, n + 1) /\ Later(k, n + 1 - 1) = {}
    BY <1>1, <1>2, <1>6 DEF Quiet
  <2>2. FirstLater(k, n + 1) = n + 1
    BY <1>2, <1>3, <1>6, <2>1, FirstLaterIs
  <2> QED BY <1>3, <1>6, <2>2 DEF AnswerUpto
<1> QED BY <1>3, <1>4, <1>5, <1>6 DEF same

-----------------------------------------------------------------------------

ShownFor(tool, answer) == IF answer = "none" THEN "attempt" ELSE EntryShows(tool, answer)
ShownUpto(k, n) == ShownFor(log[k].tool, AnswerUpto(k, n))
EntriesTo(n) == [k \in CallsTo(n) |-> [tool |-> log[k].tool, shown |-> ShownUpto(k, n)]]
Showing(n, tool, as) == {k \in CallsTo(n) : log[k].tool = tool /\ ShownUpto(k, n) = as}

\* Each id open stands for the one call of it that has no row of its id after it.
OpenOK(n, open) ==
  /\ \A id \in DOMAIN open : open[id] \in CallsTo(n) /\ log[open[id]].id = id /\ Quiet(open[id], n)
  /\ \A k \in CallsTo(n) : Quiet(k, n) => log[k].id \in DOMAIN open /\ open[log[k].id] = k

LEMMA CallsGrow ==
  ASSUME NEW n \in Nat
  PROVE  CallsTo(n + 1) = IF log[n + 1].type = "tool/call" THEN CallsTo(n) \cup {n + 1} ELSE CallsTo(n)
<1>1. \A j : j \in 1..(n + 1) <=> j \in 1..n \/ j = n + 1
  OBVIOUS
<1> QED BY <1>1 DEF CallsTo

LEMMA CallsAre ==
  ASSUME NEW n \in Nat
  PROVE  /\ \A k \in CallsTo(n) : k \in Nat /\ k \in 1..n /\ k <= n
         /\ n + 1 \notin CallsTo(n)
         /\ IsFiniteSet(CallsTo(n))
<1>1. CallsTo(n) \in SUBSET (1..n) /\ IsFiniteSet(1..n)
  BY FS_Interval DEF CallsTo
<1>2. IsFiniteSet(CallsTo(n))
  BY <1>1, FS_Subset
<1>3. \A k \in 1..n : k \in Nat /\ k <= n /\ k # n + 1
  OBVIOUS
<1> QED BY <1>1, <1>2, <1>3

\* A row that answers no open call and is none.
LEMMA RowPasses ==
  ASSUME NEW n \in Nat, NEW open, OpenOK(n, open),
         \/ log[n + 1].type = "torn"
         \/ log[n + 1].type = "tool/result" /\ log[n + 1].id \notin DOMAIN open
  PROVE  /\ CallsTo(n + 1) = CallsTo(n) /\ OpenOK(n + 1, open)
         /\ \A k \in CallsTo(n) : ShownUpto(k, n + 1) = ShownUpto(k, n)
<1>1. CallsTo(n + 1) = CallsTo(n)
  BY CallsGrow
<1>2. ASSUME NEW k \in CallsTo(n)
      PROVE  (Quiet(k, n + 1) <=> Quiet(k, n)) /\ AnswerUpto(k, n + 1) = AnswerUpto(k, n)
  <2>1. k \in Nat /\ k <= n
    BY CallsAre
  <2>2. ~(log[n + 1].type # "torn" /\ log[n + 1].id = log[k].id) \/ ~Quiet(k, n)
    BY DEF OpenOK
  <2> QED BY <2>1, <2>2, AnswerMoves
<1> QED BY <1>1, <1>2 DEF OpenOK, ShownUpto

\* A call.
LEMMA RowCalls ==
  ASSUME NEW n \in Nat, NEW open, OpenOK(n, open), NEW more, log[n + 1].type = "tool/call",
         more = Opened(open, log[n + 1].id, n + 1)
  PROVE  /\ CallsTo(n + 1) = CallsTo(n) \cup {n + 1} /\ OpenOK(n + 1, more)
         /\ \A k \in CallsTo(n) : ShownUpto(k, n + 1) = ShownUpto(k, n)
         /\ ShownUpto(n + 1, n + 1) = "attempt"
<1> DEFINE id == log[n + 1].id
<1>1. CallsTo(n + 1) = CallsTo(n) \cup {n + 1} /\ n + 1 \in Nat /\ n + 1 \notin CallsTo(n)
  <2>1. n + 1 \in Nat
    OBVIOUS
  <2>2. CallsTo(n + 1) = CallsTo(n) \cup {n + 1}
    BY CallsGrow
  <2> QED BY <2>1, <2>2, CallsAre
<1>2. Quiet(n + 1, n + 1)
  BY NoneLater DEF Quiet
<1>3. ASSUME NEW k \in CallsTo(n)
      PROVE  /\ Quiet(k, n + 1) <=> Quiet(k, n) /\ id # log[k].id
             /\ AnswerUpto(k, n + 1) = AnswerUpto(k, n)
  <2>1. k \in Nat /\ k <= n
    BY CallsAre
  <2>2. log[n + 1].type # "torn" /\ log[n + 1].type # "tool/result"
    OBVIOUS
  <2>3. Quiet(k, n) => AnswerUpto(k, n) = "none"
    BY DEF AnswerUpto
  <2> QED BY <2>1, <2>2, <2>3, AnswerMoves
<1>4. DOMAIN more = DOMAIN open \cup {id} /\ more[id] = n + 1 /\ \A x \in DOMAIN open : x # id => more[x] = open[x]
  BY DEF Opened, With
<1>5. OpenOK(n + 1, more)
  <2>1. ASSUME NEW x \in DOMAIN more
        PROVE  more[x] \in CallsTo(n + 1) /\ log[more[x]].id = x /\ Quiet(more[x], n + 1)
    <3>1. CASE x = id
      BY <1>1, <1>2, <1>4, <3>1
    <3>2. CASE x # id
      <4>1. open[x] \in CallsTo(n) /\ log[open[x]].id = x /\ Quiet(open[x], n) /\ more[x] = open[x]
        BY <1>4, <3>2 DEF OpenOK
      <4> QED BY <1>1, <1>3, <3>2, <4>1
    <3> QED BY <3>1, <3>2
  <2>2. ASSUME NEW k \in CallsTo(n + 1), Quiet(k, n + 1)
        PROVE  log[k].id \in DOMAIN more /\ more[log[k].id] = k
    <3>1. CASE k = n + 1
      BY <1>4, <3>1
    <3>2. CASE k \in CallsTo(n)
      BY <1>3, <1>4, <2>2, <3>2 DEF OpenOK
    <3> QED BY <1>1, <3>1, <3>2
  <2> QED BY <2>1, <2>2 DEF OpenOK
<1>6. ShownUpto(n + 1, n + 1) = "attempt"
  BY <1>2 DEF ShownUpto, ShownFor, AnswerUpto
<1> QED BY <1>1, <1>3, <1>5, <1>6 DEF ShownUpto

\* The result of an open call.
LEMMA RowAnswers ==
  ASSUME NEW n \in Nat, NEW open, OpenOK(n, open), NEW fewer, log[n + 1].type = "tool/result",
         log[n + 1].id \in DOMAIN open, log[n + 1].answer \in Answers,
         fewer = Without(open, log[n + 1].id)
  PROVE  LET call == open[log[n + 1].id]
         IN  /\ CallsTo(n + 1) = CallsTo(n) /\ OpenOK(n + 1, fewer)
             /\ \A k \in CallsTo(n) : k # call => ShownUpto(k, n + 1) = ShownUpto(k, n)
             /\ call \in CallsTo(n) /\ ShownUpto(call, n) = "attempt"
             /\ ShownUpto(call, n + 1) = EntryShows(log[call].tool, log[n + 1].answer)
<1> DEFINE id == log[n + 1].id
           call == open[id]
<1>1. CallsTo(n + 1) = CallsTo(n)
  BY CallsGrow
<1>2. call \in CallsTo(n) /\ log[call].id = id /\ Quiet(call, n)
  BY DEF OpenOK
<1>3. ASSUME NEW k \in CallsTo(n)
      PROVE  /\ Quiet(k, n + 1) <=> Quiet(k, n) /\ id # log[k].id
             /\ k # call => AnswerUpto(k, n + 1) = AnswerUpto(k, n)
             /\ k = call => AnswerUpto(k, n + 1) = log[n + 1].answer
  <2>1. k \in Nat /\ k <= n
    BY CallsAre
  <2>2. log[n + 1].type # "torn"
    OBVIOUS
  <2>3. id = log[k].id /\ Quiet(k, n) => k = call
    BY DEF OpenOK
  <2> HIDE DEF call
  <2> QED BY <1>2, <2>1, <2>2, <2>3, AnswerMoves
<1>4. DOMAIN fewer = DOMAIN open \ {id} /\ \A x \in DOMAIN fewer : fewer[x] = open[x]
  BY DEF Without
<1>5. OpenOK(n + 1, fewer)
  <2>1. ASSUME NEW x \in DOMAIN fewer
        PROVE  fewer[x] \in CallsTo(n + 1) /\ log[fewer[x]].id = x /\ Quiet(fewer[x], n + 1)
    <3>1. x # id /\ open[x] \in CallsTo(n) /\ log[open[x]].id = x /\ Quiet(open[x], n) /\ fewer[x] = open[x]
      BY <1>4 DEF OpenOK
    <3> QED BY <1>1, <1>3, <3>1
  <2>2. ASSUME NEW k \in CallsTo(n), Quiet(k, n + 1)
        PROVE  log[k].id \in DOMAIN fewer /\ fewer[log[k].id] = k
    BY <1>3, <1>4, <2>2 DEF OpenOK
  <2> QED BY <1>1, <2>1, <2>2 DEF OpenOK
<1>6. ShownUpto(call, n) = "attempt"
  BY <1>2 DEF ShownUpto, ShownFor, AnswerUpto
<1>7. ShownUpto(call, n + 1) = EntryShows(log[call].tool, log[n + 1].answer)
  <2>1. log[n + 1].answer # "none"
    BY DEF Answers
  <2>2. AnswerUpto(call, n + 1) = log[n + 1].answer
    BY <1>2, <1>3
  <2> HIDE DEF call
  <2> QED BY <2>1, <2>2 DEF ShownUpto, ShownFor
<1> QED BY <1>1, <1>2, <1>3, <1>5, <1>6, <1>7 DEF ShownUpto

-----------------------------------------------------------------------------

\* How many calls show as something.
LEMMA ShowingIs ==
  ASSUME NEW n \in Nat, NEW tool, NEW as
  PROVE  IsFiniteSet(Showing(n, tool, as)) /\ Cardinality(Showing(n, tool, as)) \in Nat
<1>1. Showing(n, tool, as) \in SUBSET CallsTo(n)
  BY DEF Showing
<1> QED BY <1>1, CallsAre, FS_Subset, FS_CardinalityType

LEMMA ShowingStays ==
  ASSUME NEW n \in Nat, NEW tool, NEW as, as # "attempt",
         \A k \in CallsTo(n) : ShownUpto(k, n + 1) = ShownUpto(k, n),
         CallsTo(n + 1) = CallsTo(n) \/ (CallsTo(n + 1) = CallsTo(n) \cup {n + 1} /\ ShownUpto(n + 1, n + 1) = "attempt")
  PROVE  Showing(n + 1, tool, as) = Showing(n, tool, as)
BY DEF Showing

\* A row that moves one call on.
Moves(n, m, call) ==
  /\ call \in CallsTo(n) /\ CallsTo(m) = CallsTo(n) /\ ShownUpto(call, n) = "attempt"
  /\ \A k \in CallsTo(n) : k # call => ShownUpto(k, m) = ShownUpto(k, n)
Hits(m, call, tool, as) == log[call].tool = tool /\ ShownUpto(call, m) = as
Shifts(n, m, call, tool, as) ==
  /\ Hits(m, call, tool, as) => Cardinality(Showing(m, tool, as)) = Cardinality(Showing(n, tool, as)) + 1
  /\ ~Hits(m, call, tool, as) => Cardinality(Showing(m, tool, as)) = Cardinality(Showing(n, tool, as))

LEMMA ShowingMoves ==
  ASSUME NEW n \in Nat, NEW m \in Nat, NEW call, Moves(n, m, call), NEW tool, NEW as, as # "attempt"
  PROVE  Shifts(n, m, call, tool, as)
<1> DEFINE before == Showing(n, tool, as)
           after == Showing(m, tool, as)
<1>6. /\ call \in CallsTo(n) /\ CallsTo(m) = CallsTo(n) /\ ShownUpto(call, n) = "attempt"
      /\ \A k \in CallsTo(n) : k # call => ShownUpto(k, m) = ShownUpto(k, n)
  BY DEF Moves
<1>1. call \notin before
  BY <1>6 DEF Showing, Hits
<1>2. after = IF Hits(m, call, tool, as) THEN before \cup {call} ELSE before
  <2>1. \A k \in CallsTo(n) : k # call => (k \in after <=> k \in before)
    BY <1>6 DEF Showing, Hits
  <2>2. call \in after <=> Hits(m, call, tool, as)
    BY <1>6 DEF Showing, Hits
  <2>3. after \subseteq CallsTo(n) /\ before \subseteq CallsTo(n)
    BY <1>6 DEF Showing, Hits
  <2> HIDE DEF after, before
  <2>4. CASE Hits(m, call, tool, as)
    <3>1. \A k : k \in after <=> k \in before \cup {call}
      BY <2>1, <2>2, <2>3, <2>4
    <3> QED BY <2>4, <3>1
  <2>5. CASE ~(Hits(m, call, tool, as))
    <3>1. \A k : k \in after <=> k \in before
      BY <1>1, <2>1, <2>2, <2>3, <2>5
    <3> QED BY <2>5, <3>1
  <2> QED BY <2>4, <2>5
<1>3. IsFiniteSet(before) /\ Cardinality(before) \in Nat
  BY ShowingIs
<1> HIDE DEF after, before
<1>4. Cardinality(before \cup {call}) = Cardinality(before) + 1
  BY <1>1, <1>3, FS_AddElement
<1> QED BY <1>2, <1>4 DEF after, before, Shifts

OneMoves(n, m, tool, view) ==
  \A t, as : as # "attempt" =>
    Cardinality(Showing(m, t, as)) = Cardinality(Showing(n, t, as)) + (IF tool = t /\ view = as THEN 1 ELSE 0)

LEMMA AllMove ==
  ASSUME NEW n \in Nat, NEW m \in Nat, NEW call, Moves(n, m, call), NEW tool, NEW view,
         tool = log[call].tool, view = ShownUpto(call, m)
  PROVE  OneMoves(n, m, tool, view)
<1> SUFFICES ASSUME NEW t, NEW as, as # "attempt"
             PROVE  Cardinality(Showing(m, t, as)) =
                      Cardinality(Showing(n, t, as)) + (IF tool = t /\ view = as THEN 1 ELSE 0)
  BY DEF OneMoves
<1>1. tool = t /\ view = as <=> Hits(m, call, t, as)
  BY DEF Hits
<1>2. PICK before, after : before = Cardinality(Showing(n, t, as)) /\ after = Cardinality(Showing(m, t, as))
  OBVIOUS
<1>3. before \in Nat
  BY <1>2, ShowingIs
<1>4. /\ Hits(m, call, t, as) => after = before + 1
      /\ ~Hits(m, call, t, as) => after = before
  <2>1. Shifts(n, m, call, t, as)
    BY ShowingMoves
  <2> QED BY <1>2, <2>1 DEF Shifts
<1>5. before + 0 = before
  BY <1>3
<1>6. after = before + (IF tool = t /\ view = as THEN 1 ELSE 0)
  <2>1. CASE tool = t /\ view = as
    BY <1>1, <1>4, <2>1
  <2>2. CASE ~(tool = t /\ view = as)
    BY <1>1, <1>4, <1>5, <2>2
  <2> QED BY <2>1, <2>2
<1> QED BY <1>2, <1>6

StatFields == {"refused", "errors", "posted", "passes", "passRefused", "attempted", "heard"}

LEMMA BumpIs ==
  ASSUME NEW stats \in [StatFields -> Nat], NEW field \in StatFields, NEW when \in BOOLEAN
  PROVE  /\ Bump(stats, field, when) \in [StatFields -> Nat]
         /\ Bump(stats, field, when)[field] = stats[field] + (IF when THEN 1 ELSE 0)
         /\ \A f \in StatFields : f # field => Bump(stats, field, when)[f] = stats[f]
<1>1. stats[field] \in Nat /\ stats[field] + 1 \in Nat
  OBVIOUS
<1>2. CASE when
  <2>1. Bump(stats, field, when) = [stats EXCEPT ![field] = stats[field] + 1]
    BY <1>2 DEF Bump
  <2> QED BY <1>1, <1>2, <2>1
<1>3. CASE ~when
  <2>1. Bump(stats, field, when) = stats
    BY <1>3 DEF Bump
  <2> QED BY <1>1, <1>3, <2>1
<1> QED BY <1>2, <1>3

LEMMA NoCountsIs ==
  /\ NoCounts \in [StatFields -> Nat]
  /\ NoCounts["heard"] = 0 /\ NoCounts["posted"] = 0 /\ NoCounts["passes"] = 0 /\ NoCounts["passRefused"] = 0
<1>1. NoCounts = [f \in StatFields |-> 0]
  BY DEF NoCounts, StatFields
<1> QED BY <1>1 DEF StatFields

\* What a result adds to the counts.
LEMMA CountsResultIs ==
  ASSUME NEW st, st.stats \in [StatFields -> Nat], NEW id, NEW answer \in Answers
  PROVE  LET after == CountsResult(st, id, answer)
             tool == st.names[id]
             ok == Outcome(answer) = "ok"
         IN  /\ after \in [StatFields -> Nat]
             /\ after["heard"] = st.stats["heard"] + (IF tool = "judicature_hear" /\ ok THEN 1 ELSE 0)
             /\ after["posted"] = st.stats["posted"] + (IF id \in st.posts /\ ok THEN 1 ELSE 0)
             /\ after["passes"] = st.stats["passes"]
                                  + (IF id \in st.passes /\ tool = "forum_pass" /\ answer = "did" THEN 1 ELSE 0)
             /\ after["passRefused"] = st.stats["passRefused"]
                  + (IF id \in st.passes /\ ((tool = "forum_pass" /\ answer = "declined") \/ answer = "refused")
                     THEN 1 ELSE 0)
<1> DEFINE tool == st.names[id]
           verdict == Outcome(answer)
           s0 == st.stats
           b1 == verdict = "refused"
           s1 == Bump(s0, "refused", b1)
           b2 == verdict = "error"
           s2 == Bump(s1, "errors", b2)
           b3 == tool = "judicature_hear" /\ verdict = "ok"
           s3 == Bump(s2, "heard", b3)
           b4 == id \in st.posts /\ verdict = "ok"
           s4 == Bump(s3, "posted", b4)
           b5 == id \in st.passes /\ (tool = "forum_pass" /\ answer = "did")
           s5 == Bump(s4, "passes", b5)
           b6 == id \in st.passes /\ ((tool = "forum_pass" /\ answer = "declined") \/ verdict = "refused")
           s6 == Bump(s5, "passRefused", b6)
<1>1. CountsResult(st, id, answer) = s6
  BY DEF CountsResult
<1>2. b1 \in BOOLEAN /\ b2 \in BOOLEAN /\ b3 \in BOOLEAN /\ b4 \in BOOLEAN /\ b5 \in BOOLEAN /\ b6 \in BOOLEAN
  OBVIOUS
<1>3. verdict = "refused" <=> answer = "refused"
  BY DEF Outcome, Answers
<1> DEFINE c6 == id \in st.passes /\ ((tool = "forum_pass" /\ answer = "declined") \/ answer = "refused")
<1>4. b6 <=> c6
  BY <1>3
<1>5. {"refused", "errors", "heard", "posted", "passes", "passRefused"} \subseteq StatFields
  BY DEF StatFields
<1>6. s0 \in [StatFields -> Nat]
  OBVIOUS
<1> HIDE DEF s0, b1, b2, b3, b4, b5, b6, c6
<1>7. s1 \in [StatFields -> Nat] /\ \A f \in {"heard", "posted", "passes", "passRefused"} : s1[f] = s0[f]
  <2>1. "refused" \in StatFields
    BY <1>5
  <2>2. /\ s1 \in [StatFields -> Nat]
        /\ \A f \in StatFields : f # "refused" => s1[f] = s0[f]
    BY <1>2, <1>6, <2>1, BumpIs
  <2> HIDE DEF s1
  <2> QED BY <1>5, <2>2
<1> HIDE DEF s1
<1>8. s2 \in [StatFields -> Nat] /\ \A f \in {"heard", "posted", "passes", "passRefused"} : s2[f] = s0[f]
  BY <1>2, <1>5, <1>7, BumpIs
<1> HIDE DEF s2
<1>9. /\ s3 \in [StatFields -> Nat] /\ \A f \in {"posted", "passes", "passRefused"} : s3[f] = s0[f]
      /\ s3["heard"] = s0["heard"] + (IF b3 THEN 1 ELSE 0)
  BY <1>2, <1>5, <1>8, BumpIs
<1> HIDE DEF s3
<1>10. /\ s4 \in [StatFields -> Nat] /\ \A f \in {"passes", "passRefused"} : s4[f] = s0[f]
       /\ s4["heard"] = s0["heard"] + (IF b3 THEN 1 ELSE 0)
       /\ s4["posted"] = s0["posted"] + (IF b4 THEN 1 ELSE 0)
  BY <1>2, <1>5, <1>9, BumpIs
<1> HIDE DEF s4
<1>11. /\ s5 \in [StatFields -> Nat] /\ s5["passRefused"] = s0["passRefused"]
       /\ s5["heard"] = s0["heard"] + (IF b3 THEN 1 ELSE 0)
       /\ s5["posted"] = s0["posted"] + (IF b4 THEN 1 ELSE 0)
       /\ s5["passes"] = s0["passes"] + (IF b5 THEN 1 ELSE 0)
  BY <1>2, <1>5, <1>10, BumpIs
<1> HIDE DEF s5
<1>12. /\ s6 \in [StatFields -> Nat]
       /\ s6["heard"] = s0["heard"] + (IF b3 THEN 1 ELSE 0)
       /\ s6["posted"] = s0["posted"] + (IF b4 THEN 1 ELSE 0)
       /\ s6["passes"] = s0["passes"] + (IF b5 THEN 1 ELSE 0)
       /\ s6["passRefused"] = s0["passRefused"] + (IF b6 THEN 1 ELSE 0)
  BY <1>2, <1>5, <1>11, BumpIs
<1> HIDE DEF s6
<1>13. (IF b6 THEN 1 ELSE 0) = IF c6 THEN 1 ELSE 0
  BY <1>4
<1> QED BY <1>1, <1>12, <1>13 DEF s0, b3, b4, b5, c6

-----------------------------------------------------------------------------

\* The ids a result would count a post or a pass for: those whose open call is of that tool,
\* and any other it came under before.
Held(tool, ids, names) ==
  /\ ids \subseteq DOMAIN names
  /\ \A id \in DOMAIN names : names[id] = tool => id \in ids
  /\ Overtaken(tool) \/ \A id \in ids : names[id] = tool

NamesOK(names, open) ==
  DOMAIN names = DOMAIN open /\ \A id \in DOMAIN open : names[id] = log[open[id]].tool

CountsOK(n, stats) ==
  /\ stats["heard"] = Cardinality(Showing(n, "judicature_hear", "ok"))
  /\ stats["passes"] = Cardinality(Showing(n, "forum_pass", "pass"))
  /\ Overtaken("forum_post") \/ stats["posted"] = Cardinality(Showing(n, "forum_post", "ok"))
  /\ Overtaken("forum_pass") \/ stats["passRefused"] = Cardinality(Showing(n, "forum_pass", "pass-refused"))

BothOK(n, arch, rep) ==
  /\ arch.entries = EntriesTo(n) /\ OpenOK(n, arch.open)
  /\ NamesOK(rep.names, arch.open)
  /\ Held("forum_post", rep.posts, rep.names) /\ Held("forum_pass", rep.passes, rep.names)
  /\ rep.stats \in [StatFields -> Nat] /\ CountsOK(n, rep.stats)

LEMMA EntriesStay ==
  ASSUME NEW n \in Nat, CallsTo(n + 1) = CallsTo(n), \A k \in CallsTo(n) : ShownUpto(k, n + 1) = ShownUpto(k, n)
  PROVE  EntriesTo(n + 1) = EntriesTo(n)
BY DEF EntriesTo

LEMMA CountsStay ==
  ASSUME NEW n \in Nat, NEW stats, NEW after, CountsOK(n, stats),
         after["heard"] = stats["heard"], after["passes"] = stats["passes"],
         after["posted"] = stats["posted"], after["passRefused"] = stats["passRefused"],
         \A k \in CallsTo(n) : ShownUpto(k, n + 1) = ShownUpto(k, n),
         CallsTo(n + 1) = CallsTo(n) \/ (CallsTo(n + 1) = CallsTo(n) \cup {n + 1} /\ ShownUpto(n + 1, n + 1) = "attempt")
  PROVE  CountsOK(n + 1, after)
<1>1. /\ Showing(n + 1, "judicature_hear", "ok") = Showing(n, "judicature_hear", "ok")
      /\ Showing(n + 1, "forum_pass", "pass") = Showing(n, "forum_pass", "pass")
      /\ Showing(n + 1, "forum_post", "ok") = Showing(n, "forum_post", "ok")
      /\ Showing(n + 1, "forum_pass", "pass-refused") = Showing(n, "forum_pass", "pass-refused")
  BY ShowingStays
<1> QED BY <1>1 DEF CountsOK

LEMMA PassingRow ==
  ASSUME NEW n \in Nat, NEW arch, NEW rep, BothOK(n, arch, rep),
         \/ log[n + 1].type = "torn"
         \/ log[n + 1].type = "tool/result" /\ log[n + 1].id \notin DOMAIN arch.open
  PROVE  BothOK(n + 1, Archived(arch, n + 1, log[n + 1]), Counted(rep, log[n + 1]))
<1>1. PICK open : open = arch.open
  OBVIOUS
<1>2. /\ CallsTo(n + 1) = CallsTo(n) /\ OpenOK(n + 1, arch.open)
      /\ \A k \in CallsTo(n) : ShownUpto(k, n + 1) = ShownUpto(k, n)
  <2>1. OpenOK(n, open)
    BY <1>1 DEF BothOK
  <2> QED BY <1>1, <2>1, RowPasses
<1>3. Archived(arch, n + 1, log[n + 1]) = arch
  BY DEF Archived
<1>4. Counted(rep, log[n + 1]) = rep
  BY DEF Counted, BothOK, NamesOK
<1>5. arch.entries = EntriesTo(n + 1)
  BY <1>2, EntriesStay DEF BothOK
<1>6. CountsOK(n + 1, rep.stats)
  BY <1>2, CountsStay DEF BothOK
<1> QED BY <1>2, <1>3, <1>4, <1>5, <1>6 DEF BothOK

LEMMA CallingRow ==
  ASSUME TimelineInv, NEW n \in Nat, n + 1 \in 1..Len(log), NEW arch, NEW rep, BothOK(n, arch, rep),
         log[n + 1].type = "tool/call"
  PROVE  BothOK(n + 1, Archived(arch, n + 1, log[n + 1]), Counted(rep, log[n + 1]))
<1> DEFINE id == log[n + 1].id
           tool == log[n + 1].tool
           newA == Archived(arch, n + 1, log[n + 1])
           newR == Counted(rep, log[n + 1])
<1>1. PICK open, more : open = arch.open /\ more = Opened(open, id, n + 1)
  OBVIOUS
<1>2. /\ CallsTo(n + 1) = CallsTo(n) \cup {n + 1} /\ OpenOK(n + 1, more)
      /\ \A k \in CallsTo(n) : ShownUpto(k, n + 1) = ShownUpto(k, n)
      /\ ShownUpto(n + 1, n + 1) = "attempt"
  <2>1. OpenOK(n, open)
    BY <1>1 DEF BothOK
  <2> QED BY <1>1, <2>1, RowCalls
<1>3. /\ newA.entries = With(arch.entries, n + 1, [tool |-> tool, shown |-> "attempt"])
      /\ newA.open = more
  BY <1>1 DEF Archived
<1>4. /\ newR.stats = Bump(rep.stats, "attempted", tool = "judicature_hear")
      /\ newR.names = Opened(rep.names, id, tool)
      /\ newR.posts = (IF tool = "forum_post" THEN rep.posts \cup {id} ELSE rep.posts)
      /\ newR.passes = (IF tool = "forum_pass" THEN rep.passes \cup {id} ELSE rep.passes)
  BY DEF Counted
<1>5. newA.entries = EntriesTo(n + 1)
  <2>1. DOMAIN EntriesTo(n) = CallsTo(n) /\ n + 1 \notin CallsTo(n)
    BY CallsAre DEF EntriesTo
  <2>2. \A k \in CallsTo(n) : EntriesTo(n)[k] = [tool |-> log[k].tool, shown |-> ShownUpto(k, n + 1)]
    BY <1>2 DEF EntriesTo
  <2>3. newA.entries = With(EntriesTo(n), n + 1, [tool |-> tool, shown |-> "attempt"])
    BY <1>3 DEF BothOK
  <2> HIDE DEF newA
  <2> QED BY <1>2, <2>1, <2>2, <2>3 DEF With, EntriesTo
<1>6. NamesOK(newR.names, more)
  <2>1. NamesOK(rep.names, open)
    BY <1>1 DEF BothOK
  <2> HIDE DEF newR
  <2> QED BY <1>1, <1>4, <2>1 DEF NamesOK, Opened, With
<1>7. newR.stats \in [StatFields -> Nat] /\ CountsOK(n + 1, newR.stats)
  <2>1. rep.stats \in [StatFields -> Nat] /\ CountsOK(n, rep.stats)
    BY DEF BothOK
  <2>2. PICK stats, when, after : stats = rep.stats /\ when = (tool = "judicature_hear") /\ after = newR.stats
    OBVIOUS
  <2>3. after \in [StatFields -> Nat] /\ \A f \in StatFields : f # "attempted" => after[f] = stats[f]
    <3>1. after = Bump(stats, "attempted", when)
      BY <1>4, <2>2
    <3>2. when \in BOOLEAN /\ stats \in [StatFields -> Nat]
      BY <2>1, <2>2
    <3>3. "attempted" \in StatFields
      BY DEF StatFields
    <3> QED BY <3>1, <3>2, <3>3, BumpIs
  <2>4. /\ after["heard"] = stats["heard"] /\ after["passes"] = stats["passes"]
        /\ after["posted"] = stats["posted"] /\ after["passRefused"] = stats["passRefused"]
    BY <2>3 DEF StatFields
  <2>5. CountsOK(n, stats)
    BY <2>1, <2>2
  <2>6. CountsOK(n + 1, after)
    BY <1>2, <2>4, <2>5, CountsStay
  <2> QED BY <2>2, <2>3, <2>6
<1>8. ASSUME NEW t, t \in {"forum_post", "forum_pass"}, NEW ids, NEW after,
             Held(t, ids, rep.names), after = IF tool = t THEN ids \cup {id} ELSE ids
      PROVE  Held(t, after, newR.names)
  <2>1. PICK names, more2 : names = rep.names /\ more2 = newR.names
    OBVIOUS
  <2>2. /\ DOMAIN more2 = DOMAIN names \cup {id} /\ more2[id] = tool
        /\ \A x \in DOMAIN names : x # id => more2[x] = names[x]
    BY <1>4, <2>1 DEF Opened, With
  <2>3. Held(t, ids, names)
    BY <1>8, <2>1
  <2>4. ASSUME id \in ids, tool # t PROVE Overtaken(t)
    <3>1. CASE ~(\A x \in ids : names[x] = t)
      BY <2>3, <3>1 DEF Held
    <3>2. CASE names[id] = t
      <4>1. id \in DOMAIN open /\ log[open[id]].tool = t
        BY <1>1, <2>1, <2>3, <2>4, <3>2 DEF BothOK, NamesOK, Held
      <4>2. PICK k : k = open[id]
        OBVIOUS
      <4>3. k \in CallsTo(n) /\ log[k].id = id /\ Quiet(k, n)
        BY <1>1, <4>1, <4>2 DEF BothOK, OpenOK
      <4>4. k \in Nat /\ k \in 1..n /\ k <= n
        BY <4>3, CallsAre
      <4>5. k \in Calls /\ n + 1 \in Calls
        <5>1. k \in 1..Len(log) /\ log[k].type = "tool/call"
          BY <4>3, <4>4, LogIs DEF CallsTo
        <5> QED BY <5>1, LogIs DEF Calls
      <4>6. n + 1 \in Later(k, n + 1)
        <5>1. n + 1 \in (k + 1)..(n + 1)
          BY <4>4
        <5> QED BY <4>3, <5>1 DEF Later
      <4>7. Later(k, n + 1 - 1) = {}
        <5>1. n + 1 - 1 = n
          OBVIOUS
        <5> QED BY <4>3, <5>1 DEF Quiet
      <4> QED BY <2>4, <4>1, <4>2, <4>5, <4>6, <4>7 DEF Overtaken
    <3> QED BY <2>4, <3>1, <3>2
  <2>5. after \subseteq DOMAIN more2
    BY <1>8, <2>2, <2>3 DEF Held
  <2>6. \A x \in DOMAIN more2 : more2[x] = t => x \in after
    BY <1>8, <2>2, <2>3 DEF Held
  <2>7. Overtaken(t) \/ \A x \in after : more2[x] = t
    BY <1>8, <2>2, <2>3, <2>4 DEF Held
  <2> QED BY <2>1, <2>5, <2>6, <2>7 DEF Held
<1>9. Held("forum_post", newR.posts, newR.names)
  BY <1>4, <1>8 DEF BothOK
<1>10. Held("forum_pass", newR.passes, newR.names)
  BY <1>4, <1>8 DEF BothOK
<1> HIDE DEF newA, newR
<1> QED BY <1>1, <1>2, <1>3, <1>5, <1>6, <1>7, <1>9, <1>10 DEF BothOK, newA, newR

LEMMA AnsweringRow ==
  ASSUME NEW n \in Nat, NEW arch, NEW rep, BothOK(n, arch, rep), log[n + 1].type = "tool/result",
         log[n + 1].answer \in Answers, log[n + 1].id \in DOMAIN arch.open
  PROVE  BothOK(n + 1, Archived(arch, n + 1, log[n + 1]), Counted(rep, log[n + 1]))
<1> DEFINE newA == Archived(arch, n + 1, log[n + 1])
           newR == Counted(rep, log[n + 1])
<1>1. PICK id, answer, open, fewer, names, call :
        /\ id = log[n + 1].id /\ answer = log[n + 1].answer /\ open = arch.open
        /\ fewer = Without(open, id) /\ names = rep.names /\ call = open[id]
  OBVIOUS
<1>2. /\ CallsTo(n + 1) = CallsTo(n) /\ OpenOK(n + 1, fewer)
      /\ \A k \in CallsTo(n) : k # call => ShownUpto(k, n + 1) = ShownUpto(k, n)
      /\ call \in CallsTo(n) /\ ShownUpto(call, n) = "attempt"
      /\ ShownUpto(call, n + 1) = EntryShows(log[call].tool, answer)
  <2>1. OpenOK(n, open)
    BY <1>1 DEF BothOK
  <2> QED BY <1>1, <2>1, RowAnswers
<1>3. id \in DOMAIN names /\ names[id] = log[call].tool /\ DOMAIN names = DOMAIN open
  BY <1>1 DEF BothOK, NamesOK
<1>4. /\ newA.entries = [arch.entries EXCEPT ![call].shown = EntryShows(arch.entries[call].tool, answer)]
      /\ newA.open = fewer
  BY <1>1 DEF Archived
<1>5. /\ newR.stats = CountsResult(rep, id, answer)
      /\ newR.names = Without(names, id)
      /\ newR.posts = rep.posts \ {id} /\ newR.passes = rep.passes \ {id}
  BY <1>1, <1>3 DEF Counted
<1> HIDE DEF newA, newR
<1>6. newA.entries = EntriesTo(n + 1)
  <2>1. PICK entry : entry = [tool |-> log[call].tool, shown |-> ShownUpto(call, n)]
    OBVIOUS
  <2>2. arch.entries = EntriesTo(n) /\ EntriesTo(n)[call] = entry /\ entry.tool = log[call].tool
    BY <1>2, <2>1 DEF BothOK, EntriesTo
  <2>3. PICK view : view = EntryShows(log[call].tool, answer)
    OBVIOUS
  <2>4. [entry EXCEPT !.shown = view] = [tool |-> log[call].tool, shown |-> view]
    BY ONLY <2>1
  <2>5. newA.entries = [EntriesTo(n) EXCEPT ![call] = [entry EXCEPT !.shown = view]]
    BY <1>4, <2>2, <2>3
  <2>6. newA.entries = [EntriesTo(n) EXCEPT ![call] = [tool |-> log[call].tool, shown |-> ShownUpto(call, n + 1)]]
    BY <1>2, <2>3, <2>4, <2>5
  <2>7. \A k \in CallsTo(n) : k # call =>
          [tool |-> log[k].tool, shown |-> ShownUpto(k, n)] = [tool |-> log[k].tool, shown |-> ShownUpto(k, n + 1)]
    BY <1>2
  <2> QED BY <1>2, <2>6, <2>7 DEF EntriesTo
<1>7. NamesOK(newR.names, fewer)
  <2>1. NamesOK(names, open)
    BY <1>1 DEF BothOK
  <2> QED BY <1>1, <1>5, <2>1 DEF NamesOK, Without
<1>8. newR.stats \in [StatFields -> Nat] /\ CountsOK(n + 1, newR.stats)
  <2>1. rep.stats \in [StatFields -> Nat] /\ CountsOK(n, rep.stats) /\ answer \in Answers
    BY <1>1 DEF BothOK
  <2>2. PICK tool, stats, after, posts, passes :
          tool = log[call].tool /\ stats = rep.stats /\ after = newR.stats /\ posts = rep.posts /\ passes = rep.passes
    OBVIOUS
  <2> DEFINE ok == Outcome(answer) = "ok"
  <2>3. /\ after \in [StatFields -> Nat]
        /\ after["heard"] = stats["heard"] + (IF tool = "judicature_hear" /\ ok THEN 1 ELSE 0)
        /\ after["posted"] = stats["posted"] + (IF id \in posts /\ ok THEN 1 ELSE 0)
        /\ after["passes"] = stats["passes"]
                             + (IF id \in passes /\ tool = "forum_pass" /\ answer = "did" THEN 1 ELSE 0)
        /\ after["passRefused"] = stats["passRefused"]
             + (IF id \in passes /\ ((tool = "forum_pass" /\ answer = "declined") \/ answer = "refused")
                THEN 1 ELSE 0)
    <3>1. rep.names[id] = tool
      BY <1>1, <1>3, <2>2
    <3>2. after = CountsResult(rep, id, answer)
      BY <1>5, <2>2
    <3> QED BY <2>1, <2>2, <3>1, <3>2, CountsResultIs
  <2>4. PICK view : view = EntryShows(tool, answer)
    OBVIOUS
  <2>5. \A t, as : as # "attempt" =>
          Cardinality(Showing(n + 1, t, as)) = Cardinality(Showing(n, t, as)) + (IF tool = t /\ view = as THEN 1 ELSE 0)
    <3>1. PICK m : m = n + 1
      OBVIOUS
    <3>2. m \in Nat /\ Moves(n, m, call)
      BY <1>2, <3>1 DEF Moves
    <3>3. tool = log[call].tool /\ view = ShownUpto(call, m)
      BY <1>2, <2>2, <2>4, <3>1
    <3>4. OneMoves(n, m, tool, view)
      BY ONLY n \in Nat, <3>2, <3>3, AllMove
    <3> QED BY <3>1, <3>4 DEF OneMoves
  <2>6. /\ Held("forum_post", posts, names) /\ Held("forum_pass", passes, names) /\ names[id] = tool
        /\ id \in DOMAIN names
    BY <1>1, <1>3, <2>2 DEF BothOK
  <2>7. /\ tool = "judicature_hear" /\ ok <=> tool = "judicature_hear" /\ view = "ok"
        /\ tool = "forum_post" /\ ok <=> tool = "forum_post" /\ view = "ok"
        /\ tool = "forum_pass" /\ answer = "did" <=> tool = "forum_pass" /\ view = "pass"
        /\ tool = "forum_pass" /\ (answer = "declined" \/ answer = "refused")
              <=> tool = "forum_pass" /\ view = "pass-refused"
    BY <2>1, <2>4 DEF Answers, EntryShows, Outcome
  <2>8. tool = "forum_pass" => id \in passes
    BY <2>6 DEF Held
  <2>9. Overtaken("forum_post") \/ (id \in posts <=> tool = "forum_post")
    BY <2>6 DEF Held
  <2>10. Overtaken("forum_pass") \/ (id \in passes <=> tool = "forum_pass")
    BY <2>6 DEF Held
  <2>11. CountsOK(n, stats)
    BY <2>1, <2>2
  <2> HIDE DEF ok
  <2>12. after["heard"] = Cardinality(Showing(n + 1, "judicature_hear", "ok"))
    BY <2>3, <2>5, <2>7, <2>11 DEF CountsOK
  <2>13. after["passes"] = Cardinality(Showing(n + 1, "forum_pass", "pass"))
    BY <2>3, <2>5, <2>7, <2>8, <2>11 DEF CountsOK
  <2>14. Overtaken("forum_post") \/ after["posted"] = Cardinality(Showing(n + 1, "forum_post", "ok"))
    BY <2>3, <2>5, <2>7, <2>9, <2>11 DEF CountsOK
  <2>15. Overtaken("forum_pass") \/ after["passRefused"] = Cardinality(Showing(n + 1, "forum_pass", "pass-refused"))
    BY <2>3, <2>5, <2>7, <2>10, <2>11 DEF CountsOK
  <2> QED BY <2>2, <2>3, <2>12, <2>13, <2>14, <2>15 DEF CountsOK
<1>9. ASSUME NEW t, NEW ids, NEW after, Held(t, ids, names), after = ids \ {id}
      PROVE  Held(t, after, newR.names)
  <2>1. PICK less : less = newR.names
    OBVIOUS
  <2>2. DOMAIN less = DOMAIN names \ {id} /\ \A x \in DOMAIN less : less[x] = names[x]
    BY <1>5, <2>1 DEF Without
  <2> QED BY <1>9, <2>1, <2>2 DEF Held
<1>10. Held("forum_post", newR.posts, newR.names) /\ Held("forum_pass", newR.passes, newR.names)
  <2>1. Held("forum_post", rep.posts, names) /\ Held("forum_pass", rep.passes, names)
    BY <1>1 DEF BothOK
  <2> QED BY <1>5, <1>9, <2>1
<1> QED BY <1>2, <1>4, <1>6, <1>7, <1>8, <1>10 DEF BothOK, newA, newR

\* What the rows say, the archive and the report say, row after row.
LEMMA BothRun ==
  ASSUME TimelineInv, NEW arch, NEW rep, RunsOver("archive", log, arch), RunsOver("report", log, rep)
  PROVE  BothOK(Len(log), arch[Len(log)], rep[Len(log)])
<1> DEFINE N == Len(log)
           bad == {n \in 0..N : ~BothOK(n, arch[n], rep[n])}
<1>1. N \in Nat
  BY LogIs
<1>2. \A n \in 0..N :
        /\ arch[n] = IF n = 0 THEN [entries |-> <<>>, open |-> <<>>] ELSE Archived(arch[n - 1], n, log[n])
        /\ rep[n] = IF n = 0 THEN [stats |-> NoCounts, names |-> <<>>, posts |-> {}, passes |-> {}]
                    ELSE Counted(rep[n - 1], log[n])
  BY DEF RunsOver, Begins, GoesOn
<1> HIDE DEF N
<1>3. BothOK(0, arch[0], rep[0])
  <2>1. PICK a, r : a = arch[0] /\ r = rep[0]
    OBVIOUS
  <2>2. /\ a.entries = <<>> /\ a.open = <<>>
        /\ r.stats = NoCounts /\ r.names = <<>> /\ r.posts = {} /\ r.passes = {}
    BY <1>1, <1>2, <2>1
  <2>3. CallsTo(0) = {} /\ EntriesTo(0) = <<>>
    <3>1. 1..0 = {}
      OBVIOUS
    <3>2. CallsTo(0) = {}
      BY <3>1 DEF CallsTo
    <3> QED BY <3>2 DEF EntriesTo
  <2>4. \A tool, as : Cardinality(Showing(0, tool, as)) = 0
    BY <2>3, FS_EmptySet DEF Showing
  <2>5. r.stats \in [StatFields -> Nat] /\ CountsOK(0, r.stats)
    BY <2>2, <2>4, NoCountsIs DEF CountsOK
  <2>6. OpenOK(0, a.open) /\ NamesOK(r.names, a.open)
    BY <2>2, <2>3 DEF OpenOK, NamesOK
  <2>7. Held("forum_post", r.posts, r.names) /\ Held("forum_pass", r.passes, r.names)
    BY <2>2 DEF Held
  <2> QED BY <2>1, <2>2, <2>3, <2>5, <2>6, <2>7 DEF BothOK
<1>4. ASSUME NEW n \in Nat, n + 1 \in 0..N, BothOK(n, arch[n], rep[n])
      PROVE  BothOK(n + 1, arch[n + 1], rep[n + 1])
  <2>1. PICK a, r : a = arch[n] /\ r = rep[n]
    OBVIOUS
  <2>2. BothOK(n, a, r)
    BY <1>4, <2>1
  <2>3. arch[n + 1] = Archived(a, n + 1, log[n + 1]) /\ rep[n + 1] = Counted(r, log[n + 1])
    <3>1. n + 1 # 0 /\ n + 1 - 1 = n
      OBVIOUS
    <3> QED BY <1>2, <1>4, <2>1, <3>1
  <2>4. n + 1 \in 1..Len(log)
    BY <1>1, <1>4 DEF N
  <2>5. \/ log[n + 1].type = "tool/call"
        \/ log[n + 1].type = "tool/result" /\ log[n + 1].answer \in Answers
        \/ log[n + 1].type = "torn"
    BY <2>4, LogIs
  <2> QED BY <2>2, <2>3, <2>4, <2>5, PassingRow, CallingRow, AnsweringRow
<1>5. ASSUME bad # {} PROVE FALSE
  <2>1. PICK m \in bad : \A j \in bad : m <= j
    <3>1. bad \in SUBSET Nat
      BY <1>1
    <3> HIDE DEF bad
    <3> QED BY <1>5, <3>1, LeastNumber
  <2>2. m \in 0..N /\ ~BothOK(m, arch[m], rep[m])
    OBVIOUS
  <2>3. m # 0
    BY <1>3, <2>2
  <2>4. m - 1 \in Nat /\ m - 1 \in 0..N /\ ~(m <= m - 1) /\ m - 1 + 1 = m
    BY <1>1, <2>2, <2>3
  <2>5. m - 1 \notin bad
    <3> HIDE DEF bad
    <3> QED BY <2>1, <2>4
  <2>6. BothOK(m - 1, arch[m - 1], rep[m - 1])
    BY <2>4, <2>5
  <2> HIDE DEF bad
  <2> QED BY <1>4, <2>2, <2>4, <2>6
<1>6. N \in 0..N /\ N \notin bad
  <2> HIDE DEF bad
  <2> QED BY <1>1, <1>5
<1> QED BY <1>6 DEF N

\* A call that nothing of its id follows is the one that is the latest and unanswered.
LEMMA QuietIsUnanswered ==
  ASSUME TimelineInv, NEW k \in Calls
  PROVE  Quiet(k, Len(log)) <=> (\A j \in Calls : j > k => log[j].id # log[k].id) /\ AnswerTo(k) = "none"
<1> DEFINE N == Len(log)
<1>1. N \in Nat /\ k \in 1..N /\ k \in Nat
  BY LogIs DEF Calls
<1>2. AnswerTo(k) = AnswerUpto(k, N)
  BY DEF AnswerTo, AnswerUpto, FirstLater, Quiet
<1>3. ASSUME Quiet(k, N)
      PROVE  (\A j \in Calls : j > k => log[j].id # log[k].id) /\ AnswerTo(k) = "none"
  <2>1. ASSUME NEW j \in Calls, j > k, log[j].id = log[k].id PROVE FALSE
    <3>1. j \in 1..N /\ log[j].type = "tool/call"
      BY LogIs DEF Calls
    <3>2. j \in (k + 1)..N
      BY <1>1, <2>1, <3>1
    <3> QED BY <1>3, <2>1, <3>1, <3>2 DEF Quiet, Later
  <2>2. AnswerUpto(k, N) = "none"
    BY <1>3 DEF AnswerUpto
  <2> QED BY <1>2, <2>1, <2>2
<1>4. ASSUME ~Quiet(k, N), \A j \in Calls : j > k => log[j].id # log[k].id, AnswerTo(k) = "none"
      PROVE  FALSE
  <2>1. PICK j : j = FirstLater(k, N)
    OBVIOUS
  <2>2. j \in Later(k, N)
    BY <1>1, <1>4, <2>1, FirstLaterIs
  <2>3. j \in (k + 1)..N /\ log[j].type # "torn" /\ log[j].id = log[k].id
    BY <2>2 DEF Later
  <2>4. j \in 1..N /\ j > k
    BY <1>1, <2>3
  <2>5. log[j].type # "tool/call"
    <3>1. log[j].type = "tool/call" => j \in Calls
      BY <2>4, LogIs DEF Calls
    <3> QED BY <1>4, <2>3, <2>4, <3>1
  <2>6. log[j].type = "tool/result" /\ log[j].answer \in Answers
    BY <2>3, <2>4, <2>5, LogIs
  <2>7. AnswerUpto(k, N) = log[j].answer
    BY <1>4, <2>1, <2>6 DEF AnswerUpto
  <2> QED BY <1>2, <1>4, <2>6, <2>7 DEF Answers
<1> QED BY <1>3, <1>4

LEMMA OutcomesHold == TimelineInv => OutcomesAreTheirOwn
<1> SUFFICES ASSUME TimelineInv PROVE OutcomesAreTheirOwn
  OBVIOUS
<1> DEFINE N == Len(log)
           Of(entries, tool, as) == Cardinality({k \in DOMAIN entries : entries[k].tool = tool /\ entries[k].shown = as})
           IsLatest(k) == \A j \in Calls : j > k => log[j].id # log[k].id
<1>1. N \in Nat /\ DOMAIN log = 1..N /\ CallsTo(N) = Calls
  BY LogIs DEF CallsTo, Calls
<1>2. PICK arch : RunsOver("archive", log, arch) /\ ArchiveOf(log) = arch[N].entries
  BY <1>1, ArchiveRuns
<1>3. PICK rep : /\ RunsOver("report", log, rep)
                 /\ ReportOf(log) = [stats |-> rep[N].stats, unresolved |-> Cardinality(DOMAIN rep[N].names)]
  BY <1>1, ReportRuns
<1>4. PICK a, r, entries, report : a = arch[N] /\ r = rep[N] /\ entries = ArchiveOf(log) /\ report = ReportOf(log)
  OBVIOUS
<1>5. BothOK(N, a, r)
  BY <1>2, <1>3, <1>4, BothRun
<1> HIDE DEF N
<1>6. entries = EntriesTo(N) /\ report.stats = r.stats /\ report.unresolved = Cardinality(DOMAIN r.names)
  BY <1>2, <1>3, <1>4, <1>5 DEF BothOK
<1>7. DOMAIN entries = Calls
  BY <1>1, <1>6 DEF EntriesTo
<1>8. \A k \in Calls : entries[k].tool = log[k].tool /\ entries[k].shown = ShownUpto(k, N)
  BY <1>1, <1>6 DEF EntriesTo
<1>9. ASSUME NEW tool, NEW as
      PROVE  Of(entries, tool, as) = Cardinality(Showing(N, tool, as))
  <2>1. {k \in DOMAIN entries : entries[k].tool = tool /\ entries[k].shown = as} = Showing(N, tool, as)
    BY <1>1, <1>7, <1>8 DEF Showing
  <2> QED BY <2>1
<1>10. ASSUME NEW k \in Calls
       PROVE  LET answer == AnswerTo(k)
                  view == entries[k].shown
              IN  /\ entries[k].tool = log[k].tool
                  /\ answer = "none" => view = "attempt"
                  /\ answer = "did" => view = IF log[k].tool = "forum_pass" THEN "pass" ELSE "ok"
                  /\ answer = "refused" => view = IF log[k].tool = "forum_pass" THEN "pass-refused" ELSE "refused"
                  /\ answer = "failed" => view \notin {"ok", "pass"}
  <2>1. AnswerTo(k) = AnswerUpto(k, N)
    BY DEF AnswerTo, AnswerUpto, FirstLater, Quiet, N
  <2>2. PICK answer, tool, view : answer = AnswerTo(k) /\ tool = log[k].tool /\ view = entries[k].shown
    OBVIOUS
  <2>3. view = ShownFor(tool, answer) /\ entries[k].tool = tool
    BY <1>8, <2>1, <2>2 DEF ShownUpto
  <2>4. /\ answer = "none" => view = "attempt"
        /\ answer = "did" => view = IF tool = "forum_pass" THEN "pass" ELSE "ok"
        /\ answer = "refused" => view = IF tool = "forum_pass" THEN "pass-refused" ELSE "refused"
        /\ answer = "failed" => view \notin {"ok", "pass"}
    BY <2>3 DEF ShownFor, EntryShows, Outcome
  <2> QED BY <2>2, <2>3, <2>4
<1>11. report.unresolved = Cardinality({k \in Calls : IsLatest(k) /\ AnswerTo(k) = "none"})
  <2> DEFINE quiet == {k \in Calls : IsLatest(k) /\ AnswerTo(k) = "none"}
  <2>1. PICK open, names : open = a.open /\ names = r.names
    OBVIOUS
  <2>2. OpenOK(N, open) /\ DOMAIN names = DOMAIN open
    BY <1>5, <2>1 DEF BothOK, NamesOK
  <2>3. \A k \in Calls : k \in quiet <=> Quiet(k, N)
    BY QuietIsUnanswered DEF N
  <2>4. quiet \subseteq Calls
    OBVIOUS
  <2> HIDE DEF quiet
  <2>5. \A id \in DOMAIN open : open[id] \in quiet /\ log[open[id]].id = id
    BY <1>1, <2>2, <2>3 DEF OpenOK
  <2>6. \A k \in quiet : log[k].id \in DOMAIN open /\ open[log[k].id] = k
    BY <1>1, <2>2, <2>3, <2>4 DEF OpenOK
  <2>7. PICK f : f = [id \in DOMAIN open |-> open[id]]
    OBVIOUS
  <2>8. f \in [DOMAIN open -> quiet] /\ \A id \in DOMAIN open : f[id] = open[id]
    BY <2>5, <2>7
  <2>9. IsFiniteSet(quiet)
    BY <1>1, <2>4, CallsAre, FS_Subset
  <2>10. \A x, y \in DOMAIN open : f[x] = f[y] => x = y
    BY <2>5, <2>8
  <2>11. \A k \in quiet : \E id \in DOMAIN open : f[id] = k
    BY <2>6, <2>8
  <2>12. Cardinality(DOMAIN open) = Cardinality(quiet)
    BY <2>8, <2>9, <2>10, <2>11, SameCount
  <2> QED BY <1>6, <2>1, <2>2, <2>12 DEF quiet
<1>12. CountsOK(N, r.stats)
  BY <1>5 DEF BothOK
<1>13. /\ report.stats.heard = Of(entries, "judicature_hear", "ok")
       /\ report.stats.passes = Of(entries, "forum_pass", "pass")
       /\ Overtaken("forum_post") \/ report.stats.posted = Of(entries, "forum_post", "ok")
       /\ Overtaken("forum_pass") \/ report.stats.passRefused = Of(entries, "forum_pass", "pass-refused")
  <2> HIDE DEF Of
  <2> QED BY <1>6, <1>9, <1>12 DEF CountsOK
<1> HIDE DEF Of
<1> QED BY <1>4, <1>7, <1>10, <1>11, <1>13 DEF OutcomesAreTheirOwn, Of

-----------------------------------------------------------------------------
(* The pages of a reader: what comes before what, the first and the last of *)
(* what stands in a window, and what a reader has been told after a page.   *)

Places == [range : Nat, at : Nat]

LEMMA PlaceIs ==
  ASSUME NEW p \in Places
  PROVE  p.range \in Nat /\ p.at \in Nat /\ p = [range |-> p.range, at |-> p.at]
BY DEF Places

LEMMA PrecedesOrders ==
  ASSUME NEW p \in Places, NEW q \in Places
  PROVE  /\ ~Precedes(p, p) /\ (p = q \/ Precedes(p, q) \/ Precedes(q, p))
         /\ \A r \in Places : Precedes(p, q) /\ Precedes(q, r) => Precedes(p, r)
<1>1. /\ p.range \in Nat /\ p.at \in Nat /\ q.range \in Nat /\ q.at \in Nat
      /\ p.range = q.range /\ p.at = q.at => p = q
  <2>1. p = [range |-> p.range, at |-> p.at] /\ q = [range |-> q.range, at |-> q.at]
    BY PlaceIs
  <2> QED BY <2>1, PlaceIs
<1>2. p = q \/ Precedes(p, q) \/ Precedes(q, p)
  BY <1>1 DEF Precedes
<1>3. ~Precedes(p, p)
  BY <1>1 DEF Precedes
<1>4. ASSUME NEW r \in Places, Precedes(p, q), Precedes(q, r) PROVE Precedes(p, r)
  <2>1. r.range \in Nat /\ r.at \in Nat
    BY PlaceIs
  <2> QED BY <1>1, <1>4, <2>1 DEF Precedes
<1> QED BY <1>2, <1>3, <1>4

Standings(places) == places \in SUBSET Places /\ IsFiniteSet(places)

\* The first of a window are its beginning, the last its end.
LEMMA FirstNBegins ==
  ASSUME NEW places, Standings(places), inquiry.limit \in Nat, NEW p \in FirstN(places), NEW q \in places,
         Precedes(q, p)
  PROVE  q \in FirstN(places)
<1> DEFINE upTo(x) == {r \in places : Precedes(r, x)}
<1>1. p \in places /\ Cardinality(upTo(p)) < inquiry.limit
  BY DEF FirstN
<1>2. upTo(q) \subseteq upTo(p)
  <2>1. places \in SUBSET Places
    BY DEF Standings
  <2> QED BY <1>1, <2>1, PrecedesOrders
<1>3. IsFiniteSet(upTo(p))
  <2>1. upTo(p) \in SUBSET places
    OBVIOUS
  <2> QED BY <2>1, FS_Subset DEF Standings
<1> HIDE DEF upTo
<1>4. Cardinality(upTo(q)) \in Nat /\ Cardinality(upTo(p)) \in Nat /\ Cardinality(upTo(q)) <= Cardinality(upTo(p))
  BY <1>2, <1>3, FS_Subset, FS_CardinalityType
<1>5. Cardinality(upTo(q)) < inquiry.limit
  BY <1>1, <1>4
<1> QED BY <1>5 DEF FirstN, upTo

LEMMA LastNEnds ==
  ASSUME NEW places, Standings(places), inquiry.limit \in Nat, NEW p \in LastN(places), NEW q \in places,
         Precedes(p, q)
  PROVE  q \in LastN(places)
<1> DEFINE past(x) == {r \in places : Precedes(x, r)}
<1>1. p \in places /\ Cardinality(past(p)) < inquiry.limit
  BY DEF LastN
<1>2. past(q) \subseteq past(p)
  <2>1. places \in SUBSET Places
    BY DEF Standings
  <2> QED BY <1>1, <2>1, PrecedesOrders
<1>3. IsFiniteSet(past(p))
  <2>1. past(p) \in SUBSET places
    OBVIOUS
  <2> QED BY <2>1, FS_Subset DEF Standings
<1> HIDE DEF past
<1>4. Cardinality(past(q)) \in Nat /\ Cardinality(past(p)) \in Nat /\ Cardinality(past(q)) <= Cardinality(past(p))
  BY <1>2, <1>3, FS_Subset, FS_CardinalityType
<1>5. Cardinality(past(q)) < inquiry.limit
  BY <1>1, <1>4
<1> QED BY <1>5 DEF LastN, past

\* What a window holds: acts the reader may read, from the cursor on, in order, and every
\* one that lies between two of them; with a cursor, every one from there.
Lies(places, i) == \E p \in places : p.at = i
Window(places) ==
  /\ Standings(places)
  /\ \A p \in places : p.at \in Readable /\ cursor <= p.at
  /\ \A p, q \in places : Precedes(p, q) => p.at < q.at
  /\ \A p, q \in places, i \in Readable : p.at <= i /\ i <= q.at => Lies(places, i)
Resumes(places) == cursor # 0 => \A q \in places, i \in Readable : cursor <= i /\ i <= q.at => Lies(places, i)

LEMMA WindowFirst ==
  ASSUME NEW places, Window(places), Resumes(places), inquiry.limit \in Nat
  PROVE  Window(FirstN(places)) /\ Resumes(FirstN(places))
<1> DEFINE first == FirstN(places)
<1>1. first \subseteq places /\ places \in SUBSET Places /\ IsFiniteSet(places)
  BY DEF FirstN, Window, Standings
<1>2. Standings(first)
  BY <1>1, FS_Subset DEF Standings
<1>3. ASSUME NEW q \in first, NEW i, Lies(places, i), i <= q.at
      PROVE  Lies(first, i)
  <2>1. PICK p \in places : p.at = i
    BY <1>3 DEF Lies
  <2>2. p.at \in Nat /\ q.at \in Nat /\ p \in Places /\ q \in Places /\ q \in places
    BY <1>1, PlaceIs
  <2>3. ~Precedes(q, p)
    BY <1>3, <2>1, <2>2 DEF Window
  <2>4. p = q \/ Precedes(p, q)
    BY <2>2, <2>3, PrecedesOrders
  <2>5. p \in first
    BY <1>3, <2>1, <2>4, FirstNBegins DEF Window
  <2> QED BY <2>1, <2>5 DEF Lies
<1> HIDE DEF first
<1>4. Window(first)
  BY <1>1, <1>2, <1>3 DEF Window
<1>5. Resumes(first)
  BY <1>1, <1>3 DEF Resumes
<1> QED BY <1>4, <1>5 DEF first

LEMMA WindowLast ==
  ASSUME NEW places, Window(places), cursor = 0, inquiry.limit \in Nat
  PROVE  Window(LastN(places)) /\ Resumes(LastN(places))
<1> DEFINE end == LastN(places)
<1>1. end \subseteq places /\ places \in SUBSET Places /\ IsFiniteSet(places)
  BY DEF LastN, Window, Standings
<1>2. Standings(end)
  BY <1>1, FS_Subset DEF Standings
<1>3. ASSUME NEW q \in end, NEW i, Lies(places, i), q.at <= i
      PROVE  Lies(end, i)
  <2>1. PICK p \in places : p.at = i
    BY <1>3 DEF Lies
  <2>2. p.at \in Nat /\ q.at \in Nat /\ p \in Places /\ q \in Places /\ q \in places
    BY <1>1, PlaceIs
  <2>3. ~Precedes(p, q)
    BY <1>3, <2>1, <2>2 DEF Window
  <2>4. p = q \/ Precedes(q, p)
    BY <2>2, <2>3, PrecedesOrders
  <2>5. p \in end
    BY <1>3, <2>1, <2>4, LastNEnds DEF Window
  <2> QED BY <2>1, <2>5 DEF Lies
<1> HIDE DEF end
<1>4. Window(end)
  BY <1>1, <1>2, <1>3 DEF Window
<1> QED BY <1>4 DEF Resumes, end

-----------------------------------------------------------------------------
(* What is read of each kind *)

LEMMA MaxIs ==
  ASSUME NEW N \in Nat, NEW S \in SUBSET (0..N)
  PROVE  \A i \in S : i <= Max(S \cup {0})
<1> DEFINE T == S \cup {0}
<1>1. T \in SUBSET (0..N) /\ T # {}
  OBVIOUS
<1> HIDE DEF T
<1>2. PICK m \in T : \A j \in T : j <= m
  BY <1>1, GreatestNumber
<1>3. \A i, j \in T : i <= j <=> j >= i
  BY <1>1
<1>4. \A j \in T : m >= j
  BY <1>2, <1>3
<1>5. Max(T) \in T /\ \A j \in T : Max(T) >= j
  BY <1>4 DEF Max
<1>6. \A j \in T : j <= Max(T)
  BY <1>3, <1>5
<1> QED BY <1>6 DEF T

LEMMA MaxIn ==
  ASSUME NEW N \in Nat, NEW S \in SUBSET (0..N)
  PROVE  Max(S \cup {0}) \in S \cup {0}
<1> DEFINE T == S \cup {0}
<1>1. T \in SUBSET (0..N) /\ T # {}
  OBVIOUS
<1> HIDE DEF T
<1>2. PICK m \in T : \A j \in T : j <= m
  BY <1>1, GreatestNumber
<1>3. \A j \in T : m >= j
  BY <1>1, <1>2
<1> QED BY <1>3 DEF Max, T

LEMMA MinIs ==
  ASSUME NEW S \in SUBSET Nat, S # {}
  PROVE  Min(S) \in S
<1>1. PICK m \in S : \A j \in S : m <= j
  BY LeastNumber
<1> QED BY <1>1 DEF Min

ReaderOK == /\ book \in Seq({"act", "mind"}) /\ loose \in Nat /\ cursor \in Nat
            /\ inquiry \in Inquiries

LEMMA EndIs ==
  ASSUME ReaderOK
  PROVE  /\ Len(book) \in Nat /\ End \in Nat /\ Len(book) <= End
         /\ From \in Nat /\ From >= 1 /\ cursor <= From /\ (cursor # 0 => From = cursor)
         /\ inquiry.limit \in Nat /\ inquiry.limit >= 1
<1>1. inquiry.limit \in Nat \ {0}
  BY InquiriesAre DEF ReaderOK
<1>2. Len(book) \in Nat /\ loose \in Nat /\ cursor \in Nat
  BY DEF ReaderOK
<1> QED BY <1>1, <1>2 DEF End, From

\* What stands in one record, of a stretch of it the chain commits.
LEMMA StretchIsWindow ==
  ASSUME ReaderOK, inquiry.whose # "cited", NEW acts, NEW lo \in Nat, NEW hi \in Nat, lo >= 1, cursor <= lo,
         \A i \in Nat : i \in acts <=> lo <= i /\ i <= hi /\ Matches(i),
         acts \in SUBSET (1..Len(book)), cursor # 0 => lo = cursor
  PROVE  Window(Standing(1, acts)) /\ Resumes(Standing(1, acts))
<1> DEFINE places == Standing(1, acts)
<1>1. \A i \in acts : i \in Nat /\ lo <= i /\ i <= hi /\ Matches(i) /\ i \in Readable
  BY EndIs DEF Readable
<1>2. \A p : p \in places <=> \E i \in acts : p = [range |-> 1, at |-> i]
  BY DEF Standing
<1>3. \A p \in places : p \in Places /\ p.at \in acts /\ p.range = 1
  BY <1>1, <1>2 DEF Places
<1>4. \A i : Lies(places, i) <=> i \in acts
  <2>1. ASSUME NEW i \in acts PROVE \E p \in places : p.at = i
    <3>1. PICK p : p = [range |-> 1, at |-> i]
      OBVIOUS
    <3>2. p \in places /\ p.at = i
      BY <1>2, <3>1
    <3> QED BY <3>2
  <2> HIDE DEF places
  <2> QED BY <1>3, <2>1 DEF Lies
<1> HIDE DEF places
<1>5. Standings(places)
  <2>1. PICK f : f = [p \in places |-> p.at]
    OBVIOUS
  <2>2. \A p, q \in places : p.at = q.at => p = q
    BY <1>2
  <2>3. f \in [places -> acts] /\ \A p \in places : f[p] = p.at
    BY <1>3, <2>1
  <2>4. f \in Injection(places, acts)
    BY <2>2, <2>3 DEF Injection, IsInjective
  <2>5. IsFiniteSet(acts)
    <3>1. IsFiniteSet(1..Len(book))
      BY EndIs, FS_Interval
    <3> QED BY <3>1, FS_Subset
  <2> QED BY <1>3, <2>4, <2>5, FS_Injection DEF Standings
<1>6. \A p \in places : p.at \in Readable /\ cursor <= p.at
  <2>1. \A i \in acts : cursor <= i
    BY <1>1 DEF ReaderOK
  <2> QED BY <1>1, <1>3, <2>1
<1>7. \A p, q \in places : Precedes(p, q) => p.at < q.at
  BY <1>3 DEF Precedes
<1>8. \A i \in Readable : i \in Nat /\ Matches(i)
  BY EndIs DEF Readable
<1>9. \A p, q \in places, i \in Readable : p.at <= i /\ i <= q.at => Lies(places, i)
  <2> SUFFICES ASSUME NEW p \in places, NEW q \in places, NEW i \in Readable, p.at <= i, i <= q.at
               PROVE  i \in acts
    BY <1>4
  <2>1. p.at \in Nat /\ q.at \in Nat /\ lo <= p.at /\ q.at <= hi
    BY <1>1, <1>3
  <2>2. i \in Nat /\ Matches(i) /\ lo <= i /\ i <= hi
    BY <1>8, <2>1
  <2> QED BY <2>2
<1>10. Resumes(places)
  <2> SUFFICES ASSUME cursor # 0, NEW q \in places, NEW i \in Readable, cursor <= i, i <= q.at
               PROVE  i \in acts
    BY <1>4 DEF Resumes
  <2>1. q.at \in Nat /\ q.at <= hi
    BY <1>1, <1>3
  <2>2. i \in Nat /\ Matches(i) /\ lo <= i /\ i <= hi
    BY <1>8, <2>1
  <2> QED BY <2>2
<1> QED BY <1>5, <1>6, <1>7, <1>9, <1>10 DEF Window, places

\* No types asked for: a stretch from the cursor, or the tail.
LEMMA PlainIsWindow ==
  ASSUME ReaderOK, inquiry.whose # "cited", inquiry.types = {}, ~Alarms
  PROVE  Window(Standing(1, ReadPlain)) /\ Resumes(Standing(1, ReadPlain))
<1> DEFINE lo == IF cursor = 0 THEN TailStart ELSE cursor
           hi == IF cursor = 0 THEN End
                 ELSE IF cursor + inquiry.limit - 1 < End THEN cursor + inquiry.limit - 1 ELSE End
<1>1. ReadPlain = lo..hi
  BY DEF ReadPlain
<1>2. lo \in Nat /\ lo >= 1 /\ cursor <= lo /\ hi \in Int /\ hi <= End /\ (cursor # 0 => lo = cursor)
  BY EndIs DEF TailStart, From
<1> HIDE DEF lo, hi
<1>3. ReadPlain \in SUBSET (0..End)
  BY <1>1, <1>2, EndIs
<1>4. \A i \in ReadPlain : i <= Max(ReadPlain \cup {0})
  BY <1>3, EndIs, MaxIs
<1>5. ~(Max(ReadPlain \cup {0}) > Len(book))
  BY DEF Alarms
<1>6. ReadPlain \in SUBSET (1..Len(book))
  <2>1. Max(ReadPlain \cup {0}) \in ReadPlain \cup {0}
    BY <1>3, EndIs, MaxIn
  <2> SUFFICES ASSUME NEW i \in ReadPlain PROVE i \in 1..Len(book)
    OBVIOUS
  <2>2. i \in Nat /\ i >= 1
    BY <1>1, <1>2
  <2>3. PICK m : m = Max(ReadPlain \cup {0})
    OBVIOUS
  <2>4. m \in Nat /\ ~(m > Len(book)) /\ i <= m
    <3>1. m \in ReadPlain \cup {0} /\ i <= m /\ ~(m > Len(book))
      BY <1>4, <1>5, <2>1, <2>3
    <3>2. m \in Nat
      BY <1>3, <3>1, EndIs
    <3> QED BY <3>1, <3>2
  <2> QED BY <2>2, <2>4, EndIs
<1>7. \A i \in Nat : i \in ReadPlain <=> lo <= i /\ i <= Len(book) /\ i <= hi /\ Matches(i)
  <2>1. \A i : Matches(i)
    BY DEF Matches
  <2>2. \A i \in Nat : i \in 1..Len(book) => i <= Len(book)
    BY EndIs
  <2> QED BY <1>1, <1>2, <1>6, <2>1, <2>2
<1>8. PICK end \in Nat : \A i \in Nat : i \in ReadPlain <=> lo <= i /\ i <= end /\ Matches(i)
  <2>1. CASE hi \in Nat /\ hi <= Len(book)
    <3>1. \A i \in Nat : i <= hi => i <= Len(book)
      BY <2>1, EndIs
    <3>2. \A i \in Nat : i \in ReadPlain <=> lo <= i /\ i <= hi /\ Matches(i)
      BY <1>7, <3>1
    <3> QED BY <2>1, <3>2
  <2>2. CASE ~(hi \in Nat /\ hi <= Len(book))
    <3>1. CASE hi \in Nat
      BY <1>2, <1>7, <2>2, <3>1, EndIs
    <3>2. CASE hi \notin Nat
      <4>1. \A i \in Nat : ~(i <= hi) /\ (lo <= i => ~(i <= 0))
        BY <1>2, <3>2
      <4>2. 0 \in Nat
        OBVIOUS
      <4> QED BY <1>7, <4>1, <4>2
    <3> QED BY <3>1, <3>2
  <2> QED BY <2>1, <2>2
<1> HIDE DEF Alarms
<1> QED BY <1>2, <1>6, <1>8, StretchIsWindow

\* Types asked for: chunk after chunk from the cursor, or from the start.
LEMMA ChunksEnd ==
  ASSUME ReaderOK
  PROVE  \E k \in Nat : ReadScan = Chunk(k)
<1> DEFINE stops == {k \in 1..End + 1 : Enough(k) \/ Cardinality(Chunk(k)) < k * ScanChunk}
<1>1. PICK k : k = End + 1
  OBVIOUS
<1>2. k \in Nat /\ k \in 1..End + 1
  BY <1>1, EndIs
<1>3. Cardinality(Chunk(k)) \in Nat /\ Cardinality(Chunk(k)) < k
  <2>1. Chunk(k) \in SUBSET (1..End) /\ Chunk(k) \in SUBSET Nat
    BY EndIs DEF Chunk
  <2>2. IsFiniteSet(1..End) /\ Cardinality(1..End) = End
    BY EndIs, FS_Interval
  <2>3. Cardinality(Chunk(k)) \in Nat /\ Cardinality(Chunk(k)) <= End
    BY <2>1, <2>2, FS_Subset, FS_CardinalityType
  <2> QED BY <1>1, <2>3, EndIs
<1>4. k <= k * ScanChunk /\ k * ScanChunk \in Nat
  BY <1>2, ScanChunkIsPositive
<1>5. Cardinality(Chunk(k)) < k * ScanChunk
  BY <1>2, <1>3, <1>4
<1>6. k \in stops
  BY <1>2, <1>5
<1>7. stops \in SUBSET Nat
  BY EndIs
<1>8. Min(stops) \in Nat
  <2> HIDE DEF stops
  <2> QED BY <1>6, <1>7, MinIs
<1>9. ReadScan = Chunk(Min(stops))
  BY DEF ReadScan
<1> QED BY <1>8, <1>9

LEMMA ScanIsWindow ==
  ASSUME ReaderOK, inquiry.whose # "cited", inquiry.types # {}, ~Alarms
  PROVE  LET matches == {i \in ReadScan : Matches(i)}
         IN  Window(Standing(1, matches)) /\ Resumes(Standing(1, matches))
<1> DEFINE matches == {i \in ReadScan : Matches(i)}
<1>1. PICK k \in Nat : ReadScan = Chunk(k)
  BY ChunksEnd
<1>2. PICK size : size = k * ScanChunk
  OBVIOUS
<1>3. size \in Nat
  BY <1>2, ScanChunkIsPositive
<1>4. ReadScan = {i \in From..End : i < From + size}
  BY <1>1, <1>2 DEF Chunk
<1>5. ReadScan \in SUBSET (0..End)
  BY <1>4, EndIs
<1>6. PICK m : m = Max(ReadScan \cup {0})
  OBVIOUS
<1>7. m \in Nat /\ m <= Len(book) /\ \A i \in ReadScan : i <= m
  <2>1. m \in ReadScan \cup {0} /\ \A i \in ReadScan : i <= m
    BY <1>5, <1>6, EndIs, MaxIs, MaxIn
  <2>2. ~(m > Len(book))
    BY <1>6 DEF Alarms
  <2>3. m \in Nat
    BY <1>5, <2>1, EndIs
  <2> QED BY <2>1, <2>2, <2>3, EndIs
<1>8. ReadScan \in SUBSET (1..Len(book))
  <2> SUFFICES ASSUME NEW i \in ReadScan PROVE i \in 1..Len(book)
    OBVIOUS
  <2>1. i \in Nat /\ From <= i /\ i <= m
    BY <1>4, <1>7, EndIs
  <2> QED BY <1>7, <2>1, EndIs
<1>9. PICK hi \in Nat : \A i \in Nat : i \in ReadScan <=> From <= i /\ i <= hi
  <2>1. CASE From + size <= End
    <3>1. From + size - 1 \in Nat
      BY <1>3, EndIs
    <3>2. \A i \in Nat : i \in ReadScan <=> From <= i /\ i <= From + size - 1
      BY <1>3, <1>4, <2>1, EndIs
    <3> QED BY <3>1, <3>2
  <2>2. CASE ~(From + size <= End)
    <3>1. \A i \in Nat : i \in ReadScan <=> From <= i /\ i <= End
      BY <1>3, <1>4, <2>2, EndIs
    <3> QED BY <3>1, EndIs
  <2> QED BY <2>1, <2>2
<1>10. \A i \in Nat : i \in matches <=> From <= i /\ i <= hi /\ Matches(i)
  BY <1>9
<1>11. matches \in SUBSET (1..Len(book))
  BY <1>8
<1> HIDE DEF matches, Alarms
<1> QED BY <1>10, <1>11, EndIs, StretchIsWindow DEF matches

\* Cited: what stands in the ranges, from the cursor on.
LEMMA RangesAreWindow ==
  ASSUME ReaderOK, inquiry.whose = "cited", Disjoint, Cited
  PROVE  Window(InRanges) /\ Resumes(InRanges)
<1> DEFINE ranges == inquiry.ranges
<1>1. ranges \in Seq([from : Nat, to : Nat]) /\ \A j, k \in DOMAIN ranges : j < k => ranges[j].from <= ranges[k].from
  BY InquiriesAre DEF ReaderOK
<1>2. PICK size : size = Len(ranges)
  OBVIOUS
<1>3. size \in Nat /\ DOMAIN ranges = 1..size
  BY <1>1, <1>2
<1>4. \A k \in DOMAIN ranges : k \in Nat /\ k <= size
  BY <1>3
<1>5. \A k \in DOMAIN ranges : ranges[k].from \in Nat /\ ranges[k].to \in Nat /\ ranges[k].to <= Len(book)
  <2>1. \A k \in DOMAIN ranges : ranges[k].from \in Nat /\ ranges[k].to \in Nat
    <3>1. \A k \in 1..Len(ranges) : ranges[k] \in [from : Nat, to : Nat]
      <4> HIDE DEF ranges
      <4>1. ranges \in Seq([from : Nat, to : Nat])
        BY <1>1
      <4>2. PICK Rec : Rec = [from : Nat, to : Nat]
        OBVIOUS
      <4>3. ranges \in Seq(Rec)
        BY <4>1, <4>2
      <4>4. \A k \in 1..Len(ranges) : ranges[k] \in Rec
        BY <4>3
      <4> QED BY <4>2, <4>4
    <3> HIDE DEF ranges
    <3> QED BY <1>2, <1>3, <3>1
  <2> QED BY <2>1 DEF Cited
<1>6. \A k \in DOMAIN ranges : \A i : i \in RangePlaces(ranges[k]) <=> i \in Nat /\ ranges[k].from <= i /\ i <= ranges[k].to
  BY <1>5 DEF RangePlaces
<1>7. \A p : p \in InRanges <=>
         \E k \in DOMAIN ranges : \E i \in RangePlaces(ranges[k]) :
           i >= From /\ Matches(i) /\ p = [range |-> k, at |-> i]
  BY DEF InRanges, Standing, Shows, Narrowed
<1> HIDE DEF ranges
<1>8. ASSUME NEW p \in InRanges
      PROVE  /\ p \in Places /\ p.range \in DOMAIN ranges /\ p.at \in RangePlaces(ranges[p.range])
             /\ p.at \in Nat /\ p.at >= From /\ Matches(p.at) /\ p = [range |-> p.range, at |-> p.at]
  <2>1. PICK k \in DOMAIN ranges : \E i \in RangePlaces(ranges[k]) :
           i >= From /\ Matches(i) /\ p = [range |-> k, at |-> i]
    BY <1>7
  <2>2. PICK i \in RangePlaces(ranges[k]) : i >= From /\ Matches(i) /\ p = [range |-> k, at |-> i]
    BY <2>1
  <2>3. p.range = k /\ p.at = i
    BY <2>2
  <2>4. i \in Nat /\ k \in Nat
    BY <1>4, <1>6
  <2>5. p \in Places
    BY <2>2, <2>4 DEF Places
  <2> QED BY <2>2, <2>3, <2>4, <2>5
<1>9. \A i : i \in Readable <=> i \in 1..Len(book) /\ Matches(i) /\ \E k \in DOMAIN ranges : i \in RangePlaces(ranges[k])
  BY DEF Readable, ranges
<1>10. \A p \in InRanges : p.at \in Readable /\ cursor <= p.at /\ p.at <= Len(book)
  <2> SUFFICES ASSUME NEW p \in InRanges PROVE p.at \in Readable /\ cursor <= p.at /\ p.at <= Len(book)
    OBVIOUS
  <2>1. PICK k, i : k = p.range /\ i = p.at
    OBVIOUS
  <2>2. k \in DOMAIN ranges /\ i \in RangePlaces(ranges[k]) /\ i \in Nat /\ i >= From /\ Matches(i)
    BY <1>8, <2>1
  <2>3. i <= ranges[k].to
    BY <1>6, <2>2
  <2>4. i >= 1 /\ i <= Len(book) /\ cursor <= i
    BY <1>5, <2>2, <2>3, EndIs DEF ReaderOK
  <2>5. i \in 1..Len(book)
    BY <2>2, <2>4, EndIs
  <2> QED BY <1>9, <2>1, <2>2, <2>4, <2>5
<1>11. \A i \in Readable : i >= From => Lies(InRanges, i)
  <2> SUFFICES ASSUME NEW i \in Readable, i >= From PROVE Lies(InRanges, i)
    OBVIOUS
  <2>1. PICK k \in DOMAIN ranges : i \in RangePlaces(ranges[k]) /\ Matches(i)
    BY <1>9
  <2>2. PICK p : p = [range |-> k, at |-> i]
    OBVIOUS
  <2>3. p \in InRanges /\ p.at = i
    BY <1>7, <2>1, <2>2
  <2> QED BY <2>3 DEF Lies
<1>12. Standings(InRanges)
  <2>1. PICK f : f = [p \in InRanges |-> <<p.range, p.at>>]
    OBVIOUS
  <2>2. f \in [InRanges -> (1..size) \X (0..Len(book))]
    <3>1. \A p \in InRanges : p.range \in 1..size /\ p.at \in 0..Len(book)
      BY <1>3, <1>8, <1>10, EndIs
    <3> QED BY <2>1, <3>1
  <2>3. \A p, q \in InRanges : f[p] = f[q] => p = q
    <3> SUFFICES ASSUME NEW p \in InRanges, NEW q \in InRanges, f[p] = f[q] PROVE p = q
      OBVIOUS
    <3>1. p.range = q.range /\ p.at = q.at
      BY <2>1
    <3> QED BY <1>8, <3>1
  <2>4. f \in Injection(InRanges, (1..size) \X (0..Len(book)))
    BY <2>2, <2>3 DEF Injection, IsInjective
  <2>5. IsFiniteSet((1..size) \X (0..Len(book)))
    <3>1. IsFiniteSet(1..size) /\ IsFiniteSet(0..Len(book))
      BY <1>3, EndIs, FS_Interval
    <3> QED BY <3>1, FS_Product
  <2> QED BY <1>8, <2>4, <2>5, FS_Injection DEF Standings
<1>13. \A p, q \in InRanges : Precedes(p, q) => p.at < q.at
  <2> SUFFICES ASSUME NEW p \in InRanges, NEW q \in InRanges, Precedes(p, q), ~(p.at < q.at) PROVE FALSE
    OBVIOUS
  <2>1. PICK j, k, x, y : j = p.range /\ k = q.range /\ x = p.at /\ y = q.at
    OBVIOUS
  <2>2. /\ j \in DOMAIN ranges /\ k \in DOMAIN ranges /\ x \in RangePlaces(ranges[j]) /\ y \in RangePlaces(ranges[k])
        /\ x \in Nat /\ y \in Nat
    BY <1>8, <2>1
  <2>3. j < k /\ ~(x < y)
    BY <2>1 DEF Precedes
  <2>4. PICK a, b, c, d : a = ranges[j].from /\ b = ranges[j].to /\ c = ranges[k].from /\ d = ranges[k].to
    OBVIOUS
  <2>5. a \in Nat /\ b \in Nat /\ c \in Nat /\ d \in Nat /\ a <= c
    BY <1>1, <1>5, <2>2, <2>3, <2>4 DEF ranges
  <2>6. a <= x /\ x <= b /\ c <= y /\ y <= d
    BY <1>6, <2>2, <2>4
  <2>7. a <= y /\ y <= b
    BY <2>2, <2>3, <2>5, <2>6
  <2>8. y \in RangePlaces(ranges[j])
    BY <1>6, <2>2, <2>4, <2>7
  <2>9. j # k
    BY <1>4, <2>2, <2>3
  <2> QED BY <2>2, <2>8, <2>9 DEF Disjoint, ranges
<1>14. \A i \in Readable : i \in Nat
  BY EndIs DEF Readable
<1>15. \A p, q \in InRanges, i \in Readable : p.at <= i /\ i <= q.at => Lies(InRanges, i)
  <2> SUFFICES ASSUME NEW p \in InRanges, NEW i \in Readable, p.at <= i PROVE Lies(InRanges, i)
    OBVIOUS
  <2>1. i >= From
    BY <1>8, <1>14, EndIs
  <2> QED BY <1>11, <2>1
<1>16. Resumes(InRanges)
  <2> SUFFICES ASSUME cursor # 0, NEW i \in Readable, cursor <= i PROVE Lies(InRanges, i)
    BY DEF Resumes
  <2>1. i >= From
    BY <1>14, EndIs
  <2> QED BY <1>11, <2>1
<1> QED BY <1>10, <1>12, <1>13, <1>15, <1>16 DEF Window

\* A page that is no alarm.
LEMMA PageIsWindow ==
  ASSUME ReaderOK, Disjoint, Cited, ~Alarms
  PROVE  Window(Page) /\ Resumes(Page)
<1>1. inquiry.limit \in Nat
  BY EndIs
<1>2. ASSUME NEW places, Window(places), Resumes(places)
      PROVE  Window(PageOf(places)) /\ Resumes(PageOf(places))
  BY <1>1, <1>2, WindowFirst, WindowLast DEF PageOf
<1>3. CASE inquiry.whose = "cited"
  BY <1>1, <1>3, RangesAreWindow, WindowFirst DEF Page
<1>4. CASE inquiry.whose # "cited" /\ inquiry.types = {}
  <2>1. Page = PageOf(Standing(1, ReadPlain))
    BY <1>4 DEF Page
  <2> QED BY <1>2, <1>4, <2>1, PlainIsWindow
<1>5. CASE inquiry.whose # "cited" /\ inquiry.types # {}
  <2>1. Page = PageOf(Standing(1, {i \in ReadScan : Matches(i)}))
    BY <1>5 DEF Page
  <2> QED BY <1>2, <1>5, <2>1, ScanIsWindow
<1> QED BY <1>3, <1>4, <1>5

-----------------------------------------------------------------------------
(* What the reader has been told *)

LEMMA LastIs ==
  ASSUME NEW places, Window(places), places # {}, ReaderOK
  PROVE  LastOf(places) \in places /\ \A q \in places : q.at <= LastOf(places).at
<1> DEFINE ats == {p.at : p \in places}
<1>1. places \in SUBSET Places
  BY DEF Window, Standings
<1>2. \A p \in places : p.at \in Nat /\ p.at \in 0..Len(book)
  BY EndIs DEF Window, Readable
<1>3. ats \in SUBSET (0..Len(book)) /\ ats # {}
  BY <1>2
<1>4. \A p \in places : p.at \in ats
  OBVIOUS
<1>5. \A i \in ats : \E p \in places : p.at = i
  OBVIOUS
<1> HIDE DEF ats
<1>6. PICK top \in ats : \A j \in ats : j <= top
  BY <1>3, EndIs, GreatestNumber
<1>7. PICK p \in places : p.at = top
  BY <1>5
<1>8. \A q \in places : q = p \/ Precedes(q, p)
  <2> SUFFICES ASSUME NEW q \in places, q # p PROVE Precedes(q, p)
    OBVIOUS
  <2>1. p \in Places /\ q \in Places /\ p.at \in Nat /\ q.at \in Nat /\ q.at <= p.at
    BY <1>1, <1>2, <1>4, <1>6, <1>7
  <2>2. ~Precedes(p, q)
    BY <2>1 DEF Window
  <2> QED BY <2>1, <2>2, PrecedesOrders
<1>9. PICK final : final = LastOf(places)
  OBVIOUS
<1>10. final \in places /\ \A q \in places : q = final \/ Precedes(q, final)
  BY <1>8, <1>9 DEF LastOf
<1>11. \A q \in places : q.at <= final.at
  BY <1>2, <1>10 DEF Window
<1> QED BY <1>9, <1>10, <1>11

ShownActs == [range : Nat, at : Nat, as : {"listed", "full"}]

\* The reader's state: its cursor is past all it was told, each act as it may be read, and
\* between the first act it was told and the cursor it was told each one it may read.
Cursored ==
  /\ cursor <= Len(book) + 1 /\ (cursor = 0 => Told = {})
  /\ \A t \in Told : t.act.at \in Readable /\ t.act.at < cursor
  /\ \A t \in Told : t.act.as = Legible(t.act.at)
  /\ \A s, t \in Told : ToldBefore(s, t) => s.act.at < t.act.at
  /\ \A s \in Told, i \in Readable : s.act.at <= i /\ i < cursor => \E u \in Told : u.act.at = i

ReadingInv ==
  /\ book \in Seq({"act", "mind"}) /\ loose \in Nat /\ inquiry \in Inquiries
  /\ Disjoint => cursor \in Nat /\ shown \in Seq(SUBSET ShownActs) /\ Cursored

LEMMA ShownActIs ==
  ASSUME NEW p \in Places
  PROVE  /\ ShownAct(p) \in ShownActs
         /\ ShownAct(p).at = p.at /\ ShownAct(p).range = p.range /\ ShownAct(p).as = Legible(p.at)
<1>1. Legible(p.at) \in {"listed", "full"}
  BY DEF Legible
<1> QED BY <1>1, PlaceIs DEF ShownAct, ShownActs

\* A page more.
LEMMA ToldGrows ==
  ASSUME shown \in Seq(SUBSET ShownActs), NEW acts \in SUBSET ShownActs, shown' = Append(shown, acts)
  PROVE  /\ shown' \in Seq(SUBSET ShownActs)
         /\ \A t : t \in Told' <=> t \in Told \/ \E act \in acts : t = [page |-> Len(shown) + 1, act |-> act]
         /\ \A t \in Told : t.page \in Nat /\ t.page <= Len(shown)
<1> DEFINE size == Len(shown)
<1>1. size \in Nat /\ DOMAIN shown = 1..size
  OBVIOUS
<1>2. /\ shown' \in Seq(SUBSET ShownActs) /\ DOMAIN shown' = 1..(size + 1)
      /\ shown'[size + 1] = acts /\ \A k \in 1..size : shown'[k] = shown[k]
  OBVIOUS
<1>3. \A k : k \in 1..(size + 1) <=> k \in 1..size \/ k = size + 1
  BY <1>1
<1>4. \A t : t \in Told <=> \E k \in 1..size : \E act \in shown[k] : t = [page |-> k, act |-> act]
  BY <1>1 DEF Told
<1>5. \A t : t \in Told' <=> \E k \in 1..(size + 1) : \E act \in shown'[k] : t = [page |-> k, act |-> act]
  BY <1>2 DEF Told
<1> HIDE DEF size
<1>6. \A t : t \in Told' <=> t \in Told \/ \E act \in acts : t = [page |-> size + 1, act |-> act]
  BY <1>2, <1>3, <1>4, <1>5
<1>7. \A t \in Told : t.page \in Nat /\ t.page <= size
  <2> SUFFICES ASSUME NEW t \in Told PROVE t.page \in Nat /\ t.page <= size
    OBVIOUS
  <2>1. PICK k \in 1..size : \E act \in shown[k] : t = [page |-> k, act |-> act]
    BY <1>4
  <2>2. t.page = k
    BY <2>1
  <2> QED BY <1>1, <2>2
<1> QED BY <1>2, <1>6, <1>7 DEF size

LEMMA PageKeeps ==
  ASSUME ReaderOK, Cursored, shown \in Seq(SUBSET ShownActs), NEW places, Window(places), Resumes(places),
         shown' = Append(shown, {ShownAct(p) : p \in places}),
         cursor' = IF places = {} THEN cursor ELSE LastOf(places).at + 1,
         UNCHANGED <<book, loose, inquiry>>
  PROVE  cursor' \in Nat /\ shown' \in Seq(SUBSET ShownActs) /\ Cursored'
<1> DEFINE acts == {ShownAct(p) : p \in places}
           size == Len(shown)
           isNew(t, p) == t = [page |-> size + 1, act |-> ShownAct(p)]
<1>1. places \in SUBSET Places /\ \A p \in places : p.at \in Nat /\ p.at \in Readable /\ cursor <= p.at
  BY PlaceIs DEF Window, Standings
<1>2. acts \in SUBSET ShownActs
  BY <1>1, ShownActIs
<1>3. /\ shown' \in Seq(SUBSET ShownActs) /\ size \in Nat
      /\ \A t : t \in Told' <=> t \in Told \/ \E p \in places : isNew(t, p)
      /\ \A t \in Told : t.page \in Nat /\ t.page <= size
  <2>1. \A t : (\E act \in acts : t = [page |-> size + 1, act |-> act]) <=> \E p \in places : isNew(t, p)
    OBVIOUS
  <2> HIDE DEF acts, isNew
  <2>2. shown' = Append(shown, acts)
    BY DEF acts
  <2>3. size \in Nat
    OBVIOUS
  <2> QED BY <1>2, <2>1, <2>2, <2>3, ToldGrows
<1>4. \A p \in places : \A t : isNew(t, p) => /\ t.page = size + 1 /\ t.act.at = p.at /\ t.act.range = p.range
                                               /\ t.act.as = Legible(p.at)
  BY <1>1, ShownActIs
<1>5. \A p \in places : \E t : isNew(t, p)
  OBVIOUS
<1>6. Readable' = Readable
  BY DEF Readable, Matches, RangePlaces
<1>7. \A i \in Readable : i \in Nat /\ i <= Len(book)
  BY EndIs DEF Readable
<1> HIDE DEF acts, size, isNew
<1>8. cursor \in Nat /\ Len(book) \in Nat
  BY EndIs DEF ReaderOK
<1>9. \A i : Legible(i)' = Legible(i)
  BY DEF Legible
<1>10. CASE places = {}
  <2>1. Told' = Told /\ cursor' = cursor
    BY <1>3, <1>10
  <2> QED BY <1>3, <1>6, <1>8, <1>9, <2>1 DEF Cursored, ToldBefore, Precedes
<1>11. CASE places # {}
  <2>1. PICK final : final = LastOf(places)
    OBVIOUS
  <2>2. final \in places /\ cursor' = final.at + 1 /\ \A p \in places : p.at <= final.at
    BY <1>11, <2>1, LastIs
  <2>3. PICK to : to = final.at
    OBVIOUS
  <2>4. to \in Nat /\ to \in Readable /\ cursor <= to /\ to <= Len(book) /\ cursor' = to + 1
    BY <1>1, <1>7, <2>2, <2>3
  <2>5. cursor' \in Nat /\ cursor' <= Len(book) + 1 /\ cursor' # 0
    BY <1>8, <2>4
  <2>6. \A t \in Told' : t.act.at \in Readable /\ t.act.at < cursor'
    <3> SUFFICES ASSUME NEW t \in Told' PROVE t.act.at \in Readable /\ t.act.at < cursor'
      OBVIOUS
    <3>1. CASE t \in Told
      <4>1. t.act.at \in Readable /\ t.act.at < cursor
        BY <3>1 DEF Cursored
      <4>2. PICK i : i = t.act.at
        OBVIOUS
      <4>3. i \in Nat /\ i < cursor
        BY <1>7, <4>1, <4>2
      <4> QED BY <1>8, <2>4, <4>1, <4>2, <4>3
    <3>2. CASE \E p \in places : isNew(t, p)
      <4>1. PICK p \in places : isNew(t, p)
        BY <3>2
      <4>2. t.act.at = p.at /\ p.at \in Nat /\ p.at \in Readable /\ p.at <= to
        BY <1>1, <1>4, <2>2, <2>3, <4>1
      <4> QED BY <2>4, <4>2
    <3> QED BY <1>3, <3>1, <3>2
  <2>7. \A s, t \in Told' : ToldBefore(s, t) => s.act.at < t.act.at
    <3> SUFFICES ASSUME NEW s \in Told', NEW t \in Told', ToldBefore(s, t) PROVE s.act.at < t.act.at
      OBVIOUS
    <3>1. CASE s \in Told /\ t \in Told
      BY <3>1 DEF Cursored
    <3>2. CASE s \in Told /\ \E p \in places : isNew(t, p)
      <4>1. PICK p \in places : isNew(t, p)
        BY <3>2
      <4>2. t.act.at = p.at /\ p.at \in Nat /\ cursor <= p.at
        BY <1>1, <1>4, <4>1
      <4>3. s.act.at < cursor /\ s.act.at \in Nat
        BY <1>7, <3>2 DEF Cursored
      <4> QED BY <1>8, <4>2, <4>3
    <3>3. CASE (\E p \in places : isNew(s, p)) /\ t \in Told
      <4>1. s.page = size + 1 /\ t.page \in Nat /\ t.page <= size
        BY <1>3, <1>4, <3>3
      <4>2. ~(s.page < t.page) /\ s.page # t.page
        BY <1>3, <4>1
      <4> QED BY <4>2 DEF ToldBefore
    <3>4. CASE (\E p \in places : isNew(s, p)) /\ (\E p \in places : isNew(t, p))
      <4>1. PICK p \in places : isNew(s, p)
        BY <3>4
      <4>2. PICK q \in places : isNew(t, q)
        BY <3>4
      <4>3. /\ s.page = size + 1 /\ s.act.at = p.at /\ s.act.range = p.range
            /\ t.page = size + 1 /\ t.act.at = q.at /\ t.act.range = q.range
        BY <1>4, <4>1, <4>2
      <4>4. ~(s.page < t.page)
        BY <1>3, <4>3
      <4>5. Precedes(p, q)
        BY <4>3, <4>4 DEF ToldBefore, Precedes
      <4>6. p.at < q.at
        BY <4>5 DEF Window
      <4> QED BY <4>3, <4>6
    <3> QED BY <1>3, <3>1, <3>2, <3>3, <3>4
  <2>8. \A s \in Told', i \in Readable : s.act.at <= i /\ i < cursor' => \E u \in Told' : u.act.at = i
    <3> SUFFICES ASSUME NEW s \in Told', NEW i \in Readable, s.act.at <= i, i < cursor'
                 PROVE  \E u \in Told' : u.act.at = i
      OBVIOUS
    <3>1. i \in Nat /\ i <= to
      BY <1>7, <2>4
    <3>2. Lies(places, i) => \E u \in Told' : u.act.at = i
      <4> SUFFICES ASSUME Lies(places, i) PROVE \E u \in Told' : u.act.at = i
        OBVIOUS
      <4>1. PICK p \in places : p.at = i
        BY DEF Lies
      <4>2. PICK u : isNew(u, p)
        BY <1>5, <4>1
      <4> QED BY <1>3, <1>4, <4>1, <4>2
    <3>3. CASE s \in Told /\ i < cursor
      BY <1>3, <3>3 DEF Cursored
    <3>4. CASE s \in Told /\ ~(i < cursor)
      <4>1. cursor # 0 /\ cursor <= i
        BY <1>8, <3>1, <3>4 DEF Cursored
      <4>2. Lies(places, i)
        BY <2>2, <2>3, <3>1, <4>1 DEF Resumes
      <4> QED BY <3>2, <4>2
    <3>5. CASE \E p \in places : isNew(s, p)
      <4>1. PICK p \in places : isNew(s, p)
        BY <3>5
      <4>2. p.at <= i
        BY <1>4, <4>1
      <4>3. Lies(places, i)
        BY <2>2, <2>3, <3>1, <4>2 DEF Window
      <4> QED BY <3>2, <4>3
    <3> QED BY <1>3, <3>3, <3>4, <3>5
  <2>9. UNCHANGED book
    OBVIOUS
  <2>10. \A t \in Told' : t.act.as = Legible(t.act.at)
    BY <1>3, <1>4 DEF Cursored
  <2> QED BY <1>3, <1>6, <1>9, <2>5, <2>6, <2>7, <2>8, <2>9, <2>10 DEF Cursored, ToldBefore, Precedes
<1> QED BY <1>10, <1>11

\* The record grows by an act: what the reader was told stands.
LEMMA BookKeeps ==
  ASSUME ReaderOK, Cursored, NEW type, type \in {"act", "mind"}, book' = Append(book, type),
         UNCHANGED <<inquiry, cursor, shown>>
  PROVE  Cursored'
<1> DEFINE size == Len(book)
<1>1. size \in Nat /\ Len(book') = size + 1 /\ cursor \in Nat /\ \A i \in 1..size : book'[i] = book[i]
  BY DEF ReaderOK
<1>2. Told' = Told /\ \A s, t \in Told : ToldBefore(s, t)' <=> ToldBefore(s, t)
  BY DEF Told, ToldBefore, Precedes
<1>3. \A i \in 1..size : i <= size /\ i <= size + 1 /\ i \in Nat /\ i \in 1..(size + 1)
  BY <1>1
<1>4. \A i \in 1..size : Matches(i)' <=> Matches(i)
  BY <1>1, <1>3 DEF Matches
<1>5. \A i \in 1..size : i \in Readable' <=> i \in Readable
  BY <1>1, <1>3, <1>4 DEF Readable, RangePlaces
<1>6. Readable \subseteq 1..size
  BY DEF Readable
<1>7. \A i \in Readable' : i \in 1..size \/ i = size + 1
  <2>1. Readable' \subseteq 1..(size + 1)
    BY <1>1 DEF Readable
  <2> QED BY <1>1, <2>1
<1> HIDE DEF size
<1>8. cursor <= size + 1
  BY DEF Cursored, size
<1>9. \A i \in Readable' : i < cursor => i \in Readable
  <2>1. ~(size + 1 < cursor)
    BY <1>1, <1>8
  <2> QED BY <1>5, <1>7, <2>1
<1>10. cursor' = cursor /\ cursor <= Len(book') + 1
  BY <1>1, <1>8
<1>11. \A t \in Told : t.act.at \in Readable' /\ t.act.at < cursor
  BY <1>5, <1>6 DEF Cursored
<1>12. \A s \in Told, i \in Readable' : s.act.at <= i /\ i < cursor => \E u \in Told : u.act.at = i
  BY <1>9 DEF Cursored
<1>13. \A t \in Told : t.act.as = Legible(t.act.at)'
  <2>1. \A i \in 1..size : Legible(i)' = Legible(i)
    BY <1>1 DEF Legible
  <2> QED BY <1>6, <2>1 DEF Cursored
<1> QED BY <1>2, <1>10, <1>11, <1>12, <1>13 DEF Cursored

LEMMA ReadingKeeps ==
  ASSUME ReadingInv, ReadingActs
  PROVE  ReadingInv'
<1>1. Disjoint' <=> Disjoint
  BY DEF ReadingActs, Acts, Tampers, ReadsPage, Disjoint, RangePlaces
<1>2. CASE Acts
  <2>1. PICK type \in {"act", "mind"} : book' = Append(book, type)
    BY <1>2 DEF Acts
  <2>2. UNCHANGED <<loose, inquiry, cursor, shown>>
    BY <1>2 DEF Acts
  <2>3. book' \in Seq({"act", "mind"})
    BY <2>1 DEF ReadingInv
  <2>4. Disjoint => Cursored'
    BY <2>1, <2>2, BookKeeps DEF ReadingInv, ReaderOK
  <2> QED BY <1>1, <2>2, <2>3, <2>4 DEF ReadingInv
<1>3. CASE Tampers
  <2>1. loose' = 1 /\ UNCHANGED <<book, inquiry, cursor, shown>>
    BY <1>3 DEF Tampers
  <2>2. Cursored => Cursored'
    BY <2>1 DEF Cursored, Told, ToldBefore, Precedes, Readable, Matches, RangePlaces, Legible
  <2> QED BY <1>1, <2>1, <2>2 DEF ReadingInv
<1>4. CASE ReadsPage
  <2>1. PICK places : places = IF Alarms THEN {} ELSE Page
    OBVIOUS
  <2>2. /\ Cited /\ UNCHANGED <<book, loose, inquiry>>
        /\ shown' = Append(shown, {ShownAct(p) : p \in places})
        /\ cursor' = IF places = {} THEN cursor ELSE LastOf(places).at + 1
    BY <1>4, <2>1 DEF ReadsPage
  <2>3. ASSUME Disjoint PROVE cursor' \in Nat /\ shown' \in Seq(SUBSET ShownActs) /\ Cursored'
    <3>1. ReaderOK /\ Cursored /\ shown \in Seq(SUBSET ShownActs)
      BY <2>3 DEF ReadingInv, ReaderOK
    <3>2. Window(places) /\ Resumes(places)
      <4>1. CASE Alarms
        BY <2>1, <4>1, FS_EmptySet DEF Window, Standings, Resumes
      <4>2. CASE ~Alarms
        BY <2>1, <2>2, <2>3, <3>1, <4>2, PageIsWindow
      <4> QED BY <4>1, <4>2
    <3> QED BY <2>2, <3>1, <3>2, PageKeeps
  <2> QED BY <1>1, <2>2, <2>3 DEF ReadingInv
<1> QED BY <1>2, <1>3, <1>4 DEF ReadingActs

LEMMA ReadingTold == ReadingInv => PagesAreTheRecord
<1> SUFFICES ASSUME ReadingInv, Disjoint
             PROVE  /\ \A t \in Told : t.act.at \in Readable
                    /\ \A t \in Told : t.act.as = "full" => inquiry.whose = "self" \/ book[t.act.at] \notin Reasoning
                    /\ \A s, t \in Told : ToldBefore(s, t) => s.act.at < t.act.at
                    /\ \A s, t \in Told : \A i \in Readable :
                         s.act.at <= i /\ i <= t.act.at => \E u \in Told : u.act.at = i
  BY DEF PagesAreTheRecord
<1>1. Cursored /\ cursor \in Nat /\ Len(book) \in Nat
  BY DEF ReadingInv
<1>2. \A i \in Readable : i \in Nat
  BY <1>1 DEF Readable
<1>3. \A t \in Told : t.act.at \in Readable /\ t.act.at < cursor
  BY <1>1 DEF Cursored
<1>4. \A t \in Told, i \in Readable : i <= t.act.at => i < cursor
  BY <1>1, <1>2, <1>3
<1>5. \A t \in Told : t.act.as = "full" => inquiry.whose = "self" \/ book[t.act.at] \notin Reasoning
  BY <1>1 DEF Cursored, Legible
<1> QED BY <1>1, <1>3, <1>4, <1>5 DEF Cursored

LEMMA ReadingStarts ==
  ASSUME ReadingInit
  PROVE  ReadingInv
<1>1. book = <<>> /\ loose = 0 /\ inquiry \in Inquiries /\ cursor = 0 /\ shown = <<>>
  BY DEF ReadingInit
<1>2. book \in Seq({"act", "mind"}) /\ Len(book) = 0 /\ shown \in Seq(SUBSET ShownActs) /\ DOMAIN shown = {}
  BY <1>1
<1>3. Told = {}
  BY <1>2 DEF Told
<1>4. Cursored
  BY <1>1, <1>2, <1>3 DEF Cursored
<1> QED BY <1>1, <1>2, <1>4 DEF ReadingInv

LEMMA ReadingStays == ReadingInv /\ UNCHANGED readingVars => ReadingInv'
BY DEF readingVars, ReadingInv, Cursored, Told, ToldBefore, Precedes, Readable, Matches, RangePlaces, Disjoint, Legible

-----------------------------------------------------------------------------
(* All that is read of a run *)

LEMMA LogGrows ==
  ASSUME TimelineInv, NEW row \in LogRows, log' = Append(log, row)
  PROVE  TimelineInv'
BY DEF TimelineInv

LEMMA TimelineKeeps ==
  ASSUME TimelineInv, TimelineActs
  PROVE  TimelineInv'
<1>1. ASSUME NEW id \in CallIds, ToolAnswers(id) PROVE TimelineInv'
  <2>1. PICK answer \in Answers : Writes(Result(id, answer))
    BY <1>1 DEF ToolAnswers
  <2>2. Result(id, answer) \in LogRows /\ log' = Append(log, Result(id, answer))
    BY <2>1 DEF LogRows, Writes
  <2> QED BY <2>2, LogGrows
<1>2. ASSUME NEW id \in CallIds, NEW tool \in Tools, CallsTool(id, tool) PROVE TimelineInv'
  <2>1. Call(id, tool) \in LogRows /\ log' = Append(log, Call(id, tool))
    BY <1>2 DEF CallsTool, LogRows, Writes
  <2> QED BY <2>1, LogGrows
<1>3. CASE CutOff
  BY <1>3 DEF CutOff, TimelineInv
<1>4. CASE DiesAppending
  <2>1. TornRow \in LogRows
    BY DEF LogRows
  <2>2. PICK row \in LogRows : row = TornRow
    BY <2>1
  <2>3. log \in Seq(LogRows) /\ log # <<>> /\ log' = [log EXCEPT ![Len(log)] = row]
    BY <1>4, <2>2 DEF DiesAppending, TimelineInv
  <2> QED BY <2>3 DEF TimelineInv
<1> QED BY <1>1, <1>2, <1>3, <1>4 DEF TimelineActs

LEMMA ChangesStart ==
  ASSUME ChangesInit
  PROVE  LaneInv /\ TallyInv
<1>1. lane = <<>> /\ reported = 0 /\ onDisk = Seed /\ last = Seed
  BY DEF ChangesInit
<1>2. LaneInv
  BY <1>1 DEF LaneInv
<1>3. TallyInv
  BY SeedIsText DEF ChangesInit, TallyInv, Contents
<1> QED BY <1>2, <1>3

\* What is read of a run, part by part: each is touched by its own acts alone.
RecordInv == ReadingInv /\ TimelineInv /\ LaneInv /\ TallyInv

LEMMA RecordAlone ==
  ASSUME [Next]_vars
  PROVE  \/ ReadingActs /\ UNCHANGED <<changesVars, timelineVars>>
         \/ ChangesActs /\ UNCHANGED <<readingVars, timelineVars>>
         \/ TimelineActs /\ UNCHANGED <<readingVars, changesVars>>
         \/ UNCHANGED recordVars
BY DEF Next, Seating, Paging, Archiving, Reading, Telling, TimePasses, vars, recordVars

LEMMA RecordStep ==
  ASSUME RecordInv, [Next]_vars
  PROVE  RecordInv'
<1>1. UNCHANGED readingVars => ReadingInv'
  BY ReadingStays DEF RecordInv
<1>2. UNCHANGED timelineVars => TimelineInv'
  BY DEF RecordInv, timelineVars, TimelineInv
<1>3. UNCHANGED changesVars => LaneInv' /\ TallyInv'
  <2>1. UNCHANGED changesVars => UNCHANGED <<reported, lane>> /\ UNCHANGED <<onDisk, last, tally>>
    BY DEF changesVars
  <2> QED BY <2>1, LaneStays DEF RecordInv, TallyInv
<1>4. ReadingActs => ReadingInv'
  BY ReadingKeeps DEF RecordInv
<1>5. TimelineActs => TimelineInv'
  BY TimelineKeeps DEF RecordInv
<1>6. ChangesActs => LaneInv' /\ TallyInv'
  BY ChangesKeepTheLane, ChangesKeepTheTally DEF RecordInv
<1>7. UNCHANGED recordVars => UNCHANGED readingVars /\ UNCHANGED changesVars /\ UNCHANGED timelineVars
  BY DEF recordVars
<1> QED BY <1>1, <1>2, <1>3, <1>4, <1>5, <1>6, <1>7, RecordAlone DEF RecordInv

\* The inductive invariant of what is read of a run: the reader's cursor is past all it was
\* shown with nothing it may read left out on the way, the log is rows of calls and results,
\* each line of the lane holds one report and one more for each death that tore it, and the
\* running tally is the count of the last content taken in.
THEOREM RecordInvariant == Spec => []RecordInv
<1>1. Init => RecordInv
  <2>1. TimelineInit => TimelineInv
    BY DEF TimelineInit, TimelineInv
  <2> QED BY <2>1, ReadingStarts, ChangesStart DEF Init, RecordInv
<1>2. RecordInv /\ [Next]_vars => RecordInv'
  BY RecordStep
<1> QED BY <1>1, <1>2, PTL DEF Spec

\* What is read of a run is what it was, for any record, log, ids, contents and requests:
\* pages, outcomes, diffs and reports (read.js:43-44, act-outcome.mjs:8).
THEOREM ReadingsAreAlwaysTheRecord == Spec => []ReadingsAreTheRecord
<1>1. RecordInv => ReadingsAreTheRecord
  BY ReadingTold, OutcomesHold, TallyAddsUp, LinesReachTheArchive DEF RecordInv, ReadingsAreTheRecord
<1> QED BY <1>1, RecordInvariant, PTL
=============================================================================
