------------------------------ MODULE Enactment ------------------------------
(***************************************************************************)
(* The amendment rehearsal (tools/rehearsal-amendment.mjs): an amendment is *)
(* sealed by a quorum of the authority's keys, recorded, and with --apply   *)
(* folded into the law; the seal, the body, its pin in the code, the two    *)
(* registers' and the Enforcer's annex are then written one after the other *)
(* and the tool may die before, in or after each.  What boots over them is  *)
(* the constitution's and the record's to refuse.                           *)
(*                                                                         *)
(* A text stands for its digest: it is the amendments folded into the       *)
(* adopted body, a cut in it being one more.  A key is its generation.      *)
(* trustedDigest, an expiry, the annex's sets and the digest it holds of    *)
(* the register, which no boot looks at, are left out.                      *)
(***************************************************************************)
EXTENDS Naturals, SequencesExt

CONSTANTS
  Amendments,
  AuthorityKeys, Quorum,       \* threshold.n keys, threshold.k of them
  MaxEnactments, MaxRotations, \* bounds
  CutShort                         \* what a file cut short holds

ASSUME QuorumIsOfTheKeys == Quorum \in 1..Cardinality(AuthorityKeys)
\* A file cut short is no text and no seal, and what it ends in is no amendment.
ASSUME CutsAreNoTexts ==
  /\ CutShort \notin Amendments \cup Seq(Amendments \cup {CutShort})
  /\ CutShort \notin [over : Seq(Amendments \cup {CutShort}), by : [AuthorityKeys -> Nat]]

VARIABLES
  law,        \* compact.md
  seal,       \* compact-body.sig.json: the text it covers, and by which keys
  pin,        \* body.js: COMPACT_DIGEST
  registers,  \* meta.compactDigest of the package's register.json, and of the docs'
  annex,      \* enforcer.annex.json: lawDigest
  ledger,     \* ledger.json: the amendments enacted
  held,       \* private/*.pem: the generation of each key
  named,      \* keyring.json
  tool,       \* the run of the tool under way
  stands,     \* whether what the law is was applied to its end
  enactments  \* how many runs of the tool there were

lawVars == <<law, seal, pin, registers, annex, ledger, held, named, tool, stands, enactments>>
files == <<law, seal, pin, registers, annex>>

\* The vendored seal is the founders', whose keys are not this authority's.
Founders == [k \in AuthorityKeys |-> 0]

LawInit ==
  /\ law = <<>> /\ pin = <<>> /\ annex = <<>>
  /\ registers = [at \in {"package", "docs"} |-> <<>>]
  /\ seal = [over |-> <<>>, by |-> Founders]
  /\ ledger = <<>>
  /\ held = [k \in AuthorityKeys |-> 1] /\ named = held
  /\ tool = [phase |-> "idle"] /\ stands = "whole" /\ enactments = 0

Running(phase) == tool.phase = phase
GoesOn(phase) == tool' = [tool EXCEPT !.phase = phase]

----------------------------------------------------------------------------
(* seals/src/seal.js *)

\* verifySeal: distinct signers whose signature verifies under the manifest's key.
Verifies(by, manifest) == Cardinality({k \in DOMAIN by : by[k] = manifest[k]}) >= Quorum

\* signSeal, with the private keys that are there.
SignSeal(text) == [over |-> text, by |-> held]

----------------------------------------------------------------------------
(* What boots: constitution/src/index.js, and the annex where it is declared *)

\* verifyBody
BodyIsPinned == law = pin

\* The seal parses and covers the body as it is.
SealCovers == seal # CutShort /\ seal.over = law

\* verifyTrustRoot
TrustRootHolds(manifest) == SealCovers /\ Verifies(seal.by, manifest)

\* The register is of the law that runs.
RegisterIsOfTheLaw == registers["package"] = pin

\* verifyAnnex
AnnexHolds == annex = pin

\* A composition that declares a trust root and an annex.
BootsUnder(manifest) == BodyIsPinned /\ TrustRootHolds(manifest) /\ RegisterIsOfTheLaw /\ AnnexHolds

----------------------------------------------------------------------------
(* The tool *)

\* A mutant: the seal over the amendment is made and not verified.
KeysHeld(amendment) == Cardinality(DOMAIN SignSeal(amendment).by) >= Quorum

\* The seal over the amendment, made with the keys that are held, is verified.
SealVerified(amendment) == Verifies(SignSeal(amendment).by, named)

\* cmdEnact
Enact(amendment) ==
  /\ Running("idle") /\ enactments < MaxEnactments
  /\ enactments' = enactments + 1
  /\ SealVerified(amendment)
  /\ \E apply \in BOOLEAN : tool' = [phase |-> "recording", of |-> amendment, apply |-> apply]
  /\ UNCHANGED <<files, ledger, held, named, stands>>

\* recordEnactment: an entry more, whatever the ledger holds.
Recorded(amendment) == Append(ledger, amendment)

\* The ledger is read and written whole.
RecordEnactment ==
  /\ Running("recording") /\ ledger # CutShort
  /\ ledger' = Recorded(tool.of)
  /\ IF tool.apply THEN GoesOn("sealing") ELSE tool' = [phase |-> "idle"]
  /\ UNCHANGED <<files, held, named, stands, enactments>>

\* The seal over the law as it will be, from the law as it is found.
Folded == Append(law, tool.of)
WriteSeal ==
  /\ Running("sealing")
  /\ seal' = SignSeal(Folded)
  /\ stands' = "half"
  /\ GoesOn("folding")
  /\ UNCHANGED <<law, pin, registers, annex, ledger, held, named, enactments>>

WriteBody ==
  /\ Running("folding")
  /\ law' = Folded
  /\ GoesOn("pinning")
  /\ UNCHANGED <<seal, pin, registers, annex, ledger, held, named, stands, enactments>>

\* updateBodyPin: code cut short after the literal stays cut short.
WritePin ==
  /\ Running("pinning")
  /\ pin' = IF pin = CutShort THEN CutShort ELSE law
  /\ GoesOn("package")
  /\ UNCHANGED <<law, seal, registers, annex, ledger, held, named, stands, enactments>>

\* updateRegisterPins: each is read and written whole.
WriteRegister(at) ==
  /\ Running(at) /\ registers[at] # CutShort
  /\ registers' = [registers EXCEPT ![at] = law]
  /\ GoesOn(IF at = "package" THEN "docs" ELSE "annexing")
  /\ UNCHANGED <<law, seal, pin, annex, ledger, held, named, stands, enactments>>

\* redeclareAnnex, the last of it.
WriteAnnex ==
  /\ Running("annexing") /\ annex # CutShort
  /\ annex' = law
  /\ tool' = [phase |-> "idle"] /\ stands' = "applied"
  /\ UNCHANGED <<law, seal, pin, registers, ledger, held, named, enactments>>

\* The tool dies or fails; in a write it cuts the file short.
ToolEnds ==
  /\ ~Running("idle") /\ tool' = [phase |-> "idle"]
  /\ \/ UNCHANGED <<files, ledger, stands>>
     \/ Running("recording") /\ ledger' = CutShort /\ UNCHANGED <<files, stands>>
     \/ Running("sealing") /\ seal' = CutShort /\ stands' = "half" /\ UNCHANGED <<law, pin, registers, annex, ledger>>
     \/ Running("folding") /\ law' = Append(law, CutShort) /\ UNCHANGED <<seal, pin, registers, annex, ledger, stands>>
     \/ Running("pinning") /\ pin' = CutShort /\ UNCHANGED <<law, seal, registers, annex, ledger, stands>>
     \/ /\ tool.phase \in DOMAIN registers
        /\ registers' = [registers EXCEPT ![tool.phase] = CutShort]
        /\ UNCHANGED <<law, seal, pin, annex, ledger, stands>>
     \/ Running("annexing") /\ annex' = CutShort /\ UNCHANGED <<law, seal, pin, registers, ledger, stands>>
  /\ UNCHANGED <<held, named, enactments>>

\* A --force mint of the identity set, key by key and then its manifest, may stop anywhere.
Rekeys(k) ==
  /\ Running("idle") /\ held[k] = named[k] /\ named[k] <= MaxRotations
  /\ held' = [held EXCEPT ![k] = @ + 1]
  /\ UNCHANGED <<files, ledger, named, tool, stands, enactments>>
Renames ==
  /\ Running("idle") /\ \A k \in AuthorityKeys : held[k] # named[k]
  /\ named' = held
  /\ stands' = IF stands = "applied" THEN "whole" ELSE stands
  /\ UNCHANGED <<files, ledger, held, tool, enactments>>

LawActs == \/ \E a \in Amendments : Enact(a)
           \/ RecordEnactment \/ WriteSeal \/ WriteBody \/ WritePin \/ WriteAnnex
           \/ \E at \in DOMAIN registers : WriteRegister(at)
           \/ ToolEnds
           \/ \E k \in AuthorityKeys : Rekeys(k)
           \/ Renames

----------------------------------------------------------------------------
(* Properties *)

\* F-5: from the first write of an --apply to its last, and for as long as one that died
\* was not followed by one that did not, nothing that declares a trust root and an annex
\* boots: "the runtime will refuse any composition whose law, seal, and annex do not all
\* describe this digest" (rehearsal-amendment.mjs:155), whichever write it stopped at.
HalfAppliedNeverBoots == stands = "half" => ~BootsUnder(named) /\ ~BootsUnder(Founders)

\* An --apply that ran to its end leaves a law that boots under the authority that sealed
\* it, over whatever earlier ones left behind, until that authority's manifest is replaced.
\* Code that a death cut short stays broken.
AppliedLawBoots == stands = "applied" /\ pin # CutShort => BootsUnder(named)

\* A-1: no amendment is in the law more often than the ledger records it enacted.
LawTracesToTheLedger ==
  \A a \in Amendments :
    LET Times(text) == Cardinality({i \in DOMAIN text : text[i] = a})
    IN  ledger # CutShort => Times(law) <= Times(ledger)

\* What boots is the law that was applied, all of it, and no more than was enacted: the
\* parts above.
BootsTheLedgersLaw == HalfAppliedNeverBoots /\ AppliedLawBoots /\ LawTracesToTheLedger
=============================================================================
