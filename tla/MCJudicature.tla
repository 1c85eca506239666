---------------------------- MODULE MCJudicature ----------------------------
(* Three sets and three Members.  The first set's only seat is held under a  *)
(* key its Member has since rotated away from; the second has a seat of the  *)
(* second Member and an external Witness; the third, a Principal's, depends  *)
(* on the second.  One session of the third Member is anchored by the        *)
(* Enforcer's key.                                                           *)
EXTENDS Judicature, TLC

CONSTANTS pA, pB, pC, pD, mA, mB, mC, kA, kA2, kB, kC, kE, wit, prin,
          firstSet, secondSet, thirdSet, seatA, seatB, seatW, seatP

MCParentOf == [s \in {pA, pB, pC, pD} |-> None]
MCAnchorKeyOf == (pC :> kE) @@ [s \in {pA, pB, pD} |-> None]
MCMemberOf == (pA :> mA) @@ (pB :> mB) @@ (pC :> mC) @@ (pD :> mC)
MCLineage == (mA :> {kA, kA2}) @@ (mB :> {kB}) @@ (mC :> {kC})
MCCurrentKey == (mA :> kA2) @@ (mB :> kB) @@ (mC :> kC)
MCSetOrder == <<firstSet, secondSet, thirdSet>>
MCRolesOf == (firstSet :> {seatA}) @@ (secondSet :> {seatB, seatW}) @@ (thirdSet :> {seatP})
MCStandingOf == (seatA :> kA) @@ (seatB :> kB) @@ (seatW :> wit) @@ (seatP :> prin)
MCEdges == {<<kB, prin>>, <<kC, wit>>}
MCFilingSets == <<{{pA}, {pC}, {pB, pD}, {pA, pC}, {pA, pB, pC}}, {{pA}}>>
=============================================================================
