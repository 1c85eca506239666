----------------------------- MODULE MCIdentity -----------------------------
(* Two of two authorities make the quorum; one signing counts one of them twice. *)
(* A lead, its child and its grandchild, the last of whom no prefix names. *)
EXTENDS Identity, TLC

CONSTANTS k1, k2, k3, a1, a2

MCSignings == {<<a1, a2>>, <<a1, a1>>}
Alike == Permutations({k1, k2, k3})

Lead == <<"l">>
Child == <<"l", "c">>
Grandchild == <<"g">>
MCSessions == {Lead, Child, Grandchild}
MCParent == Lead :> None @@ Child :> Lead @@ Grandchild :> Child
MCDeclarable == {<<"l">>, <<"l", "c">>}
=============================================================================
