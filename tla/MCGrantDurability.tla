------------------------- MODULE MCGrantDurability -------------------------
(***************************************************************************)
(* A small store: a session grant and a secret grant over one command, a   *)
(* second command on the refused route.                                    *)
(***************************************************************************)
EXTENDS GrantDurability

MCCovers == { <<"session", "f">>, <<"secret", "f">> }
=============================================================================
