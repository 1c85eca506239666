-------------------------------- MODULE Clock --------------------------------
(***************************************************************************)
(* The wall clock (Date.now), read by every plugin of one process.         *)
(***************************************************************************)
EXTENDS Naturals

CONSTANT Horizon   \* bound: the last instant

VARIABLE now

ClockInit == now = 0

Tick == /\ now < Horizon
        /\ now' = now + 1
=============================================================================
