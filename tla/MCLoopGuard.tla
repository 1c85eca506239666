---------------------------- MODULE MCLoopGuard ----------------------------
(* A session of one tool's two operations, a spawn and two questions.       *)
EXTENDS LoopGuard, TLC

CONSTANTS bash1, bash2, spawn1, ask1, ask2

MCTool == (bash1 :> "bash") @@ (bash2 :> "bash") @@ (spawn1 :> "spawn")
          @@ (ask1 :> "ask") @@ (ask2 :> "ask")
MCGatePrint == (bash1 :> "bash") @@ (bash2 :> "bash") @@ (spawn1 :> "spawn")
MCLimit == [k \in Behavioral |-> CASE k = "LG-1" -> 1 [] k = "LG-2" -> 3 [] OTHER -> 2]
OpSymmetry == Permutations({bash1, bash2}) \cup Permutations({ask1, ask2})
=============================================================================
