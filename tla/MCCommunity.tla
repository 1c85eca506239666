----------------------------- MODULE MCCommunity -----------------------------
(* A model member and a human one work, one seat hears.  One charter's fence  *)
(* pauses the run and a quiet round ends it; the other's fence ends it.       *)
EXTENDS Community

CONSTANTS worker, human, judge

MCWorkers == <<worker, human>>
MCBench == <<judge>>
MCCharters ==
  {[rounds |-> 2, maxTurns |-> 1, endWhenQuiet |-> TRUE, fence |-> "pause"],
   [rounds |-> 2, maxTurns |-> 2, endWhenQuiet |-> TRUE, fence |-> "stop"]}
=============================================================================
