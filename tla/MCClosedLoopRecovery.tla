------------------------ MODULE MCClosedLoopRecovery ------------------------
(* Two runs and two executions on one device: a tolerance that one of the  *)
(* deviations just meets and the other misses.                             *)
EXTENDS ClosedLoopRecovery, TLC

MCRecoverySymmetry == Permutations(RecoveryRuns) \union Permutations(ToolCalls)
=============================================================================
