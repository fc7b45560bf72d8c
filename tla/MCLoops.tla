------------------------------ MODULE MCLoops -------------------------------
(***************************************************************************)
(* Constant values for model-checking LoopCoordinator.                     *)
(***************************************************************************)
EXTENDS LoopCoordinator, TLC

BothCron == [l \in Loop |-> "CRON"]
OneEach == [l \in Loop |-> IF l = 1 THEN "CRON" ELSE "EVENT"]

Passes == Permutations(Pass)
=============================================================================
