---------------------------- MODULE MCScheduler -----------------------------
(***************************************************************************)
(* Constant values for model-checking Scheduler.                           *)
(***************************************************************************)
EXTENDS Scheduler, TLC

\* Two tasks, the first in the list waits for the second.
LaterFirst == 1 :> {2} @@ 2 :> {}
Independent == 1 :> {} @@ 2 :> {}
NoGates == <<>>
RepairIds == Todo \X (1..MaxCycles)
=============================================================================
