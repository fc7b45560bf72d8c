---------------------------- MODULE MCTaskGraph ----------------------------
(***************************************************************************)
(* Constant values for model-checking TaskGraph: a plan in which the last  *)
(* node depends on all others.                                             *)
(***************************************************************************)
EXTENDS TaskGraph

Final == Max(PlanNode)
LastOnAll == [n \in PlanNode |-> IF n = Final THEN PlanNode \ {n} ELSE {}]
EdgesToLast == (PlanNode \ {Final}) \X {Final}
=============================================================================
