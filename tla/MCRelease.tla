----------------------------- MODULE MCRelease -----------------------------
(***************************************************************************)
(* Constant values for model-checking ReleasePromotion: one promotion may  *)
(* be started by the scheduler while an operator approves it.              *)
(***************************************************************************)
EXTENDS ReleasePromotion

CONSTANT a1
=============================================================================
