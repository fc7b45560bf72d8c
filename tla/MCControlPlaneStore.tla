------------------------ MODULE MCControlPlaneStore -------------------------
(***************************************************************************)
(* Constant values for model-checking ControlPlaneStore.                   *)
(***************************************************************************)
EXTENDS ControlPlaneStore, TLC

CONSTANTS p1, p2
=============================================================================
