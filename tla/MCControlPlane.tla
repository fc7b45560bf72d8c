--------------------------- MODULE MCControlPlane ---------------------------
(***************************************************************************)
(* Constant values for model-checking ControlPlane.                        *)
(***************************************************************************)
EXTENDS ControlPlane, TLC

\* Two todos, the second waits for the first.
ChainOfTwo == 1 :> {} @@ 2 :> {1}

\* Two todos, independent of each other.
Independent == 1 :> {} @@ 2 :> {}

CONSTANTS g1, h1
NoGates == <<>>
GlobalGate == g1 :> {}
LaneGate == g1 :> {2}
=============================================================================
