------------------------------ MODULE MCSwarm -------------------------------
(***************************************************************************)
(* Constant values for model-checking LightSwarm: a maker and a checker,   *)
(* or two makers and a checker.                                            *)
(***************************************************************************)
EXTENDS LightSwarm

Final == CHOOSE n \in Node : \A m \in Node : m <= n

CheckedLast == [n \in Node |-> IF n = Final THEN "VERIFY" ELSE "IMPLEMENT"]
LastOnAll == [n \in Node |-> IF n = Final THEN Node \ {n} ELSE {}]
EdgesToLast == {<<n, Final>> : n \in Node \ {Final}}
=============================================================================
