---------------------------- MODULE OperationLog ----------------------------
(***************************************************************************)
(* What the control-plane store promises its callers                       *)
(* (control_plane/store.py, ControlPlaneStore.update, seen from outside):  *)
(* operations take effect one after the other, none is lost, an operation  *)
(* with an id takes effect at most once however often it is submitted, and *)
(* a caller only gets an answer when the effect is there.                  *)
(***************************************************************************)
EXTENDS Sequences

CONSTANTS
    Operation,   \* the operations that carry an id
    Anonymous    \* those that do not, and may take effect many times

VARIABLES
    log,         \* the operations that took effect, oldest first
    answered     \* the operations some caller was answered about

vars == <<log, answered>>

InLog(op) == \E i \in DOMAIN log : log[i] = op

Init == log = <<>> /\ answered = {}

TakeEffect(op) ==
    /\ op \in Operation => ~InLog(op)
    /\ log' = Append(log, op)
    /\ UNCHANGED answered

Return(op) ==
    /\ InLog(op)
    /\ answered' = answered \cup {op}
    /\ UNCHANGED log

Next == \E op \in Operation \cup Anonymous : TakeEffect(op) \/ Return(op)

Spec == Init /\ [][Next]_vars
=============================================================================
