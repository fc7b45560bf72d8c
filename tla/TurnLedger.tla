----------------------------- MODULE TurnLedger -----------------------------
(***************************************************************************)
(* What the control plane promises about bounded turns, whatever the goal, *)
(* the gates, the quotas and the SQL projection do: a todo has at most one *)
(* open turn, every turn is minted once, and a turn enters the ledger of   *)
(* receipts only while it is open, which closes it.                        *)
(* (control_plane/kernel.py next_turn, record_result, _reconcile_expired,  *)
(* abort and sync_tasks, seen from outside.)                               *)
(***************************************************************************)
EXTENDS Naturals, Sequences

CONSTANT Todo

VARIABLES
    open,     \* open[t] is the open turn of todo t, 0 when there is none
    minted,   \* turns minted so far; their ids are 1..minted
    ledger    \* the committed turns, oldest first

vars == <<open, minted, ledger>>

Init ==
    /\ open = [t \in Todo |-> 0]
    /\ minted = 0
    /\ ledger = <<>>

Closed(C) == [t \in Todo |-> IF t \in C THEN 0 ELSE open[t]]

\* Turns may be taken from their workers: their lease is over, the run is
\* aborted, or the task database says otherwise.
Close(C) ==
    /\ open' = Closed(C)
    /\ UNCHANGED <<minted, ledger>>

\* A todo without an open turn gets a new one.
Mint(t, C) ==
    /\ open[t] = 0 \/ t \in C
    /\ open' = [Closed(C) EXCEPT ![t] = minted + 1]
    /\ minted' = minted + 1
    /\ UNCHANGED ledger

Commit(t) ==
    /\ open[t] # 0
    /\ ledger' = Append(ledger, [todo |-> t, turn |-> open[t]])
    /\ open' = [open EXCEPT ![t] = 0]
    /\ UNCHANGED minted

Next == \/ \E C \in SUBSET Todo : Close(C) \/ \E t \in Todo : Mint(t, C)
        \/ \E t \in Todo : Commit(t)

Spec == Init /\ [][Next]_vars
=============================================================================
