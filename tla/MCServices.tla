----------------------------- MODULE MCServices -----------------------------
(***************************************************************************)
(* Instances of four services that share no state: the path leases, the    *)
(* ledger of model calls, the harness document and the engineering         *)
(* sessions.  A behaviour picks one of them and is a behaviour of that     *)
(* service alone, so that one run checks all four and their states add up  *)
(* instead of multiplying.                                                 *)
(***************************************************************************)
EXTENDS PathLease, ModelCalls, HarnessDocument, EngineeringContinuity, TLC

Service == {"leases", "calls", "harness", "engineering"}

VARIABLE service

mcVars == <<service, vars, callVars, harnessVars, engineeringVars>>

MCInit == service \in Service /\ Init /\ CallsInit /\ HarnessInit /\ EngineeringInit

MCNext ==
    /\ UNCHANGED service
    /\ \/ service = "leases" /\ Next /\ UNCHANGED <<callVars, harnessVars, engineeringVars>>
       \/ service = "calls" /\ CallsNext /\ UNCHANGED <<vars, harnessVars, engineeringVars>>
       \/ service = "harness" /\ HarnessNext /\ UNCHANGED <<vars, callVars, engineeringVars>>
       \/ service = "engineering" /\ EngineeringNext /\ UNCHANGED <<vars, callVars, harnessVars>>

MCSpec == MCInit /\ [][MCNext]_mcVars

(* A directory and a file in it, and two owners that belong to runs.        *)
Nested == {<<"src">>, <<"src", "app">>}
OneRun == 1 :> "run" @@ 2 :> "run"

(* A base entry, which may not be refined, and one that may. *)
TwoEntries == {[kind |-> "memory", supplemental |-> b, content |-> "v1"] : b \in BOOLEAN}

=============================================================================
