----------------------------- MODULE RunnerPool -----------------------------
(***************************************************************************)
(* The pool of runners (backend/localforge/services/runner_pool.py): how   *)
(* many tasks each runner is counted to have, its health, and the leases   *)
(* of the dispatch log.  A lease is known by its place in the log, which   *)
(* stands for its token.  Lanes, tools and scores only choose among the    *)
(* runners that may take a task; here any of those may be chosen.          *)
(*                                                                         *)
(* The operators give the pool and the log after an operation, so that a   *)
(* component that performs several in one transaction can combine them.    *)
(* share, short and again are kept for the properties and decide nothing:  *)
(* share says what became of the place a lease took, again counts the      *)
(* places that were given back a second time, and short those of them that *)
(* no reconciliation has counted anew.                                     *)
(***************************************************************************)
EXTENDS Naturals, Sequences, FiniteSets

CONSTANTS
    Runner,    \* the registered runners
    Capacity   \* max_concurrency of each runner

ASSUME RunnerPoolAssumption == Capacity \in Nat \ {0}

VARIABLES
    pool,    \* RunnerPoolState, by runner: active_tasks_count and health_state
    leases,  \* the dispatch logs that granted a runner, oldest first
    share,   \* the place of each lease
    again,   \* by runner, how often a place was given back that was given back before
    short    \* and how often since the pool was last reconciled

poolVars == <<pool, leases, share, again, short>>

Health == {"READY", "BUSY", "DEGRADED", "UNAVAILABLE", "DRAINING", "QUARANTINED"}

RunnerState == [active : Nat, health : Health]
DispatchLog == [taskRun : Nat, runner : Runner, status : {"SUCCESS", "CANCELLED"}, expired : BOOLEAN]

PoolTypeOK ==
    /\ pool \in [Runner -> RunnerState]
    /\ leases \in Seq(DispatchLog)
    /\ share \in [DOMAIN leases -> {"held", "returned", "cancelled", "dropped"}]
    /\ again \in [Runner -> Nat] /\ short \in [Runner -> Nat]

PoolInit ==
    /\ pool = [r \in Runner |-> [active |-> 0, health |-> "READY"]]
    /\ leases = <<>>
    /\ share = <<>>
    /\ again = [r \in Runner |-> 0] /\ short = [r \in Runner |-> 0]

-----------------------------------------------------------------------------
Raised(c, n) ==
    [active |-> c.active + n,
     health |-> IF n > 0 /\ c.active + n >= Capacity THEN "BUSY" ELSE c.health]

Lowered(c, n) ==
    LET left == IF c.active > n THEN c.active - n ELSE 0
    IN  [active |-> left,
         health |-> IF c.health = "BUSY" /\ left < Capacity THEN "READY" ELSE c.health]

\* dispatch_task ranks the runners as it reads them, and reserves a place of the
\* one it chose with an update that finds the runner as it is by then.
Eligible == {r \in Runner : /\ pool[r].health \notin {"QUARANTINED", "UNAVAILABLE"}
                            /\ pool[r].active < Capacity}

Reservable(r) == pool[r].active < Capacity

Granted(t, r) == [taskRun |-> t, runner |-> r, status |-> "SUCCESS", expired |-> FALSE]

\* n places in one transaction.
Reserve(t, r, n) ==
    /\ pool' = [pool EXCEPT ![r] = Raised(@, n)]
    /\ leases' = leases \o [k \in 1..n |-> Granted(t, r)]
    /\ share' = share \o [k \in 1..n |-> "held"]
    /\ UNCHANGED <<again, short>>

\* The leases of some task runs that the log has as granted.
Of(taskRuns) == {l \in DOMAIN leases : leases[l].taskRun \in taskRuns /\ leases[l].status = "SUCCESS"}
On(r, set) == {l \in set : leases[l].runner = r}
GivenBack(set) == {l \in set : share[l] \in {"returned", "dropped"}}

CountAgain(set) ==
    /\ again' = [r \in Runner |-> again[r] + Cardinality(On(r, GivenBack(set)))]
    /\ short' = [r \in Runner |-> short[r] + Cardinality(On(r, GivenBack(set)))]
Shares(set, what) == [l \in DOMAIN leases |-> IF l \in set THEN what ELSE share[l]]

\* release_runner_lease: the token is that of the newest lease of the task run on
\* the runner, and the lease has not expired.
Newest_Any(l) == \A k \in DOMAIN leases : leases[k].taskRun = leases[l].taskRun => k <= l
Newest(l) == /\ leases[l].status = "SUCCESS"
             /\ \A k \in On(leases[l].runner, Of({leases[l].taskRun})) : k <= l
Returnable(l) == Newest(l) /\ ~leases[l].expired

Return(l) ==
    /\ pool' = [pool EXCEPT ![leases[l].runner] = Lowered(@, 1)]
    /\ share' = Shares({l}, "returned")
    /\ CountAgain({l})
    /\ UNCHANGED leases

Cancelled_Unmarked(taskRuns) == leases
Cancelled(taskRuns) ==
    [l \in DOMAIN leases |-> IF l \in Of(taskRuns) THEN [leases[l] EXCEPT !.status = "CANCELLED"] ELSE leases[l]]

\* cancel_runner_leases_for_task_run, for each of these task runs.
Cancel(taskRuns) ==
    /\ pool' = [r \in Runner |-> Lowered(pool[r], Cardinality(On(r, Of(taskRuns))))]
    /\ leases' = Cancelled(taskRuns)
    /\ share' = Shares(Of(taskRuns), "cancelled")
    /\ CountAgain(Of(taskRuns))

\* reconcile_leaked_leases: each runner is counted the leases of the active task
\* runs.  Stale are the runners whose count that changes.
Recounted(r, active) ==
    LET n == Cardinality(On(r, Of(active)))
    IN  [active |-> n,
         health |-> IF n >= Capacity THEN "BUSY" ELSE IF pool[r].health = "BUSY" THEN "READY" ELSE pool[r].health]

Stale(active) == {r \in Runner : Recounted(r, active).active # pool[r].active}

\* The leases of these task runs are cancelled, and the pool is reconciled with
\* the active task runs that are left.
CancelAndRecount(taskRuns, active) ==
    /\ pool' = [r \in Runner |-> Recounted(r, active)]
    /\ leases' = Cancelled(taskRuns)
    /\ share' = [l \in DOMAIN leases |-> IF l \in Of(taskRuns) THEN "cancelled"
                                         ELSE IF l \in Of(active) THEN "held"
                                         ELSE IF share[l] = "held" THEN "dropped" ELSE share[l]]
    /\ short' = [r \in Runner |-> 0]
    /\ UNCHANGED again

SetHealth(r, health) ==
    /\ pool' = [pool EXCEPT ![r].health = health]
    /\ UNCHANGED <<leases, share, again, short>>

Expire(l) ==
    /\ leases' = [leases EXCEPT ![l].expired = TRUE]
    /\ UNCHANGED <<pool, share, again, short>>

-----------------------------------------------------------------------------
(***************************************************************************)
(* Properties                                                              *)
(***************************************************************************)

\* No runner is counted more tasks than it may have, but for the places given back
\* twice: of two dispatches that chose the last place of a runner, the second to
\* reserve it gets none.  The exception is needed.  A place given back twice lets a
\* task in too many, and a reconciliation then counts them all.
CapacityHolds == \A r \in Runner : pool[r].active <= Capacity + again[r]

Held == {l \in DOMAIN leases : share[l] = "held"}

\* A runner is counted a task for every lease that holds a place, but for the
\* places given back twice: by its worker, or by a reconciliation that no longer
\* counted it, and once more with the lease that the log still has as granted.
\* A lease that was cancelled lowers no count again, however often it is cancelled
\* and whenever its worker comes back.
CountCoversHeldLeases ==
    \A r \in Runner : Cardinality(On(r, Held)) <= pool[r].active + short[r]
=============================================================================
