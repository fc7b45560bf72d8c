----------------------------- MODULE Scheduler ------------------------------
(***************************************************************************)
(* The scheduler of an unattended run                                      *)
(* (backend/localforge/services/scheduler.py) on top of the kernel: it     *)
(* polls the tasks of the project in SQL, projects them on the goal, takes *)
(* a turn for a task before it runs the task, and writes the outcome back. *)
(* The two stores share no transaction.                                    *)
(*                                                                         *)
(* An iteration is one pass of pc from "idle" to "idle" or "stopped".  It  *)
(* reads the tasks once (seen) and decides on that reading; each operation *)
(* on the kernel is a step, and so is each transaction on a task, so that  *)
(* operators, the heartbeat and the clock come in between.  The six        *)
(* statuses of a task in execution are one, "PLANNING": the pipeline that  *)
(* moves through them is awaited by the iteration.                         *)
(***************************************************************************)
EXTENDS ControlPlane

CONSTANTS
    MaxCycles,    \* budgets.max_run_recovery_cycles
    InitialSql,   \* the statuses tasks may have when the run starts
    TaskSetting,  \* the statuses operators give to tasks
    RunSetting,   \* the statuses operators give to the run
    TimeLimited,  \* whether max_run_time may elapse
    MayDie        \* whether the scheduler's process may be killed

RunStatus == {"PENDING", "RUNNING", "PAUSED", "BLOCKED_NEEDS_HUMAN_REVIEW",
              "COMPLETED", "FAILED", "CANCELLED"}

Executing == {"CLAIMED", "PLANNING", "IMPLEMENTING", "TESTING", "REPAIRING", "REVIEWING"}

\* A repair handoff is named after the task and the attempt.  Operators put no task
\* into execution, and none before its pull request.  Of the kernel the scheduler
\* asks to project any status of a task, and it reports no cost.
ASSUME SchedulerAssumption ==
    /\ MaxCycles \in Nat
    /\ Handoff = Todo \X (1..MaxCycles)
    /\ InitialSql \subseteq TaskStatus \ (Executing \ {"PLANNING"})
    /\ TaskSetting \subseteq TaskStatus \ (Executing \cup {"PR_READY"})
    /\ RunSetting \subseteq {"RUNNING", "PAUSED", "CANCELLED"}
    /\ "interrupted" \in AbortReason
    /\ {"VALIDATED_PROGRESS", "VALIDATION_FAILED"} \subseteq Kind
    /\ 0 \in Cost
    /\ TaskStatus \subseteq SqlStatus

VARIABLES
    sql,       \* Task.status, by task
    run,       \* Run.status
    pc,        \* where the scheduler is in its iteration
    seen,      \* the tasks as the iteration read them
    work,      \* the tasks it still has to look at
    cycles,    \* Run.resource_limits["recovery_cycles_used"]
    unblocks,  \* Task.metadata["scrum_master_unblock_attempts"], by task
    ran,       \* the tasks with a TaskRun of this run
    starts     \* how often each task was claimed for execution

book == <<cycles, unblocks, ran, starts>>
schedulerVars == <<vars, sql, run, pc, seen, work, book>>

RecoveryBlocking == {"FAILED_SAFE", "BLOCKED"}
Terminal == {"PR_READY", "DONE", "CANCELLED"}
HumanReview == "BLOCKED_NEEDS_HUMAN_REVIEW"
ClosedRun == {"COMPLETED", "FAILED", "CANCELLED", HumanReview}

\* VALID_TRANSITIONS (task.py), with one status for the executing ones;
\* PR_READY is reached through mark_pr_ready only.
Allowed == [BACKLOG     |-> {"READY", "BLOCKED", "CANCELLED"},
            READY       |-> {"PLANNING", "BACKLOG", "BLOCKED", "CANCELLED"},
            PLANNING    |-> {"PR_READY", "BLOCKED", "CANCELLED", "FAILED_SAFE"},
            PR_READY    |-> {"DONE", "FAILED_SAFE", "CANCELLED"},
            BLOCKED     |-> {"READY", HumanReview, "CANCELLED"},
            FAILED_SAFE |-> {"READY", HumanReview, "CANCELLED"},
            BLOCKED_NEEDS_HUMAN_REVIEW |-> {"READY", "CANCELLED"},
            DONE        |-> {},
            CANCELLED   |-> {}]

Step == {"idle", "decide", "promoted", "closing", "handoff", "reopen", "claim", "turn", "dispatch",
         "executing", "outcome", "failed", "error", "dead", "aborting", "stopped"}

NotRead == <<>>

SchedulerTypeOK ==
    /\ sql \in [Todo -> DOMAIN Allowed]
    /\ run \in RunStatus
    /\ pc \in Step
    /\ seen = NotRead \/ seen \in [Todo -> DOMAIN Allowed]
    /\ work \subseteq Todo
    /\ cycles \in 0..MaxCycles
    /\ unblocks \in [Todo -> 0..MaxCycles]
    /\ ran \subseteq Todo
    /\ starts \in [Todo -> 0..MaxAttempts]

SchedulerInit ==
    /\ Init
    /\ \A t \in 1..Initial : todo[t].status = "PENDING"
    /\ sql \in [Todo -> InitialSql]
    /\ run = "PENDING"
    /\ pc = "idle"
    /\ seen = NotRead
    /\ work = {}
    /\ cycles = 0
    /\ unblocks = [t \in Todo |-> 0]
    /\ ran = {}
    /\ starts = [t \in Todo |-> 0]

-----------------------------------------------------------------------------
Legal_Any(t, status) == status \in DOMAIN Allowed

\* update_task_status and mark_pr_ready raise on any other transition.
Legal(t, status) == status \in {sql[t]} \cup Allowed[sql[t]]

Move(t, status) == sql' = [sql EXCEPT ![t] = status]

Goto(place) == pc' = place /\ UNCHANGED <<seen, work>>
Return == pc' = "idle" /\ seen' = NotRead /\ work' = {}
Stop(status) == pc' = "stopped" /\ run' = status /\ seen' = NotRead /\ work' = {}

Advance(t) == pc' = "claim" /\ work' = work \ {t} /\ UNCHANGED seen

First(tasks) == CHOOSE t \in tasks : \A u \in tasks : t <= u
With(statuses, tasks) == {t \in Todo : tasks[t] \in statuses}

\* _escalate_remaining_blockers: the tasks that were read as stuck are written
\* back so, which may undo what an operator did meanwhile, and handed on; those
\* that cannot be written back are left alone.
Escalated(tasks) ==
    [t \in Todo |-> IF t \in With(RecoveryBlocking, tasks) /\ tasks[t] \in {sql[t]} \cup Allowed[sql[t]]
                    THEN HumanReview ELSE sql[t]]

(***************************************************************************)
(* The start of an iteration.                                              *)
(***************************************************************************)

\* The run is over its time: it fails and its executing tasks with it.
TimeOut ==
    /\ pc = "idle" /\ TimeLimited
    /\ sql' = [t \in Todo |-> IF sql[t] \in Executing THEN "FAILED_SAFE" ELSE sql[t]]
    /\ Stop("FAILED")
    /\ UNCHANGED <<vars, book>>

\* Read the tasks and project them on the goal.  A paused or closed run is
\* left alone; a run that waits for human review is not.
Begin ==
    /\ pc = "idle"
    /\ run \notin {"COMPLETED", "FAILED", "CANCELLED", "PAUSED"}
    /\ run' = IF run = "PENDING" THEN "RUNNING" ELSE run
    /\ seen' = sql
    /\ Sync(sql)
    /\ pc' = "decide"
    /\ UNCHANGED <<sql, work, book>>

\* _scrum_master_record_conformity writes a task back as it was read, and
\* that is no legal transition when an operator has moved the task meanwhile.
ConformityFails ==
    /\ pc = "decide"
    /\ \E t \in With({"PR_READY", "FAILED_SAFE"}, seen) : sql[t] # seen[t]
    /\ Goto("error")
    /\ UNCHANGED <<vars, sql, run, book>>

(***************************************************************************)
(* Every task is settled: the release is promoted, and the goal and the    *)
(* run are closed.                                                         *)
(***************************************************************************)
Settled(tasks) == \A t \in Todo : tasks[t] \in Terminal

\* Promotion asks for approval, or is blocked (by git, by a check, or because
\* a task of the run is not ready), or is done.
Promote ==
    /\ pc = "decide"
    /\ Settled(seen)
    /\ \/ Stop(HumanReview)
       \/ /\ ran # {} /\ \A t \in ran : sql[t] \in Finished
          /\ \/ Stop("PAUSED")
             \/ Goto("promoted") /\ UNCHANGED run
    /\ UNCHANGED <<vars, sql, book>>

KernelRefusesRelease == ~AllDone(todo) \/ OpenRequiredGate

CloseGoal_Anyway ==
    /\ pc = "promoted"
    /\ \/ MarkReleaseCompleted
       \/ KernelRefusesRelease /\ UNCHANGED vars
    /\ Goto("closing")
    /\ UNCHANGED <<sql, run, book>>

CloseGoal ==
    /\ pc = "promoted"
    /\ MarkReleaseCompleted
    /\ Goto("closing")
    /\ UNCHANGED <<sql, run, book>>

CloseRun ==
    /\ pc = "closing"
    /\ Stop("COMPLETED")
    /\ UNCHANGED <<vars, sql, book>>

\* mark_release_completed raises.
CloseGoalFails ==
    /\ pc = "promoted"
    /\ KernelRefusesRelease
    /\ Goto("error")
    /\ UNCHANGED <<vars, sql, run, book>>

(***************************************************************************)
(* Some task failed: it is handed to repair and reopened while the run has *)
(* recovery cycles left, and otherwise left to a human.                    *)
(***************************************************************************)
Failing_AfterTheRest(tasks) ==
    With(RecoveryBlocking, tasks) # {} /\ With(Waiting, tasks) = {}
Failing(tasks) == With(RecoveryBlocking, tasks) # {}

\* Which failed tasks can be repaired depends on their blockers.  The run is
\* written back as it was read.
Recover ==
    /\ pc = "decide"
    /\ Failing(seen)
    /\ cycles < MaxCycles
    /\ \E repairable \in SUBSET With({"FAILED_SAFE"}, seen) :
          repairable # {} /\ work' = repairable
    /\ run' = "RUNNING"
    /\ pc' = "handoff"
    /\ UNCHANGED <<vars, sql, seen, book>>

Escalate ==
    /\ pc = "decide"
    /\ Failing(seen)
    /\ sql' = Escalated(seen)
    /\ Stop(HumanReview)
    /\ UNCHANGED <<vars, book>>

HandoffOf(t) == <<t, unblocks[t] + 1>>

Delegate ==
    /\ pc = "handoff" /\ work # {}
    /\ LET t == First(work)
       IN  \/ /\ Legal(t, "READY")
              /\ RecordRepairHandoff(t, HandoffOf(t))
              /\ Goto("reopen")
           \/ /\ ~Legal(t, "READY")
              /\ Goto("error")
              /\ UNCHANGED vars
    /\ UNCHANGED <<sql, run, book>>

Reopen ==
    /\ pc = "reopen"
    /\ LET t == First(work)
       IN  /\ ReopenAfterRepair(t, HandoffOf(t))
           /\ work' = work \ {t}
    /\ pc' = "handoff"
    /\ UNCHANGED <<seen, sql, run, book>>

\* The iteration ends: the tasks it has reopened in the kernel are committed.
Requeued == {t \in Todo : HandoffOf(t) \in handoffs}

Requeue ==
    /\ pc = "handoff" /\ work = {}
    /\ sql' = [t \in Todo |-> IF t \in Requeued /\ Legal(t, "READY") THEN "READY" ELSE sql[t]]
    /\ unblocks' = [t \in Todo |-> unblocks[t] + IF t \in Requeued THEN 1 ELSE 0]
    /\ cycles' = cycles + 1
    /\ run' = "RUNNING"
    /\ Return
    /\ UNCHANGED <<vars, ran, starts>>

StopForHuman ==
    /\ pc = "decide"
    /\ ~Failing(seen)
    /\ With({HumanReview}, seen) # {}
    /\ Stop(HumanReview)
    /\ UNCHANGED <<vars, sql, book>>

(***************************************************************************)
(* Otherwise the ready tasks are tried in order.                           *)
(***************************************************************************)
Schedule ==
    /\ pc = "decide"
    /\ ~Settled(seen) /\ ~Failing(seen) /\ With({HumanReview}, seen) = {}
    /\ \/ /\ With({"READY"}, seen) = {}
          /\ Return
       \/ /\ With({"READY"}, seen) # {}
          /\ work' = With({"READY"}, seen)
          /\ pc' = "claim" /\ UNCHANGED seen
    /\ UNCHANGED <<vars, sql, run, book>>

\* is_task_runnable, on the tasks that were read: the first dependency that is
\* not finished holds the task up, or blocks it for good.
Unfinished(t) == {d \in Deps[t] : seen[d] \notin Finished}

HeldUp ==
    /\ pc = "claim" /\ work # {}
    /\ LET t == First(work)
       IN  /\ Unfinished(t) # {}
           /\ \/ /\ seen[First(Unfinished(t))] \notin RecoveryBlocking \cup {"CANCELLED"}
                 /\ Advance(t) /\ UNCHANGED sql
              \/ /\ seen[First(Unfinished(t))] \in RecoveryBlocking \cup {"CANCELLED"}
                 /\ \/ Legal(t, "BLOCKED") /\ Move(t, "BLOCKED") /\ Advance(t)
                    \/ ~Legal(t, "BLOCKED") /\ Goto("error") /\ UNCHANGED sql
    /\ UNCHANGED <<vars, run, book>>

\* should_run: the projection of the goal offers delivery or repair.  It looks
\* at no quota.
Offers(todos) ==
    LET blocked == {t \in Todo : todos[t].status = "BLOCKED"}
        pending == {t \in Todo : todos[t].status = "PENDING" /\ DepsDone(todos, t)}
    IN  /\ goalStatus = "ACTIVE" /\ ~GateFor(AnyTodo)
        /\ \/ blocked # {} /\ ~GateFor(First(blocked)) /\ ~todos[First(blocked)].deferred
           \/ blocked = {} /\ pending # {} /\ ~GateFor(First(pending))

AllTried ==
    /\ pc = "claim" /\ work = {}
    /\ Return
    /\ UNCHANGED <<vars, sql, run, book>>

Consult ==
    /\ pc = "claim" /\ work # {}
    /\ Unfinished(First(work)) = {}
    /\ RecoverExpiredLeases
    /\ \/ Offers(todo') /\ Goto("turn")
       \/ ~Offers(todo') /\ Return
    /\ UNCHANGED <<sql, run, book>>

Withheld_Never(t) == FALSE

\* next_turn decided for something else: no turn, or the turn of another todo.
Withheld(t) == issued' # Append(issued, t)

TakeTurn ==
    /\ pc = "turn"
    /\ NextTurn
    /\ \/ Withheld(First(work)) /\ Return
       \/ ~Withheld(First(work)) /\ Goto("dispatch")
    /\ UNCHANGED <<sql, run, book>>

(***************************************************************************)
(* Dispatch, execution and the outcome.                                    *)
(***************************************************************************)

\* The claim of the task is committed, and the dispatch starts the pipeline,
\* or closes the task without an outcome for the kernel, or raises.
Dispatch ==
    /\ pc = "dispatch"
    /\ LET t == First(work)
       IN  /\ Legal(t, "PLANNING")
           /\ \/ Move(t, "PLANNING") /\ Goto("executing")
              \/ Move(t, "FAILED_SAFE") /\ Return
              \/ Move(t, "FAILED_SAFE") /\ Goto("failed")
           /\ ran' = ran \cup {t}
           /\ starts' = [starts EXCEPT ![t] = @ + 1]
    /\ UNCHANGED <<vars, run, cycles, unblocks>>

DispatchFails ==
    /\ pc = "dispatch"
    /\ ~Legal(First(work), "PLANNING")
    /\ Goto("error")
    /\ UNCHANGED <<vars, sql, run, book>>

\* A role of the pipeline that starts moves its task on from wherever an operator
\* has put it, through READY when that is a legal step.
CanPass(t) == sql[t] = "PLANNING" \/ Legal(t, "READY")
CanFail(t) == sql[t] \in {"BACKLOG", "READY"} \/ Legal(t, "FAILED_SAFE")

PipelineEnds_TaskOnly ==
    /\ pc = "executing"
    /\ LET t == First(work)
       IN  \/ CanPass(t) /\ Move(t, "PR_READY") /\ Goto("outcome")
           \/ CanFail(t) /\ Move(t, "FAILED_SAFE") /\ Goto("outcome")
    /\ UNCHANGED <<vars, run, book>>

\* The pipeline ends with the evidence for a pull request, or with a TaskRun that
\* is FAILED, which its task is in the same transaction.
PipelineEnds ==
    /\ pc = "executing"
    /\ LET t == First(work)
       IN  \/ CanPass(t) /\ Move(t, "PR_READY") /\ Goto("outcome")
           \/ CanFail(t) /\ Move(t, "FAILED_SAFE") /\ Goto("failed")
    /\ UNCHANGED <<vars, run, book>>

\* The task was moved meanwhile: neither the pipeline nor the scheduler's own
\* handler can move it, and the kernel hears of no outcome.
PipelineFails ==
    /\ pc = "executing"
    /\ ~CanFail(First(work))
    /\ Goto("error")
    /\ UNCHANGED <<vars, sql, run, book>>

\* _record_control_plane_outcome: written back to the turn that holds the todo
\* now, if one does.
RecordOutcome(t, kind) ==
    \/ /\ todo[t].status = "CLAIMED"
       /\ RecordResult(todo[t].turn, kind, 0)
    \/ /\ todo[t].status # "CLAIMED"
       /\ UNCHANGED vars

Passed(t) == sql[t] \notin RecoveryBlocking

Outcome ==
    /\ LET t == First(work)
       IN  \/ /\ pc = "outcome" /\ Passed(t)
              /\ RecordOutcome(t, "VALIDATED_PROGRESS")
              /\ Advance(t) \/ Return
           \/ /\ pc = "failed" \/ (pc = "outcome" /\ ~Passed(t))
              /\ RecordOutcome(t, "VALIDATION_FAILED")
              /\ Return
    /\ UNCHANGED <<sql, run, book>>

\* _finalize_stalled_blocker, after an iteration that raised.
FinalizeStalled ==
    /\ pc = "error"
    /\ \/ /\ run \in {"PENDING", "RUNNING"}
          /\ With(Executing, sql) = {} /\ With(RecoveryBlocking, sql) # {}
          /\ sql' = Escalated(sql)
          /\ Stop(HumanReview)
       \/ /\ \/ run \notin {"PENDING", "RUNNING"}
             \/ With(Executing, sql) # {} \/ With(RecoveryBlocking, sql) = {}
          /\ Return
          /\ UNCHANGED <<sql, run>>
    /\ UNCHANGED <<vars, book>>

(***************************************************************************)
(* The process is killed, and the run reconciled by hand                   *)
(* (cli/run.py, reconcile_interrupted_run).                                *)
(***************************************************************************)
Die ==
    /\ MayDie
    /\ pc \notin {"dead", "aborting", "stopped"}
    /\ pc' = "dead" /\ seen' = NotRead /\ work' = {}
    /\ UNCHANGED <<vars, sql, run, book>>

ReconcileRun ==
    /\ pc = "dead"
    /\ \/ /\ run \notin ClosedRun
          /\ sql' = [t \in Todo |-> IF sql[t] \in Executing THEN "FAILED_SAFE" ELSE sql[t]]
          /\ run' = HumanReview
       \/ /\ run \in ClosedRun
          /\ UNCHANGED <<sql, run>>
    /\ Goto("aborting")
    /\ UNCHANGED <<vars, book>>

AbortGoal ==
    /\ pc = "aborting"
    /\ \/ Abort("interrupted")
       \/ goalStatus \in {"COMPLETED", "FAILED", "BLOCKED"} /\ UNCHANGED vars
    /\ Goto("stopped")
    /\ UNCHANGED <<sql, run, book>>

(***************************************************************************)
(* The world.                                                              *)
(***************************************************************************)
\* PUT /tasks/{id}, /tasks/{id}/approve and the plan commands.
SetTask(t, status) ==
    /\ Legal(t, status)
    /\ Move(t, status)
    /\ UNCHANGED <<vars, run, pc, seen, work, book>>

\* POST /runs/{id}/{action} and the commands pause, resume and stop: whatever
\* the run is.
SetRun(status) ==
    /\ run' = status
    /\ UNCHANGED <<vars, sql, pc, seen, work, book>>

\* _heartbeat_task_run, with the turn it was started with.
Heartbeat ==
    /\ pc = "executing"
    /\ issued # <<>>
    /\ RenewLease(Len(issued))
    /\ UNCHANGED <<sql, run, pc, seen, work, book>>

KernelAlone ==
    /\ \/ Tick
       \/ RecoverExpiredLeases
       \/ \E t \in Todo : BackoffElapses(t)
       \/ \E reason \in PauseReason : Pause(reason)
       \/ Resume
    /\ UNCHANGED <<sql, run, pc, seen, work, book>>

-----------------------------------------------------------------------------
Iterate == \/ TimeOut \/ Begin \/ ConformityFails
           \/ Promote \/ CloseGoal \/ CloseRun \/ CloseGoalFails
           \/ Recover \/ Escalate \/ Delegate \/ Reopen \/ Requeue \/ StopForHuman
           \/ Schedule \/ HeldUp \/ AllTried \/ Consult \/ TakeTurn
           \/ Dispatch \/ DispatchFails \/ PipelineEnds \/ PipelineFails
           \/ Outcome \/ FinalizeStalled

\* The model follows the world until the scheduler has stopped.
World ==
    /\ pc # "stopped"
    /\ \/ \E t \in Todo, status \in TaskSetting : SetTask(t, status)
       \/ \E status \in RunSetting : SetRun(status)
       \/ KernelAlone

SchedulerNext == Iterate \/ Heartbeat \/ Die \/ ReconcileRun \/ AbortGoal \/ World

SchedulerSpec == SchedulerInit /\ [][SchedulerNext]_schedulerVars

\* A process that is not killed carries on; a pipeline ends within
\* max_task_duration.
FairSchedulerSpec == SchedulerSpec /\ WF_schedulerVars(Iterate)

-----------------------------------------------------------------------------
(***************************************************************************)
(* Properties.                                                             *)
(***************************************************************************)

\* A task is executed only with a turn of its own: it is never claimed for
\* execution more often than the kernel handed its todo out, so that the turn
\* and attempt quotas of the goal bound the executions.
ExecutionsAreTurns ==
    \A t \in Todo : starts[t] <= Cardinality({k \in DOMAIN issued : issued[k] = t})

\* A task an operator cancelled stays cancelled, also in the middle of its
\* execution, of its repair or of the iteration that has read it as ready
\* (VALID_TRANSITIONS).
CancelledTasksStay ==
    [][\A t \in Todo : sql[t] = "CANCELLED" => sql'[t] = "CANCELLED"]_schedulerVars

\* A todo counts as passed only while its task is ready for its pull request,
\* done or cancelled: a task that failed is not passed by an operator who reopens
\* it before its outcome is written back.
PassedTodosAreSettled ==
    \A t \in Todo : todo[t].status = "PASSED" => sql[t] \in Terminal

\* Database and kernel agree on what has passed, and each keeps its types.
StoresAgree == SchedulerTypeOK /\ PassedTodosAreSettled

\* The run is completed only after the kernel has accepted the release, and then
\* every task is settled and every todo passed, in both stores.
CompletionIsJoint ==
    [][run # "COMPLETED" /\ run' = "COMPLETED" =>
          /\ released
          /\ \A t \in Todo : sql[t] \in Terminal /\ todo[t].status = "PASSED"]_schedulerVars

\* A failed task does not stay where it failed while the scheduler lives: it is
\* reopened or handed to a human, unless the run is closed or paused before.
FailuresAreHandled ==
    \A t \in Todo :
        (sql[t] \in RecoveryBlocking)
            ~> (sql[t] \notin RecoveryBlocking \/ run # "RUNNING" \/ pc \in {"dead", "aborting", "stopped"})
=============================================================================
