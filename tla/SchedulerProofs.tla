-------------------------- MODULE SchedulerProofs ---------------------------
(***************************************************************************)
(* Proofs about the scheduler, for every number of tasks, every dependency *)
(* graph and every budget.                                                 *)
(***************************************************************************)
EXTENDS Scheduler, ControlPlaneProofs

(***************************************************************************)
(* Cancelled tasks.                                                        *)
(***************************************************************************)
SqlIsByTask == DOMAIN sql = Todo

CancelledStays == \A t \in Todo : sql[t] = "CANCELLED" => sql'[t] = "CANCELLED"

\* No other status is legal for a cancelled task (VALID_TRANSITIONS).
LEMMA NothingFollowsCancelled ==
    ASSUME NEW u, NEW status, Legal(u, status)
    PROVE  sql[u] = "CANCELLED" => status = "CANCELLED"
  <1>1. Allowed["CANCELLED"] = {}
    BY DEF Allowed
  <1> QED
    BY <1>1 DEF Legal

\* A task that is moved is not a cancelled one, or stays one.
LEMMA MoveKeepsCancelled ==
    ASSUME NEW u, NEW status, SqlIsByTask, Move(u, status),
           sql[u] = "CANCELLED" => status = "CANCELLED"
    PROVE  CancelledStays /\ SqlIsByTask'
  BY DEF Move, SqlIsByTask, CancelledStays

\* A transaction that closes the executing tasks touches no cancelled one.
LEMMA ClosingKeepsCancelled ==
    ASSUME sql' = [t \in Todo |-> IF sql[t] \in Executing THEN "FAILED_SAFE" ELSE sql[t]]
    PROVE  CancelledStays /\ SqlIsByTask'
  BY DEF SqlIsByTask, CancelledStays, Executing

\* Nor does one that hands the stuck tasks to a human.
LEMMA EscalationKeepsCancelled ==
    ASSUME NEW tasks, sql' = Escalated(tasks)
    PROVE  CancelledStays /\ SqlIsByTask'
  <1>1. Allowed["CANCELLED"] = {}
    BY DEF Allowed
  <1> QED
    BY <1>1 DEF Escalated, With, RecoveryBlocking, SqlIsByTask, CancelledStays

\* No step of the scheduler or of the world takes a task out of CANCELLED.
LEMMA StepKeepsCancelled ==
    ASSUME SqlIsByTask, SchedulerNext
    PROVE  CancelledStays /\ SqlIsByTask'
  <1> DEFINE Same == UNCHANGED sql
  <1>0. Same => CancelledStays /\ SqlIsByTask'
    BY DEF SqlIsByTask, CancelledStays
  <1> HIDE DEF Same
  <1>1. CASE Iterate
    <2>1. CASE TimeOut
      BY <2>1, ClosingKeepsCancelled DEF TimeOut
    <2>2. CASE Escalate
      BY <2>2, EscalationKeepsCancelled DEF Escalate
    <2>3. CASE FinalizeStalled
      <3>1. sql' = Escalated(sql) \/ Same
        BY <2>3 DEF FinalizeStalled, Same
      <3> QED
        BY <3>1, <1>0, EscalationKeepsCancelled
    <2>4. CASE Requeue
      <3>1. sql' = [t \in Todo |-> IF t \in Requeued /\ Legal(t, "READY") THEN "READY" ELSE sql[t]]
        BY <2>4 DEF Requeue
      <3>2. \A t \in Todo : Legal(t, "READY") => sql[t] # "CANCELLED"
        BY NothingFollowsCancelled
      <3> QED
        BY <3>1, <3>2 DEF SqlIsByTask, CancelledStays
    <2>5. CASE HeldUp
      <3>1. Same \/ (Legal(First(work), "BLOCKED") /\ Move(First(work), "BLOCKED"))
        BY <2>5 DEF HeldUp, Same
      <3> QED
        BY <3>1, <1>0, NothingFollowsCancelled, MoveKeepsCancelled
    <2>6. CASE Dispatch
      <3>1. /\ Legal(First(work), "PLANNING")
            /\ \E status : Move(First(work), status)
        BY <2>6 DEF Dispatch
      <3>2. sql[First(work)] # "CANCELLED"
        BY <3>1, NothingFollowsCancelled
      <3> QED
        BY <3>1, <3>2, MoveKeepsCancelled
    <2>7. CASE PipelineEnds
      <3>1. /\ CanPass(First(work)) \/ CanFail(First(work))
            /\ \E status : Move(First(work), status)
        BY <2>7 DEF PipelineEnds
      <3>2. sql[First(work)] # "CANCELLED"
        BY <3>1, NothingFollowsCancelled DEF CanPass, CanFail
      <3> QED
        BY <3>1, <3>2, MoveKeepsCancelled
    <2>8. CASE \/ Begin \/ ConformityFails \/ Promote \/ CloseGoal \/ CloseRun \/ CloseGoalFails
               \/ Recover \/ Delegate \/ Reopen \/ StopForHuman \/ Schedule \/ AllTried
               \/ Consult \/ TakeTurn \/ DispatchFails \/ PipelineFails \/ Outcome
      <3>1. Same
        BY <2>8 DEF Same, Begin, ConformityFails, Promote, CloseGoal, CloseRun, CloseGoalFails,
                    Recover, Delegate, Reopen, StopForHuman, Schedule, AllTried,
                    Consult, TakeTurn, DispatchFails, PipelineFails, Outcome
      <3> QED
        BY <3>1, <1>0
    <2> QED
      BY <1>1, <2>1, <2>2, <2>3, <2>4, <2>5, <2>6, <2>7, <2>8 DEF Iterate
  <1>2. CASE ReconcileRun
    <2>1. \/ sql' = [t \in Todo |-> IF sql[t] \in Executing THEN "FAILED_SAFE" ELSE sql[t]]
          \/ Same
      BY <1>2 DEF ReconcileRun, Same
    <2> QED
      BY <2>1, <1>0, ClosingKeepsCancelled
  <1>3. CASE World
    <2>1. ASSUME NEW t \in Todo, NEW status, SetTask(t, status)
          PROVE  CancelledStays /\ SqlIsByTask'
      <3>1. Legal(t, status) /\ Move(t, status)
        BY <2>1 DEF SetTask
      <3> QED
        BY <3>1, NothingFollowsCancelled, MoveKeepsCancelled
    <2>2. CASE (\E status \in RunSetting : SetRun(status)) \/ KernelAlone
      <3>1. Same
        BY <2>2 DEF Same, SetRun, KernelAlone
      <3> QED
        BY <3>1, <1>0
    <2> QED
      BY <1>3, <2>1, <2>2 DEF World
  <1>4. CASE Heartbeat \/ Die \/ AbortGoal
    <2>1. Same
      BY <1>4 DEF Same, Heartbeat, Die, AbortGoal
    <2> QED
      BY <2>1, <1>0
  <1> QED
    BY <1>1, <1>2, <1>3, <1>4 DEF SchedulerNext

\* A task an operator cancelled stays cancelled, whatever the scheduler has read,
\* is executing or is writing back.
THEOREM CancelledTasksAreLeftAlone == SchedulerSpec => CancelledTasksStay
  <1>1. SchedulerInit => SqlIsByTask
    BY DEF SchedulerInit, SqlIsByTask
  <1>2. SqlIsByTask /\ [SchedulerNext]_schedulerVars => SqlIsByTask'
    BY StepKeepsCancelled DEF schedulerVars, SqlIsByTask
  <1>3. SqlIsByTask /\ [SchedulerNext]_schedulerVars => [CancelledStays]_schedulerVars
    BY StepKeepsCancelled
  <1> QED
    BY <1>1, <1>2, <1>3, PTL DEF SchedulerSpec, CancelledTasksStay, CancelledStays

(***************************************************************************)
(* Executions and turns.                                                   *)
(***************************************************************************)
TurnsOf(t, log) == {k \in DOMAIN log : log[k] = t}

\* A turn more of one todo is one more in its count.
LEMMA OneTurnMore ==
    ASSUME NEW log \in Seq(Todo), NEW t, NEW u \in Todo
    PROVE  /\ Cardinality(TurnsOf(t, log)) \in Nat
           /\ u # t => Cardinality(TurnsOf(t, Append(log, u))) = Cardinality(TurnsOf(t, log))
           /\ Cardinality(TurnsOf(u, Append(log, u))) = Cardinality(TurnsOf(u, log)) + 1
  <1> DEFINE k == Len(log) + 1
  <1>1. Len(log) \in Nat /\ DOMAIN log = 1..Len(log)
    OBVIOUS
  <1>2. /\ DOMAIN Append(log, u) = (DOMAIN log) \cup {k} /\ k \notin DOMAIN log
        /\ Append(log, u)[k] = u
        /\ \A j \in DOMAIN log : Append(log, u)[j] = log[j]
    BY <1>1
  <1>3. \A x : IsFiniteSet(TurnsOf(x, log))
    <2>1. IsFiniteSet(1..Len(log))
      BY <1>1, FS_Interval
    <2>2. \A x : TurnsOf(x, log) \subseteq 1..Len(log)
      BY <1>1 DEF TurnsOf
    <2> QED
      BY <2>1, <2>2, FS_Subset
  <1> HIDE DEF k
  <1>4. Cardinality(TurnsOf(t, log)) \in Nat
    BY <1>3, FS_CardinalityType
  <1>5. u # t => TurnsOf(t, Append(log, u)) = TurnsOf(t, log)
    BY <1>2 DEF TurnsOf
  <1>6. TurnsOf(u, Append(log, u)) = TurnsOf(u, log) \cup {k} /\ k \notin TurnsOf(u, log)
    BY <1>2 DEF TurnsOf
  <1>7. Cardinality(TurnsOf(u, log) \cup {k}) = Cardinality(TurnsOf(u, log)) + 1
    BY <1>3, <1>6, FS_AddElement
  <1> QED
    BY <1>4, <1>5, <1>6, <1>7

\* What makes it inductive: between the turn and its dispatch the task has a turn
\* that no execution has used.
Covered(t) == starts[t] <= Cardinality(TurnsOf(t, issued))
Spare(t) == t \in Todo /\ starts[t] < Cardinality(TurnsOf(t, issued))

ExecutionInv ==
    /\ issued \in Seq(Todo)
    /\ starts \in [Todo -> Nat]
    /\ \A t \in Todo : Covered(t)
    /\ pc = "dispatch" => Spare(First(work))

\* The decision for a turn hands out one turn or none.
LEMMA NextTurnIssues ==
    ASSUME NextTurn
    PROVE  issued' = issued \/ \E u \in Todo : issued' = Append(issued, u)
  BY DEF NextTurn, NextTurnDeclines, NextTurnAsks, NextTurnClaims, NextTurnCloses

\* Every other step of the scheduler and of the world hands out none, and keeps
\* a task that waits for its dispatch where it is.
LEMMA OthersIssueNothing ==
    ASSUME SchedulerNext, ~TakeTurn, ~Dispatch
    PROVE  /\ UNCHANGED <<issued, starts>>
           /\ pc' = "dispatch" => pc = "dispatch" /\ work' = work
  <1>1. CASE \/ TimeOut \/ Begin \/ ConformityFails \/ Promote \/ CloseRun \/ CloseGoalFails
             \/ Recover \/ Escalate \/ Requeue \/ StopForHuman \/ Schedule \/ HeldUp \/ AllTried
             \/ DispatchFails \/ PipelineEnds \/ PipelineFails \/ FinalizeStalled
             \/ Die \/ ReconcileRun
    BY <1>1 DEF TimeOut, Begin, ConformityFails, Promote, CloseRun, CloseGoalFails, Recover, Escalate,
                Requeue, StopForHuman, Schedule, HeldUp, AllTried, DispatchFails, PipelineEnds,
                PipelineFails, FinalizeStalled, Die, ReconcileRun, Sync, Stop, Goto, Return, Advance,
                vars, book
  <1>2. CASE CloseGoal
    BY <1>2 DEF CloseGoal, MarkReleaseCompleted, Goto, book
  <1>3. CASE Delegate \/ Reopen
    BY <1>3 DEF Delegate, Reopen, RecordRepairHandoff, ReopenAfterRepair, Goto, vars, book
  <1>4. CASE Consult
    BY <1>4 DEF Consult, RecoverExpiredLeases, Goto, Return, book
  <1>5. CASE Outcome
    BY <1>5 DEF Outcome, RecordOutcome, RecordResult, Advance, Return, vars, book
  <1>6. CASE AbortGoal
    BY <1>6 DEF AbortGoal, Abort, Goto, vars, book
  <1>7. CASE Heartbeat
    BY <1>7 DEF Heartbeat, RenewLease, book
  <1>8. CASE World
    BY <1>8 DEF World, SetTask, SetRun, KernelAlone, Tick, RecoverExpiredLeases, BackoffElapses,
                Pause, Resume, SetGoalStatus, vars, book
  <1> QED
    BY <1>1, <1>2, <1>3, <1>4, <1>5, <1>6, <1>7, <1>8 DEF SchedulerNext, Iterate

\* The turn that the scheduler goes on with is a new one of its task.
LEMMA TakeTurnKeepsTurns ==
    ASSUME ExecutionInv, TakeTurn
    PROVE  ExecutionInv'
  <1>1. NextTurn /\ UNCHANGED starts
    BY DEF TakeTurn, book
  <1>2. CASE issued' = issued
    <2>1. pc' # "dispatch"
      <3>1. \A u : Append(issued, u) # issued
        BY DEF ExecutionInv
      <3>2. Withheld(First(work))
        BY <1>2, <3>1 DEF Withheld
      <3> QED
        BY <3>2 DEF TakeTurn, Return
    <2> QED
      BY <1>1, <1>2, <2>1 DEF ExecutionInv, Covered
  <1>3. ASSUME NEW u \in Todo, issued' = Append(issued, u)
        PROVE  ExecutionInv'
    <2>1. issued' \in Seq(Todo)
      BY <1>3 DEF ExecutionInv
    <2>2. ASSUME NEW t \in Todo
          PROVE  Covered(t)'
      BY <1>1, <1>3, <2>2, OneTurnMore DEF ExecutionInv, Covered
    <2>3. starts[u] < Cardinality(TurnsOf(u, issued'))
      BY <1>3, OneTurnMore DEF ExecutionInv, Covered
    <2>4. pc' = "dispatch" => work' = work /\ First(work) = u
      <3>1. pc' = "dispatch" => work' = work /\ issued' = Append(issued, First(work))
        BY DEF TakeTurn, Goto, Return, Withheld
      <3>2. \A v : Append(issued, v) = Append(issued, u) => v = u
        BY DEF ExecutionInv
      <3> QED
        BY <1>3, <3>1, <3>2
    <2> QED
      BY <1>1, <2>1, <2>2, <2>3, <2>4 DEF ExecutionInv, Spare
  <1> QED
    BY <1>1, <1>2, <1>3, NextTurnIssues

\* The dispatch uses that turn up.
LEMMA DispatchKeepsTurns ==
    ASSUME ExecutionInv, Dispatch
    PROVE  ExecutionInv'
  <1> DEFINE t == First(work)
  <1>1. /\ UNCHANGED issued
        /\ starts' = [starts EXCEPT ![t] = @ + 1]
        /\ pc' # "dispatch"
    BY DEF Dispatch, Goto, Return, vars
  <1>2. Spare(t) /\ issued \in Seq(Todo) /\ starts \in [Todo -> Nat]
    BY DEF Dispatch, ExecutionInv
  <1> HIDE DEF t
  <1>3. ASSUME NEW u \in Todo
        PROVE  Covered(u)'
    <2>1. Cardinality(TurnsOf(u, issued)) \in Nat
      BY <1>2, OneTurnMore
    <2>2. Covered(u)
      BY DEF ExecutionInv
    <2> QED
      BY <1>1, <1>2, <2>1, <2>2 DEF Covered, Spare
  <1>4. starts' \in [Todo -> Nat]
    BY <1>1, <1>2 DEF Spare
  <1> QED
    BY <1>1, <1>2, <1>3, <1>4 DEF ExecutionInv

LEMMA ExecutionsStayCovered == SchedulerSpec => []ExecutionInv
  <1>1. SchedulerInit => ExecutionInv
    <2> SUFFICES ASSUME SchedulerInit PROVE ExecutionInv
      OBVIOUS
    <2>1. issued = <<>> /\ starts = [t \in Todo |-> 0] /\ pc = "idle"
      BY DEF SchedulerInit, Init
    <2>2. \A t \in Todo : TurnsOf(t, issued) = {}
      BY <2>1 DEF TurnsOf
    <2> QED
      BY <2>1, <2>2, FS_EmptySet DEF ExecutionInv, Covered
  <1>2. ExecutionInv /\ [SchedulerNext]_schedulerVars => ExecutionInv'
    <2> SUFFICES ASSUME ExecutionInv, [SchedulerNext]_schedulerVars PROVE ExecutionInv'
      OBVIOUS
    <2>1. CASE TakeTurn
      BY <2>1, TakeTurnKeepsTurns
    <2>2. CASE Dispatch
      BY <2>2, DispatchKeepsTurns
    <2>3. CASE SchedulerNext /\ ~TakeTurn /\ ~Dispatch
      <3>1. /\ UNCHANGED <<issued, starts>>
            /\ pc' = "dispatch" => pc = "dispatch" /\ work' = work
        BY <2>3, OthersIssueNothing
      <3> QED
        BY <3>1 DEF ExecutionInv, Covered, Spare
    <2>4. CASE UNCHANGED schedulerVars
      BY <2>4 DEF schedulerVars, vars, book, ExecutionInv, Covered, Spare
    <2> QED
      BY <2>1, <2>2, <2>3, <2>4
  <1> QED
    BY <1>1, <1>2, PTL DEF SchedulerSpec

\* No task is executed more often than the kernel has handed out turns of it: the
\* quotas of the goal bound the executions, through repairs, reopened tasks and
\* stale readings.
THEOREM ExecutionsNeedTurns == SchedulerSpec => []ExecutionsAreTurns
  <1>1. ExecutionInv => ExecutionsAreTurns
    BY DEF ExecutionInv, Covered, TurnsOf, ExecutionsAreTurns
  <1> QED
    BY <1>1, ExecutionsStayCovered, PTL

(***************************************************************************)
(* The scheduler on the kernel: everything it does to the goal is an       *)
(* operation of the kernel, so what the kernel promises it still promises. *)
(***************************************************************************)
AtTask == {"reopen", "turn", "dispatch", "executing", "outcome", "failed"}

Bookkeeping ==
    /\ sql \in [Todo -> DOMAIN Allowed]
    /\ run \in RunStatus
    /\ pc \in Step
    /\ seen = NotRead \/ seen \in [Todo -> DOMAIN Allowed]
    /\ work \subseteq Todo
    /\ pc \in AtTask => work # {}
    /\ cycles \in 0..MaxCycles
    /\ pc \in {"handoff", "reopen"} => cycles < MaxCycles
    /\ unblocks \in [Todo -> Nat] /\ \A t \in Todo : unblocks[t] <= cycles
    /\ ran \subseteq Todo
    /\ alive = DOMAIN issued

\* The first of some tasks is one of them.
LEMMA FirstIsMember ==
    ASSUME NEW S, S \subseteq Todo, S # {}
    PROVE  First(S) \in S
  <1>1. S \subseteq Nat
    BY KernelAssumption DEF KernelAssumption, Todo
  <1>2. \E t \in S : \A u \in S : t <= u
    BY <1>1, LeastOfNaturals
  <1> QED
    BY <1>2 DEF First

\* A reading of the tasks is a projection the kernel accepts (sync_tasks).
LEMMA BeginSyncs ==
    ASSUME TypeOK, sql \in [Todo -> DOMAIN Allowed], Sync(sql)
    PROVE  [SyncTasks]_vars
  <1>1. DOMAIN Allowed \subseteq SqlStatus
    BY SchedulerAssumption DEF SchedulerAssumption, Allowed, TaskStatus, HumanReview
  <1>2. CASE N = 0
    <2>1. Todo = {}
      BY <1>2 DEF Todo
    <2> QED
      BY <2>1 DEF Sync, vars, TypeOK
  <1>3. CASE N # 0
    <2>1. N \in Todo /\ \A t \in Todo : ~(t > N)
      BY <1>3, KernelAssumption DEF KernelAssumption, Todo
    <2>2. sql \in [1..N -> SqlStatus]
      BY <1>1 DEF Todo
    <2> QED
      BY <2>1, <2>2 DEF SyncTasks
  <1> QED
    BY <1>2, <1>3

\* An outcome is written back to the turn that holds the todo.
LEMMA OutcomeRecords ==
    ASSUME TypeOK, ClaimsAreHeld, alive = DOMAIN issued, NEW t \in Todo,
           NEW kind \in {"VALIDATED_PROGRESS", "VALIDATION_FAILED"}, RecordOutcome(t, kind)
    PROVE  [Next]_vars
  <1>1. CASE todo[t].status = "CLAIMED" /\ RecordResult(todo[t].turn, kind, 0)
    <2>1. todo[t].turn \in alive
      BY <1>1 DEF ClaimsAreHeld
    <2>2. kind \in Kind /\ 0 \in Cost
      BY SchedulerAssumption DEF SchedulerAssumption
    <2> QED
      BY <1>1, <2>1, <2>2 DEF Next, Worker
  <1> QED
    BY <1>1 DEF RecordOutcome

\* Every step of the scheduler and of the world is a step of the kernel or
\* leaves the goal alone.
LEMMA SchedulerStepsAreKernelSteps ==
    ASSUME TypeOK, ClaimsAreHeld, Bookkeeping, [SchedulerNext]_schedulerVars
    PROVE  [Next]_vars
  <1> DEFINE Kernel == [Next]_vars
  <1>0. work # {} => First(work) \in Todo
    BY FirstIsMember DEF Bookkeeping
  <1>1. CASE \/ TimeOut \/ ConformityFails \/ Promote \/ CloseRun \/ CloseGoalFails
             \/ Recover \/ Escalate \/ Requeue \/ StopForHuman \/ Schedule \/ HeldUp \/ AllTried
             \/ Dispatch \/ DispatchFails \/ PipelineEnds \/ PipelineFails \/ FinalizeStalled
             \/ Die \/ ReconcileRun
    <2>1. UNCHANGED vars
      BY <1>1 DEF TimeOut, ConformityFails, Promote, CloseRun, CloseGoalFails, Recover, Escalate,
                  Requeue, StopForHuman, Schedule, HeldUp, AllTried, Dispatch, DispatchFails,
                  PipelineEnds, PipelineFails, FinalizeStalled, Die, ReconcileRun
    <2> QED
      BY <2>1
  <1>2. CASE Begin
    <2>1. [SyncTasks]_vars
      BY <1>2, BeginSyncs DEF Begin, Bookkeeping
    <2> QED
      BY <2>1 DEF Next
  <1>3. CASE CloseGoal
    BY <1>3 DEF CloseGoal, Next
  <1>4. CASE Delegate
    <2>1. \/ RecordRepairHandoff(First(work), HandoffOf(First(work)))
          \/ UNCHANGED vars
      BY <1>4 DEF Delegate
    <2>2. work # {} /\ pc = "handoff"
      BY <1>4 DEF Delegate
    <2>3. HandoffOf(First(work)) \in Handoff
      <3>1. unblocks[First(work)] + 1 \in 1..MaxCycles
        BY <1>0, <2>2, SchedulerAssumption DEF SchedulerAssumption, Bookkeeping
      <3> QED
        BY <1>0, <2>2, <3>1, SchedulerAssumption DEF SchedulerAssumption, HandoffOf
    <2> QED
      BY <1>0, <2>1, <2>2, <2>3 DEF Next, Repair
  <1>5. CASE Reopen
    <2>1. ReopenAfterRepair(First(work), HandoffOf(First(work))) /\ pc = "reopen"
      BY <1>5 DEF Reopen
    <2>2. work # {}
      BY <2>1 DEF Bookkeeping, AtTask
    <2>3. HandoffOf(First(work)) \in Handoff
      BY <2>1 DEF ReopenAfterRepair, TypeOK
    <2> QED
      BY <1>0, <2>1, <2>2, <2>3 DEF Next, Repair
  <1>6. CASE Consult
    BY <1>6 DEF Consult, Next
  <1>7. CASE TakeTurn
    BY <1>7 DEF TakeTurn, Next
  <1>8. CASE Outcome
    <2>1. pc \in {"outcome", "failed"}
      BY <1>8 DEF Outcome
    <2>2. First(work) \in Todo
      BY <1>0, <2>1 DEF Bookkeeping, AtTask
    <2>3. \E kind \in {"VALIDATED_PROGRESS", "VALIDATION_FAILED"} : RecordOutcome(First(work), kind)
      BY <1>8 DEF Outcome
    <2>4. alive = DOMAIN issued
      BY DEF Bookkeeping
    <2> QED
      BY <2>2, <2>3, <2>4, OutcomeRecords
  <1>9. CASE AbortGoal
    BY <1>9, SchedulerAssumption DEF SchedulerAssumption, AbortGoal, Next, Operator
  <1>10. CASE Heartbeat
    <2>1. RenewLease(Len(issued)) /\ issued # <<>>
      BY <1>10 DEF Heartbeat
    <2>2. Len(issued) \in alive
      BY <2>1 DEF TypeOK, Bookkeeping
    <2> QED
      BY <2>1, <2>2 DEF Next, Worker
  <1>11. CASE World
    <2>1. \/ UNCHANGED vars \/ KernelAlone
      BY <1>11 DEF World, SetTask, SetRun
    <2> QED
      BY <2>1 DEF KernelAlone, Next, Operator
  <1>12. CASE UNCHANGED schedulerVars
    BY <1>12 DEF schedulerVars
  <1> QED
    BY <1>1, <1>2, <1>3, <1>4, <1>5, <1>6, <1>7, <1>8, <1>9, <1>10, <1>11, <1>12
    DEF SchedulerNext, Iterate

\* The kernel steps that the scheduler and the world take mint turns, and let no
\* worker die: a process of the scheduler that is killed is the whole scheduler.
LEMMA WorkersLive ==
    ASSUME TypeOK, alive = DOMAIN issued, SchedulerNext
    PROVE  alive' = DOMAIN issued'
  <1>1. CASE TakeTurn
    <2>1. NextTurn
      BY <1>1 DEF TakeTurn
    <2>2. CASE NextTurnClaims
      <3>1. PICK t \in Todo : issued' = Append(issued, t)
        BY <2>2 DEF NextTurnClaims
      <3>2. alive' = alive \cup {Len(issued) + 1}
        BY <2>2 DEF NextTurnClaims, TypeOK
      <3>3. DOMAIN issued' = (DOMAIN issued) \cup {Len(issued) + 1}
        BY <3>1 DEF TypeOK
      <3> QED
        BY <3>2, <3>3
    <2>3. CASE NextTurnDeclines \/ NextTurnAsks \/ NextTurnCloses
      BY <2>3 DEF NextTurnDeclines, NextTurnAsks, NextTurnCloses
    <2> QED
      BY <2>1, <2>2, <2>3 DEF NextTurn
  <1>2. CASE ~TakeTurn
    <2>1. UNCHANGED <<issued, alive>>
      <3>1. CASE UNCHANGED vars
        BY <3>1 DEF vars
      <3>2. CASE Begin \/ Consult \/ CloseGoal \/ Delegate \/ Reopen
        BY <3>1, <3>2 DEF Begin, Sync, Consult, RecoverExpiredLeases, CloseGoal,
           MarkReleaseCompleted, Delegate, RecordRepairHandoff, Reopen, ReopenAfterRepair
      <3>3. CASE Outcome \/ AbortGoal \/ Heartbeat
        BY <3>1, <3>3 DEF Outcome, RecordOutcome, RecordResult, AbortGoal, Abort, Heartbeat,
           RenewLease
      <3>4. CASE KernelAlone
        BY <3>4 DEF KernelAlone, Tick, RecoverExpiredLeases, BackoffElapses, Pause, Resume,
           SetGoalStatus
      <3>5. CASE ~(UNCHANGED vars)
        BY <1>2, <3>2, <3>3, <3>4, <3>5
        DEF SchedulerNext, Iterate, World, SetTask, SetRun, TimeOut, ConformityFails,
            Promote, CloseRun, CloseGoalFails, Recover, Escalate, Requeue, StopForHuman,
            Schedule, HeldUp, AllTried, Dispatch, DispatchFails, PipelineEnds,
            PipelineFails, FinalizeStalled, Die, ReconcileRun
      <3> QED
        BY <3>1, <3>5
    <2> QED
      BY <2>1
  <1> QED
    BY <1>1, <1>2

\* Where an iteration is, and what it has at hand there.
LEMMA StepKeepsPlace ==
    ASSUME Bookkeeping, SchedulerNext
    PROVE  /\ pc' \in Step
           /\ seen' = NotRead \/ seen' \in [Todo -> DOMAIN Allowed]
           /\ work' \subseteq Todo
           /\ pc' \in AtTask => work' # {}
  <1>1. CASE \/ TimeOut \/ Begin \/ ConformityFails \/ Promote \/ CloseGoal \/ CloseRun
             \/ CloseGoalFails \/ Recover \/ Escalate \/ Delegate \/ Requeue \/ StopForHuman
    BY <1>1 DEF TimeOut, Begin, ConformityFails, Promote, CloseGoal, CloseRun, CloseGoalFails,
                Recover, Escalate, Delegate, Requeue, StopForHuman, Goto, Stop, Return, With,
                Step, AtTask, Bookkeeping
  <1>2. CASE \/ Reopen \/ Schedule \/ HeldUp \/ AllTried \/ Consult \/ TakeTurn
             \/ DispatchFails \/ FinalizeStalled
    BY <1>2 DEF Reopen, Schedule, HeldUp, AllTried, Consult, TakeTurn, DispatchFails,
                FinalizeStalled, Advance, Goto, Stop, Return, With, Step, AtTask, Bookkeeping
  <1>3. CASE Dispatch \/ PipelineEnds \/ PipelineFails \/ Outcome
    BY <1>3 DEF Dispatch, PipelineEnds, PipelineFails, Outcome, Advance, Goto, Return, Step,
                AtTask, Bookkeeping
  <1>4. CASE Heartbeat \/ Die \/ ReconcileRun \/ AbortGoal \/ World
    BY <1>4 DEF Heartbeat, Die, ReconcileRun, AbortGoal, World, SetTask, SetRun, KernelAlone,
                Goto, Step, AtTask, Bookkeeping
  <1> QED
    BY <1>1, <1>2, <1>3, <1>4 DEF SchedulerNext, Iterate

\* The statuses of the tasks and of the run are ones the database knows.
LEMMA StepKeepsStatuses ==
    ASSUME Bookkeeping, SchedulerNext
    PROVE  /\ sql' \in [Todo -> DOMAIN Allowed]
           /\ run' \in RunStatus
  <1> DEFINE Typed == sql' \in [Todo -> DOMAIN Allowed] /\ run' \in RunStatus
  <1>0. /\ {"READY", "BLOCKED", "PLANNING", "PR_READY", "FAILED_SAFE", HumanReview} \subseteq DOMAIN Allowed
        /\ \A status \in DOMAIN Allowed : Allowed[status] \subseteq DOMAIN Allowed
    BY DEF Allowed, HumanReview
  <1>a. /\ sql \in [Todo -> DOMAIN Allowed] /\ run \in RunStatus
        /\ {"RUNNING", "FAILED", "PAUSED", "COMPLETED", HumanReview} \subseteq RunStatus
    BY DEF Bookkeeping, RunStatus, HumanReview
  <1>b. ASSUME NEW u, NEW status \in DOMAIN Allowed, Move(u, status)
        PROVE  sql' \in [Todo -> DOMAIN Allowed]
    BY <1>a, <1>b DEF Move
  <1>1. CASE TimeOut \/ Escalate \/ Requeue \/ FinalizeStalled \/ ReconcileRun
    BY <1>0, <1>a, <1>1 DEF TimeOut, Escalate, Requeue, FinalizeStalled, ReconcileRun, Escalated,
                     Stop, Return
  <1>2. CASE \/ Begin \/ ConformityFails \/ Promote \/ CloseGoal \/ CloseRun \/ CloseGoalFails
             \/ Recover \/ Delegate \/ Reopen \/ StopForHuman \/ Schedule \/ AllTried
             \/ Consult \/ TakeTurn \/ DispatchFails \/ PipelineFails \/ Outcome
             \/ Heartbeat \/ Die \/ AbortGoal
    BY <1>a, <1>2 DEF Begin, ConformityFails, Promote, CloseGoal, CloseRun, CloseGoalFails,
                Recover, Delegate, Reopen, StopForHuman, Schedule, AllTried, Consult, TakeTurn,
                DispatchFails, PipelineFails, Outcome, Heartbeat, Die, AbortGoal, Stop
  <1>3. CASE HeldUp \/ Dispatch \/ PipelineEnds
    <2>1. run' = run
      BY <1>3 DEF HeldUp, Dispatch, PipelineEnds
    <2>2. sql' = sql \/ \E u, status : /\ status \in {"BLOCKED", "PLANNING", "FAILED_SAFE", "PR_READY"}
                                       /\ Move(u, status)
      BY <1>3 DEF HeldUp, Dispatch, PipelineEnds
    <2> QED
      BY <1>0, <1>a, <1>b, <2>1, <2>2
  <1>4. CASE World
    <2>1. CASE \E t \in Todo, status \in TaskSetting : SetTask(t, status)
      <3>1. PICK t \in Todo, status \in TaskSetting : SetTask(t, status)
        BY <2>1
      <3>2. status \in DOMAIN Allowed
        BY <1>0, <1>a, <3>1 DEF SetTask, Legal
      <3> QED
        BY <1>a, <1>b, <3>1, <3>2 DEF SetTask
    <2>2. CASE (\E status \in RunSetting : SetRun(status)) \/ KernelAlone
      BY <1>a, <2>2, SchedulerAssumption DEF SchedulerAssumption, SetRun, KernelAlone, RunStatus
    <2> QED
      BY <1>4, <2>1, <2>2 DEF World
  <1> QED
    BY <1>1, <1>2, <1>3, <1>4 DEF SchedulerNext, Iterate

\* The recovery budget.
LEMMA StepKeepsCycles ==
    ASSUME Bookkeeping, SchedulerNext
    PROVE  /\ cycles' \in 0..MaxCycles
           /\ pc' \in {"handoff", "reopen"} => cycles' < MaxCycles
           /\ unblocks' \in [Todo -> Nat] /\ \A t \in Todo : unblocks'[t] <= cycles'
           /\ ran' \subseteq Todo
  <1>a. cycles \in Nat /\ MaxCycles \in Nat
    BY SchedulerAssumption DEF SchedulerAssumption, Bookkeeping
  <1>1. CASE Requeue
    <2>1. /\ cycles' = cycles + 1 /\ cycles < MaxCycles /\ pc' = "idle"
          /\ unblocks' = [t \in Todo |-> unblocks[t] + IF t \in Requeued THEN 1 ELSE 0]
          /\ ran' = ran
      BY <1>1 DEF Requeue, Return, Bookkeeping
    <2> QED
      BY <1>a, <2>1 DEF Bookkeeping
  <1>2. CASE Dispatch
    <2>1. First(work) \in Todo
      BY <1>2, FirstIsMember DEF Dispatch, Bookkeeping, AtTask
    <2>2. UNCHANGED <<cycles, unblocks>> /\ pc' \notin {"handoff", "reopen"}
      BY <1>2 DEF Dispatch, Goto, Return
    <2>3. ran' = ran \cup {First(work)}
      BY <1>2 DEF Dispatch
    <2> QED
      BY <2>1, <2>2, <2>3 DEF Bookkeeping
  <1>3. CASE ~Requeue /\ ~Dispatch
    <2>1. UNCHANGED <<cycles, unblocks, ran>>
      BY <1>3 DEF SchedulerNext, Iterate, World, SetTask, SetRun, KernelAlone, TimeOut, Begin,
         ConformityFails, Promote, CloseGoal, CloseRun, CloseGoalFails, Recover, Escalate,
         Delegate, Reopen, StopForHuman, Schedule, HeldUp, AllTried, Consult, TakeTurn,
         DispatchFails, PipelineEnds, PipelineFails, Outcome, FinalizeStalled, Heartbeat, Die,
         ReconcileRun, AbortGoal, book
    <2>2. pc' \in {"handoff", "reopen"} => pc \in {"handoff", "reopen"} \/ cycles < MaxCycles
      BY <1>3 DEF SchedulerNext, Iterate, World, SetTask, SetRun, KernelAlone, TimeOut, Begin,
         ConformityFails, Promote, CloseGoal, CloseRun, CloseGoalFails, Recover, Escalate,
         Delegate, Reopen, StopForHuman, Schedule, HeldUp, AllTried, Consult, TakeTurn,
         DispatchFails, PipelineEnds, PipelineFails, Outcome, FinalizeStalled, Heartbeat, Die,
         ReconcileRun, AbortGoal, Goto, Return, Stop, Advance
    <2> QED
      BY <2>1, <2>2 DEF Bookkeeping
  <1> QED
    BY <1>1, <1>2, <1>3

LEMMA InitBookkeeping == SchedulerInit => Bookkeeping
  <1> SUFFICES ASSUME SchedulerInit PROVE Bookkeeping
    OBVIOUS
  <1>1. sql \in [Todo -> DOMAIN Allowed]
    <2>1. \A t \in Todo : sql[t] \in {"BACKLOG", "READY", "PLANNING", "PR_READY", "DONE", "BLOCKED",
                                     "FAILED_SAFE", HumanReview, "CANCELLED"}
      BY SchedulerAssumption
      DEF SchedulerAssumption, SchedulerInit, TaskStatus, Executing, HumanReview
    <2> QED
      BY <2>1 DEF SchedulerInit, Allowed, HumanReview
  <1>2. alive = {} /\ issued = <<>>
    BY DEF SchedulerInit, Init
  <1> QED
    BY <1>1, <1>2, SchedulerAssumption
    DEF SchedulerAssumption, SchedulerInit, Bookkeeping, Step, RunStatus, AtTask

\* The scheduler runs on the kernel: its behaviours, with every stale reading,
\* kill and operator command, are behaviours of the kernel, whose theorems hold of
\* the goal it works on.
THEOREM SchedulerRunsOnKernel == SchedulerSpec => Spec /\ []Bookkeeping
  <1> DEFINE Inv == TypeOK /\ TurnInv /\ Bookkeeping
  <1>1. SchedulerInit => Init /\ Inv
    BY InitTypeOK, InitTurnInv, InitBookkeeping DEF SchedulerInit
  <1>2. Inv /\ [SchedulerNext]_schedulerVars => [Next]_vars
    BY SchedulerStepsAreKernelSteps DEF TurnInv
  <1>3. Inv /\ [SchedulerNext]_schedulerVars => Inv'
    <2> SUFFICES ASSUME Inv, [SchedulerNext]_schedulerVars PROVE Inv'
      OBVIOUS
    <2>1. TypeOK' /\ TurnInv'
      BY <1>2, NextTypeOK, NextTurnInv
    <2>2. CASE SchedulerNext
      <3>1. alive' = DOMAIN issued'
        BY <2>2, WorkersLive DEF Bookkeeping
      <3> QED
        BY <2>1, <2>2, <3>1, StepKeepsPlace, StepKeepsStatuses, StepKeepsCycles DEF Bookkeeping
    <2>3. CASE UNCHANGED schedulerVars
      BY <2>1, <2>3 DEF schedulerVars, vars, book, Bookkeeping
    <2> QED
      BY <2>2, <2>3
  <1> QED
    BY <1>1, <1>2, <1>3, PTL DEF SchedulerSpec, Spec

\* What the kernel promises, it promises under the scheduler: turns are minted, held
\* and entered as TurnLedger says, quotas are kept, and no turn is minted nor a goal
\* completed without licence, though the scheduler decides on statuses that it read
\* before (run_iteration).
THEOREM SchedulerKeepsPromises ==
    SchedulerSpec => /\ ImplementsTurnLedger /\ []ExactlyOnceWriteback /\ []QuotasHold
                     /\ TurnsAreLicensed /\ CompletionIsEarned
  BY SchedulerRunsOnKernel, KernelImplementsTurnLedger, TurnsAreExactlyOnce, QuotasAreKept,
     EveryTurnIsLicensed, EveryCompletionIsEarned, PTL

(***************************************************************************)
(* Agreement of the two stores.  The database may say of a passed task     *)
(* that it failed when an operator sets it so; what follows is for the     *)
(* operators who do not, and says that the scheduler never does.           *)
(***************************************************************************)
Agreement ==
    /\ PassedTodosAreSettled
    /\ \A t \in Todo : todo[t].status # "SKIPPED"
    /\ pc = "decide" => \A t \in Todo : sql[t] = "PR_READY" => seen[t] = "PR_READY"
    /\ pc = "executing" => sql[First(work)] \notin {"PR_READY", "DONE"}
    /\ pc = "outcome" => sql[First(work)] \in Terminal
    /\ pc \in {"decide", "promoted", "closing"} => \A t \in Todo : todo[t].status # Absent
    /\ pc = "closing" => released /\ \A t \in Todo : todo[t].status = "PASSED"

\* What has passed after the step had passed before it, and so on.
Settles(t) ==
    todo'[t].status \in {"PASSED", "SKIPPED", Absent} => todo'[t].status = todo[t].status

\* Recovery, the walk and a claim pass no todo.
LEMMA ReconciledSettles ==
    ASSUME TypeOK, NEW t \in Todo, NEW limit \in Nat
    PROVE  /\ Reconciled[t].status \in {"PASSED", "SKIPPED", Absent} =>
                 Reconciled[t].status = todo[t].status
           /\ Swept(Reconciled, limit)[t].status \in {"PASSED", "SKIPPED", Absent} =>
                 Swept(Reconciled, limit)[t].status = todo[t].status
  <1>1. Reconciled \in [Todo -> TodoRecord] /\ todo[t] \in TodoRecord
    BY ReconciledType DEF TypeOK
  <1>2. ASSUME NEW status \in {"BLOCKED", "PENDING"}
        PROVE  [Vacated(todo[t], status) EXCEPT !.deferred = FALSE].status \notin {"PASSED", "SKIPPED", Absent}
    BY <1>1 DEF Vacated, TodoRecord, Absent
  <1>3. Reconciled[t].status \in {"PASSED", "SKIPPED", Absent} => Reconciled[t] = todo[t]
    BY <1>2 DEF Reconciled
  <1>4. [Reconciled[t] EXCEPT !.status = "BLOCKED"].status \notin {"PASSED", "SKIPPED", Absent}
    BY <1>1 DEF TodoRecord, Absent
  <1> QED
    BY <1>3, <1>4 DEF Swept

LEMMA KernelSettles ==
    ASSUME TypeOK, NEW t \in Todo,
           \/ NextTurn \/ RecoverExpiredLeases \/ Tick \/ MarkReleaseCompleted
           \/ \E u \in Todo : \E h : RecordRepairHandoff(u, h) \/ ReopenAfterRepair(u, h)
           \/ \E u \in Todo : BackoffElapses(u)
           \/ \E k \in alive : RenewLease(k)
           \/ \E reason : Abort(reason) \/ Pause(reason)
           \/ Resume \/ UNCHANGED vars
    PROVE  Settles(t)
  <1>1. todo \in [Todo -> TodoRecord] /\ todo[t] \in TodoRecord
    BY DEF TypeOK
  <1>2. N + 1 \in Nat /\ \A u \in Todo : u \in Nat
    BY KernelAssumption DEF KernelAssumption, Todo
  <1>3. CASE NextTurnDeclines \/ RecoverExpiredLeases
    BY <1>2, <1>3, ReconciledSettles DEF NextTurnDeclines, RecoverExpiredLeases, Settles
  <1>4. CASE NextTurnAsks \/ NextTurnCloses
    <2>1. PICK limit \in Nat : todo' = Swept(Reconciled, limit)
      BY <1>2, <1>4 DEF NextTurnAsks, NextTurnCloses
    <2> QED
      BY <2>1, ReconciledSettles DEF Settles
  <1>5. CASE NextTurnClaims
    <2>1. PICK u \in Todo :
             todo' = [Swept(Reconciled, u) EXCEPT ![u] = Claimed(@, quota.started + 1)]
      BY <1>5 DEF NextTurnClaims
    <2>2. Swept(Reconciled, u) \in [Todo -> TodoRecord]
      BY <1>1, <1>2, ReconciledType, SweptType
    <2>3. ASSUME NEW record \in TodoRecord
          PROVE  Claimed(record, quota.started + 1).status = "CLAIMED"
      BY DEF Claimed, TodoRecord
    <2>4. t = u => todo'[t].status = "CLAIMED"
      BY <2>1, <2>2, <2>3
    <2>5. t # u => todo'[t] = Swept(Reconciled, u)[t]
      BY <2>1, <2>2
    <2> QED
      BY <1>2, <2>4, <2>5, ReconciledSettles DEF Settles, Absent
  <1>6. CASE Tick \/ \E u \in Todo : BackoffElapses(u)
    BY <1>1, <1>6 DEF Tick, BackoffElapses, Settles, TodoRecord
  <1>7. CASE \E u \in Todo : \E h : RecordRepairHandoff(u, h) \/ ReopenAfterRepair(u, h)
    BY <1>1, <1>7 DEF RecordRepairHandoff, ReopenAfterRepair, Settles, TodoRecord, Absent
  <1>8. CASE \E k \in alive : RenewLease(k)
    BY <1>1, <1>8 DEF RenewLease, Settles, TodoRecord
  <1>9. CASE \E reason : Abort(reason)
    <2>1. todo' = Interrupted
      BY <1>9 DEF Abort
    <2>2. Vacated(todo[t], "BLOCKED").status = "BLOCKED"
      BY <1>1 DEF Vacated, TodoRecord
    <2> QED
      BY <2>1, <2>2 DEF Interrupted, Settles, Absent
  <1>10. CASE MarkReleaseCompleted \/ Resume \/ (\E reason : Pause(reason)) \/ UNCHANGED vars
    BY <1>10 DEF MarkReleaseCompleted, Resume, Pause, SetGoalStatus, Settles, vars
  <1> QED
    BY <1>3, <1>4, <1>5, <1>6, <1>7, <1>8, <1>9, <1>10 DEF NextTurn

\* A projection passes the tasks that are read as finished, and no others.
LEMMA SyncSettles ==
    ASSUME TypeOK, Bookkeeping, Agreement, Sync(sql)
    PROVE  \A t \in Todo : /\ todo'[t].status = "PASSED" => sql[t] \in Terminal
                           /\ todo'[t].status \notin {"SKIPPED", Absent}
  <1> SUFFICES ASSUME NEW t \in Todo
               PROVE  /\ todo'[t].status = "PASSED" => sql[t] \in Terminal
                      /\ todo'[t].status \notin {"SKIPPED", Absent}
    OBVIOUS
  <1>1. todo[t] \in TodoRecord /\ todo'[t] = Projected(todo[t], sql[t])
    BY DEF TypeOK, Bookkeeping, Sync
  <1>2. /\ todo[t].status = "PASSED" => sql[t] \in Terminal
        /\ todo[t].status # "SKIPPED"
    BY DEF Agreement, PassedTodosAreSettled
  <1>3. CASE todo[t].status = Absent
    BY <1>1, <1>3 DEF Projected, NewTodo, Absent
  <1>4. CASE todo[t].status # Absent /\ sql[t] \in Finished
    BY <1>1, <1>4 DEF Projected, TodoRecord, Finished, Terminal, Stuck, Waiting, Absent
  <1>5. CASE todo[t].status # Absent /\ sql[t] \notin Finished
    BY <1>1, <1>2, <1>5 DEF Projected, TodoRecord, Stuck, Waiting, Absent
  <1> QED
    BY <1>3, <1>4, <1>5

\* A task that is settled stays settled.
LEMMA StepKeepsSettled ==
    ASSUME "FAILED_SAFE" \notin TaskSetting, Bookkeeping, Agreement, SchedulerNext,
           NEW t \in Todo, sql[t] \in Terminal
    PROVE  sql'[t] \in Terminal
  <1>0. sql \in [Todo -> DOMAIN Allowed] /\ sql[t] \in {"PR_READY", "DONE", "CANCELLED"}
    BY DEF Bookkeeping, Terminal
  <1>a. \A u, status : Move(u, status) => sql'[t] = sql[t] \/ (t = u /\ sql'[t] = status)
    BY <1>0 DEF Move
  <1>b. \A status : Legal(t, status) =>
           status \in Terminal \/ (sql[t] = "PR_READY" /\ status = "FAILED_SAFE")
    BY <1>0 DEF Legal, Allowed, Terminal
  <1>c. PipelineEnds => sql[First(work)] # "PR_READY"
    BY DEF PipelineEnds, Agreement
  <1>1. CASE TimeOut \/ ReconcileRun
    BY <1>0, <1>1 DEF TimeOut, ReconcileRun, Executing, Terminal
  <1>2. CASE Escalate \/ FinalizeStalled
    <2>1. PICK tasks \in {seen, sql} :
             /\ sql' = Escalated(tasks) \/ sql' = sql
             /\ tasks[t] = "PR_READY" \/ sql[t] # "PR_READY" \/ sql' = sql
      BY <1>2 DEF Escalate, FinalizeStalled, Agreement
    <2>2. tasks[t] \in RecoveryBlocking => tasks[t] \notin {sql[t]} \cup Allowed[sql[t]] \/ sql[t] = "PR_READY"
      BY <1>0 DEF Allowed, RecoveryBlocking
    <2>3. t \in With(RecoveryBlocking, tasks) => tasks[t] \in RecoveryBlocking
      BY DEF With
    <2> QED
      BY <1>0, <2>1, <2>2, <2>3 DEF Escalated, RecoveryBlocking, Terminal
  <1>3. CASE Requeue
    <2>1. ~Legal(t, "READY")
      BY <1>b DEF Terminal
    <2> QED
      BY <1>3, <2>1 DEF Requeue
  <1>4. CASE HeldUp
    <2>1. sql' = sql \/ (Legal(First(work), "BLOCKED") /\ Move(First(work), "BLOCKED"))
      BY <1>4 DEF HeldUp
    <2>2. ~Legal(t, "BLOCKED")
      BY <1>b DEF Terminal
    <2> QED
      BY <1>a, <2>1, <2>2
  <1>5. CASE Dispatch
    <2>1. /\ Legal(First(work), "PLANNING")
          /\ \E status : Move(First(work), status)
      BY <1>5 DEF Dispatch
    <2>2. ~Legal(t, "PLANNING")
      BY <1>b DEF Terminal
    <2> QED
      BY <1>a, <2>1, <2>2
  <1>6. CASE PipelineEnds
    <2>1. \/ Move(First(work), "PR_READY")
          \/ CanFail(First(work)) /\ Move(First(work), "FAILED_SAFE")
      BY <1>6 DEF PipelineEnds
    <2>2. t = First(work) => ~CanFail(t)
      BY <1>0, <1>6, <1>b, <1>c DEF CanFail, Terminal
    <2> QED
      BY <1>a, <2>1, <2>2 DEF Terminal
  <1>7. CASE World
    <2>1. CASE \E u \in Todo, status \in TaskSetting : SetTask(u, status)
      BY <1>a, <1>b, <2>1 DEF SetTask
    <2>2. CASE (\E status \in RunSetting : SetRun(status)) \/ KernelAlone
      BY <2>2 DEF SetRun, KernelAlone
    <2> QED
      BY <1>7, <2>1, <2>2 DEF World
  <1>8. CASE \/ Begin \/ ConformityFails \/ Promote \/ CloseGoal \/ CloseRun \/ CloseGoalFails
             \/ Recover \/ Delegate \/ Reopen \/ StopForHuman \/ Schedule \/ AllTried
             \/ Consult \/ TakeTurn \/ DispatchFails \/ PipelineFails \/ Outcome
             \/ Heartbeat \/ Die \/ AbortGoal
    BY <1>8 DEF Begin, ConformityFails, Promote, CloseGoal, CloseRun, CloseGoalFails,
                Recover, Delegate, Reopen, StopForHuman, Schedule, AllTried, Consult, TakeTurn,
                DispatchFails, PipelineFails, Outcome, Heartbeat, Die, AbortGoal
  <1> QED
    BY <1>1, <1>2, <1>3, <1>4, <1>5, <1>6, <1>7, <1>8 DEF SchedulerNext, Iterate

\* No step but the pipeline's makes a task ready for its pull request.
LEMMA OnlyThePipelineFinishes ==
    ASSUME Bookkeeping, SchedulerNext, ~PipelineEnds, NEW t \in Todo,
           sql'[t] \in {"PR_READY", "DONE"}
    PROVE  sql[t] = sql'[t] \/ (sql[t] = "PR_READY" /\ sql'[t] = "DONE" /\ World)
  <1>0. sql \in [Todo -> DOMAIN Allowed]
    BY DEF Bookkeeping
  <1>a. \A u, status : Move(u, status) => sql'[t] = sql[t] \/ (t = u /\ sql'[t] = status)
    BY <1>0 DEF Move
  <1>1. CASE TimeOut \/ ReconcileRun \/ Requeue
    BY <1>0, <1>1 DEF TimeOut, ReconcileRun, Requeue
  <1>2. CASE Escalate \/ FinalizeStalled
    BY <1>0, <1>2 DEF Escalate, FinalizeStalled, Escalated, HumanReview
  <1>3. CASE HeldUp \/ Dispatch
    BY <1>a, <1>3 DEF HeldUp, Dispatch
  <1>4. CASE World
    <2>1. CASE \E u \in Todo, status \in TaskSetting : SetTask(u, status)
      <3>1. PICK u \in Todo, status \in TaskSetting : SetTask(u, status)
        BY <2>1
      <3>2. status # "PR_READY"
        BY SchedulerAssumption DEF SchedulerAssumption
      <3>3. Legal(u, "DONE") => sql[u] \in {"PR_READY", "DONE"}
        BY <1>0, <3>1 DEF Legal, Allowed, HumanReview
      <3> QED
        BY <1>a, <1>4, <3>1, <3>2, <3>3 DEF SetTask
    <2>2. CASE (\E status \in RunSetting : SetRun(status)) \/ KernelAlone
      BY <2>2 DEF SetRun, KernelAlone
    <2> QED
      BY <1>4, <2>1, <2>2 DEF World
  <1>5. CASE \/ Begin \/ ConformityFails \/ Promote \/ CloseGoal \/ CloseRun \/ CloseGoalFails
             \/ Recover \/ Delegate \/ Reopen \/ StopForHuman \/ Schedule \/ AllTried
             \/ Consult \/ TakeTurn \/ DispatchFails \/ PipelineFails \/ Outcome
             \/ Heartbeat \/ Die \/ AbortGoal
    BY <1>5 DEF Begin, ConformityFails, Promote, CloseGoal, CloseRun, CloseGoalFails,
                Recover, Delegate, Reopen, StopForHuman, Schedule, AllTried, Consult, TakeTurn,
                DispatchFails, PipelineFails, Outcome, Heartbeat, Die, AbortGoal
  <1> QED
    BY <1>1, <1>2, <1>3, <1>4, <1>5 DEF SchedulerNext, Iterate

\* How an iteration comes to a place, or stays there while the world moves.
LEMMA PlaceComesFrom ==
    ASSUME SchedulerNext
    PROVE  /\ pc' = "decide" => Begin \/ (pc = "decide" /\ World)
           /\ pc' = "executing" => Dispatch \/ (pc = "executing" /\ (Heartbeat \/ World))
           /\ pc' = "outcome" => PipelineEnds \/ (pc = "outcome" /\ World)
           /\ pc' = "promoted" => (pc = "decide" /\ Promote) \/ (pc = "promoted" /\ World)
           /\ pc' = "closing" => CloseGoal \/ (pc = "closing" /\ World)
           /\ Heartbeat \/ World => UNCHANGED <<pc, seen, work>>
  <1>1. Heartbeat \/ World => UNCHANGED <<pc, seen, work>>
    BY DEF Heartbeat, World, SetTask, SetRun, KernelAlone
  <1>2. CASE \/ TimeOut \/ Begin \/ ConformityFails \/ Promote \/ CloseGoal \/ CloseRun
             \/ CloseGoalFails \/ Recover \/ Escalate \/ Delegate \/ Requeue \/ StopForHuman
    BY <1>1, <1>2 DEF TimeOut, Begin, ConformityFails, Promote, CloseGoal, CloseRun,
                CloseGoalFails, Recover, Escalate, Delegate, Requeue, StopForHuman, Goto, Stop, Return
  <1>3. CASE \/ Reopen \/ Schedule \/ HeldUp \/ AllTried \/ Consult \/ TakeTurn
             \/ DispatchFails \/ FinalizeStalled
    BY <1>1, <1>3 DEF Reopen, Schedule, HeldUp, AllTried, Consult, TakeTurn, DispatchFails,
                FinalizeStalled, Advance, Goto, Stop, Return
  <1>4. CASE Dispatch \/ PipelineEnds \/ PipelineFails \/ Outcome \/ Die \/ ReconcileRun \/ AbortGoal
    BY <1>1, <1>4 DEF Dispatch, PipelineEnds, PipelineFails, Outcome, Die, ReconcileRun, AbortGoal,
                Advance, Goto, Return
  <1>5. CASE Heartbeat \/ World
    BY <1>1, <1>5 DEF Heartbeat
  <1> QED
    BY <1>2, <1>3, <1>4, <1>5 DEF SchedulerNext, Iterate

\* What the scheduler writes back passes the todo of its task and no other, and
\* only while the task is settled.
LEMMA OutcomeSettles ==
    ASSUME TypeOK, ClaimsAreHeld, Bookkeeping, Agreement, Outcome, NEW t \in Todo
    PROVE  Settles(t) \/ (todo'[t].status = "PASSED" /\ sql[t] \in Terminal)
  <1>1. First(work) \in Todo
    BY FirstIsMember DEF Outcome, Bookkeeping, AtTask
  <1>2. PICK kind \in {"VALIDATED_PROGRESS", "VALIDATION_FAILED"} :
           /\ RecordOutcome(First(work), kind)
           /\ kind = "VALIDATED_PROGRESS" => sql[First(work)] \in Terminal
    BY DEF Outcome, Agreement
  <1>3. CASE UNCHANGED vars
    BY <1>3 DEF vars, Settles
  <1>4. CASE /\ todo[First(work)].status = "CLAIMED"
             /\ RecordResult(todo[First(work)].turn, kind, 0)
    <2>1. issued[todo[First(work)].turn] = First(work)
      BY <1>1, <1>4 DEF ClaimsAreHeld
    <2>2. todo' = [todo EXCEPT ![First(work)] = AfterResult(@, kind)]
      BY <1>4, <2>1 DEF RecordResult
    <2>3. todo \in [Todo -> TodoRecord]
      BY DEF TypeOK
    <2>4. \A record \in TodoRecord :
             AfterResult(record, kind).status = IF kind \in Validated THEN "PASSED" ELSE "BLOCKED"
      BY DEF AfterResult, Vacated, TodoRecord
    <2>5. t # First(work) => todo'[t] = todo[t]
      BY <2>2, <2>3
    <2>6. t = First(work) => todo'[t].status = IF kind \in Validated THEN "PASSED" ELSE "BLOCKED"
      BY <2>2, <2>3, <2>4
    <2> QED
      BY <1>2, <2>5, <2>6 DEF Settles, Validated, Absent
  <1> QED
    BY <1>2, <1>3, <1>4 DEF RecordOutcome

\* Nothing else the scheduler or the world does passes a todo.
LEMMA OthersSettle ==
    ASSUME TypeOK, Bookkeeping, SchedulerNext, ~Begin, ~Outcome, NEW t \in Todo
    PROVE  Settles(t)
  <1>1. CASE CloseGoal \/ Delegate \/ Reopen \/ Consult \/ TakeTurn \/ AbortGoal
    <2>1. work # {} => First(work) \in Todo
      BY FirstIsMember DEF Bookkeeping
    <2>2. Delegate \/ Reopen => work # {}
      BY DEF Delegate, Reopen, Bookkeeping, AtTask
    <2> QED
      BY <1>1, <2>1, <2>2, KernelSettles
      DEF CloseGoal, Delegate, Reopen, Consult, TakeTurn, AbortGoal
  <1>2. CASE Heartbeat
    <2>1. Len(issued) \in alive
      BY <1>2 DEF Heartbeat, TypeOK, Bookkeeping
    <2> QED
      BY <1>2, <2>1, KernelSettles DEF Heartbeat
  <1>3. CASE World
    BY <1>3, KernelSettles DEF World, SetTask, SetRun, KernelAlone
  <1>4. CASE UNCHANGED vars
    BY <1>4, KernelSettles
  <1>5. CASE ~(UNCHANGED vars)
    BY <1>1, <1>2, <1>3, <1>5
    DEF SchedulerNext, Iterate, TimeOut, ConformityFails, Promote, CloseRun, CloseGoalFails,
        Recover, Escalate, Requeue, StopForHuman, Schedule, HeldUp, AllTried, Dispatch,
        DispatchFails, PipelineEnds, PipelineFails, FinalizeStalled, Die, ReconcileRun
  <1> QED
    BY <1>4, <1>5

\* Meanwhile the world takes no passed todo back, and no release.
LEMMA WorldKeepsPassed ==
    ASSUME TypeOK, World, NEW t \in Todo, todo[t].status = "PASSED"
    PROVE  todo'[t].status = "PASSED" /\ released' = released
  <1>1. todo[t] \in TodoRecord /\ todo \in [Todo -> TodoRecord]
    BY DEF TypeOK
  <1>2. CASE UNCHANGED vars
    BY <1>2 DEF vars
  <1>3. CASE Tick \/ \E u \in Todo : BackoffElapses(u)
    BY <1>1, <1>3 DEF Tick, BackoffElapses, TodoRecord
  <1>4. CASE RecoverExpiredLeases
    BY <1>4 DEF RecoverExpiredLeases, Reconciled, LeaseOver
  <1>5. CASE Resume \/ \E reason \in PauseReason : Pause(reason)
    BY <1>5 DEF Resume, Pause, SetGoalStatus
  <1> QED
    BY <1>2, <1>3, <1>4, <1>5 DEF World, SetTask, SetRun, KernelAlone

LEMMA StepKeepsAgreement ==
    ASSUME "FAILED_SAFE" \notin TaskSetting, TypeOK, ClaimsAreHeld, Bookkeeping, Agreement,
           [SchedulerNext]_schedulerVars
    PROVE  Agreement'
  <1>1. CASE UNCHANGED schedulerVars
    BY <1>1 DEF schedulerVars, vars, book, Agreement, PassedTodosAreSettled
  <1>2. CASE SchedulerNext
    <2>a. sql \in [Todo -> DOMAIN Allowed]
      BY DEF Bookkeeping
    <2>b. pc \in AtTask => First(work) \in Todo
      BY FirstIsMember DEF Bookkeeping
    <2>c. \A t \in Todo : sql[t] \in Terminal => sql'[t] \in Terminal
      BY <1>2, StepKeepsSettled
    <2>d. ASSUME NEW t \in Todo
          PROVE  \/ Begin
                 \/ Settles(t)
                 \/ Outcome /\ todo'[t].status = "PASSED" /\ sql[t] \in Terminal
      BY <1>2, OutcomeSettles, OthersSettle
    <2>e. Begin => \A t \in Todo : /\ todo'[t].status = "PASSED" => sql[t] \in Terminal
                                   /\ todo'[t].status \notin {"SKIPPED", Absent}
      BY SyncSettles DEF Begin
    <2>1. PassedTodosAreSettled'
      BY <2>c, <2>d, <2>e DEF Agreement, PassedTodosAreSettled, Settles
    <2>2. \A t \in Todo : todo'[t].status # "SKIPPED"
      BY <2>d, <2>e DEF Agreement, Settles
    <2>3. ASSUME pc' = "decide", NEW t \in Todo, sql'[t] = "PR_READY"
          PROVE  seen'[t] = "PR_READY"
      <3>1. CASE Begin
        BY <2>3, <3>1 DEF Begin
      <3>2. CASE pc = "decide" /\ World
        <4>1. seen' = seen /\ ~PipelineEnds
          BY <1>2, <3>2, PlaceComesFrom DEF PipelineEnds
        <4>2. sql[t] = "PR_READY"
          BY <1>2, <2>3, <4>1, OnlyThePipelineFinishes
        <4> QED
          BY <3>2, <4>1, <4>2 DEF Agreement
      <3> QED
        BY <1>2, <2>3, <3>1, <3>2, PlaceComesFrom
    <2>4. ASSUME pc' = "executing"
          PROVE  sql'[First(work')] \notin {"PR_READY", "DONE"}
      <3>1. CASE Dispatch
        <4>1. /\ work' = work /\ First(work) \in Todo
              /\ sql' = [sql EXCEPT ![First(work)] = "PLANNING"]
          BY <2>4, <2>b, <3>1 DEF Dispatch, Goto, Return, Move, AtTask
        <4> QED
          BY <2>a, <4>1
      <3>2. CASE pc = "executing" /\ (Heartbeat \/ World)
        <4>1. work' = work /\ First(work) \in Todo
          BY <1>2, <2>b, <3>2, PlaceComesFrom DEF AtTask
        <4>2. ~PipelineEnds
          BY <2>4, PlaceComesFrom, <3>2 DEF PipelineEnds, Goto
        <4>3. sql[First(work)] \notin {"PR_READY", "DONE"}
          BY <3>2 DEF Agreement
        <4> QED
          BY <1>2, <4>1, <4>2, <4>3, OnlyThePipelineFinishes
      <3> QED
        BY <1>2, <2>4, <3>1, <3>2, PlaceComesFrom
    <2>5. ASSUME pc' = "outcome"
          PROVE  sql'[First(work')] \in Terminal
      <3>1. CASE PipelineEnds
        <4>1. /\ work' = work /\ First(work) \in Todo
              /\ sql' = [sql EXCEPT ![First(work)] = "PR_READY"]
          BY <2>5, <2>b, <3>1 DEF PipelineEnds, Goto, Move, AtTask
        <4> QED
          BY <2>a, <4>1 DEF Terminal
      <3>2. CASE pc = "outcome" /\ World
        <4>1. work' = work /\ First(work) \in Todo
          BY <1>2, <2>b, <3>2, PlaceComesFrom DEF AtTask
        <4> QED
          BY <2>c, <3>2, <4>1 DEF Agreement
      <3> QED
        BY <1>2, <2>5, <3>1, <3>2, PlaceComesFrom
    <2>6. ASSUME pc' \in {"decide", "promoted", "closing"}, NEW t \in Todo
          PROVE  todo'[t].status # Absent
      <3>1. CASE Begin
        BY <2>e, <3>1
      <3>2. CASE ~Begin
        <4>1. pc \in {"decide", "promoted", "closing"}
          BY <1>2, <2>6, <3>2, PlaceComesFrom DEF CloseGoal
        <4> QED
          BY <2>d, <3>2, <4>1 DEF Agreement, Settles, Absent
      <3> QED
        BY <3>1, <3>2
    <2>7. ASSUME pc' = "closing"
          PROVE  released' /\ \A t \in Todo : todo'[t].status = "PASSED"
      <3>1. CASE CloseGoal
        <4>1. AllDone(todo) /\ todo' = todo /\ released' = TRUE /\ pc = "promoted"
          BY <3>1 DEF CloseGoal, MarkReleaseCompleted
        <4>2. \A t \in Todo : todo[t].status # Absent /\ todo[t].status # "SKIPPED"
          BY <4>1 DEF Agreement
        <4> QED
          BY <4>1, <4>2 DEF AllDone, Done
      <3>2. CASE pc = "closing" /\ World
        <4>1. released /\ \A t \in Todo : todo[t].status = "PASSED"
          BY <3>2 DEF Agreement
        <4>2. released' = released
          BY <3>2 DEF World, SetTask, SetRun, KernelAlone, Tick, RecoverExpiredLeases,
                      BackoffElapses, Pause, Resume, SetGoalStatus, vars
        <4> QED
          BY <3>2, <4>1, <4>2, WorldKeepsPassed
      <3> QED
        BY <1>2, <2>7, <3>1, <3>2, PlaceComesFrom
    <2> QED
      BY <2>1, <2>2, <2>3, <2>4, <2>5, <2>6, <2>7 DEF Agreement
  <1> QED
    BY <1>1, <1>2

LEMMA InitAgreement == SchedulerInit => Agreement
  <1> SUFFICES ASSUME SchedulerInit PROVE Agreement
    OBVIOUS
  <1>1. PICK status \in [1..Initial -> StatusAtStart] :
           todo = [t \in Todo |-> NewTodo(IF t <= Initial THEN status[t] ELSE Absent)]
    BY DEF SchedulerInit, Init
  <1>2. ASSUME NEW t \in Todo
        PROVE  todo[t].status \in {"PENDING", Absent}
    <2>1. CASE t <= Initial
      <3>1. t \in 1..Initial
        BY <2>1, KernelAssumption DEF KernelAssumption, Todo
      <3> QED
        BY <3>1 DEF SchedulerInit
    <2>2. CASE ~(t <= Initial)
      BY <1>1, <2>2 DEF NewTodo
    <2> QED
      BY <2>1, <2>2
  <1>3. pc = "idle"
    BY DEF SchedulerInit
  <1> QED
    BY <1>2, <1>3 DEF Agreement, PassedTodosAreSettled, Absent

LEMMA StoresKeepAgreement ==
    ASSUME "FAILED_SAFE" \notin TaskSetting
    PROVE  SchedulerSpec => [](TypeOK /\ ClaimsAreHeld /\ Bookkeeping /\ Agreement)
  <1>1. SchedulerSpec => [](TypeOK /\ ClaimsAreHeld /\ Bookkeeping)
    BY SchedulerRunsOnKernel, TypeCorrect, TurnsAreExactlyOnce, PTL
  <1>2. TypeOK /\ ClaimsAreHeld /\ Bookkeeping /\ Agreement /\ [SchedulerNext]_schedulerVars
           => Agreement'
    BY StepKeepsAgreement
  <1> QED
    BY <1>1, <1>2, InitAgreement, PTL DEF SchedulerSpec

\* Database and kernel stay in agreement over what has passed, though no
\* transaction spans them: through every kill, stale reading, repair and late
\* outcome, as long as no operator sets a task to FAILED_SAFE.
THEOREM StoresStayAgreed ==
    ASSUME "FAILED_SAFE" \notin TaskSetting
    PROVE  SchedulerSpec => []StoresAgree
  <1>1. ASSUME TypeOK, Bookkeeping, Agreement, ExecutionInv, AttemptQuotaHolds
        PROVE  StoresAgree
    <2>1. ASSUME NEW t \in Todo PROVE starts[t] \in 0..MaxAttempts
      <3>1. starts[t] \in Nat /\ starts[t] <= Cardinality(TurnsOf(t, issued))
        BY <1>1 DEF ExecutionInv, Covered
      <3>2. Cardinality(TurnsOf(t, issued)) <= MaxAttempts
        BY <1>1 DEF AttemptQuotaHolds, TurnsOf
      <3>3. Cardinality(TurnsOf(t, issued)) \in Nat
        BY <1>1, OneTurnMore DEF TypeOK
      <3> QED
        BY <3>1, <3>2, <3>3, KernelAssumption DEF KernelAssumption
    <2>2. starts \in [Todo -> 0..MaxAttempts]
      BY <1>1, <2>1 DEF ExecutionInv
    <2>3. unblocks \in [Todo -> 0..MaxCycles]
      BY <1>1, SchedulerAssumption DEF SchedulerAssumption, Bookkeeping
    <2> QED
      BY <1>1, <2>2, <2>3 DEF StoresAgree, SchedulerTypeOK, Bookkeeping, Agreement
  <1> QED
    BY <1>1, StoresKeepAgreement, ExecutionsStayCovered, SchedulerRunsOnKernel,
       AttemptsStayBelowQuota, PTL

\* A run is completed in both stores or in neither: the kernel has accepted the
\* release, every task is settled and every todo passed (run_iteration and
\* mark_release_completed), as long as no operator sets a task to FAILED_SAFE.
THEOREM CompletionsAreJoint ==
    ASSUME "FAILED_SAFE" \notin TaskSetting
    PROVE  SchedulerSpec => CompletionIsJoint
  <1> DEFINE Joint == /\ released
                      /\ \A t \in Todo : sql[t] \in Terminal /\ todo[t].status = "PASSED"
  <1>1. ASSUME Bookkeeping, Agreement, [SchedulerNext]_schedulerVars,
               run # "COMPLETED", run' = "COMPLETED"
        PROVE  Joint
    <2>1. pc = "closing"
      BY <1>1, SchedulerAssumption
      DEF SchedulerAssumption, SchedulerNext, Iterate, World, SetTask, SetRun, KernelAlone,
          TimeOut, Begin, ConformityFails, Promote, CloseGoal, CloseRun, CloseGoalFails,
          Recover, Escalate, Delegate, Reopen, Requeue, StopForHuman, Schedule, HeldUp,
          AllTried, Consult, TakeTurn, Dispatch, DispatchFails, PipelineEnds, PipelineFails,
          Outcome, FinalizeStalled, Heartbeat, Die, ReconcileRun, AbortGoal, Stop,
          HumanReview, schedulerVars
    <2> QED
      BY <1>1, <2>1 DEF Agreement, PassedTodosAreSettled
  <1> QED
    BY <1>1, StoresKeepAgreement, PTL DEF SchedulerSpec, CompletionIsJoint
=============================================================================
