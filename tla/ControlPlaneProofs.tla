------------------------- MODULE ControlPlaneProofs -------------------------
(***************************************************************************)
(* Proofs about the kernel, for every number of todos, every dependency    *)
(* graph, every set of gates and every quota.                              *)
(***************************************************************************)
EXTENDS ControlPlane, TLAPS, FiniteSetTheorems, NaturalsInduction, WellFoundedInduction

(***************************************************************************)
(* Lemmas: the operators that rewrite the todo list return a todo list.    *)
(***************************************************************************)

\* A vacated todo is a todo, also when its retry is put off.
LEMMA VacatedType ==
    ASSUME NEW record \in TodoRecord, NEW status \in TodoStatus, NEW later \in BOOLEAN
    PROVE  /\ Vacated(record, status) \in TodoRecord
           /\ [Vacated(record, status) EXCEPT !.deferred = later] \in TodoRecord
  <1>1. NoLease \in NoLease..Term
    BY KernelAssumption DEF KernelAssumption, NoLease
  <1>2. Vacated(record, status) \in TodoRecord
    BY <1>1 DEF Vacated, TodoRecord
  <1>3. ASSUME NEW r \in TodoRecord
        PROVE  [r EXCEPT !.deferred = later] \in TodoRecord
    BY DEF TodoRecord
  <1> QED
    BY <1>2, <1>3

\* So is a claimed one.
LEMMA ClaimedType ==
    ASSUME NEW record \in TodoRecord, NEW k \in Nat
    PROVE  Claimed(record, k) \in TodoRecord
  <1>1. Term \in NoLease..Term
    BY KernelAssumption DEF KernelAssumption, NoLease
  <1>2. "CLAIMED" \in TodoStatus
    BY DEF TodoStatus
  <1>3. record.attempts + 1 \in Nat
    BY DEF TodoRecord
  <1> QED
    BY <1>1, <1>2, <1>3 DEF Claimed, TodoRecord

\* Recovery of expired turns (_reconcile_expired) returns a todo list.
LEMMA ReconciledType ==
    ASSUME todo \in [Todo -> TodoRecord]
    PROVE  Reconciled \in [Todo -> TodoRecord]
  <1>1. {"BLOCKED", "PENDING"} \subseteq TodoStatus
    BY DEF TodoStatus
  <1>2. ASSUME NEW t \in Todo
        PROVE  Reconciled[t] \in TodoRecord
    <2>1. todo[t] \in TodoRecord
      OBVIOUS
    <2> QED
      BY <1>1, <2>1, VacatedType DEF Reconciled
  <1> QED
    BY <1>2 DEF Reconciled

\* So does the walk that blocks exhausted todos (next_turn).
LEMMA SweptType ==
    ASSUME NEW todos \in [Todo -> TodoRecord], NEW limit \in Nat
    PROVE  Swept(todos, limit) \in [Todo -> TodoRecord]
  <1>1. ASSUME NEW record \in TodoRecord
        PROVE  [record EXCEPT !.status = "BLOCKED"] \in TodoRecord
    BY DEF TodoRecord, TodoStatus
  <1> QED
    BY <1>1 DEF Swept

\* And the projection of a task on a todo (sync_tasks).
LEMMA ProjectedType ==
    ASSUME NEW record \in TodoRecord, NEW sql
    PROVE  Projected(record, sql) \in TodoRecord
  <1>1. NewTodo("PENDING") \in TodoRecord
    BY KernelAssumption DEF KernelAssumption, NewTodo, TodoRecord, TodoStatus, NoLease
  <1>2. [record EXCEPT !.status = "PASSED", !.token = 0] \in TodoRecord
    BY DEF TodoRecord, TodoStatus
  <1>3. /\ [record EXCEPT !.status = "BLOCKED"] \in TodoRecord
        /\ [record EXCEPT !.status = "PENDING"] \in TodoRecord
    BY DEF TodoRecord, TodoStatus
  <1> QED
    BY <1>1, <1>2, <1>3 DEF Projected

(***************************************************************************)
(* Type correctness.                                                       *)
(***************************************************************************)

\* The state starts with the right types.
LEMMA InitTypeOK == Init => TypeOK
  <1> SUFFICES ASSUME Init PROVE TypeOK
    OBVIOUS
  <1>1. ASSUME NEW status \in TodoStatus \cup {Absent}
        PROVE  NewTodo(status) \in TodoRecord
    <2>1. NoLease \in NoLease..Term
      BY KernelAssumption DEF KernelAssumption, NoLease
    <2> QED
      BY <2>1 DEF NewTodo, TodoRecord
  <1>2. todo \in [Todo -> TodoRecord]
    <2>1. PICK status \in [1..Initial -> StatusAtStart] :
             todo = [t \in Todo |-> NewTodo(IF t <= Initial THEN status[t] ELSE Absent)]
      BY DEF Init
    <2>2. ASSUME NEW t \in Todo
          PROVE  (IF t <= Initial THEN status[t] ELSE Absent) \in TodoStatus \cup {Absent}
      BY KernelAssumption DEF KernelAssumption, Todo, StatusAtStart, TodoStatus
    <2> QED
      BY <1>1, <2>1, <2>2
  <1>3. /\ receipts \in Seq([todo : Todo, turn : Nat, kind : TurnResultKind, cost : Nat])
        /\ issued \in Seq(Todo) /\ Len(issued) = 0
    BY DEF Init
  <1>4. /\ quota \in [started : Nat, committed : Nat, cost : Nat]
        /\ quota.started = 0
    BY DEF Init
  <1>5. /\ goalStatus \in GoalStatus
        /\ needsRelease \in BOOLEAN /\ released \in BOOLEAN /\ wallOver \in BOOLEAN
    BY KernelAssumption DEF KernelAssumption, Init, GoalStatus
  <1> QED
    BY <1>2, <1>3, <1>4, <1>5 DEF Init, TypeOK

\* Every operation keeps them.
LEMMA NextTypeOK == TypeOK /\ [Next]_vars => TypeOK'
  <1> SUFFICES ASSUME TypeOK, [Next]_vars PROVE TypeOK'
    OBVIOUS
  <1>a. /\ goalStatus \in GoalStatus /\ applied \subseteq OperationId
        /\ issued \in Seq(Todo) /\ Len(issued) \in Nat
        /\ alive \subseteq DOMAIN issued /\ DOMAIN issued = 1..Len(issued)
        /\ quota.started = Len(issued)
        /\ needsRelease \in BOOLEAN /\ released \in BOOLEAN /\ wallOver \in BOOLEAN
        /\ gate \in [Gate -> GateStatus \cup {Absent}]
        /\ handoffs \subseteq Handoff
    BY DEF TypeOK
  <1>b. todo \in [Todo -> TodoRecord] /\ \A t \in Todo : todo[t] \in TodoRecord
    BY DEF TypeOK
  <1>c. /\ quota \in [started : Nat, committed : Nat, cost : Nat]
        /\ quota.started \in Nat /\ quota.committed \in Nat /\ quota.cost \in Nat
    BY DEF TypeOK
  <1>d. receipts \in Seq([todo : Todo, turn : Nat, kind : TurnResultKind, cost : Nat])
    BY DEF TypeOK
  <1>e. /\ Reconciled \in [Todo -> TodoRecord]
        /\ \A t \in Todo : Swept(Reconciled, t) \in [Todo -> TodoRecord]
        /\ Swept(Reconciled, N + 1) \in [Todo -> TodoRecord]
    <2>1. Reconciled \in [Todo -> TodoRecord]
      BY <1>b, ReconciledType
    <2>2. N + 1 \in Nat /\ \A t \in Todo : t \in Nat
      BY KernelAssumption DEF KernelAssumption, Todo
    <2> QED
      BY <2>1, <2>2, SweptType
  <1>1. ASSUME SyncTasks PROVE TypeOK'
    <2>1. PICK last \in Todo : \E sql \in [1..last -> SqlStatus] : Sync(sql)
      BY <1>1 DEF SyncTasks
    <2>2. PICK sql \in [1..last -> SqlStatus] : Sync(sql)
      BY <2>1
    <2>3. todo' \in [Todo -> TodoRecord]
      BY <1>b, <2>2, ProjectedType DEF Sync
    <2> QED
      BY <1>a, <1>c, <1>d, <2>2, <2>3 DEF Sync, TypeOK
  <1>2. ASSUME NextTurnDeclines \/ RecoverExpiredLeases PROVE TypeOK'
    BY <1>2, <1>a, <1>c, <1>d, <1>e DEF NextTurnDeclines, RecoverExpiredLeases, TypeOK
  <1>3. ASSUME NextTurnAsks PROVE TypeOK'
    BY <1>3, <1>a, <1>c, <1>d, <1>e DEF NextTurnAsks, TypeOK
  <1>4. ASSUME NextTurnClaims PROVE TypeOK'
    <2> DEFINE k == quota.started + 1
    <2>1. PICK t \in Todo :
             /\ todo' = [Swept(Reconciled, t) EXCEPT ![t] = Claimed(@, k)]
             /\ issued' = Append(issued, t)
      BY <1>4 DEF NextTurnClaims
    <2>2. k \in Nat
      BY <1>c
    <2>3. ASSUME NEW record \in TodoRecord
          PROVE  Claimed(record, k) \in TodoRecord
      BY <2>2, ClaimedType
    <2>4. todo' \in [Todo -> TodoRecord]
      BY <1>e, <2>1, <2>3
    <2>5. /\ quota' \in [started : Nat, committed : Nat, cost : Nat]
          /\ quota'.started = k
      BY <1>4, <1>c DEF NextTurnClaims
    <2>6. /\ issued' \in Seq(Todo) /\ Len(issued') = k
          /\ alive' \subseteq DOMAIN issued'
      BY <1>4, <1>a, <1>c, <2>1 DEF NextTurnClaims
    <2> QED
      BY <1>4, <1>a, <1>d, <2>4, <2>5, <2>6 DEF NextTurnClaims, TypeOK
  <1>5. ASSUME NextTurnCloses PROVE TypeOK'
    <2>1. todo' \in [Todo -> TodoRecord]
      BY <1>5, <1>e DEF NextTurnCloses
    <2>2. goalStatus' \in GoalStatus
      BY <1>5, <1>a DEF NextTurnCloses, GoalStatusAfter, GoalStatus
    <2> QED
      BY <1>5, <1>a, <1>c, <1>d, <2>1, <2>2 DEF NextTurnCloses, TypeOK
  <1>6. ASSUME NEW k \in alive, NEW kind \in Kind, NEW cost \in Cost,
               RecordResult(k, kind, cost)
        PROVE  TypeOK'
    <2> DEFINE t == issued[k]
    <2>1. k \in Nat /\ kind \in TurnResultKind /\ cost \in Nat
      BY <1>a, KernelAssumption DEF KernelAssumption
    <2>2. t \in Todo
      BY <1>a
    <2>3. ASSUME NEW record \in TodoRecord
          PROVE  AfterResult(record, kind) \in TodoRecord
      <3>1. {"PASSED", "BLOCKED"} \subseteq TodoStatus
        BY DEF TodoStatus
      <3>2. (kind \notin Validated /\ record.attempts > 1) \in BOOLEAN
        OBVIOUS
      <3> QED
        BY <3>1, <3>2, VacatedType DEF AfterResult
    <2>4. todo' \in [Todo -> TodoRecord]
      BY <1>6, <1>b, <2>3 DEF RecordResult
    <2>5. goalStatus' \in GoalStatus
      BY <1>6, <1>a DEF RecordResult, GoalStatusAfter, GoalStatus
    <2>6. /\ quota' \in [started : Nat, committed : Nat, cost : Nat]
          /\ quota'.started = quota.started
      <3>1. quota' = [quota EXCEPT !.committed = @ + 1, !.cost = @ + cost]
        BY <1>6 DEF RecordResult
      <3>2. quota.committed + 1 \in Nat /\ quota.cost + cost \in Nat
        BY <1>c, <2>1
      <3> QED
        BY <1>c, <3>1, <3>2
    <2>7. applied' \subseteq OperationId
      BY <1>6, <1>a, <2>1 DEF RecordResult, Record, OperationId
    <2>8. receipts' \in Seq([todo : Todo, turn : Nat, kind : TurnResultKind, cost : Nat])
      BY <1>6, <1>d, <2>1, <2>2 DEF RecordResult
    <2> QED
      <3>1. UNCHANGED <<needsRelease, released, gate, handoffs, wallOver, issued, alive>>
        BY <1>6 DEF RecordResult
      <3> QED
        BY <3>1, <1>a, <2>4, <2>5, <2>6, <2>7, <2>8 DEF TypeOK
  <1>7. ASSUME NEW k \in alive, RenewLease(k) \/ WorkerDies(k)
        PROVE  TypeOK'
    <2>1. CASE RenewLease(k)
      <3>1. ASSUME NEW record \in TodoRecord
            PROVE  [record EXCEPT !.lease = Term] \in TodoRecord
        <4>1. Term \in NoLease..Term
          BY KernelAssumption DEF KernelAssumption, NoLease
        <4> QED
          BY <4>1 DEF TodoRecord
      <3>2. todo' \in [Todo -> TodoRecord]
        BY <2>1, <1>b, <3>1 DEF RenewLease
      <3> QED
        BY <2>1, <1>a, <1>c, <1>d, <3>2 DEF RenewLease, TypeOK
    <2>2. CASE WorkerDies(k)
      BY <2>2, <1>a, <1>b, <1>c, <1>d DEF WorkerDies, TypeOK
    <2> QED
      BY <1>7, <2>1, <2>2
  <1>8. ASSUME RequireReleasePromotion \/ MarkReleaseCompleted \/ WallClockRunsOut
        PROVE  TypeOK'
    <2>1. goalStatus' \in GoalStatus
      BY <1>8, <1>a DEF RequireReleasePromotion, MarkReleaseCompleted, WallClockRunsOut,
                        GoalStatus
    <2>2. applied' \subseteq OperationId
      BY <1>8, <1>a DEF RequireReleasePromotion, MarkReleaseCompleted, WallClockRunsOut,
                        Record, OperationId
    <2> QED
      BY <1>8, <1>a, <1>b, <1>c, <1>d, <2>1, <2>2
      DEF RequireReleasePromotion, MarkReleaseCompleted, WallClockRunsOut, TypeOK
  <1>9. ASSUME Repair PROVE TypeOK'
    <2>1. PICK t \in Todo, h \in Handoff : RecordRepairHandoff(t, h) \/ ReopenAfterRepair(t, h)
      BY <1>9 DEF Repair
    <2>2. applied' \subseteq OperationId
      BY <2>1, <1>a DEF RecordRepairHandoff, ReopenAfterRepair, Record, OperationId
    <2>3. CASE RecordRepairHandoff(t, h)
      BY <2>2, <2>3, <1>a, <1>b, <1>c, <1>d DEF RecordRepairHandoff, TypeOK
    <2>4. CASE ReopenAfterRepair(t, h)
      <3>1. ASSUME NEW record \in TodoRecord
            PROVE  [record EXCEPT !.status = "PENDING"] \in TodoRecord
        BY DEF TodoRecord, TodoStatus
      <3>2. todo' \in [Todo -> TodoRecord]
        BY <2>4, <1>b, <3>1 DEF ReopenAfterRepair
      <3>3. goalStatus' \in GoalStatus
        BY <2>4 DEF ReopenAfterRepair, GoalStatus
      <3> QED
        BY <2>2, <2>4, <1>a, <1>c, <1>d, <3>2, <3>3 DEF ReopenAfterRepair, TypeOK
    <2> QED
      BY <2>1, <2>3, <2>4
  <1>10. ASSUME NEW g \in Gate, NEW status \in GateSetting, SetGate(g, status)
         PROVE  TypeOK'
    <2>1. status \in GateStatus
      BY KernelAssumption DEF KernelAssumption
    <2>2. applied' \subseteq OperationId
      BY <1>10, <1>a, <2>1 DEF SetGate, Record, OperationId
    <2>3. gate' \in [Gate -> GateStatus \cup {Absent}]
      BY <1>10, <1>a, <2>1 DEF SetGate
    <2> QED
      BY <1>10, <1>a, <1>b, <1>c, <1>d, <2>2, <2>3 DEF SetGate, TypeOK
  <1>11. ASSUME NEW g \in Gate, NEW answer \in Answer, AnswerGate(g, answer)
         PROVE  TypeOK'
    <2>1. applied' \subseteq OperationId
      BY <1>11, <1>a DEF AnswerGate, Record, OperationId
    <2>2. gate' \in [Gate -> GateStatus \cup {Absent}]
      BY <1>11, <1>a DEF AnswerGate, GateStatus
    <2> QED
      BY <1>11, <1>a, <1>b, <1>c, <1>d, <2>1, <2>2 DEF AnswerGate, TypeOK
  <1>12. ASSUME Resume \/ \E reason \in PauseReason : Pause(reason) PROVE TypeOK'
    <2>1. PICK status \in {"ACTIVE", "PAUSED"}, reason \in PauseReason \cup {"operator_resume"} :
             /\ SetGoalStatus(status, reason)
             /\ <<"goal", status, reason>> \in OperationId
      <3>1. CASE Resume
        BY <3>1 DEF Resume, OperationId
      <3>2. ASSUME NEW reason \in PauseReason, Pause(reason)
            PROVE  SetGoalStatus("PAUSED", reason) /\ <<"goal", "PAUSED", reason>> \in OperationId
        BY <3>2 DEF Pause, OperationId
      <3> QED
        BY <1>12, <3>1, <3>2
    <2>2. applied' \subseteq OperationId
      BY <1>a, <2>1 DEF SetGoalStatus, Record
    <2>3. goalStatus' \in GoalStatus
      BY <2>1 DEF SetGoalStatus, GoalStatus
    <2> QED
      BY <1>a, <1>b, <1>c, <1>d, <2>1, <2>2, <2>3 DEF SetGoalStatus, TypeOK
  <1>13. ASSUME NEW reason \in AbortReason, Abort(reason) PROVE TypeOK'
    <2>1. applied' \subseteq OperationId /\ goalStatus' \in GoalStatus
      BY <1>13, <1>a DEF Abort, Record, OperationId, GoalStatus
    <2>2. "BLOCKED" \in TodoStatus
      BY DEF TodoStatus
    <2>3. todo' \in [Todo -> TodoRecord]
      BY <1>13, <1>b, <2>2, VacatedType DEF Abort, Interrupted
    <2> QED
      BY <1>13, <1>a, <1>c, <1>d, <2>1, <2>3 DEF Abort, TypeOK
  <1>14. ASSUME Tick \/ \E t \in Todo : BackoffElapses(t) PROVE TypeOK'
    <2>1. ASSUME NEW record \in TodoRecord
          PROVE  /\ record.lease > 0 => [record EXCEPT !.lease = @ - 1] \in TodoRecord
                 /\ [record EXCEPT !.deferred = FALSE] \in TodoRecord
      <3>1. record.lease > 0 => record.lease - 1 \in NoLease..Term
        BY KernelAssumption DEF KernelAssumption, TodoRecord, NoLease
      <3> QED
        BY <3>1 DEF TodoRecord
    <2>2. todo' \in [Todo -> TodoRecord]
      BY <1>14, <1>b, <2>1 DEF Tick, BackoffElapses
    <2> QED
      BY <1>14, <1>a, <1>c, <1>d, <2>2 DEF Tick, BackoffElapses, TypeOK
  <1>15. CASE UNCHANGED vars
    BY <1>15, <1>a, <1>b, <1>c, <1>d DEF vars, TypeOK
  <1> QED
    BY <1>1, <1>2, <1>3, <1>4, <1>5, <1>6, <1>7, <1>8, <1>9, <1>10, <1>11, <1>12,
       <1>13, <1>14, <1>15
    DEF Next, NextTurn, Worker, Operator

\* Every reachable state of the kernel is well typed: the kernel never writes a
\* status, a turn or an operation id its contracts do not know, no turn is ever
\* worked on that was not minted, and turns_started counts the minted turns.
THEOREM TypeCorrect == Spec => []TypeOK
  BY InitTypeOK, NextTypeOK, PTL DEF Spec

(***************************************************************************)
(* Turns.  All operations but two leave the claims they do not end as they *)
(* are: they may take a turn away, and neither mint nor commit one.        *)
(***************************************************************************)
QuietNext ==
    \/ SyncTasks \/ NextTurnDeclines \/ NextTurnAsks \/ NextTurnCloses
    \/ \E k \in alive : RenewLease(k) \/ WorkerDies(k)
    \/ RecoverExpiredLeases \/ RequireReleasePromotion \/ MarkReleaseCompleted
    \/ Repair \/ Operator \/ Tick \/ WallClockRunsOut
    \/ \E t \in Todo : BackoffElapses(t)

\* The claim on t that is there after the step was there before it.
ClaimKept(t) ==
    todo'[t].status = "CLAIMED" =>
        /\ todo[t].status = "CLAIMED"
        /\ todo'[t].turn = todo[t].turn
        /\ todo'[t].token = todo[t].token
        /\ todo[t].lease # NoLease => todo'[t].lease # NoLease

\* Recovery and the walk keep the claims they do not end.
LEMMA ReconciledKeepsClaims ==
    ASSUME TypeOK, NEW t \in Todo, NEW limit \in Nat
    PROVE  /\ Reconciled[t].status = "CLAIMED" => Reconciled[t] = todo[t]
           /\ Swept(Reconciled, limit)[t].status = "CLAIMED" =>
                 Swept(Reconciled, limit)[t] = todo[t]
  <1>1. Reconciled \in [Todo -> TodoRecord] /\ todo[t] \in TodoRecord
    BY ReconciledType DEF TypeOK
  <1>2. Reconciled[t].status = "CLAIMED" => Reconciled[t] = todo[t]
    <2>1. ASSUME NEW status \in {"BLOCKED", "PENDING"}
          PROVE  [Vacated(todo[t], status) EXCEPT !.deferred = FALSE].status # "CLAIMED"
      BY <1>1 DEF Vacated, TodoRecord
    <2> QED
      BY <2>1 DEF Reconciled
  <1>3. [Reconciled[t] EXCEPT !.status = "BLOCKED"].status # "CLAIMED"
    BY <1>1 DEF TodoRecord
  <1> QED
    BY <1>2, <1>3 DEF Swept

\* Neither minting nor committing, an operation keeps the claims it leaves.
LEMMA QuietKeepsClaims ==
    ASSUME TypeOK, QuietNext
    PROVE  /\ \A t \in Todo : ClaimKept(t)
           /\ UNCHANGED <<issued, receipts>>
           /\ quota'.started = quota.started
  <1>1. UNCHANGED <<issued, receipts, quota>>
    BY DEF QuietNext, SyncTasks, Sync, NextTurnDeclines, NextTurnAsks, NextTurnCloses,
       RenewLease, WorkerDies, RecoverExpiredLeases, RequireReleasePromotion,
       MarkReleaseCompleted, Repair, RecordRepairHandoff, ReopenAfterRepair,
       Operator, SetGate, AnswerGate, Pause, Resume, SetGoalStatus, Abort, Tick,
       WallClockRunsOut, BackoffElapses
  <1>2. ASSUME NEW t \in Todo PROVE ClaimKept(t)
    <2>1. todo \in [Todo -> TodoRecord] /\ todo[t] \in TodoRecord
      BY DEF TypeOK
    <2>2. N + 1 \in Nat /\ \A u \in Todo : u \in Nat
      BY KernelAssumption DEF KernelAssumption, Todo
    <2>3. CASE SyncTasks
      <3>1. PICK last \in Todo : \E sql \in [1..last -> SqlStatus] :
               todo' = [u \in Todo |-> IF u \in DOMAIN sql THEN Projected(todo[u], sql[u])
                                                            ELSE todo[u]]
        BY <2>3 DEF SyncTasks, Sync
      <3>2. ASSUME NEW sql
            PROVE  Projected(todo[t], sql).status = "CLAIMED" =>
                      Projected(todo[t], sql) = todo[t]
        BY <2>1 DEF Projected, NewTodo, TodoRecord
      <3> QED
        BY <3>1, <3>2 DEF ClaimKept
    <2>4. CASE NextTurnDeclines \/ RecoverExpiredLeases
      BY <2>2, <2>4, ReconciledKeepsClaims
      DEF NextTurnDeclines, RecoverExpiredLeases, ClaimKept
    <2>5. CASE NextTurnAsks \/ NextTurnCloses
      <3>1. PICK limit \in Nat : todo' = Swept(Reconciled, limit)
        BY <2>2, <2>5 DEF NextTurnAsks, NextTurnCloses
      <3> QED
        BY <3>1, ReconciledKeepsClaims DEF ClaimKept
    <2>6. CASE \E k \in alive : RenewLease(k)
      <3>1. PICK k \in alive : todo' = [todo EXCEPT ![issued[k]].lease = Term]
        BY <2>6 DEF RenewLease
      <3>2. Term # NoLease
        BY KernelAssumption DEF KernelAssumption, NoLease
      <3> QED
        BY <2>1, <3>1, <3>2 DEF ClaimKept, TodoRecord
    <2>7. CASE \/ \E k \in alive : WorkerDies(k)
               \/ RequireReleasePromotion \/ MarkReleaseCompleted \/ WallClockRunsOut
      BY <2>7 DEF WorkerDies, RequireReleasePromotion, MarkReleaseCompleted,
                  WallClockRunsOut, ClaimKept
    <2>8. CASE Repair
      BY <2>1, <2>8 DEF Repair, RecordRepairHandoff, ReopenAfterRepair, ClaimKept, TodoRecord
    <2>9. CASE \E reason \in AbortReason : Abort(reason)
      <3>1. todo' = Interrupted
        BY <2>9 DEF Abort
      <3>2. Vacated(todo[t], "BLOCKED").status # "CLAIMED"
        BY <2>1 DEF Vacated, TodoRecord
      <3> QED
        BY <3>1, <3>2 DEF Interrupted, ClaimKept
    <2>10. CASE Operator /\ ~\E reason \in AbortReason : Abort(reason)
      BY <2>10 DEF Operator, SetGate, AnswerGate, Pause, Resume, SetGoalStatus, ClaimKept
    <2>11. CASE Tick
      <3>1. todo[t].lease > 0 => todo[t].lease - 1 # NoLease
        BY KernelAssumption DEF KernelAssumption, NoLease
      <3> QED
        BY <2>1, <2>11, <3>1 DEF Tick, ClaimKept, TodoRecord
    <2>12. CASE \E u \in Todo : BackoffElapses(u)
      BY <2>1, <2>12 DEF BackoffElapses, ClaimKept, TodoRecord
    <2> QED
      BY <2>3, <2>4, <2>5, <2>6, <2>7, <2>8, <2>9, <2>10, <2>11, <2>12 DEF QuietNext
  <1> QED
    BY <1>1, <1>2

(***************************************************************************)
(* The inductive invariant.  ExactlyOnceWriteback needs ClaimsAreHeld: a   *)
(* result is committed for the turn its todo carries, and only because a   *)
(* claimed todo carries a turn without a receipt is the new receipt new.   *)
(***************************************************************************)
TurnInv == ClaimsAreHeld /\ ExactlyOnceWriteback

\* Nothing is claimed when the goal is started.
LEMMA InitUnclaimed ==
    ASSUME Init, NEW t \in Todo
    PROVE  todo[t].status # "CLAIMED"
  <1>1. PICK status \in [1..Initial -> StatusAtStart] :
           todo = [u \in Todo |-> NewTodo(IF u <= Initial THEN status[u] ELSE Absent)]
    BY DEF Init
  <1>2. (IF t <= Initial THEN status[t] ELSE Absent) # "CLAIMED"
    BY KernelAssumption DEF KernelAssumption, Todo, StatusAtStart, Absent
  <1> QED
    BY <1>1, <1>2 DEF NewTodo

\* So the invariant holds initially.
LEMMA InitTurnInv == Init => TurnInv
  <1> SUFFICES ASSUME Init PROVE TurnInv
    OBVIOUS
  <1>1. \A t \in Todo : todo[t].status # "CLAIMED"
    BY InitUnclaimed
  <1>2. DOMAIN receipts = {}
    BY DEF Init
  <1> QED
    BY <1>1, <1>2 DEF TurnInv, ClaimsAreHeld, ExactlyOnceWriteback

\* A claim mints a turn that is newer than every turn and in no receipt.
LEMMA ClaimTurnInv ==
    ASSUME TypeOK, TurnInv, NextTurnClaims
    PROVE  TurnInv'
  <1> DEFINE k == Len(issued) + 1
  <1>1. PICK t \in Todo :
           /\ todo' = [Swept(Reconciled, t) EXCEPT ![t] = Claimed(@, quota.started + 1)]
           /\ issued' = Append(issued, t)
    BY DEF NextTurnClaims
  <1>2. /\ quota.started + 1 = k /\ Len(issued) \in Nat /\ issued \in Seq(Todo)
        /\ DOMAIN issued = 1..Len(issued)
        /\ receipts' = receipts
    BY DEF TypeOK, NextTurnClaims
  <1>3. /\ DOMAIN issued' = 1..k /\ issued'[k] = t
        /\ \A j \in DOMAIN issued : j \in DOMAIN issued' /\ issued'[j] = issued[j] /\ j < k
        /\ \A j \in DOMAIN issued' : j \in DOMAIN issued \/ j = k
    BY <1>1, <1>2
  <1>4. t \in Nat /\ Swept(Reconciled, t) \in [Todo -> TodoRecord]
    <2>1. t \in Nat
      BY KernelAssumption DEF KernelAssumption, Todo
    <2> QED
      BY <2>1, ReconciledType, SweptType DEF TypeOK
  <1>5. ASSUME NEW u \in Todo, u # t, todo'[u].status = "CLAIMED"
        PROVE  todo'[u] = todo[u]
    BY <1>1, <1>4, <1>5, ReconciledKeepsClaims
  <1>6. /\ todo'[t].turn = k /\ todo'[t].token = k /\ todo'[t].lease # NoLease
    <2>1. todo'[t] = Claimed(Swept(Reconciled, t)[t], k)
      BY <1>1, <1>2, <1>4
    <2>2. Term # NoLease
      BY KernelAssumption DEF KernelAssumption, NoLease
    <2> QED
      BY <1>4, <2>1, <2>2 DEF Claimed, TodoRecord
  <1>7. ExactlyOnceWriteback'
    BY <1>2, <1>3 DEF TurnInv, ExactlyOnceWriteback
  <1>8. \A i \in DOMAIN receipts : receipts[i].turn # k
    BY <1>2 DEF TurnInv, ExactlyOnceWriteback
  <1>9. ASSUME NEW u \in Todo, todo'[u].status = "CLAIMED"
        PROVE  /\ todo'[u].turn \in DOMAIN issued' /\ issued'[todo'[u].turn] = u
               /\ \A j \in DOMAIN issued' : issued'[j] = u => j <= todo'[u].turn
               /\ todo'[u].token = todo'[u].turn
               /\ todo'[u].lease # NoLease
               /\ \A i \in DOMAIN receipts' : receipts'[i].turn # todo'[u].turn
    <2>1. CASE u = t
      BY <2>1, <1>2, <1>3, <1>6, <1>8
    <2>2. CASE u # t
      <3>1. todo'[u] = todo[u]
        BY <1>5, <1>9, <2>2
      <3> QED
        BY <1>2, <1>3, <1>9, <2>2, <3>1 DEF TurnInv, ClaimsAreHeld
    <2> QED
      BY <2>1, <2>2
  <1>10. ClaimsAreHeld'
    BY <1>9 DEF ClaimsAreHeld
  <1> QED
    BY <1>7, <1>10 DEF TurnInv

\* A committed result ends the claim it is of.
LEMMA ResultTurnInv ==
    ASSUME TypeOK, TurnInv, NEW k \in alive, NEW kind \in Kind, NEW cost \in Cost,
           RecordResult(k, kind, cost)
    PROVE  TurnInv'
  <1> DEFINE t == issued[k]
             receipt == [todo |-> t, turn |-> k, kind |-> kind, cost |-> cost]
  <1>1. /\ receipts' = Append(receipts, receipt)
        /\ todo' = [todo EXCEPT ![t] = AfterResult(@, kind)]
        /\ issued' = issued
        /\ HoldsTurn(t, k)
    BY DEF RecordResult
  <1>2. k \in DOMAIN issued /\ t \in Todo /\ todo \in [Todo -> TodoRecord]
    BY DEF TypeOK
  <1>3. \A i \in DOMAIN receipts : receipts[i].turn # k
    BY <1>1, <1>2 DEF HoldsTurn, TurnInv, ClaimsAreHeld
  <1>4. todo'[t].status # "CLAIMED"
    <2>1. todo[t] \in TodoRecord /\ todo'[t] = AfterResult(todo[t], kind)
      BY <1>1, <1>2
    <2>2. ASSUME NEW status \in {"PASSED", "BLOCKED"}, NEW later
          PROVE  [Vacated(todo[t], status) EXCEPT !.deferred = later].status # "CLAIMED"
      BY <2>1 DEF Vacated, TodoRecord
    <2> QED
      BY <2>1, <2>2 DEF AfterResult
  <1>5. \A u \in Todo : u # t => todo'[u] = todo[u]
    BY <1>1, <1>2
  <1>6. /\ receipts \in Seq([todo : Todo, turn : Nat, kind : TurnResultKind, cost : Nat])
        /\ receipt \in [todo : Todo, turn : Nat, kind : TurnResultKind, cost : Nat]
    BY <1>2, KernelAssumption DEF KernelAssumption, TypeOK
  <1>7. /\ DOMAIN receipts' = 1..Len(receipts) + 1
        /\ receipts'[Len(receipts) + 1] = receipt
        /\ \A i \in DOMAIN receipts : i \in DOMAIN receipts' /\ receipts'[i] = receipts[i]
        /\ \A i \in DOMAIN receipts' : i \in DOMAIN receipts \/ i = Len(receipts) + 1
    <2> HIDE DEF receipt
    <2> QED
      BY <1>1, <1>6
  <1>8. receipt.turn = k /\ receipt.todo = t
    OBVIOUS
  <1>9. ExactlyOnceWriteback'
    <2> HIDE DEF receipt
    <2> QED
      BY <1>1, <1>2, <1>3, <1>7, <1>8 DEF TurnInv, ExactlyOnceWriteback
  <1>10. ASSUME NEW u \in Todo, todo'[u].status = "CLAIMED"
         PROVE  /\ todo'[u] = todo[u]
                /\ \A i \in DOMAIN receipts' : receipts'[i].turn # todo'[u].turn
    <2>1. u # t /\ todo'[u] = todo[u]
      BY <1>4, <1>5, <1>10
    <2>2. todo[u].turn # k
      BY <1>2, <1>10, <2>1 DEF TurnInv, ClaimsAreHeld
    <2>3. \A i \in DOMAIN receipts : receipts[i].turn # todo[u].turn
      BY <1>10, <2>1 DEF TurnInv, ClaimsAreHeld
    <2> HIDE DEF receipt
    <2> QED
      BY <1>7, <1>8, <2>1, <2>2, <2>3
  <1>11. ClaimsAreHeld'
    <2> HIDE DEF t, receipt
    <2> QED
      BY <1>1, <1>10 DEF TurnInv, ClaimsAreHeld
  <1> QED
    BY <1>9, <1>11 DEF TurnInv

\* All other operations keep TurnInv because they keep the claims they leave.
LEMMA QuietTurnInv ==
    ASSUME TypeOK, TurnInv, QuietNext \/ UNCHANGED vars
    PROVE  TurnInv'
  <1>1. UNCHANGED <<issued, receipts>> /\ \A t \in Todo : ClaimKept(t)
    BY QuietKeepsClaims DEF vars, ClaimKept
  <1> QED
    BY <1>1 DEF TurnInv, ClaimsAreHeld, ExactlyOnceWriteback, ClaimKept

\* A step is a claim, a result or a quiet step.
LEMMA NextSplits ==
    ASSUME Next
    PROVE  \/ QuietNext
           \/ NextTurnClaims
           \/ \E k \in alive, kind \in Kind, cost \in Cost : RecordResult(k, kind, cost)
  BY DEF Next, NextTurn, Worker, QuietNext

LEMMA NextTurnInv == TypeOK /\ TurnInv /\ [Next]_vars => TurnInv'
  BY NextSplits, ClaimTurnInv, ResultTurnInv, QuietTurnInv

\* Turns are handed out and paid for exactly once.
THEOREM TurnsAreExactlyOnce == Spec => [](ClaimsAreHeld /\ ExactlyOnceWriteback)
  <1>1. TypeOK /\ TurnInv /\ [Next]_vars => TurnInv'
    BY NextTurnInv
  <1>2. TurnInv => ClaimsAreHeld /\ ExactlyOnceWriteback
    BY DEF TurnInv
  <1> QED
    BY <1>1, <1>2, InitTurnInv, TypeCorrect, PTL DEF Spec

(***************************************************************************)
(* Closed goals.                                                           *)
(***************************************************************************)

\* A finished todo list has no claim.
LEMMA DoneIsUnclaimed ==
    ASSUME NEW todos, AllDone(todos), NEW t \in Todo
    PROVE  todos[t].status # "CLAIMED"
  BY DEF AllDone, Done, Absent

\* No step closes the goal over a claim, or claims on a closed goal.
LEMMA NextClosed ==
    ASSUME TypeOK, ClosedGoalHoldsNoLease, [Next]_vars
    PROVE  ClosedGoalHoldsNoLease'
  <1>1. CASE NextTurnClaims
    BY <1>1 DEF NextTurnClaims, Walks, ClosedGoalHoldsNoLease
  <1>2. CASE \E k \in alive, kind \in Kind, cost \in Cost : RecordResult(k, kind, cost)
    <2>1. PICK k \in alive, kind \in Kind, cost \in Cost : RecordResult(k, kind, cost)
      BY <1>2
    <2>2. issued[k] \in Todo /\ todo[issued[k]].status = "CLAIMED"
      BY <2>1 DEF RecordResult, HoldsTurn, TypeOK
    <2>3. goalStatus \notin {"BLOCKED", "COMPLETED"}
      BY <2>2 DEF ClosedGoalHoldsNoLease
    <2>4. goalStatus' = goalStatus \/ AllDone(todo')
      BY <2>1 DEF RecordResult, GoalStatusAfter, GoalReached
    <2> QED
      BY <2>3, <2>4, DoneIsUnclaimed DEF ClosedGoalHoldsNoLease
  <1>3. CASE QuietNext
    <2>1. \A t \in Todo : todo'[t].status = "CLAIMED" => todo[t].status = "CLAIMED"
      BY <1>3, QuietKeepsClaims DEF ClaimKept
    <2>2. CASE goalStatus' = goalStatus
      BY <2>1, <2>2 DEF ClosedGoalHoldsNoLease
    <2>3. CASE NextTurnCloses
      <3>1. goalStatus' = goalStatus \/ AllDone(todo')
        BY <2>3 DEF NextTurnCloses, GoalStatusAfter, GoalReached
      <3> QED
        BY <2>2, <3>1, DoneIsUnclaimed DEF ClosedGoalHoldsNoLease
    <2>4. CASE MarkReleaseCompleted
      BY <2>4, DoneIsUnclaimed DEF MarkReleaseCompleted, ClosedGoalHoldsNoLease
    <2>5. CASE \E reason \in AbortReason : Abort(reason)
      <3>1. ASSUME NEW t \in Todo PROVE todo'[t].status # "CLAIMED"
        <4>1. todo[t] \in TodoRecord
          BY DEF TypeOK
        <4>2. Vacated(todo[t], "BLOCKED").status # "CLAIMED"
          BY <4>1 DEF Vacated, TodoRecord
        <4> QED
          BY <2>5, <4>2 DEF Abort, Interrupted
      <3> QED
        BY <3>1 DEF ClosedGoalHoldsNoLease
    <2>6. CASE goalStatus' \in {"ACTIVE", "PAUSED"}
      BY <2>6 DEF ClosedGoalHoldsNoLease
    <2>7. \/ goalStatus' = goalStatus \/ NextTurnCloses \/ MarkReleaseCompleted
          \/ \E reason \in AbortReason : Abort(reason)
          \/ goalStatus' \in {"ACTIVE", "PAUSED"}
      BY <1>3 DEF QuietNext, SyncTasks, Sync, NextTurnDeclines, NextTurnAsks,
         RenewLease, WorkerDies, RecoverExpiredLeases, RequireReleasePromotion,
         Repair, RecordRepairHandoff, ReopenAfterRepair, Operator, SetGate,
         AnswerGate, Pause, Resume, SetGoalStatus, Tick, WallClockRunsOut, BackoffElapses
    <2> QED
      BY <2>2, <2>3, <2>4, <2>5, <2>6, <2>7
  <1>4. CASE UNCHANGED vars
    BY <1>4 DEF vars, ClosedGoalHoldsNoLease
  <1> QED
    BY <1>1, <1>2, <1>3, <1>4, NextSplits

\* A goal that was aborted or completed never holds a lease, for every number of
\* workers and in every interleaving with projections, repairs and resumes.
THEOREM ClosedGoalsHoldNoLease == Spec => []ClosedGoalHoldsNoLease
  <1>1. Init => ClosedGoalHoldsNoLease
    BY DEF Init, ClosedGoalHoldsNoLease
  <1>2. TypeOK /\ ClosedGoalHoldsNoLease /\ [Next]_vars => ClosedGoalHoldsNoLease'
    BY NextClosed
  <1> QED
    BY <1>1, <1>2, TypeCorrect, PTL DEF Spec

(***************************************************************************)
(* The kernel implements the ledger of turns.                              *)
(***************************************************************************)
OpenTurn == [t \in Todo |-> IF todo[t].status = "CLAIMED" THEN todo[t].turn ELSE 0]
Committed == [i \in DOMAIN receipts |->
                [todo |-> receipts[i].todo, turn |-> receipts[i].turn]]

\* A quiet step closes the turns it takes away.
LEMMA QuietCloses ==
    ASSUME TypeOK, QuietNext \/ UNCHANGED vars
    PROVE  \E C \in SUBSET Todo : Ledger!Close(C)
  <1> DEFINE C == {t \in Todo : todo'[t].status # "CLAIMED"}
  <1>1. /\ \A t \in Todo : ClaimKept(t)
        /\ receipts' = receipts /\ quota'.started = quota.started
    BY QuietKeepsClaims DEF vars, ClaimKept
  <1>2. OpenTurn' = [t \in Todo |-> IF t \in C THEN 0 ELSE OpenTurn[t]]
    BY <1>1 DEF OpenTurn, ClaimKept
  <1>3. Committed' = Committed
    BY <1>1 DEF Committed
  <1>4. Ledger!Close(C)
    BY <1>1, <1>2, <1>3 DEF Ledger!Close, Ledger!Closed, OpenTurn, Committed
  <1>5. C \in SUBSET Todo
    OBVIOUS
  <1> HIDE DEF C
  <1> QED
    BY <1>4, <1>5 DEF Ledger!Close

\* A claim mints the next turn, closing the expired ones.
LEMMA ClaimMints ==
    ASSUME TypeOK, TurnInv, NextTurnClaims
    PROVE  \E C \in SUBSET Todo, t \in Todo : Ledger!Mint(t, C)
  <1>1. PICK t \in Todo :
           /\ IsFirst(t, Reconciled)
           /\ todo' = [Swept(Reconciled, t) EXCEPT ![t] = Claimed(@, quota.started + 1)]
    BY DEF NextTurnClaims
  <1> DEFINE C == {u \in Todo : u # t /\ todo'[u].status # "CLAIMED"}
                    \cup {u \in Todo : u = t /\ todo[u].status = "CLAIMED"}
  <1>2. t \in Nat /\ Swept(Reconciled, t) \in [Todo -> TodoRecord]
    <2>1. t \in Nat
      BY KernelAssumption DEF KernelAssumption, Todo
    <2> QED
      BY <2>1, ReconciledType, SweptType DEF TypeOK
  <1>3. todo'[t].status = "CLAIMED" /\ todo'[t].turn = quota.started + 1
    <2>1. todo'[t] = Claimed(Swept(Reconciled, t)[t], quota.started + 1)
      BY <1>1, <1>2
    <2> QED
      BY <1>2, <2>1 DEF Claimed, TodoRecord
  <1>4. ASSUME NEW u \in Todo, u # t, todo'[u].status = "CLAIMED"
        PROVE  todo'[u] = todo[u]
    BY <1>1, <1>2, <1>4, ReconciledKeepsClaims
  <1>5. quota'.started = quota.started + 1 /\ receipts' = receipts
    BY DEF NextTurnClaims, TypeOK
  <1>6. OpenTurn' = [[u \in Todo |-> IF u \in C THEN 0 ELSE OpenTurn[u]]
                        EXCEPT ![t] = quota.started + 1]
    BY <1>3, <1>4 DEF OpenTurn
  <1>7. OpenTurn[t] = 0 \/ t \in C
    BY DEF OpenTurn
  <1>8. Committed' = Committed
    BY <1>5 DEF Committed
  <1>9. Ledger!Mint(t, C)
    BY <1>5, <1>6, <1>7, <1>8 DEF Ledger!Mint, Ledger!Closed, OpenTurn, Committed
  <1>10. C \in SUBSET Todo
    OBVIOUS
  <1> HIDE DEF C
  <1> QED
    BY <1>9, <1>10 DEF Ledger!Mint

\* A result commits the open turn of its todo.
LEMMA ResultCommits ==
    ASSUME TypeOK, TurnInv, NEW k \in alive, NEW kind \in Kind, NEW cost \in Cost,
           RecordResult(k, kind, cost)
    PROVE  \E t \in Todo : Ledger!Commit(t)
  <1> DEFINE t == issued[k]
             receipt == [todo |-> t, turn |-> k, kind |-> kind, cost |-> cost]
             entry == [todo |-> t, turn |-> k]
  <1>1. /\ receipts' = Append(receipts, receipt)
        /\ todo' = [todo EXCEPT ![t] = AfterResult(@, kind)]
        /\ HoldsTurn(t, k)
    BY DEF RecordResult
  <1>2. /\ k \in DOMAIN issued /\ t \in Todo /\ k \in Nat \ {0}
        /\ todo \in [Todo -> TodoRecord]
    BY DEF TypeOK
  <1>3. todo'[t].status # "CLAIMED" /\ \A u \in Todo : u # t => todo'[u] = todo[u]
    <2>1. todo[t] \in TodoRecord /\ todo'[t] = AfterResult(todo[t], kind)
      BY <1>1, <1>2
    <2>2. ASSUME NEW status \in {"PASSED", "BLOCKED"}, NEW later
          PROVE  [Vacated(todo[t], status) EXCEPT !.deferred = later].status # "CLAIMED"
      BY <2>1 DEF Vacated, TodoRecord
    <2> QED
      BY <1>1, <1>2, <2>1, <2>2 DEF AfterResult
  <1>4. OpenTurn[t] = k /\ OpenTurn' = [OpenTurn EXCEPT ![t] = 0]
    BY <1>1, <1>2, <1>3 DEF OpenTurn, HoldsTurn
  <1>5. quota'.started = quota.started
    BY DEF RecordResult, TypeOK
  <1>6. Committed' = Append(Committed, entry)
    <2>1. /\ receipts \in Seq([todo : Todo, turn : Nat, kind : TurnResultKind, cost : Nat])
          /\ receipt \in [todo : Todo, turn : Nat, kind : TurnResultKind, cost : Nat]
      BY <1>2, KernelAssumption DEF KernelAssumption, TypeOK
    <2>2. Committed \in Seq([todo : Todo, turn : Nat]) /\ Len(Committed) = Len(receipts)
      <3>1. DOMAIN receipts = 1..Len(receipts) /\ Len(receipts) \in Nat
        BY <2>1
      <3>2. \A i \in DOMAIN receipts :
               [todo |-> receipts[i].todo, turn |-> receipts[i].turn]
                  \in [todo : Todo, turn : Nat]
        <4> DEFINE R == [todo : Todo, turn : Nat, kind : TurnResultKind, cost : Nat]
        <4> SUFFICES ASSUME NEW i \in DOMAIN receipts
                     PROVE  [todo |-> receipts[i].todo, turn |-> receipts[i].turn]
                              \in [todo : Todo, turn : Nat]
          OBVIOUS
        <4>1. receipts[i] \in R
          <5>1. receipts \in Seq(R)
            BY <2>1
          <5> HIDE DEF R
          <5> QED
            BY <5>1
        <4> QED
          BY <4>1
      <3>3. Committed \in [1..Len(receipts) -> [todo : Todo, turn : Nat]]
        BY <3>1, <3>2 DEF Committed
      <3> DEFINE E == [todo : Todo, turn : Nat]
      <3>4. Committed \in [1..Len(receipts) -> E]
        BY <3>3
      <3> HIDE DEF E
      <3>5. Committed \in Seq(E) /\ Len(Committed) = Len(receipts)
        BY <3>1, <3>4
      <3> QED
        BY <3>5 DEF E
    <2>3. receipt.todo = t /\ receipt.turn = k
      OBVIOUS
    <2> HIDE DEF receipt
    <2> QED
      BY <1>1, <2>1, <2>2, <2>3 DEF Committed
  <1>7. Ledger!Commit(t)
    BY <1>2, <1>4, <1>5, <1>6 DEF Ledger!Commit, OpenTurn, Committed
  <1>8. t \in Todo
    BY <1>2
  <1> HIDE DEF t
  <1> QED
    BY <1>7, <1>8 DEF Ledger!Commit

\* The kernel implements the ledger: whatever else an operation does, seen
\* through the open turns and the receipts it mints, commits or closes turns.
THEOREM KernelImplementsTurnLedger == Spec => ImplementsTurnLedger
  <1>1. Init => Ledger!Init
    <2> SUFFICES ASSUME Init PROVE Ledger!Init
      OBVIOUS
    <2>1. ASSUME NEW t \in Todo PROVE todo[t].status # "CLAIMED"
      BY InitUnclaimed
    <2>2. quota.started = 0 /\ DOMAIN receipts = {}
      BY DEF Init
    <2>3. Committed = <<>>
      BY <2>2 DEF Committed
    <2> QED
      BY <2>1, <2>2, <2>3 DEF Ledger!Init, Committed
  <1>2. TypeOK /\ TurnInv /\ [Next]_vars => [Ledger!Next]_(Ledger!vars)
    BY NextSplits, QuietCloses, ClaimMints, ResultCommits DEF Ledger!Next
  <1>3. ClaimsAreHeld /\ ExactlyOnceWriteback => TurnInv
    BY DEF TurnInv
  <1> QED
    BY <1>1, <1>2, <1>3, TypeCorrect, TurnsAreExactlyOnce, PTL
    DEF Spec, ImplementsTurnLedger, Ledger!Spec

(***************************************************************************)
(* The attempt quota.  A todo counts its attempts, and nothing but a claim *)
(* touches the count: what follows is that the turns issued for a todo are *)
(* as many as it counts, whoever took them away or gave the todo back.     *)
(***************************************************************************)
IssuedTo(t) == {k \in DOMAIN issued : issued[k] = t}

AttemptInv ==
    /\ quota.started <= MaxTurns
    /\ \A t \in Todo :
          /\ IsFiniteSet(IssuedTo(t)) /\ Cardinality(IssuedTo(t)) = todo[t].attempts
          /\ todo[t].attempts <= MaxAttempts
          /\ todo[t].status = Absent => todo[t].attempts = 0

\* What a step that issues nothing leaves of a todo's count.
AttemptsKept(t) ==
    /\ \/ todo'[t].attempts = todo[t].attempts
       \/ todo[t].status = Absent /\ todo'[t].attempts = 0
    /\ todo'[t].status = Absent => todo[t].status = Absent

\* Vacating a todo and changing its status keep its count.
LEMMA RecordsKeepAttempts ==
    ASSUME NEW record \in TodoRecord, NEW status \in TodoStatus, NEW later
    PROVE  /\ [record EXCEPT !.status = status].attempts = record.attempts
           /\ [record EXCEPT !.status = status].status # Absent
           /\ Vacated(record, status).attempts = record.attempts
           /\ Vacated(record, status).status # Absent
           /\ [Vacated(record, status) EXCEPT !.deferred = later].attempts = record.attempts
           /\ [Vacated(record, status) EXCEPT !.deferred = later].status # Absent
  <1>1. Absent \notin TodoStatus
    BY DEF Absent, TodoStatus
  <1>2. Vacated(record, status).attempts = record.attempts
        /\ Vacated(record, status).status = status
    BY DEF Vacated, TodoRecord
  <1>3. DOMAIN Vacated(record, status) = {"status", "turn", "token", "lease", "attempts", "deferred"}
    BY DEF Vacated, TodoRecord
  <1>4. [record EXCEPT !.status = status].attempts = record.attempts
        /\ [record EXCEPT !.status = status].status = status
    BY DEF TodoRecord
  <1> QED
    BY <1>1, <1>2, <1>3, <1>4

LEMMA ReconciledKeepsAttempts ==
    ASSUME TypeOK, NEW t \in Todo, NEW limit \in Nat
    PROVE  /\ Reconciled[t].attempts = todo[t].attempts
           /\ Reconciled[t].status = Absent => todo[t].status = Absent
           /\ Swept(Reconciled, limit)[t].attempts = todo[t].attempts
           /\ Swept(Reconciled, limit)[t].status = Absent => todo[t].status = Absent
  <1>1. todo[t] \in TodoRecord /\ Reconciled[t] \in TodoRecord
    BY ReconciledType DEF TypeOK
  <1>2. "BLOCKED" \in TodoStatus /\ "PENDING" \in TodoStatus
    BY DEF TodoStatus
  <1>3. /\ Reconciled[t].attempts = todo[t].attempts
        /\ Reconciled[t].status = Absent => todo[t].status = Absent
    BY <1>1, <1>2, RecordsKeepAttempts DEF Reconciled
  <1>4. \/ Swept(Reconciled, limit)[t] = Reconciled[t]
        \/ Swept(Reconciled, limit)[t] = [Reconciled[t] EXCEPT !.status = "BLOCKED"]
    BY DEF Swept
  <1> QED
    BY <1>1, <1>2, <1>3, <1>4, RecordsKeepAttempts

\* Neither minting nor committing, an operation counts no attempt.
LEMMA QuietKeepsAttempts ==
    ASSUME TypeOK, QuietNext, NEW t \in Todo
    PROVE  AttemptsKept(t)
  <1>1. todo \in [Todo -> TodoRecord] /\ todo[t] \in TodoRecord
    BY DEF TypeOK
  <1>2. N + 1 \in Nat /\ \A u \in Todo : u \in Nat
    BY KernelAssumption DEF KernelAssumption, Todo
  <1>3. CASE SyncTasks
    <2>1. PICK last \in Todo : \E sql \in [1..last -> SqlStatus] :
             todo' = [u \in Todo |-> IF u \in DOMAIN sql THEN Projected(todo[u], sql[u])
                                                          ELSE todo[u]]
      BY <1>3 DEF SyncTasks, Sync
    <2>2. ASSUME NEW sql
          PROVE  /\ Projected(todo[t], sql).status # Absent
                 /\ \/ Projected(todo[t], sql).attempts = todo[t].attempts
                    \/ todo[t].status = Absent /\ Projected(todo[t], sql).attempts = 0
      BY <1>1 DEF Projected, NewTodo, TodoRecord, TodoStatus, Absent
    <2> QED
      BY <2>1, <2>2 DEF AttemptsKept
  <1>4. CASE NextTurnDeclines \/ RecoverExpiredLeases
    BY <1>2, <1>4, ReconciledKeepsAttempts
    DEF NextTurnDeclines, RecoverExpiredLeases, AttemptsKept
  <1>5. CASE NextTurnAsks \/ NextTurnCloses
    <2>1. PICK limit \in Nat : todo' = Swept(Reconciled, limit)
      BY <1>2, <1>5 DEF NextTurnAsks, NextTurnCloses
    <2> QED
      BY <2>1, ReconciledKeepsAttempts DEF AttemptsKept
  <1>6. CASE \E k \in alive : RenewLease(k)
    <2>1. PICK k \in alive : todo' = [todo EXCEPT ![issued[k]].lease = Term]
      BY <1>6 DEF RenewLease
    <2> QED
      BY <1>1, <2>1 DEF AttemptsKept, TodoRecord
  <1>7. CASE \/ \E k \in alive : WorkerDies(k)
             \/ RequireReleasePromotion \/ MarkReleaseCompleted \/ WallClockRunsOut
    BY <1>7 DEF WorkerDies, RequireReleasePromotion, MarkReleaseCompleted,
                WallClockRunsOut, AttemptsKept
  <1>8. CASE Repair
    BY <1>1, <1>8 DEF Repair, RecordRepairHandoff, ReopenAfterRepair, AttemptsKept,
                      TodoRecord, Absent
  <1>9. CASE \E reason \in AbortReason : Abort(reason)
    <2>1. todo' = Interrupted /\ "BLOCKED" \in TodoStatus
      BY <1>9 DEF Abort, TodoStatus
    <2> QED
      BY <1>1, <2>1, RecordsKeepAttempts DEF Interrupted, AttemptsKept
  <1>10. CASE Operator /\ ~\E reason \in AbortReason : Abort(reason)
    BY <1>10 DEF Operator, SetGate, AnswerGate, Pause, Resume, SetGoalStatus, AttemptsKept
  <1>11. CASE Tick
    BY <1>1, <1>11 DEF Tick, AttemptsKept, TodoRecord
  <1>12. CASE \E u \in Todo : BackoffElapses(u)
    BY <1>1, <1>12 DEF BackoffElapses, AttemptsKept, TodoRecord
  <1> QED
    BY <1>3, <1>4, <1>5, <1>6, <1>7, <1>8, <1>9, <1>10, <1>11, <1>12 DEF QuietNext

LEMMA InitAttempts == Init => AttemptInv
  <1> SUFFICES ASSUME Init PROVE AttemptInv
    OBVIOUS
  <1>1. quota.started = 0 /\ DOMAIN issued = {}
    BY DEF Init
  <1>2. \A t \in Todo : todo[t].attempts = 0
    BY DEF Init, NewTodo
  <1>3. \A t \in Todo : IssuedTo(t) = {}
    BY <1>1 DEF IssuedTo
  <1>4. \A t \in Todo : IsFiniteSet(IssuedTo(t)) /\ Cardinality(IssuedTo(t)) = 0
    BY <1>3, FS_EmptySet
  <1>5. 0 <= MaxTurns /\ 0 <= MaxAttempts
    BY KernelAssumption DEF KernelAssumption
  <1> HIDE DEF IssuedTo
  <1> QED
    BY <1>1, <1>2, <1>4, <1>5 DEF AttemptInv

\* A step that issues nothing keeps the counts.
LEMMA UnissuedKeepsAttempts ==
    ASSUME TypeOK, AttemptInv, issued' = issued, quota'.started = quota.started,
           \A t \in Todo : AttemptsKept(t)
    PROVE  AttemptInv'
  <1>1. \A t \in Todo : IssuedTo(t)' = IssuedTo(t)
    BY DEF IssuedTo
  <1>2. \A t \in Todo : todo'[t].attempts = todo[t].attempts
                        /\ (todo'[t].status = Absent => todo[t].status = Absent)
    BY DEF AttemptsKept, AttemptInv
  <1> QED
    BY <1>1, <1>2 DEF AttemptInv

\* A claim issues one turn and counts one attempt, below the quota.
LEMMA ClaimCountsAttempt ==
    ASSUME TypeOK, AttemptInv, NextTurnClaims
    PROVE  AttemptInv'
  <1>1. PICK t \in Todo :
           /\ IsFirst(t, Reconciled)
           /\ todo' = [Swept(Reconciled, t) EXCEPT ![t] = Claimed(@, quota.started + 1)]
           /\ issued' = Append(issued, t)
    BY DEF NextTurnClaims
  <1>2. /\ t \in Nat /\ Swept(Reconciled, t) \in [Todo -> TodoRecord]
        /\ Reconciled[t] \in TodoRecord
    <2>1. t \in Nat
      BY KernelAssumption DEF KernelAssumption, Todo
    <2> QED
      BY <2>1, ReconciledType, SweptType DEF TypeOK
  <1>3. /\ quota'.started = quota.started + 1 /\ quota.started < MaxTurns
        /\ quota.started \in Nat /\ quota.started = Len(issued) /\ issued \in Seq(Todo)
    BY KernelAssumption DEF KernelAssumption, NextTurnClaims, Walks, QuotaSpent, TypeOK
  <1>4. todo[t].attempts < MaxAttempts /\ todo[t].attempts \in Nat
    <2>1. Reconciled[t].attempts = todo[t].attempts
      BY <1>2, ReconciledKeepsAttempts
    <2>2. ~Exhausted(Reconciled[t]) /\ Reconciled[t].attempts \in Nat
      BY <1>1, <1>2 DEF IsFirst, Claimable, TodoRecord
    <2> QED
      BY <2>1, <2>2, KernelAssumption DEF KernelAssumption, Exhausted
  <1>5. /\ todo'[t].attempts = todo[t].attempts + 1 /\ todo'[t].status # Absent
        /\ \A u \in Todo : u # t => AttemptsKept(u)
    <2>1. todo'[t] = Claimed(Swept(Reconciled, t)[t], quota.started + 1)
      BY <1>1, <1>2
    <2>2. Swept(Reconciled, t)[t] \in TodoRecord
      BY <1>2
    <2>3. todo'[t].attempts = Swept(Reconciled, t)[t].attempts + 1 /\ todo'[t].status = "CLAIMED"
      BY <2>1, <2>2 DEF Claimed, TodoRecord
    <2>4. \A u \in Todo : u # t => todo'[u] = Swept(Reconciled, t)[u]
      BY <1>1, <1>2
    <2> QED
      BY <1>2, <2>3, <2>4, ReconciledKeepsAttempts DEF AttemptsKept, Absent
  <1>6. /\ IssuedTo(t)' = IssuedTo(t) \cup {quota.started + 1}
        /\ quota.started + 1 \notin IssuedTo(t)
        /\ \A u \in Todo : u # t => IssuedTo(u)' = IssuedTo(u)
    BY <1>1, <1>3 DEF IssuedTo
  <1>7. /\ IsFiniteSet(IssuedTo(t)') /\ Cardinality(IssuedTo(t)') = todo[t].attempts + 1
    BY <1>6, FS_AddElement DEF AttemptInv
  <1>8. ASSUME NEW u \in Todo
        PROVE  /\ IsFiniteSet(IssuedTo(u)') /\ Cardinality(IssuedTo(u)') = todo'[u].attempts
               /\ todo'[u].attempts <= MaxAttempts
               /\ todo'[u].status = Absent => todo'[u].attempts = 0
    <2>1. CASE u = t
      BY <1>4, <1>5, <1>7, <2>1, KernelAssumption DEF KernelAssumption
    <2>2. CASE u # t
      BY <1>5, <1>6, <2>2 DEF AttemptInv, AttemptsKept
    <2> QED
      BY <2>1, <2>2
  <1> QED
    BY <1>3, <1>8, KernelAssumption DEF KernelAssumption, AttemptInv

\* A result takes its todo's turn away and leaves its count.
LEMMA ResultKeepsAttempts ==
    ASSUME TypeOK, AttemptInv, NEW k \in alive, NEW kind \in Kind, NEW cost \in Cost,
           RecordResult(k, kind, cost)
    PROVE  AttemptInv'
  <1>1. /\ todo' = [todo EXCEPT ![issued[k]] = AfterResult(@, kind)]
        /\ issued' = issued /\ quota'.started = quota.started
    BY DEF RecordResult, TypeOK
  <1>2. todo \in [Todo -> TodoRecord] /\ issued[k] \in Todo
    BY DEF TypeOK
  <1>3. "PASSED" \in TodoStatus /\ "BLOCKED" \in TodoStatus
    BY DEF TodoStatus
  <1>4. \A record \in TodoRecord :
           AfterResult(record, kind).attempts = record.attempts
           /\ AfterResult(record, kind).status # Absent
    BY <1>3, RecordsKeepAttempts DEF AfterResult
  <1>5. \A t \in Todo : AttemptsKept(t)
    BY <1>1, <1>2, <1>4 DEF AttemptsKept
  <1> QED
    BY <1>1, <1>5, UnissuedKeepsAttempts

\* A todo is handed out at most max_attempts times and the goal takes at most
\* max_turns turns, through every reopening, projection, recovery and abort.
THEOREM AttemptsStayBelowQuota == Spec => []AttemptQuotaHolds
  <1>1. TypeOK /\ AttemptInv /\ [Next]_vars => AttemptInv'
    <2> SUFFICES ASSUME TypeOK, AttemptInv, [Next]_vars PROVE AttemptInv'
      OBVIOUS
    <2>1. CASE QuietNext
      BY <2>1, QuietKeepsClaims, QuietKeepsAttempts, UnissuedKeepsAttempts
    <2>2. CASE UNCHANGED vars
      BY <2>2, UnissuedKeepsAttempts DEF vars, AttemptsKept
    <2> QED
      BY <2>1, <2>2, NextSplits, ClaimCountsAttempt, ResultKeepsAttempts
  <1>2. TypeOK /\ AttemptInv => AttemptQuotaHolds
    BY DEF TypeOK, AttemptInv, AttemptQuotaHolds, IssuedTo
  <1> QED
    BY <1>1, <1>2, InitAttempts, TypeCorrect, PTL DEF Spec

(***************************************************************************)
(* The cost quota.  CostOf is recursive, so what it is for one receipt     *)
(* more has to be shown: the running totals of a list exist and are        *)
(* unique, both by a least list position at which that fails.              *)
(***************************************************************************)
LEMMA LeastOfNaturals ==
    ASSUME NEW S, S \subseteq Nat, S # {}
    PROVE  \E x \in S : \A y \in S : x <= y
  <1> DEFINE R == OpToRel(<, Nat)
  <1>1. IsWellFoundedOn(R, Nat)
    BY NatLessThanWellFounded
  <1>2. PICK x \in S : \A y \in S : <<y, x>> \notin R
    <2> HIDE DEF R
    <2> QED
      BY <1>1, WFMin
  <1>3. \A y \in S : ~(y < x)
    BY <1>2 DEF OpToRel
  <1> QED
    BY <1>3

\* total[i] is what the first i of the first n receipts cost together.
RunningTotal(total, n, paid) ==
    total = [i \in 0 .. n |-> IF i = 0 THEN 0 ELSE total[i - 1] + paid[i].cost]

LEMMA RunningTotalIsUnique ==
    ASSUME NEW n \in Nat, NEW paid, NEW f, NEW g,
           RunningTotal(f, n, paid), RunningTotal(g, n, paid)
    PROVE  f = g
  <1> DEFINE bad == {i \in 0 .. n : f[i] # g[i]}
  <1>1. ASSUME bad # {} PROVE FALSE
    <2>1. PICK i \in bad : \A j \in bad : i <= j
      <3>1. bad \subseteq Nat
        OBVIOUS
      <3> HIDE DEF bad
      <3> QED
        BY <3>1, <1>1, LeastOfNaturals
    <2>2. CASE i = 0
      BY <2>2 DEF RunningTotal
    <2>3. CASE i # 0
      <3>1. i - 1 \in 0 .. n /\ i - 1 \notin bad
        BY <2>1, <2>3
      <3>2. f[i - 1] = g[i - 1]
        BY <3>1
      <3> QED
        BY <2>1, <2>3, <3>2 DEF RunningTotal
    <2> QED
      BY <2>2, <2>3
  <1>2. f = [i \in 0 .. n |-> f[i]] /\ g = [i \in 0 .. n |-> g[i]]
    <2>1. DOMAIN f = 0 .. n /\ DOMAIN g = 0 .. n
      BY DEF RunningTotal
    <2>2. ASSUME NEW h, NEW e, h = [i \in 0 .. n |-> IF i = 0 THEN 0 ELSE h[i - 1] + e[i].cost]
          PROVE  h = [i \in 0 .. n |-> h[i]]
      BY <2>2
    <2> QED
      BY <2>2 DEF RunningTotal
  <1>3. [i \in 0 .. n |-> f[i]] = [i \in 0 .. n |-> g[i]]
    BY <1>1
  <1> QED
    BY <1>2, <1>3

\* The totals of n receipts and of the receipt after them.
LEMMA RunningTotalGrows ==
    ASSUME NEW n \in Nat, NEW paid, NEW f, RunningTotal(f, n, paid)
    PROVE  \E g : /\ RunningTotal(g, n + 1, paid)
                  /\ g[n + 1] = f[n] + paid[n + 1].cost
  <1> DEFINE g == [i \in 0 .. n + 1 |-> IF i <= n THEN f[i] ELSE f[n] + paid[n + 1].cost]
  <1>1. ASSUME NEW i \in 0 .. n + 1
        PROVE  g[i] = IF i = 0 THEN 0 ELSE g[i - 1] + paid[i].cost
    <2>1. CASE i <= n
      <3>1. i # 0 => i - 1 \in 0 .. n /\ g[i - 1] = f[i - 1]
        BY <2>1
      <3> QED
        BY <2>1, <3>1 DEF RunningTotal
    <2>2. CASE i = n + 1
      BY <2>2
    <2> QED
      BY <2>1, <2>2
  <1>2. RunningTotal(g, n + 1, paid)
    BY <1>1 DEF RunningTotal
  <1>3. g[n + 1] = f[n] + paid[n + 1].cost
    OBVIOUS
  <1> HIDE DEF g
  <1> QED
    BY <1>2, <1>3

LEMMA RunningTotalExists ==
    ASSUME NEW paid, NEW n \in Nat
    PROVE  \E f : RunningTotal(f, n, paid)
  <1> DEFINE bad == {i \in Nat : ~\E f : RunningTotal(f, i, paid)}
  <1>1. ASSUME bad # {} PROVE FALSE
    <2>1. PICK i \in bad : \A j \in bad : i <= j
      <3>1. bad \subseteq Nat
        OBVIOUS
      <3> HIDE DEF bad
      <3> QED
        BY <3>1, <1>1, LeastOfNaturals
    <2>2. CASE i = 0
      <3>1. RunningTotal([j \in 0 .. 0 |-> 0], 0, paid)
        BY DEF RunningTotal
      <3> QED
        BY <2>1, <2>2, <3>1
    <2>3. CASE i # 0
      <3>1. i - 1 \in Nat /\ i - 1 \notin bad
        BY <2>1, <2>3
      <3>2. PICK f : RunningTotal(f, i - 1, paid)
        BY <3>1
      <3>3. \E g : RunningTotal(g, (i - 1) + 1, paid)
        BY <3>1, <3>2, RunningTotalGrows
      <3> QED
        BY <2>1, <3>3
    <2> QED
      BY <2>2, <2>3
  <1> QED
    BY <1>1

LEMMA CostOfIsTotal ==
    ASSUME NEW paid, NEW f, Len(paid) \in Nat, RunningTotal(f, Len(paid), paid)
    PROVE  CostOf(paid) = f[Len(paid)]
  <1> DEFINE sum == CHOOSE sum : sum = [i \in 0 .. Len(paid) |->
                                           IF i = 0 THEN 0 ELSE sum[i - 1] + paid[i].cost]
  <1>1. RunningTotal(sum, Len(paid), paid)
    BY DEF RunningTotal
  <1>2. sum = f
    BY <1>1, RunningTotalIsUnique
  <1>3. CostOf(paid) = sum[Len(paid)]
    BY DEF CostOf
  <1> QED
    BY <1>2, <1>3

\* One receipt more adds its cost.
LEMMA CostOfAppend ==
    ASSUME NEW R, NEW paid \in Seq(R), NEW r \in R
    PROVE  CostOf(Append(paid, r)) = CostOf(paid) + r.cost
  <1> DEFINE n == Len(paid)
             more == Append(paid, r)
  <1>1. n \in Nat /\ Len(more) = n + 1 /\ more[n + 1] = r
    OBVIOUS
  <1>2. PICK f : RunningTotal(f, n, paid)
    BY <1>1, RunningTotalExists
  <1>3. RunningTotal(f, n, more)
    <2>1. \A i \in 1 .. n : more[i] = paid[i]
      OBVIOUS
    <2>2. \A i \in 0 .. n : i # 0 => i \in 1 .. n
      BY <1>1
    <2> HIDE DEF more
    <2> QED
      BY <1>2, <2>1, <2>2 DEF RunningTotal
  <1>4. PICK g : RunningTotal(g, n + 1, more) /\ g[n + 1] = f[n] + more[n + 1].cost
    <2> HIDE DEF more, n
    <2> QED
      BY <1>1, <1>3, RunningTotalGrows
  <1>5. CostOf(paid) = f[n]
    BY <1>1, <1>2, CostOfIsTotal
  <1>6. CostOf(more) = g[n + 1]
    <2> HIDE DEF more, n
    <2> QED
      BY <1>1, <1>4, CostOfIsTotal
  <1> QED
    BY <1>1, <1>4, <1>5, <1>6

LEMMA CostOfNothing == CostOf(<<>>) = 0
  <1>1. RunningTotal([i \in 0 .. 0 |-> 0], 0, <<>>)
    BY DEF RunningTotal
  <1> QED
    BY <1>1, CostOfIsTotal

\* Only a result spends, and it leaves its cost on the receipt it appends.
LEMMA NextAccounts ==
    ASSUME TypeOK, CostIsAccounted, [Next]_vars
    PROVE  CostIsAccounted'
  <1>1. ASSUME NEW k \in alive, NEW kind \in Kind, NEW cost \in Cost,
               RecordResult(k, kind, cost)
        PROVE  CostIsAccounted'
    <2> DEFINE r == [todo |-> issued[k], turn |-> k, kind |-> kind, cost |-> cost]
    <2>1. /\ receipts' = Append(receipts, r)
          /\ quota' = [quota EXCEPT !.committed = @ + 1, !.cost = @ + cost]
          /\ quota.cost + cost <= MaxCost
      BY <1>1 DEF RecordResult, Affordable
    <2>2. quota \in [started : Nat, committed : Nat, cost : Nat] /\ cost \in Nat
      BY KernelAssumption DEF KernelAssumption, TypeOK
    <2>3. quota'.committed = quota.committed + 1 /\ quota'.cost = quota.cost + cost
      BY <2>1, <2>2
    <2>4. /\ receipts \in Seq([todo : Todo, turn : Nat, kind : TurnResultKind, cost : Nat])
          /\ r \in [todo : Todo, turn : Nat, kind : TurnResultKind, cost : Nat]
      BY <2>2, KernelAssumption DEF KernelAssumption, TypeOK
    <2>5. CostOf(receipts') = CostOf(receipts) + r.cost
      <3> HIDE DEF r
      <3> QED
        BY <2>1, <2>4, CostOfAppend
    <2>6. Len(receipts') = Len(receipts) + 1
      BY <2>1, <2>4
    <2> QED
      BY <2>1, <2>2, <2>3, <2>5, <2>6 DEF CostIsAccounted
  <1>2. ASSUME UNCHANGED receipts, quota'.committed = quota.committed,
               quota'.cost = quota.cost
        PROVE  CostIsAccounted'
    BY <1>2 DEF CostIsAccounted
  <1>3. CASE QuietNext
    <2>1. UNCHANGED <<receipts, quota>>
      BY <1>3 DEF QuietNext, SyncTasks, Sync, NextTurnDeclines, NextTurnAsks, NextTurnCloses,
         RenewLease, WorkerDies, RecoverExpiredLeases, RequireReleasePromotion,
         MarkReleaseCompleted, Repair, RecordRepairHandoff, ReopenAfterRepair,
         Operator, SetGate, AnswerGate, Pause, Resume, SetGoalStatus, Abort, Tick,
         WallClockRunsOut, BackoffElapses
    <2> QED
      BY <1>2, <2>1
  <1>4. CASE NextTurnClaims
    <2>1. UNCHANGED receipts /\ quota' = [quota EXCEPT !.started = @ + 1]
      BY <1>4 DEF NextTurnClaims
    <2>2. quota'.committed = quota.committed /\ quota'.cost = quota.cost
      BY <2>1 DEF TypeOK
    <2> QED
      BY <1>2, <2>1, <2>2
  <1>5. CASE UNCHANGED vars
    BY <1>2, <1>5 DEF vars
  <1> QED
    BY <1>1, <1>3, <1>4, <1>5, NextSplits

\* The goal never spends more than its quota, and what it spent is what its
\* receipts say, whoever retries and however late a result comes (record_result).
THEOREM QuotasAreKept == Spec => []QuotasHold
  <1>1. Init => CostIsAccounted
    BY CostOfNothing, KernelAssumption DEF KernelAssumption, Init, CostIsAccounted
  <1>2. TypeOK /\ CostIsAccounted /\ [Next]_vars => CostIsAccounted'
    BY NextAccounts
  <1>3. CostIsAccounted /\ AttemptQuotaHolds => QuotasHold
    BY DEF QuotasHold
  <1> QED
    BY <1>1, <1>2, <1>3, TypeCorrect, AttemptsStayBelowQuota, PTL DEF Spec

(***************************************************************************)
(* What a single step may do.                                              *)
(***************************************************************************)

\* Only a claim issues a turn.
LEMMA OnlyClaimsIssue ==
    ASSUME TypeOK, [Next]_vars, Len(issued') > Len(issued)
    PROVE  NextTurnClaims
  <1>1. Len(issued) \in Nat
    BY DEF TypeOK
  <1>2. CASE QuietNext
    BY <1>1, <1>2, QuietKeepsClaims
  <1>3. CASE \E k \in alive, kind \in Kind, cost \in Cost : RecordResult(k, kind, cost)
    BY <1>1, <1>3 DEF RecordResult
  <1>4. CASE UNCHANGED vars
    BY <1>1, <1>4 DEF vars
  <1> QED
    BY <1>2, <1>3, <1>4, NextSplits

\* A claim leaves the todos alone that its todo depends on.
LEMMA ClaimKeepsDone ==
    ASSUME TypeOK, NEW t \in Todo, NEW k \in Nat, t \in Claimable(Reconciled),
           todo' = [Swept(Reconciled, t) EXCEPT ![t] = Claimed(@, k)],
           NEW d \in Deps[t]
    PROVE  todo'[d].status \in Done
  <1>1. Deps[t] \subseteq Todo /\ d \in Todo
    BY KernelAssumption DEF KernelAssumption
  <1>2. Reconciled[t].status = "PENDING" /\ Reconciled[d].status \in Done
    BY DEF Claimable, DepsDone
  <1>3. d # t /\ Reconciled[d].status # "PENDING"
    BY <1>2 DEF Done
  <1>4. Swept(Reconciled, t)[d] = Reconciled[d]
    BY <1>1, <1>3 DEF Swept
  <1>5. todo'[d] = Swept(Reconciled, t)[d]
    BY <1>1, <1>3 DEF Swept
  <1> QED
    BY <1>2, <1>4, <1>5

\* No turn is minted for a goal that is paused, closed or out of budget, past an
\* open gate of its lane, or before what it depends on is validated (next_turn).
THEOREM EveryTurnIsLicensed == Spec => TurnsAreLicensed
  <1>1. ASSUME TypeOK, [Next]_vars, Len(issued') > Len(issued)
        PROVE  Licensed(issued'[Len(issued')])
    <2>1. NextTurnClaims
      BY <1>1, OnlyClaimsIssue
    <2>2. PICK t \in Todo :
             /\ IsFirst(t, Reconciled)
             /\ ~GateFor(t)
             /\ todo' = [Swept(Reconciled, t) EXCEPT ![t] = Claimed(@, quota.started + 1)]
             /\ issued' = Append(issued, t)
      BY <2>1 DEF NextTurnClaims
    <2>3. issued'[Len(issued')] = t
      BY <1>1, <2>2 DEF TypeOK
    <2>4. goalStatus = "ACTIVE" /\ ~wallOver /\ quota.cost < MaxCost
      BY <1>1, <2>1, KernelAssumption
      DEF KernelAssumption, NextTurnClaims, Walks, QuotaSpent, TypeOK
    <2>5. \A d \in Deps[t] : todo'[d].status \in Done
      <3>1. quota.started + 1 \in Nat
        BY <1>1 DEF TypeOK
      <3> QED
        BY <1>1, <2>2, <3>1, ClaimKeepsDone DEF IsFirst
    <2>6. \A g \in Gate : gate[g] \in {"OPEN", "HUMAN_REVIEW"} =>
                             Lane[g] # {} /\ t \notin Lane[g]
      BY <2>2 DEF GateFor, Undecided
    <2> QED
      BY <2>3, <2>4, <2>5, <2>6 DEF Licensed, Done
  <1> QED
    BY <1>1, TypeCorrect, PTL DEF Spec, TurnsAreLicensed

\* The goal is completed only over a validated todo list, decided gates and, when
\* it needs one, a release on record: no road to completion forgets one of them
\* (next_turn, record_result, mark_release_completed).
THEOREM EveryCompletionIsEarned == Spec => CompletionIsEarned
  <1> DEFINE Earned == /\ \A t \in Todo : todo'[t].status \in {"PASSED", "SKIPPED", Absent}
                       /\ \A g \in Gate : gate'[g] \notin {"OPEN", "HUMAN_REVIEW"}
                       /\ needsRelease' => released'
  <1>1. ASSUME [Next]_vars, goalStatus # "COMPLETED", goalStatus' = "COMPLETED"
        PROVE  Earned
    <2>1. ASSUME UNCHANGED <<gate, needsRelease, released>>, GoalReached(todo')
          PROVE  Earned
      BY <2>1 DEF GoalReached, AllDone, OpenRequiredGate, Done, Undecided
    <2>2. CASE \E k \in alive, kind \in Kind, cost \in Cost : RecordResult(k, kind, cost)
      <3>1. UNCHANGED <<gate, needsRelease, released>> /\ goalStatus' = GoalStatusAfter(todo')
        BY <2>2 DEF RecordResult
      <3> QED
        BY <1>1, <2>1, <3>1 DEF GoalStatusAfter
    <2>3. CASE NextTurnCloses
      <3>1. UNCHANGED <<gate, needsRelease, released>> /\ goalStatus' = GoalStatusAfter(todo')
        BY <2>3 DEF NextTurnCloses
      <3> QED
        BY <1>1, <2>1, <3>1 DEF GoalStatusAfter
    <2>4. CASE MarkReleaseCompleted
      BY <2>4 DEF MarkReleaseCompleted, AllDone, OpenRequiredGate, Done, Undecided
    <2>5. \/ \E k \in alive, kind \in Kind, cost \in Cost : RecordResult(k, kind, cost)
          \/ NextTurnCloses \/ MarkReleaseCompleted
      BY <1>1, NextSplits
      DEF QuietNext, SyncTasks, Sync, NextTurnDeclines, NextTurnAsks, NextTurnClaims,
          RenewLease, WorkerDies, RecoverExpiredLeases, RequireReleasePromotion,
          Repair, RecordRepairHandoff, ReopenAfterRepair, Operator, SetGate,
          AnswerGate, Pause, Resume, SetGoalStatus, Abort, Tick, WallClockRunsOut,
          BackoffElapses, vars
    <2> QED
      BY <2>2, <2>3, <2>4, <2>5
  <1> QED
    BY <1>1, PTL DEF Spec, CompletionIsEarned

(***************************************************************************)
(* Live turns.  LiveTurnIsExclusive is refuted by a run: a projection that *)
(* puts a claimed todo back in line leaves its turn to be handed out       *)
(* again.  What follows is that nothing else does.                         *)
(***************************************************************************)
TurnsAreKept == \A t \in Todo : todo[t].turn # 0 => todo[t].status \in {"CLAIMED", "PASSED"}

\* Recovery and the walk clear the turn of a todo they take.
LEMMA ReconciledKeepsTurns ==
    ASSUME TypeOK, TurnsAreKept, NEW t \in Todo, NEW limit \in Nat
    PROVE  /\ Reconciled[t].turn # 0 => Reconciled[t].status \in {"CLAIMED", "PASSED"}
           /\ Swept(Reconciled, limit)[t].turn # 0 =>
                 Swept(Reconciled, limit)[t].status \in {"CLAIMED", "PASSED"}
  <1>1. Reconciled \in [Todo -> TodoRecord] /\ todo[t] \in TodoRecord
    BY ReconciledType DEF TypeOK
  <1>2. ASSUME NEW status PROVE [Vacated(todo[t], status) EXCEPT !.deferred = FALSE].turn = 0
    BY <1>1 DEF Vacated, TodoRecord
  <1>3. Reconciled[t].turn # 0 => Reconciled[t] = todo[t]
    BY <1>2 DEF Reconciled
  <1>4. [Reconciled[t] EXCEPT !.status = "BLOCKED"].turn = Reconciled[t].turn
    BY <1>1 DEF TodoRecord
  <1> QED
    BY <1>3, <1>4 DEF Swept, TurnsAreKept

\* Without such a projection only claimed and passed todos carry a turn.
LEMMA NextKeepsTurns ==
    ASSUME SqlStatus \cap (Waiting \cup Stuck) = {}, TypeOK, TurnsAreKept, [Next]_vars
    PROVE  TurnsAreKept'
  <1>1. todo \in [Todo -> TodoRecord] /\ \A t \in Todo : todo[t] \in TodoRecord
    BY DEF TypeOK
  <1>2. N + 1 \in Nat /\ \A u \in Todo : u \in Nat
    BY KernelAssumption DEF KernelAssumption, Todo
  <1> SUFFICES ASSUME NEW t \in Todo
               PROVE  todo'[t].turn # 0 => todo'[t].status \in {"CLAIMED", "PASSED"}
    BY DEF TurnsAreKept
  <1>3. CASE SyncTasks
    <2>1. PICK last \in Todo : \E sql \in [1..last -> SqlStatus] :
             todo' = [u \in Todo |-> IF u \in DOMAIN sql THEN Projected(todo[u], sql[u])
                                                          ELSE todo[u]]
      BY <1>3 DEF SyncTasks, Sync
    <2>2. ASSUME NEW sql \in SqlStatus
          PROVE  Projected(todo[t], sql).turn # 0 =>
                    Projected(todo[t], sql).status \in {"CLAIMED", "PASSED"}
      BY <1>1 DEF Projected, NewTodo, TodoRecord, TodoStatus, Absent, TurnsAreKept
    <2>3. PICK sql \in [1..last -> SqlStatus] :
             todo' = [u \in Todo |-> IF u \in DOMAIN sql THEN Projected(todo[u], sql[u])
                                                          ELSE todo[u]]
      BY <2>1
    <2>4. t \in DOMAIN sql => sql[t] \in SqlStatus
      BY <2>3
    <2> QED
      BY <2>2, <2>3, <2>4 DEF TurnsAreKept
  <1>4. CASE NextTurnDeclines \/ RecoverExpiredLeases
    BY <1>2, <1>4, ReconciledKeepsTurns DEF NextTurnDeclines, RecoverExpiredLeases
  <1>5. CASE NextTurnAsks \/ NextTurnCloses
    <2>1. PICK limit \in Nat : todo' = Swept(Reconciled, limit)
      BY <1>2, <1>5 DEF NextTurnAsks, NextTurnCloses
    <2> QED
      BY <2>1, ReconciledKeepsTurns
  <1>6. CASE NextTurnClaims
    <2>1. PICK u \in Todo :
             todo' = [Swept(Reconciled, u) EXCEPT ![u] = Claimed(@, quota.started + 1)]
      BY <1>6 DEF NextTurnClaims
    <2>2. Swept(Reconciled, u) \in [Todo -> TodoRecord]
      BY <1>1, <1>2, ReconciledType, SweptType
    <2>3. ASSUME NEW record \in TodoRecord
          PROVE  Claimed(record, quota.started + 1).status = "CLAIMED"
      BY DEF Claimed, TodoRecord
    <2>4. t = u => todo'[t].status = "CLAIMED"
      BY <2>1, <2>2, <2>3
    <2>5. t # u => todo'[t] = Swept(Reconciled, u)[t]
      BY <2>1, <2>2
    <2> QED
      BY <1>2, <2>4, <2>5, ReconciledKeepsTurns
  <1>7. CASE \E k \in alive, kind \in Kind, cost \in Cost : RecordResult(k, kind, cost)
    <2>1. PICK k \in alive, kind \in Kind, cost \in Cost :
             todo' = [todo EXCEPT ![issued[k]] = AfterResult(@, kind)]
      BY <1>7 DEF RecordResult
    <2>2. AfterResult(todo[t], kind).turn = 0
      BY <1>1 DEF AfterResult, Vacated, TodoRecord
    <2> QED
      BY <1>1, <2>1, <2>2 DEF TurnsAreKept
  <1>8. CASE \E k \in alive : RenewLease(k)
    BY <1>1, <1>8 DEF RenewLease, TurnsAreKept, TodoRecord
  <1>9. CASE \/ \E k \in alive : WorkerDies(k)
             \/ RequireReleasePromotion \/ MarkReleaseCompleted \/ WallClockRunsOut
             \/ UNCHANGED vars
    BY <1>9 DEF WorkerDies, RequireReleasePromotion, MarkReleaseCompleted,
                WallClockRunsOut, vars, TurnsAreKept
  <1>10. CASE Repair
    BY <1>1, <1>10 DEF Repair, RecordRepairHandoff, ReopenAfterRepair, TurnsAreKept, TodoRecord
  <1>11. CASE \E reason \in AbortReason : Abort(reason)
    <2>1. todo' = Interrupted
      BY <1>11 DEF Abort
    <2>2. Vacated(todo[t], "BLOCKED").turn = 0
      BY <1>1 DEF Vacated, TodoRecord
    <2> QED
      BY <2>1, <2>2 DEF Interrupted, TurnsAreKept
  <1>12. CASE Operator /\ ~\E reason \in AbortReason : Abort(reason)
    BY <1>12 DEF Operator, SetGate, AnswerGate, Pause, Resume, SetGoalStatus, TurnsAreKept
  <1>13. CASE Tick \/ \E u \in Todo : BackoffElapses(u)
    BY <1>1, <1>13 DEF Tick, BackoffElapses, TurnsAreKept, TodoRecord
  <1> QED
    BY <1>3, <1>4, <1>5, <1>6, <1>7, <1>8, <1>9, <1>10, <1>11, <1>12, <1>13, NextSplits
    DEF QuietNext

\* A todo whose lease is running is handed to nobody else, as long as no
\* projection puts a claimed todo back in line: next_turn, recovery, repairs,
\* renewals and operators never take a live turn away and give it out again.
THEOREM LiveTurnsAreExclusive ==
    ASSUME SqlStatus \cap (Waiting \cup Stuck) = {}
    PROVE  Spec => LiveTurnIsExclusive
  <1>1. Init => TurnsAreKept
    BY DEF Init, TurnsAreKept, NewTodo
  <1>2. TypeOK /\ TurnsAreKept /\ [Next]_vars => TurnsAreKept'
    BY NextKeepsTurns
  <1>3. ASSUME TypeOK, TurnsAreKept, [Next]_vars, NEW t \in Todo,
               todo'[t].status = "CLAIMED", todo'[t].turn # todo[t].turn
        PROVE  todo[t].turn = 0 \/ todo[t].lease = 0
    <2>1. CASE QuietNext
      BY <1>3, <2>1, QuietKeepsClaims DEF ClaimKept
    <2>2. CASE NextTurnClaims
      <3>1. PICK u \in Todo :
               /\ u \in Claimable(Reconciled)
               /\ todo' = [Swept(Reconciled, u) EXCEPT ![u] = Claimed(@, quota.started + 1)]
        BY <2>2 DEF NextTurnClaims, IsFirst
      <3>2. CASE t = u
        BY <1>3, <3>1, <3>2 DEF Claimable, Reconciled, LeaseOver, TurnsAreKept
      <3>3. CASE t # u
        <4>1. todo'[t] = Swept(Reconciled, u)[t]
          BY <3>1, <3>3 DEF Swept
        <4>2. u \in Nat
          BY KernelAssumption DEF KernelAssumption, Todo
        <4> QED
          BY <1>3, <4>1, <4>2, ReconciledKeepsClaims
      <3> QED
        BY <3>2, <3>3
    <2>3. CASE \E k \in alive, kind \in Kind, cost \in Cost : RecordResult(k, kind, cost)
      <3>1. PICK k \in alive, kind \in Kind, cost \in Cost :
               todo' = [todo EXCEPT ![issued[k]] = AfterResult(@, kind)]
        BY <2>3 DEF RecordResult
      <3>2. todo[t] \in TodoRecord
        BY <1>3 DEF TypeOK
      <3>3. AfterResult(todo[t], kind).status # "CLAIMED"
        BY <3>2 DEF AfterResult, Vacated, TodoRecord
      <3> QED
        BY <1>3, <3>1, <3>3 DEF TypeOK
    <2>4. CASE UNCHANGED vars
      BY <1>3, <2>4 DEF vars
    <2> QED
      BY <1>3, <2>1, <2>2, <2>3, <2>4, NextSplits
  <1>4. ASSUME TypeOK, TurnsAreKept, [Next]_vars
        PROVE  \A t \in Todo : (todo'[t].status = "CLAIMED" /\ todo'[t].turn # todo[t].turn)
                                  => todo[t].turn = 0 \/ todo[t].lease = 0
    BY <1>3, <1>4
  <1> QED
    BY <1>1, <1>2, <1>4, TypeCorrect, PTL DEF Spec, LiveTurnIsExclusive
=============================================================================
