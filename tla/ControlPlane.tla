---------------------------- MODULE ControlPlane ----------------------------
(***************************************************************************)
(* The goal/todo/turn kernel of the control plane                          *)
(* (backend/localforge/control_plane/kernel.py).  Every operation of the   *)
(* kernel is one read-modify-write under the store's file lock, so every   *)
(* operation is one action here; module ControlPlaneStore opens up the     *)
(* write itself.  An operation that raises ValueError persists nothing and *)
(* is not a step.                                                          *)
(*                                                                         *)
(* A turn id (a uuid in the code) is the ordinal of the claim that minted  *)
(* it; 0 stands for None.  The lease token minted with turn k is also      *)
(* written k: it is cleared separately from the turn id, so it has a field *)
(* of its own.  A todo's owner is always set and cleared together with its *)
(* token and is not kept apart.  Time is a tick; lease counts the ticks    *)
(* left to lease_expires_at and deferred says that next_retry_at is still  *)
(* in the future.                                                          *)
(***************************************************************************)
EXTENDS Integers, Sequences, FiniteSets

CONSTANTS
    N,             \* the todos the goal may ever hold are 1..N, in list order
    Initial,       \* how many of them the goal is started with
    Deps,          \* [Todo -> SUBSET Todo], TodoState.dependencies
    Gate,          \* gate ids
    Lane,          \* [Gate -> SUBSET Todo], affected_todo_ids; {} is every lane
    Handoff,       \* repair handoff ids
    MaxTurns,      \* QuotaState.max_turns
    MaxAttempts,   \* QuotaState.max_attempts_per_todo
    MaxCost,       \* QuotaState.max_cost_usd
    Term,          \* the ticks a claim or a renewal grants
    Cost,          \* the costs a result may report
    Kind,          \* the result kinds workers report
    SqlStatus,     \* the task statuses a scheduler may project with sync_tasks
    GateSetting,   \* the statuses set_gate may be given
    Answer,        \* the answers an operator may give to a gate
    PauseReason, AbortReason,  \* the reasons operators give
    MaxCrashes,    \* bound on the workers that die
    WallLimited,   \* whether max_wall_seconds is set
    NeedsRelease   \* requires_release_promotion at start

TurnResultKind == {"VALIDATED_PROGRESS", "VALIDATED_COMPLETION", "REPAIR_REQUIRED",
                   "REPLAN_REQUIRED", "USER_ACTION_REQUIRED", "WAIT", "HOST_FAILURE",
                   "VALIDATION_FAILED", "WRITEBACK_FAILED", "QUOTA_SPEND_FAILED"}
GateStatus == {"OPEN", "PASSED", "FAILED", "HUMAN_REVIEW"}
GoalStatus == {"ACTIVE", "PAUSED", "BLOCKED", "COMPLETED", "FAILED"}
TodoStatus == {"PENDING", "CLAIMED", "PASSED", "BLOCKED", "SKIPPED"}
TaskStatus == {"BACKLOG", "READY", "CLAIMED", "PLANNING", "IMPLEMENTING", "TESTING",
               "REPAIRING", "REVIEWING", "PR_READY", "DONE", "BLOCKED", "FAILED_SAFE",
               "BLOCKED_NEEDS_HUMAN_REVIEW", "CANCELLED"}

Todo == 1..N
Absent == "ABSENT"    \* the status of a todo the goal does not hold yet
NoLease == -1         \* lease_expires_at is None
AnyTodo == 0          \* the argument None of _gate_for_frontier

ASSUME KernelAssumption ==
    /\ N \in Nat /\ Initial \in 0..N
    /\ Deps \in [Todo -> SUBSET Todo]
    /\ Lane \in [Gate -> SUBSET Todo]
    /\ MaxTurns \in Nat \ {0} /\ MaxAttempts \in Nat \ {0} /\ MaxCost \in Nat
    /\ Term \in Nat \ {0} /\ MaxCrashes \in Nat
    /\ Cost \subseteq Nat
    /\ Kind \subseteq TurnResultKind
    /\ SqlStatus \subseteq TaskStatus
    /\ GateSetting \subseteq GateStatus
    /\ WallLimited \in BOOLEAN /\ NeedsRelease \in BOOLEAN

VARIABLES
    goalStatus,    \* goal.status
    needsRelease,  \* goal.requires_release_promotion
    released,      \* a release_completed event is in the state
    todo,          \* the todo list
    gate,          \* the gates, Absent until set_gate creates one
    handoffs,      \* the repair handoffs on record
    receipts,      \* the receipts, oldest first
    quota,         \* turns_started, turns_committed, cost_committed_usd
    wallOver,      \* max_wall_seconds has elapsed
    applied,       \* applied_operations, without the ids that never recur
    issued,        \* issued[k] is the todo of the decision that carried turn k
    alive          \* the turns whose worker can still renew or write back

vars == <<goalStatus, needsRelease, released, todo, gate, handoffs, receipts,
          quota, wallOver, applied, issued, alive>>

Done == {"PASSED", "SKIPPED"}
Validated == {"VALIDATED_PROGRESS", "VALIDATED_COMPLETION"}
Undecided == {"OPEN", "HUMAN_REVIEW"}
Finished == {"PR_READY", "DONE"}
Stuck == {"BLOCKED", "FAILED_SAFE", "BLOCKED_NEEDS_HUMAN_REVIEW"}
Waiting == {"READY", "BACKLOG"}

OperationId ==
    ({"result"} \X Nat \X TurnResultKind)
    \cup ({"handoff", "reopen"} \X Todo \X Handoff)
    \cup ({"gate"} \X Gate \X GateStatus) \cup ({"gate-answer"} \X Gate \X Answer)
    \cup ({"goal"} \X {"PAUSED"} \X PauseReason) \cup {<<"goal", "ACTIVE", "operator_resume">>}
    \cup ({"abort"} \X AbortReason) \cup {<<"release-completed">>}

TodoRecord == [status : TodoStatus \cup {Absent}, turn : Nat, token : Nat,
               lease : NoLease..Term, attempts : Nat, deferred : BOOLEAN]

TypeOK ==
    /\ goalStatus \in GoalStatus
    /\ needsRelease \in BOOLEAN /\ released \in BOOLEAN /\ wallOver \in BOOLEAN
    /\ todo \in [Todo -> TodoRecord]
    /\ gate \in [Gate -> GateStatus \cup {Absent}]
    /\ handoffs \subseteq Handoff
    /\ receipts \in Seq([todo : Todo, turn : Nat, kind : TurnResultKind, cost : Nat])
    /\ quota \in [started : Nat, committed : Nat, cost : Nat]
    /\ applied \subseteq OperationId
    /\ issued \in Seq(Todo)
    /\ quota.started = Len(issued)
    /\ alive \subseteq DOMAIN issued

-----------------------------------------------------------------------------
(***************************************************************************)
(* A definition named Name_Fault is Name with a plausible fault.  No       *)
(* specification uses one; it shows which property would notice the fault. *)
(***************************************************************************)

(***************************************************************************)
(* What the handlers read.                                                 *)
(***************************************************************************)

GateFor_GlobalOnly(t) == \E g \in Gate : gate[g] \in Undecided /\ Lane[g] = {}

\* _gate_for_frontier: a required, undecided gate holds up the lane of t.
GateFor(t) ==
    \E g \in Gate : gate[g] \in Undecided /\ (Lane[g] = {} \/ t \in Lane[g])

OpenRequiredGate == \E g \in Gate : gate[g] \in Undecided

AllDone(todos) == \A t \in Todo : todos[t].status \in Done \cup {Absent}

GoalReached_ForgetsGates(todos) == AllDone(todos) /\ (needsRelease => released)

\* The completion test that next_turn and record_result share.
GoalReached(todos) ==
    AllDone(todos) /\ ~OpenRequiredGate /\ (needsRelease => released)

GoalStatusAfter(todos) == IF GoalReached(todos) THEN "COMPLETED" ELSE goalStatus

DepsDone(todos, t) == \A d \in Deps[t] : todos[d].status \in Done

\* A todo that leaves its turn: owner, turn, token and lease are cleared.
Vacated(record, status) ==
    [record EXCEPT !.status = status, !.turn = 0, !.token = 0, !.lease = NoLease]

LeaseOver_Early(record) == record.status = "CLAIMED" /\ record.lease \in 0..1
LeaseOver_Late(record) == record.status = "CLAIMED" /\ record.lease < 0
LeaseOver(record) == record.status = "CLAIMED" /\ record.lease = 0

Exhausted_OffByOne(record) == record.attempts > MaxAttempts
Exhausted(record) == record.attempts >= MaxAttempts

\* _reconcile_expired: the todo list once every expired turn is taken back.
Reconciled ==
    [t \in Todo |->
        IF LeaseOver(todo[t])
        THEN [Vacated(todo[t], IF Exhausted(todo[t]) THEN "BLOCKED" ELSE "PENDING")
                EXCEPT !.deferred = FALSE]
        ELSE todo[t]]

\* Store.update: an operation id that was applied before is dropped.
Fresh(operation) == operation \notin applied
Record(operation) == applied' = applied \cup {operation}

QuotaSpent == \/ wallOver
              \/ quota.started >= MaxTurns
              \/ quota.cost >= MaxCost

\* The todos next_turn could claim, and the list once the loop has blocked
\* the exhausted todos it passed on the way to todo number limit.
Claimable(todos) ==
    {t \in Todo : /\ todos[t].status = "PENDING"
                  /\ ~Exhausted(todos[t])
                  /\ DepsDone(todos, t)}

Swept(todos, limit) ==
    [t \in Todo |->
        IF t < limit /\ todos[t].status = "PENDING" /\ Exhausted(todos[t])
        THEN [todos[t] EXCEPT !.status = "BLOCKED"]
        ELSE todos[t]]

IsFirst(t, todos) == t \in Claimable(todos) /\ \A u \in Claimable(todos) : t <= u

\* next_turn gets past the goal, the quotas, the global gates and the blocked
\* todos, and walks the list.
Walks(todos) ==
    /\ goalStatus = "ACTIVE"
    /\ ~QuotaSpent
    /\ ~GateFor(AnyTodo)
    /\ \A t \in Todo : todos[t].status # "BLOCKED"

HoldsTurn_AnyTurn(t, k) == todo[t].status = "CLAIMED"

\* record_result and renew_lease: turn k is the one that holds todo t.
HoldsTurn(t, k) == todo[t].status = "CLAIMED" /\ todo[t].turn = k

-----------------------------------------------------------------------------
(***************************************************************************)
(* start.  The todos take their status from the tasks of the project.  A   *)
(* later start of the same goal returns the state unchanged.               *)
(***************************************************************************)
NewTodo(status) == [status |-> status, turn |-> 0, token |-> 0, lease |-> NoLease,
                    attempts |-> 0, deferred |-> FALSE]

StatusAtStart == {"PENDING", "PASSED", "BLOCKED"}

Init ==
    /\ goalStatus = "ACTIVE"
    /\ needsRelease = NeedsRelease
    /\ released = FALSE
    /\ \E status \in [1..Initial -> StatusAtStart] :
          todo = [t \in Todo |-> NewTodo(IF t <= Initial THEN status[t] ELSE Absent)]
    /\ gate = [g \in Gate |-> Absent]
    /\ handoffs = {}
    /\ receipts = <<>>
    /\ quota = [started |-> 0, committed |-> 0, cost |-> 0]
    /\ wallOver = FALSE
    /\ applied = {}
    /\ issued = <<>>
    /\ alive = {}

(***************************************************************************)
(* sync_tasks: the scheduler projects the SQL tasks on the todo list.  The *)
(* list only ever grows at its end.                                        *)
(***************************************************************************)
Projected_Verbatim(record, sql) == [record EXCEPT !.status = sql]

Projected(record, sql) ==
    CASE record.status = Absent -> NewTodo("PENDING")
      [] record.status # Absent /\ sql \in Finished ->
            [record EXCEPT !.status = "PASSED", !.token = 0]
      [] record.status # Absent /\ sql \in Stuck -> [record EXCEPT !.status = "BLOCKED"]
      [] record.status # Absent /\ sql \in Waiting /\ record.status # "PASSED" ->
            [record EXCEPT !.status = "PENDING"]
      [] OTHER -> record

Sync(sql) ==
    /\ todo' = [t \in Todo |-> IF t \in DOMAIN sql THEN Projected(todo[t], sql[t])
                                                  ELSE todo[t]]
    /\ UNCHANGED <<goalStatus, needsRelease, released, gate, handoffs, receipts,
                   quota, wallOver, applied, issued, alive>>

SyncTasks ==
    \E last \in Todo :
        /\ \A t \in Todo : t > last => todo[t].status = Absent
        /\ \E sql \in [1..last -> SqlStatus] : Sync(sql)

(***************************************************************************)
(* next_turn.  Each call first takes expired turns back.                   *)
(***************************************************************************)

\* COMPLETE, WAIT, ASK (a global gate, or the gate of a blocked todo) and
\* REPAIR: the call leaves before the walk.
NextTurnDeclines ==
    /\ ~Walks(Reconciled)
    /\ todo' = Reconciled
    /\ UNCHANGED <<goalStatus, needsRelease, released, gate, handoffs, receipts,
                   quota, wallOver, applied, issued, alive>>

\* ASK: the first todo in line has an open gate.
NextTurnAsks ==
    /\ Walks(Reconciled)
    /\ \E t \in Todo :
          /\ IsFirst(t, Reconciled)
          /\ GateFor(t)
          /\ todo' = Swept(Reconciled, t)
    /\ UNCHANGED <<goalStatus, needsRelease, released, gate, handoffs, receipts,
                   quota, wallOver, applied, issued, alive>>

\* READY: the first todo in line gets a fresh turn.
Claimed(record, k) ==
    [record EXCEPT !.status = "CLAIMED", !.turn = k, !.token = k, !.lease = Term,
                   !.attempts = @ + 1]

NextTurnClaims ==
    /\ Walks(Reconciled)
    /\ \E t \in Todo :
          /\ IsFirst(t, Reconciled)
          /\ ~GateFor(t)
          /\ todo' = [Swept(Reconciled, t) EXCEPT ![t] = Claimed(@, quota.started + 1)]
          /\ issued' = Append(issued, t)
    /\ quota' = [quota EXCEPT !.started = @ + 1]
    /\ alive' = alive \cup {quota.started + 1}
    /\ UNCHANGED <<goalStatus, needsRelease, released, gate, handoffs, receipts,
                   wallOver, applied>>

\* COMPLETE or WAIT: the walk found nothing to claim.
NextTurnCloses ==
    /\ Walks(Reconciled)
    /\ Claimable(Reconciled) = {}
    /\ todo' = Swept(Reconciled, N + 1)
    /\ goalStatus' = GoalStatusAfter(todo')
    /\ UNCHANGED <<needsRelease, released, gate, handoffs, receipts, quota,
                   wallOver, applied, issued, alive>>

NextTurn == NextTurnDeclines \/ NextTurnAsks \/ NextTurnClaims \/ NextTurnCloses

(***************************************************************************)
(* record_result: the worker of turn k reports.  Workers retry, so the     *)
(* same report may come again and a different one may come late; the       *)
(* idempotency key tells reports of different kinds apart.                 *)
(***************************************************************************)
AfterResult(record, kind) ==
    [Vacated(record, IF kind \in Validated THEN "PASSED" ELSE "BLOCKED")
        EXCEPT !.deferred = kind \notin Validated /\ record.attempts > 1]

Affordable(cost) == quota.cost + cost <= MaxCost

RecordResult(k, kind, cost) ==
    LET t == issued[k]
        operation == <<"result", k, kind>>
    IN  /\ Fresh(operation)
        /\ HoldsTurn(t, k)
        /\ Affordable(cost)
        /\ receipts' = Append(receipts, [todo |-> t, turn |-> k, kind |-> kind,
                                         cost |-> cost])
        /\ quota' = [quota EXCEPT !.committed = @ + 1, !.cost = @ + cost]
        /\ todo' = [todo EXCEPT ![t] = AfterResult(@, kind)]
        /\ goalStatus' = GoalStatusAfter(todo')
        /\ Record(operation)
        /\ UNCHANGED <<needsRelease, released, gate, handoffs, wallOver, issued, alive>>

(***************************************************************************)
(* renew_lease and recover_expired_leases.  Renewal ids are fresh, so they *)
(* are not kept in applied.                                                *)
(***************************************************************************)
RenewLease(k) ==
    LET t == issued[k]
    IN  /\ HoldsTurn(t, k)
        /\ todo[t].token = k
        /\ ~LeaseOver(todo[t])
        /\ todo' = [todo EXCEPT ![t].lease = Term]
        /\ UNCHANGED <<goalStatus, needsRelease, released, gate, handoffs, receipts,
                       quota, wallOver, applied, issued, alive>>

RecoverExpiredLeases ==
    /\ todo' = Reconciled
    /\ UNCHANGED <<goalStatus, needsRelease, released, gate, handoffs, receipts,
                   quota, wallOver, applied, issued, alive>>

(***************************************************************************)
(* The release lane.                                                       *)
(***************************************************************************)
RequireReleasePromotion ==
    /\ needsRelease' = TRUE
    /\ UNCHANGED <<goalStatus, released, todo, gate, handoffs, receipts, quota,
                   wallOver, applied, issued, alive>>

MarkReleaseCompleted ==
    /\ Fresh(<<"release-completed">>)
    /\ AllDone(todo)
    /\ ~OpenRequiredGate
    /\ goalStatus' = "COMPLETED"
    /\ released' = TRUE
    /\ Record(<<"release-completed">>)
    /\ UNCHANGED <<needsRelease, todo, gate, handoffs, receipts, quota, wallOver,
                   issued, alive>>

(***************************************************************************)
(* The repair lane: a diagnosis is put on record, then the todo reopened.  *)
(* The kernel does not ask whether the handoff is about this todo.         *)
(***************************************************************************)
RecordRepairHandoff(t, h) ==
    /\ Fresh(<<"handoff", t, h>>)
    /\ todo[t].status # Absent
    /\ handoffs' = handoffs \cup {h}
    /\ Record(<<"handoff", t, h>>)
    /\ UNCHANGED <<goalStatus, needsRelease, released, todo, gate, receipts, quota,
                   wallOver, issued, alive>>

ReopenAfterRepair(t, h) ==
    /\ Fresh(<<"reopen", t, h>>)
    /\ todo[t].status \in {"BLOCKED", "PENDING"}
    /\ h \in handoffs
    /\ todo' = [todo EXCEPT ![t].status = "PENDING"]
    /\ goalStatus' = "ACTIVE"
    /\ Record(<<"reopen", t, h>>)
    /\ UNCHANGED <<needsRelease, released, gate, handoffs, receipts, quota,
                   wallOver, issued, alive>>

(***************************************************************************)
(* Human gates.  The operation id of set_gate is a fingerprint of the gate *)
(* and that of answer_gate holds the answer.                               *)
(***************************************************************************)
SetGate(g, status) ==
    /\ Fresh(<<"gate", g, status>>)
    /\ gate' = [gate EXCEPT ![g] = status]
    /\ Record(<<"gate", g, status>>)
    /\ UNCHANGED <<goalStatus, needsRelease, released, todo, handoffs, receipts,
                   quota, wallOver, issued, alive>>

AnswerGate(g, answer) ==
    /\ Fresh(<<"gate-answer", g, answer>>)
    /\ gate[g] # Absent
    /\ gate' = [gate EXCEPT ![g] = "PASSED"]
    /\ Record(<<"gate-answer", g, answer>>)
    /\ UNCHANGED <<goalStatus, needsRelease, released, todo, handoffs, receipts,
                   quota, wallOver, issued, alive>>

(***************************************************************************)
(* Operator commands.                                                      *)
(***************************************************************************)
SetGoalStatus(status, reason) ==
    /\ Fresh(<<"goal", status, reason>>)
    /\ goalStatus' = status
    /\ Record(<<"goal", status, reason>>)
    /\ UNCHANGED <<needsRelease, released, todo, gate, handoffs, receipts, quota,
                   wallOver, issued, alive>>

Pause(reason) == SetGoalStatus("PAUSED", reason)

\* The API and the CLI call resume without a reason.
Resume == SetGoalStatus("ACTIVE", "operator_resume")

Interrupted_GoalOnly == todo

Interrupted ==
    [t \in Todo |-> IF todo[t].status = "CLAIMED" THEN Vacated(todo[t], "BLOCKED")
                                                 ELSE todo[t]]

Abort(reason) ==
    /\ Fresh(<<"abort", reason>>)
    /\ goalStatus \notin {"COMPLETED", "FAILED", "BLOCKED"}
    /\ todo' = Interrupted
    /\ goalStatus' = "BLOCKED"
    /\ Record(<<"abort", reason>>)
    /\ UNCHANGED <<needsRelease, released, gate, handoffs, receipts, quota,
                   wallOver, issued, alive>>

(***************************************************************************)
(* The world: time passes, and the process that works on a turn dies.      *)
(***************************************************************************)
Tick ==
    /\ \E t \in Todo : todo[t].lease > 0
    /\ todo' = [t \in Todo |-> IF todo[t].lease > 0 THEN [todo[t] EXCEPT !.lease = @ - 1]
                                                    ELSE todo[t]]
    /\ UNCHANGED <<goalStatus, needsRelease, released, gate, handoffs, receipts,
                   quota, wallOver, applied, issued, alive>>

BackoffElapses(t) ==
    /\ todo[t].deferred
    /\ todo' = [todo EXCEPT ![t].deferred = FALSE]
    /\ UNCHANGED <<goalStatus, needsRelease, released, gate, handoffs, receipts,
                   quota, wallOver, applied, issued, alive>>

WallClockRunsOut ==
    /\ WallLimited /\ ~wallOver
    /\ wallOver' = TRUE
    /\ UNCHANGED <<goalStatus, needsRelease, released, todo, gate, handoffs,
                   receipts, quota, applied, issued, alive>>

WorkerDies(k) ==
    /\ quota.started - Cardinality(alive) < MaxCrashes
    /\ alive' = alive \ {k}
    /\ UNCHANGED <<goalStatus, needsRelease, released, todo, gate, handoffs,
                   receipts, quota, wallOver, applied, issued>>

-----------------------------------------------------------------------------
Worker(k) == \/ \E kind \in Kind, cost \in Cost : RecordResult(k, kind, cost)
             \/ RenewLease(k)
             \/ WorkerDies(k)

Repair == \E t \in Todo, h \in Handoff : RecordRepairHandoff(t, h) \/ ReopenAfterRepair(t, h)

Operator == \/ \E g \in Gate, status \in GateSetting : SetGate(g, status)
            \/ \E g \in Gate, answer \in Answer : AnswerGate(g, answer)
            \/ \E reason \in PauseReason : Pause(reason)
            \/ Resume
            \/ \E reason \in AbortReason : Abort(reason)

Next == \/ SyncTasks
        \/ NextTurn
        \/ \E k \in alive : Worker(k)
        \/ RecoverExpiredLeases
        \/ RequireReleasePromotion
        \/ MarkReleaseCompleted
        \/ Repair
        \/ Operator
        \/ Tick
        \/ \E t \in Todo : BackoffElapses(t)
        \/ WallClockRunsOut

Spec == Init /\ [][Next]_vars

\* The clock runs, and the persistent runner recovers leases on every tick of
\* its loop (runner.py).  Workers, operators and the scheduler promise nothing.
FairSpec == Spec /\ WF_vars(Tick) /\ WF_vars(RecoverExpiredLeases)

-----------------------------------------------------------------------------
(***************************************************************************)
(* Properties.                                                             *)
(***************************************************************************)

\* A claimed todo carries the newest turn minted for it, the token and the
\* lease of that turn (so that recovery can take it back: a claim without a
\* lease would never expire), and that turn has not been written back.
ClaimsAreHeld ==
    \A t \in Todo : todo[t].status = "CLAIMED" =>
        /\ todo[t].turn \in DOMAIN issued /\ issued[todo[t].turn] = t
        /\ \A k \in DOMAIN issued : issued[k] = t => k <= todo[t].turn
        /\ todo[t].token = todo[t].turn
        /\ todo[t].lease # NoLease
        /\ \A i \in DOMAIN receipts : receipts[i].turn # todo[t].turn

\* A goal that is no longer running holds no lease: neither an abort nor any
\* road to completion leaves a worker with a turn (kernel.abort, "without
\* leaving an active lease behind").
ClosedGoalHoldsNoLease ==
    goalStatus \in {"BLOCKED", "COMPLETED"} =>
        \A t \in Todo : todo[t].status # "CLAIMED"

\* A turn is paid for once, however often its worker retries, however late it
\* answers and whoever has the todo by then: every receipt is of a minted turn
\* and of the todo it was minted for, and no two receipts share a turn.
ExactlyOnceWriteback ==
    /\ \A i \in DOMAIN receipts :
          /\ receipts[i].turn \in DOMAIN issued
          /\ issued[receipts[i].turn] = receipts[i].todo
    /\ \A i, j \in DOMAIN receipts : receipts[i].turn = receipts[j].turn => i = j

\* What some receipts cost together.
CostOf(paid) ==
    LET sum[i \in 0 .. Len(paid)] == IF i = 0 THEN 0 ELSE sum[i - 1] + paid[i].cost
    IN  sum[Len(paid)]

\* The committed cost and the committed turns are those of the receipts, and
\* the cost stays inside the quota.
CostIsAccounted ==
    /\ quota.committed = Len(receipts)
    /\ quota.cost = CostOf(receipts)
    /\ quota.cost <= MaxCost

\* A todo is never handed out more often than the attempt quota allows, through
\* every reopening, projection and recovery in between.
AttemptQuotaHolds ==
    /\ Len(issued) <= MaxTurns
    /\ \A t \in Todo :
          Cardinality({k \in DOMAIN issued : issued[k] = t}) <= MaxAttempts

\* Both quotas hold whatever recoveries, late results and repairs come in between
\* (next_turn, record_result).
QuotasHold == CostIsAccounted /\ AttemptQuotaHolds

\* A turn is only ever minted while the goal is running and inside its budget,
\* for a todo whose dependencies are validated and whose lane no human gate
\* holds up.
Licensed(t) ==
    /\ goalStatus = "ACTIVE" /\ ~wallOver /\ quota.cost < MaxCost
    /\ \A d \in Deps[t] : todo'[d].status \in {"PASSED", "SKIPPED"}
    /\ \A g \in Gate : gate[g] \in {"OPEN", "HUMAN_REVIEW"} =>
                          Lane[g] # {} /\ t \notin Lane[g]

TurnsAreLicensed ==
    [][Len(issued') > Len(issued) => Licensed(issued'[Len(issued')])]_vars

\* The goal is closed as completed only when every todo is validated, no human
\* gate is undecided, and the release, if the goal needs one, is on record.
CompletionIsEarned ==
    [][goalStatus # "COMPLETED" /\ goalStatus' = "COMPLETED" =>
          /\ \A t \in Todo : todo'[t].status \in {"PASSED", "SKIPPED", Absent}
          /\ \A g \in Gate : gate'[g] \notin {"OPEN", "HUMAN_REVIEW"}
          /\ needsRelease' => released']_vars

\* While the lease of a turn is running nobody else gets a turn of that todo
\* (docs/MASTER_BACKLOG_V9_LOOPX_LIKE.md: "two workers cannot claim the same
\* todo").
LiveTurnIsExclusive ==
    [][\A t \in Todo :
          (todo'[t].status = "CLAIMED" /\ todo'[t].turn # todo[t].turn)
             => todo[t].turn = 0 \/ todo[t].lease = 0]_vars

\* A turn whose worker died does not stay claimed.
OrphansAreRecovered ==
    \A k \in 1..MaxTurns :
        (k \in DOMAIN issued /\ k \notin alive)
            ~> (\A t \in Todo : ~HoldsTurn(t, k))

\* The kernel implements the ledger of turns.
Ledger == INSTANCE TurnLedger WITH
    open <- [t \in Todo |-> IF todo[t].status = "CLAIMED" THEN todo[t].turn ELSE 0],
    minted <- quota.started,
    ledger <- [i \in DOMAIN receipts |->
                  [todo |-> receipts[i].todo, turn |-> receipts[i].turn]]

ImplementsTurnLedger == Ledger!Spec
=============================================================================
