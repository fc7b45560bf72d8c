# ForgeOS / LocalForge: a TLA+ verification project

LocalForge (`backend/localforge`) is a local "software factory": it turns a PRD
into a plan of tasks, runs coding agents on them in worktrees, repairs, reviews,
and promotes the result to a release.  This project models the parts of it that
*decide* - who may work on what, for how long, how often, what is written down
about it, and when something counts as finished - and leaves the parts that
generate text, call models or run shells at their interface.

## 1. Inventory of the system

| part | where | state it keeps | operations | who calls it |
|---|---|---|---|---|
| control-plane kernel | `control_plane/kernel.py`, `contracts.py` | goal, todos, gates, receipts, quota, handoffs, applied operation ids | `start`, `sync_tasks`, `next_turn`, `record_result`, `renew_lease`, `recover_expired_leases`, release lane, repair lane, gates, pause/resume/abort | scheduler, worker bridge, persistent runner, API, CLI |
| control-plane store | `control_plane/store.py` | a snapshot file and an append-only hash-chained journal under a file lock | `read`, `update`, `replay`, `verify_replay` | the kernel |
| worker bridge and persistent runner | `control_plane/worker.py`, `runner.py`, `registry.py` | a registry of state files | ticks: recover leases, project, take a turn, execute, write back | host processes |
| scheduler | `services/scheduler.py` | SQL tasks, runs, task runs | one polling iteration: project on the kernel, dispatch, monitor, repair, finalize | API and CLI `run` |
| task lifecycle | `services/task.py` | task status, evidence of PR readiness | `update_task_status`, `mark_pr_ready`, `update_task`, `is_task_runnable` | scheduler, pipeline, API |
| role pipeline | `pipeline/engine.py`, `roles.py` | product in a worktree, call and repair counters, evidence | roles, coder turns, validation, repairs, rescues, recovery rounds, visual rollback | scheduler |
| chief engineer, final review | `chief_engineer/service.py`, `final_review.py` | none between calls | plans, sections, repairs, reviews by remote models | pipeline |
| model-call ledger, units of work | `services/model_calls.py`, `storage/transactions.py` | ledger rows; a buffer of the class | `ensure_budget`, `record_call`, `_persist_pending_model_calls`, `__aexit__` | every model call, every request |
| release promotion | `services/release_promotion.py`, `cli/release.py`, `api/routes/release.py` | release record of a run, requests for approval, the target branch | plan, request, merge, test, audit, block, complete | scheduler, API, CLI |
| path leases | `services/path_lease.py` | leases on paths, wait queue | acquire, wait, cancel, expire, release, renew | pipeline, scheduler |
| runner pool | `services/runner_pool.py`, `governed_execution.py` | runners with a count of tasks, dispatch log with leases | dispatch, release, cancel, health, reconcile | governed execution, loops, swarms |
| loops | `services/loop_coordinator.py`, `loop_service.py`, `loop_runtime.py` | loop definitions, loop runs, schedule claims | due schedules, external events, pause, resume, recovery, kill | API server, CLI |
| light swarms | `services/light_swarm*.py` | plan, run, statuses of nodes | start, dispatch, complete, fail, retry, kill, aggregate | API, CLI, workers |
| task graph | `services/task_graph.py` | versions, mutation journal, deep run | mutate, replay, tick, side effects, kill, reconcile | API, CLI |
| harness document, subagents | `runtime/harness_state.py`, `subagents.py`, `api/routes/harness.py` | a JSON document, its snapshots and backup under a file lock | upsert, refine, delete, each with a snapshot to roll back to; register and move a subagent | API, agents |
| engineering continuity | `services/engineering.py` | sessions, goals with revisions, turns | transitions, revisions, admission of turns | API, CLI |
| circuit breakers | `services/circuit_breaker.py` | a breaker per scope | check, failure, progress, reset, escalate | pipeline, swarms (write), loops (read) |
| safety kernel, approvals | `safety/`, `services/safety.py` | requests for approval | classify, request, decide | pipeline, release |
| lifecycle events, memory, catalogues, automations, operational loops, PRD and PR factory, gitops, sandbox, UI, scripts | `events/`, `services/memory*.py`, `deepcode_capabilities.py`, `prd/`, `pr_factory/`, `gitops/`, `sandbox/`, `api/`, `cli/`, `frontend/`, `scripts/` | rows, files, subprocesses, texts | generation, rendering and I/O | - |

How they interact.  The scheduler, the persistent runner, the worker bridge, the
API and the CLI are separate processes that meet in the control-plane state file
(one read-modify-write under a file lock per operation) and, independently, in
the SQL database.  The scheduler *projects* SQL task statuses on the kernel
(`sync_tasks`) before each of its iterations and reports results back; nothing
makes the two stores change together.  It awaits one role pipeline per task, which
asks models through the ledger, and when all tasks have ended it promotes the
release, as operators may do beside it.  Loops start scheduler runs; they, swarms
and governed execution share the runner pool.  Requests of the API are units of
work that overlap: each reads rows, decides in Python and writes back the columns
it has changed, and only few rows (schedules, the project's lease lock, the row
of a run in a promotion) are protected.

What is hard here: operations of several processes in any order; requests that
overlap on a row; leases that expire while a worker still runs; retries and late
results; idempotency by operation id; a projection computed from one store and
applied to another; a crash between two writes; budgets at their limit; goals and
pipelines that should finish.

What makes each part correct, in a sentence:

- kernel: a todo has at most one running turn; a turn is written back at most
  once; quotas hold; a goal completes only when it has earned it.
- store: the snapshot is a log of operations in which each named one occurs once;
  the journal is a copy that may lag by one line per death.
- scheduler: nothing is executed without a turn; SQL and kernel agree on what has
  passed; failures are dealt with; a run completes in both stores or in none.
- task lifecycle: only legal transitions; `CANCELLED` is final.
- pipeline: what is approved was validated; recovery is bounded and ends; the
  statuses of task and task run agree.
- release: nothing is completed that was not tested as it is, or merged without
  licence; goal, run and requests tell one story.
- ledger: budgets hold and recorded calls are not lost.
- path leases: no two owners write under one path; no two wait for each other.
- runner pool and loops: places are neither given twice nor forgotten; an
  occurrence starts once; an ended run stays ended.
- swarms and graphs: a node runs after what it depends on, no more of them than
  allowed; a verdict is earned; the journal tells how a graph came about.
- harness document: every revision can be rolled back.
- engineering sessions: a timeline without gaps and a complete history of goals.

## 2. Modules

| module | models | checked by |
|---|---|---|
| `ControlPlane` | `kernel.py`: one action per operation on goal, todos, turns, gates, quotas, release and repair lane | `turns`, `kernel`, `sql_takes_live_turn` |
| `TurnLedger` | what the kernel promises: turns are minted, held by one todo, and entered once | `ImplementsTurnLedger` in `turns` |
| `ControlPlaneStore` | `store.py`: file lock, snapshot, journal, replay, deaths inside a write | `store` |
| `OperationLog` | what the store promises: a log that names each operation once | `ImplementsOperationLog` in `store` |
| `Scheduler` | `scheduler.py` with the task table of `task.py`, composed with `ControlPlane` (it extends it) | `scheduler` |
| `Pipeline` | `engine.py`: one task run through the roles of its mode, with validation, repairs and recovery | `pipeline` |
| `RunnerPool` | `runner_pool.py`: counts, health, leases; operators that others combine | `loops`, `swarm` |
| `LoopCoordinator` | loops, their schedules, runs, recovery and kill, composed with `RunnerPool` | `loops` |
| `Requests` | what overlapping requests do to a row that nothing protects | `swarm`, `graph` |
| `LightSwarm` | light swarms, composed with `RunnerPool` and `Requests` | `swarm` |
| `TaskGraph` | graph versions, mutation journal, replay and deep runs, composed with `Requests` | `graph` |
| `ReleasePromotion` | promotion by the scheduler and by operators, approvals, merges, agents | `release`, `rejected_is_merged` |
| `PathLease` | `path_lease.py`: acquire, wait queue, expiry, renewal, release | `services` |
| `ModelCalls` | ledger, shared buffer, units of work, budget checks of the Chief Engineer | `services` |
| `HarnessDocument` | the document under its file lock, deaths between its writes, the subagent registry as its client | `services` |
| `EngineeringContinuity` | sessions, goals and turns under overlapping requests | `services` |
| `ControlPlaneProofs`, `ControlPlaneStoreProofs`, `SchedulerProofs`, `ReleaseProofs` | proofs about the modules they are named after | TLAPS |
| `TaskProofs` | proofs about `Pipeline` and `TaskGraph` | TLAPS |
| `LoopProofs`, `SwarmProofs` | proofs about `LoopCoordinator` and `LightSwarm` with their `RunnerPool` | TLAPS |
| `ServiceProofs` | proofs about `PathLease`, `ModelCalls`, `HarnessDocument` and `EngineeringContinuity` | TLAPS |
| `MC...` | values of the constants for TLC; `MCServices` puts four services that share no state in one run | |

A definition whose name has the form `X_Suffix`, placed before `X`, is a plausible
mistake in `X`; exchanging it for `X` must make a property fail, which shows that
the property looks at that part of the code.

### How state and actions correspond to the code

*Kernel.*  `todo[t]` is the `TodoState` of a todo: status, `current_turn_id` (a
number, counted up), `lease_token`, the time to `lease_expires_at` in ticks,
attempts, and whether its retry is put off.  `quota`, `gate`, `receipts`,
`handoffs` and `applied` are the fields of `GoalState` of those names; `issued`
and `alive` are history variables (which todo the k-th turn went to, and whether
its worker still lives).  Every operation starts with the reconciliation of expired
leases (`Reconciled`) where the code does.  `Fresh`/`Record` are the store's test
of the operation id.  `SyncTasks` takes an arbitrary list of SQL statuses;
`Scheduler` gives it the statuses it has just read (`Sync`).

*Store.*  A state is the sequence of operations that made it, so that revision and
applied operations need no variables.  `update` is three steps (compute, replace
the snapshot, append to the journal); a process may die between them, and inside
the append, which leaves a torn or unterminated line.

*Scheduler.*  `sql`, `run` are the columns of the database; `seen` is the list of
tasks an iteration read at its start, on which all its decisions rest.  Each kernel
operation is a step and each transaction on a task is one, and operators, the
clock, the heartbeat, another runner and death may come between any two.
`ConformityFails`, `DispatchFails`, `PipelineFails` and `CloseGoalFails` are the
exceptions that the loop swallows before `_finalize_stalled_blocker`.  The six
statuses of a task in execution are one.

*Pipeline.*  The product in the worktree is three facts: the APIs the contract
asks for, whether tests and structure checks pass, and its likeness to the visual
reference.  A model's answer, the sanitizers included, is any product.  `pc` names
the place in the coder's turn; the counters are those of `engine.py`
(`repairs`, `calls`, `rounds`, ...).  `Interfere` is the deadline, an exception, or
an operator who moves the task.

*Runner pool and loops.*  A lease is its place in the dispatch log.  `share`,
`again` and `short` are history: what became of a place, and how often one was given
back a second time, ever and since the pool was last recounted.  A pass over the due schedules is two steps, reading the rows and
claiming each by compare-and-set; so are ranking and reserving a runner.  Every
other request is one.

*Swarms and graphs.*  `row` is the row of the run.  A request is one step, or,
of a `Client`, two: `Read`, and the writing of the columns that it has changed
since, with others answered in between.  `done` is history: the nodes ever
completed.  In `TaskGraph`, `list` and `deps` keep the identity of the list of
dependencies, because a replay shares it between two nodes.

*Release.*  `main` is the set of merged branches; a merge survives the rollback of
the database.  `job[p]` is what a promoter has read and done; the lock is the one
that the first UPDATE of the run's row takes.

*Path leases.*  A call is one action, because it starts by writing the project's
lock row.  A path is a sequence of components.

*Ledger.*  `entries` are the committed rows per call, `flushed` those in the
pipeline's open transaction, `buffer` the list that belongs to the class.
`unaccounted` is history: calls of which the process has lost sight.

*Harness document.*  A mutation is four steps: the lock with the reading, the
snapshot, the backup, the document.  `past` is history.

*Engineering.*  A request is its reading, for the admission of a turn a second one,
and its writing.

## 3. Runs, bounds and what they show

| run | states | shows |
|---|---|---|
| `turns` | 147,954 | two independent todos, every projection, retries, late results, recovery, an abort: claims carry the newest turn, its token and a lease; results enter once; costs and attempts stay inside the quota; a closed goal holds no lease; the kernel implements `TurnLedger` |
| `kernel` | 422,316 | two chained todos, a gate on a lane, pause, repair, release, wall clock: no turn is minted that a gate, a dependency, the budget or the goal forbids; no road to completion skips a todo, a gate or the release; without the projection a running lease is exclusive; a turn whose worker died is taken back |
| `store` | 69,136 | two processes, retried operations, two deaths: the snapshot implements `OperationLog`, the journal follows it and lags by at most one line per death, and the lock never stays taken |
| `scheduler` | 725,896 | two tasks of which the first waits for the second, one repair cycle, operators that reopen, cancel and take over tasks, stop and resume the run and pause the goal, the end of the run time, death and reconciliation |
| `pipeline` | 503,584 | plain, tested, visual and contract tasks in all modes, every answer of a model, a deadline, an operator: approved work was validated, recovery stays in its budgets, outcomes agree, every pipeline ends |
| `loops` | 1,492,876 | two passes over one schedule, events, two runs with task runs on one runner, operators, a restart: places are counted, an occurrence is claimed once, ended runs stay ended |
| `swarm` | 304,232 | two nodes of which the second checks the first, with reports, dispatches, retries, pauses, kills and aggregations that overlap: what runs was allowed to and a ready verdict is earned |
| `graph` | 464,070 | mutations, ticks, side effects, kills and reconciliations on a graph of up to three nodes, overlapping: the journal rebuilds the graph, graphs stay in their bounds, what runs was allowed to, evidence is earned |
| `release` | 1,911,376 | the scheduler and an operator promote two branches while tasks are reworked, requests decided, the run paused, stopped and resumed, and a process killed |
| `services` | 1,110,739 | four services, one per behaviour: leases on a directory and a file in it; the ledger through rollbacks and overlapping units of work; the document with two writers and deaths; two requests on one engineering session |
| `sql_takes_live_turn` | violation | a projected `READY` takes a todo from a worker with a running lease |
| `rejected_is_merged` | violation | the approve command merges a release whose request was rejected |

Bounds.  `N`, `MaxTurns`, `MaxAttempts`, `MaxCost`, `MaxCycles`, `MaxRepair`,
`ChiefCalls`, `MaxWorkers`, `MaxNodes`, `Limit`, ... are budgets of the code itself,
set so small that they are reached: with two todos and three turns a todo fails, is
repaired and is tried again while the other one is under way, and the third attempt
meets the quota; a pipeline exhausts each of its budgets.  `Term`, `Ttl` (leases in
ticks) are 1 or 2, enough for a lease to run, to be renewed and to be over at every
point.  `MaxCrashes` bounds deaths; two in the store make one torn line run into the
next.  `MaxMeanwhile` bounds how many requests are answered while another is open:
one undone write needs one.  `MaxRevision`, `MaxFiles`, `MaxCalls`, `MaxRuns`,
`MaxTaskRuns`, `MaxCommands`, `MaxLeases`, `MaxVersion`, `MaxApprovals`, `MaxGoals`,
`MaxGoalRevision` bound histories that the code lets grow; each admits the second
of its kind that an order of events needs (two runs of a loop, a snapshot that a
death left behind and one after it, an approval after a rejected one).  Sets of statuses
in a cfg (`SqlStatus`, `TaskSetting`, `RunSetting`, `HealthSetting`, ...) choose who
does what in a run.  What is left out is: in `kernel` the SQL projection, since with it
`LiveTurnIsExclusive` is false (that is the run `sql_takes_live_turn`); in
`scheduler` an operator who sets a finished task to `FAILED_SAFE`: the kernel keeps
its todo as passed, so `StoresAgree` and `CompletionIsJoint` then fail.
`PAUSED` and `CANCELLED` of a run are treated alike until it is reconciled, so
the run of `scheduler` has only `CANCELLED`.  `CHECK_DEADLOCK FALSE` stands where the
system comes to rest: a run, a pipeline, a swarm ends, or the bounded histories of
`loops`, `graph` and `services` are used up.  `loops` is symmetric in its two passes;
it has no liveness property, so that this is sound.

Fairness.  Kernel: the clock ticks, and the persistent runner calls
`recover_expired_leases` at the start of every tick of its loop (`runner.py`);
nothing is assumed of workers, operators or the scheduler.  Store: a process inside
an update goes on or dies.  Scheduler: a process that is not killed goes on with its
iteration (`WF(Iterate)`); a pipeline ends because it is awaited under
`max_task_duration`.  Pipeline: the event loop goes on with an awaited task run, and
every model call, validation and command has a timeout (`WF(Step)`); nothing is
assumed of the deadline or of operators.  Operators are never fair.  Loops, swarms,
graphs, releases and the four services wait for requests that nothing guarantees, so
only safety is stated of them.

## 4. What is proved

All by TLAPS, for every value of the constants that the assumptions named in the
modules (`KernelAssumption`, `PipelineAssumption`, `SwarmAssumption`, ...) allow: any
number of todos, turns, workers, runners, loops and requests, any dependencies that the
code accepts.
Every safety property that a passing run checks is stated by a theorem; liveness is
not, since it is out of the prover's reach.

| theorem | says | argument |
|---|---|---|
| `TypeCorrect` | `Spec => []TypeOK` of the kernel | inductive as it stands; lemmas on the operators that rewrite the todo list (`Vacated`, `Claimed`, `Reconciled`, `Projected`, ...) |
| `TurnsAreExactlyOnce` | `[]ExactlyOnceWriteback` | see below |
| `ClosedGoalsHoldNoLease` | `[]ClosedGoalHoldsNoLease` | abort vacates every claim; each road to completion has seen no claim |
| `AttemptsStayBelowQuota`, `QuotasAreKept` | `[]AttemptQuotaHolds`, `[]QuotasHold` | see below |
| `EveryTurnIsLicensed` | `TurnsAreLicensed` | `next_turn` is the only operation that mints; what it asks of the reconciled list it had of the list before |
| `EveryCompletionIsEarned` | `CompletionIsEarned` | by operation, from the types and `ClaimsAreHeld` |
| `LiveTurnsAreExclusive` | `LiveTurnIsExclusive`, without a projection that puts a claimed todo back in line | a todo that is not claimed has no turn |
| `KernelImplementsTurnLedger` | the kernel implements `TurnLedger` | step simulation under the mapping written in `ControlPlane` |
| `StoreTypeCorrect` | types, and only the lock's holder is inside a write | mutual exclusion by `holder` |
| `StoreImplementsOperationLog` | the snapshot implements `OperationLog` | a draft extends the snapshot while its writer holds the lock |
| `JournalStaysBehindSnapshot` | `[]JournalTrailsSnapshot` | every line is a prefix of the snapshot, of the draft of the writer too; each missing line is a death |
| `CancelledTasksAreLeftAlone` | `CancelledTasksStay` | every write of a status is a legal transition, a closing of executing tasks or an escalation, and none starts from `CANCELLED` |
| `ExecutionsNeedTurns` | `[]ExecutionsAreTurns` | see below |
| `SchedulerRunsOnKernel` | a behaviour of the scheduler is one of the kernel, with its own bookkeeping | see below |
| `SchedulerKeepsPromises` | under the scheduler, too, the goal implements `TurnLedger`, keeps its quotas, and its turns and completions are licensed | from `SchedulerRunsOnKernel` and the theorems of the kernel |
| `StoresStayAgreed`, `CompletionsAreJoint` | `[]StoresAgree`, `CompletionIsJoint`, when no operator sets a task to `FAILED_SAFE` | see below |
| `RecoveryStaysBounded`, `OutcomesStayAgreed`, `ApprovedWorkStaysValidated` | `[]RecoveryIsBounded`, `[]OutcomesAgree`, `[]ApprovedWorkWasValidated` | see below |
| `PlacesStayCounted`, `OccurrencesAreClaimedOnce`, `EndedRunsAreLeftAlone` | `[]PlacesAreCounted`, `[]OccurrenceClaimedOnce`, `EndedRunsStayEnded` | see below |
| `SwarmNodesStayLicensed`, `ReadyVerdictStaysEarned` | `[]RunningNodesAreLicensed`, `[]ReadyVerdictIsEarned` of the light swarm | see below |
| `JournalStaysReplayable` | `[]JournalRebuildsGraph` | see below |
| `VersionsStayBounded` | `[]GraphsStayBounded` | see below |
| `GraphNodesStayLicensed`, `EvidenceStaysEarned` | `[]RunningNodesAreLicensed`, `EvidenceIsEarned` of the task graph | see below |
| `RecordsStayAgreed` | `[]RecordsAgree` | see below |
| `CompletionsAreTested` | `CompletionIsTested` | only the step that marks the goal changes it, and the lock kept the branch as the agents saw it |
| `MergesStayLicensed` | `MergesAreLicensed` | a scheduler that merges in human_approval mode has read a granted record, whose request is approved and names its branches |
| `LeasesNeverCollide` | `[]NoSilentCollision` when no path is the root | the overlap relation is symmetric on paths other than the root |
| `WaitsStaySound` | `[]WaitsAreSound` | of two owners that wait for each other the greater one's edge is resolved in the call that adds the second; nothing else adds an edge |
| `BudgetStaysKept`, `LedgerStaysComplete` | `[]BudgetHolds`, `[]LedgerIsComplete` | see below |
| `HistoryStaysOnDisk`, with `HarnessTypeCorrect`, `EveryRevisionRollsBack`, `BackupStaysFresh` | `[]HistoryIsOnDisk` and its three parts | see below |
| `AdmissionsStayOrdered` | `[]AdmissionsAreOrdered` | see below |
| `HistoryStaysComplete` | `[]HistoryIsComplete` | what a request has read of a goal is itself a goal with a whole history |

*Kernel.*  `ExactlyOnceWriteback` is not inductive: whether a turn may be entered depends on
the todo that holds it.  The strengthening says that a claimed todo carries the
newest turn minted for it (`ClaimsAreHeld`), that this turn has no receipt, and that
receipts name minted turns of their own todo.  `QuotasHold` relates things that the
code keeps apart: `AttemptInv` says that a todo's `attempts` is the number of turns
minted for it, so that reopening and recovery give no attempt back; the cost of the
quota is the total of the receipts, a recursive function on their sequence that one
receipt more extends by its cost.

*Scheduler.*  `ExecutionsAreTurns` is not inductive either: at the dispatch it needs a turn that
no execution has used.  `ExecutionInv` adds that between the decision and the dispatch
the first task of the work list has such a turn; the decision gives it (`Withheld`
compares the todo of the turn with the task), and nothing in between can take it,
because turns are only ever added.  `SchedulerRunsOnKernel` shows that every step of
`Scheduler` is a step of `ControlPlane` or leaves the kernel alone; with it the
theorems of the kernel hold of the composition (`SchedulerKeepsPromises`).
`StoresAgree` then follows from `Agreement`, which says at each place of the iteration
what must hold of both stores there: the task of a todo that has passed is settled, the
task whose outcome is about to be written is, and at the closing the release is accepted
and every todo has passed.  An operator who sets a task to `FAILED_SAFE` breaks
it, which is why the two theorems exclude that.

*Pipeline.*  `PipelineInv` says, for each place `pc` in the coder's turn, what of the
counters, of the snapshot and of the product is known there: where a recovery may be
tried, how many rounds and calls are left, and that a product which a recovery reports as
sound has passed or was put back (`WorkIsJudged`).  `OutcomesAgree` needs the
role that the statuses belong to (`StatusFollowsRoles`).

*Loops.*  `LoopsInv` adds what the coordinator and the pool take for granted of each
other: the lease of a task run is its own and was asked for once (`LeasesHaveOwners`),
and a task run that lives holds its place (`LivingHoldPlaces`).  A pass that may still claim
a schedule has read its newest revision, and all claims were of earlier ones
(`ClaimsArePast`); two passes with one reading then exclude each other.

*Swarms and graphs.*  With overlapping requests no row is ever wholly right: a write
puts back columns that others have changed.  `SwarmInv` and `GraphInv` therefore say of each
column alone what it means (`Licensed`), of the row and of every copy that a request has
read.  A node in `RUNNING`, or on a runner, has its dependencies among the nodes ever
completed, and `done` never shrinks; so mixing the columns of two readings keeps every
part.  In the graph the dependencies are those of some version up to now.  A stalled run
may be revived once by each overlapping request, hence the count of replies in `Patient`.
`Chained` says that each version is what the mutation of its journal entry made of the
version before it, as it is stored.  Without a SUPERSEDE every mutation of a stored graph
makes one (`MutatedIsGraph`), so that the replay goes through the very versions
(`ReplayRebuilds`); a SUPERSEDE makes two nodes share a list, which storing undoes and a
replay does not.
Walks and replays are recursive functions instead of folds, and what they compute is
proved from a least counterexample (`LeastNumber`), since the induction theorems of the
library cannot be instantiated.  The plan itself is assumed acyclic (`PlanAssumption`, `light_swarm.py:153`).

*Ledger.*  `CallsInv` says where each call that was made is: committed, in the open
transaction, in the buffer, in the copy that an ending unit of work has taken, or
unaccounted (`CallsAreBacked`).  A call may be written again by every unit of work that
holds a copy and by nobody else (`WritesAreLimited`), and the calls of the Chief
Engineer, with those that the ladder under way may still make, stay within the limit and
one ladder (`BudgetIsSpent`).

*Harness document.*  `HarnessInv` adds to the three parts what a mutation in progress knows: only the
holder of the lock is inside one (`Alone`), the snapshot files are numbered without a
gap (`Numbered`, so that the next number is free, also after a death), what it has read
is still the document, and after the snapshot and the backup are written, they hold it
(`ReadIsCurrent`).  Then a death at any place leaves the old document with all its files.

*Engineering sessions.*  `EngineeringInv` says of each request in progress what of its reading still holds
(`Reliable`): the sequence it has read is at most the number of turns plus one, the goal
it revises carried its whole history, and a session that had left DRAFT is not in DRAFT.
The unique keys then leave no gap.  For the limit it counts: turns and admissions in
progress together are at most the limit and all requests but one (`OverrunIsSpent`).

*Release.*  `ReleaseInv` says of every record - the row's, and the copies that promoters have read
or flushed - what stays true however old it is (`Known`: a completion, the merges, the
branches of the request it names), and of every promoter what its step claims (`Honest`:
from the merge to the verdict of the second agent it has the lock, and the verdicts are
about the target branch as it still is, or the goal is already completed).

What the theorems assume of the constants.  Sets of owners, paths, units of work, nodes,
clients and loops are finite, as rows of a database are; owners and nodes are numbers;
`Loop` is `1..n`, in the order in which the query returns the rows; a capacity, a quota and
a budget that the code validates as positive is positive; what an operator may set a task
to excludes the statuses that only the program gives (`SchedulerAssumption`).  A theorem
with a condition of its own names it in its ASSUME; the three conditions - no projection
that takes a live turn, no `FAILED_SAFE` by hand, no lease on the root - are divergences
of section 5, each with what happens without it.

Model-checked only: `OrphansAreRecovered`, `StoreStaysUsable`, `FailuresAreHandled` and
`PipelineEnds`, which are liveness under fairness and out of the prover's reach, and the
property of the run `rejected_is_merged`, which is false.

## 5. Divergences met while modelling

Two violation runs show one each.  The models have the following too, reached by
TLC while they were built; no run is kept for them.

*Kernel and store*

- `resume` uses one operation id for every resume of a goal, so the second one is
  answered and dropped (`kernel.py:1230`, `cli/control_plane.py:376`); so are a second
  `abort` for the same reason and a second answer to a reopened gate (`:1150`, `:900`).
- A death between the snapshot and the append leaves a journal that replays to an older
  state (`store.py:98`, against `docs/MASTER_BACKLOG_V8.md:95`); a last line that is torn
  or lacks its newline is run into by the next append and the journal cannot be read.
- `next_turn` blocks a todo that is out of attempts and claims a later one in the
  same walk (`kernel.py:255`); `tests/test_control_plane.py:120` has only the case
  of a single todo.
- `mark_release_completed` before the last result makes that result complete the goal
  (`kernel.py:443`), which the release lane means to prevent (`:516`).
- A finished repair sets the goal ACTIVE, also when the operator has paused it
  (`kernel.py:661`); `_set_goal_status` pauses and resumes a completed goal as well
  (`:1222`).
- `verify_replay` reads snapshot and journal under two locks (`store.py:149`), so an
  update in between makes it report a divergence that is none.

*Path leases*

- An expired lease keeps `active_conflict_key`, so that the next acquisition of its path
  fails (`path_lease.py:137`, against `docs/compliance_backlog_V6-1.md:594`).
- A ring of three waiters is not found (`path_lease.py:282`), against
  `docs/compliance_backlog_V6-1.md:576`; `acquire_lease` does not look at the queue
  (`:94`), so a newcomer passes the head of it.
- A lease on the repository root conflicts with nothing (`path_lease.py:25`), against
  `docs/compliance_backlog_V6-1.md:606`; the theorem excludes the root.

*Scheduler and pipeline*

- A run stopped during an iteration still starts the tasks of that iteration
  (`scheduler.py:826`, `:643`), and a task cancelled before it ever ran keeps the run
  from ending (`:718`).
- A task in `BACKLOG` before a `READY` one makes the scheduler take, and lose, a turn
  of the former on every poll: the kernel chooses the first pending todo and the
  scheduler wants the first ready task (`scheduler.py:816`).
- A dispatch that fails closed (`scheduler.py:896`) and an iteration that raises after
  the turn was taken leave the todo claimed until its lease is over.
- The recovery writes the run back as read (`scheduler.py:1441`) and so undoes a stop
  or a pause; the escalation writes tasks back as read and may undo an unblocking.
- An outcome counts as passed for every status but two (`scheduler.py:953`), also for a
  task that was cancelled after it reached PR_READY, and it is written to whatever turn
  holds the todo by then (`:470`).
- Reconciling a killed run aborts its goal, and a goal that was aborted never runs
  again: the next run of the project only waits.
- A role of the pipeline moves a task that an operator has blocked on from there
  (`pipeline/engine.py:7002`).
- After a visual rollback or the regression guard the pipeline approves a product that
  did not pass the validation (`engine.py:6098`, `:1355`), against the docstring at `:775`;
  `ApprovedWorkWasValidated` excepts products so reinstated.

*Ledger of model calls*

- `_pending_calls` belongs to the class (`model_calls.py:30` says it is there "to preserve
  calls across transaction rollbacks"), and every unit of work that ends empties it: a
  heartbeat or a request makes a later rollback of the pipeline lose its calls.  Calls a
  checkpoint has committed are written again when a unit of work fails.
  `BudgetHolds` excepts the calls lost.
- The visual repair rolls back calls it has just flushed (`chief_engineer/service.py:792`),
  and one budget check covers a ladder of models.
- A call that is cancelled at a deadline is not recorded; local calls on the gateway count
  against the budget and are never refused.

*Loops and runner pool*

- `release_runner_lease` leaves the log at SUCCESS, so a later
  `cancel_runner_leases_for_task_run` lowers the count again and a runner gets more tasks
  than it can take (`runner_pool.py:304`, `:347`, against `:200`, "cannot over-allocate").
  The next reconciliation counts them all (`:391`), so that a count exceeds the capacity.
  `PlacesAreCounted` allows as much as was given back twice, and no more.
- A quarantined runner that is full becomes BUSY in a reconciliation and READY in a release.
- The key of a schedule claim does not name the loop (`loop_runtime.py:81`).
- A lease has no heartbeat from any caller and ends after an hour; the late release raises
  and the place stays counted.
- A killed task run is revived by `start_task`'s write of what it read; backpressure never
  decreases; `pause_loop` does not pause the scheduler run; a loop stays RUNNING after its
  run has ended.
- Circuit breakers are written for tasks and swarm runs and read for loops only, for which
  nobody writes them, so that no breaker ever refuses anything, against
  `docs/e2e/v6/phase_02/acceptance_report.md:20`.

*Swarms and graphs*

- Overlapping reports lose completions.  A retried node keeps its runner, is never
  dispatched again and may be completed twice; `complete_node` and `fail_node` release no
  place of the pool; a kill with two dispatch logs releases none, against
  `light_swarm_lifecycle.py:17`; a late failure reopens a completed node and run;
  dispatch, completion and aggregation do not look at the status of the run; a blocked
  aggregation leaves `__pr_ready_gate__` among the nodes; PAUSED has no resume; readiness
  follows `depends_on` and acyclicity the edges.
- In a replay two nodes share one list after a SUPERSEDE, so a later ADD_DEPENDENCY makes it
  fail; a run whose progress is ESCALATED cannot be ticked or reconciled; cancelled subtrees
  and superseded nodes still run; a mutation by the server leaves the statuses of the run
  behind; at the mutation budget the next tick fails the run; side effects are completed
  whatever the run's status; kill and reconcile overwrite COMPLETED.

*Release*

- The approve command takes the request of the record whatever was decided on it
  (run `rejected_is_merged`).
- DONE tasks block a plan, against the docstring "PR_READY or DONE"; a cancelled task with a
  task run blocks the release.
- Deciding a request overwrites its idempotency key, so that a second one is created
  (`docs/ADR_RELEASE_PROMOTION_MODES.md:29`); after a block the record has no request and an
  approval answers 409; an approval can be repeated after completion.

*Harness, subagents, engineering*

- `max_depth` is "an inclusive depth bound for descendants" (`subagents.py:174`) and is not
  kept for grandchildren; overlapping processes, or the upsert route, open terminal subagents.
- Overlapping requests exceed the limit of turns by as many as overlap, set a goal's revision
  back, and reopen a closed session or admit a turn to it; the audit of a refused turn is
  rolled back with the refusal.

## 6. Limits of the models

- SQLAlchemy may answer a read from its identity map; the models read afresh, except
  where the stale read is the subject (`Requests`, `Scheduler`'s `seen`, a release's row).
- `is_task_runnable` and the reopening of repaired tasks write inside the transaction of
  the iteration; `HeldUp` commits at once, `Requeue` at the end of the iteration.
- `max_parallel_tasks` is an iteration that may end after any task.  Pipelines are
  awaited by the iteration, as in `_process_iteration`, so none runs beside it; the
  watchdog, worktrees and rival workers on the scheduler's goal are left out.
- The pipeline's death is in `Scheduler`, its calls to the ledger in `ModelCalls`: the
  three are not composed, since each alone fills what TLC can enumerate.  In production
  mode some limits are clamped; they are constants here.
- Loops: path leases, worktree manifests, rate limits and signatures are left out, and the
  terminal statuses of a task run are one.  Swarms: ownership tokens, costs by node and
  expiry of leases.  Graphs: hashes, artifacts, and who may mutate.  Release: what a
  reworked branch holds, and the expiry of requests, which nothing sets.  Ledger: prices
  and the split by provider.  Subagents: depth and number of children.
- Times are ticks; contents of evidence, prompts and files are left out.
- The database serializes the transactions of the path leases, as PostgreSQL's and
  SQLite's row and file locks do.

Not modelled, and why.  Providers, sanitizers, prompts, parsers and the PRD, PR and portfolio
generators turn texts into texts; their outcome is a nondeterministic choice wherever a model
meets them.  The ORM mapping, schemas, routes, terminal and browser interfaces render or copy
state.  Scripts for benchmarks and compliance drive the program and write reports.  Memory,
catalogues and automations are rows that single requests create and change, without a
protocol; the event bus is documented to drop events, and nothing here reads it.  These make
up more than half of the repository's lines, the sanitizers of the pipeline alone several
thousand, and a model of them would repeat the code without saying anything about it; the map
therefore covers the deciding code nearly whole and the rest not at all.

## 7. Plan

Done: kernel, store, path leases, scheduler, pipeline, ledger, runner pool, loops, swarms,
task graph, release, harness document, engineering sessions, and the proofs of their safety
properties.  Next, in this order:

1. `PersistentRunner` and `BoundedWorkerBridge` as rivals of each other on `ControlPlane`, and
   rivals in `Scheduler`; `LiveTurnsAreExclusive` is the theorem they rest on.
2. An abstract swarm - a partial order executed once - and the conditions under which
   `LightSwarm` without overlapping requests implements it, with the step simulation.
3. The other half of a task's life: the ledger's commits inside `Pipeline`.
4. The approvals of `engineering.py` and the kernel's signals and capability proposals.
