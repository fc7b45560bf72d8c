------------------------------ MODULE Pipeline ------------------------------
(***************************************************************************)
(* The role pipeline of one task run                                       *)
(* (backend/localforge/pipeline/engine.py): the roles of a mode one after  *)
(* the other, and in the coder's turn the writing of the product, its      *)
(* validation, and its repair by a local model and by the Chief Engineer.  *)
(*                                                                         *)
(* The product in the worktree is three facts: whether it offers the       *)
(* public APIs the contract requires, whether tests and structure checks   *)
(* pass on it, and how alike it is to the visual reference.  What a model  *)
(* writes, and the sanitizers make of it, is any product.  Sanitizers and  *)
(* the normalization of a visual product change nothing that is judged in  *)
(* a product that passed.  Every attempt of a model, every validation and  *)
(* every role is a step, and the task's deadline, an exception or an       *)
(* operator may come between any two.                                      *)
(***************************************************************************)
EXTENDS Naturals, Sequences

CONSTANTS
    Lane,          \* the kinds of tasks, records of the facts the engine branches on
    Mode,          \* the pipeline modes
    MaxScore,      \* similarities are 0..MaxScore ...
    Threshold,     \* ... and this one is what the contract asks for
    MaxRepair,     \* budgets.max_repair_attempts
    AbsoluteRepair,\* budgets.max_repair_attempts_absolute
    ActiveCalls,   \* budgets.max_active_model_calls
    GatewayCalls,  \* budgets.max_gateway_calls
    VisualCalls,   \* LOCALFORGE_VISUAL_MAX_ACTIVE_MODEL_CALLS
    ChiefCalls,    \* LOCALFORGE_CHIEF_MAX_ACTIVE_MODEL_CALLS
    Ladder,        \* the most calls one request makes, fallback models included
    TaskSetting    \* the statuses operators give to the task

\* visual: a visual task; contract: it has a task contract; draft: a local model may
\* draft it; given: its actions are in its metadata; tests: the worktree has tests to
\* run; protected: the contract names product files and public APIs; levels: how alike its
\* products may be.
LaneFact == [visual : BOOLEAN, contract : BOOLEAN, draft : BOOLEAN,
             given : BOOLEAN, tests : BOOLEAN, protected : BOOLEAN,
             levels : SUBSET (0..MaxScore)]

Pipelines ==
    [fast    |-> <<"coder", "tester", "reviewer", "pr_writer">>,
     default |-> <<"planner", "specifier", "coder", "tester", "fixer", "reviewer", "pr_writer">>,
     strict  |-> <<"planner", "specifier", "coder", "cleaner", "architect", "hardener", "qa",
                   "pr_writer">>]

ASSUME PipelineAssumption ==
    /\ Lane \subseteq LaneFact
    /\ Mode \subseteq DOMAIN Pipelines
    /\ MaxScore \in Nat /\ Threshold \in Nat
    /\ MaxRepair \in Nat /\ AbsoluteRepair \in Nat
    /\ ActiveCalls \in Nat /\ GatewayCalls \in Nat /\ VisualCalls \in Nat
    /\ ChiefCalls \in Nat /\ Ladder \in Nat
    /\ TaskSetting \subseteq {"CANCELLED", "BLOCKED"}
    /\ \A k \in Lane : k.protected => k.contract
    /\ \A k \in Lane : k.levels # {} /\ (~k.visual => k.levels = {0})

VARIABLES
    lane, mode,   \* the task and the mode it runs in
    status,       \* Task.status
    taskRun,      \* TaskRun.status
    approved,     \* whether the Maker/Checker verification is recorded as approved
    pc, role,     \* where the pipeline is, and the index of its role
    product,      \* the product in the worktree
    shot,         \* the similarity of the last screenshot taken, NoShot before
    changed,      \* changed_files is not empty
    said,         \* command_summaries is not empty
    base,         \* protected_product_snapshot of the coder's turn, NoProduct if empty
    attempt,      \* the attempt of the validation loop
    tried,        \* visual_recovery_attempted
    sound,        \* initial_visual_recovery_validated
    back,         \* what called the rounds of the Chief Engineer
    round,        \* round_index
    guard,        \* protected_product_snapshot of the rounds
    best,         \* best_snapshot and best_score of the rounds
    calls, limit, \* model calls of the task run, and the limit on them
    spent,        \* the summaries say that the visual budget is exhausted
    rounds,       \* how many rounds a visual task has begun
    reinstated    \* whether the passed product gave way to an earlier one

task == <<status, taskRun, approved>>
files == <<product, shot, changed, said>>
recovery == <<round, guard, best, rounds>>
budget == <<calls, limit, spent>>
coder == <<base, attempt, tried, sound, back>>
pipelineVars == <<lane, mode, pc, role, task, files, recovery, budget, coder, reinstated>>

Least(a, b) == IF a < b THEN a ELSE b
Greatest(a, b) == IF a < b THEN b ELSE a

NoProduct == [none |-> TRUE]
NoShot == MaxScore + 1

Product == [api   : IF lane.protected THEN BOOLEAN ELSE {TRUE},
            good  : BOOLEAN,
            score : lane.levels]

NoBest == [product |-> NoProduct, score |-> NoShot]

\* What the validation asks of a product: the tests and the structure rules, then the
\* similarity of the screenshot it takes.
TestsPass(p) == p.good
AlikeEnough(p) == lane.visual => p.score >= Threshold
Passes(p) == TestsPass(p) /\ AlikeEnough(p)

PipelineTypeOK ==
    /\ lane \in Lane /\ mode \in Mode
    /\ status \in {"CLAIMED", "PLANNING", "IMPLEMENTING", "TESTING", "REVIEWING",
                   "PR_READY", "FAILED_SAFE"} \cup TaskSetting
    /\ taskRun \in {"PENDING", "RUNNING", "COMPLETED", "FAILED"}
    /\ approved \in BOOLEAN
    /\ pc \in {"start", "role", "initial", "draft", "disqualified", "restore", "validate",
               "local", "rounds", "round", "check", "coded", "finish", "done"}
    /\ role \in 1..Len(Pipelines[mode])
    /\ product \in Product /\ shot \in 0..NoShot
    /\ changed \in BOOLEAN /\ said \in BOOLEAN
    /\ base \in Product \cup {NoProduct} /\ guard \in Product \cup {NoProduct}
    /\ attempt \in 0..MaxRepair
    /\ tried \in BOOLEAN /\ sound \in BOOLEAN /\ spent \in BOOLEAN
    /\ back \in {"none", "initial", "chief", "visual", "last", "rescue", "empty"}
    /\ round \in 0..5 /\ rounds \in Nat /\ reinstated \in BOOLEAN
    /\ best \in [product : Product \cup {NoProduct}, score : 0..NoShot]
    /\ calls \in Nat /\ limit \in Nat

-----------------------------------------------------------------------------
(* Budgets. *)

\* One ceiling for a visual task run: a window of calls for each repair and for the
\* first attempt, at most once more from the gateway's budget.
VisualCallLimit ==
    LET window == Greatest(1, ActiveCalls) * (Least(MaxRepair, AbsoluteRepair) + 1)
        extra  == IF GatewayCalls > window THEN Least(window, GatewayCalls - window) ELSE 0
    IN  IF GatewayCalls = 0 THEN 0 ELSE Least(Least(VisualCalls, GatewayCalls), window + extra)

ChiefLimit == Least(Greatest(ChiefCalls, 1), 96)

\* The limit run_task sets before the pipeline starts.
StartLimit == IF lane.visual THEN VisualCallLimit
              ELSE IF lane.contract /\ ~lane.draft THEN Greatest(ActiveCalls, ChiefLimit)
              ELSE ActiveCalls

\* The limit an attempt of the Chief Engineer sets.
ChiefRefresh_Visual == ChiefLimit
ChiefRefresh == IF lane.visual THEN Least(limit, VisualCallLimit) ELSE ChiefLimit

\* A recovery round reserves calls; where too few are left it is refused.
Reserved == limit' >= calls + Greatest(1, ActiveCalls)

RoundLimit == IF lane.visual
              THEN Least(Least(Greatest(MaxRepair, 1), Greatest(AbsoluteRepair, 1)), 5)
              ELSE Least(Greatest(MaxRepair, 3), 5)

\* check_and_increment_llm_calls, for a request that tries one model after the other:
\* each call is counted before it is sent and is not sent at the limit.
Request(most) == /\ calls < most
                 /\ \E n \in 1..Ladder : calls' = Least(most, calls + n)

-----------------------------------------------------------------------------
(* The worktree. *)

\* _restore_regressed_required_products: a product that lost an API the snapshot has
\* gives way to the snapshot; with force (Reverted) any product does.
Snapshot(p) == IF lane.protected THEN p ELSE NoProduct
Restored(p, snapshot) ==
    IF snapshot # NoProduct /\ snapshot.api /\ ~p.api THEN snapshot ELSE p
Reverted(p, snapshot) == IF snapshot # NoProduct THEN snapshot ELSE p

\* _current_visual_score
Score(s) == IF lane.visual /\ lane.contract THEN s ELSE NoShot

\* The validation of the product and the screenshot it leaves.  One that times out has
\* failed; one that gets as far as the picture has taken it.
Validated_TimeoutPasses(exit) == exit \in {0, 1} /\ UNCHANGED shot
Validated(exit) ==
    \/ exit = 0 /\ Passes(product) /\ shot' = (IF lane.visual THEN product.score ELSE shot)
    \/ exit = 1 /\ shot' \in {shot} \cup (IF lane.visual /\ product.good THEN {product.score}
                                                                         ELSE {})

-----------------------------------------------------------------------------
(* Roles, and the end of a run. *)

\* An exception in the pipeline, its deadline among them.
Fail == /\ pc' = "done"
        /\ taskRun' = "FAILED"
        /\ status' = IF status \in TaskSetting THEN status ELSE "FAILED_SAFE"
        /\ UNCHANGED approved

Abort == /\ pc # "done"
         /\ Fail
         /\ UNCHANGED <<lane, mode, role, files, recovery, budget, coder, reinstated>>

\* An operator takes the task away from the run.
Interfere == /\ pc # "done"
             /\ status' \in TaskSetting
             /\ UNCHANGED <<lane, mode, pc, role, taskRun, approved, files, recovery, budget,
                            coder, reinstated>>

Start == /\ pc = "start"
         /\ status = "CLAIMED"
         /\ status' = "PLANNING" /\ taskRun' = "RUNNING"
         /\ calls' = 0 /\ limit' = StartLimit
         /\ pc' = "role"
         /\ UNCHANGED <<lane, mode, role, approved, files, recovery, spent, coder, reinstated>>

Roles == Pipelines[mode]

\* _apply_role_status; REPAIRING is entered and left in one transaction.
RoleStatus_NoQA(r) ==
    CASE r \in {"coder", "cleaner"} /\ status = "PLANNING" -> "IMPLEMENTING"
      [] r = "tester" /\ status = "IMPLEMENTING" -> "TESTING"
      [] r = "reviewer" /\ status = "TESTING" -> "REVIEWING"
      [] OTHER -> status
RoleStatus(r) ==
    CASE r \in {"coder", "cleaner"} /\ status = "PLANNING" -> "IMPLEMENTING"
      [] r \in {"tester", "qa"} /\ status = "IMPLEMENTING" -> "TESTING"
      [] r = "reviewer" /\ status = "TESTING" -> "REVIEWING"
      [] OTHER -> status

\* The end of a role; _check_workspace_budgets may raise after it (Abort).
EndRole == /\ status' = RoleStatus(Roles[role])
           /\ IF role < Len(Roles)
              THEN role' = role + 1 /\ pc' = "role"
              ELSE UNCHANGED role /\ pc' = "finish"
           /\ UNCHANGED <<taskRun, approved>>

OtherRole == /\ pc = "role"
             /\ Roles[role] \notin {"coder", "fixer"}
             /\ EndRole
             /\ UNCHANGED <<lane, mode, files, recovery, budget, coder, reinstated>>

\* The fixer's turn counts against the repair budget; past it the run fails.
FixerRole == /\ pc = "role"
             /\ Roles[role] = "fixer"
             /\ IF MaxRepair = 0 THEN Fail /\ UNCHANGED role ELSE EndRole
             /\ UNCHANGED <<lane, mode, files, recovery, budget, coder, reinstated>>

\* The coder's turn begins: the accepted product is set aside, and the route decides
\* whether the Chief Engineer writes first, a visual product to the file of the contract.
ChiefFirst == ~lane.given /\ (lane.visual \/ ~lane.draft)

CoderRole == /\ pc = "role"
             /\ Roles[role] = "coder"
             /\ base' = Snapshot(product)
             /\ pc' = IF ChiefFirst THEN "initial" ELSE "draft"
             /\ changed' = (changed \/ (ChiefFirst /\ lane.visual /\ lane.contract))
             /\ UNCHANGED <<lane, mode, role, task, product, shot, said, recovery, budget, attempt,
                            tried, sound, back, reinstated>>

CoderDone == /\ pc = "coded"
             /\ EndRole
             /\ UNCHANGED <<lane, mode, files, recovery, budget, coder, reinstated>>

\* After the last role: the run is completed, the change committed, the verification
\* recorded, and the PR factory decides, on a new screenshot of a visual product.  Its
\* other reasons are a choice.
Ready == changed /\ AlikeEnough(product)

Finish ==
    /\ pc = "finish"
    /\ approved' = TRUE
    /\ \/ /\ Ready
          /\ taskRun' = "COMPLETED"
          /\ status' = IF status \in {"TESTING", "REVIEWING"} THEN "PR_READY" ELSE status
       \/ /\ status \notin TaskSetting
          /\ taskRun' = "FAILED"
          /\ status' = "FAILED_SAFE"
    /\ pc' = "done"
    /\ UNCHANGED <<lane, mode, role, files, recovery, budget, coder, reinstated>>

-----------------------------------------------------------------------------
(* The coder's turn. *)

\* _try_chief_engineer_repair, and the restoring that follows it, with its outcome.  It is
\* refused when the calls it needs are not left ...
NoCallsLeft(recovering) == (recovering /\ ~Reserved) \/ calls >= limit'

Refuse(recovering, snapshot) ==
    /\ product' = Restored(product, snapshot)
    /\ UNCHANGED <<changed, calls>>
    /\ spent' = (spent \/ (lane.visual /\ NoCallsLeft(recovering)))

\* ... it repairs the harness of the tests itself ...
FixHarness(snapshot) ==
    /\ product' \in {Restored(p, snapshot) : p \in Product}
    /\ changed' \in {changed, TRUE}
    /\ UNCHANGED <<calls, spent>>

\* ... or it applies the plan of a model.  An attempt that its timeout cuts off, or that
\* gets no plan after it repaired an import of a test, has written as well.
ApplyPlan(snapshot, applied) ==
    /\ Request(limit')
    /\ product' \in {Restored(p, snapshot) : p \in Product}
    /\ changed' \in {changed, TRUE}
    /\ spent' \in {spent, spent \/ (lane.visual /\ ~applied /\ calls' >= limit')}

Try(recovering, snapshot, applied) ==
    /\ limit' = ChiefRefresh
    /\ said' = TRUE
    /\ \/ ~applied /\ Refuse(recovering, snapshot)
       \/ (recovering => Reserved) /\ FixHarness(snapshot)
       \/ (recovering => Reserved) /\ ApplyPlan(snapshot, applied)

EnterRounds(from) == back' = from /\ pc' = "rounds"

\* The first writing of a visual or chief-only task.  A visual task goes on to the rounds
\* without it, once.
Initial ==
    /\ pc = "initial"
    /\ \E applied \in BOOLEAN :
          /\ Try(FALSE, base, applied)
          /\ \/ applied /\ pc' = "validate" /\ UNCHANGED <<tried, back, task>>
             \/ ~applied /\ lane.visual /\ tried' = TRUE /\ EnterRounds("initial")
                         /\ UNCHANGED task
             \/ ~applied /\ ~lane.visual /\ Fail /\ UNCHANGED <<tried, back>>
    /\ UNCHANGED <<lane, mode, role, shot, recovery, base, attempt, sound, reinstated>>

\* A local model, or the task's metadata, proposes actions; a proposal that is cut short
\* may have been applied in part.
Propose == IF lane.given THEN UNCHANGED calls ELSE Request(limit)

Draft == /\ pc = "draft"
         /\ Propose
         /\ changed' \in {changed, TRUE} /\ said' \in {said, TRUE}
         /\ \/ /\ product' \in {Restored(p, base) : p \in Product}
               /\ pc' = "validate"
            \/ /\ product' \in Product
               /\ pc' = "disqualified"
         /\ UNCHANGED <<lane, mode, role, task, shot, recovery, limit, spent, coder, reinstated>>

Disqualified == /\ pc = "disqualified"
                /\ \E applied \in BOOLEAN : Try(FALSE, base, applied)
                /\ pc' = "validate"
                /\ UNCHANGED <<lane, mode, role, task, shot, recovery, coder, reinstated>>

\* After the rounds that took the place of the first writing.
Restore == /\ pc = "restore"
           /\ product' = Restored(product, base)
           /\ reinstated' = (reinstated \/ (sound /\ product' # product))
           /\ pc' = "validate"
           /\ UNCHANGED <<lane, mode, role, task, shot, changed, said, recovery, budget, coder>>

\* Nothing to validate: the visual recovery has done so, or there are no tests, or no
\* files were changed, which a contract does not allow.
Unvalidated == sound \/ ~changed \/ ~(lane.tests \/ lane.visual)

SkipValidation ==
    /\ pc = "validate"
    /\ Unvalidated
    /\ IF ~changed /\ said /\ lane.contract
       THEN EnterRounds("empty")
       ELSE pc' = "coded" /\ UNCHANGED back
    /\ UNCHANGED <<lane, mode, role, task, files, recovery, budget, base, attempt, tried, sound,
                   reinstated>>

ValidationPasses ==
    /\ pc = "validate"
    /\ ~Unvalidated
    /\ Validated(0)
    /\ product' = Restored(product, base)
    /\ reinstated' = (product' # product)
    /\ pc' = "coded"
    /\ UNCHANGED <<lane, mode, role, task, changed, said, recovery, budget, coder>>

AttemptsLeft == attempt < MaxRepair

\* Where a product that failed goes next.
ValidationFails ==
    /\ pc = "validate"
    /\ ~Unvalidated
    /\ Validated(1)
    /\ product' = Reverted(product, base)
    /\ said' = TRUE
    /\ CASE ~lane.visual /\ ~lane.draft ->
              EnterRounds("chief") /\ UNCHANGED <<task, tried>>
         [] lane.visual /\ lane.contract /\ ~tried ->
              EnterRounds("visual") /\ tried' = TRUE /\ UNCHANGED task
         [] lane.draft /\ ~lane.visual /\ AttemptsLeft ->
              pc' = "local" /\ UNCHANGED <<back, tried, task>>
         [] lane.draft /\ ~lane.visual /\ ~AttemptsLeft /\ lane.contract ->
              EnterRounds("last") /\ UNCHANGED <<task, tried>>
         [] OTHER -> Fail /\ UNCHANGED <<back, tried>>
    /\ UNCHANGED <<lane, mode, role, changed, recovery, budget, base, attempt, sound, reinstated>>

\* A local model repairs; when its proposal cannot be used the Chief Engineer does.
LocalRepair ==
    /\ pc = "local"
    /\ Request(limit)
    /\ product' \in {Restored(p, base) : p \in Product}
    /\ attempt' = attempt + 1
    /\ pc' = "validate"
    /\ UNCHANGED <<lane, mode, role, task, shot, changed, said, recovery, limit, spent, base,
                   tried, sound, back, reinstated>>

LocalRepairDisqualified ==
    /\ pc = "local"
    /\ Request(limit) \/ UNCHANGED calls
    /\ product' \in Product
    /\ EnterRounds("rescue")
    /\ UNCHANGED <<lane, mode, role, task, shot, changed, said, recovery, limit, spent, base,
                   attempt, tried, sound, reinstated>>

-----------------------------------------------------------------------------
(* _run_chief_engineer_repair_rounds *)

BeginRounds ==
    /\ pc = "rounds"
    /\ guard' = Snapshot(product)
    /\ best' = [product |-> product, score |-> Score(shot)]
    /\ pc' = "round"
    /\ UNCHANGED <<lane, mode, role, task, files, budget, coder, round, rounds, reinstated>>

\* The rounds give back their exit code.  A rescued repair is another attempt.
Return_SameAttempt(exit) ==
    /\ guard' = NoProduct /\ best' = NoBest /\ round' = 0 /\ back' = "none"
    /\ sound' = (exit = 0 /\ back = "initial")
    /\ UNCHANGED attempt
    /\ CASE back = "initial"               -> pc' = "restore" /\ UNCHANGED task
         [] back # "initial" /\ exit = 0   -> pc' = "coded" /\ UNCHANGED task
         [] back = "rescue" /\ exit = 1    -> pc' = "validate" /\ UNCHANGED task
         [] OTHER                          -> Fail
Return(exit) ==
    /\ guard' = NoProduct /\ best' = NoBest /\ round' = 0 /\ back' = "none"
    /\ sound' = (exit = 0 /\ back = "initial")
    /\ attempt' = IF back = "rescue" /\ exit = 1 THEN attempt + 1 ELSE attempt
    /\ CASE back = "initial"               -> pc' = "restore" /\ UNCHANGED task
         [] back # "initial" /\ exit = 0   -> pc' = "coded" /\ UNCHANGED task
         [] back = "rescue" /\ exit = 1    -> pc' = "validate" /\ UNCHANGED task
         [] OTHER                          -> Fail

NextRound == /\ round' = round + 1
             /\ pc' = "round"
             /\ UNCHANGED <<guard, back, attempt, sound, task>>

More == round + 1 < RoundLimit

\* A visual round is not begun at the limit on calls.
RoundRefused ==
    /\ pc = "round"
    /\ lane.visual /\ calls >= limit
    /\ Return(1)
    /\ spent' = TRUE /\ said' = TRUE
    /\ UNCHANGED <<lane, mode, role, product, shot, changed, calls, limit, base, tried, rounds,
                   reinstated>>

\* A visual round looks at the product before it repairs it.  Without a repair a visual
\* task takes the next round unless its calls are spent; another takes one only for a
\* missing canonical test.
Round ==
    /\ pc = "round"
    /\ lane.visual => calls < limit
    /\ rounds' = IF lane.visual THEN rounds + 1 ELSE rounds
    /\ shot' = IF lane.visual /\ lane.contract THEN product.score ELSE shot
    /\ \E repaired \in BOOLEAN :
          /\ Try(lane.visual, guard, repaired)
          /\ \/ /\ repaired
                /\ pc' = "check"
                /\ UNCHANGED <<round, guard, best, back, attempt, sound, task>>
             \/ ~repaired /\ More /\ (lane.visual => ~spent') /\ NextRound /\ UNCHANGED best
             \/ ~repaired /\ (lane.visual => spent' \/ ~More) /\ Return(1)
    /\ UNCHANGED <<lane, mode, role, base, tried, reinstated>>

\* The repaired product is validated.  A visual candidate whose screenshot is less alike
\* than the best one gives way to it, and that one passes when its similarity does; an
\* as good one becomes the best.  Before another round the product is reverted.
Check ==
    /\ pc = "check"
    /\ \E exit \in {0, 1} :
          /\ Validated(exit)
          /\ LET now   == Score(shot')
                 worse == now # NoShot /\ best.score # NoShot /\ now < best.score
                 final == IF worse THEN (IF best.score >= Threshold THEN 0 ELSE 1) ELSE exit
                 kept  == IF worse THEN best.product ELSE product
                 again == final = 1 /\ More
             IN  /\ product' = IF again THEN Reverted(kept, guard) ELSE kept
                 /\ reinstated' = (worse /\ final = 0)
                 /\ IF again
                    THEN /\ NextRound
                         /\ best' = IF now # NoShot /\ (best.score = NoShot \/ now >= best.score)
                                    THEN [product |-> product, score |-> now]
                                    ELSE best
                    ELSE Return(final)
    /\ said' = TRUE
    /\ UNCHANGED <<lane, mode, role, changed, budget, base, tried, rounds>>

-----------------------------------------------------------------------------
Init == /\ lane \in Lane /\ mode \in Mode
        /\ status = "CLAIMED" /\ taskRun = "PENDING" /\ approved = FALSE
        /\ pc = "start" /\ role = 1
        /\ product \in Product /\ shot = NoShot
        /\ changed = FALSE /\ said = FALSE
        /\ base = NoProduct /\ attempt = 0 /\ tried = FALSE /\ sound = FALSE /\ back = "none"
        /\ round = 0 /\ guard = NoProduct /\ best = NoBest /\ rounds = 0
        /\ calls = 0 /\ limit = 0 /\ spent = FALSE /\ reinstated = FALSE

Step == \/ Start \/ OtherRole \/ FixerRole \/ CoderRole \/ CoderDone \/ Finish
        \/ Initial \/ Draft \/ Disqualified \/ Restore
        \/ SkipValidation \/ ValidationPasses \/ ValidationFails
        \/ LocalRepair \/ LocalRepairDisqualified
        \/ BeginRounds \/ RoundRefused \/ Round \/ Check
        \/ Abort

Next == Step \/ Interfere

Spec == Init /\ [][Next]_pipelineVars
\* The run of the task is awaited: the event loop goes on with it, and each call of a
\* model, each validation and each command has a timeout.
FairSpec == Spec /\ WF_pipelineVars(Step)
-----------------------------------------------------------------------------
(* Properties. *)

Checked == changed /\ (lane.tests \/ lane.visual)

\* The verification that approves a change is recorded only for a product that passed its
\* validation, unless, after the validation, the regression guard or the visual rollback put
\* an earlier product in its place (_execute_coder_actions, _record_pipeline_verification).
ApprovedWorkWasValidated == approved /\ Checked /\ ~reinstated => Passes(product)

\* A task run stays below one ceiling on model calls: entering repair opens no fresh budget
\* for a visual task, and the Chief's own limit is the only other one (engine.py:112).
CallsStayBelowCeiling ==
    calls <= IF lane.visual THEN VisualCallLimit ELSE Greatest(StartLimit, ChiefLimit)

\* A visual task goes through the recovery rounds at most once, wherever its first writing
\* or its validation failed (engine.py:1149).
VisualRecoversOnce == lane.visual => rounds <= RoundLimit

\* However repairs, rescues and rounds follow each other, all their counters stay
\* within their budgets.
RecoveryIsBounded == PipelineTypeOK /\ CallsStayBelowCeiling /\ VisualRecoversOnce

\* The task is handed to review by the roles of every mode, and what it ends as agrees with
\* what the run ends as (_apply_role_status, _execute_pipeline_core).
OutcomesAgree ==
    /\ pc = "finish" => status \in {"TESTING", "REVIEWING"} \cup TaskSetting
    /\ pc = "done" /\ status = "PR_READY" => taskRun = "COMPLETED" /\ approved
    /\ pc = "done" /\ status = "FAILED_SAFE" => taskRun = "FAILED"

\* Every run of the pipeline ends: no order of failed repairs, rescues and rounds goes on
\* for ever (_execute_coder_actions, _run_chief_engineer_repair_rounds).
PipelineEnds == <>(pc = "done")
=============================================================================
