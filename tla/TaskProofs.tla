------------------------------ MODULE TaskProofs -----------------------------
(***************************************************************************)
(* Proofs about what becomes of a task: the role pipeline of one task run, *)
(* and the task graph of a deep swarm run.  The two share no state; each   *)
(* theorem is about the specification of its own module.                   *)
(*                                                                         *)
(* PipelineInv strengthens the invariants of Pipeline until they are       *)
(* inductive.  What it adds is where the pipeline is when a fact holds:    *)
(* which role finds which status, which tasks a recovery may be begun      *)
(* for, how many rounds have passed when one ends, and that what the       *)
(* coder's turn leaves was judged or replaced.                             *)
(*                                                                         *)
(* GraphInv has two halves.  Of the versions it says that each is what the *)
(* mutation of its journal entry made of the one before.  Of the row of    *)
(* the run, and of what every open request has read of it, it says column  *)
(* by column what it means for the versions there were and for the nodes   *)
(* that were completed, as a request may write a column beside those of    *)
(* others.                                                                 *)
(***************************************************************************)
EXTENDS Pipeline, TaskGraph, TLAPS, FiniteSetTheorems, NaturalsInduction, WellFoundedInduction

-----------------------------------------------------------------------------
(***************************************************************************)
(* The role pipeline                                                       *)
(***************************************************************************)
\* The one role of a mode that writes the product, and where the pipeline is in its turn.
CoderAt == IF mode = "fast" THEN 1 ELSE 3

Turn == {"initial", "draft", "disqualified", "restore", "validate", "local", "rounds",
         "round", "check", "coded"}

\* The status each role of a mode finds, unless an operator has set another.
Expected ==
    [fast    |-> <<"PLANNING", "IMPLEMENTING", "TESTING", "REVIEWING">>,
     default |-> <<"PLANNING", "PLANNING", "PLANNING", "IMPLEMENTING", "TESTING", "TESTING",
                   "REVIEWING">>,
     strict  |-> <<"PLANNING", "PLANNING", "PLANNING", "IMPLEMENTING", "IMPLEMENTING",
                   "IMPLEMENTING", "IMPLEMENTING", "TESTING">>]

RoleIsKnown == /\ pc = "start" => role = 1
               /\ pc \in Turn => role = CoderAt

StatusFollowsRoles ==
    /\ pc = "start" => status \in {"CLAIMED"} \cup TaskSetting
    /\ pc \in Turn \cup {"role"} => status \in {Expected[mode][role]} \cup TaskSetting
    /\ approved => pc = "done"

\* What a local model may still repair, and the rounds that may still follow.
RepairsAreLeft ==
    /\ pc = "local" \/ back = "rescue" => attempt < MaxRepair
    /\ pc \in {"round", "check"} => round < RoundLimit
    /\ pc \notin {"round", "check", "done"} => round = 0
    /\ pc \notin {"rounds", "round", "check", "done"} => back = "none"
    /\ best.score # NoShot => best.product \in Product

Ceiling == IF lane.visual THEN VisualCallLimit ELSE Greatest(StartLimit, ChiefLimit)

CallsAndLimitStayBelow == calls <= Ceiling /\ limit <= Ceiling

\* Which tasks are recovered where.
RecoveryIsMarked ==
    /\ tried => lane.visual /\ (lane.contract => changed)
    /\ back = "initial" => tried
    /\ sound => tried
    /\ pc = "local" \/ back = "rescue" => ~lane.visual
    /\ pc = "initial" /\ lane.visual /\ lane.contract => changed
    /\ pc \in {"start", "initial", "draft", "disqualified"} => ~tried
    /\ pc = "role" /\ role <= CoderAt => ~tried
    /\ pc \in {"rounds", "round", "check"} => ~sound

\* The rounds of a visual task so far.
RoundsAreCounted ==
    lane.visual =>
    /\ rounds <= RoundLimit
    /\ pc \in {"start", "initial", "draft", "disqualified", "rounds"} => rounds = 0
    /\ pc = "role" /\ role <= CoderAt => rounds = 0
    /\ pc \in {"restore", "validate"} /\ ~tried => rounds = 0
    /\ pc = "round" => rounds <= round
    /\ pc = "check" => rounds <= round + 1

\* Once the coder has returned, and wherever a recovery has been found sound, the product
\* is the one that passed or another was put in its place.
CoderJudged == Checked /\ ~reinstated => Passes(product)

WorkIsJudged ==
    /\ sound => Passes(product) \/ reinstated
    /\ pc \in {"coded", "finish"} => CoderJudged
    /\ pc = "role" /\ role > CoderAt => CoderJudged
    /\ approved => CoderJudged

PipelineInv ==
    /\ PipelineTypeOK /\ RoleIsKnown /\ StatusFollowsRoles /\ OutcomesAgree /\ RepairsAreLeft
    /\ CallsAndLimitStayBelow /\ RecoveryIsMarked /\ RoundsAreCounted /\ WorkIsJudged

USE PipelineAssumption

-----------------------------------------------------------------------------
(***************************************************************************)
(* Operators                                                               *)
(***************************************************************************)
LEMMA ModesAreKnown ==
    /\ Mode \subseteq {"fast", "default", "strict"}
    /\ Len(Pipelines["fast"]) = 4
    /\ Len(Pipelines["default"]) = 7
    /\ Len(Pipelines["strict"]) = 8
  BY DEF Pipelines

LEMMA LeastAndGreatest ==
    ASSUME NEW a \in Nat, NEW b \in Nat
    PROVE  /\ Least(a, b) \in Nat /\ Least(a, b) <= a /\ Least(a, b) <= b
           /\ Greatest(a, b) \in Nat /\ a <= Greatest(a, b) /\ b <= Greatest(a, b)
           /\ Least(a, b) = a \/ Least(a, b) = b
  BY DEF Least, Greatest

LEMMA LimitsAreNatural ==
    ASSUME lane \in Lane
    PROVE  /\ VisualCallLimit \in Nat /\ ChiefLimit \in Nat /\ StartLimit \in Nat
           /\ Ceiling \in Nat /\ StartLimit <= Ceiling
           /\ ~lane.visual => ChiefLimit <= Ceiling
           /\ RoundLimit \in 1 .. 5
  <1> DEFINE window == Greatest(1, ActiveCalls) * (Least(MaxRepair, AbsoluteRepair) + 1)
             extra == IF GatewayCalls > window THEN Least(window, GatewayCalls - window) ELSE 0
  <1>1. window \in Nat
    <2>1. Greatest(1, ActiveCalls) \in Nat /\ Least(MaxRepair, AbsoluteRepair) + 1 \in Nat
      BY DEF Least, Greatest
    <2> QED
      BY <2>1
  <1>2. extra \in Nat
    <2> HIDE DEF window
    <2> QED
      BY <1>1 DEF Least
  <1>3. VisualCallLimit \in Nat
    <2>1. window + extra \in Nat
      BY <1>1, <1>2
    <2>2. VisualCallLimit = IF GatewayCalls = 0 THEN 0
                            ELSE Least(Least(VisualCalls, GatewayCalls), window + extra)
      BY DEF VisualCallLimit
    <2> HIDE DEF window, extra
    <2> QED
      BY <2>1, <2>2, LeastAndGreatest
  <1>4. ChiefLimit \in Nat
    BY DEF ChiefLimit, Least, Greatest
  <1>5. StartLimit \in Nat /\ Ceiling \in Nat
    BY <1>3, <1>4 DEF StartLimit, Ceiling, Greatest
  <1>6. StartLimit <= Ceiling /\ (~lane.visual => ChiefLimit <= Ceiling)
    BY <1>3, <1>4, <1>5 DEF StartLimit, Ceiling, Greatest
  <1>7. RoundLimit \in 1 .. 5
    <2>1. ASSUME NEW a \in Nat, NEW b \in Nat, a >= 1, b >= 1
          PROVE  Least(a, b) \in Nat /\ Least(a, b) >= 1 /\ Least(a, 5) \in 1 .. 5
      BY <2>1 DEF Least
    <2>2. Greatest(MaxRepair, 1) \in Nat /\ Greatest(MaxRepair, 1) >= 1
          /\ Greatest(AbsoluteRepair, 1) \in Nat /\ Greatest(AbsoluteRepair, 1) >= 1
          /\ Greatest(MaxRepair, 3) \in Nat /\ Greatest(MaxRepair, 3) >= 1
      BY DEF Greatest
    <2>3. Least(Greatest(MaxRepair, 1), Greatest(AbsoluteRepair, 1)) \in Nat
          /\ Least(Greatest(MaxRepair, 1), Greatest(AbsoluteRepair, 1)) >= 1
      BY <2>1, <2>2
    <2> QED
      BY <2>1, <2>2, <2>3 DEF RoundLimit
  <1> QED
    BY <1>3, <1>4, <1>5, <1>6, <1>7

\* What is judged of a product is known.
LEMMA ProductIsTyped ==
    ASSUME lane \in Lane, NEW p \in Product
    PROVE  p.good \in BOOLEAN /\ p.score \in 0 .. MaxScore /\ p.score \in Nat
  <1>1. lane.levels \subseteq 0 .. MaxScore
    BY DEF LaneFact
  <1> QED
    BY <1>1 DEF Product

\* Whatever gives way to what, a product stays a product.
LEMMA RestoredIsProduct ==
    ASSUME NEW p \in Product, NEW s \in Product \cup {NoProduct}
    PROVE  Restored(p, s) \in Product /\ Reverted(p, s) \in Product
           /\ Snapshot(p) \in Product \cup {NoProduct}
  BY DEF Restored, Reverted, Snapshot

LEMMA ScoreIsTyped ==
    ASSUME NEW s \in 0 .. NoShot
    PROVE  Score(s) \in 0 .. NoShot
  BY DEF Score, NoShot

\* A validation leaves a screenshot; it passes on what passes.
LEMMA ValidationIsTyped ==
    ASSUME lane \in Lane, product \in Product, shot \in 0 .. NoShot, NEW exit \in {0, 1},
           Validated(exit)
    PROVE  shot' \in 0 .. NoShot /\ (exit = 0 => Passes(product))
  <1>1. product.score \in 0 .. NoShot
    BY ProductIsTyped DEF NoShot
  <1> QED
    BY <1>1 DEF Validated

\* An attempt of the Chief Engineer makes no more calls than its limit, which is below
\* the ceiling.
LEMMA TryIsTyped ==
    ASSUME PipelineTypeOK, CallsAndLimitStayBelow,
           NEW recovering \in BOOLEAN, NEW snapshot \in Product \cup {NoProduct},
           NEW applied \in BOOLEAN, Try(recovering, snapshot, applied)
    PROVE  /\ product' \in Product
           /\ changed' \in {changed, TRUE} /\ changed' \in BOOLEAN
           /\ said' = TRUE
           /\ spent' \in BOOLEAN
           /\ calls' \in Nat /\ limit' \in Nat
           /\ calls' <= Ceiling /\ limit' <= Ceiling
  <1>1. lane \in Lane /\ product \in Product /\ changed \in BOOLEAN /\ spent \in BOOLEAN
        /\ calls \in Nat /\ limit \in Nat
    BY DEF PipelineTypeOK
  <1>2. limit' = ChiefRefresh /\ said' = TRUE
    BY DEF Try
  <1>3. limit' \in Nat /\ limit' <= Ceiling
    BY <1>1, <1>2, LimitsAreNatural DEF ChiefRefresh, CallsAndLimitStayBelow, Ceiling, Least
  <1>4. CASE Refuse(recovering, snapshot)
    <2>1. product' \in Product
      BY <1>1, <1>4, RestoredIsProduct DEF Refuse
    <2>2. changed' = changed /\ calls' = calls
      BY <1>4 DEF Refuse
    <2>3. spent' \in BOOLEAN
      BY <1>4 DEF Refuse
    <2> QED
      BY <1>1, <1>2, <1>3, <2>1, <2>2, <2>3 DEF CallsAndLimitStayBelow
  <1>5. CASE FixHarness(snapshot)
    <2>1. product' \in Product
      BY <1>1, <1>5, RestoredIsProduct DEF FixHarness
    <2>2. changed' \in {changed, TRUE} /\ calls' = calls /\ spent' = spent
      BY <1>5 DEF FixHarness
    <2> QED
      BY <1>1, <1>2, <1>3, <2>1, <2>2 DEF CallsAndLimitStayBelow
  <1>6. CASE ApplyPlan(snapshot, applied)
    <2>1. product' \in Product
      BY <1>1, <1>6, RestoredIsProduct DEF ApplyPlan
    <2>2. changed' \in {changed, TRUE}
      BY <1>6 DEF ApplyPlan
    <2>3. spent' \in BOOLEAN
      BY <1>1, <1>6 DEF ApplyPlan
    <2>4. calls' \in Nat /\ calls' <= limit'
      BY <1>1, <1>3, <1>6 DEF ApplyPlan, Request, Least
    <2>5. Ceiling \in Nat
      BY <1>1, LimitsAreNatural
    <2>6. calls' <= Ceiling
      BY <1>3, <2>4, <2>5
    <2> QED
      BY <1>1, <1>2, <1>3, <2>1, <2>2, <2>3, <2>4, <2>6
  <1> QED
    BY <1>4, <1>5, <1>6 DEF Try

-----------------------------------------------------------------------------
(***************************************************************************)
(* The types, part by part                                                 *)
(***************************************************************************)
TaskTyped ==
    /\ status \in {"CLAIMED", "PLANNING", "IMPLEMENTING", "TESTING", "REVIEWING",
                   "PR_READY", "FAILED_SAFE"} \cup TaskSetting
    /\ taskRun \in {"PENDING", "RUNNING", "COMPLETED", "FAILED"}
    /\ approved \in BOOLEAN

PlaceTyped ==
    /\ lane \in Lane /\ mode \in Mode
    /\ pc \in {"start", "role", "initial", "draft", "disqualified", "restore", "validate",
               "local", "rounds", "round", "check", "coded", "finish", "done"}
    /\ role \in 1..Len(Pipelines[mode])

FilesTyped ==
    /\ product \in Product /\ shot \in 0..NoShot
    /\ changed \in BOOLEAN /\ said \in BOOLEAN /\ reinstated \in BOOLEAN

CoderTyped ==
    /\ base \in Product \cup {NoProduct}
    /\ attempt \in 0..MaxRepair
    /\ tried \in BOOLEAN /\ sound \in BOOLEAN
    /\ back \in {"none", "initial", "chief", "visual", "last", "rescue", "empty"}

RecoveryTyped ==
    /\ guard \in Product \cup {NoProduct}
    /\ round \in 0..5 /\ rounds \in Nat
    /\ best \in [product : Product \cup {NoProduct}, score : 0..NoShot]

BudgetTyped == calls \in Nat /\ limit \in Nat /\ spent \in BOOLEAN

LEMMA TypesAreParts ==
    PipelineTypeOK <=> /\ TaskTyped /\ PlaceTyped /\ FilesTyped
                       /\ CoderTyped /\ RecoveryTyped /\ BudgetTyped
  BY DEF PipelineTypeOK, TaskTyped, PlaceTyped, FilesTyped, CoderTyped, RecoveryTyped,
         BudgetTyped

LEMMA TaskIsTheSame ==
    ASSUME Next
    PROVE  lane' = lane /\ mode' = mode /\ Product' = Product
  <1>1. lane' = lane /\ mode' = mode
    BY DEF Next, Step, Start, OtherRole, FixerRole, CoderRole, CoderDone, Finish, Initial, Draft,
           Disqualified, Restore, SkipValidation, ValidationPasses, ValidationFails, LocalRepair,
           LocalRepairDisqualified, BeginRounds, RoundRefused, Round, Check, Abort, Interfere
  <1> QED
    BY <1>1 DEF Product

\* The statuses of the task and of its run.
LEMMA TaskIsTyped ==
    ASSUME PipelineInv, Next
    PROVE  TaskTyped'
  <1>1. TaskTyped
    BY TypesAreParts DEF PipelineInv
  <1>2. lane' = lane /\ mode' = mode /\ Product' = Product
    BY TaskIsTheSame
  <1>a1. ASSUME Start PROVE TaskTyped'
    BY <1>1, <1>a1 DEF Start, task, files, recovery, budget, coder, TaskTyped
  <1>a2. ASSUME OtherRole PROVE TaskTyped'
    BY <1>1, <1>a2 DEF OtherRole, EndRole, RoleStatus, Fail, task, TaskTyped
  <1>a3. ASSUME FixerRole PROVE TaskTyped'
    BY <1>1, <1>a3 DEF FixerRole, EndRole, RoleStatus, Fail, task, TaskTyped
  <1>a4. ASSUME CoderRole PROVE TaskTyped'
    BY <1>1, <1>a4 DEF CoderRole, Roles, task, files, recovery, budget, coder, TaskTyped
  <1>a5. ASSUME CoderDone PROVE TaskTyped'
    BY <1>1, <1>a5 DEF CoderDone, EndRole, RoleStatus, Fail, task, TaskTyped
  <1>a6. ASSUME Finish PROVE TaskTyped'
    BY <1>1, <1>a6 DEF Finish, task, files, recovery, budget, coder, TaskTyped
  <1>a7. ASSUME Initial PROVE TaskTyped'
    BY <1>1, <1>a7 DEF Initial, EnterRounds, Fail, task, files, recovery, budget, coder,
       TaskTyped
  <1>a8. ASSUME Draft PROVE TaskTyped'
    BY <1>1, <1>a8 DEF Draft, task, files, recovery, budget, coder, TaskTyped
  <1>a9. ASSUME Disqualified PROVE TaskTyped'
    BY <1>1, <1>a9 DEF Disqualified, task, files, recovery, budget, coder, TaskTyped
  <1>a10. ASSUME Restore PROVE TaskTyped'
    BY <1>1, <1>a10 DEF Restore, task, files, recovery, budget, coder, TaskTyped
  <1>a11. ASSUME SkipValidation PROVE TaskTyped'
    BY <1>1, <1>a11 DEF SkipValidation, EnterRounds, task, files, recovery, budget, coder,
       TaskTyped
  <1>a12. ASSUME ValidationPasses PROVE TaskTyped'
    BY <1>1, <1>a12 DEF ValidationPasses, task, files, recovery, budget, coder, TaskTyped
  <1>a13. ASSUME ValidationFails PROVE TaskTyped'
    BY <1>1, <1>a13 DEF ValidationFails, EnterRounds, Fail, task, files, recovery, budget,
       coder, TaskTyped
  <1>a14. ASSUME LocalRepair PROVE TaskTyped'
    BY <1>1, <1>a14 DEF LocalRepair, task, files, recovery, budget, coder, TaskTyped
  <1>a15. ASSUME LocalRepairDisqualified PROVE TaskTyped'
    BY <1>1, <1>a15 DEF LocalRepairDisqualified, EnterRounds, task, files, recovery,
       budget, coder, TaskTyped
  <1>a16. ASSUME BeginRounds PROVE TaskTyped'
    BY <1>1, <1>a16 DEF BeginRounds, task, files, recovery, budget, coder, TaskTyped
  <1>a17. ASSUME RoundRefused PROVE TaskTyped'
    BY <1>1, <1>a17 DEF RoundRefused, Return, Fail, task, files, recovery, budget, coder,
       TaskTyped
  <1>a18. ASSUME Round PROVE TaskTyped'
    BY <1>1, <1>a18 DEF Round, NextRound, Return, Fail, task, files, recovery, budget,
       coder, TaskTyped
  <1>a19. ASSUME Check PROVE TaskTyped'
    BY <1>1, <1>a19 DEF Check, NextRound, Return, Fail, task, files, recovery, budget,
       coder, TaskTyped
  <1>a20. ASSUME Abort PROVE TaskTyped'
    BY <1>1, <1>a20 DEF Abort, Fail, task, files, recovery, budget, coder, TaskTyped
  <1>a21. ASSUME Interfere PROVE TaskTyped'
    BY <1>1, <1>a21 DEF Interfere, task, files, recovery, budget, coder, TaskTyped
  <1> QED
    BY <1>a1, <1>a2, <1>a3, <1>a4, <1>a5, <1>a6, <1>a7, <1>a8, <1>a9, <1>a10, <1>a11,
       <1>a12, <1>a13, <1>a14, <1>a15, <1>a16, <1>a17, <1>a18, <1>a19, <1>a20, <1>a21 DEF
       Next, Step

\* Where the pipeline is.
LEMMA PlaceIsTyped ==
    ASSUME PipelineInv, Next
    PROVE  PlaceTyped'
  <1>1. PlaceTyped
    BY TypesAreParts DEF PipelineInv
  <1>2. lane' = lane /\ mode' = mode /\ Product' = Product
    BY TaskIsTheSame
  <1>3. Len(Pipelines[mode]) \in Nat
    BY <1>1, ModesAreKnown DEF PlaceTyped
  <1>a1. ASSUME Start PROVE PlaceTyped'
    BY <1>1, <1>2, <1>3, <1>a1 DEF Start, task, files, recovery, budget, coder, PlaceTyped
  <1>a2. ASSUME OtherRole PROVE PlaceTyped'
    BY <1>1, <1>2, <1>3, <1>a2 DEF OtherRole, EndRole, Roles, task, files, recovery,
       budget, coder, PlaceTyped
  <1>a3. ASSUME FixerRole PROVE PlaceTyped'
    BY <1>1, <1>2, <1>3, <1>a3 DEF FixerRole, EndRole, Roles, Fail, task, files, recovery,
       budget, coder, PlaceTyped
  <1>a4. ASSUME CoderRole PROVE PlaceTyped'
    BY <1>1, <1>2, <1>3, <1>a4 DEF CoderRole, Roles, task, files, recovery, budget, coder,
       PlaceTyped
  <1>a5. ASSUME CoderDone PROVE PlaceTyped'
    BY <1>1, <1>2, <1>3, <1>a5 DEF CoderDone, EndRole, Roles, task, files, recovery,
       budget, coder, PlaceTyped
  <1>a6. ASSUME Finish PROVE PlaceTyped'
    BY <1>1, <1>2, <1>3, <1>a6 DEF Finish, task, files, recovery, budget, coder,
       PlaceTyped
  <1>a7. ASSUME Initial PROVE PlaceTyped'
    BY <1>1, <1>2, <1>3, <1>a7 DEF Initial, EnterRounds, Fail, task, files, recovery,
       budget, coder, PlaceTyped
  <1>a8. ASSUME Draft PROVE PlaceTyped'
    BY <1>1, <1>2, <1>3, <1>a8 DEF Draft, task, files, recovery, budget, coder, PlaceTyped
  <1>a9. ASSUME Disqualified PROVE PlaceTyped'
    BY <1>1, <1>2, <1>3, <1>a9 DEF Disqualified, task, files, recovery, budget, coder,
       PlaceTyped
  <1>a10. ASSUME Restore PROVE PlaceTyped'
    BY <1>1, <1>2, <1>3, <1>a10 DEF Restore, task, files, recovery, budget, coder,
       PlaceTyped
  <1>a11. ASSUME SkipValidation PROVE PlaceTyped'
    BY <1>1, <1>2, <1>3, <1>a11 DEF SkipValidation, EnterRounds, task, files, recovery,
       budget, coder, PlaceTyped
  <1>a12. ASSUME ValidationPasses PROVE PlaceTyped'
    BY <1>1, <1>2, <1>3, <1>a12 DEF ValidationPasses, task, files, recovery, budget,
       coder, PlaceTyped
  <1>a13. ASSUME ValidationFails PROVE PlaceTyped'
    BY <1>1, <1>2, <1>3, <1>a13 DEF ValidationFails, EnterRounds, Fail, task, files,
       recovery, budget, coder, PlaceTyped
  <1>a14. ASSUME LocalRepair PROVE PlaceTyped'
    BY <1>1, <1>2, <1>3, <1>a14 DEF LocalRepair, task, files, recovery, budget, coder,
       PlaceTyped
  <1>a15. ASSUME LocalRepairDisqualified PROVE PlaceTyped'
    BY <1>1, <1>2, <1>3, <1>a15 DEF LocalRepairDisqualified, EnterRounds, task, files,
       recovery, budget, coder, PlaceTyped
  <1>a16. ASSUME BeginRounds PROVE PlaceTyped'
    BY <1>1, <1>2, <1>3, <1>a16 DEF BeginRounds, task, files, recovery, budget, coder,
       PlaceTyped
  <1>a17. ASSUME RoundRefused PROVE PlaceTyped'
    BY <1>1, <1>2, <1>3, <1>a17 DEF RoundRefused, Return, Fail, task, files, recovery,
       budget, coder, PlaceTyped
  <1>a18. ASSUME Round PROVE PlaceTyped'
    BY <1>1, <1>2, <1>3, <1>a18 DEF Round, NextRound, Return, Fail, task, files, recovery,
       budget, coder, PlaceTyped
  <1>a19. ASSUME Check PROVE PlaceTyped'
    BY <1>1, <1>2, <1>3, <1>a19 DEF Check, NextRound, Return, Fail, task, files, recovery,
       budget, coder, PlaceTyped
  <1>a20. ASSUME Abort PROVE PlaceTyped'
    BY <1>1, <1>2, <1>3, <1>a20 DEF Abort, Fail, task, files, recovery, budget, coder,
       PlaceTyped
  <1>a21. ASSUME Interfere PROVE PlaceTyped'
    BY <1>1, <1>2, <1>3, <1>a21 DEF Interfere, task, files, recovery, budget, coder,
       PlaceTyped
  <1> QED
    BY <1>a1, <1>a2, <1>a3, <1>a4, <1>a5, <1>a6, <1>a7, <1>a8, <1>a9, <1>a10, <1>a11,
       <1>a12, <1>a13, <1>a14, <1>a15, <1>a16, <1>a17, <1>a18, <1>a19, <1>a20, <1>a21 DEF
       Next, Step

\* The product, and what is known of it.
LEMMA FilesAreTyped ==
    ASSUME PipelineInv, Next
    PROVE  FilesTyped'
  <1>1. FilesTyped
    BY TypesAreParts DEF PipelineInv
  <1>2. lane' = lane /\ mode' = mode /\ Product' = Product
    BY TaskIsTheSame
  <1>3. PipelineTypeOK /\ CallsAndLimitStayBelow
    BY DEF PipelineInv
  <1>4. /\ \A p \in Product : p.score \in 0 .. NoShot
        /\ Restored(product, base) \in Product /\ Reverted(product, base) \in Product
        /\ \A p \in Product : Restored(p, base) \in Product
        /\ best.score # NoShot => best.product \in Product
    <2>1. lane \in Lane /\ product \in Product /\ base \in Product \cup {NoProduct}
      BY <1>3 DEF PipelineTypeOK
    <2>2. \A p \in Product : p.score \in 0 .. NoShot
      BY <2>1, ProductIsTyped DEF NoShot
    <2>3. \A p \in Product : Restored(p, base) \in Product /\ Reverted(p, base) \in Product
      BY <2>1, RestoredIsProduct
    <2> QED
      BY <2>1, <2>2, <2>3 DEF PipelineInv, RepairsAreLeft
  <1>a1. ASSUME Start PROVE FilesTyped'
    BY <1>1, <1>2, <1>4, <1>a1 DEF Start, task, files, recovery, budget, coder,
       FilesTyped, NoShot, NoProduct
  <1>a2. ASSUME OtherRole PROVE FilesTyped'
    BY <1>1, <1>2, <1>4, <1>a2 DEF OtherRole, EndRole, Roles, task, files, recovery,
       budget, coder, FilesTyped, NoShot, NoProduct
  <1>a3. ASSUME FixerRole PROVE FilesTyped'
    BY <1>1, <1>2, <1>4, <1>a3 DEF FixerRole, EndRole, Roles, Fail, task, files, recovery,
       budget, coder, FilesTyped, NoShot, NoProduct
  <1>a4. ASSUME CoderRole PROVE FilesTyped'
    BY <1>1, <1>2, <1>4, <1>a4 DEF CoderRole, Roles, task, files, recovery, budget, coder,
       FilesTyped, NoShot, NoProduct
  <1>a5. ASSUME CoderDone PROVE FilesTyped'
    BY <1>1, <1>2, <1>4, <1>a5 DEF CoderDone, EndRole, Roles, task, files, recovery,
       budget, coder, FilesTyped, NoShot, NoProduct
  <1>a6. ASSUME Finish PROVE FilesTyped'
    BY <1>1, <1>2, <1>4, <1>a6 DEF Finish, task, files, recovery, budget, coder,
       FilesTyped, NoShot, NoProduct
  <1>a7. ASSUME Initial PROVE FilesTyped'
    <2>1. PICK applied \in BOOLEAN : Try(FALSE, base, applied)
      BY <1>a7 DEF Initial
    <2>2. FALSE \in BOOLEAN /\ base \in Product \cup {NoProduct}
      BY <1>1, <1>3 DEF PipelineTypeOK
    <2>3. /\ product' \in Product /\ changed' \in BOOLEAN /\ said' = TRUE
          /\ spent' \in BOOLEAN /\ calls' \in Nat /\ limit' \in Nat
      BY <2>1, <2>2, <1>3, TryIsTyped
    <2> QED
      BY <1>1, <1>2, <1>4, <2>3, <1>a7 DEF Initial, FilesTyped, NoShot, NoProduct
  <1>a8. ASSUME Draft PROVE FilesTyped'
    BY <1>1, <1>2, <1>4, <1>a8 DEF Draft, task, files, recovery, budget, coder,
       FilesTyped, NoShot, NoProduct
  <1>a9. ASSUME Disqualified PROVE FilesTyped'
    <2>1. PICK applied \in BOOLEAN : Try(FALSE, base, applied)
      BY <1>a9 DEF Disqualified
    <2>2. FALSE \in BOOLEAN /\ base \in Product \cup {NoProduct}
      BY <1>1, <1>3 DEF PipelineTypeOK
    <2>3. /\ product' \in Product /\ changed' \in BOOLEAN /\ said' = TRUE
          /\ spent' \in BOOLEAN /\ calls' \in Nat /\ limit' \in Nat
      BY <2>1, <2>2, <1>3, TryIsTyped
    <2> QED
      BY <1>1, <1>2, <1>4, <2>3, <1>a9 DEF Disqualified, FilesTyped, NoShot, NoProduct
  <1>a10. ASSUME Restore PROVE FilesTyped'
    BY <1>1, <1>2, <1>4, <1>a10 DEF Restore, task, files, recovery, budget, coder,
       FilesTyped, NoShot, NoProduct
  <1>a11. ASSUME SkipValidation PROVE FilesTyped'
    BY <1>1, <1>2, <1>4, <1>a11 DEF SkipValidation, EnterRounds, task, files, recovery,
       budget, coder, FilesTyped, NoShot, NoProduct
  <1>a12. ASSUME ValidationPasses PROVE FilesTyped'
    <2>1. shot' \in 0..NoShot
      BY <1>3, <1>a12, ValidationIsTyped DEF ValidationPasses, PipelineTypeOK
    <2> QED
      BY <1>1, <1>2, <1>4, <2>1, <1>a12 DEF ValidationPasses, FilesTyped, EnterRounds, NoShot, NoProduct
  <1>a13. ASSUME ValidationFails PROVE FilesTyped'
    <2>1. shot' \in 0..NoShot
      BY <1>3, <1>a13, ValidationIsTyped DEF ValidationFails, PipelineTypeOK
    <2> QED
      BY <1>1, <1>2, <1>4, <2>1, <1>a13 DEF ValidationFails, FilesTyped, EnterRounds, NoShot, NoProduct
  <1>a14. ASSUME LocalRepair PROVE FilesTyped'
    BY <1>1, <1>2, <1>4, <1>a14 DEF LocalRepair, task, files, recovery, budget, coder,
       FilesTyped, NoShot, NoProduct
  <1>a15. ASSUME LocalRepairDisqualified PROVE FilesTyped'
    BY <1>1, <1>2, <1>4, <1>a15 DEF LocalRepairDisqualified, EnterRounds, task, files,
       recovery, budget, coder, FilesTyped, NoShot, NoProduct
  <1>a16. ASSUME BeginRounds PROVE FilesTyped'
    BY <1>1, <1>2, <1>4, <1>a16 DEF BeginRounds, task, files, recovery, budget, coder,
       FilesTyped, NoShot, NoProduct
  <1>a17. ASSUME RoundRefused PROVE FilesTyped'
    BY <1>1, <1>2, <1>4, <1>a17 DEF RoundRefused, Return, Fail, task, files, recovery,
       budget, coder, FilesTyped, NoShot, NoProduct
  <1>a18. ASSUME Round PROVE FilesTyped'
    <2>1. PICK applied \in BOOLEAN : Try(lane.visual, guard, applied)
      BY <1>a18 DEF Round
    <2>2. lane.visual \in BOOLEAN /\ guard \in Product \cup {NoProduct}
      BY <1>1, <1>3 DEF PipelineTypeOK, LaneFact
    <2>3. /\ product' \in Product /\ changed' \in BOOLEAN /\ said' = TRUE
          /\ spent' \in BOOLEAN /\ calls' \in Nat /\ limit' \in Nat
      BY <2>1, <2>2, <1>3, TryIsTyped
    <2> QED
      BY <1>1, <1>2, <1>4, <2>3, <1>a18 DEF Round, FilesTyped, NoShot, NoProduct
  <1>a19. ASSUME Check PROVE FilesTyped'
    <2>1. PICK exit \in {0, 1} : Validated(exit)
      BY <1>a19 DEF Check
    <2>2. shot' \in 0..NoShot
      BY <1>3, <2>1, ValidationIsTyped DEF PipelineTypeOK
    <2>3. \A kept \in Product : Reverted(kept, guard) \in Product
      BY <1>3, RestoredIsProduct DEF PipelineTypeOK
    <2>4. product' \in Product /\ reinstated' \in BOOLEAN
      BY <1>1, <1>4, <2>3, <1>a19 DEF Check, FilesTyped
    <2> QED
      BY <1>1, <1>2, <2>2, <2>4, <1>a19 DEF Check, FilesTyped, NoShot
  <1>a20. ASSUME Abort PROVE FilesTyped'
    BY <1>1, <1>2, <1>4, <1>a20 DEF Abort, Fail, task, files, recovery, budget, coder,
       FilesTyped, NoShot, NoProduct
  <1>a21. ASSUME Interfere PROVE FilesTyped'
    BY <1>1, <1>2, <1>4, <1>a21 DEF Interfere, task, files, recovery, budget, coder,
       FilesTyped, NoShot, NoProduct
  <1> QED
    BY <1>a1, <1>a2, <1>a3, <1>a4, <1>a5, <1>a6, <1>a7, <1>a8, <1>a9, <1>a10, <1>a11,
       <1>a12, <1>a13, <1>a14, <1>a15, <1>a16, <1>a17, <1>a18, <1>a19, <1>a20, <1>a21 DEF
       Next, Step

\* The coder's turn.
LEMMA CoderIsTyped ==
    ASSUME PipelineInv, Next
    PROVE  CoderTyped'
  <1>1. CoderTyped /\ FilesTyped
    BY TypesAreParts DEF PipelineInv
  <1>2. lane' = lane /\ mode' = mode /\ Product' = Product
    BY TaskIsTheSame
  <1>3. /\ Snapshot(product) \in Product \cup {NoProduct}
        /\ attempt \in 0..MaxRepair /\ back \in {"none", "initial", "chief", "visual", "last", "rescue", "empty"}
        /\ tried \in BOOLEAN /\ sound \in BOOLEAN
        /\ pc = "local" \/ back = "rescue" => attempt < MaxRepair
    BY <1>1, RestoredIsProduct DEF FilesTyped, CoderTyped, PipelineInv, RepairsAreLeft
  <1>a1. ASSUME Start PROVE CoderTyped'
    BY <1>1, <1>2, <1>3, <1>a1 DEF Start, task, files, recovery, budget, coder,
       CoderTyped, NoProduct
  <1>a2. ASSUME OtherRole PROVE CoderTyped'
    BY <1>1, <1>2, <1>3, <1>a2 DEF OtherRole, EndRole, Roles, task, files, recovery,
       budget, coder, CoderTyped, NoProduct
  <1>a3. ASSUME FixerRole PROVE CoderTyped'
    BY <1>1, <1>2, <1>3, <1>a3 DEF FixerRole, EndRole, Roles, Fail, task, files, recovery,
       budget, coder, CoderTyped, NoProduct
  <1>a4. ASSUME CoderRole PROVE CoderTyped'
    BY <1>1, <1>2, <1>3, <1>a4 DEF CoderRole, Roles, task, files, recovery, budget, coder,
       CoderTyped, NoProduct
  <1>a5. ASSUME CoderDone PROVE CoderTyped'
    BY <1>1, <1>2, <1>3, <1>a5 DEF CoderDone, EndRole, Roles, task, files, recovery,
       budget, coder, CoderTyped, NoProduct
  <1>a6. ASSUME Finish PROVE CoderTyped'
    BY <1>1, <1>2, <1>3, <1>a6 DEF Finish, task, files, recovery, budget, coder,
       CoderTyped, NoProduct
  <1>a7. ASSUME Initial PROVE CoderTyped'
    BY <1>1, <1>2, <1>3, <1>a7 DEF Initial, EnterRounds, Fail, task, files, recovery,
       budget, coder, CoderTyped, NoProduct
  <1>a8. ASSUME Draft PROVE CoderTyped'
    BY <1>1, <1>2, <1>3, <1>a8 DEF Draft, task, files, recovery, budget, coder,
       CoderTyped, NoProduct
  <1>a9. ASSUME Disqualified PROVE CoderTyped'
    BY <1>1, <1>2, <1>3, <1>a9 DEF Disqualified, task, files, recovery, budget, coder,
       CoderTyped, NoProduct
  <1>a10. ASSUME Restore PROVE CoderTyped'
    BY <1>1, <1>2, <1>3, <1>a10 DEF Restore, task, files, recovery, budget, coder,
       CoderTyped, NoProduct
  <1>a11. ASSUME SkipValidation PROVE CoderTyped'
    BY <1>1, <1>2, <1>3, <1>a11 DEF SkipValidation, EnterRounds, task, files, recovery,
       budget, coder, CoderTyped, NoProduct
  <1>a12. ASSUME ValidationPasses PROVE CoderTyped'
    BY <1>1, <1>2, <1>3, <1>a12 DEF ValidationPasses, task, files, recovery, budget,
       coder, CoderTyped, NoProduct
  <1>a13. ASSUME ValidationFails PROVE CoderTyped'
    BY <1>1, <1>2, <1>3, <1>a13 DEF ValidationFails, EnterRounds, Fail, task, files,
       recovery, budget, coder, CoderTyped, NoProduct
  <1>a14. ASSUME LocalRepair PROVE CoderTyped'
    BY <1>1, <1>2, <1>3, <1>a14 DEF LocalRepair, task, files, recovery, budget, coder,
       CoderTyped, NoProduct
  <1>a15. ASSUME LocalRepairDisqualified PROVE CoderTyped'
    BY <1>1, <1>2, <1>3, <1>a15 DEF LocalRepairDisqualified, EnterRounds, task, files,
       recovery, budget, coder, CoderTyped, NoProduct
  <1>a16. ASSUME BeginRounds PROVE CoderTyped'
    BY <1>1, <1>2, <1>3, <1>a16 DEF BeginRounds, task, files, recovery, budget, coder,
       CoderTyped, NoProduct
  <1>a17. ASSUME RoundRefused PROVE CoderTyped'
    BY <1>1, <1>2, <1>3, <1>a17 DEF RoundRefused, Return, Fail, task, files, recovery,
       budget, coder, CoderTyped, NoProduct
  <1>a18. ASSUME Round PROVE CoderTyped'
    BY <1>1, <1>2, <1>3, <1>a18 DEF Round, NextRound, Return, Fail, task, files, recovery,
       budget, coder, CoderTyped, NoProduct
  <1>a19. ASSUME Check PROVE CoderTyped'
    <2>1. /\ back' \in {back, "none"} /\ base' = base /\ tried' = tried
          /\ attempt' \in {attempt, IF back = "rescue" THEN attempt + 1 ELSE attempt}
      BY <1>a19 DEF Check, Return, NextRound
    <2>2. sound' \in BOOLEAN
      BY <1>3, <1>a19 DEF Check, Return, NextRound
    <2> QED
      BY <1>1, <1>2, <1>3, <2>1, <2>2 DEF CoderTyped, NoProduct
  <1>a20. ASSUME Abort PROVE CoderTyped'
    BY <1>1, <1>2, <1>3, <1>a20 DEF Abort, Fail, task, files, recovery, budget, coder,
       CoderTyped, NoProduct
  <1>a21. ASSUME Interfere PROVE CoderTyped'
    BY <1>1, <1>2, <1>3, <1>a21 DEF Interfere, task, files, recovery, budget, coder,
       CoderTyped, NoProduct
  <1> QED
    BY <1>a1, <1>a2, <1>a3, <1>a4, <1>a5, <1>a6, <1>a7, <1>a8, <1>a9, <1>a10, <1>a11,
       <1>a12, <1>a13, <1>a14, <1>a15, <1>a16, <1>a17, <1>a18, <1>a19, <1>a20, <1>a21 DEF
       Next, Step

\* The rounds of the Chief Engineer.
LEMMA RecoveryIsTyped ==
    ASSUME PipelineInv, Next
    PROVE  RecoveryTyped'
  <1>1. RecoveryTyped /\ FilesTyped /\ PlaceTyped
    BY TypesAreParts DEF PipelineInv
  <1>2. lane' = lane /\ mode' = mode /\ Product' = Product
    BY TaskIsTheSame
  <1>3. /\ Snapshot(product) \in Product \cup {NoProduct} /\ product \in Product
        /\ Score(shot) \in 0..NoShot
        /\ pc \in {"round", "check"} => round < RoundLimit
        /\ RoundLimit \in 1..5
    BY <1>1, RestoredIsProduct, ScoreIsTyped, LimitsAreNatural
       DEF FilesTyped, PlaceTyped, PipelineInv, RepairsAreLeft
  <1>a1. ASSUME Start PROVE RecoveryTyped'
    BY <1>1, <1>2, <1>3, <1>a1 DEF Start, task, files, recovery, budget, coder,
       RecoveryTyped, NoShot, NoProduct, NoBest
  <1>a2. ASSUME OtherRole PROVE RecoveryTyped'
    BY <1>1, <1>2, <1>3, <1>a2 DEF OtherRole, EndRole, Roles, task, files, recovery,
       budget, coder, RecoveryTyped, NoShot, NoProduct, NoBest
  <1>a3. ASSUME FixerRole PROVE RecoveryTyped'
    BY <1>1, <1>2, <1>3, <1>a3 DEF FixerRole, EndRole, Roles, Fail, task, files, recovery,
       budget, coder, RecoveryTyped, NoShot, NoProduct, NoBest
  <1>a4. ASSUME CoderRole PROVE RecoveryTyped'
    BY <1>1, <1>2, <1>3, <1>a4 DEF CoderRole, Roles, task, files, recovery, budget, coder,
       RecoveryTyped, NoShot, NoProduct, NoBest
  <1>a5. ASSUME CoderDone PROVE RecoveryTyped'
    BY <1>1, <1>2, <1>3, <1>a5 DEF CoderDone, EndRole, Roles, task, files, recovery,
       budget, coder, RecoveryTyped, NoShot, NoProduct, NoBest
  <1>a6. ASSUME Finish PROVE RecoveryTyped'
    BY <1>1, <1>2, <1>3, <1>a6 DEF Finish, task, files, recovery, budget, coder,
       RecoveryTyped, NoShot, NoProduct, NoBest
  <1>a7. ASSUME Initial PROVE RecoveryTyped'
    BY <1>1, <1>2, <1>3, <1>a7 DEF Initial, EnterRounds, Fail, task, files, recovery,
       budget, coder, RecoveryTyped, NoShot, NoProduct, NoBest
  <1>a8. ASSUME Draft PROVE RecoveryTyped'
    BY <1>1, <1>2, <1>3, <1>a8 DEF Draft, task, files, recovery, budget, coder,
       RecoveryTyped, NoShot, NoProduct, NoBest
  <1>a9. ASSUME Disqualified PROVE RecoveryTyped'
    BY <1>1, <1>2, <1>3, <1>a9 DEF Disqualified, task, files, recovery, budget, coder,
       RecoveryTyped, NoShot, NoProduct, NoBest
  <1>a10. ASSUME Restore PROVE RecoveryTyped'
    BY <1>1, <1>2, <1>3, <1>a10 DEF Restore, task, files, recovery, budget, coder,
       RecoveryTyped, NoShot, NoProduct, NoBest
  <1>a11. ASSUME SkipValidation PROVE RecoveryTyped'
    BY <1>1, <1>2, <1>3, <1>a11 DEF SkipValidation, EnterRounds, task, files, recovery,
       budget, coder, RecoveryTyped, NoShot, NoProduct, NoBest
  <1>a12. ASSUME ValidationPasses PROVE RecoveryTyped'
    BY <1>1, <1>2, <1>3, <1>a12 DEF ValidationPasses, task, files, recovery, budget,
       coder, RecoveryTyped, NoShot, NoProduct, NoBest
  <1>a13. ASSUME ValidationFails PROVE RecoveryTyped'
    BY <1>1, <1>2, <1>3, <1>a13 DEF ValidationFails, EnterRounds, Fail, task, files,
       recovery, budget, coder, RecoveryTyped, NoShot, NoProduct, NoBest
  <1>a14. ASSUME LocalRepair PROVE RecoveryTyped'
    BY <1>1, <1>2, <1>3, <1>a14 DEF LocalRepair, task, files, recovery, budget, coder,
       RecoveryTyped, NoShot, NoProduct, NoBest
  <1>a15. ASSUME LocalRepairDisqualified PROVE RecoveryTyped'
    BY <1>1, <1>2, <1>3, <1>a15 DEF LocalRepairDisqualified, EnterRounds, task, files,
       recovery, budget, coder, RecoveryTyped, NoShot, NoProduct, NoBest
  <1>a16. ASSUME BeginRounds PROVE RecoveryTyped'
    BY <1>1, <1>2, <1>3, <1>a16 DEF BeginRounds, task, files, recovery, budget, coder,
       RecoveryTyped, NoShot, NoProduct, NoBest
  <1>a17. ASSUME RoundRefused PROVE RecoveryTyped'
    BY <1>1, <1>2, <1>3, <1>a17 DEF RoundRefused, Return, Fail, task, files, recovery,
       budget, coder, RecoveryTyped, NoShot, NoProduct, NoBest
  <1>a18. ASSUME Round PROVE RecoveryTyped'
    BY <1>1, <1>2, <1>3, <1>a18 DEF Round, NextRound, Return, Fail, task, files, recovery,
       budget, coder, RecoveryTyped, NoShot, NoProduct, NoBest, More
  <1>a19. ASSUME Check PROVE RecoveryTyped'
    <2>1. PICK exit \in {0, 1} : Validated(exit)
      BY <1>a19 DEF Check
    <2>2. shot' \in 0..NoShot
      BY <1>1, <1>3, <2>1, ValidationIsTyped DEF PlaceTyped, FilesTyped
    <2>3. Score(shot') \in 0..NoShot
      BY <2>2, ScoreIsTyped
    <2>4. \/ guard' = NoProduct /\ best' = NoBest /\ round' = 0
          \/ /\ round + 1 < RoundLimit /\ round' = round + 1 /\ guard' = guard
             /\ best' \in {best, [product |-> product, score |-> Score(shot')]}
      BY <1>a19 DEF Check, Return, NextRound, More
    <2> HIDE DEF NoShot
    <2> QED
      BY <1>1, <1>2, <1>3, <2>3, <2>4, <1>a19 DEF Check, RecoveryTyped, NoBest, NoProduct, NoShot
  <1>a20. ASSUME Abort PROVE RecoveryTyped'
    BY <1>1, <1>2, <1>3, <1>a20 DEF Abort, Fail, task, files, recovery, budget, coder,
       RecoveryTyped, NoShot, NoProduct, NoBest
  <1>a21. ASSUME Interfere PROVE RecoveryTyped'
    BY <1>1, <1>2, <1>3, <1>a21 DEF Interfere, task, files, recovery, budget, coder,
       RecoveryTyped, NoShot, NoProduct, NoBest
  <1> QED
    BY <1>a1, <1>a2, <1>a3, <1>a4, <1>a5, <1>a6, <1>a7, <1>a8, <1>a9, <1>a10, <1>a11,
       <1>a12, <1>a13, <1>a14, <1>a15, <1>a16, <1>a17, <1>a18, <1>a19, <1>a20, <1>a21 DEF
       Next, Step

\* The calls and their limit.
LEMMA BudgetIsTyped ==
    ASSUME PipelineInv, Next
    PROVE  BudgetTyped'
  <1>1. BudgetTyped /\ PlaceTyped
    BY TypesAreParts DEF PipelineInv
  <1>2. lane' = lane /\ mode' = mode /\ Product' = Product
    BY TaskIsTheSame
  <1>3. PipelineTypeOK /\ CallsAndLimitStayBelow
    BY DEF PipelineInv
  <1>4. StartLimit \in Nat
    BY <1>1, LimitsAreNatural DEF PlaceTyped
  <1>a1. ASSUME Start PROVE BudgetTyped'
    BY <1>1, <1>4, <1>a1 DEF Start, task, files, recovery, budget, coder, BudgetTyped
  <1>a2. ASSUME OtherRole PROVE BudgetTyped'
    BY <1>1, <1>4, <1>a2 DEF OtherRole, EndRole, Roles, task, files, recovery, budget,
       coder, BudgetTyped
  <1>a3. ASSUME FixerRole PROVE BudgetTyped'
    BY <1>1, <1>4, <1>a3 DEF FixerRole, EndRole, Roles, Fail, task, files, recovery,
       budget, coder, BudgetTyped
  <1>a4. ASSUME CoderRole PROVE BudgetTyped'
    BY <1>1, <1>4, <1>a4 DEF CoderRole, Roles, task, files, recovery, budget, coder,
       BudgetTyped
  <1>a5. ASSUME CoderDone PROVE BudgetTyped'
    BY <1>1, <1>4, <1>a5 DEF CoderDone, EndRole, Roles, task, files, recovery, budget,
       coder, BudgetTyped
  <1>a6. ASSUME Finish PROVE BudgetTyped'
    BY <1>1, <1>4, <1>a6 DEF Finish, task, files, recovery, budget, coder, BudgetTyped
  <1>a7. ASSUME Initial PROVE BudgetTyped'
    <2>1. PICK applied \in BOOLEAN : Try(FALSE, base, applied)
      BY <1>a7 DEF Initial
    <2>2. FALSE \in BOOLEAN /\ base \in Product \cup {NoProduct}
      BY <1>1, <1>3 DEF PipelineTypeOK
    <2>3. /\ product' \in Product /\ changed' \in BOOLEAN /\ said' = TRUE
          /\ spent' \in BOOLEAN /\ calls' \in Nat /\ limit' \in Nat
      BY <2>1, <2>2, <1>3, TryIsTyped
    <2> QED
      BY <1>1, <1>2, <1>4, <2>3, <1>a7 DEF Initial, BudgetTyped
  <1>a8. ASSUME Draft PROVE BudgetTyped'
    BY <1>1, <1>4, <1>a8 DEF Draft, task, files, recovery, budget, coder, BudgetTyped,
       Propose, Request, Least
  <1>a9. ASSUME Disqualified PROVE BudgetTyped'
    <2>1. PICK applied \in BOOLEAN : Try(FALSE, base, applied)
      BY <1>a9 DEF Disqualified
    <2>2. FALSE \in BOOLEAN /\ base \in Product \cup {NoProduct}
      BY <1>1, <1>3 DEF PipelineTypeOK
    <2>3. /\ product' \in Product /\ changed' \in BOOLEAN /\ said' = TRUE
          /\ spent' \in BOOLEAN /\ calls' \in Nat /\ limit' \in Nat
      BY <2>1, <2>2, <1>3, TryIsTyped
    <2> QED
      BY <1>1, <1>2, <1>4, <2>3, <1>a9 DEF Disqualified, BudgetTyped
  <1>a10. ASSUME Restore PROVE BudgetTyped'
    BY <1>1, <1>4, <1>a10 DEF Restore, task, files, recovery, budget, coder, BudgetTyped
  <1>a11. ASSUME SkipValidation PROVE BudgetTyped'
    BY <1>1, <1>4, <1>a11 DEF SkipValidation, EnterRounds, task, files, recovery, budget,
       coder, BudgetTyped
  <1>a12. ASSUME ValidationPasses PROVE BudgetTyped'
    BY <1>1, <1>4, <1>a12 DEF ValidationPasses, task, files, recovery, budget, coder,
       BudgetTyped
  <1>a13. ASSUME ValidationFails PROVE BudgetTyped'
    BY <1>1, <1>4, <1>a13 DEF ValidationFails, EnterRounds, Fail, task, files, recovery,
       budget, coder, BudgetTyped
  <1>a14. ASSUME LocalRepair PROVE BudgetTyped'
    BY <1>1, <1>4, <1>a14 DEF LocalRepair, task, files, recovery, budget, coder,
       BudgetTyped, Request, Least
  <1>a15. ASSUME LocalRepairDisqualified PROVE BudgetTyped'
    BY <1>1, <1>4, <1>a15 DEF LocalRepairDisqualified, EnterRounds, task, files, recovery,
       budget, coder, BudgetTyped, Request, Least
  <1>a16. ASSUME BeginRounds PROVE BudgetTyped'
    BY <1>1, <1>4, <1>a16 DEF BeginRounds, task, files, recovery, budget, coder,
       BudgetTyped
  <1>a17. ASSUME RoundRefused PROVE BudgetTyped'
    BY <1>1, <1>4, <1>a17 DEF RoundRefused, Return, Fail, task, files, recovery, budget,
       coder, BudgetTyped
  <1>a18. ASSUME Round PROVE BudgetTyped'
    <2>1. PICK applied \in BOOLEAN : Try(lane.visual, guard, applied)
      BY <1>a18 DEF Round
    <2>2. lane.visual \in BOOLEAN /\ guard \in Product \cup {NoProduct}
      BY <1>1, <1>3 DEF PipelineTypeOK, LaneFact
    <2>3. /\ product' \in Product /\ changed' \in BOOLEAN /\ said' = TRUE
          /\ spent' \in BOOLEAN /\ calls' \in Nat /\ limit' \in Nat
      BY <2>1, <2>2, <1>3, TryIsTyped
    <2> QED
      BY <1>1, <1>2, <1>4, <2>3, <1>a18 DEF Round, BudgetTyped
  <1>a19. ASSUME Check PROVE BudgetTyped'
    BY <1>1, <1>4, <1>a19 DEF Check, NextRound, Return, Fail, task, files, recovery,
       budget, coder, BudgetTyped
  <1>a20. ASSUME Abort PROVE BudgetTyped'
    BY <1>1, <1>4, <1>a20 DEF Abort, Fail, task, files, recovery, budget, coder,
       BudgetTyped
  <1>a21. ASSUME Interfere PROVE BudgetTyped'
    BY <1>1, <1>4, <1>a21 DEF Interfere, task, files, recovery, budget, coder, BudgetTyped
  <1> QED
    BY <1>a1, <1>a2, <1>a3, <1>a4, <1>a5, <1>a6, <1>a7, <1>a8, <1>a9, <1>a10, <1>a11,
       <1>a12, <1>a13, <1>a14, <1>a15, <1>a16, <1>a17, <1>a18, <1>a19, <1>a20, <1>a21 DEF
       Next, Step

-----------------------------------------------------------------------------
(***************************************************************************)
(* Where the pipeline is, and what it leaves to be done                    *)
(***************************************************************************)
\* The coder has one turn, and is never the last role.
LEMMA CoderHasOneTurn ==
    ASSUME PlaceTyped
    PROVE  /\ Len(Roles) \in Nat /\ role \in 1 .. Len(Roles)
           /\ Roles[role] = "coder" <=> role = CoderAt
           /\ CoderAt \in 1 .. 3 /\ CoderAt < Len(Roles)
  <1>1. mode \in {"fast", "default", "strict"} /\ role \in 1 .. Len(Pipelines[mode])
    BY ModesAreKnown DEF PlaceTyped
  <1>2. CASE mode = "fast"
    <2>1. Pipelines[mode] = <<"coder", "tester", "reviewer", "pr_writer">>
      BY <1>2 DEF Pipelines
    <2> QED
      BY <1>1, <1>2, <2>1 DEF Roles, CoderAt
  <1>3. CASE mode = "default"
    <2>1. Pipelines[mode] = <<"planner", "specifier", "coder", "tester", "fixer", "reviewer",
                              "pr_writer">>
      BY <1>3 DEF Pipelines
    <2> QED
      BY <1>1, <1>3, <2>1 DEF Roles, CoderAt
  <1>4. CASE mode = "strict"
    <2>1. Pipelines[mode] = <<"planner", "specifier", "coder", "cleaner", "architect", "hardener",
                              "qa", "pr_writer">>
      BY <1>4 DEF Pipelines
    <2> QED
      BY <1>1, <1>4, <2>1 DEF Roles, CoderAt
  <1> QED
    BY <1>1, <1>2, <1>3, <1>4

\* Every role hands the task to the next one in the status that one expects, and the last
\* one to the review.
LEMMA RolesPassOn ==
    ASSUME PlaceTyped
    PROVE  /\ role = 1 => Expected[mode][role] = "PLANNING"
           /\ role = CoderAt => Expected[mode][role] = "PLANNING"
           /\ status = Expected[mode][role] =>
                  RoleStatus(Roles[role]) \in IF role < Len(Roles) THEN {Expected[mode][role + 1]}
                                              ELSE {"TESTING", "REVIEWING"}
           /\ status \in TaskSetting => RoleStatus(Roles[role]) = status
  <1>1. mode \in {"fast", "default", "strict"} /\ role \in 1 .. Len(Pipelines[mode])
    BY ModesAreKnown DEF PlaceTyped
  <1>2. status \in TaskSetting => RoleStatus(Roles[role]) = status
    BY DEF RoleStatus
  <1>3. CASE mode = "fast"
    <2>1. /\ Pipelines[mode] = <<"coder", "tester", "reviewer", "pr_writer">>
          /\ Expected[mode] = <<"PLANNING", "IMPLEMENTING", "TESTING", "REVIEWING">>
      BY <1>3 DEF Pipelines, Expected
    <2>2. CASE role = 1
      BY <2>1, <2>2, <1>2, <1>3 DEF Roles, RoleStatus, CoderAt
    <2>3. CASE role = 2
      BY <2>1, <2>3, <1>2, <1>3 DEF Roles, RoleStatus, CoderAt
    <2>4. CASE role = 3
      BY <2>1, <2>4, <1>2, <1>3 DEF Roles, RoleStatus, CoderAt
    <2>5. CASE role = 4
      BY <2>1, <2>5, <1>2, <1>3 DEF Roles, RoleStatus, CoderAt
    <2>6. role \in 1 .. 4
      BY <1>1, <2>1
    <2> QED
      BY <2>2, <2>3, <2>4, <2>5, <2>6
  <1>4. CASE mode = "default"
    <2>1. /\ Pipelines[mode] = <<"planner", "specifier", "coder", "tester", "fixer", "reviewer",
                                 "pr_writer">>
          /\ Expected[mode] = <<"PLANNING", "PLANNING", "PLANNING", "IMPLEMENTING", "TESTING",
                                "TESTING", "REVIEWING">>
      BY <1>4 DEF Pipelines, Expected
    <2>2. CASE role \in {1, 2}
      BY <2>1, <2>2, <1>2, <1>4 DEF Roles, RoleStatus, CoderAt
    <2>3. CASE role = 3
      BY <2>1, <2>3, <1>2, <1>4 DEF Roles, RoleStatus, CoderAt
    <2>4. CASE role = 4
      BY <2>1, <2>4, <1>2, <1>4 DEF Roles, RoleStatus, CoderAt
    <2>5. CASE role = 5
      BY <2>1, <2>5, <1>2, <1>4 DEF Roles, RoleStatus, CoderAt
    <2>6. CASE role = 6
      BY <2>1, <2>6, <1>2, <1>4 DEF Roles, RoleStatus, CoderAt
    <2>7. CASE role = 7
      BY <2>1, <2>7, <1>2, <1>4 DEF Roles, RoleStatus, CoderAt
    <2>8. role \in 1 .. 7
      BY <1>1, <2>1
    <2> QED
      BY <2>2, <2>3, <2>4, <2>5, <2>6, <2>7, <2>8
  <1>5. CASE mode = "strict"
    <2>1. /\ Pipelines[mode] = <<"planner", "specifier", "coder", "cleaner", "architect",
                                 "hardener", "qa", "pr_writer">>
          /\ Expected[mode] = <<"PLANNING", "PLANNING", "PLANNING", "IMPLEMENTING",
                                "IMPLEMENTING", "IMPLEMENTING", "IMPLEMENTING", "TESTING">>
      BY <1>5 DEF Pipelines, Expected
    <2>2. CASE role \in {1, 2}
      BY <2>1, <2>2, <1>2, <1>5 DEF Roles, RoleStatus, CoderAt
    <2>3. CASE role = 3
      BY <2>1, <2>3, <1>2, <1>5 DEF Roles, RoleStatus, CoderAt
    <2>4. CASE role \in {4, 5, 6}
      BY <2>1, <2>4, <1>2, <1>5 DEF Roles, RoleStatus, CoderAt
    <2>5. CASE role = 7
      BY <2>1, <2>5, <1>2, <1>5 DEF Roles, RoleStatus, CoderAt
    <2>6. CASE role = 8
      BY <2>1, <2>6, <1>2, <1>5 DEF Roles, RoleStatus, CoderAt
    <2>7. role \in 1 .. 8
      BY <1>1, <2>1
    <2> QED
      BY <2>2, <2>3, <2>4, <2>5, <2>6, <2>7
  <1> QED
    BY <1>1, <1>3, <1>4, <1>5

\* The coder's turn is one turn.
LEMMA RoleStaysKnown ==
    ASSUME PipelineInv, Next
    PROVE  RoleIsKnown'
  <1>1. PlaceTyped /\ RoleIsKnown
    BY TypesAreParts DEF PipelineInv
  <1>2. lane' = lane /\ mode' = mode /\ Product' = Product
    BY TaskIsTheSame
  <1>3. /\ Len(Roles) \in Nat /\ role \in 1 .. Len(Roles)
        /\ Roles[role] = "coder" <=> role = CoderAt
        /\ CoderAt' = CoderAt /\ CoderAt \in 1 .. 3 /\ CoderAt < Len(Roles)
    BY <1>1, <1>2, CoderHasOneTurn DEF CoderAt
  <1>a1. ASSUME Start PROVE RoleIsKnown'
    BY <1>1, <1>2, <1>3, <1>a1 DEF Start, task, files, recovery, budget, coder,
       PlaceTyped, RoleIsKnown, Turn
  <1>a2. ASSUME OtherRole PROVE RoleIsKnown'
    BY <1>1, <1>2, <1>3, <1>a2 DEF OtherRole, EndRole, Roles, task, files, recovery,
       budget, coder, PlaceTyped, RoleIsKnown, Turn
  <1>a3. ASSUME FixerRole PROVE RoleIsKnown'
    BY <1>1, <1>2, <1>3, <1>a3 DEF FixerRole, EndRole, Roles, Fail, task, files, recovery,
       budget, coder, PlaceTyped, RoleIsKnown, Turn
  <1>a4. ASSUME CoderRole PROVE RoleIsKnown'
    BY <1>1, <1>2, <1>3, <1>a4 DEF CoderRole, Roles, task, files, recovery, budget, coder,
       PlaceTyped, RoleIsKnown, Turn
  <1>a5. ASSUME CoderDone PROVE RoleIsKnown'
    BY <1>1, <1>2, <1>3, <1>a5 DEF CoderDone, EndRole, Roles, task, files, recovery,
       budget, coder, PlaceTyped, RoleIsKnown, Turn
  <1>a6. ASSUME Finish PROVE RoleIsKnown'
    BY <1>1, <1>2, <1>3, <1>a6 DEF Finish, task, files, recovery, budget, coder,
       PlaceTyped, RoleIsKnown, Turn
  <1>a7. ASSUME Initial PROVE RoleIsKnown'
    BY <1>1, <1>2, <1>3, <1>a7 DEF Initial, EnterRounds, Fail, task, files, recovery,
       budget, coder, PlaceTyped, RoleIsKnown, Turn
  <1>a8. ASSUME Draft PROVE RoleIsKnown'
    BY <1>1, <1>2, <1>3, <1>a8 DEF Draft, task, files, recovery, budget, coder,
       PlaceTyped, RoleIsKnown, Turn
  <1>a9. ASSUME Disqualified PROVE RoleIsKnown'
    BY <1>1, <1>2, <1>3, <1>a9 DEF Disqualified, task, files, recovery, budget, coder,
       PlaceTyped, RoleIsKnown, Turn
  <1>a10. ASSUME Restore PROVE RoleIsKnown'
    BY <1>1, <1>2, <1>3, <1>a10 DEF Restore, task, files, recovery, budget, coder,
       PlaceTyped, RoleIsKnown, Turn
  <1>a11. ASSUME SkipValidation PROVE RoleIsKnown'
    BY <1>1, <1>2, <1>3, <1>a11 DEF SkipValidation, EnterRounds, task, files, recovery,
       budget, coder, PlaceTyped, RoleIsKnown, Turn
  <1>a12. ASSUME ValidationPasses PROVE RoleIsKnown'
    BY <1>1, <1>2, <1>3, <1>a12 DEF ValidationPasses, task, files, recovery, budget,
       coder, PlaceTyped, RoleIsKnown, Turn
  <1>a13. ASSUME ValidationFails PROVE RoleIsKnown'
    BY <1>1, <1>2, <1>3, <1>a13 DEF ValidationFails, EnterRounds, Fail, task, files,
       recovery, budget, coder, PlaceTyped, RoleIsKnown, Turn
  <1>a14. ASSUME LocalRepair PROVE RoleIsKnown'
    BY <1>1, <1>2, <1>3, <1>a14 DEF LocalRepair, task, files, recovery, budget, coder,
       PlaceTyped, RoleIsKnown, Turn
  <1>a15. ASSUME LocalRepairDisqualified PROVE RoleIsKnown'
    BY <1>1, <1>2, <1>3, <1>a15 DEF LocalRepairDisqualified, EnterRounds, task, files,
       recovery, budget, coder, PlaceTyped, RoleIsKnown, Turn
  <1>a16. ASSUME BeginRounds PROVE RoleIsKnown'
    BY <1>1, <1>2, <1>3, <1>a16 DEF BeginRounds, task, files, recovery, budget, coder,
       PlaceTyped, RoleIsKnown, Turn
  <1>a17. ASSUME RoundRefused PROVE RoleIsKnown'
    BY <1>1, <1>2, <1>3, <1>a17 DEF RoundRefused, Return, Fail, task, files, recovery,
       budget, coder, PlaceTyped, RoleIsKnown, Turn
  <1>a18. ASSUME Round PROVE RoleIsKnown'
    BY <1>1, <1>2, <1>3, <1>a18 DEF Round, NextRound, Return, Fail, task, files, recovery,
       budget, coder, PlaceTyped, RoleIsKnown, Turn
  <1>a19. ASSUME Check PROVE RoleIsKnown'
    BY <1>1, <1>2, <1>3, <1>a19 DEF Check, NextRound, Return, Fail, task, files, recovery,
       budget, coder, PlaceTyped, RoleIsKnown, Turn, More
  <1>a20. ASSUME Abort PROVE RoleIsKnown'
    BY <1>1, <1>2, <1>3, <1>a20 DEF Abort, Fail, task, files, recovery, budget, coder,
       PlaceTyped, RoleIsKnown, Turn
  <1>a21. ASSUME Interfere PROVE RoleIsKnown'
    BY <1>1, <1>2, <1>3, <1>a21 DEF Interfere, task, files, recovery, budget, coder,
       PlaceTyped, RoleIsKnown, Turn
  <1> QED
    BY <1>a1, <1>a2, <1>a3, <1>a4, <1>a5, <1>a6, <1>a7, <1>a8, <1>a9, <1>a10, <1>a11,
       <1>a12, <1>a13, <1>a14, <1>a15, <1>a16, <1>a17, <1>a18, <1>a19, <1>a20, <1>a21 DEF
       Next, Step

\* The status of the task is the one its next role expects, or an operator's.
LEMMA StatusStillFollowsRoles ==
    ASSUME PipelineInv, Next
    PROVE  (StatusFollowsRoles /\ OutcomesAgree)'
  <1>1. PlaceTyped /\ RoleIsKnown /\ StatusFollowsRoles /\ OutcomesAgree
    BY TypesAreParts DEF PipelineInv
  <1>2. lane' = lane /\ mode' = mode /\ Product' = Product
    BY TaskIsTheSame
  <1>3. /\ Len(Roles) \in Nat /\ role \in 1 .. Len(Roles)
        /\ Roles[role] = "coder" <=> role = CoderAt
        /\ CoderAt' = CoderAt /\ CoderAt \in 1 .. 3 /\ CoderAt < Len(Roles)
    BY <1>1, <1>2, CoderHasOneTurn DEF CoderAt
  <1>4. /\ role = 1 => Expected[mode][role] = "PLANNING"
        /\ role = CoderAt => Expected[mode][role] = "PLANNING"
        /\ status = Expected[mode][role] =>
              RoleStatus(Roles[role]) \in IF role < Len(Roles) THEN {Expected[mode][role + 1]}
                                          ELSE {"TESTING", "REVIEWING"}
        /\ status \in TaskSetting => RoleStatus(Roles[role]) = status
    BY <1>1, RolesPassOn
  <1>a1. ASSUME Start PROVE (StatusFollowsRoles /\ OutcomesAgree)'
    BY <1>1, <1>2, <1>3, <1>4, <1>a1 DEF Start, task, files, recovery, budget, coder,
       PlaceTyped, RoleIsKnown, Turn, StatusFollowsRoles, OutcomesAgree
  <1>a2. ASSUME OtherRole PROVE (StatusFollowsRoles /\ OutcomesAgree)'
    BY <1>1, <1>2, <1>3, <1>4, <1>a2 DEF OtherRole, EndRole, Roles, task, files, recovery,
       budget, coder, PlaceTyped, RoleIsKnown, Turn, StatusFollowsRoles, OutcomesAgree
  <1>a3. ASSUME FixerRole PROVE (StatusFollowsRoles /\ OutcomesAgree)'
    BY <1>1, <1>2, <1>3, <1>4, <1>a3 DEF FixerRole, EndRole, Roles, Fail, task, files,
       recovery, budget, coder, PlaceTyped, RoleIsKnown, Turn, StatusFollowsRoles,
       OutcomesAgree
  <1>a4. ASSUME CoderRole PROVE (StatusFollowsRoles /\ OutcomesAgree)'
    BY <1>1, <1>2, <1>3, <1>4, <1>a4 DEF CoderRole, Roles, task, files, recovery, budget,
       coder, PlaceTyped, RoleIsKnown, Turn, StatusFollowsRoles, OutcomesAgree
  <1>a5. ASSUME CoderDone PROVE (StatusFollowsRoles /\ OutcomesAgree)'
    BY <1>1, <1>2, <1>3, <1>4, <1>a5 DEF CoderDone, EndRole, Roles, task, files, recovery,
       budget, coder, PlaceTyped, RoleIsKnown, Turn, StatusFollowsRoles, OutcomesAgree
  <1>a6. ASSUME Finish PROVE (StatusFollowsRoles /\ OutcomesAgree)'
    BY <1>1, <1>2, <1>3, <1>4, <1>a6 DEF Finish, task, files, recovery, budget, coder,
       PlaceTyped, RoleIsKnown, Turn, StatusFollowsRoles, OutcomesAgree
  <1>a7. ASSUME Initial PROVE (StatusFollowsRoles /\ OutcomesAgree)'
    BY <1>1, <1>2, <1>3, <1>4, <1>a7 DEF Initial, EnterRounds, Fail, task, files,
       recovery, budget, coder, PlaceTyped, RoleIsKnown, Turn, StatusFollowsRoles,
       OutcomesAgree
  <1>a8. ASSUME Draft PROVE (StatusFollowsRoles /\ OutcomesAgree)'
    BY <1>1, <1>2, <1>3, <1>4, <1>a8 DEF Draft, task, files, recovery, budget, coder,
       PlaceTyped, RoleIsKnown, Turn, StatusFollowsRoles, OutcomesAgree
  <1>a9. ASSUME Disqualified PROVE (StatusFollowsRoles /\ OutcomesAgree)'
    BY <1>1, <1>2, <1>3, <1>4, <1>a9 DEF Disqualified, task, files, recovery, budget,
       coder, PlaceTyped, RoleIsKnown, Turn, StatusFollowsRoles, OutcomesAgree
  <1>a10. ASSUME Restore PROVE (StatusFollowsRoles /\ OutcomesAgree)'
    BY <1>1, <1>2, <1>3, <1>4, <1>a10 DEF Restore, task, files, recovery, budget, coder,
       PlaceTyped, RoleIsKnown, Turn, StatusFollowsRoles, OutcomesAgree
  <1>a11. ASSUME SkipValidation PROVE (StatusFollowsRoles /\ OutcomesAgree)'
    BY <1>1, <1>2, <1>3, <1>4, <1>a11 DEF SkipValidation, EnterRounds, task, files,
       recovery, budget, coder, PlaceTyped, RoleIsKnown, Turn, StatusFollowsRoles,
       OutcomesAgree
  <1>a12. ASSUME ValidationPasses PROVE (StatusFollowsRoles /\ OutcomesAgree)'
    BY <1>1, <1>2, <1>3, <1>4, <1>a12 DEF ValidationPasses, task, files, recovery, budget,
       coder, PlaceTyped, RoleIsKnown, Turn, StatusFollowsRoles, OutcomesAgree
  <1>a13. ASSUME ValidationFails PROVE (StatusFollowsRoles /\ OutcomesAgree)'
    BY <1>1, <1>2, <1>3, <1>4, <1>a13 DEF ValidationFails, EnterRounds, Fail, task, files,
       recovery, budget, coder, PlaceTyped, RoleIsKnown, Turn, StatusFollowsRoles,
       OutcomesAgree
  <1>a14. ASSUME LocalRepair PROVE (StatusFollowsRoles /\ OutcomesAgree)'
    BY <1>1, <1>2, <1>3, <1>4, <1>a14 DEF LocalRepair, task, files, recovery, budget,
       coder, PlaceTyped, RoleIsKnown, Turn, StatusFollowsRoles, OutcomesAgree
  <1>a15. ASSUME LocalRepairDisqualified PROVE (StatusFollowsRoles /\ OutcomesAgree)'
    BY <1>1, <1>2, <1>3, <1>4, <1>a15 DEF LocalRepairDisqualified, EnterRounds, task,
       files, recovery, budget, coder, PlaceTyped, RoleIsKnown, Turn, StatusFollowsRoles,
       OutcomesAgree
  <1>a16. ASSUME BeginRounds PROVE (StatusFollowsRoles /\ OutcomesAgree)'
    BY <1>1, <1>2, <1>3, <1>4, <1>a16 DEF BeginRounds, task, files, recovery, budget,
       coder, PlaceTyped, RoleIsKnown, Turn, StatusFollowsRoles, OutcomesAgree
  <1>a17. ASSUME RoundRefused PROVE (StatusFollowsRoles /\ OutcomesAgree)'
    BY <1>1, <1>2, <1>3, <1>4, <1>a17 DEF RoundRefused, Return, Fail, task, files,
       recovery, budget, coder, PlaceTyped, RoleIsKnown, Turn, StatusFollowsRoles,
       OutcomesAgree
  <1>a18. ASSUME Round PROVE (StatusFollowsRoles /\ OutcomesAgree)'
    BY <1>1, <1>2, <1>3, <1>4, <1>a18 DEF Round, NextRound, Return, Fail, task, files,
       recovery, budget, coder, PlaceTyped, RoleIsKnown, Turn, StatusFollowsRoles,
       OutcomesAgree
  <1>a19. ASSUME Check PROVE (StatusFollowsRoles /\ OutcomesAgree)'
    BY <1>1, <1>2, <1>3, <1>4, <1>a19 DEF Check, NextRound, Return, Fail, task, files,
       recovery, budget, coder, PlaceTyped, RoleIsKnown, Turn, StatusFollowsRoles,
       OutcomesAgree, More
  <1>a20. ASSUME Abort PROVE (StatusFollowsRoles /\ OutcomesAgree)'
    BY <1>1, <1>2, <1>3, <1>4, <1>a20 DEF Abort, Fail, task, files, recovery, budget,
       coder, PlaceTyped, RoleIsKnown, Turn, StatusFollowsRoles, OutcomesAgree
  <1>a21. ASSUME Interfere PROVE (StatusFollowsRoles /\ OutcomesAgree)'
    BY <1>1, <1>2, <1>3, <1>4, <1>a21 DEF Interfere, task, files, recovery, budget, coder,
       PlaceTyped, RoleIsKnown, Turn, StatusFollowsRoles, OutcomesAgree
  <1> QED
    BY <1>a1, <1>a2, <1>a3, <1>a4, <1>a5, <1>a6, <1>a7, <1>a8, <1>a9, <1>a10, <1>a11,
       <1>a12, <1>a13, <1>a14, <1>a15, <1>a16, <1>a17, <1>a18, <1>a19, <1>a20, <1>a21 DEF
       Next, Step

\* A repair or a round is begun only while one is left.
LEMMA RepairsStayLeft ==
    ASSUME PipelineInv, Next
    PROVE  RepairsAreLeft'
  <1>1. PlaceTyped /\ FilesTyped /\ RecoveryTyped /\ CoderTyped /\ RepairsAreLeft
    BY TypesAreParts DEF PipelineInv
  <1>2. lane' = lane /\ mode' = mode /\ Product' = Product
    BY TaskIsTheSame
  <1>3. /\ product \in Product /\ best \in [product : Product \cup {NoProduct}, score : 0..NoShot]
        /\ RoundLimit \in 1 .. 5 /\ RoundLimit' = RoundLimit /\ round \in 0 .. 5
        /\ attempt \in 0 .. MaxRepair
    BY <1>1, <1>2, LimitsAreNatural DEF PlaceTyped, FilesTyped, RecoveryTyped, RoundLimit,
       CoderTyped
  <1>a1. ASSUME Start PROVE RepairsAreLeft'
    BY <1>1, <1>2, <1>3, <1>a1 DEF Start, task, files, recovery, budget, coder,
       RepairsAreLeft, NoBest, NoShot, NoProduct, AttemptsLeft, More
  <1>a2. ASSUME OtherRole PROVE RepairsAreLeft'
    BY <1>1, <1>2, <1>3, <1>a2 DEF OtherRole, EndRole, Roles, task, files, recovery,
       budget, coder, RepairsAreLeft, NoBest, NoShot, NoProduct, AttemptsLeft, More
  <1>a3. ASSUME FixerRole PROVE RepairsAreLeft'
    BY <1>1, <1>2, <1>3, <1>a3 DEF FixerRole, EndRole, Roles, Fail, task, files, recovery,
       budget, coder, RepairsAreLeft, NoBest, NoShot, NoProduct, AttemptsLeft, More
  <1>a4. ASSUME CoderRole PROVE RepairsAreLeft'
    BY <1>1, <1>2, <1>3, <1>a4 DEF CoderRole, Roles, task, files, recovery, budget, coder,
       RepairsAreLeft, NoBest, NoShot, NoProduct, AttemptsLeft, More
  <1>a5. ASSUME CoderDone PROVE RepairsAreLeft'
    BY <1>1, <1>2, <1>3, <1>a5 DEF CoderDone, EndRole, Roles, task, files, recovery,
       budget, coder, RepairsAreLeft, NoBest, NoShot, NoProduct, AttemptsLeft, More
  <1>a6. ASSUME Finish PROVE RepairsAreLeft'
    BY <1>1, <1>2, <1>3, <1>a6 DEF Finish, task, files, recovery, budget, coder,
       RepairsAreLeft, NoBest, NoShot, NoProduct, AttemptsLeft, More
  <1>a7. ASSUME Initial PROVE RepairsAreLeft'
    BY <1>1, <1>2, <1>3, <1>a7 DEF Initial, EnterRounds, Fail, task, files, recovery,
       budget, coder, RepairsAreLeft, NoBest, NoShot, NoProduct, AttemptsLeft, More
  <1>a8. ASSUME Draft PROVE RepairsAreLeft'
    BY <1>1, <1>2, <1>3, <1>a8 DEF Draft, task, files, recovery, budget, coder,
       RepairsAreLeft, NoBest, NoShot, NoProduct, AttemptsLeft, More
  <1>a9. ASSUME Disqualified PROVE RepairsAreLeft'
    BY <1>1, <1>2, <1>3, <1>a9 DEF Disqualified, task, files, recovery, budget, coder,
       RepairsAreLeft, NoBest, NoShot, NoProduct, AttemptsLeft, More
  <1>a10. ASSUME Restore PROVE RepairsAreLeft'
    BY <1>1, <1>2, <1>3, <1>a10 DEF Restore, task, files, recovery, budget, coder,
       RepairsAreLeft, NoBest, NoShot, NoProduct, AttemptsLeft, More
  <1>a11. ASSUME SkipValidation PROVE RepairsAreLeft'
    BY <1>1, <1>2, <1>3, <1>a11 DEF SkipValidation, EnterRounds, task, files, recovery,
       budget, coder, RepairsAreLeft, NoBest, NoShot, NoProduct, AttemptsLeft, More
  <1>a12. ASSUME ValidationPasses PROVE RepairsAreLeft'
    BY <1>1, <1>2, <1>3, <1>a12 DEF ValidationPasses, task, files, recovery, budget,
       coder, RepairsAreLeft, NoBest, NoShot, NoProduct, AttemptsLeft, More
  <1>a13. ASSUME ValidationFails PROVE RepairsAreLeft'
    BY <1>1, <1>2, <1>3, <1>a13 DEF ValidationFails, EnterRounds, Fail, task, files,
       recovery, budget, coder, RepairsAreLeft, NoBest, NoShot, NoProduct, AttemptsLeft,
       More
  <1>a14. ASSUME LocalRepair PROVE RepairsAreLeft'
    BY <1>1, <1>2, <1>3, <1>a14 DEF LocalRepair, task, files, recovery, budget, coder,
       RepairsAreLeft, NoBest, NoShot, NoProduct, AttemptsLeft, More
  <1>a15. ASSUME LocalRepairDisqualified PROVE RepairsAreLeft'
    BY <1>1, <1>2, <1>3, <1>a15 DEF LocalRepairDisqualified, EnterRounds, task, files,
       recovery, budget, coder, RepairsAreLeft, NoBest, NoShot, NoProduct, AttemptsLeft,
       More
  <1>a16. ASSUME BeginRounds PROVE RepairsAreLeft'
    BY <1>1, <1>2, <1>3, <1>a16 DEF BeginRounds, task, files, recovery, budget, coder,
       RepairsAreLeft, NoBest, NoShot, NoProduct, AttemptsLeft, More
  <1>a17. ASSUME RoundRefused PROVE RepairsAreLeft'
    BY <1>1, <1>2, <1>3, <1>a17 DEF RoundRefused, Return, Fail, task, files, recovery,
       budget, coder, RepairsAreLeft, NoBest, NoShot, NoProduct, AttemptsLeft, More
  <1>a18. ASSUME Round PROVE RepairsAreLeft'
    BY <1>1, <1>2, <1>3, <1>a18 DEF Round, NextRound, Return, Fail, task, files, recovery,
       budget, coder, RepairsAreLeft, NoBest, NoShot, NoProduct, AttemptsLeft, More
  <1>a19. ASSUME Check PROVE RepairsAreLeft'
    BY <1>1, <1>2, <1>3, <1>a19 DEF Check, NextRound, Return, Fail, task, files, recovery,
       budget, coder, RepairsAreLeft, NoBest, NoShot, NoProduct, AttemptsLeft, More
  <1>a20. ASSUME Abort PROVE RepairsAreLeft'
    BY <1>1, <1>2, <1>3, <1>a20 DEF Abort, Fail, task, files, recovery, budget, coder,
       RepairsAreLeft, NoBest, NoShot, NoProduct, AttemptsLeft, More
  <1>a21. ASSUME Interfere PROVE RepairsAreLeft'
    BY <1>1, <1>2, <1>3, <1>a21 DEF Interfere, task, files, recovery, budget, coder,
       RepairsAreLeft, NoBest, NoShot, NoProduct, AttemptsLeft, More
  <1> QED
    BY <1>a1, <1>a2, <1>a3, <1>a4, <1>a5, <1>a6, <1>a7, <1>a8, <1>a9, <1>a10, <1>a11,
       <1>a12, <1>a13, <1>a14, <1>a15, <1>a16, <1>a17, <1>a18, <1>a19, <1>a20, <1>a21 DEF
       Next, Step

-----------------------------------------------------------------------------
(***************************************************************************)
(* Calls and rounds                                                        *)
(***************************************************************************)
\* No call is made at the limit, and no limit is set above the ceiling.
LEMMA CallsStayBelow ==
    ASSUME PipelineInv, Next
    PROVE  CallsAndLimitStayBelow'
  <1>1. PlaceTyped /\ BudgetTyped /\ CallsAndLimitStayBelow
    BY TypesAreParts DEF PipelineInv
  <1>2. lane' = lane /\ mode' = mode /\ Product' = Product
    BY TaskIsTheSame
  <1>3. /\ StartLimit \in Nat /\ Ceiling \in Nat /\ StartLimit <= Ceiling
        /\ Ceiling' = Ceiling
    BY <1>1, <1>2, LimitsAreNatural DEF PlaceTyped, Ceiling, StartLimit, VisualCallLimit, ChiefLimit
  <1>4. PipelineTypeOK /\ CallsAndLimitStayBelow
    BY DEF PipelineInv
  <1>a1. ASSUME Start PROVE CallsAndLimitStayBelow'
    BY <1>1, <1>2, <1>3, <1>a1 DEF Start, task, files, recovery, budget, coder,
       CallsAndLimitStayBelow, BudgetTyped
  <1>a2. ASSUME OtherRole PROVE CallsAndLimitStayBelow'
    BY <1>1, <1>2, <1>3, <1>a2 DEF OtherRole, EndRole, Roles, task, files, recovery,
       budget, coder, CallsAndLimitStayBelow, BudgetTyped
  <1>a3. ASSUME FixerRole PROVE CallsAndLimitStayBelow'
    BY <1>1, <1>2, <1>3, <1>a3 DEF FixerRole, EndRole, Roles, Fail, task, files, recovery,
       budget, coder, CallsAndLimitStayBelow, BudgetTyped
  <1>a4. ASSUME CoderRole PROVE CallsAndLimitStayBelow'
    BY <1>1, <1>2, <1>3, <1>a4 DEF CoderRole, Roles, task, files, recovery, budget, coder,
       CallsAndLimitStayBelow, BudgetTyped
  <1>a5. ASSUME CoderDone PROVE CallsAndLimitStayBelow'
    BY <1>1, <1>2, <1>3, <1>a5 DEF CoderDone, EndRole, Roles, task, files, recovery,
       budget, coder, CallsAndLimitStayBelow, BudgetTyped
  <1>a6. ASSUME Finish PROVE CallsAndLimitStayBelow'
    BY <1>1, <1>2, <1>3, <1>a6 DEF Finish, task, files, recovery, budget, coder,
       CallsAndLimitStayBelow, BudgetTyped
  <1>a7. ASSUME Initial PROVE CallsAndLimitStayBelow'
    <2>1. PICK applied \in BOOLEAN : Try(FALSE, base, applied)
      BY <1>a7 DEF Initial
    <2>2. FALSE \in BOOLEAN /\ base \in Product \cup {NoProduct}
      BY <1>1, <1>4 DEF PipelineTypeOK
    <2>3. calls' <= Ceiling /\ limit' <= Ceiling
      BY <2>1, <2>2, <1>4, TryIsTyped
    <2> QED
      BY <1>3, <2>3 DEF CallsAndLimitStayBelow
  <1>a8. ASSUME Draft PROVE CallsAndLimitStayBelow'
    BY <1>1, <1>2, <1>3, <1>a8 DEF Draft, task, files, recovery, budget, coder,
       CallsAndLimitStayBelow, BudgetTyped, Propose, Request, Least
  <1>a9. ASSUME Disqualified PROVE CallsAndLimitStayBelow'
    <2>1. PICK applied \in BOOLEAN : Try(FALSE, base, applied)
      BY <1>a9 DEF Disqualified
    <2>2. FALSE \in BOOLEAN /\ base \in Product \cup {NoProduct}
      BY <1>1, <1>4 DEF PipelineTypeOK
    <2>3. calls' <= Ceiling /\ limit' <= Ceiling
      BY <2>1, <2>2, <1>4, TryIsTyped
    <2> QED
      BY <1>3, <2>3 DEF CallsAndLimitStayBelow
  <1>a10. ASSUME Restore PROVE CallsAndLimitStayBelow'
    BY <1>1, <1>2, <1>3, <1>a10 DEF Restore, task, files, recovery, budget, coder,
       CallsAndLimitStayBelow, BudgetTyped
  <1>a11. ASSUME SkipValidation PROVE CallsAndLimitStayBelow'
    BY <1>1, <1>2, <1>3, <1>a11 DEF SkipValidation, EnterRounds, task, files, recovery,
       budget, coder, CallsAndLimitStayBelow, BudgetTyped
  <1>a12. ASSUME ValidationPasses PROVE CallsAndLimitStayBelow'
    BY <1>1, <1>2, <1>3, <1>a12 DEF ValidationPasses, task, files, recovery, budget,
       coder, CallsAndLimitStayBelow, BudgetTyped
  <1>a13. ASSUME ValidationFails PROVE CallsAndLimitStayBelow'
    BY <1>1, <1>2, <1>3, <1>a13 DEF ValidationFails, EnterRounds, Fail, task, files,
       recovery, budget, coder, CallsAndLimitStayBelow, BudgetTyped
  <1>a14. ASSUME LocalRepair PROVE CallsAndLimitStayBelow'
    BY <1>1, <1>2, <1>3, <1>a14 DEF LocalRepair, task, files, recovery, budget, coder,
       CallsAndLimitStayBelow, BudgetTyped, Request, Least
  <1>a15. ASSUME LocalRepairDisqualified PROVE CallsAndLimitStayBelow'
    BY <1>1, <1>2, <1>3, <1>a15 DEF LocalRepairDisqualified, EnterRounds, task, files,
       recovery, budget, coder, CallsAndLimitStayBelow, BudgetTyped, Request, Least
  <1>a16. ASSUME BeginRounds PROVE CallsAndLimitStayBelow'
    BY <1>1, <1>2, <1>3, <1>a16 DEF BeginRounds, task, files, recovery, budget, coder,
       CallsAndLimitStayBelow, BudgetTyped
  <1>a17. ASSUME RoundRefused PROVE CallsAndLimitStayBelow'
    BY <1>1, <1>2, <1>3, <1>a17 DEF RoundRefused, Return, Fail, task, files, recovery,
       budget, coder, CallsAndLimitStayBelow, BudgetTyped
  <1>a18. ASSUME Round PROVE CallsAndLimitStayBelow'
    <2>1. PICK applied \in BOOLEAN : Try(lane.visual, guard, applied)
      BY <1>a18 DEF Round
    <2>2. lane.visual \in BOOLEAN /\ guard \in Product \cup {NoProduct}
      BY <1>1, <1>4 DEF PipelineTypeOK, PlaceTyped, LaneFact
    <2>3. calls' <= Ceiling /\ limit' <= Ceiling
      BY <2>1, <2>2, <1>4, TryIsTyped
    <2> QED
      BY <1>3, <2>3 DEF CallsAndLimitStayBelow
  <1>a19. ASSUME Check PROVE CallsAndLimitStayBelow'
    BY <1>1, <1>2, <1>3, <1>a19 DEF Check, NextRound, Return, Fail, task, files, recovery,
       budget, coder, CallsAndLimitStayBelow, BudgetTyped
  <1>a20. ASSUME Abort PROVE CallsAndLimitStayBelow'
    BY <1>1, <1>2, <1>3, <1>a20 DEF Abort, Fail, task, files, recovery, budget, coder,
       CallsAndLimitStayBelow, BudgetTyped
  <1>a21. ASSUME Interfere PROVE CallsAndLimitStayBelow'
    BY <1>1, <1>2, <1>3, <1>a21 DEF Interfere, task, files, recovery, budget, coder,
       CallsAndLimitStayBelow, BudgetTyped
  <1> QED
    BY <1>a1, <1>a2, <1>a3, <1>a4, <1>a5, <1>a6, <1>a7, <1>a8, <1>a9, <1>a10, <1>a11,
       <1>a12, <1>a13, <1>a14, <1>a15, <1>a16, <1>a17, <1>a18, <1>a19, <1>a20, <1>a21 DEF
       Next, Step

\* A visual task is recovered once, the others never in the place of their first writing.
LEMMA RecoveryStaysMarked ==
    ASSUME PipelineInv, Next
    PROVE  RecoveryIsMarked'
  <1>1. PlaceTyped /\ CoderTyped /\ FilesTyped /\ RoleIsKnown /\ RepairsAreLeft /\ RecoveryIsMarked
    BY TypesAreParts DEF PipelineInv
  <1>2. lane' = lane /\ mode' = mode /\ Product' = Product
    BY TaskIsTheSame
  <1>3. /\ Roles[role] = "coder" <=> role = CoderAt
        /\ CoderAt' = CoderAt /\ CoderAt \in Nat /\ role \in Nat
    BY <1>1, <1>2, CoderHasOneTurn DEF CoderAt, Roles
  <1>a1. ASSUME Start PROVE RecoveryIsMarked'
    BY <1>1, <1>2, <1>3, <1>a1 DEF Start, task, files, recovery, budget, coder,
       PlaceTyped, CoderTyped, FilesTyped, RoleIsKnown, Turn, RepairsAreLeft,
       RecoveryIsMarked
  <1>a2. ASSUME OtherRole PROVE RecoveryIsMarked'
    BY <1>1, <1>2, <1>3, <1>a2 DEF OtherRole, EndRole, Roles, task, files, recovery,
       budget, coder, PlaceTyped, CoderTyped, FilesTyped, RoleIsKnown, Turn,
       RepairsAreLeft, RecoveryIsMarked
  <1>a3. ASSUME FixerRole PROVE RecoveryIsMarked'
    BY <1>1, <1>2, <1>3, <1>a3 DEF FixerRole, EndRole, Roles, Fail, task, files, recovery,
       budget, coder, PlaceTyped, CoderTyped, FilesTyped, RoleIsKnown, Turn,
       RepairsAreLeft, RecoveryIsMarked
  <1>a4. ASSUME CoderRole PROVE RecoveryIsMarked'
    <2>1. /\ pc = "role" /\ role = CoderAt /\ role' = role
          /\ pc' \in {"initial", "draft"} /\ (pc' = "initial" => ChiefFirst)
          /\ tried' = tried /\ sound' = sound /\ back' = back
          /\ changed' = (changed \/ (ChiefFirst /\ lane.visual /\ lane.contract))
      BY <1>1, <1>3, <1>a4 DEF CoderRole, PlaceTyped, RoleIsKnown
    <2>2. ~tried /\ ~sound /\ back = "none"
      BY <1>1, <1>3, <2>1 DEF RecoveryIsMarked, RepairsAreLeft
    <2>3. pc' = "initial" /\ lane.visual /\ lane.contract => changed'
      BY <2>1
    <2> QED
      BY <1>2, <1>3, <2>1, <2>2, <2>3 DEF RecoveryIsMarked
  <1>a5. ASSUME CoderDone PROVE RecoveryIsMarked'
    BY <1>1, <1>2, <1>3, <1>a5 DEF CoderDone, EndRole, Roles, task, files, recovery,
       budget, coder, PlaceTyped, CoderTyped, FilesTyped, RoleIsKnown, Turn,
       RepairsAreLeft, RecoveryIsMarked
  <1>a6. ASSUME Finish PROVE RecoveryIsMarked'
    BY <1>1, <1>2, <1>3, <1>a6 DEF Finish, task, files, recovery, budget, coder,
       PlaceTyped, CoderTyped, FilesTyped, RoleIsKnown, Turn, RepairsAreLeft,
       RecoveryIsMarked
  <1>a7. ASSUME Initial PROVE RecoveryIsMarked'
    <2>1. PICK applied \in BOOLEAN : Try(FALSE, base, applied)
      BY <1>a7 DEF Initial
    <2>2. changed => changed'
      BY <2>1 DEF Try, Refuse, FixHarness, ApplyPlan
    <2> QED
      BY <1>1, <1>2, <1>3, <2>2, <1>a7 DEF Initial, EnterRounds, Return, NextRound, Fail, EndRole, task, files, recovery, budget, coder, PlaceTyped, CoderTyped, FilesTyped, RoleIsKnown, Turn, RepairsAreLeft, RecoveryIsMarked
  <1>a8. ASSUME Draft PROVE RecoveryIsMarked'
    BY <1>1, <1>2, <1>3, <1>a8 DEF Draft, task, files, recovery, budget, coder,
       PlaceTyped, CoderTyped, FilesTyped, RoleIsKnown, Turn, RepairsAreLeft,
       RecoveryIsMarked
  <1>a9. ASSUME Disqualified PROVE RecoveryIsMarked'
    <2>1. PICK applied \in BOOLEAN : Try(FALSE, base, applied)
      BY <1>a9 DEF Disqualified
    <2>2. changed => changed'
      BY <2>1 DEF Try, Refuse, FixHarness, ApplyPlan
    <2> QED
      BY <1>1, <1>2, <1>3, <2>2, <1>a9 DEF Disqualified, EnterRounds, Return, NextRound, Fail, EndRole, task, files, recovery, budget, coder, PlaceTyped, CoderTyped, FilesTyped, RoleIsKnown, Turn, RepairsAreLeft, RecoveryIsMarked
  <1>a10. ASSUME Restore PROVE RecoveryIsMarked'
    BY <1>1, <1>2, <1>3, <1>a10 DEF Restore, task, files, recovery, budget, coder,
       PlaceTyped, CoderTyped, FilesTyped, RoleIsKnown, Turn, RepairsAreLeft,
       RecoveryIsMarked
  <1>a11. ASSUME SkipValidation PROVE RecoveryIsMarked'
    BY <1>1, <1>2, <1>3, <1>a11 DEF SkipValidation, EnterRounds, task, files, recovery,
       budget, coder, PlaceTyped, CoderTyped, FilesTyped, RoleIsKnown, Turn,
       RepairsAreLeft, RecoveryIsMarked, Unvalidated
  <1>a12. ASSUME ValidationPasses PROVE RecoveryIsMarked'
    BY <1>1, <1>2, <1>3, <1>a12 DEF ValidationPasses, task, files, recovery, budget,
       coder, PlaceTyped, CoderTyped, FilesTyped, RoleIsKnown, Turn, RepairsAreLeft,
       RecoveryIsMarked
  <1>a13. ASSUME ValidationFails PROVE RecoveryIsMarked'
    BY <1>1, <1>2, <1>3, <1>a13 DEF ValidationFails, EnterRounds, Fail, task, files,
       recovery, budget, coder, PlaceTyped, CoderTyped, FilesTyped, RoleIsKnown, Turn,
       RepairsAreLeft, RecoveryIsMarked, Unvalidated
  <1>a14. ASSUME LocalRepair PROVE RecoveryIsMarked'
    BY <1>1, <1>2, <1>3, <1>a14 DEF LocalRepair, task, files, recovery, budget, coder,
       PlaceTyped, CoderTyped, FilesTyped, RoleIsKnown, Turn, RepairsAreLeft,
       RecoveryIsMarked
  <1>a15. ASSUME LocalRepairDisqualified PROVE RecoveryIsMarked'
    BY <1>1, <1>2, <1>3, <1>a15 DEF LocalRepairDisqualified, EnterRounds, task, files,
       recovery, budget, coder, PlaceTyped, CoderTyped, FilesTyped, RoleIsKnown, Turn,
       RepairsAreLeft, RecoveryIsMarked
  <1>a16. ASSUME BeginRounds PROVE RecoveryIsMarked'
    BY <1>1, <1>2, <1>3, <1>a16 DEF BeginRounds, task, files, recovery, budget, coder,
       PlaceTyped, CoderTyped, FilesTyped, RoleIsKnown, Turn, RepairsAreLeft,
       RecoveryIsMarked
  <1>a17. ASSUME RoundRefused PROVE RecoveryIsMarked'
    BY <1>1, <1>2, <1>3, <1>a17 DEF RoundRefused, Return, Fail, task, files, recovery,
       budget, coder, PlaceTyped, CoderTyped, FilesTyped, RoleIsKnown, Turn,
       RepairsAreLeft, RecoveryIsMarked
  <1>a18. ASSUME Round PROVE RecoveryIsMarked'
    <2>1. PICK applied \in BOOLEAN : Try(lane.visual, guard, applied)
      BY <1>a18 DEF Round
    <2>2. changed => changed'
      BY <2>1 DEF Try, Refuse, FixHarness, ApplyPlan
    <2> QED
      BY <1>1, <1>2, <1>3, <2>2, <1>a18 DEF Round, EnterRounds, Return, NextRound, Fail, EndRole, task, files, recovery, budget, coder, PlaceTyped, CoderTyped, FilesTyped, RoleIsKnown, Turn, RepairsAreLeft, RecoveryIsMarked
  <1>a19. ASSUME Check PROVE RecoveryIsMarked'
    BY <1>1, <1>2, <1>3, <1>a19 DEF Check, NextRound, Return, Fail, task, files, recovery,
       budget, coder, PlaceTyped, CoderTyped, FilesTyped, RoleIsKnown, Turn,
       RepairsAreLeft, RecoveryIsMarked
  <1>a20. ASSUME Abort PROVE RecoveryIsMarked'
    BY <1>1, <1>2, <1>3, <1>a20 DEF Abort, Fail, task, files, recovery, budget, coder,
       PlaceTyped, CoderTyped, FilesTyped, RoleIsKnown, Turn, RepairsAreLeft,
       RecoveryIsMarked
  <1>a21. ASSUME Interfere PROVE RecoveryIsMarked'
    BY <1>1, <1>2, <1>3, <1>a21 DEF Interfere, task, files, recovery, budget, coder,
       PlaceTyped, CoderTyped, FilesTyped, RoleIsKnown, Turn, RepairsAreLeft,
       RecoveryIsMarked
  <1> QED
    BY <1>a1, <1>a2, <1>a3, <1>a4, <1>a5, <1>a6, <1>a7, <1>a8, <1>a9, <1>a10, <1>a11,
       <1>a12, <1>a13, <1>a14, <1>a15, <1>a16, <1>a17, <1>a18, <1>a19, <1>a20, <1>a21 DEF
       Next, Step

\* The rounds of a visual task are those of its one recovery.
LEMMA RoundsStayCounted ==
    ASSUME PipelineInv, Next
    PROVE  RoundsAreCounted'
  <1>1. PlaceTyped /\ RecoveryTyped /\ RoleIsKnown /\ RepairsAreLeft /\ RecoveryIsMarked /\ RoundsAreCounted
    BY TypesAreParts DEF PipelineInv
  <1>2. lane' = lane /\ mode' = mode /\ Product' = Product
    BY TaskIsTheSame
  <1>3. /\ Roles[role] = "coder" <=> role = CoderAt
        /\ CoderAt' = CoderAt /\ CoderAt \in Nat /\ role \in Nat
        /\ RoundLimit \in 1 .. 5 /\ RoundLimit' = RoundLimit
        /\ round \in Nat /\ rounds \in Nat
    BY <1>1, <1>2, CoderHasOneTurn, LimitsAreNatural
       DEF CoderAt, Roles, PlaceTyped, RoundLimit, RecoveryTyped
  <1>a1. ASSUME Start PROVE RoundsAreCounted'
    BY <1>1, <1>2, <1>3, <1>a1 DEF Start, task, files, recovery, budget, coder,
       PlaceTyped, RoleIsKnown, Turn, RepairsAreLeft, RecoveryIsMarked, RoundsAreCounted
  <1>a2. ASSUME OtherRole PROVE RoundsAreCounted'
    BY <1>1, <1>2, <1>3, <1>a2 DEF OtherRole, EndRole, Roles, task, files, recovery,
       budget, coder, PlaceTyped, RoleIsKnown, Turn, RepairsAreLeft, RecoveryIsMarked,
       RoundsAreCounted
  <1>a3. ASSUME FixerRole PROVE RoundsAreCounted'
    BY <1>1, <1>2, <1>3, <1>a3 DEF FixerRole, EndRole, Roles, Fail, task, files, recovery,
       budget, coder, PlaceTyped, RoleIsKnown, Turn, RepairsAreLeft, RecoveryIsMarked,
       RoundsAreCounted
  <1>a4. ASSUME CoderRole PROVE RoundsAreCounted'
    BY <1>1, <1>2, <1>3, <1>a4 DEF CoderRole, Roles, task, files, recovery, budget, coder,
       PlaceTyped, RoleIsKnown, Turn, RepairsAreLeft, RecoveryIsMarked, RoundsAreCounted
  <1>a5. ASSUME CoderDone PROVE RoundsAreCounted'
    BY <1>1, <1>2, <1>3, <1>a5 DEF CoderDone, EndRole, Roles, task, files, recovery,
       budget, coder, PlaceTyped, RoleIsKnown, Turn, RepairsAreLeft, RecoveryIsMarked,
       RoundsAreCounted
  <1>a6. ASSUME Finish PROVE RoundsAreCounted'
    BY <1>1, <1>2, <1>3, <1>a6 DEF Finish, task, files, recovery, budget, coder,
       PlaceTyped, RoleIsKnown, Turn, RepairsAreLeft, RecoveryIsMarked, RoundsAreCounted
  <1>a7. ASSUME Initial PROVE RoundsAreCounted'
    BY <1>1, <1>2, <1>3, <1>a7 DEF Initial, EnterRounds, Fail, task, files, recovery,
       budget, coder, PlaceTyped, RoleIsKnown, Turn, RepairsAreLeft, RecoveryIsMarked,
       RoundsAreCounted
  <1>a8. ASSUME Draft PROVE RoundsAreCounted'
    BY <1>1, <1>2, <1>3, <1>a8 DEF Draft, task, files, recovery, budget, coder,
       PlaceTyped, RoleIsKnown, Turn, RepairsAreLeft, RecoveryIsMarked, RoundsAreCounted
  <1>a9. ASSUME Disqualified PROVE RoundsAreCounted'
    BY <1>1, <1>2, <1>3, <1>a9 DEF Disqualified, task, files, recovery, budget, coder,
       PlaceTyped, RoleIsKnown, Turn, RepairsAreLeft, RecoveryIsMarked, RoundsAreCounted
  <1>a10. ASSUME Restore PROVE RoundsAreCounted'
    BY <1>1, <1>2, <1>3, <1>a10 DEF Restore, task, files, recovery, budget, coder,
       PlaceTyped, RoleIsKnown, Turn, RepairsAreLeft, RecoveryIsMarked, RoundsAreCounted
  <1>a11. ASSUME SkipValidation PROVE RoundsAreCounted'
    BY <1>1, <1>2, <1>3, <1>a11 DEF SkipValidation, EnterRounds, task, files, recovery,
       budget, coder, PlaceTyped, RoleIsKnown, Turn, RepairsAreLeft, RecoveryIsMarked,
       RoundsAreCounted, Unvalidated
  <1>a12. ASSUME ValidationPasses PROVE RoundsAreCounted'
    BY <1>1, <1>2, <1>3, <1>a12 DEF ValidationPasses, task, files, recovery, budget,
       coder, PlaceTyped, RoleIsKnown, Turn, RepairsAreLeft, RecoveryIsMarked,
       RoundsAreCounted
  <1>a13. ASSUME ValidationFails PROVE RoundsAreCounted'
    BY <1>1, <1>2, <1>3, <1>a13 DEF ValidationFails, EnterRounds, Fail, task, files,
       recovery, budget, coder, PlaceTyped, RoleIsKnown, Turn, RepairsAreLeft,
       RecoveryIsMarked, RoundsAreCounted, Unvalidated
  <1>a14. ASSUME LocalRepair PROVE RoundsAreCounted'
    BY <1>1, <1>2, <1>3, <1>a14 DEF LocalRepair, task, files, recovery, budget, coder,
       PlaceTyped, RoleIsKnown, Turn, RepairsAreLeft, RecoveryIsMarked, RoundsAreCounted
  <1>a15. ASSUME LocalRepairDisqualified PROVE RoundsAreCounted'
    BY <1>1, <1>2, <1>3, <1>a15 DEF LocalRepairDisqualified, EnterRounds, task, files,
       recovery, budget, coder, PlaceTyped, RoleIsKnown, Turn, RepairsAreLeft,
       RecoveryIsMarked, RoundsAreCounted
  <1>a16. ASSUME BeginRounds PROVE RoundsAreCounted'
    BY <1>1, <1>2, <1>3, <1>a16 DEF BeginRounds, task, files, recovery, budget, coder,
       PlaceTyped, RoleIsKnown, Turn, RepairsAreLeft, RecoveryIsMarked, RoundsAreCounted
  <1>a17. ASSUME RoundRefused PROVE RoundsAreCounted'
    BY <1>1, <1>2, <1>3, <1>a17 DEF RoundRefused, Return, Fail, task, files, recovery,
       budget, coder, PlaceTyped, RoleIsKnown, Turn, RepairsAreLeft, RecoveryIsMarked,
       RoundsAreCounted
  <1>a18. ASSUME Round PROVE RoundsAreCounted'
    <2>1. lane.visual => rounds <= round /\ round < RoundLimit
      BY <1>1, <1>a18 DEF Round, RoundsAreCounted, RepairsAreLeft
    <2>2. lane.visual => rounds' = rounds + 1
      BY <1>a18 DEF Round
    <2>3. \/ pc' = "check" /\ round' = round /\ tried' = tried
          \/ pc' = "round" /\ round' = round + 1 /\ tried' = tried
          \/ Return(1) /\ tried' = tried
      BY <1>a18 DEF Round, NextRound
    <2>4. lane.visual /\ Return(1) => pc' \in {"restore", "done"} /\ (pc' = "restore" => tried)
      BY <1>1 DEF Return, Fail, RecoveryIsMarked
    <2> QED
      BY <1>2, <1>3, <2>1, <2>2, <2>3, <2>4 DEF RoundsAreCounted
  <1>a19. ASSUME Check PROVE RoundsAreCounted'
    BY <1>1, <1>2, <1>3, <1>a19 DEF Check, NextRound, Return, Fail, task, files, recovery,
       budget, coder, PlaceTyped, RoleIsKnown, Turn, RepairsAreLeft, RecoveryIsMarked,
       RoundsAreCounted, More
  <1>a20. ASSUME Abort PROVE RoundsAreCounted'
    BY <1>1, <1>2, <1>3, <1>a20 DEF Abort, Fail, task, files, recovery, budget, coder,
       PlaceTyped, RoleIsKnown, Turn, RepairsAreLeft, RecoveryIsMarked, RoundsAreCounted
  <1>a21. ASSUME Interfere PROVE RoundsAreCounted'
    BY <1>1, <1>2, <1>3, <1>a21 DEF Interfere, task, files, recovery, budget, coder,
       PlaceTyped, RoleIsKnown, Turn, RepairsAreLeft, RecoveryIsMarked, RoundsAreCounted
  <1> QED
    BY <1>a1, <1>a2, <1>a3, <1>a4, <1>a5, <1>a6, <1>a7, <1>a8, <1>a9, <1>a10, <1>a11,
       <1>a12, <1>a13, <1>a14, <1>a15, <1>a16, <1>a17, <1>a18, <1>a19, <1>a20, <1>a21 DEF
       Next, Step

-----------------------------------------------------------------------------
(***************************************************************************)
(* What the coder's turn leaves                                            *)
(***************************************************************************)
\* What the coder's turn leaves has passed, or was put in the place of what passed.
LEMMA WorkStaysJudged ==
    ASSUME PipelineInv, Next
    PROVE  WorkIsJudged'
  <1>1. PlaceTyped /\ TaskTyped /\ FilesTyped /\ RoleIsKnown /\ StatusFollowsRoles /\ RecoveryIsMarked /\ WorkIsJudged
    BY TypesAreParts DEF PipelineInv
  <1>2. lane' = lane /\ mode' = mode /\ Product' = Product
    BY TaskIsTheSame
  <1>3. /\ Roles[role] = "coder" <=> role = CoderAt
        /\ CoderAt' = CoderAt /\ CoderAt \in 1 .. 3 /\ CoderAt < Len(Roles)
        /\ Len(Roles) \in Nat /\ role \in 1 .. Len(Roles)
    BY <1>1, <1>2, CoderHasOneTurn DEF CoderAt, Roles
  <1>4. product' = product /\ changed' = changed /\ reinstated' = reinstated =>
            (CoderJudged' <=> CoderJudged) /\ (Passes(product)' <=> Passes(product))
    BY <1>2 DEF CoderJudged, Checked, Passes, TestsPass, AlikeEnough
  <1>a1. ASSUME Start PROVE WorkIsJudged'
    BY <1>1, <1>2, <1>3, <1>4, <1>a1 DEF Start, task, files, recovery, budget, coder,
       PlaceTyped, RoleIsKnown, Turn, StatusFollowsRoles, RecoveryIsMarked, WorkIsJudged
  <1>a2. ASSUME OtherRole PROVE WorkIsJudged'
    BY <1>1, <1>2, <1>3, <1>4, <1>a2 DEF OtherRole, EndRole, Roles, task, files, recovery,
       budget, coder, PlaceTyped, RoleIsKnown, Turn, StatusFollowsRoles, RecoveryIsMarked,
       WorkIsJudged
  <1>a3. ASSUME FixerRole PROVE WorkIsJudged'
    BY <1>1, <1>2, <1>3, <1>4, <1>a3 DEF FixerRole, EndRole, Roles, Fail, task, files,
       recovery, budget, coder, PlaceTyped, RoleIsKnown, Turn, StatusFollowsRoles,
       RecoveryIsMarked, WorkIsJudged
  <1>a4. ASSUME CoderRole PROVE WorkIsJudged'
    BY <1>1, <1>2, <1>3, <1>4, <1>a4 DEF CoderRole, Roles, task, files, recovery, budget,
       coder, PlaceTyped, RoleIsKnown, Turn, StatusFollowsRoles, RecoveryIsMarked,
       WorkIsJudged
  <1>a5. ASSUME CoderDone PROVE WorkIsJudged'
    BY <1>1, <1>2, <1>3, <1>4, <1>a5 DEF CoderDone, EndRole, Roles, task, files, recovery,
       budget, coder, PlaceTyped, RoleIsKnown, Turn, StatusFollowsRoles, RecoveryIsMarked,
       WorkIsJudged
  <1>a6. ASSUME Finish PROVE WorkIsJudged'
    BY <1>1, <1>2, <1>3, <1>4, <1>a6 DEF Finish, task, files, recovery, budget, coder,
       PlaceTyped, RoleIsKnown, Turn, StatusFollowsRoles, RecoveryIsMarked, WorkIsJudged
  <1>a7. ASSUME Initial PROVE WorkIsJudged'
    BY <1>1, <1>2, <1>3, <1>4, <1>a7 DEF Initial, EnterRounds, Fail, task, files,
       recovery, budget, coder, PlaceTyped, RoleIsKnown, Turn, StatusFollowsRoles,
       RecoveryIsMarked, WorkIsJudged
  <1>a8. ASSUME Draft PROVE WorkIsJudged'
    BY <1>1, <1>2, <1>3, <1>4, <1>a8 DEF Draft, task, files, recovery, budget, coder,
       PlaceTyped, RoleIsKnown, Turn, StatusFollowsRoles, RecoveryIsMarked, WorkIsJudged
  <1>a9. ASSUME Disqualified PROVE WorkIsJudged'
    BY <1>1, <1>2, <1>3, <1>4, <1>a9 DEF Disqualified, task, files, recovery, budget,
       coder, PlaceTyped, RoleIsKnown, Turn, StatusFollowsRoles, RecoveryIsMarked,
       WorkIsJudged
  <1>a10. ASSUME Restore PROVE WorkIsJudged'
    <2>1. sound => Passes(product)' \/ reinstated'
      <3>1. CASE product' = product
        BY <1>1, <1>2, <1>a10, <3>1 DEF Restore, Passes, TestsPass, AlikeEnough, WorkIsJudged
      <3>2. CASE product' # product
        BY <1>a10, <3>2 DEF Restore
      <3> QED
        BY <3>1, <3>2
    <2> QED
      BY <1>1, <1>2, <1>3, <2>1, <1>a10 DEF Restore, task, coder, PlaceTyped, RoleIsKnown, Turn, StatusFollowsRoles, RecoveryIsMarked, WorkIsJudged
  <1>a11. ASSUME SkipValidation PROVE WorkIsJudged'
    <2>1. CoderJudged' <=> CoderJudged
      BY <1>4, <1>a11 DEF SkipValidation, files
    <2>2. Passes(product)' <=> Passes(product)
      BY <1>4, <1>a11 DEF SkipValidation, files
    <2>3. pc' = "coded" => CoderJudged
      BY <1>1, <1>a11 DEF SkipValidation, Unvalidated, CoderJudged, Checked, WorkIsJudged, EnterRounds
    <2> QED
      BY <1>1, <1>2, <1>3, <2>1, <2>2, <2>3, <1>a11
         DEF SkipValidation, EnterRounds, task, files, PlaceTyped, RoleIsKnown, Turn, StatusFollowsRoles, RecoveryIsMarked, WorkIsJudged
  <1>a12. ASSUME ValidationPasses PROVE WorkIsJudged'
    <2>1. Passes(product)
      BY <1>1, <1>a12, ValidationIsTyped DEF ValidationPasses, PlaceTyped, FilesTyped
    <2>2. Passes(product)' \/ reinstated'
      BY <1>2, <1>a12, <2>1 DEF ValidationPasses, Passes, TestsPass, AlikeEnough
    <2> QED
      BY <1>1, <1>2, <1>3, <2>2, <1>a12 DEF ValidationPasses, CoderJudged, task, coder, PlaceTyped, RoleIsKnown, Turn, StatusFollowsRoles, RecoveryIsMarked, WorkIsJudged
  <1>a13. ASSUME ValidationFails PROVE WorkIsJudged'
    BY <1>1, <1>2, <1>3, <1>4, <1>a13 DEF ValidationFails, EnterRounds, Fail, task, files,
       recovery, budget, coder, PlaceTyped, RoleIsKnown, Turn, StatusFollowsRoles,
       RecoveryIsMarked, WorkIsJudged, Unvalidated
  <1>a14. ASSUME LocalRepair PROVE WorkIsJudged'
    BY <1>1, <1>2, <1>3, <1>4, <1>a14 DEF LocalRepair, task, files, recovery, budget,
       coder, PlaceTyped, RoleIsKnown, Turn, StatusFollowsRoles, RecoveryIsMarked,
       WorkIsJudged
  <1>a15. ASSUME LocalRepairDisqualified PROVE WorkIsJudged'
    BY <1>1, <1>2, <1>3, <1>4, <1>a15 DEF LocalRepairDisqualified, EnterRounds, task,
       files, recovery, budget, coder, PlaceTyped, RoleIsKnown, Turn, StatusFollowsRoles,
       RecoveryIsMarked, WorkIsJudged
  <1>a16. ASSUME BeginRounds PROVE WorkIsJudged'
    BY <1>1, <1>2, <1>3, <1>4, <1>a16 DEF BeginRounds, task, files, recovery, budget,
       coder, PlaceTyped, RoleIsKnown, Turn, StatusFollowsRoles, RecoveryIsMarked,
       WorkIsJudged
  <1>a17. ASSUME RoundRefused PROVE WorkIsJudged'
    <2>1. pc' \in {"restore", "validate", "done"} /\ ~sound' /\ approved' = approved
      <3>1. Return(1)
        BY <1>a17 DEF RoundRefused
      <3>2. ~sound'
        <4>1. sound' = (1 = 0 /\ back = "initial")
          BY <3>1 DEF Return
        <4>2. (1 = 0 /\ back = "initial") = FALSE
          OBVIOUS
        <4> QED
          BY <4>1, <4>2
      <3>3. pc' \in {"restore", "validate", "done"} /\ approved' = approved
        BY <3>1 DEF Return, Fail, task
      <3> QED
        BY <3>2, <3>3
    <2>2. ~approved
      BY <1>1, <1>a17 DEF RoundRefused, StatusFollowsRoles, TaskTyped
    <2> QED
      BY <2>1, <2>2 DEF WorkIsJudged
  <1>a18. ASSUME Round PROVE WorkIsJudged'
    BY <1>1, <1>2, <1>3, <1>4, <1>a18 DEF Round, NextRound, Return, Fail, task, files,
       recovery, budget, coder, PlaceTyped, RoleIsKnown, Turn, StatusFollowsRoles,
       RecoveryIsMarked, WorkIsJudged
  <1>a19. ASSUME Check PROVE WorkIsJudged'
    <2>1. PICK exit \in {0, 1} :
             /\ Validated(exit)
             /\ \/ pc' = "round" /\ sound' = sound /\ UNCHANGED task
                \/ /\ sound' \/ pc' = "coded" => (exit = 0 /\ product' = product) \/ reinstated'
                   /\ pc' \in {"coded", "restore", "validate", "done"}
                   /\ approved' = approved
      <3>1. PICK exit \in {0, 1} :
               /\ Validated(exit)
               /\ LET now   == Score(shot')
                      worse == now # NoShot /\ best.score # NoShot /\ now < best.score
                      final == IF worse THEN (IF best.score >= Threshold THEN 0 ELSE 1) ELSE exit
                      kept  == IF worse THEN best.product ELSE product
                      again == final = 1 /\ More
                  IN  /\ product' = IF again THEN Reverted(kept, guard) ELSE kept
                      /\ reinstated' = (worse /\ final = 0)
                      /\ IF again
                         THEN /\ NextRound
                              /\ best' = IF now # NoShot /\ (best.score = NoShot \/ now >= best.score)
                                         THEN [product |-> product, score |-> now]
                                         ELSE best
                         ELSE Return(final)
        BY <1>a19 DEF Check
      <3> DEFINE worse == Score(shot') # NoShot /\ best.score # NoShot /\ Score(shot') < best.score
                 final == IF worse THEN (IF best.score >= Threshold THEN 0 ELSE 1) ELSE exit
      <3>2. final = 1 /\ More => NextRound
        BY <3>1
      <3>3. ~(final = 1 /\ More) => Return(final) /\ product' = IF worse THEN best.product ELSE product
        BY <3>1
      <3>4. reinstated' = (worse /\ final = 0)
        BY <3>1
      <3>5. final \in {0, 1} /\ (~worse => final = exit)
        BY <3>1
      <3> HIDE DEF worse, final
      <3>6. CASE final = 1 /\ More
        BY <3>1, <3>2, <3>6 DEF NextRound
      <3>7. CASE ~(final = 1 /\ More)
        <4>1. /\ sound' => final = 0
              /\ pc' = "coded" => final = 0
              /\ pc' \in {"coded", "restore", "validate", "done"}
              /\ approved' = approved
          BY <3>3, <3>5, <3>7 DEF Return, Fail, task
        <4>2. final = 0 => (exit = 0 /\ product' = product) \/ reinstated'
          BY <3>3, <3>4, <3>5, <3>7
        <4> QED
          BY <3>1, <4>1, <4>2
      <3> QED
        BY <3>6, <3>7
    <2>2. exit = 0 => Passes(product)
      BY <1>1, <2>1, ValidationIsTyped DEF PlaceTyped, FilesTyped
    <2>3. product' = product => (Passes(product)' <=> Passes(product))
      BY <1>2 DEF Passes, TestsPass, AlikeEnough
    <2> QED
      BY <1>1, <1>2, <1>3, <2>1, <2>2, <2>3, <1>a19 DEF Check, CoderJudged, task, PlaceTyped, RoleIsKnown, Turn, StatusFollowsRoles, RecoveryIsMarked, WorkIsJudged
  <1>a20. ASSUME Abort PROVE WorkIsJudged'
    BY <1>1, <1>2, <1>3, <1>4, <1>a20 DEF Abort, Fail, task, files, recovery, budget,
       coder, PlaceTyped, RoleIsKnown, Turn, StatusFollowsRoles, RecoveryIsMarked,
       WorkIsJudged
  <1>a21. ASSUME Interfere PROVE WorkIsJudged'
    BY <1>1, <1>2, <1>3, <1>4, <1>a21 DEF Interfere, task, files, recovery, budget, coder,
       PlaceTyped, RoleIsKnown, Turn, StatusFollowsRoles, RecoveryIsMarked, WorkIsJudged
  <1> QED
    BY <1>a1, <1>a2, <1>a3, <1>a4, <1>a5, <1>a6, <1>a7, <1>a8, <1>a9, <1>a10, <1>a11,
       <1>a12, <1>a13, <1>a14, <1>a15, <1>a16, <1>a17, <1>a18, <1>a19, <1>a20, <1>a21 DEF
       Next, Step

-----------------------------------------------------------------------------
(***************************************************************************)
(* The theorems                                                            *)
(***************************************************************************)
LEMMA PipelineInitial ==
    Init => PipelineInv
  <1> SUFFICES ASSUME Init PROVE PipelineInv
    OBVIOUS
  <1>1. mode \in {"fast", "default", "strict"} /\ 1 \in 1 .. Len(Pipelines[mode])
        /\ CoderAt \in 1 .. 3
    BY ModesAreKnown DEF Init, CoderAt
  <1>2. RoundLimit \in 1 .. 5 /\ Ceiling \in Nat
    BY LimitsAreNatural DEF Init
  <1>3. PipelineTypeOK
    <2>1. TaskTyped /\ PlaceTyped /\ BudgetTyped
      BY <1>1 DEF Init, TaskTyped, PlaceTyped, BudgetTyped
    <2>2. FilesTyped
      <3>1. product \in Product /\ shot = NoShot /\ changed = FALSE /\ said = FALSE
            /\ reinstated = FALSE
        BY DEF Init
      <3>2. NoShot \in 0 .. NoShot
        BY DEF NoShot
      <3> QED
        BY <3>1, <3>2 DEF FilesTyped
    <2>5. CoderTyped
      <3>1. base = NoProduct /\ attempt = 0 /\ tried = FALSE /\ sound = FALSE /\ back = "none"
        BY DEF Init
      <3>2. base \in Product \cup {NoProduct}
        BY <3>1
      <3>3. attempt \in 0 .. MaxRepair
        BY <3>1
      <3> QED
        BY <3>1, <3>2, <3>3 DEF CoderTyped
    <2>3. NoBest \in [product : Product \cup {NoProduct}, score : 0..NoShot]
      BY DEF NoBest, NoShot
    <2>4. RecoveryTyped
      BY <2>3 DEF Init, RecoveryTyped
    <2> QED
      BY <2>1, <2>2, <2>4, <2>5, TypesAreParts
  <1>4. RoleIsKnown /\ StatusFollowsRoles /\ OutcomesAgree
    BY DEF Init, RoleIsKnown, StatusFollowsRoles, OutcomesAgree, Turn
  <1>5. RepairsAreLeft /\ CallsAndLimitStayBelow
    BY <1>2 DEF Init, RepairsAreLeft, CallsAndLimitStayBelow, NoBest
  <1>6. RecoveryIsMarked /\ RoundsAreCounted /\ WorkIsJudged
    BY <1>1, <1>2 DEF Init, RecoveryIsMarked, RoundsAreCounted, WorkIsJudged
  <1> QED
    BY <1>3, <1>4, <1>5, <1>6 DEF PipelineInv

LEMMA PipelineStutters ==
    PipelineInv /\ UNCHANGED pipelineVars => PipelineInv'
  <1> SUFFICES ASSUME PipelineInv, UNCHANGED pipelineVars PROVE PipelineInv'
    OBVIOUS
  <1>1. /\ lane' = lane /\ mode' = mode /\ status' = status /\ taskRun' = taskRun
        /\ approved' = approved /\ pc' = pc /\ role' = role /\ product' = product
        /\ shot' = shot /\ changed' = changed /\ said' = said /\ base' = base
        /\ attempt' = attempt /\ tried' = tried /\ sound' = sound /\ back' = back
        /\ round' = round /\ guard' = guard /\ best' = best /\ calls' = calls
        /\ limit' = limit /\ spent' = spent /\ rounds' = rounds /\ reinstated' = reinstated
    BY DEF pipelineVars, task, files, recovery, budget, coder
  <1>2. PipelineTypeOK'
    <2>1. Product' = Product
      BY <1>1 DEF Product
    <2>2. PipelineTypeOK
      BY DEF PipelineInv
    <2>3. TaskTyped' /\ PlaceTyped' /\ BudgetTyped'
      BY <1>1, <2>2 DEF PipelineTypeOK, TaskTyped, PlaceTyped, BudgetTyped
    <2>4. FilesTyped' /\ CoderTyped'
      BY <1>1, <2>1, <2>2 DEF PipelineTypeOK, FilesTyped, CoderTyped, NoShot, NoProduct
    <2>5. RecoveryTyped'
      BY <1>1, <2>1, <2>2 DEF PipelineTypeOK, RecoveryTyped, NoShot, NoProduct
    <2> QED
      BY <2>3, <2>4, <2>5 DEF PipelineTypeOK, TaskTyped, PlaceTyped, FilesTyped, CoderTyped,
                              RecoveryTyped, BudgetTyped
  <1>3. RoleIsKnown' /\ StatusFollowsRoles' /\ OutcomesAgree'
    BY <1>1 DEF PipelineInv, RoleIsKnown, StatusFollowsRoles, OutcomesAgree, CoderAt
  <1>4. RepairsAreLeft' /\ CallsAndLimitStayBelow'
    BY <1>1 DEF PipelineInv, RepairsAreLeft, CallsAndLimitStayBelow, RoundLimit, Product, Ceiling,
                StartLimit, VisualCallLimit
  <1>5. RecoveryIsMarked' /\ RoundsAreCounted'
    BY <1>1 DEF PipelineInv, RecoveryIsMarked, RoundsAreCounted, RoundLimit, CoderAt
  <1>6. WorkIsJudged'
    BY <1>1 DEF PipelineInv, WorkIsJudged, CoderJudged, Checked, Passes, TestsPass, AlikeEnough, CoderAt
  <1> QED
    BY <1>2, <1>3, <1>4, <1>5, <1>6 DEF PipelineInv

LEMMA PipelineSteps ==
    PipelineInv /\ Next => PipelineInv'
  <1> SUFFICES ASSUME PipelineInv, Next PROVE PipelineInv'
    OBVIOUS
  <1>2. (TaskTyped /\ PlaceTyped /\ FilesTyped /\ CoderTyped /\ RecoveryTyped /\ BudgetTyped)'
    BY TaskIsTyped, PlaceIsTyped, FilesAreTyped, CoderIsTyped, RecoveryIsTyped, BudgetIsTyped
  <1>3. PipelineTypeOK'
    BY <1>2 DEF PipelineTypeOK, TaskTyped, PlaceTyped, FilesTyped, CoderTyped, RecoveryTyped,
                BudgetTyped
  <1> QED
    BY <1>3, RoleStaysKnown, StatusStillFollowsRoles, RepairsStayLeft, CallsStayBelow,
       RecoveryStaysMarked, RoundsStayCounted, WorkStaysJudged DEF PipelineInv

\* PipelineInv is an inductive invariant of the pipeline.
LEMMA PipelineInvariant ==
    Spec => []PipelineInv
  <1>1. Init => PipelineInv
    BY PipelineInitial
  <1>2. PipelineInv /\ [Next]_pipelineVars => PipelineInv'
    BY PipelineSteps, PipelineStutters
  <1> QED
    BY <1>1, <1>2, PTL DEF Spec

\* However repairs, rescues and rounds follow each other, a task run stays below its one
\* ceiling on model calls, and a visual task has no more rounds than one recovery
\* (_execute_coder_actions, _run_chief_engineer_repair_rounds).
THEOREM RecoveryStaysBounded == Spec => []RecoveryIsBounded
  <1>1. PipelineInv => RecoveryIsBounded
    <2> SUFFICES ASSUME PipelineInv PROVE RecoveryIsBounded
      OBVIOUS
    <2>1. CallsStayBelowCeiling
      BY DEF PipelineInv, CallsAndLimitStayBelow, Ceiling, CallsStayBelowCeiling
    <2>2. VisualRecoversOnce
      BY DEF PipelineInv, RoundsAreCounted, VisualRecoversOnce
    <2> QED
      BY <2>1, <2>2 DEF PipelineInv, RecoveryIsBounded
  <1> QED
    BY <1>1, PipelineInvariant, PTL

\* In every mode, and whatever operators set in between, the roles hand the task to its
\* review, and its outcome agrees with that of its run (_apply_role_status).
THEOREM OutcomesStayAgreed == Spec => []OutcomesAgree
  <1>1. PipelineInv => OutcomesAgree
    BY DEF PipelineInv
  <1> QED
    BY <1>1, PipelineInvariant, PTL

\* The verification approves a change only when its product passed its validation, or when
\* an earlier product was put in its place (_record_pipeline_verification).
THEOREM ApprovedWorkStaysValidated == Spec => []ApprovedWorkWasValidated
  <1>1. PipelineInv => ApprovedWorkWasValidated
    BY DEF PipelineInv, WorkIsJudged, CoderJudged, ApprovedWorkWasValidated
  <1> QED
    BY <1>1, PipelineInvariant, PTL

-----------------------------------------------------------------------------
(***************************************************************************)
(* The task graph                                                          *)
(***************************************************************************)
HIDE PipelineAssumption

Partial(S) == UNION {[D -> S] : D \in SUBSET Node}

RunRow == [status : RunStatus, statuses : Partial(NodeStatus), active : SUBSET Node,
           mutations : 0..MaxMutations, stall : Nat, spent : 0..(Budget + 1),
           keys : Partial(Key), used : SUBSET Key, verdict : Verdicts]

RunRequest == [stage : {"unsent", "open", "answered"}, row : RunRow \cup {<<>>},
               beside : Nat \cup {<<>>}, left : 0..MaxMeanwhile]

\* The statuses of a plan's nodes, a graph of these nodes, one in which nodes may share a
\* list, and one as it is stored.
PlanStatus == {"PENDING", "SKIPPED", "BLOCKED"}
GraphOver(S) == [edge : SUBSET (S \X S), status : [S -> PlanStatus], list : [S -> S], deps : [S -> SUBSET S]]
SharedGraph(S) ==
    UNION {[edge : SUBSET (S \X S), status : [S -> PlanStatus], list : [S -> D], deps : [D -> SUBSET S]] :
           D \in SUBSET S}
StoredGraph ==
    {g \in UNION {GraphOver(S) : S \in SUBSET Node} : \A n \in NodesOf(g) : g.list[n] = n}

Mutation == [type : {"CHILDREN", "DEPENDENCY", "SUPERSEDE", "CANCEL"}, node : Node, with : SUBSET Node]
Entry == [sequence : Nat, version : Nat, parent : Nat, mutation : Mutation]

GraphsTyped ==
    /\ graphs \in Seq(StoredGraph) /\ Len(graphs) \in 1..(MaxVersion + 1)
    /\ journal \in Seq(Entry) /\ Len(journal) = Version

\* Every version is what the mutation of its entry made of the version before.
Chained ==
    /\ Contiguous
    /\ \A i \in DOMAIN journal :
          /\ journal[i].mutation \in Mutations(graphs[i])
          /\ graphs[i + 1] = Stored(Mutated(graphs[i], journal[i].mutation))

LatestIsBounded ==
    /\ IsAcyclic(Latest)
    /\ Version > 0 => WithinBounds(Latest, MaxDepth, MaxNodes)

RowsTyped ==
    /\ row \in RunRow
    /\ requests \in [Client -> RunRequest]
    /\ \A c \in Open : requests[c].row \in RunRow /\ requests[c].beside \in 0..Version

\* All that the node depended on in one of these versions was completed.
MayStart(n, gs, d) == \E i \in DOMAIN gs : n \in NodesOf(gs[i]) /\ Dependencies(gs[i], n) \subseteq d

\* What the columns of a row mean for the versions there were, and the nodes completed.
Licensed(r, gs, d) ==
    /\ In(r, "COMPLETED") \subseteq d
    /\ \A n \in Going(r) : MayStart(n, gs, d)
    /\ \A n \in r.active : MayStart(n, gs, d)
    /\ Cardinality(Going(r)) <= MaxWorkers /\ Cardinality(r.active) <= MaxWorkers
    /\ r.status # "NONE" => Len(gs) > 1 \/ WithinBounds(gs[1], MaxDepth, MaxNodes)

\* Each request that overlaps others may revive a run that is stalled.
Replied == {c \in Client : requests[c].stage = "answered"}
Patient(r, k) ==
    /\ r.stall <= StallThreshold + k
    /\ r.status \in {"NONE", "PENDING", "RUNNING", "EXPANDING"} => r.stall < StallThreshold + k

RowsLicensed ==
    /\ Licensed(row, graphs, done) /\ Patient(row, Cardinality(Replied))
    /\ \A c \in Open : /\ Licensed(requests[c].row, graphs, done)
                       /\ Patient(requests[c].row, Cardinality(Replied))

GraphInv == GraphsTyped /\ Chained /\ LatestIsBounded /\ RowsTyped /\ RowsLicensed /\ done \subseteq Node

-----------------------------------------------------------------------------
(***************************************************************************)
(* Sequences and numbers                                                   *)
(***************************************************************************)
LEMMA SequenceIsFunction ==
    ASSUME NEW S, NEW s \in Seq(S)
    PROVE  /\ Len(s) \in Nat /\ DOMAIN s = 1 .. Len(s)
           /\ \A i \in DOMAIN s : s[i] \in S
  OBVIOUS

LEMMA AppendedSequence ==
    ASSUME NEW S, NEW s \in Seq(S), NEW x \in S
    PROVE  /\ Append(s, x) \in Seq(S) /\ Len(Append(s, x)) = Len(s) + 1
           /\ Append(s, x)[Len(s) + 1] = x
           /\ \A i \in DOMAIN s : i \in DOMAIN Append(s, x) /\ Append(s, x)[i] = s[i]
  OBVIOUS

LEMMA LesserOf ==
    ASSUME NEW a \in Nat, NEW b \in Nat
    PROVE  Min({a, b}) \in Nat /\ Min({a, b}) <= b
  BY DEF Min

\* A nonempty set of numbers has a least one.
LEMMA LeastNumber ==
    ASSUME NEW S, S \subseteq Nat, S # {}
    PROVE  \E m \in S : \A i \in S : m <= i
  <1> DEFINE R == OpToRel(<, Nat)
  <1>1. IsWellFoundedOn(R, Nat)
    BY NatLessThanWellFounded
  <1>2. PICK x \in S : \A y \in S : <<y, x>> \notin R
    <2> HIDE DEF R
    <2> QED
      BY <1>1, WFMin
  <1>3. \A y \in S : ~(y < x)
    BY <1>2 DEF OpToRel
  <1> QED
    BY <1>3

LEMMA PartialIsFunction ==
    ASSUME NEW S, NEW f
    PROVE  f \in Partial(S) <=> DOMAIN f \in SUBSET Node /\ f \in [DOMAIN f -> S]
  BY DEF Partial

LEMMA OverIsFunction ==
    ASSUME NEW S, NEW D, NEW E, NEW f \in [D -> S], NEW g \in [E -> S]
    PROVE  /\ Over(f, g) \in [D \cup E -> S] /\ DOMAIN Over(f, g) = D \cup E
           /\ \A x \in D \cup E : Over(f, g)[x] = IF x \in D THEN f[x] ELSE g[x]
  BY DEF Over

-----------------------------------------------------------------------------
(***************************************************************************)
(* Graphs                                                                  *)
(***************************************************************************)
LEMMA StoredIsGraph ==
    ASSUME NEW g \in StoredGraph
    PROVE  /\ NodesOf(g) \in SUBSET Node /\ g \in GraphOver(NodesOf(g))
           /\ \A n \in NodesOf(g) : g.list[n] = n
           /\ Stored(g) = g
  <1>1. PICK S \in SUBSET Node : g \in GraphOver(S) /\ \A n \in NodesOf(g) : g.list[n] = n
    BY DEF StoredGraph
  <1>2. NodesOf(g) = S
    BY <1>1 DEF NodesOf, GraphOver
  <1>3. Stored(g) = g
    <2>1. [n \in S |-> n] = g.list
      BY <1>1, <1>2 DEF GraphOver
    <2>2. [n \in S |-> DependsOn(g, n)] = g.deps
      BY <1>1, <1>2 DEF GraphOver, DependsOn
    <2> QED
      BY <1>1, <1>2, <2>1, <2>2 DEF Stored, GraphOver
  <1> QED
    BY <1>1, <1>2, <1>3

LEMMA StoredIsShared ==
    ASSUME NEW S, NEW g \in GraphOver(S)
    PROVE  g \in SharedGraph(S)
  BY DEF GraphOver, SharedGraph

\* A graph is stored with the nodes, the edges and the dependencies it has.
LEMMA StoringIsTyped ==
    ASSUME NEW S \in SUBSET Node, NEW g \in SharedGraph(S)
    PROVE  /\ NodesOf(g) = S /\ NodesOf(Stored(g)) = S
           /\ Stored(g) \in StoredGraph /\ Edges(Stored(g)) = Edges(g)
  <1> DEFINE f == [n \in S |-> n]
             d == [n \in S |-> DependsOn(g, n)]
  <1>1. PICK D \in SUBSET S : g \in [edge : SUBSET (S \X S), status : [S -> PlanStatus],
                                     list : [S -> D], deps : [D -> SUBSET S]]
    BY DEF SharedGraph
  <1>2. NodesOf(g) = S
    BY <1>1 DEF NodesOf
  <1>3. f \in [S -> S] /\ d \in [S -> SUBSET S]
    BY <1>1 DEF DependsOn
  <1>4. Stored(g) = [g EXCEPT !.list = f, !.deps = d]
    BY <1>2 DEF Stored
  <1>5. \A n \in S : f[n] = n
    OBVIOUS
  <1> HIDE DEF f, d
  <1>6. /\ Stored(g) \in GraphOver(S) /\ Stored(g).list = f /\ Stored(g).edge = g.edge
    BY <1>1, <1>3, <1>4 DEF GraphOver
  <1>7. NodesOf(Stored(g)) = S
    BY <1>3, <1>6 DEF NodesOf
  <1> QED
    BY <1>2, <1>5, <1>6, <1>7 DEF StoredGraph, Edges

\* What is asked of the edges of a graph is asked of the graph that is stored.
LEMMA StoringKeepsBounds ==
    ASSUME NEW S \in SUBSET Node, NEW g \in SharedGraph(S), NEW d, NEW k
    PROVE  /\ IsAcyclic(g) => IsAcyclic(Stored(g))
           /\ WithinBounds(g, d, k) => WithinBounds(Stored(g), d, k)
  <1>1. NodesOf(Stored(g)) = NodesOf(g) /\ Edges(Stored(g)) = Edges(g)
    BY StoringIsTyped
  <1> QED
    BY <1>1 DEF IsAcyclic, WithinBounds, After

\* A mutation makes a graph of a graph.  Only one that supersedes a node shares a list.
LEMMA MutatedIsGraph ==
    ASSUME NEW g \in StoredGraph, NEW m \in Mutations(g)
    PROVE  /\ m \in Mutation
           /\ \E S \in SUBSET Node : Mutated(g, m) \in SharedGraph(S)
           /\ m.type # "SUPERSEDE" => Mutated(g, m) \in StoredGraph
  <1> DEFINE S == NodesOf(g)
             T == m.with \cup S
             new == Mutated(g, m)
  <1>1. S \in SUBSET Node /\ g \in GraphOver(S) /\ \A n \in S : g.list[n] = n
    BY StoredIsGraph
  <1>2. /\ m.type \in {"CHILDREN", "DEPENDENCY", "SUPERSEDE", "CANCEL"}
        /\ m.node \in S /\ m.with \in SUBSET Node /\ m \in Mutation
    BY <1>1 DEF Mutations, Mutation, Fresh
  <1>3. T \in SUBSET Node
    BY <1>1, <1>2
  <1>4. /\ g.edge \in SUBSET (S \X S) /\ g.status \in [S -> PlanStatus]
        /\ g.list \in [S -> S] /\ g.deps \in [S -> SUBSET S]
        /\ "PENDING" \in PlanStatus /\ "SKIPPED" \in PlanStatus /\ "BLOCKED" \in PlanStatus
    BY <1>1 DEF GraphOver, PlanStatus
  <1> HIDE DEF S
  <1>a. PICK standing : standing = g.status
    OBVIOUS
  <1>b. PICK list : list = g.list
    OBVIOUS
  <1>c. PICK deps : deps = g.deps
    OBVIOUS
  <1>5. CASE m.type = "CHILDREN"
    <2>1. PICK p : p = [n \in m.with |-> "PENDING"]
      OBVIOUS
    <2>2. PICK q : q = [n \in m.with |-> n]
      OBVIOUS
    <2>3. PICK r : r = [n \in m.with |-> {m.node}]
      OBVIOUS
    <2> DEFINE s == Over(p, standing)
               l == Over(q, list)
               d == Over(r, deps)
    <2>4. new = [edge |-> g.edge \cup ({m.node} \X m.with), status |-> s, list |-> l, deps |-> d]
      BY <1>5, <2>1, <2>2, <2>3, <1>a, <1>b, <1>c DEF Mutated, Adopted
    <2>5. /\ p \in [m.with -> PlanStatus] /\ q \in [m.with -> T] /\ r \in [m.with -> SUBSET T]
          /\ list \in [S -> T] /\ deps \in [S -> SUBSET T] /\ standing \in [S -> PlanStatus]
      BY <1>2, <1>4, <1>a, <1>b, <1>c, <2>1, <2>2, <2>3
    <2>6. s \in [T -> PlanStatus] /\ l \in [T -> T] /\ d \in [T -> SUBSET T]
      <3> HIDE DEF T
      <3>1. s \in [m.with \cup S -> PlanStatus]
        BY <2>5, OverIsFunction
      <3>2. l \in [m.with \cup S -> T]
        BY <2>5, OverIsFunction
      <3>3. d \in [m.with \cup S -> SUBSET T]
        BY <2>5, OverIsFunction
      <3> QED
        BY <3>1, <3>2, <3>3 DEF T
    <2>7. \A n \in T : l[n] = n
      <3> HIDE DEF T
      <3>1. \A n \in m.with \cup S : l[n] = IF n \in m.with THEN q[n] ELSE list[n]
        BY <2>5 DEF Over
      <3> QED
        BY <1>1, <1>b, <2>2, <3>1 DEF S, T
    <2>8. g.edge \cup ({m.node} \X m.with) \in SUBSET (T \X T)
      BY <1>2, <1>4
    <2> HIDE DEF s, l, d
    <2>9. new \in GraphOver(T) /\ new.list = l
      BY <2>4, <2>6, <2>8 DEF GraphOver
    <2>10. NodesOf(new) = T
      BY <2>6, <2>9 DEF NodesOf
    <2> HIDE DEF new
    <2>11. new \in StoredGraph
      BY <1>3, <2>7, <2>9, <2>10 DEF StoredGraph
    <2> QED
      BY <1>2, <1>3, <2>9, <2>11, StoredIsShared DEF new
  <1>6. CASE m.type = "DEPENDENCY"
    <2>1. m.with \in SUBSET S
      BY <1>6 DEF Mutations, Fresh, S
    <2>2. g.list[m.node] = m.node
      BY <1>1, <1>2 DEF S
    <2> DEFINE d == [g.deps EXCEPT ![m.node] = @ \cup m.with]
               x == g.edge \cup (m.with \X {m.node})
    <2>3. new = [g EXCEPT !.edge = x, !.deps = d]
      BY <1>1, <1>6, <2>2 DEF Mutated, Ordered, GraphOver
    <2>4. d \in [S -> SUBSET S] /\ x \in SUBSET (S \X S)
      BY <1>2, <1>4, <2>1
    <2> HIDE DEF d, x
    <2>5. new \in GraphOver(S) /\ new.list = g.list
      BY <1>1, <2>3, <2>4 DEF GraphOver
    <2>6. NodesOf(new) = S
      BY <1>4, <2>5 DEF NodesOf
    <2> HIDE DEF new
    <2>7. new \in StoredGraph
      BY <1>1, <2>5, <2>6 DEF StoredGraph, S
    <2> QED
      BY <1>1, <1>2, <2>5, <2>7, StoredIsShared DEF new
  <1>7. CASE m.type = "SUPERSEDE"
    <2>1. PICK p : p = [n \in m.with |-> "PENDING"]
      OBVIOUS
    <2>2. PICK q : q = [n \in m.with |-> g.list[m.node]]
      OBVIOUS
    <2>3. PICK r : r = [g.status EXCEPT ![m.node] = "SKIPPED"]
      OBVIOUS
    <2> DEFINE s == Over(p, r)
               l == Over(q, list)
               x == {e \in g.edge : e[1] # m.node} \cup (m.with \X Successors(Edges(g), m.node))
    <2>4. new = [g EXCEPT !.edge = x, !.status = s, !.list = l]
      BY <1>7, <2>1, <2>2, <2>3, <1>b DEF Mutated, Superseded
    <2>5. p \in [m.with -> PlanStatus] /\ r \in [S -> PlanStatus] /\ q \in [m.with -> S] /\ list \in [S -> S]
      BY <1>2, <1>4, <1>b, <2>1, <2>2, <2>3
    <2>6. s \in [T -> PlanStatus] /\ l \in [T -> S]
      <3> HIDE DEF T
      <3>1. s \in [m.with \cup S -> PlanStatus]
        BY <2>5, OverIsFunction
      <3>2. l \in [m.with \cup S -> S]
        BY <2>5, OverIsFunction
      <3> QED
        BY <3>1, <3>2 DEF T
    <2>7. x \in SUBSET (T \X T)
      <3>1. Successors(Edges(g), m.node) \subseteq S
        BY DEF Successors, Edges, S
      <3> QED
        BY <1>4, <3>1
    <2>8. S \in SUBSET T /\ g.deps \in [S -> SUBSET T]
      BY <1>4
    <2> HIDE DEF s, l, x, T
    <2>9. new \in [edge : SUBSET (T \X T), status : [T -> PlanStatus], list : [T -> S],
                   deps : [S -> SUBSET T]]
      BY <1>1, <2>4, <2>6, <2>7, <2>8 DEF GraphOver
    <2>10. new \in SharedGraph(T)
      BY <2>8, <2>9 DEF SharedGraph
    <2> QED
      BY <1>2, <1>3, <1>7, <2>10 DEF new
  <1>8. CASE m.type = "CANCEL"
    <2>1. PICK these : new = [g EXCEPT !.status = [n \in S |-> IF n \in these THEN "BLOCKED" ELSE @[n]]]
      BY <1>8 DEF Mutated, Cancelled, S
    <2> DEFINE s == [n \in S |-> IF n \in these THEN "BLOCKED" ELSE g.status[n]]
    <2>2. new = [g EXCEPT !.status = s] /\ s \in [S -> PlanStatus]
      BY <1>1, <1>4, <2>1 DEF GraphOver
    <2> HIDE DEF s
    <2>3. new \in GraphOver(S) /\ new.list = g.list
      BY <1>1, <2>2 DEF GraphOver
    <2>4. NodesOf(new) = S
      BY <1>4, <2>3 DEF NodesOf
    <2> HIDE DEF new
    <2>5. new \in StoredGraph
      BY <1>1, <2>3, <2>4 DEF StoredGraph, S
    <2> QED
      BY <1>1, <1>2, <2>3, <2>5, StoredIsShared DEF new
  <1> QED
    BY <1>2, <1>5, <1>6, <1>7, <1>8

-----------------------------------------------------------------------------
(***************************************************************************)
(* Replays                                                                 *)
(***************************************************************************)
LEMMA VersionsAreGraphs ==
    ASSUME GraphsTyped
    PROVE  /\ Version \in Nat /\ DOMAIN graphs = 1 .. Version + 1 /\ DOMAIN journal = 1 .. Version
           /\ Len(graphs) = Version + 1 /\ Version <= MaxVersion
           /\ \A i \in 1 .. Version + 1 : graphs[i] \in StoredGraph
           /\ Latest = graphs[Version + 1]
  <1>1. /\ Len(graphs) \in 1 .. MaxVersion + 1 /\ MaxVersion \in Nat /\ Version = Len(graphs) - 1
        /\ Len(journal) = Version
    BY GraphAssumption DEF GraphsTyped, Version
  <1>2. Version \in Nat /\ Len(graphs) = Version + 1 /\ Version <= MaxVersion
    BY <1>1
  <1>3. DOMAIN graphs = 1 .. Len(graphs) /\ \A i \in DOMAIN graphs : graphs[i] \in StoredGraph
    BY SequenceIsFunction DEF GraphsTyped
  <1>4. DOMAIN journal = 1 .. Len(journal)
    BY SequenceIsFunction DEF GraphsTyped
  <1> QED
    BY <1>1, <1>2, <1>3, <1>4 DEF Latest

\* Where no node was superseded, every step of a replay is the version it stands for: what
\* a mutation makes of a stored graph is as it will be stored.
LEMMA ReplayRebuilds ==
    ASSUME GraphsTyped, Chained, \A i \in DOMAIN journal : journal[i].mutation.type # "SUPERSEDE"
    PROVE  Replayed(Version)
  <1>1. /\ Version \in Nat /\ DOMAIN journal = 1 .. Version
        /\ \A i \in 1 .. Version + 1 : graphs[i] \in StoredGraph
    BY VersionsAreGraphs
  <1>2. ASSUME NEW i \in 1 .. Version PROVE graphs[i + 1] = Mutated(graphs[i], journal[i].mutation)
    <2>1. /\ journal[i].mutation \in Mutations(graphs[i])
          /\ graphs[i + 1] = Stored(Mutated(graphs[i], journal[i].mutation))
          /\ graphs[i] \in StoredGraph /\ journal[i].mutation.type # "SUPERSEDE"
      BY <1>1 DEF Chained
    <2>2. Mutated(graphs[i], journal[i].mutation) \in StoredGraph
      BY <2>1, MutatedIsGraph
    <2> QED
      BY <2>1, <2>2, StoredIsGraph
  <1> DEFINE Is(f) == f = [k \in 0 .. Version |-> IF k = 0 THEN graphs[1]
                                                  ELSE Mutated(f[k - 1], journal[k].mutation)]
             h == [k \in 0 .. Version |-> graphs[k + 1]]
             replay == CHOOSE f : Is(f)
  <1>3. Is(h)
    <2>1. ASSUME NEW k \in 0 .. Version
          PROVE  h[k] = IF k = 0 THEN graphs[1] ELSE Mutated(h[k - 1], journal[k].mutation)
      <3>1. CASE k = 0
        BY <3>1
      <3>2. CASE k # 0
        <4>1. k \in 1 .. Version /\ k - 1 \in 0 .. Version /\ (k - 1) + 1 = k
          BY <1>1, <3>2
        <4>2. h[k] = graphs[k + 1] /\ h[k - 1] = graphs[k]
          BY <4>1
        <4> QED
          BY <1>2, <3>2, <4>1, <4>2
      <3> QED
        BY <3>1, <3>2
    <2> QED
      BY <2>1
  <1>4. Is(replay)
    <2> HIDE DEF h, Is
    <2> QED
      BY <1>3
  <1>5. Replay(Version) = replay[Version]
    BY DEF Replay
  <1>6. \A k \in 0 .. Version : replay[k] = IF k = 0 THEN graphs[1]
                                            ELSE Mutated(replay[k - 1], journal[k].mutation)
    <2> HIDE DEF replay
    <2> QED
      BY <1>4
  <1> HIDE DEF replay, Is, h
  <1>7. \A k \in 0 .. Version : replay[k] = graphs[k + 1]
    <2> DEFINE bad == {k \in 0 .. Version : replay[k] # graphs[k + 1]}
    <2>1. SUFFICES ASSUME bad # {} PROVE FALSE
      OBVIOUS
    <2>2. PICK k \in bad : \A i \in bad : k <= i
      <3>1. bad \subseteq Nat
        BY <1>1
      <3> QED
        BY <2>1, <3>1, LeastNumber
    <2>3. k # 0
      BY <1>6, <2>2
    <2>4. k \in 1 .. Version /\ k - 1 \in 0 .. Version /\ (k - 1) + 1 = k /\ ~(k <= k - 1)
      BY <1>1, <2>2, <2>3
    <2>5. replay[k - 1] = graphs[k]
      BY <2>2, <2>4
    <2> QED
      BY <1>2, <1>6, <2>2, <2>3, <2>4, <2>5
  <1>8. Replay(Version) = graphs[Version + 1]
    BY <1>1, <1>5, <1>7
  <1>9. Stored(Replay(Version)) = graphs[Version + 1]
    BY <1>1, <1>8, StoredIsGraph
  <1> QED
    BY <1>9 DEF Replayed, Chained

-----------------------------------------------------------------------------
(***************************************************************************)
(* Sets of nodes                                                           *)
(***************************************************************************)
LEMMA NodesAreCountable ==
    ASSUME NEW S \in SUBSET Node
    PROVE  IsFiniteSet(S) /\ Cardinality(S) \in Nat
  BY GraphAssumption, FS_Subset, FS_CardinalityType

LEMMA LargerSet ==
    ASSUME NEW S \in SUBSET Node, NEW T \in SUBSET S
    PROVE  T \in SUBSET Node /\ Cardinality(T) <= Cardinality(S)
  BY NodesAreCountable, FS_Subset

LEMMA UnionIsNoLarger ==
    ASSUME NEW S \in SUBSET Node, NEW T \in SUBSET Node
    PROVE  Cardinality(S \cup T) <= Cardinality(S) + Cardinality(T)
  <1>1. IsFiniteSet(S) /\ IsFiniteSet(T) /\ S \cap T \in SUBSET Node
    BY NodesAreCountable
  <1>2. Cardinality(S) \in Nat /\ Cardinality(T) \in Nat /\ Cardinality(S \cap T) \in Nat
    BY <1>1, NodesAreCountable
  <1>3. Cardinality(S \cup T) = Cardinality(S) + Cardinality(T) - Cardinality(S \cap T)
    BY <1>1, FS_Union
  <1> QED
    BY <1>2, <1>3

\* The first few of some nodes are few.
LEMMA FirstFewAreFew ==
    ASSUME NEW S \in SUBSET Node, NEW k \in Nat
    PROVE  Cardinality({n \in S : Cardinality({m \in S : m < n}) < k}) <= k
  <1> DEFINE below(n) == {m \in S : m < n}
             T == {n \in S : Cardinality({m \in S : m < n}) < k}
             f == [n \in T |-> Cardinality(below(n)) + 1]
  <1>1. T \in SUBSET S /\ \A n \in T : Cardinality(below(n)) < k
    OBVIOUS
  <1>2. \A n \in S : below(n) \in SUBSET Node /\ IsFiniteSet(below(n)) /\ Cardinality(below(n)) \in Nat
    BY NodesAreCountable
  <1>9. S \subseteq Nat /\ T \subseteq S
    BY <1>1, GraphAssumption
  <1> HIDE DEF T
  <1>3. f \in [T -> 1 .. k]
    <2>1. ASSUME NEW n \in T PROVE Cardinality(below(n)) + 1 \in 1 .. k
      <3>1. Cardinality(below(n)) \in Nat /\ Cardinality(below(n)) < k
        BY <1>1, <1>2, <1>9
      <3> QED
        BY <3>1
    <2> QED
      BY <2>1
  <1>4. ASSUME NEW m \in T, NEW n \in T, m < n PROVE f[m] # f[n]
    <2>1. m \in S /\ n \in S /\ m \in Nat /\ n \in Nat
      BY <1>9
    <2>2. below(m) \cup {m} \in SUBSET below(n) /\ m \notin below(m)
      <3>1. \A x \in S : x < m => x < n
        BY <1>4, <1>9, <2>1
      <3>2. ~(m < m)
        BY <2>1
      <3> QED
        BY <1>4, <2>1, <3>1, <3>2
    <2>3. Cardinality(below(m) \cup {m}) = Cardinality(below(m)) + 1
      BY <1>2, <2>1, <2>2, FS_AddElement
    <2>4. Cardinality(below(m) \cup {m}) <= Cardinality(below(n))
      BY <1>2, <2>1, <2>2, LargerSet
    <2>5. f[m] = Cardinality(below(m)) + 1 /\ f[n] = Cardinality(below(n)) + 1
      OBVIOUS
    <2>6. Cardinality(below(m)) \in Nat /\ Cardinality(below(n)) \in Nat
      BY <1>2, <2>1
    <2> HIDE DEF below, f
    <2> QED
      BY <2>3, <2>4, <2>5, <2>6
  <1>5. \A m, n \in T : f[m] = f[n] => m = n
    <2> SUFFICES ASSUME NEW m \in T, NEW n \in T, m # n PROVE f[m] # f[n]
      OBVIOUS
    <2>1. m < n \/ n < m
      <3>1. m \in Nat /\ n \in Nat
        BY <1>9
      <3> QED
        BY <3>1
    <2> QED
      BY <2>1, <1>4
  <1>6. f \in Injection(T, 1 .. k)
    BY <1>3, <1>5 DEF Injection, IsInjective
  <1>7. IsFiniteSet(1 .. k) /\ Cardinality(1 .. k) = k
    BY FS_Interval
  <1> HIDE DEF f
  <1>8. Cardinality(T) <= k
    BY <1>6, <1>7, FS_Injection
  <1> QED
    BY <1>8 DEF T


-----------------------------------------------------------------------------
(***************************************************************************)
(* Rows                                                                    *)
(***************************************************************************)
LEMMA RowIsTyped ==
    ASSUME NEW r \in RunRow
    PROVE  /\ r.status \in RunStatus /\ r.verdict \in Verdicts
           /\ DOMAIN r.statuses \in SUBSET Node /\ r.statuses \in [DOMAIN r.statuses -> NodeStatus]
           /\ DOMAIN r.keys \in SUBSET Node /\ r.keys \in [DOMAIN r.keys -> Key]
           /\ r.active \in SUBSET Node /\ r.used \in SUBSET Key
           /\ r.mutations \in 0..MaxMutations /\ r.stall \in Nat /\ r.spent \in 0..(Budget + 1)
           /\ \A t : In(r, t) \in SUBSET Node
           /\ Going(r) \in SUBSET Node /\ Cardinality(Going(r)) \in Nat
           /\ Cardinality(r.active) \in Nat
  <1>1. /\ r.statuses \in Partial(NodeStatus) /\ r.keys \in Partial(Key) /\ r.active \in SUBSET Node
        /\ r.used \in SUBSET Key /\ r.mutations \in 0..MaxMutations /\ r.stall \in Nat
        /\ r.spent \in 0..(Budget + 1) /\ r.status \in RunStatus /\ r.verdict \in Verdicts
    BY DEF RunRow
  <1>2. /\ DOMAIN r.statuses \in SUBSET Node /\ r.statuses \in [DOMAIN r.statuses -> NodeStatus]
        /\ DOMAIN r.keys \in SUBSET Node /\ r.keys \in [DOMAIN r.keys -> Key]
    BY <1>1, PartialIsFunction
  <1>3. /\ \A t : In(r, t) \in SUBSET Node
        /\ Going(r) \in SUBSET Node
    BY <1>2 DEF In, Going
  <1>4. Cardinality(Going(r)) \in Nat /\ Cardinality(r.active) \in Nat
    BY <1>1, <1>3, NodesAreCountable
  <1> QED
    BY <1>1, <1>2, <1>3, <1>4

\* What is put in the queue may start, by the version that it was looked up in.
LEMMA FirstReadyMayStart ==
    ASSUME NEW gs, NEW i \in DOMAIN gs, gs[i] \in StoredGraph, NEW r, NEW d, NEW k \in Nat,
           In(r, "COMPLETED") \subseteq d
    PROVE  /\ FirstReady(gs[i], r, k) \in SUBSET Node /\ Cardinality(FirstReady(gs[i], r, k)) <= k
           /\ \A n \in FirstReady(gs[i], r, k) : MayStart(n, gs, d)
  <1> DEFINE g == gs[i]
  <1>1. ReadyNodes(g, r) \in SUBSET NodesOf(g) /\ NodesOf(g) \in SUBSET Node
    BY StoredIsGraph DEF ReadyNodes
  <1>2. \A n \in ReadyNodes(g, r) : MayStart(n, gs, d)
    BY <1>1 DEF ReadyNodes, MayStart
  <1>3. FirstReady(g, r, k) \in SUBSET ReadyNodes(g, r)
    BY DEF FirstReady
  <1>4. Cardinality(FirstReady(g, r, k)) <= k
    BY <1>1, FirstFewAreFew DEF FirstReady
  <1> QED
    BY <1>1, <1>2, <1>3, <1>4

-----------------------------------------------------------------------------
(***************************************************************************)
(* Requests                                                                *)
(***************************************************************************)
\* A sender is a request that reads the row itself, or an open one, of a version not later.
LEMMA ViewIsRow ==
    ASSUME RowsTyped, RowsLicensed, GraphsTyped, NEW c \in Senders
    PROVE  /\ View(c) \in RunRow /\ Licensed(View(c), graphs, done)
           /\ Patient(View(c), Cardinality(Replied)) /\ VersionOf(c) \in 0..Version
  <1>1. Version \in Nat
    BY VersionsAreGraphs
  <1> QED
    BY <1>1 DEF Senders, View, VersionOf, Beside, RowsTyped, RowsLicensed

LEMMA MergedIsRow ==
    ASSUME row \in RunRow, NEW read \in RunRow, NEW new \in RunRow
    PROVE  LET m == Merged(read, new, {})
           IN  /\ m \in RunRow
               /\ m.status \in {row.status, new.status} /\ m.statuses \in {row.statuses, new.statuses}
               /\ m.active \in {row.active, new.active} /\ m.stall \in {row.stall, new.stall}
  BY DEF Merged, RunRow

LEMMA RepliesAreCountable ==
    ASSUME RowsTyped
    PROVE  /\ IsFiniteSet(Replied) /\ Cardinality(Replied) \in Nat
           /\ Cardinality(Client) \in Nat /\ Cardinality(Replied) <= Cardinality(Client)
  <1>1. Replied \subseteq Client /\ IsFiniteSet(Client)
    BY GraphAssumption DEF Replied
  <1> QED
    BY <1>1, FS_Subset, FS_CardinalityType

\* Each column of the row is as it was, or as the request computed it; what the other
\* requests have read does not change, and a request that overlaps others answers once.
LEMMA WriteMerges ==
    ASSUME RowsTyped, NEW c \in Senders, NEW new \in RunRow, Write(c, new, {})
    PROVE  /\ row' \in RunRow /\ requests' \in [Client -> RunRequest] /\ Open' \subseteq Open
           /\ \A d \in Open' : /\ requests'[d].row = requests[d].row
                               /\ requests'[d].beside = requests[d].beside
           /\ row'.status \in {row.status, new.status} /\ row'.statuses \in {row.statuses, new.statuses}
           /\ row'.active \in {row.active, new.active} /\ row'.stall \in {row.stall, new.stall}
           /\ \/ row' = new /\ Replied' = Replied
              \/ c \notin Replied /\ Replied' = Replied \cup {c}
  <1>1. /\ row' \in RunRow
        /\ row'.status \in {row.status, new.status} /\ row'.statuses \in {row.statuses, new.statuses}
        /\ row'.active \in {row.active, new.active} /\ row'.stall \in {row.stall, new.stall}
        /\ c = Alone => row' = new
    <2>1. CASE c = Alone
      BY <2>1 DEF Write
    <2>2. CASE c # Alone
      <3>1. requests[c].row \in RunRow /\ row \in RunRow
        BY <2>2 DEF Senders, RowsTyped
      <3>2. row' = Merged(requests[c].row, new, {})
        BY <2>2 DEF Write
      <3> QED
        BY <2>2, <3>1, <3>2, MergedIsRow
    <2> QED
      BY <2>1, <2>2
  <1>2. requests \in [Client -> RunRequest]
    BY DEF RowsTyped
  <1>3. Answered \in RunRequest
    BY RequestsAssumption DEF Answered, RunRequest
  <1>4. ASSUME NEW d \in Client
        PROVE  /\ requests'[d] \in RunRequest
               /\ requests'[d].stage = "open" => /\ d \in Open /\ requests'[d].row = requests[d].row
                                                 /\ requests'[d].beside = requests[d].beside
               /\ requests'[d].stage = "answered" <=> d = c \/ d \in Replied
    <2>1. requests'[d] = IF d = c THEN Answered
                         ELSE IF d \in Open THEN [requests[d] EXCEPT !.left = @ - 1]
                         ELSE requests[d]
      BY DEF Write
    <2>2. requests[d] \in RunRequest
      BY <1>2
    <2>3. CASE d = c
      BY <1>3, <2>1, <2>3 DEF Answered
    <2>4. CASE d # c /\ d \in Open
      <3>1. requests[d].left > 0
        BY <2>4 DEF Write
      <3>2. requests'[d] = [requests[d] EXCEPT !.left = @ - 1]
        BY <2>1, <2>4
      <3>3. requests[d].left - 1 \in 0..MaxMeanwhile
        BY <2>2, <3>1, RequestsAssumption DEF RunRequest
      <3>4. /\ requests'[d] \in RunRequest /\ requests'[d].row = requests[d].row
            /\ requests'[d].beside = requests[d].beside /\ requests'[d].stage = requests[d].stage
        BY <2>2, <3>2, <3>3 DEF RunRequest
      <3> QED
        BY <2>4, <3>4 DEF Open, Replied
    <2>5. CASE d # c /\ d \notin Open
      BY <2>1, <2>2, <2>5 DEF Open, Replied
    <2> QED
      BY <2>3, <2>4, <2>5
  <1>5. requests' \in [Client -> RunRequest]
    <2>1. requests' = [d \in Client |-> requests'[d]]
      BY DEF Write
    <2> QED
      BY <1>4, <2>1
  <1>6. /\ Open' \subseteq Open
        /\ \A d \in Open' : /\ requests'[d].row = requests[d].row
                            /\ requests'[d].beside = requests[d].beside
    BY <1>4 DEF Open
  <1>7. CASE c = Alone
    <2>1. c \notin Client
      BY <1>7, RequestsAssumption
    <2>2. Replied' = Replied
      BY <1>4, <2>1 DEF Replied
    <2> QED
      BY <1>1, <1>5, <1>6, <1>7, <2>2
  <1>8. CASE c # Alone
    <2>1. c \in Client /\ c \notin Replied
      BY <1>8 DEF Senders, Open, Replied
    <2>2. Replied' = Replied \cup {c}
      BY <1>4, <2>1 DEF Replied
    <2> QED
      BY <1>1, <1>5, <1>6, <2>1, <2>2
  <1> QED
    BY <1>7, <1>8

\* The versions hs are gs, and perhaps more.
Grown(gs, hs) ==
    /\ Len(gs) \in Nat /\ Len(hs) \in Nat /\ Len(gs) <= Len(hs) /\ 1 \in DOMAIN gs
    /\ \A i \in DOMAIN gs : i \in DOMAIN hs /\ hs[i] = gs[i]

\* More versions, and more nodes completed, license no less.
LEMMA LicensedGrows ==
    ASSUME NEW r, NEW gs, NEW hs, NEW d, NEW e, Grown(gs, hs), d \subseteq e, Licensed(r, gs, d)
    PROVE  Licensed(r, hs, e)
  <1>1. ASSUME NEW n, MayStart(n, gs, d) PROVE MayStart(n, hs, e)
    BY <1>1 DEF MayStart, Grown
  <1>2. Len(gs) > 1 => Len(hs) > 1
    BY DEF Grown
  <1>3. hs[1] = gs[1]
    BY DEF Grown
  <1> QED
    BY <1>1, <1>2, <1>3 DEF Licensed

LEMMA MixedIsLicensed ==
    ASSUME NEW a, NEW b, NEW r, NEW gs, NEW d, Licensed(a, gs, d), Licensed(b, gs, d),
           r.status \in {a.status, b.status}, r.statuses \in {a.statuses, b.statuses},
           r.active \in {a.active, b.active}
    PROVE  Licensed(r, gs, d)
  <1>1. /\ In(r, "COMPLETED") \in {In(a, "COMPLETED"), In(b, "COMPLETED")}
        /\ Going(r) \in {Going(a), Going(b)}
    BY DEF In, Going
  <1> QED
    BY <1>1 DEF Licensed

\* A request whose columns are licensed leaves every row licensed, however it overlaps.
LEMMA RequestsKeepRows ==
    ASSUME GraphInv, NEW c \in Senders, NEW new \in RunRow, Write(c, new, {}),
           Grown(graphs, graphs'), GraphsTyped', done \subseteq done',
           Licensed(new, graphs', done'), Patient(new, Cardinality(Replied))
    PROVE  RowsTyped' /\ RowsLicensed'
  <1>1. RowsTyped /\ RowsLicensed /\ GraphsTyped
    BY DEF GraphInv
  <1>2. /\ row' \in RunRow /\ requests' \in [Client -> RunRequest] /\ Open' \subseteq Open
        /\ \A d \in Open' : /\ requests'[d].row = requests[d].row
                            /\ requests'[d].beside = requests[d].beside
        /\ row'.status \in {row.status, new.status} /\ row'.statuses \in {row.statuses, new.statuses}
        /\ row'.active \in {row.active, new.active} /\ row'.stall \in {row.stall, new.stall}
        /\ \/ row' = new /\ Replied' = Replied
           \/ c \notin Replied /\ Replied' = Replied \cup {c}
    BY <1>1, WriteMerges
  <1>3. Version \in Nat /\ Version' \in Nat /\ Version <= Version'
    <2>1. Len(graphs) \in Nat /\ Len(graphs') \in Nat /\ Len(graphs) <= Len(graphs')
      BY DEF Grown
    <2>2. Version \in Nat
      BY <1>1, VersionsAreGraphs
    <2> QED
      BY <2>1, <2>2 DEF Version
  <1>4. RowsTyped'
    <2>1. \A d \in Open' : requests'[d].row \in RunRow /\ requests'[d].beside \in 0..Version'
      BY <1>1, <1>2, <1>3 DEF RowsTyped
    <2> QED
      BY <1>2, <2>1 DEF RowsTyped
  <1>5. /\ Licensed(row, graphs', done')
        /\ \A d \in Open : Licensed(requests[d].row, graphs', done')
    BY <1>1, LicensedGrows DEF RowsLicensed
  <1>6. Licensed(row', graphs', done')
    BY <1>2, <1>5, MixedIsLicensed
  <1>7. PICK k \in Nat : k = Cardinality(Replied)
    BY <1>1, RepliesAreCountable
  <1>8. PICK m \in Nat : m = Cardinality(Replied')
    <2>1. IsFiniteSet(Replied)
      BY <1>1, RepliesAreCountable
    <2>2. IsFiniteSet(Replied')
      BY <1>2, <2>1, FS_AddElement
    <2> QED
      BY <2>2, FS_CardinalityType
  <1>9. k <= m /\ (row' = new \/ m = k + 1)
    <2>1. IsFiniteSet(Replied)
      BY <1>1, RepliesAreCountable
    <2>2. CASE row' = new /\ Replied' = Replied
      BY <1>7, <1>8, <2>2
    <2>3. CASE c \notin Replied /\ Replied' = Replied \cup {c}
      BY <1>7, <1>8, <2>1, <2>3, FS_AddElement
    <2> QED
      BY <1>2, <2>2, <2>3
  <1>10. StallThreshold \in Nat /\ row.stall \in Nat /\ new.stall \in Nat
    BY <1>1, GraphAssumption, RowIsTyped DEF RowsTyped
  <1>11. Patient(row', m)
    BY <1>1, <1>2, <1>7, <1>9, <1>10 DEF Patient, RowsLicensed
  <1>12. \A d \in Open' : Patient(requests'[d].row, m)
    <2>1. ASSUME NEW d \in Open' PROVE Patient(requests'[d].row, m)
      <3>1. Patient(requests[d].row, k) /\ requests[d].row.stall \in Nat
        BY <1>1, <1>2, <1>7, RowIsTyped DEF RowsTyped, RowsLicensed
      <3>2. Patient(requests[d].row, m)
        BY <1>9, <1>10, <3>1 DEF Patient
      <3> QED
        BY <1>2, <3>2
    <2> QED
      BY <2>1
  <1>13. \A d \in Open' : Licensed(requests'[d].row, graphs', done')
    BY <1>2, <1>5
  <1> QED
    BY <1>4, <1>6, <1>8, <1>11, <1>12, <1>13 DEF RowsLicensed

-----------------------------------------------------------------------------
(***************************************************************************)
(* What the operators on rows do                                           *)
(***************************************************************************)
\* A status told of some nodes is that of these nodes, and no other status is.
LEMMA ToldStatuses ==
    ASSUME NEW r \in RunRow, NEW S \in SUBSET Node, NEW s \in NodeStatus, NEW new,
           NEW p \in [S -> {s}], new.statuses = Over(p, r.statuses)
    PROVE  /\ new.statuses \in Partial(NodeStatus)
           /\ In(new, s) = In(r, s) \cup S
           /\ \A t : t # s => In(new, t) = In(r, t) \ S
  <1>1. DOMAIN r.statuses \in SUBSET Node /\ r.statuses \in [DOMAIN r.statuses -> NodeStatus]
    BY RowIsTyped
  <1>2. p \in [S -> NodeStatus] /\ \A n \in S : p[n] = s
    OBVIOUS
  <1>3. PICK D \in SUBSET Node : D = DOMAIN r.statuses
    BY <1>1
  <1>4. PICK f : f = r.statuses
    OBVIOUS
  <1>5. PICK h : h = new.statuses
    OBVIOUS
  <1>6. /\ h \in [S \cup D -> NodeStatus] /\ DOMAIN h = S \cup D
        /\ \A n \in S \cup D : h[n] = IF n \in S THEN s ELSE f[n]
    <2>1. p \in [S -> NodeStatus] /\ f \in [D -> NodeStatus] /\ h = Over(p, f)
      BY <1>1, <1>2, <1>3, <1>4, <1>5
    <2>2. \A n \in S : p[n] = s
      BY <1>2
    <2>3. h \in [S \cup D -> NodeStatus]
      BY <2>1, OverIsFunction
    <2>4. h = [n \in S \cup D |-> IF n \in S THEN p[n] ELSE f[n]]
      BY <2>1 DEF Over
    <2> QED
      BY <2>2, <2>3, <2>4
  <1>7. h \in Partial(NodeStatus)
    BY <1>3, <1>6, PartialIsFunction
  <1>8. \A t : In(r, t) = {n \in D : f[n] = t} /\ In(new, t) = {n \in S \cup D : h[n] = t}
    BY <1>3, <1>4, <1>5, <1>6 DEF In
  <1> QED
    BY <1>5, <1>6, <1>7, <1>8

\* The license of a row is about its status, the statuses of its nodes and its queue.
LEMMA LicenseIsOfColumns ==
    ASSUME NEW a, NEW r, NEW gs, NEW d, Licensed(a, gs, d), r.statuses = a.statuses,
           r.active = a.active, r.status # "NONE" => a.status # "NONE"
    PROVE  Licensed(r, gs, d)
  BY DEF Licensed, Going, In

LEMMA ChargedIsRow ==
    ASSUME NEW r \in RunRow, NEW cost \in {0, 1}
    PROVE  /\ Charged(r, cost) \in RunRow
           /\ \A f \in {"status", "statuses", "active", "mutations", "stall", "verdict"} :
                 Charged(r, cost)[f] = r[f]
  <1>1. r.spent \in Nat /\ Budget \in Nat
    BY RowIsTyped, GraphAssumption
  <1>2. r.spent + cost \in Nat /\ Budget + 1 \in Nat
    BY <1>1
  <1>3. PICK cents : cents = Min({r.spent + cost, Budget + 1})
    OBVIOUS
  <1>4. cents \in 0..(Budget + 1)
    BY <1>2, <1>3, LesserOf
  <1>5. Charged(r, cost) = [r EXCEPT !.spent = cents]
    BY <1>3 DEF Charged, RunRow
  <1> QED
    BY <1>4, <1>5 DEF RunRow

\* A tick that is judged keeps its nodes and its queue; it goes on only before it stalls.
LEMMA JudgedIsRow ==
    ASSUME NEW r \in RunRow, NEW overdue, r.status # "NONE"
    PROVE  /\ Judged(r, overdue) \in RunRow
           /\ Judged(r, overdue).statuses = r.statuses /\ Judged(r, overdue).active = r.active
           /\ Judged(r, overdue).stall = r.stall
           /\ Judged(r, overdue).status # "NONE"
           /\ Judged(r, overdue).status \in {"NONE", "PENDING", "RUNNING", "EXPANDING"} =>
                 r.stall < StallThreshold
           /\ Judged(r, overdue).verdict \in {r.verdict, "LIMIT_EXCEEDED", "STALLED_NO_PROGRESS"}
  <1>1. /\ {"FAILED", "STALLED"} \subseteq RunStatus
        /\ {"LIMIT_EXCEEDED", "STALLED_NO_PROGRESS"} \subseteq Verdicts
    BY DEF RunStatus, Verdicts
  <1>2. r.stall \in Nat /\ StallThreshold \in Nat
    BY RowIsTyped, GraphAssumption
  <1>3. CASE OverLimit(r) \/ overdue
    BY <1>1, <1>3 DEF Judged, RunRow
  <1>4. CASE ~(OverLimit(r) \/ overdue) /\ r.stall >= StallThreshold
    BY <1>1, <1>4 DEF Judged, RunRow
  <1>5. CASE ~(OverLimit(r) \/ overdue) /\ ~(r.stall >= StallThreshold)
    <2>1. Judged(r, overdue) = r
      BY <1>5 DEF Judged
    <2>2. r.stall < StallThreshold
      BY <1>2, <1>5
    <2> QED
      BY <2>1, <2>2
  <1> QED
    BY <1>3, <1>4, <1>5

\* A run that goes on after progress runs what ran, and fills its queue up to the limit.
LEMMA AdvancedIsRow ==
    ASSUME GraphsTyped, NEW r \in RunRow, NEW d, Licensed(r, graphs, d), r.status # "NONE"
    PROVE  /\ Advanced(r) \in RunRow /\ Licensed(Advanced(r), graphs, d)
           /\ Advanced(r).stall = 0 /\ Advanced(r).status # "NONE"
           /\ Advanced(r).statuses = r.statuses
           /\ Advanced(r).verdict # r.verdict => Finished(r)
  <1> DEFINE going == Going(r)
             next == FirstReady(Latest, r, MaxWorkers - Cardinality(going))
  <1>1. /\ going \in SUBSET Node /\ Cardinality(going) \in Nat /\ MaxWorkers \in Nat
        /\ Cardinality(going) <= MaxWorkers
    BY RowIsTyped, GraphAssumption DEF Licensed
  <1>2. PICK k \in Nat : k = MaxWorkers - Cardinality(going)
    BY <1>1
  <1>3. /\ Version + 1 \in DOMAIN graphs /\ graphs[Version + 1] \in StoredGraph
        /\ Latest = graphs[Version + 1]
    BY VersionsAreGraphs
  <1>4. PICK i \in DOMAIN graphs : i = Version + 1
    BY <1>3
  <1>5. /\ next \in SUBSET Node /\ Cardinality(next) <= k
        /\ \A n \in next : MayStart(n, graphs, d)
    BY <1>2, <1>3, <1>4, FirstReadyMayStart DEF Licensed
  <1>6. going \cup next \in SUBSET Node /\ Cardinality(going \cup next) <= MaxWorkers
    <2>1. Cardinality(going \cup next) <= Cardinality(going) + Cardinality(next)
      BY <1>1, <1>5, UnionIsNoLarger
    <2>2. Cardinality(next) \in Nat /\ Cardinality(going \cup next) \in Nat
      BY <1>1, <1>5, NodesAreCountable
    <2> QED
      BY <1>1, <1>2, <1>5, <2>1, <2>2
  <1>7. \A n \in going : MayStart(n, graphs, d)
    BY DEF Licensed
  <1>8. PICK active \in SUBSET Node : active = going \cup next
    BY <1>6
  <1>9. /\ {"COMPLETED", "RUNNING"} \subseteq RunStatus /\ "EVIDENCE_READY" \in Verdicts
        /\ "COMPLETED" # "NONE" /\ "RUNNING" # "NONE"
    BY DEF RunStatus, Verdicts
  <1>a. PICK standing \in RunStatus : standing = IF Finished(r) THEN "COMPLETED" ELSE "RUNNING"
    BY <1>9
  <1>b. PICK verdict \in Verdicts : verdict = IF Finished(r) THEN "EVIDENCE_READY" ELSE r.verdict
    BY <1>9, RowIsTyped
  <1>10. Advanced(r) = [r EXCEPT !.stall = 0, !.active = active, !.status = standing, !.verdict = verdict]
    BY <1>8, <1>a, <1>b DEF Advanced, RunRow
  <1>11. /\ Advanced(r) \in RunRow /\ Advanced(r).stall = 0 /\ Advanced(r).status # "NONE"
         /\ Advanced(r).statuses = r.statuses /\ Advanced(r).active = active
         /\ Advanced(r).verdict # r.verdict => Finished(r)
    <2>1. PICK q : q = [r EXCEPT !.stall = 0, !.active = active, !.status = standing, !.verdict = verdict]
      OBVIOUS
    <2>2. /\ q \in RunRow /\ q.stall = 0 /\ q.status = standing /\ q.active = active
          /\ q.statuses = r.statuses /\ q.verdict = verdict
      BY <2>1 DEF RunRow
    <2> QED
      BY <1>9, <1>10, <1>a, <1>b, <2>1, <2>2
  <1>12. \A t : In(Advanced(r), t) = In(r, t)
    BY <1>11 DEF In
  <1> HIDE DEF next
  <1>13. Licensed(Advanced(r), graphs, d)
    BY <1>5, <1>6, <1>7, <1>8, <1>11, <1>12 DEF Licensed, Going
  <1> QED
    BY <1>11, <1>13

\* Nodes that were running, and now are completed, leave no fewer licensed.
LEMMA CompletingIsLicensed ==
    ASSUME NEW r \in RunRow, NEW S \in SUBSET Node, NEW gs, NEW d, Licensed(r, gs, d), NEW new,
           new.statuses = Over([n \in S |-> "COMPLETED"], r.statuses),
           new.status = r.status, new.active \in SUBSET r.active
    PROVE  Licensed(new, gs, d \cup S)
  <1>1. "COMPLETED" \in NodeStatus
    BY DEF NodeStatus
  <1>2. In(new, "COMPLETED") = In(r, "COMPLETED") \cup S /\ In(new, "RUNNING") = In(r, "RUNNING") \ S
    <2>1. /\ In(new, "COMPLETED") = In(r, "COMPLETED") \cup S
          /\ \A t : t # "COMPLETED" => In(new, t) = In(r, t) \ S
      <3>1. PICK p \in [S -> {"COMPLETED"}] : p = [n \in S |-> "COMPLETED"]
        OBVIOUS
      <3> QED
        BY <1>1, <3>1, ToldStatuses
    <2> QED
      BY <2>1
  <1>3. Going(new) \in SUBSET Going(r) /\ Going(r) \in SUBSET Node /\ r.active \in SUBSET Node
    BY <1>2, RowIsTyped DEF Going
  <1>4. Cardinality(Going(new)) <= Cardinality(Going(r)) /\ Cardinality(new.active) <= Cardinality(r.active)
    BY <1>3, LargerSet
  <1>5. /\ Cardinality(Going(new)) \in Nat /\ Cardinality(Going(r)) \in Nat
        /\ Cardinality(new.active) \in Nat /\ Cardinality(r.active) \in Nat /\ MaxWorkers \in Nat
    BY <1>3, NodesAreCountable, GraphAssumption
  <1>6. Cardinality(Going(new)) <= MaxWorkers /\ Cardinality(new.active) <= MaxWorkers
    <2>1. Cardinality(Going(r)) <= MaxWorkers /\ Cardinality(r.active) <= MaxWorkers
      BY DEF Licensed
    <2> QED
      BY <1>4, <1>5, <2>1
  <1>7. \A n : MayStart(n, gs, d) => MayStart(n, gs, d \cup S)
    BY DEF MayStart
  <1> QED
    BY <1>2, <1>3, <1>6, <1>7 DEF Licensed

-----------------------------------------------------------------------------
(***************************************************************************)
(* The steps                                                               *)
(***************************************************************************)
\* A request that stores no version keeps the invariant, if what it computes is licensed.
LEMMA WritingKeeps ==
    ASSUME GraphInv, NEW c \in Senders, NEW new \in RunRow, Write(c, new, {}),
           UNCHANGED <<graphs, journal>>, done \subseteq done', done' \subseteq Node,
           Licensed(new, graphs, done'), Patient(new, Cardinality(Replied))
    PROVE  GraphInv'
  <1>1. GraphsTyped' /\ Chained' /\ LatestIsBounded'
    BY DEF GraphInv, GraphsTyped, Chained, LatestIsBounded, Contiguous, Version, Latest
  <1>2. Grown(graphs, graphs')
    <2>1. Len(graphs) \in Nat /\ 1 \in DOMAIN graphs
      BY VersionsAreGraphs DEF GraphInv
    <2> QED
      BY <2>1 DEF Grown
  <1>3. RowsTyped' /\ RowsLicensed'
    BY <1>1, <1>2, RequestsKeepRows
  <1> QED
    BY <1>1, <1>3 DEF GraphInv

\* What a sender reads is typed and licensed.
LEMMA SendersAreLicensed ==
    ASSUME GraphInv, NEW c \in Senders
    PROVE  /\ View(c) \in RunRow /\ Licensed(View(c), graphs, done)
           /\ Patient(View(c), Cardinality(Replied)) /\ VersionOf(c) \in 0..Version
           /\ Version \in Nat /\ done \in SUBSET Node
           /\ Cardinality(Replied) \in Nat /\ StallThreshold \in Nat \ {0} /\ MaxWorkers \in Nat
  BY ViewIsRow, VersionsAreGraphs, RepliesAreCountable, GraphAssumption DEF GraphInv

LEMMA ReadKeeps ==
    ASSUME GraphInv, NEW c \in Client, Read(c, Version), UNCHANGED <<graphs, journal, done>>
    PROVE  GraphInv'
  <1>1. GraphsTyped' /\ Chained' /\ LatestIsBounded'
    BY DEF GraphInv, GraphsTyped, Chained, LatestIsBounded, Contiguous, Version, Latest
  <1>2. PICK q : q = [stage |-> "open", row |-> row, beside |-> Version, left |-> MaxMeanwhile]
    OBVIOUS
  <1>3. row \in RunRow /\ requests \in [Client -> RunRequest] /\ Version \in Nat /\ row' = row
    BY VersionsAreGraphs DEF GraphInv, RowsTyped, Read
  <1>4. q \in RunRequest
    BY <1>2, <1>3, RequestsAssumption DEF RunRequest
  <1>5. requests' = [requests EXCEPT ![c] = q]
    BY <1>2 DEF Read
  <1>6. Open' = Open \cup {c}
    BY <1>2, <1>3, <1>5 DEF Open
  <1>7. Replied' = Replied
    BY <1>2, <1>3, <1>5 DEF Replied, Read
  <1>8. RowsTyped'
    <2>1. \A d \in Open' : requests'[d].row \in RunRow /\ requests'[d].beside \in 0..Version'
      <3>1. Version' = Version
        BY DEF Version
      <3>2. ASSUME NEW d \in Open' PROVE requests'[d].row \in RunRow /\ requests'[d].beside \in 0..Version
        <4>1. CASE d = c
          BY <1>2, <1>3, <1>5, <4>1
        <4>2. CASE d # c
          BY <1>3, <1>5, <1>6, <4>2 DEF GraphInv, RowsTyped
        <4> QED
          BY <4>1, <4>2
      <3> QED
        BY <3>1, <3>2
    <2>2. requests' \in [Client -> RunRequest]
      BY <1>3, <1>4, <1>5
    <2> QED
      BY <1>3, <2>1, <2>2 DEF RowsTyped
  <1>9. RowsLicensed'
    <2>1. Licensed(row, graphs, done) /\ Patient(row, Cardinality(Replied))
      BY DEF GraphInv, RowsLicensed
    <2>2. ASSUME NEW d \in Open'
          PROVE  Licensed(requests'[d].row, graphs, done) /\ Patient(requests'[d].row, Cardinality(Replied))
      <3>1. CASE d = c
        BY <1>2, <1>3, <1>5, <2>1, <3>1
      <3>2. CASE d # c
        BY <1>3, <1>5, <1>6, <3>2 DEF GraphInv, RowsLicensed
      <3> QED
        BY <3>1, <3>2
    <2> QED
      BY <1>3, <1>7, <2>1, <2>2 DEF RowsLicensed
  <1> QED
    BY <1>1, <1>8, <1>9 DEF GraphInv

LEMMA CreateKeeps ==
    ASSUME GraphInv, Create
    PROVE  GraphInv'
  <1>1. Alone \in Senders
    BY DEF Senders
  <1>2. /\ GraphsTyped /\ done \in SUBSET Node /\ Cardinality(Replied) \in Nat
        /\ StallThreshold \in Nat \ {0} /\ MaxWorkers \in Nat
    BY <1>1, SendersAreLicensed DEF GraphInv
  <1>3. /\ Version \in Nat /\ Version + 1 \in DOMAIN graphs /\ graphs[Version + 1] \in StoredGraph
        /\ Latest = graphs[Version + 1] /\ Len(graphs) = Version + 1
    BY <1>2, VersionsAreGraphs
  <1>4. PICK statuses : statuses = Latest.status
    OBVIOUS
  <1>a. PICK usable : usable = (Enabled /\ ~(PreferLight /\ FitsLightSwarm) /\ (MaxWorkers = 1 \/ Registered))
    OBVIOUS
  <1>5. NodesOf(Latest) \in SUBSET Node /\ statuses \in [NodesOf(Latest) -> PlanStatus]
    BY <1>3, <1>4, StoredIsGraph DEF GraphOver
  <1>6. statuses \in Partial(NodeStatus)
    BY <1>5, PartialIsFunction DEF PlanStatus, NodeStatus
  <1>7. PICK known : known = [NoRun EXCEPT !.statuses = statuses]
    OBVIOUS
  <1>8. PICK active : active = FirstReady(Latest, known, MaxWorkers)
    OBVIOUS
  <1>b. PICK s \in {"PENDING", "DISABLED"} : s = IF usable THEN "PENDING" ELSE "DISABLED"
    OBVIOUS
  <1>c. PICK v \in Verdicts : v = IF Enabled /\ FallsBack THEN "FALLBACK" ELSE ""
    BY DEF Verdicts
  <1>d. PICK new : new = [known EXCEPT !.status = s, !.active = active, !.verdict = v]
    OBVIOUS
  <1>9. Write(Alone, new, {})
    BY <1>4, <1>7, <1>8, <1>a, <1>b, <1>c, <1>d DEF Create
  <1>10. In(known, "COMPLETED") = {} /\ In(known, "RUNNING") = {}
    <2>1. known.statuses = statuses
      BY <1>7 DEF NoRun
    <2> QED
      BY <1>5, <2>1 DEF In, PlanStatus
  <1>11. PICK i \in DOMAIN graphs : i = Version + 1
    BY <1>3
  <1>12. /\ active \in SUBSET Node /\ Cardinality(active) <= MaxWorkers
         /\ \A n \in active : MayStart(n, graphs, done)
    BY <1>2, <1>3, <1>8, <1>10, <1>11, FirstReadyMayStart
  <1>13. new \in RunRow /\ new.statuses = statuses /\ new.active = active /\ new.stall = 0
    <2>1. /\ MaxMutations \in Nat /\ Budget \in Nat /\ <<>> \in Partial(Key)
      <3>1. DOMAIN <<>> = {} /\ <<>> \in [{} -> Key]
        OBVIOUS
      <3> QED
        BY <3>1, GraphAssumption, PartialIsFunction
    <2>2. {"PENDING", "DISABLED"} \subseteq RunStatus
      BY DEF RunStatus
    <2>3. 0 \in 0..MaxMutations /\ 0 \in 0..(Budget + 1)
      BY <2>1
    <2>4. s \in RunStatus
      BY <2>2
    <2>5. new = [status |-> s, statuses |-> statuses, active |-> active, mutations |-> 0, stall |-> 0,
                 spent |-> 0, keys |-> <<>>, used |-> {}, verdict |-> v]
      BY <1>7, <1>d DEF NoRun
    <2> QED
      BY <1>6, <1>12, <2>1, <2>3, <2>4, <2>5 DEF RunRow
  <1>14. Licensed(new, graphs, done)
    <2>1. \A t : In(new, t) = In(known, t)
      BY <1>7, <1>13 DEF In, NoRun
    <2>2. Going(new) = {} /\ Cardinality({}) = 0
      BY <1>10, <2>1, FS_EmptySet DEF Going
    <2>3. Len(graphs) > 1 \/ WithinBounds(graphs[1], MaxDepth, MaxNodes)
      <3>1. CASE Version = 0
        BY <1>3, <3>1 DEF Create
      <3>2. CASE Version # 0
        BY <1>3, <3>2
      <3> QED
        BY <3>1, <3>2
    <2> QED
      BY <1>2, <1>10, <1>12, <1>13, <2>1, <2>2, <2>3 DEF Licensed
  <1>15. Patient(new, Cardinality(Replied))
    BY <1>2, <1>13 DEF Patient
  <1>16. done' = done /\ UNCHANGED <<graphs, journal>>
    BY DEF Create
  <1> QED
    BY <1>1, <1>2, <1>9, <1>13, <1>14, <1>15, <1>16, WritingKeeps

LEMMA EnableKeeps ==
    ASSUME GraphInv, NEW c \in Senders, Enable(c)
    PROVE  GraphInv'
  <1>1. PICK r : r = View(c)
    OBVIOUS
  <1>2. /\ r \in RunRow /\ Licensed(r, graphs, done) /\ Patient(r, Cardinality(Replied))
        /\ done \in SUBSET Node
    BY <1>1, SendersAreLicensed
  <1>3. PICK new : new = [r EXCEPT !.status = "RUNNING"]
    OBVIOUS
  <1>4. r.status = "PENDING" /\ Write(c, new, {}) /\ done' = done /\ UNCHANGED <<graphs, journal>>
    BY <1>1, <1>3 DEF Enable
  <1>5. /\ new \in RunRow /\ new.statuses = r.statuses /\ new.active = r.active
        /\ new.stall = r.stall /\ new.status = "RUNNING"
    BY <1>2, <1>3 DEF RunRow, RunStatus
  <1>6. Licensed(new, graphs, done)
    BY <1>2, <1>4, <1>5, LicenseIsOfColumns
  <1>7. Patient(new, Cardinality(Replied))
    BY <1>2, <1>4, <1>5 DEF Patient
  <1> QED
    BY <1>2, <1>4, <1>5, <1>6, <1>7, WritingKeeps

LEMMA KillKeeps ==
    ASSUME GraphInv, NEW c \in Senders, Kill(c)
    PROVE  GraphInv'
  <1>1. PICK r : r = View(c)
    OBVIOUS
  <1>2. /\ r \in RunRow /\ Licensed(r, graphs, done) /\ Patient(r, Cardinality(Replied))
        /\ done \in SUBSET Node
    BY <1>1, SendersAreLicensed
  <1>3. PICK new : new = [r EXCEPT !.status = "KILLED", !.verdict = "KILLED_BY_USER"]
    OBVIOUS
  <1>4. r.status # "NONE" /\ Write(c, new, {}) /\ done' = done /\ UNCHANGED <<graphs, journal>>
    BY <1>1, <1>3 DEF Kill
  <1>5. /\ new \in RunRow /\ new.statuses = r.statuses /\ new.active = r.active
        /\ new.stall = r.stall /\ new.status = "KILLED"
    BY <1>2, <1>3 DEF RunRow, RunStatus, Verdicts
  <1>6. Licensed(new, graphs, done)
    BY <1>2, <1>4, <1>5, LicenseIsOfColumns
  <1>7. Patient(new, Cardinality(Replied))
    BY <1>2, <1>4, <1>5 DEF Patient
  <1> QED
    BY <1>2, <1>4, <1>5, <1>6, <1>7, WritingKeeps

\* The node that is started was in the queue, and the limit leaves room for it.
LEMMA StartNodeKeeps ==
    ASSUME GraphInv, NEW c \in Senders, NEW n \in Node, StartNode(c, n)
    PROVE  GraphInv'
  <1>1. PICK r : r = View(c)
    OBVIOUS
  <1>2. /\ r \in RunRow /\ Licensed(r, graphs, done) /\ Patient(r, Cardinality(Replied))
        /\ done \in SUBSET Node /\ MaxWorkers \in Nat
    BY <1>1, SendersAreLicensed
  <1>3. PICK p \in [{n} -> {"RUNNING"}] : p = [m \in {n} |-> "RUNNING"]
    OBVIOUS
  <1>4. PICK statuses : statuses = Over(p, r.statuses)
    OBVIOUS
  <1>5. PICK new : new = [r EXCEPT !.statuses = statuses]
    OBVIOUS
  <1>6. new.statuses = statuses /\ new.status = r.status /\ new.active = r.active /\ new.stall = r.stall
    BY <1>2, <1>5 DEF RunRow
  <1>7. "RUNNING" \in NodeStatus /\ {n} \in SUBSET Node
    BY DEF NodeStatus
  <1>8. /\ statuses \in Partial(NodeStatus) /\ In(new, "RUNNING") = In(r, "RUNNING") \cup {n}
        /\ \A t : t # "RUNNING" => In(new, t) = In(r, t) \ {n}
    BY <1>2, <1>3, <1>4, <1>6, <1>7, ToldStatuses
  <1>9. new \in RunRow
    BY <1>2, <1>5, <1>8 DEF RunRow
  <1>10. /\ Executing(r) /\ n \in r.active /\ Cardinality(Going(r)) < MaxWorkers
         /\ Write(c, new, {}) /\ done' = done /\ UNCHANGED <<graphs, journal>>
    BY <1>1, <1>3, <1>4, <1>5 DEF StartNode, Startable
  <1>11. Going(new) = Going(r) \cup {n} /\ Cardinality(Going(new)) <= MaxWorkers
    <2>1. Going(new) = Going(r) \cup {n} /\ Going(r) \in SUBSET Node
      BY <1>2, <1>8, RowIsTyped DEF Going
    <2>2. IsFiniteSet(Going(r)) /\ Cardinality(Going(r)) \in Nat
      BY <2>1, NodesAreCountable
    <2>3. Cardinality(Going(new)) = Cardinality(Going(r)) \/ Cardinality(Going(new)) = Cardinality(Going(r)) + 1
      BY <2>1, <2>2, FS_AddElement
    <2> QED
      BY <1>2, <1>10, <2>1, <2>2, <2>3
  <1>12. In(new, "COMPLETED") \subseteq done
    BY <1>2, <1>8 DEF Licensed
  <1>13. Licensed(new, graphs, done)
    BY <1>2, <1>6, <1>10, <1>11, <1>12 DEF Licensed
  <1>14. Patient(new, Cardinality(Replied))
    BY <1>2, <1>6 DEF Patient
  <1> QED
    BY <1>2, <1>9, <1>10, <1>13, <1>14, WritingKeeps

\* A tick without progress stalls the run when its patience ends, and no tick continues it.
LEMMA TickIdleKeeps ==
    ASSUME GraphInv, NEW c \in Senders, NEW cost \in {0, 1}, NEW overdue \in BOOLEAN,
           TickIdle(c, cost, overdue)
    PROVE  GraphInv'
  <1>1. PICK r : r = View(c)
    OBVIOUS
  <1>2. /\ r \in RunRow /\ Licensed(r, graphs, done) /\ Patient(r, Cardinality(Replied))
        /\ done \in SUBSET Node /\ Cardinality(Replied) \in Nat /\ StallThreshold \in Nat
    BY <1>1, SendersAreLicensed
  <1>3. PICK q : q = Charged(r, cost)
    OBVIOUS
  <1>4. /\ q \in RunRow /\ q.status = r.status /\ q.statuses = r.statuses /\ q.active = r.active
        /\ q.stall = r.stall
    BY <1>2, <1>3, ChargedIsRow
  <1>5. PICK s : s = [q EXCEPT !.stall = @ + 1]
    OBVIOUS
  <1>6. /\ s \in RunRow /\ s.status = r.status /\ s.statuses = r.statuses /\ s.active = r.active
        /\ s.stall = r.stall + 1
    <2>1. q.stall \in Nat /\ q.stall + 1 \in Nat
      BY <1>4, RowIsTyped
    <2> QED
      BY <1>4, <1>5, <2>1 DEF RunRow
  <1>7. /\ Executing(r) /\ Write(c, Judged(s, overdue), {}) /\ done' = done
        /\ UNCHANGED <<graphs, journal>>
    BY <1>1, <1>3, <1>5 DEF TickIdle
  <1>8. r.status # "NONE" /\ r.status \in {"RUNNING", "EXPANDING"}
    BY <1>7 DEF Executing
  <1>9. PICK new : new = Judged(s, overdue)
    OBVIOUS
  <1>10. /\ new \in RunRow /\ new.statuses = r.statuses /\ new.active = r.active
         /\ new.stall = s.stall /\ new.status # "NONE"
         /\ new.status \in {"NONE", "PENDING", "RUNNING", "EXPANDING"} => s.stall < StallThreshold
    BY <1>6, <1>8, <1>9, JudgedIsRow
  <1>11. Licensed(new, graphs, done)
    BY <1>2, <1>8, <1>10, LicenseIsOfColumns
  <1>12. Patient(new, Cardinality(Replied))
    <2>1. r.stall < StallThreshold + Cardinality(Replied) /\ r.stall \in Nat
      BY <1>2, <1>8, RowIsTyped DEF Patient
    <2>2. PICK k \in Nat : k = Cardinality(Replied)
      BY <1>2
    <2>3. s.stall <= StallThreshold + k
      BY <1>2, <1>6, <2>1, <2>2
    <2>4. s.stall < StallThreshold => s.stall < StallThreshold + k
      BY <1>2, <1>6, <2>1, <2>2
    <2> QED
      BY <1>10, <2>2, <2>3, <2>4 DEF Patient
  <1> QED
    BY <1>2, <1>7, <1>9, <1>10, <1>11, <1>12, WritingKeeps

\* The row of a tick that reports progress, before it is judged.
LEMMA ProgressIsLicensed ==
    ASSUME GraphsTyped, NEW r \in RunRow, NEW d, Licensed(r, graphs, d), r.status # "NONE",
           NEW nodes \in SUBSET Going(r), NEW cost \in {0, 1}
    PROVE  LET told == Completed(Charged(r, cost), nodes)
               new == Advanced(told)
           IN  /\ new \in RunRow /\ Licensed(new, graphs, d \cup nodes)
               /\ new.stall = 0 /\ new.status # "NONE" /\ new.statuses = told.statuses
               /\ told.verdict = r.verdict /\ told.statuses = Over([n \in nodes |-> "COMPLETED"], r.statuses)
               /\ new.verdict # r.verdict => Finished(told)
  <1>1. PICK q : q = Charged(r, cost)
    OBVIOUS
  <1>2. /\ q \in RunRow /\ q.status = r.status /\ q.statuses = r.statuses /\ q.active = r.active
        /\ q.verdict = r.verdict
    BY <1>1, ChargedIsRow
  <1>3. PICK statuses : statuses = Over([n \in nodes |-> "COMPLETED"], q.statuses)
    OBVIOUS
  <1>4. PICK told : told = Completed(q, nodes)
    OBVIOUS
  <1>5. told = [q EXCEPT !.statuses = statuses]
    BY <1>2, <1>3, <1>4 DEF Completed, RunRow
  <1>6. /\ told.statuses = statuses /\ told.status = q.status /\ told.active = q.active
        /\ told.verdict = q.verdict
    BY <1>2, <1>5 DEF RunRow
  <1>7. nodes \in SUBSET Node /\ "COMPLETED" \in NodeStatus
    BY RowIsTyped DEF NodeStatus
  <1>8. statuses \in Partial(NodeStatus)
    <2>1. PICK p \in [nodes -> {"COMPLETED"}] : p = [n \in nodes |-> "COMPLETED"]
      OBVIOUS
    <2> QED
      BY <1>2, <1>3, <1>6, <1>7, <2>1, ToldStatuses
  <1>9. told \in RunRow
    BY <1>2, <1>5, <1>8 DEF RunRow
  <1>10. Licensed(q, graphs, d)
    BY <1>2, LicenseIsOfColumns
  <1>11. Licensed(told, graphs, d \cup nodes)
    <2>1. told.active \in SUBSET q.active
      BY <1>6
    <2> QED
      BY <1>2, <1>3, <1>6, <1>7, <1>10, <2>1, CompletingIsLicensed
  <1>12. PICK new : new = Advanced(told)
    OBVIOUS
  <1>13. /\ new \in RunRow /\ Licensed(new, graphs, d \cup nodes)
         /\ new.stall = 0 /\ new.status # "NONE" /\ new.statuses = told.statuses
         /\ new.verdict # told.verdict => Finished(told)
    BY <1>2, <1>6, <1>9, <1>11, <1>12, AdvancedIsRow
  <1> QED
    BY <1>1, <1>2, <1>3, <1>4, <1>6, <1>12, <1>13

LEMMA TickProgressKeeps ==
    ASSUME GraphInv, NEW c \in Senders, NEW nodes \in SUBSET Going(View(c)), NEW cost \in {0, 1},
           NEW overdue \in BOOLEAN, TickProgress(c, nodes, cost, overdue)
    PROVE  GraphInv'
  <1>1. PICK r : r = View(c)
    OBVIOUS
  <1>2. /\ r \in RunRow /\ Licensed(r, graphs, done) /\ done \in SUBSET Node
        /\ Cardinality(Replied) \in Nat /\ StallThreshold \in Nat \ {0} /\ GraphsTyped
    BY <1>1, SendersAreLicensed DEF GraphInv
  <1>3. PICK s : s = Advanced(Completed(Charged(r, cost), nodes))
    OBVIOUS
  <1>4. /\ Executing(r) /\ Write(c, Judged(s, overdue), {}) /\ done' = done \cup nodes
        /\ UNCHANGED <<graphs, journal>>
    BY <1>1, <1>3 DEF TickProgress
  <1>5. r.status # "NONE" /\ nodes \in SUBSET Going(r) /\ nodes \in SUBSET Node
    BY <1>1, <1>2, <1>4, RowIsTyped DEF Executing
  <1>6. s \in RunRow /\ Licensed(s, graphs, done \cup nodes) /\ s.stall = 0 /\ s.status # "NONE"
    BY <1>2, <1>3, <1>5, ProgressIsLicensed
  <1>7. PICK new : new = Judged(s, overdue)
    OBVIOUS
  <1>8. /\ new \in RunRow /\ new.statuses = s.statuses /\ new.active = s.active
        /\ new.stall = 0 /\ new.status # "NONE"
    BY <1>6, <1>7, JudgedIsRow
  <1>9. Licensed(new, graphs, done')
    BY <1>4, <1>6, <1>8, LicenseIsOfColumns
  <1>10. Patient(new, Cardinality(Replied))
    BY <1>2, <1>8 DEF Patient
  <1>11. done \subseteq done' /\ done' \subseteq Node
    BY <1>2, <1>4, <1>5
  <1> QED
    BY <1>4, <1>7, <1>8, <1>9, <1>10, <1>11, WritingKeeps

LEMMA ClaimSideEffectKeeps ==
    ASSUME GraphInv, NEW c \in Senders, NEW n \in Node, NEW key \in Key, ClaimSideEffect(c, n, key)
    PROVE  GraphInv'
  <1>1. PICK r : r = View(c)
    OBVIOUS
  <1>2. /\ r \in RunRow /\ Licensed(r, graphs, done) /\ Patient(r, Cardinality(Replied))
        /\ done \in SUBSET Node
    BY <1>1, SendersAreLicensed
  <1>3. PICK p \in [{n} -> Key] : p = [m \in {n} |-> key]
    OBVIOUS
  <1>4. PICK f : f = r.keys
    OBVIOUS
  <1>5. PICK keys : keys = Over(p, f)
    OBVIOUS
  <1>6. keys \in Partial(Key)
    <2>1. PICK D \in SUBSET Node : D = DOMAIN f /\ f \in [D -> Key]
      BY <1>2, <1>4, RowIsTyped
    <2>2. keys \in [{n} \cup D -> Key]
      <3>1. p \in [{n} -> Key] /\ f \in [D -> Key]
        BY <2>1
      <3>2. Over(p, f) \in [{n} \cup D -> Key]
        BY <3>1, OverIsFunction
      <3> QED
        BY <1>5, <3>2
    <2> QED
      BY <2>2, PartialIsFunction
  <1>7. PICK new : new = [r EXCEPT !.keys = keys]
    OBVIOUS
  <1>8. Write(c, new, {}) /\ done' = done /\ UNCHANGED <<graphs, journal>>
    <2>1. [r EXCEPT !.keys = Over([m \in {n} |-> key], @)] = new
      BY <1>2, <1>3, <1>4, <1>5, <1>7 DEF RunRow
    <2> QED
      BY <1>1, <2>1 DEF ClaimSideEffect
  <1>9. /\ new \in RunRow /\ new.statuses = r.statuses /\ new.active = r.active
        /\ new.stall = r.stall /\ new.status = r.status
    BY <1>2, <1>6, <1>7 DEF RunRow
  <1>10. Licensed(new, graphs, done)
    BY <1>2, <1>9, LicenseIsOfColumns
  <1>11. Patient(new, Cardinality(Replied))
    BY <1>2, <1>9 DEF Patient
  <1> QED
    BY <1>2, <1>8, <1>9, <1>10, <1>11, WritingKeeps

\* A side effect completes its node, whatever the node did before.
LEMMA CompleteSideEffectKeeps ==
    ASSUME GraphInv, NEW c \in Senders, NEW n \in Node, CompleteSideEffect(c, n)
    PROVE  GraphInv'
  <1>1. PICK r : r = View(c)
    OBVIOUS
  <1>2. /\ r \in RunRow /\ Licensed(r, graphs, done) /\ Patient(r, Cardinality(Replied))
        /\ done \in SUBSET Node
    BY <1>1, SendersAreLicensed
  <1>3. KeyOf(r, n) # NoKey
    BY <1>1 DEF CompleteSideEffect
  <1>4. PICK key \in Key : key = KeyOf(r, n)
    <2>1. r.keys \in [DOMAIN r.keys -> Key]
      BY <1>2, RowIsTyped
    <2> QED
      BY <1>3, <2>1 DEF KeyOf
  <1>5. PICK p \in [{n} -> {"COMPLETED"}] : p = [m \in {n} |-> "COMPLETED"]
    OBVIOUS
  <1>6. PICK statuses : statuses = Over(p, r.statuses)
    OBVIOUS
  <1>7. PICK new : new = [r EXCEPT !.statuses = statuses, !.used = @ \cup {key}, !.active = @ \ {n}]
    OBVIOUS
  <1>8. /\ new.statuses = statuses /\ new.status = r.status /\ new.active = r.active \ {n}
        /\ new.stall = r.stall
    BY <1>2, <1>7 DEF RunRow
  <1>9. "COMPLETED" \in NodeStatus /\ {n} \in SUBSET Node
    BY DEF NodeStatus
  <1>10. statuses \in Partial(NodeStatus)
    BY <1>2, <1>5, <1>6, <1>8, <1>9, ToldStatuses
  <1>11. new \in RunRow
    BY <1>2, <1>7, <1>10 DEF RunRow
  <1>12. Write(c, new, {}) /\ done' = done \cup {n} /\ UNCHANGED <<graphs, journal>>
    <2>1. [Completed(r, {n}) EXCEPT !.used = @ \cup {KeyOf(r, n)}, !.active = @ \ {n}] = new
      BY <1>2, <1>4, <1>5, <1>6, <1>7 DEF RunRow, Completed
    <2> QED
      BY <1>1, <2>1 DEF CompleteSideEffect
  <1>13. Licensed(new, graphs, done')
    <2>1. new.active \in SUBSET r.active
      BY <1>8
    <2>2. new.statuses = Over([m \in {n} |-> "COMPLETED"], r.statuses)
      BY <1>5, <1>6, <1>8
    <2> QED
      BY <1>2, <1>8, <1>9, <1>12, <2>1, <2>2, CompletingIsLicensed
  <1>14. Patient(new, Cardinality(Replied))
    BY <1>2, <1>8 DEF Patient
  <1>15. done \subseteq done' /\ done' \subseteq Node
    BY <1>2, <1>12
  <1> QED
    BY <1>11, <1>12, <1>13, <1>14, <1>15, WritingKeeps

\* After a restart nothing runs: what its key shows to be completed is, the rest waits.
LEMMA RequeuedIsRow ==
    ASSUME NEW r \in RunRow
    PROVE  /\ Requeued(r) \in RunRow /\ Going(Requeued(r)) = {}
           /\ In(r, "COMPLETED") \subseteq In(Requeued(r), "COMPLETED")
           /\ In(Requeued(r), "COMPLETED") \in SUBSET Node
           /\ Requeued(r).status = r.status /\ Requeued(r).stall = r.stall
           /\ Requeued(r).verdict = r.verdict
  <1>1. PICK f : f = r.statuses
    OBVIOUS
  <1>2. PICK D \in SUBSET Node : D = DOMAIN f /\ f \in [D -> NodeStatus]
    BY <1>1, RowIsTyped
  <1>3. PICK shown : shown = {n \in D : KeyOf(r, n) \in r.used}
    OBVIOUS
  <1>4. PICK h : h = [n \in D |-> IF f[n] # "RUNNING" THEN f[n]
                                  ELSE IF n \in shown THEN "COMPLETED" ELSE "PENDING"]
    OBVIOUS
  <1>5. PICK q : q = [r EXCEPT !.statuses = h]
    OBVIOUS
  <1>6. Requeued(r) = q
    <2>1. h = [n \in DOMAIN f |-> IF f[n] # "RUNNING" THEN f[n]
                                  ELSE IF KeyOf(r, n) \in r.used THEN "COMPLETED" ELSE "PENDING"]
      BY <1>2, <1>3, <1>4
    <2> QED
      BY <1>1, <1>5, <2>1 DEF Requeued, RunRow
  <1>7. h \in [D -> NodeStatus] /\ DOMAIN h = D /\ \A n \in D : h[n] # "RUNNING"
    BY <1>2, <1>4 DEF NodeStatus
  <1>8. h \in Partial(NodeStatus)
    BY <1>7, PartialIsFunction
  <1>9. /\ q \in RunRow /\ q.statuses = h /\ q.status = r.status /\ q.stall = r.stall
        /\ q.verdict = r.verdict
    BY <1>5, <1>8 DEF RunRow
  <1>10. \A t : In(r, t) = {n \in D : f[n] = t} /\ In(q, t) = {n \in D : h[n] = t}
    BY <1>1, <1>2, <1>7, <1>9 DEF In
  <1>11. Going(q) = {}
    BY <1>7, <1>10 DEF Going
  <1>12. In(r, "COMPLETED") \subseteq In(q, "COMPLETED")
    BY <1>4, <1>10
  <1>13. In(q, "COMPLETED") \in SUBSET Node
    BY <1>9, RowIsTyped
  <1> QED
    BY <1>6, <1>9, <1>11, <1>12, <1>13

\* A restart computes a licensed row, whether the graph it read could be replayed or not.
LEMMA ReconcileKeeps ==
    ASSUME GraphInv, NEW c \in Senders, Reconcile(c)
    PROVE  GraphInv'
  <1>1. PICK r : r = View(c)
    OBVIOUS
  <1>2. PICK v : v = VersionOf(c)
    OBVIOUS
  <1>3. /\ r \in RunRow /\ Licensed(r, graphs, done) /\ Patient(r, Cardinality(Replied))
        /\ done \in SUBSET Node /\ MaxWorkers \in Nat /\ v \in 0..Version /\ Version \in Nat
    BY <1>1, <1>2, SendersAreLicensed
  <1>4. r.status # "NONE" /\ UNCHANGED <<graphs, journal>>
    BY <1>1 DEF Reconcile
  <1>5. CASE Replayed(v)
    <2>1. PICK q : q = Requeued(r)
      OBVIOUS
    <2>2. /\ q \in RunRow /\ Going(q) = {} /\ In(r, "COMPLETED") \subseteq In(q, "COMPLETED")
          /\ In(q, "COMPLETED") \in SUBSET Node /\ q.status = r.status /\ q.stall = r.stall
      BY <1>3, <2>1, RequeuedIsRow
    <2>3. PICK active : active = FirstReady(GraphOf(c), q, MaxWorkers)
      OBVIOUS
    <2>4. PICK standing : standing = IF q.status = "EXPANDING" THEN "RUNNING" ELSE q.status
      OBVIOUS
    <2>5. PICK new : new = [q EXCEPT !.active = active, !.status = standing]
      OBVIOUS
    <2>6. Write(c, new, {}) /\ done' = done \cup In(q, "COMPLETED")
      <3>1. [q EXCEPT !.active = FirstReady(GraphOf(c), q, MaxWorkers),
                      !.status = IF @ = "EXPANDING" THEN "RUNNING" ELSE @] = new
        BY <2>2, <2>3, <2>4, <2>5 DEF RunRow
      <3>2. Write(c, [q EXCEPT !.active = FirstReady(GraphOf(c), q, MaxWorkers),
                               !.status = IF @ = "EXPANDING" THEN "RUNNING" ELSE @], {})
        BY <1>1, <1>2, <1>5, <2>1 DEF Reconcile
      <3>3. done' = done \cup In(q, "COMPLETED")
        BY <1>1, <1>2, <1>5, <2>1 DEF Reconcile
      <3> QED
        BY <3>1, <3>2, <3>3
    <2>7. v + 1 \in DOMAIN graphs /\ graphs[v + 1] \in StoredGraph /\ GraphOf(c) = graphs[v + 1]
      <3>1. DOMAIN graphs = 1 .. Version + 1 /\ \A i \in 1 .. Version + 1 : graphs[i] \in StoredGraph
        BY VersionsAreGraphs DEF GraphInv
      <3>2. v + 1 \in 1 .. Version + 1
        BY <1>3
      <3> QED
        BY <1>2, <3>1, <3>2 DEF GraphOf
    <2>8. PICK i \in DOMAIN graphs : i = v + 1
      BY <2>7
    <2>9. PICK d \in SUBSET Node : d = done \cup In(q, "COMPLETED")
      BY <1>3, <2>2
    <2>10. /\ active \in SUBSET Node /\ Cardinality(active) <= MaxWorkers
           /\ \A n \in active : MayStart(n, graphs, d)
      BY <1>3, <2>3, <2>7, <2>8, <2>9, FirstReadyMayStart
    <2>11. /\ new \in RunRow /\ new.statuses = q.statuses /\ new.active = active
           /\ new.stall = r.stall /\ new.status = standing
      <3>1. standing \in RunStatus
        BY <2>2, <2>4, RowIsTyped DEF RunStatus
      <3> QED
        BY <2>2, <2>5, <2>10, <3>1 DEF RunRow
    <2>12. Licensed(new, graphs, d)
      <3>1. In(new, "COMPLETED") \subseteq d /\ Going(new) = {}
        BY <2>2, <2>9, <2>11 DEF In, Going
      <3>2. Cardinality(Going(new)) = 0
        BY <3>1, FS_EmptySet
      <3>3. Len(graphs) > 1 \/ WithinBounds(graphs[1], MaxDepth, MaxNodes)
        BY <1>3, <1>4 DEF Licensed
      <3>4. 0 <= MaxWorkers
        BY <1>3
      <3> QED
        BY <2>10, <2>11, <3>1, <3>2, <3>3, <3>4 DEF Licensed
    <2>13. Patient(new, Cardinality(Replied))
      <3>1. new.status \in {"NONE", "PENDING", "RUNNING", "EXPANDING"} =>
               r.status \in {"NONE", "PENDING", "RUNNING", "EXPANDING"}
        BY <2>2, <2>4, <2>11
      <3> QED
        BY <1>3, <2>11, <3>1 DEF Patient
    <2>14. done \subseteq done' /\ done' \subseteq Node /\ d = done'
      BY <2>6, <2>9
    <2> QED
      BY <1>4, <2>6, <2>11, <2>12, <2>13, <2>14, WritingKeeps
  <1>6. CASE ~Replayed(v)
    <2>1. PICK new : new = [r EXCEPT !.status = "FAILED", !.verdict = "ESCALATED"]
      OBVIOUS
    <2>2. Write(c, new, {}) /\ done' = done
      BY <1>1, <1>2, <1>6, <2>1 DEF Reconcile
    <2>3. /\ new \in RunRow /\ new.statuses = r.statuses /\ new.active = r.active
          /\ new.stall = r.stall /\ new.status = "FAILED"
      BY <1>3, <2>1 DEF RunRow, RunStatus, Verdicts
    <2>4. Licensed(new, graphs, done)
      BY <1>3, <1>4, <2>3, LicenseIsOfColumns
    <2>5. Patient(new, Cardinality(Replied))
      BY <1>3, <2>3 DEF Patient
    <2> QED
      BY <1>3, <1>4, <2>2, <2>3, <2>4, <2>5, WritingKeeps
  <1> QED
    BY <1>5, <1>6

\* Of two mutations of a version only the first is stored, and it is the next version.
LEMMA MutationIsStored ==
    ASSUME GraphInv, NEW c \in Senders, NEW m \in Mutations(GraphOf(c)), Mutate(c, m),
           Version < MaxVersion
    PROVE  LET new == Stored(Mutated(GraphOf(c), m))
           IN  /\ GraphsTyped' /\ Chained' /\ LatestIsBounded' /\ Grown(graphs, graphs')
               /\ new \in StoredGraph /\ Len(graphs') \in DOMAIN graphs' /\ graphs'[Len(graphs')] = new
               /\ Len(graphs') > 1
  <1>1. PICK g : g = GraphOf(c)
    OBVIOUS
  <1>2. PICK v : v = VersionOf(c)
    OBVIOUS
  <1>3. PICK new : new = Stored(Mutated(g, m))
    OBVIOUS
  <1>4. /\ Unstored(v + 1) /\ Acceptable(g, m)
        /\ graphs' = Append(graphs, new) /\ journal' = Append(journal, JournalEntry(v, m))
    BY <1>1, <1>2, <1>3 DEF Mutate
  <1>5. /\ Version \in Nat /\ DOMAIN graphs = 1 .. Version + 1 /\ DOMAIN journal = 1 .. Version
        /\ Len(graphs) = Version + 1 /\ Len(journal) = Version /\ MaxVersion \in Nat
        /\ \A i \in 1 .. Version + 1 : graphs[i] \in StoredGraph
        /\ graphs \in Seq(StoredGraph) /\ journal \in Seq(Entry)
    BY VersionsAreGraphs, GraphAssumption DEF GraphInv, GraphsTyped
  <1>6. v = Version
    <2>1. v \in 0..Version /\ v + 1 > Version
      BY <1>2, <1>4, SendersAreLicensed DEF Unstored
    <2> QED
      BY <1>5, <2>1
  <1>7. g = graphs[Version + 1] /\ g \in StoredGraph /\ m \in Mutations(g)
    <2>1. Version + 1 \in 1 .. Version + 1
      BY <1>5
    <2> QED
      BY <1>1, <1>2, <1>5, <1>6, <2>1 DEF GraphOf
  <1>8. PICK S \in SUBSET Node : Mutated(g, m) \in SharedGraph(S)
    BY <1>7, MutatedIsGraph
  <1>9. new \in StoredGraph
    BY <1>3, <1>8, StoringIsTyped
  <1>10. IsAcyclic(new) /\ WithinBounds(new, MaxDepth, MaxNodes)
    <2>1. PICK f : f = Mutated(g, m)
      OBVIOUS
    <2>2. IsAcyclic(f) /\ WithinBounds(f, MaxDepth, MaxNodes)
      BY <1>4, <2>1 DEF Acceptable
    <2> QED
      BY <1>3, <1>8, <2>1, <2>2, StoringKeepsBounds
  <1>11. PICK e : e = [sequence |-> Version + 1, version |-> Version + 1, parent |-> Version, mutation |-> m]
    OBVIOUS
  <1>12. e = JournalEntry(v, m)
    BY <1>5, <1>6, <1>11 DEF JournalEntry
  <1>13. e \in Entry
    BY <1>5, <1>7, <1>11, MutatedIsGraph DEF Entry
  <1>14. /\ graphs' \in Seq(StoredGraph) /\ Len(graphs') = Version + 2
         /\ graphs'[Version + 2] = new
         /\ \A i \in DOMAIN graphs : i \in DOMAIN graphs' /\ graphs'[i] = graphs[i]
    <2>1. /\ Append(graphs, new) \in Seq(StoredGraph) /\ Len(Append(graphs, new)) = Len(graphs) + 1
          /\ Append(graphs, new)[Len(graphs) + 1] = new
          /\ \A i \in DOMAIN graphs : i \in DOMAIN Append(graphs, new) /\ Append(graphs, new)[i] = graphs[i]
      BY <1>5, <1>9, AppendedSequence
    <2>2. (Version + 1) + 1 = Version + 2
      BY <1>5
    <2> QED
      BY <1>4, <1>5, <2>1, <2>2
  <1>15. /\ journal' \in Seq(Entry) /\ Len(journal') = Version + 1
         /\ journal'[Version + 1] = e
         /\ \A i \in DOMAIN journal : i \in DOMAIN journal' /\ journal'[i] = journal[i]
    BY <1>4, <1>5, <1>12, <1>13, AppendedSequence
  <1>16. Version' = Version + 1
    BY <1>5, <1>14 DEF Version
  <1>17. GraphsTyped'
    <2>1. Version + 2 \in 1 .. MaxVersion + 1
      BY <1>5
    <2> QED
      BY <1>14, <1>15, <1>16, <2>1 DEF GraphsTyped
  <1>18. DOMAIN journal' = 1 .. Version + 1 /\ DOMAIN graphs' = 1 .. Version + 2
    BY <1>14, <1>15, SequenceIsFunction
  <1>19. Chained'
    <2>1. ASSUME NEW i \in DOMAIN journal'
          PROVE  /\ journal'[i].sequence = i /\ journal'[i].version = i /\ journal'[i].parent = i - 1
                 /\ journal'[i].mutation \in Mutations(graphs'[i])
                 /\ graphs'[i + 1] = Stored(Mutated(graphs'[i], journal'[i].mutation))
      <3>1. CASE i = Version + 1
        <4>1. i \in DOMAIN graphs /\ graphs'[i] = g /\ graphs'[i + 1] = new /\ i - 1 = Version
          <5>1. i \in DOMAIN graphs /\ i + 1 = Version + 2 /\ i - 1 = Version
            BY <1>5, <3>1
          <5> QED
            BY <1>7, <1>14, <3>1, <5>1
        <4> QED
          BY <1>3, <1>7, <1>11, <1>15, <3>1, <4>1
      <3>2. CASE i # Version + 1
        <4>1. i \in DOMAIN journal /\ i \in DOMAIN graphs /\ i + 1 \in DOMAIN graphs
          BY <1>5, <1>18, <3>2
        <4>2. journal'[i] = journal[i] /\ graphs'[i] = graphs[i] /\ graphs'[i + 1] = graphs[i + 1]
          BY <1>14, <1>15, <4>1
        <4>3. /\ journal[i].sequence = i /\ journal[i].version = i /\ journal[i].parent = i - 1
              /\ journal[i].mutation \in Mutations(graphs[i])
              /\ graphs[i + 1] = Stored(Mutated(graphs[i], journal[i].mutation))
          BY <4>1 DEF GraphInv, Chained, Contiguous
        <4> QED
          BY <4>2, <4>3
      <3> QED
        BY <3>1, <3>2
    <2> QED
      BY <2>1 DEF Chained, Contiguous
  <1>20. LatestIsBounded'
    <2>1. Latest' = new
      BY <1>14 DEF Latest
    <2>2. IsAcyclic(Latest') /\ WithinBounds(Latest', MaxDepth, MaxNodes)
      BY <1>10, <2>1
    <2> QED
      BY <2>2 DEF LatestIsBounded
  <1>21. Grown(graphs, graphs')
    <2>1. Version + 1 \in Nat /\ Version + 2 \in Nat /\ Version + 1 <= Version + 2 /\ 1 \in 1 .. Version + 1
      BY <1>5
    <2> QED
      BY <1>5, <1>14, <2>1 DEF Grown
  <1>22. Len(graphs') \in DOMAIN graphs' /\ Len(graphs') > 1
    <2>1. Version + 2 \in 1 .. Version + 2 /\ Version + 2 > 1
      BY <1>5
    <2> QED
      BY <1>14, <1>18, <2>1
  <1> QED
    BY <1>1, <1>3, <1>9, <1>14, <1>17, <1>19, <1>20, <1>21, <1>22

\* A mutation that names the run tells it of the new nodes, and fills its queue by them.
LEMMA MutateKeeps ==
    ASSUME GraphInv, NEW c \in Senders, NEW m \in Mutations(GraphOf(c)), Mutate(c, m),
           Version < MaxVersion
    PROVE  GraphInv'
  <1>1. PICK r : r = View(c)
    OBVIOUS
  <1>2. /\ r \in RunRow /\ Licensed(r, graphs, done) /\ Patient(r, Cardinality(Replied))
        /\ done \in SUBSET Node /\ MaxWorkers \in Nat
    BY <1>1, SendersAreLicensed
  <1>3. PICK g : g = Stored(Mutated(GraphOf(c), m))
    OBVIOUS
  <1>4. /\ GraphsTyped' /\ Chained' /\ LatestIsBounded' /\ Grown(graphs, graphs')
        /\ g \in StoredGraph /\ Len(graphs') \in DOMAIN graphs' /\ graphs'[Len(graphs')] = g
        /\ Len(graphs') > 1
    BY <1>3, MutationIsStored
  <1>5. done' = done /\ (NamesNoRun(c) \/ NamesRun(c, g))
    BY <1>3 DEF Mutate
  <1>6. Licensed(r, graphs', done)
    BY <1>2, <1>4, LicensedGrows
  <1>7. SUFFICES ASSUME NEW new \in RunRow, Write(c, new, {}), Licensed(new, graphs', done),
                        Patient(new, Cardinality(Replied))
                 PROVE  RowsTyped' /\ RowsLicensed'
    <2>1. SUFFICES RowsTyped' /\ RowsLicensed'
      BY <1>2, <1>4, <1>5 DEF GraphInv
    <2>2. \E new \in RunRow : /\ Write(c, new, {}) /\ Licensed(new, graphs', done)
                              /\ Patient(new, Cardinality(Replied))
      <3>1. CASE NamesNoRun(c)
        BY <1>1, <1>2, <1>6, <3>1 DEF NamesNoRun
      <3>2. CASE NamesRun(c, g)
        <4>1. /\ Executing(r) /\ r.mutations < MaxMutations /\ r.mutations \in 0..MaxMutations
              /\ MaxMutations \in Nat
          BY <1>1, <1>2, <3>2, RowIsTyped, GraphAssumption DEF NamesRun
        <4>2. PICK mutations \in 0..MaxMutations : mutations = r.mutations + 1
          BY <4>1
        <4>3. PICK p \in [NodesOf(g) -> {"PENDING"}] : p = [n \in NodesOf(g) |-> "PENDING"]
          OBVIOUS
        <4>4. PICK f : f = r.statuses
          OBVIOUS
        <4>5. PICK statuses : statuses = Over(f, p)
          OBVIOUS
        <4>6. PICK told : told = [r EXCEPT !.statuses = statuses, !.mutations = mutations,
                                           !.status = "EXPANDING"]
          OBVIOUS
        <4>7. PICK D \in SUBSET Node : D = DOMAIN f /\ f \in [D -> NodeStatus]
          BY <1>2, <4>4, RowIsTyped
        <4>8. NodesOf(g) \in SUBSET Node /\ p \in [NodesOf(g) -> NodeStatus]
          BY <1>4, <4>3, StoredIsGraph DEF NodeStatus
        <4>9. PICK T \in SUBSET Node : T = NodesOf(g)
          BY <4>8
        <4>10. statuses \in [D \cup T -> NodeStatus]
          <5>1. p \in [T -> NodeStatus]
            BY <4>8, <4>9
          <5>2. Over(f, p) \in [D \cup T -> NodeStatus]
            BY <4>7, <5>1, OverIsFunction
          <5> QED
            BY <4>5, <5>2
        <4>11. \A n \in D \cup T : statuses[n] = IF n \in D THEN f[n] ELSE "PENDING"
          BY <4>3, <4>5, <4>7, <4>9 DEF Over
        <4>12. statuses \in Partial(NodeStatus)
          BY <4>10, PartialIsFunction
        <4>13. told \in RunRow /\ told.statuses = statuses /\ told.stall = r.stall
          BY <1>2, <4>2, <4>6, <4>12 DEF RunRow, RunStatus
        <4>14. /\ In(told, "COMPLETED") = In(r, "COMPLETED") /\ Going(told) = Going(r)
          <5>1. \A t : In(r, t) = {n \in D : f[n] = t} /\ In(told, t) = {n \in D \cup T : statuses[n] = t}
            BY <4>4, <4>7, <4>10, <4>13 DEF In
          <5> QED
            BY <4>11, <5>1 DEF Going
        <4>15. PICK active : active = FirstReady(g, told, MaxWorkers)
          OBVIOUS
        <4>16. PICK new : new = [told EXCEPT !.active = active]
          OBVIOUS
        <4>17. Write(c, new, {})
          <5>1. [r EXCEPT !.statuses = Over(@, [n \in NodesOf(g) |-> "PENDING"]), !.mutations = @ + 1,
                          !.status = "EXPANDING"] = told
            BY <1>2, <4>2, <4>3, <4>4, <4>5, <4>6 DEF RunRow
          <5> QED
            BY <1>1, <3>2, <4>15, <4>16, <5>1 DEF NamesRun
        <4>18. PICK gs : gs = graphs'
          OBVIOUS
        <4>19. PICK i \in DOMAIN gs : gs[i] = g
          BY <1>4, <4>18
        <4>20. In(told, "COMPLETED") \subseteq done
          BY <1>2, <4>14 DEF Licensed
        <4>21. /\ active \in SUBSET Node /\ Cardinality(active) <= MaxWorkers
               /\ \A n \in active : MayStart(n, gs, done)
          BY <1>2, <1>4, <4>15, <4>19, <4>20, FirstReadyMayStart
        <4>22. /\ new \in RunRow /\ new.statuses = statuses /\ new.stall = r.stall
               /\ new.active = active /\ new.status = "EXPANDING"
          BY <4>6, <4>13, <4>16, <4>21, <1>2 DEF RunRow
        <4>23. \A t : In(new, t) = In(told, t)
          BY <4>13, <4>22 DEF In
        <4>24. Licensed(new, gs, done)
          BY <1>4, <1>6, <4>14, <4>18, <4>20, <4>21, <4>22, <4>23 DEF Licensed, Going
        <4>25. Patient(new, Cardinality(Replied))
          BY <1>2, <4>1, <4>22 DEF Patient, Executing
        <4> QED
          BY <4>17, <4>18, <4>22, <4>24, <4>25
      <3> QED
        BY <1>5, <3>1, <3>2
    <2> QED
      BY <2>2
  <1>8. done \subseteq done' /\ Licensed(new, graphs', done')
    BY <1>5, <1>7
  <1> QED
    BY <1>4, <1>7, <1>8, RequestsKeepRows

-----------------------------------------------------------------------------
(***************************************************************************)
(* The invariant                                                           *)
(***************************************************************************)
LEMMA GraphStarts == GraphInit => GraphInv
  <1> SUFFICES ASSUME GraphInit PROVE GraphInv
    OBVIOUS
  <1>1. InitialGraph \in StoredGraph
    <2>1. PICK f : f = [n \in PlanNode |-> "PENDING"]
      OBVIOUS
    <2>2. PICK l : l = [n \in PlanNode |-> n]
      OBVIOUS
    <2>3. PICK g : g = [edge |-> PlanEdges, status |-> f, list |-> l, deps |-> PlanDepends]
      OBVIOUS
    <2>4. /\ f \in [PlanNode -> PlanStatus] /\ l \in [PlanNode -> PlanNode]
          /\ \A n \in PlanNode : l[n] = n
      BY <2>1, <2>2 DEF PlanStatus
    <2>5. g \in GraphOver(PlanNode) /\ g.list = l
      BY <2>3, <2>4, GraphAssumption DEF GraphOver
    <2>6. NodesOf(g) = PlanNode /\ PlanNode \in SUBSET Node
      BY <2>4, <2>5, GraphAssumption DEF NodesOf
    <2>7. g \in StoredGraph
      BY <2>4, <2>5, <2>6 DEF StoredGraph
    <2> QED
      BY <2>1, <2>2, <2>3, <2>7 DEF InitialGraph
  <1>2. PICK g \in StoredGraph : g = InitialGraph
    BY <1>1
  <1>3. graphs = <<g>> /\ journal = <<>> /\ row = NoRun /\ done = {}
    BY <1>2 DEF GraphInit
  <1>4. /\ graphs \in Seq(StoredGraph) /\ Len(graphs) = 1 /\ graphs[1] = g
        /\ journal \in Seq(Entry) /\ Len(journal) = 0 /\ DOMAIN journal = {}
    BY <1>3
  <1>5. Version = 0 /\ Latest = g
    BY <1>4 DEF Version, Latest
  <1>6. GraphsTyped
    <2>1. 1 \in 1 .. MaxVersion + 1
      BY GraphAssumption
    <2> QED
      BY <1>4, <1>5, <2>1 DEF GraphsTyped
  <1>7. Chained
    BY <1>4 DEF Chained, Contiguous
  <1>8. LatestIsBounded
    BY <1>2, <1>5, PlanAssumption DEF LatestIsBounded
  <1>9. /\ row.status = "NONE" /\ row.statuses = <<>> /\ row.active = {} /\ row.stall = 0
        /\ DOMAIN row.statuses = {}
    <2>1. PICK verdict : verdict = ""
      OBVIOUS
    <2>2. row = [status |-> "NONE", statuses |-> <<>>, active |-> {}, mutations |-> 0, stall |-> 0,
                 spent |-> 0, keys |-> <<>>, used |-> {}, verdict |-> verdict]
      BY <1>3, <2>1 DEF NoRun
    <2>3. DOMAIN <<>> = {}
      OBVIOUS
    <2> QED
      BY <2>2, <2>3
  <1>10. NoRun \in RunRow
    <2>1. /\ <<>> \in Partial(Key) /\ <<>> \in Partial(NodeStatus)
      <3>1. DOMAIN <<>> = {} /\ <<>> \in [{} -> Key] /\ <<>> \in [{} -> NodeStatus]
        OBVIOUS
      <3> QED
        BY <3>1, PartialIsFunction
    <2>2. 0 \in 0..MaxMutations /\ 0 \in 0..(Budget + 1)
      BY GraphAssumption
    <2>3. PICK verdict \in Verdicts : verdict = ""
      BY DEF Verdicts
    <2>4. PICK standing \in RunStatus : standing = "NONE"
      BY DEF RunStatus
    <2>5. PICK q : q = [status |-> standing, statuses |-> <<>>, active |-> {}, mutations |-> 0, stall |-> 0,
                        spent |-> 0, keys |-> <<>>, used |-> {}, verdict |-> verdict]
      OBVIOUS
    <2>6. q \in RunRow
      BY <2>1, <2>2, <2>5 DEF RunRow
    <2> QED
      BY <2>3, <2>4, <2>5, <2>6 DEF NoRun
  <1>11. Open = {} /\ Replied = {} /\ requests \in [Client -> RunRequest]
    <2>1. PICK u : u = Unsent
      OBVIOUS
    <2>2. u \in RunRequest /\ u.stage = "unsent"
      BY <2>1, RequestsAssumption DEF Unsent, RunRequest
    <2>3. requests = [c \in Client |-> u]
      BY <2>1 DEF GraphInit
    <2> QED
      BY <2>2, <2>3 DEF Open, Replied
  <1>12. RowsTyped
    BY <1>3, <1>10, <1>11 DEF RowsTyped
  <1>13. RowsLicensed
    <2>1. Cardinality({}) = 0 /\ MaxWorkers \in Nat /\ StallThreshold \in Nat \ {0}
      BY FS_EmptySet, GraphAssumption
    <2>2. In(row, "COMPLETED") = {} /\ Going(row) = {}
      BY <1>9 DEF In, Going
    <2>3. Licensed(row, graphs, done)
      BY <1>9, <2>1, <2>2 DEF Licensed
    <2>4. Patient(row, Cardinality(Replied))
      BY <1>9, <1>11, <2>1 DEF Patient
    <2> QED
      BY <1>11, <2>3, <2>4 DEF RowsLicensed
  <1> QED
    BY <1>3, <1>6, <1>7, <1>8, <1>12, <1>13 DEF GraphInv

LEMMA GraphInvariant == GraphSpec => []GraphInv
  <1>1. GraphInv /\ [GraphNext]_graphVars => GraphInv'
    <2>1. SUFFICES ASSUME GraphInv, [GraphNext]_graphVars PROVE GraphInv'
      OBVIOUS
    <2>2. CASE Create
      BY <2>1, <2>2, CreateKeeps
    <2>3. CASE \E c \in Client : Read(c, Version) /\ UNCHANGED <<graphs, journal, done>>
      BY <2>1, <2>3, ReadKeeps
    <2>4. CASE \E c \in Senders : Version < MaxVersion /\ \E m \in Mutations(GraphOf(c)) : Mutate(c, m)
      BY <2>1, <2>4, MutateKeeps
    <2>5. CASE \E c \in Senders : Enable(c)
      BY <2>1, <2>5, EnableKeeps
    <2>6. CASE \E c \in Senders : Kill(c)
      BY <2>1, <2>6, KillKeeps
    <2>7. CASE \E c \in Senders, n \in Node : StartNode(c, n)
      BY <2>1, <2>7, StartNodeKeeps
    <2>8. CASE \E c \in Senders, cost \in {0, 1}, overdue \in BOOLEAN : TickIdle(c, cost, overdue)
      BY <2>1, <2>8, TickIdleKeeps
    <2>9. CASE \E c \in Senders : \E nodes \in (SUBSET Going(View(c))) \ {{}}, cost \in {0, 1}, overdue \in BOOLEAN :
                 TickProgress(c, nodes, cost, overdue)
      BY <2>1, <2>9, TickProgressKeeps
    <2>10. CASE \E c \in Senders, n \in Node, key \in Key : ClaimSideEffect(c, n, key)
      BY <2>1, <2>10, ClaimSideEffectKeeps
    <2>11. CASE \E c \in Senders, n \in Node : CompleteSideEffect(c, n)
      BY <2>1, <2>11, CompleteSideEffectKeeps
    <2>12. CASE \E c \in Senders : Reconcile(c)
      BY <2>1, <2>12, ReconcileKeeps
    <2>13. CASE UNCHANGED graphVars
      <3>1. UNCHANGED <<graphs, journal, row, requests, done>>
        BY <2>13 DEF graphVars
      <3>2. GraphsTyped' /\ Chained' /\ LatestIsBounded'
        BY <2>1, <3>1 DEF GraphInv, GraphsTyped, Chained, LatestIsBounded, Contiguous, Version, Latest
      <3>3. RowsTyped' /\ RowsLicensed'
        BY <2>1, <3>1 DEF GraphInv, RowsTyped, RowsLicensed, Open, Replied, Version
      <3> QED
        BY <2>1, <3>1, <3>2, <3>3 DEF GraphInv
    <2> QED
      BY <2>1, <2>2, <2>3, <2>4, <2>5, <2>6, <2>7, <2>8, <2>9, <2>10, <2>11, <2>12, <2>13 DEF GraphNext
  <1> QED
    BY <1>1, GraphStarts, PTL DEF GraphSpec

-----------------------------------------------------------------------------
(***************************************************************************)
(* The theorems                                                            *)
(***************************************************************************)
\* No version has a cycle, and none that a mutation or a run has judged exceeds the policy:
\* the version a mutation was judged by is the latest (apply_mutation, create_deep_swarm_run).
THEOREM VersionsStayBounded == GraphSpec => []GraphsStayBounded
  <1>1. GraphInv => GraphsStayBounded
    <2> SUFFICES ASSUME GraphInv PROVE GraphsStayBounded
      OBVIOUS
    <2>1. Licensed(row, graphs, done) /\ LatestIsBounded /\ GraphsTyped
      BY DEF GraphInv, RowsLicensed
    <2>2. Version \in Nat /\ Len(graphs) = Version + 1 /\ Latest = graphs[Version + 1]
      BY <2>1, VersionsAreGraphs
    <2>3. CASE Version = 0
      <3>1. Latest = graphs[1] /\ ~(Len(graphs) > 1) /\ ~(Version > 0)
        BY <2>2, <2>3
      <3> QED
        BY <2>1, <3>1 DEF Licensed, LatestIsBounded, GraphsStayBounded
    <2>4. CASE Version # 0
      <3>1. Version > 0
        BY <2>2, <2>4
      <3> QED
        BY <2>1, <3>1 DEF LatestIsBounded, GraphsStayBounded
    <2> QED
      BY <2>3, <2>4
  <1> QED
    BY <1>1, GraphInvariant, PTL

\* However requests overlap, a node runs only when all that it depended on in some version
\* was completed, and no more run than the policy allows (tick_deep_swarm, start_node).
THEOREM GraphNodesStayLicensed == GraphSpec => []RunningNodesAreLicensed
  <1>1. GraphInv => RunningNodesAreLicensed
    BY DEF GraphInv, RowsLicensed, Licensed, MayStart, RunningNodesAreLicensed, StartsFollowDependencies,
           NodesWithinLimit
  <1> QED
    BY <1>1, GraphInvariant, PTL

\* The journal is contiguous, and a replay of it rebuilds the latest version unless a node
\* was superseded (apply_mutation, replay_graph).
THEOREM JournalStaysReplayable == GraphSpec => []JournalRebuildsGraph
  <1>1. GraphInv => JournalRebuildsGraph
    <2> SUFFICES ASSUME GraphInv PROVE JournalRebuildsGraph
      OBVIOUS
    <2>1. GraphsTyped /\ Chained /\ RowsTyped /\ RowsLicensed /\ done \subseteq Node
      BY DEF GraphInv
    <2>2. JournalIsContiguous
      BY <2>1 DEF Chained, GraphsTyped, JournalIsContiguous
    <2>3. ReplayFailsOnlyBySharing
      BY <2>1, ReplayRebuilds DEF ReplayFailsOnlyBySharing
    <2>4. GraphTypeOK
      <3>1. /\ Len(graphs) \in 1..(MaxVersion + 1) /\ Len(journal) = Version
        BY <2>1 DEF GraphsTyped
      <3>2. ASSUME NEW i \in DOMAIN graphs
            PROVE  /\ NodesOf(graphs[i]) \subseteq Node /\ graphs[i] = Stored(graphs[i])
                   /\ graphs[i].edge \subseteq NodesOf(graphs[i]) \X NodesOf(graphs[i])
                   /\ \A n \in NodesOf(graphs[i]) : DependsOn(graphs[i], n) \subseteq NodesOf(graphs[i])
        <4>1. PICK g \in StoredGraph : g = graphs[i]
          BY <2>1, SequenceIsFunction DEF GraphsTyped
        <4>2. PICK S \in SUBSET Node : S = NodesOf(g)
          BY StoredIsGraph
        <4>3. g \in GraphOver(S) /\ Stored(g) = g /\ \A n \in S : g.list[n] = n
          BY <4>2, StoredIsGraph
        <4>4. g.edge \subseteq S \X S /\ \A n \in S : DependsOn(g, n) \subseteq S
          BY <4>3 DEF GraphOver, DependsOn
        <4> QED
          BY <4>1, <4>2, <4>3, <4>4
      <3>3. row \in RunRow
        BY <2>1 DEF RowsTyped
      <3>4. /\ row.status \in RunStatus /\ row.verdict \in Verdicts
            /\ DOMAIN row.statuses \subseteq Node /\ \A n \in DOMAIN row.statuses : row.statuses[n] \in NodeStatus
            /\ row.active \subseteq Node /\ row.mutations \in 0..MaxMutations
            /\ row.spent \in 0..(Budget + 1) /\ \A n \in DOMAIN row.keys : row.keys[n] \in Key
            /\ row.used \subseteq Key /\ row.stall \in Nat
        BY <3>3, RowIsTyped
      <3>5. Cardinality(row.active) <= MaxWorkers
        BY <2>1 DEF RowsLicensed, Licensed
      <3>6. row.stall \in 0..(StallThreshold + Cardinality(Client))
        <4>1. PICK k \in Nat : k = Cardinality(Replied) /\ k <= Cardinality(Client)
          BY <2>1, RepliesAreCountable
        <4>2. row.stall <= StallThreshold + k
          BY <2>1, <4>1 DEF RowsLicensed, Patient
        <4>3. Cardinality(Client) \in Nat /\ StallThreshold \in Nat
          BY <2>1, RepliesAreCountable, GraphAssumption
        <4> QED
          BY <3>4, <4>1, <4>2, <4>3
      <3>7. RequestsTypeOK
        BY <2>1 DEF RowsTyped, RequestsTypeOK, Open, RunRequest
      <3> QED
        BY <2>1, <3>1, <3>2, <3>4, <3>5, <3>6, <3>7 DEF GraphTypeOK
    <2> QED
      BY <2>2, <2>3, <2>4 DEF JournalRebuildsGraph
  <1> QED
    BY <1>1, GraphInvariant, PTL

\* A request changes the verdict only to one that it computed itself.
LEMMA VerdictsAreWritten ==
    ASSUME GraphInv, NEW c \in Senders, NEW new, Write(c, new, {}), row'.verdict # row.verdict
    PROVE  row'.verdict = new.verdict /\ new.verdict # View(c).verdict
  <1>1. CASE c = Alone
    BY <1>1 DEF Write, View
  <1>2. CASE c # Alone
    <2>1. PICK read : read = View(c)
      OBVIOUS
    <2>2. row' = Merged(read, new, {}) /\ "verdict" \in DOMAIN row
      BY <1>2, <2>1 DEF Write, View, GraphInv, RowsTyped, RunRow
    <2>3. row'.verdict = IF new.verdict = read.verdict THEN row.verdict ELSE new.verdict
      BY <2>2 DEF Merged
    <2> QED
      BY <2>1, <2>3
  <1> QED
    BY <1>1, <1>2

LEMMA JudgedVerdict ==
    ASSUME NEW r, "verdict" \in DOMAIN r, NEW overdue
    PROVE  Judged(r, overdue).verdict \in {r.verdict, "LIMIT_EXCEEDED", "STALLED_NO_PROGRESS"}
  BY DEF Judged

\* Progress that finds every node completed or superseded changed the status of one, so
\* that the statuses it found are those that are written.
LEMMA ProgressEarnsEvidence ==
    ASSUME GraphInv, NEW c \in Senders, NEW nodes \in SUBSET Going(View(c)), nodes # {},
           NEW cost \in {0, 1}, NEW overdue \in BOOLEAN, TickProgress(c, nodes, cost, overdue),
           row'.verdict = "EVIDENCE_READY", row.verdict # "EVIDENCE_READY"
    PROVE  \A n \in DOMAIN row'.statuses : n \in done' \/ row'.statuses[n] = "SKIPPED"
  <1>1. PICK r : r = View(c)
    OBVIOUS
  <1>2. /\ r \in RunRow /\ Licensed(r, graphs, done) /\ done \in SUBSET Node /\ GraphsTyped
    BY <1>1, SendersAreLicensed DEF GraphInv
  <1>3. PICK told : told = Completed(Charged(r, cost), nodes)
    OBVIOUS
  <1>4. PICK s : s = Advanced(told)
    OBVIOUS
  <1>5. PICK new : new = Judged(s, overdue)
    OBVIOUS
  <1>6. Executing(r) /\ Write(c, new, {}) /\ done' = done \cup nodes
    BY <1>1, <1>3, <1>4, <1>5 DEF TickProgress
  <1>7. r.status # "NONE" /\ nodes \in SUBSET Going(r) /\ nodes # {}
    <2>1. nodes \in SUBSET Going(r)
      BY <1>1
    <2> QED
      BY <1>6, <2>1 DEF Executing
  <1>8. /\ s \in RunRow /\ Licensed(s, graphs, done \cup nodes) /\ s.status # "NONE"
        /\ s.statuses = told.statuses /\ told.verdict = r.verdict
        /\ told.statuses = Over([n \in nodes |-> "COMPLETED"], r.statuses)
        /\ s.verdict # r.verdict => Finished(told)
    BY <1>2, <1>3, <1>4, <1>7, ProgressIsLicensed
  <1>9. /\ new \in RunRow /\ new.statuses = s.statuses
        /\ new.verdict \in {s.verdict, "LIMIT_EXCEEDED", "STALLED_NO_PROGRESS"}
    BY <1>5, <1>8, JudgedIsRow
  <1>10. new.verdict = "EVIDENCE_READY" /\ new.verdict # r.verdict
    BY <1>1, <1>6, <1>9, VerdictsAreWritten
  <1>11. Finished(told)
    BY <1>8, <1>9, <1>10
  <1>12. new.statuses # r.statuses
    <2>1. PICK n \in nodes : n \in DOMAIN r.statuses /\ r.statuses[n] = "RUNNING"
      BY <1>7 DEF Going, In
    <2>2. new.statuses[n] = "COMPLETED"
      BY <1>8, <1>9, <2>1 DEF Over
    <2> QED
      BY <2>1, <2>2
  <1>13. row'.statuses = new.statuses
    <2>1. CASE c = Alone
      BY <1>6, <2>1 DEF Write
    <2>2. CASE c # Alone
      <3>1. row' = Merged(r, new, {}) /\ row \in RunRow
        BY <1>1, <1>6, <2>2 DEF Write, View, GraphInv, RowsTyped
      <3>2. "statuses" \in DOMAIN row
        BY <3>1 DEF RunRow
      <3> QED
        BY <1>12, <3>1, <3>2 DEF Merged
    <2> QED
      BY <2>1, <2>2
  <1>14. In(told, "COMPLETED") \subseteq done'
    BY <1>6, <1>8 DEF Licensed, In
  <1> QED
    BY <1>8, <1>9, <1>11, <1>13, <1>14 DEF Finished, In

\* Only a tick that found every node completed or superseded reports that the evidence is
\* ready (tick_deep_swarm).
THEOREM EvidenceStaysEarned == GraphSpec => EvidenceIsEarned
  <1> DEFINE Earned == row'.verdict = "EVIDENCE_READY" /\ row.verdict # "EVIDENCE_READY" =>
                          \A n \in DOMAIN row'.statuses : n \in done' \/ row'.statuses[n] = "SKIPPED"
  <1>1. GraphInv /\ [GraphNext]_graphVars => [Earned]_graphVars
    <2>1. SUFFICES ASSUME GraphInv, GraphNext, row'.verdict = "EVIDENCE_READY", row.verdict # "EVIDENCE_READY"
                   PROVE  \A n \in DOMAIN row'.statuses : n \in done' \/ row'.statuses[n] = "SKIPPED"
      OBVIOUS
    <2>2. ASSUME NEW c \in Senders, NEW r, r = View(c), NEW new, Write(c, new, {}),
                 new.verdict = r.verdict \/ new.verdict # "EVIDENCE_READY"
          PROVE  FALSE
      BY <2>1, <2>2, VerdictsAreWritten
    <2>3. \A c \in Senders : View(c) \in RunRow /\ "verdict" \in DOMAIN View(c)
      BY <2>1, SendersAreLicensed DEF RunRow
    <2>4. CASE Create
      <3>1. PICK known : known = [NoRun EXCEPT !.statuses = Latest.status]
        OBVIOUS
      <3>2. PICK verdict : verdict = IF Enabled /\ FallsBack THEN "FALLBACK" ELSE ""
        OBVIOUS
      <3>3. PICK standing, new : /\ new = [known EXCEPT !.status = standing, !.active = FirstReady(Latest, known, MaxWorkers),
                                                      !.verdict = verdict]
                               /\ Write(Alone, new, {})
        BY <2>4, <3>1, <3>2 DEF Create
      <3>4. verdict # "EVIDENCE_READY"
        BY <3>2
      <3>5. "verdict" \in DOMAIN known
        BY <3>1 DEF NoRun
      <3>6. new.verdict = verdict
        BY <3>3, <3>5
      <3>7. Alone \in Senders
        BY DEF Senders
      <3> QED
        BY <2>2, <3>3, <3>4, <3>6, <3>7
    <2>5. CASE \E c \in Client : Read(c, Version) /\ UNCHANGED <<graphs, journal, done>>
      BY <2>1, <2>5 DEF Read
    <2>6. CASE \E c \in Senders : Version < MaxVersion /\ \E m \in Mutations(GraphOf(c)) : Mutate(c, m)
      <3>a. PICK c \in Senders : \E g : NamesNoRun(c) \/ NamesRun(c, g)
        BY <2>6 DEF Mutate
      <3>1. PICK g : NamesNoRun(c) \/ NamesRun(c, g)
        BY <3>a
      <3>2. PICK r \in RunRow : r = View(c) /\ "verdict" \in DOMAIN r
        BY <2>3
      <3>3. CASE NamesNoRun(c)
        BY <2>2, <3>2, <3>3 DEF NamesNoRun
      <3>4. CASE NamesRun(c, g)
        <4>1. PICK told : told = [r EXCEPT !.statuses = Over(@, [n \in NodesOf(g) |-> "PENDING"]),
                                           !.mutations = @ + 1, !.status = "EXPANDING"]
          OBVIOUS
        <4>2. PICK new : new = [told EXCEPT !.active = FirstReady(g, told, MaxWorkers)]
          OBVIOUS
        <4>3. Write(c, new, {})
          BY <3>2, <3>4, <4>1, <4>2 DEF NamesRun
        <4>4. new.verdict = r.verdict
          BY <3>2, <4>1, <4>2
        <4> QED
          BY <2>2, <3>2, <4>3, <4>4
      <3> QED
        BY <3>1, <3>3, <3>4
    <2>7. CASE \E c \in Senders : Enable(c)
      <3>1. PICK c \in Senders : Enable(c)
        BY <2>7
      <3>2. PICK r \in RunRow : r = View(c) /\ "verdict" \in DOMAIN r
        BY <2>3
      <3>3. PICK new : Write(c, new, {}) /\ new.verdict = r.verdict
        BY <3>1, <3>2 DEF Enable
      <3> QED
        BY <2>2, <3>2, <3>3
    <2>8. CASE \E c \in Senders : Kill(c)
      <3>1. PICK c \in Senders : Kill(c)
        BY <2>8
      <3>2. PICK r \in RunRow : r = View(c) /\ "verdict" \in DOMAIN r
        BY <2>3
      <3>3. PICK new : new = [r EXCEPT !.status = "KILLED", !.verdict = "KILLED_BY_USER"]
        OBVIOUS
      <3>4. Write(c, new, {}) /\ new.verdict # "EVIDENCE_READY"
        BY <3>1, <3>2, <3>3 DEF Kill
      <3> QED
        BY <2>2, <3>2, <3>4
    <2>9. CASE \E c \in Senders, n \in Node : StartNode(c, n)
      <3>1. PICK c \in Senders, n \in Node : StartNode(c, n)
        BY <2>9
      <3>2. PICK r \in RunRow : r = View(c) /\ "verdict" \in DOMAIN r
        BY <2>3
      <3>3. PICK new : Write(c, new, {}) /\ new.verdict = r.verdict
        BY <3>1, <3>2 DEF StartNode
      <3> QED
        BY <2>2, <3>2, <3>3
    <2>10. CASE \E c \in Senders, cost \in {0, 1}, overdue \in BOOLEAN : TickIdle(c, cost, overdue)
      <3>1. PICK c \in Senders, cost \in {0, 1}, overdue \in BOOLEAN : TickIdle(c, cost, overdue)
        BY <2>10
      <3>2. PICK r \in RunRow : r = View(c) /\ "verdict" \in DOMAIN r
        BY <2>3
      <3>3. PICK s : s = [Charged(r, cost) EXCEPT !.stall = @ + 1]
        OBVIOUS
      <3>4. s.verdict = r.verdict /\ "verdict" \in DOMAIN s
        BY <3>2, <3>3 DEF Charged
      <3>5. PICK new : new = Judged(s, overdue)
        OBVIOUS
      <3>6. Write(c, new, {})
        BY <3>1, <3>2, <3>3, <3>5 DEF TickIdle
      <3>7. new.verdict \in {r.verdict, "LIMIT_EXCEEDED", "STALLED_NO_PROGRESS"}
        BY <3>4, <3>5, JudgedVerdict
      <3> QED
        BY <2>2, <3>2, <3>6, <3>7
    <2>11. CASE \E c \in Senders : \E nodes \in (SUBSET Going(View(c))) \ {{}}, cost \in {0, 1}, overdue \in BOOLEAN :
                  TickProgress(c, nodes, cost, overdue)
      BY <2>1, <2>11, ProgressEarnsEvidence
    <2>12. CASE \E c \in Senders, n \in Node, key \in Key : ClaimSideEffect(c, n, key)
      <3>1. PICK c \in Senders, n \in Node, key \in Key : ClaimSideEffect(c, n, key)
        BY <2>12
      <3>2. PICK r \in RunRow : r = View(c) /\ "verdict" \in DOMAIN r
        BY <2>3
      <3>3. PICK new : Write(c, new, {}) /\ new.verdict = r.verdict
        BY <3>1, <3>2 DEF ClaimSideEffect
      <3> QED
        BY <2>2, <3>2, <3>3
    <2>13. CASE \E c \in Senders, n \in Node : CompleteSideEffect(c, n)
      <3>1. PICK c \in Senders, n \in Node : CompleteSideEffect(c, n)
        BY <2>13
      <3>2. PICK r \in RunRow : r = View(c) /\ "verdict" \in DOMAIN r
        BY <2>3
      <3>3. PICK new : new = [Completed(r, {n}) EXCEPT !.used = @ \cup {KeyOf(r, n)}, !.active = @ \ {n}]
        OBVIOUS
      <3>4. Write(c, new, {})
        BY <3>1, <3>2, <3>3 DEF CompleteSideEffect
      <3>5. new.verdict = r.verdict
        BY <3>2, <3>3 DEF Completed
      <3> QED
        BY <2>2, <3>2, <3>4, <3>5
    <2>14. CASE \E c \in Senders : Reconcile(c)
      <3>1. PICK c \in Senders : Reconcile(c)
        BY <2>14
      <3>2. PICK r \in RunRow : r = View(c) /\ "verdict" \in DOMAIN r
        BY <2>3
      <3>3. PICK q : q = Requeued(r)
        OBVIOUS
      <3>4. q.verdict = r.verdict /\ "verdict" \in DOMAIN q
        BY <3>2, <3>3, RequeuedIsRow DEF RunRow
      <3>5. CASE Replayed(VersionOf(c))
        <4>1. PICK new : new = [q EXCEPT !.active = FirstReady(GraphOf(c), q, MaxWorkers),
                                         !.status = IF @ = "EXPANDING" THEN "RUNNING" ELSE @]
          OBVIOUS
        <4>2. Write(c, new, {})
          BY <3>1, <3>2, <3>3, <3>5, <4>1 DEF Reconcile
        <4>3. new.verdict = q.verdict
          BY <3>4, <4>1
        <4> QED
          BY <2>2, <3>2, <3>4, <4>2, <4>3
      <3>6. CASE ~Replayed(VersionOf(c))
        <4>1. PICK new : new = [r EXCEPT !.status = "FAILED", !.verdict = "ESCALATED"]
          OBVIOUS
        <4>2. Write(c, new, {})
          BY <3>1, <3>2, <3>6, <4>1 DEF Reconcile
        <4>3. new.verdict # "EVIDENCE_READY"
          BY <3>2, <4>1
        <4> QED
          BY <2>2, <3>2, <4>2, <4>3
      <3> QED
        BY <3>5, <3>6
    <2> QED
      BY <2>1, <2>4, <2>5, <2>6, <2>7, <2>8, <2>9, <2>10, <2>11, <2>12, <2>13, <2>14 DEF GraphNext
  <1> QED
    BY <1>1, GraphInvariant, PTL DEF GraphSpec, EvidenceIsEarned
=============================================================================
