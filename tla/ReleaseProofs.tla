--------------------------- MODULE ReleaseProofs ----------------------------
(***************************************************************************)
(* Theorems about the promotion of releases, for every set of tasks and of *)
(* operators and any number of processes that are killed: the records      *)
(* agree, a completion is tested, and a merge is licensed.                 *)
(*                                                                         *)
(* The inductive invariant says what a promotion may still rely on of what *)
(* it has read: that a release was completed, that a branch was merged and *)
(* that a request was decided is never undone, and that nobody merges      *)
(* while it holds the lock of the run.                                     *)
(***************************************************************************)
EXTENDS ReleasePromotion, TLAPS, WellFoundedInduction

Request == [branches : SUBSET Task, keyed : BOOLEAN, status : Decision \cup {"PENDING"}]
Step == {"idle", "over", "started", "passed", "BLOCKED", "WAITING_HUMAN_APPROVAL",
         "READY_TO_MERGE", "merging", "tested", "marked"}
Job == [step : Step, run : Row, flushed : Release, branches : SUBSET Task,
        merged : SUBSET Task, tester : SUBSET Task, auditor : SUBSET Task]

(* What a record of a release says is so.                                   *)
Known(release, done, merged, requests) ==
    /\ release.state = "COMPLETED" => done
    /\ release.merged \subseteq merged
    /\ release.state = "WAITING_HUMAN_APPROVAL" =>
          /\ release.approval \in DOMAIN requests
          /\ requests[release.approval].branches = release.branches

HasApproved(requests, branches) ==
    \E i \in DOMAIN requests : requests[i].status = "APPROVED" /\ requests[i].branches = branches

(* What the job of promoter p says is so, and where its lock is held.       *)
Honest(p, j, done, merged, requests, holder) ==
    /\ Known(j.run.release, done, merged, requests)
    /\ Known(j.flushed, done, merged, requests)
    /\ j.step \in {"merging", "tested"} => holder = p
    /\ j.step = "merging" => j.merged \subseteq merged
    /\ j.step = "tested" => j.tester = merged /\ j.branches \subseteq merged
    /\ j.step = "passed" =>
          \/ done
          \/ holder = p /\ j.tester = merged /\ j.auditor = merged /\ j.branches \subseteq merged
    /\ j.step = "marked" => done
    /\ p = Scheduler /\ ~FullAccess /\ j.step \in {"READY_TO_MERGE", "merging"} =>
          HasApproved(requests, j.branches)

ReleaseInv ==
    /\ ReleaseTypeOK
    /\ approvals \in Seq(Request)
    /\ job \in [Promoter -> Job]
    /\ RunEndsAfterGoal
    /\ Known(run.release, goalDone, main, approvals)
    /\ \A p \in Promoter : Honest(p, job[p], goalDone, main, approvals, lock)

-----------------------------------------------------------------------------
(* The newest of some requests is one of them. *)

LEMMA LeastOfNaturals ==
    ASSUME NEW S, S \subseteq Nat, S # {}
    PROVE  \E x \in S : \A y \in S : x <= y
  <1> DEFINE R == OpToRel(<, Nat)
  <1>1. IsWellFoundedOn(R, Nat)
    BY NatLessThanWellFounded
  <1>2. PICK x \in S : \A y \in S : <<y, x>> \notin R
    <2> HIDE DEF R
    <2> QED
      BY <1>1, WFMin
  <1>3. \A y \in S : ~(y < x)
    BY <1>2 DEF OpToRel
  <1> QED
    BY <1>3

LEMMA NewestIsMember ==
    ASSUME NEW n \in Nat, NEW S, S \subseteq 1 .. n, S # {}
    PROVE  Max(S) \in S
  <1> DEFINE D == {n - x : x \in S}
  <1>1. D \subseteq Nat
    <2>1. \A x \in S : n - x \in Nat
      OBVIOUS
    <2> QED
      BY <2>1
  <1>2. D # {}
    OBVIOUS
  <1>3. PICK d \in D : \A e \in D : d <= e
    <2> HIDE DEF D
    <2> QED
      BY <1>1, <1>2, LeastOfNaturals
  <1>4. PICK x \in S : d = n - x
    OBVIOUS
  <1>5. ASSUME NEW y \in S PROVE x >= y
    <2>1. n - y \in D /\ x \in Nat /\ y \in Nat
      OBVIOUS
    <2>2. n - x <= n - y
      BY <1>3, <1>4, <2>1
    <2> QED
      BY <2>1, <2>2
  <1> QED
    BY <1>5 DEF Max

LEMMA LeastBranchIsMember ==
    ASSUME NEW S, S \subseteq Nat, S # {}
    PROVE  Min(S) \in S
  BY LeastOfNaturals DEF Min

\* The request that a promotion finds for its branches is for these branches.
LEMMA ReleaseApprovalFinds ==
    ASSUME approvals \in Seq(Request), Len(approvals) <= MaxApprovals,
           NEW branches, ReleaseApproval(branches) # 0
    PROVE  /\ ReleaseApproval(branches) \in DOMAIN approvals
           /\ approvals[ReleaseApproval(branches)].branches = branches
           /\ ReleaseApproval(branches) \in 0 .. MaxApprovals
  <1> DEFINE found == {i \in DOMAIN approvals :
                          approvals[i].keyed /\ approvals[i].branches = branches}
  <1>1. found # {} /\ ReleaseApproval(branches) = Max(found)
    BY DEF ReleaseApproval
  <1>2. DOMAIN approvals = 1 .. Len(approvals) /\ Len(approvals) \in Nat
    OBVIOUS
  <1>3. Max(found) \in found
    BY <1>1, <1>2, NewestIsMember
  <1> QED
    BY <1>1, <1>2, <1>3, ReleaseAssumption DEF ReleaseAssumption

\* So is the request that an approving command decides a request.
LEMMA ToApproveIsNumber ==
    ASSUME ReleaseInv
    PROVE  ToApprove \in 0 .. MaxApprovals
  <1> DEFINE pending == {i \in DOMAIN approvals : approvals[i].status = "PENDING"}
  <1>1. /\ DOMAIN approvals = 1 .. Len(approvals) /\ Len(approvals) \in Nat
        /\ Len(approvals) <= MaxApprovals /\ MaxApprovals \in Nat
        /\ run.release.approval \in 0 .. MaxApprovals
    BY ReleaseAssumption DEF ReleaseAssumption, ReleaseInv, ReleaseTypeOK, Row, Release
  <1>2. pending # {} => Max(pending) \in pending
    BY <1>1, NewestIsMember
  <1> QED
    BY <1>1, <1>2 DEF ToApprove

-----------------------------------------------------------------------------
(* What was so stays so. *)

\* Requests are added and decided, and never undone.
Grown(requests, later) ==
    /\ DOMAIN requests \subseteq DOMAIN later
    /\ \A i \in DOMAIN requests :
          /\ later[i].branches = requests[i].branches
          /\ requests[i].status = "APPROVED" => later[i].status = "APPROVED"

LEMMA KnownStays ==
    ASSUME NEW release, NEW done, NEW merged, NEW requests,
           NEW doneLater, NEW mergedLater, NEW later,
           Known(release, done, merged, requests),
           done => doneLater, merged \subseteq mergedLater, Grown(requests, later)
    PROVE  Known(release, doneLater, mergedLater, later)
  BY DEF Known, Grown

\* A job that is left alone stays honest, when nobody merges under its lock.
LEMMA HonestStays ==
    ASSUME NEW p, NEW j, NEW done, NEW merged, NEW requests, NEW holder,
           NEW doneLater, NEW mergedLater, NEW later, NEW holderLater,
           Honest(p, j, done, merged, requests, holder),
           done => doneLater, merged \subseteq mergedLater, Grown(requests, later),
           holder = p => holderLater = p /\ mergedLater = merged
    PROVE  Honest(p, j, doneLater, mergedLater, later, holderLater)
  <1>1. /\ Known(j.run.release, doneLater, mergedLater, later)
        /\ Known(j.flushed, doneLater, mergedLater, later)
    BY KnownStays DEF Honest
  <1>2. HasApproved(requests, j.branches) => HasApproved(later, j.branches)
    BY DEF HasApproved, Grown
  <1> QED
    BY <1>1, <1>2 DEF Honest

LEMMA SameGrown == Grown(approvals, approvals)
  BY DEF Grown

LEMMA NothingIsKnown ==
    ASSUME NEW done, NEW merged, NEW requests
    PROVE  Known(NoRelease, done, merged, requests)
  BY DEF Known, NoRelease

\* A promoter that has nothing, or is over, is honest.
LEMMA IdleIsHonest ==
    ASSUME NEW p, NEW step \in {"idle", "over"}, NEW done, NEW merged, NEW requests, NEW holder
    PROVE  /\ [Idle EXCEPT !.step = step] \in Job
           /\ Honest(p, [Idle EXCEPT !.step = step], done, merged, requests, holder)
  <1>1. NoRelease \in Release
    BY ReleaseAssumption DEF ReleaseAssumption, NoRelease, Release, State
  <1>2. Idle \in Job
    BY <1>1 DEF Idle, Job, Step, Row, RunStatus
  <1>3. /\ [Idle EXCEPT !.step = step].step = step
        /\ [Idle EXCEPT !.step = step].run.release = NoRelease
        /\ [Idle EXCEPT !.step = step].flushed = NoRelease
        /\ [Idle EXCEPT !.step = step].branches = {}
    BY DEF Idle
  <1>4. [Idle EXCEPT !.step = step] \in Job
    BY <1>2 DEF Job, Step
  <1> QED
    BY <1>3, <1>4, NothingIsKnown DEF Honest

LEMMA InitInv == Init => ReleaseInv
  <1> SUFFICES ASSUME Init PROVE ReleaseInv
    OBVIOUS
  <1>1. Idle = [Idle EXCEPT !.step = "idle"]
    BY DEF Idle
  <1>2. \A p \in Promoter : /\ job[p] \in Job
                            /\ Honest(p, job[p], goalDone, main, approvals, lock)
    BY <1>1, IdleIsHonest DEF Init
  <1>3. NoRelease \in Release
    BY ReleaseAssumption DEF ReleaseAssumption, NoRelease, Release, State
  <1>4. ReleaseTypeOK
    <2>1. run \in Row
      BY <1>3 DEF Init, Row, RunStatus
    <2>2. Len(approvals) <= MaxApprovals /\ DOMAIN approvals = {} /\ crashes \in 0 .. MaxCrashes
      BY ReleaseAssumption DEF ReleaseAssumption, Init
    <2> QED
      BY <2>1, <2>2 DEF Init, ReleaseTypeOK, TaskStatus
  <1>5. RunEndsAfterGoal /\ Known(run.release, goalDone, main, approvals)
    BY NothingIsKnown DEF Init, RunEndsAfterGoal
  <1>6. approvals \in Seq(Request) /\ job \in [Promoter -> Job]
    BY <1>2 DEF Init
  <1> QED
    BY <1>2, <1>4, <1>5, <1>6 DEF ReleaseInv

-----------------------------------------------------------------------------
(* One promoter's step: the others keep what they know. *)

LEMMA PromoterInv ==
    ASSUME ReleaseInv, NEW p \in Promoter, NEW j \in Job, job' = [job EXCEPT ![p] = j],
           Honest(p, j, goalDone', main', approvals', lock'),
           ReleaseTypeOK', approvals' \in Seq(Request), RunEndsAfterGoal',
           Known(run'.release, goalDone', main', approvals'),
           goalDone => goalDone', main \subseteq main', Grown(approvals, approvals'),
           \A q \in Promoter : q # p /\ lock = q => lock' = q /\ main' = main
    PROVE  ReleaseInv'
  <1>1. job' \in [Promoter -> Job]
    BY DEF ReleaseInv
  <1>2. ASSUME NEW q \in Promoter
        PROVE  Honest(q, job'[q], goalDone', main', approvals', lock')
    <2>1. CASE q = p
      BY <2>1 DEF ReleaseInv
    <2>2. CASE q # p
      <3>1. job'[q] = job[q] /\ Honest(q, job[q], goalDone, main, approvals, lock)
        BY <2>2 DEF ReleaseInv
      <3> QED
        BY <2>2, <3>1, HonestStays
    <2> QED
      BY <2>1, <2>2
  <1> QED
    BY <1>1, <1>2 DEF ReleaseInv

\* A promotion's own step that writes nothing but its job.
LEMMA OwnStepInv ==
    ASSUME ReleaseInv, NEW p \in Promoter, NEW j \in Job, job' = [job EXCEPT ![p] = j],
           Honest(p, j, goalDone, main, approvals, lock),
           UNCHANGED <<task, main, approvals, run, lock, goalDone, crashes>>
    PROVE  ReleaseInv'
  <1>1. ReleaseTypeOK' /\ RunEndsAfterGoal' /\ approvals' \in Seq(Request)
    BY DEF ReleaseInv, ReleaseTypeOK, RunEndsAfterGoal
  <1>2. Known(run'.release, goalDone', main', approvals')
    BY DEF ReleaseInv
  <1> QED
    BY <1>1, <1>2, SameGrown, PromoterInv

\* The world's steps leave the promotions alone.
LEMMA WorldInv ==
    ASSUME ReleaseInv, World
    PROVE  ReleaseInv'
  <1>1. /\ UNCHANGED <<main, lock, job, goalDone, crashes>>
        /\ job' \in [Promoter -> Job]
    BY DEF World, ReviewPr, Rework, CommandRun, DecideApproval, ReleaseInv
  <1>2. Grown(approvals, approvals') /\ approvals' \in Seq(Request)
        /\ Len(approvals') = Len(approvals)
    <2>1. CASE approvals' = approvals
      BY <2>1, SameGrown DEF ReleaseInv
    <2>2. ASSUME NEW i \in DOMAIN approvals, DecideApproval(i)
          PROVE  Grown(approvals, approvals') /\ approvals' \in Seq(Request)
                 /\ Len(approvals') = Len(approvals)
      <3>1. PICK d \in Decision :
               approvals' = [approvals EXCEPT ![i].status = d, ![i].keyed = FALSE]
        BY <2>2 DEF DecideApproval
      <3>2. approvals \in Seq(Request) /\ approvals[i] \in Request /\ approvals[i].status = "PENDING"
        BY <2>2 DEF ReleaseInv, DecideApproval
      <3> DEFINE new == [[approvals[i] EXCEPT !.status = d] EXCEPT !.keyed = FALSE]
      <3>3. new \in Request /\ new.branches = approvals[i].branches
        BY <3>2 DEF Request
      <3>4. approvals' = [approvals EXCEPT ![i] = new]
        BY <3>1, <3>2
      <3> HIDE DEF new
      <3>5. approvals' \in Seq(Request) /\ Len(approvals') = Len(approvals)
            /\ DOMAIN approvals' = DOMAIN approvals
        BY <3>2, <3>3, <3>4
      <3> QED
        BY <3>2, <3>3, <3>4, <3>5 DEF Grown
    <2> QED
      BY <2>1, <2>2 DEF World, ReviewPr, Rework, CommandRun
  <1>3. run'.release = run.release /\ run' \in Row
    <2>1. run \in Row
      BY DEF ReleaseInv, ReleaseTypeOK
    <2>2. CASE CommandRun
      <3>1. PICK s \in Command : run' = [run EXCEPT !.status = s]
        BY <2>2 DEF CommandRun
      <3>2. s \in RunStatus
        BY ReleaseAssumption DEF ReleaseAssumption, RunStatus
      <3> QED
        BY <2>1, <3>1, <3>2 DEF Row
    <2>3. CASE run' = run
      BY <2>1, <2>3
    <2> QED
      BY <2>2, <2>3 DEF World, ReviewPr, Rework, DecideApproval
  <1>4. RunEndsAfterGoal'
    <2>1. run \in Row /\ RunEndsAfterGoal
      BY DEF ReleaseInv, ReleaseTypeOK
    <2>2. CASE CommandRun
      <3>1. PICK s \in Command : run' = [run EXCEPT !.status = s]
        BY <2>2 DEF CommandRun
      <3>2. s # "COMPLETED"
        BY ReleaseAssumption DEF ReleaseAssumption
      <3> QED
        BY <2>1, <3>1, <3>2 DEF Row, RunEndsAfterGoal
    <2>3. CASE run' = run
      BY <1>1, <2>1, <2>3 DEF RunEndsAfterGoal
    <2> QED
      BY <2>2, <2>3 DEF World, ReviewPr, Rework, DecideApproval
  <1>5. task' \in [Task -> TaskStatus]
    BY DEF World, ReviewPr, Rework, CommandRun, DecideApproval, ReleaseInv, ReleaseTypeOK,
           TaskStatus
  <1>6. ReleaseTypeOK'
    <2>1. \A i \in DOMAIN approvals' : approvals'[i] \in Request
      BY <1>2
    <2> QED
      BY <1>1, <1>2, <1>3, <1>5, <2>1 DEF ReleaseInv, ReleaseTypeOK, Request
  <1>7. Known(run'.release, goalDone', main', approvals')
    BY <1>1, <1>2, <1>3, KnownStays DEF ReleaseInv
  <1>8. \A p \in Promoter : Honest(p, job'[p], goalDone', main', approvals', lock')
    BY <1>1, <1>2, HonestStays DEF ReleaseInv
  <1> QED
    BY <1>1, <1>2, <1>4, <1>6, <1>7, <1>8 DEF ReleaseInv

-----------------------------------------------------------------------------
(* Starting a promotion. *)

LEMMA StartedIsHonest ==
    ASSUME NEW p, NEW read \in Row, NEW done, NEW merged, NEW requests, NEW holder,
           Known(read.release, done, merged, requests)
    PROVE  /\ Started(read) \in Job
           /\ Honest(p, Started(read), done, merged, requests, holder)
  <1>1. read.release \in Release
    BY DEF Row
  <1>2. Started(read) = [step |-> "started", run |-> read, flushed |-> read.release,
                         branches |-> {}, merged |-> {}, tester |-> {}, auditor |-> {}]
    <2> DEFINE J(s, r, f) == [step |-> s, run |-> r, flushed |-> f, branches |-> {},
                              merged |-> {}, tester |-> {}, auditor |-> {}]
               before == Idle.run
    <2>1. Idle = J("idle", before, NoRelease)
      BY DEF Idle
    <2>2. /\ [J("idle", before, NoRelease) EXCEPT !.step = "started"]
                = J("started", before, NoRelease)
          /\ [J("started", before, NoRelease) EXCEPT !.run = read] = J("started", read, NoRelease)
          /\ [J("started", read, NoRelease) EXCEPT !.flushed = read.release]
                = J("started", read, read.release)
      OBVIOUS
    <2> HIDE DEF J
    <2>3. Started(read) = J("started", read, read.release)
      BY <2>1, <2>2 DEF Started
    <2> QED
      BY <2>3 DEF J
  <1>3. Started(read) \in Job
    BY <1>1, <1>2 DEF Job, Step
  <1> QED
    BY <1>2, <1>3 DEF Honest

LEMMA SchedulerStartsInv ==
    ASSUME ReleaseInv, SchedulerStarts
    PROVE  ReleaseInv'
  <1>1. Scheduler \in Promoter
    BY DEF Promoter
  <1>2. /\ Started(run) \in Job
        /\ Honest(Scheduler, Started(run), goalDone, main, approvals, lock)
    BY StartedIsHonest DEF ReleaseInv, ReleaseTypeOK
  <1> QED
    BY <1>1, <1>2, OwnStepInv DEF SchedulerStarts

\* The request that is approved is the one that a waiting record names.
LEMMA ApproveInv ==
    ASSUME ReleaseInv, NEW a \in Approver, Approve(a)
    PROVE  ReleaseInv'
  <1> DEFINE i == ToApprove
             release == [run.release EXCEPT !.approval = i, !.granted = TRUE]
             granted == [status |-> "RUNNING", release |-> release]
  <1>1. a \in Promoter
    BY DEF Promoter
  <1>2. /\ i # 0 /\ run' = granted /\ lock = Nobody /\ job' = [job EXCEPT ![a] = Started(granted)]
        /\ UNCHANGED <<task, main, lock, goalDone, crashes>>
        /\ approvals' = IF approvals[i].status = "PENDING"
                        THEN [approvals EXCEPT ![i].status = "APPROVED"] ELSE approvals
    BY DEF Approve
  <1>3. i \in 0 .. MaxApprovals
    BY ToApproveIsNumber
  <1>4. run.release \in Release /\ approvals \in Seq(Request)
    BY DEF ReleaseInv, ReleaseTypeOK, Row
  <1>5. /\ release \in Release /\ release.state = run.release.state
        /\ release.merged = run.release.merged /\ release.branches = run.release.branches
        /\ release.approval = i
    BY <1>3, <1>4 DEF Release
  <1>6. granted \in Row /\ granted.release = release
    BY <1>5 DEF Row, RunStatus
  <1>7. /\ approvals' \in Seq(Request) /\ Len(approvals') = Len(approvals)
        /\ Grown(approvals, approvals')
    <2>1. CASE approvals' = approvals
      BY <1>4, <2>1, SameGrown
    <2>2. CASE i \in DOMAIN approvals /\ approvals' = [approvals EXCEPT ![i].status = "APPROVED"]
      <3>1. approvals[i] \in Request
        BY <1>4, <2>2
      <3>2. /\ [approvals[i] EXCEPT !.status = "APPROVED"] \in Request
            /\ [approvals[i] EXCEPT !.status = "APPROVED"].branches = approvals[i].branches
            /\ [approvals[i] EXCEPT !.status = "APPROVED"].status = "APPROVED"
        BY <3>1 DEF Request, Decision
      <3>3. /\ approvals' \in Seq(Request) /\ Len(approvals') = Len(approvals)
            /\ DOMAIN approvals' = DOMAIN approvals
        BY <1>4, <2>2, <3>2
      <3> QED
        BY <1>4, <2>2, <3>2, <3>3 DEF Grown
    <2>3. CASE i \notin DOMAIN approvals /\ approvals' = [approvals EXCEPT ![i].status = "APPROVED"]
      <3>1. approvals' = approvals
        BY <1>4, <2>3
      <3> QED
        BY <2>1, <3>1
    <2> QED
      BY <1>2, <2>1, <2>2, <2>3
  <1>8. Known(release, goalDone, main, approvals)
    <2>1. Known(run.release, goalDone, main, approvals)
      BY DEF ReleaseInv
    <2>2. run.release.state = "WAITING_HUMAN_APPROVAL" => i = run.release.approval
      <3>1. DOMAIN approvals = 1 .. Len(approvals) /\ Len(approvals) \in Nat
        BY <1>4
      <3> QED
        BY <2>1, <3>1 DEF Known, ToApprove
    <2> HIDE DEF i, release
    <2> QED
      BY <1>5, <2>1, <2>2 DEF Known
  <1> HIDE DEF i, release, granted
  <1>9. Known(release, goalDone', main', approvals')
    BY <1>2, <1>7, <1>8, KnownStays
  <1>10. /\ Started(granted) \in Job
         /\ Honest(a, Started(granted), goalDone', main', approvals', lock')
    BY <1>6, <1>9, StartedIsHonest
  <1>11. run'.release = release /\ run' \in Row
    BY <1>2, <1>6
  <1>12. ReleaseTypeOK'
    <2>1. \A k \in DOMAIN approvals' : approvals'[k] \in Request
      BY <1>7
    <2> QED
      BY <1>2, <1>7, <1>11, <2>1 DEF ReleaseInv, ReleaseTypeOK, Request
  <1>13. RunEndsAfterGoal'
    BY <1>2 DEF granted, RunEndsAfterGoal
  <1> QED
    BY <1>1, <1>2, <1>7, <1>9, <1>10, <1>11, <1>12, <1>13, PromoterInv

\* A plan that may go on was granted; one that calls itself done was.
LEMMA PlanInv ==
    ASSUME ReleaseInv, NEW p \in Promoter, Plan(p)
    PROVE  ReleaseInv'
  <1>1. PICK clean \in BOOLEAN :
           job' = [job EXCEPT ![p].step = IF job[p].run.release.state = "COMPLETED" THEN "passed"
                                          ELSE ReleasePlan(p, clean),
                              ![p].branches = TaskBranches]
    BY DEF Plan
  <1> DEFINE step == IF job[p].run.release.state = "COMPLETED" THEN "passed"
                     ELSE ReleasePlan(p, clean)
             j == [[job[p] EXCEPT !.step = step] EXCEPT !.branches = TaskBranches]
  <1>2. job[p] \in Job /\ Honest(p, job[p], goalDone, main, approvals, lock)
    BY DEF ReleaseInv
  <1>3. step \in {"passed", "BLOCKED", "WAITING_HUMAN_APPROVAL", "READY_TO_MERGE"}
    BY DEF ReleasePlan
  <1>4. TaskBranches \subseteq Task
    BY DEF TaskBranches
  <1>5. step = "passed" => goalDone
    BY <1>2 DEF Honest, Known, ReleasePlan
  <1>6. p = Scheduler /\ ~FullAccess /\ step = "READY_TO_MERGE" =>
           HasApproved(approvals, TaskBranches)
    <2> SUFFICES ASSUME p = Scheduler, ~FullAccess, step = "READY_TO_MERGE"
                 PROVE  HasApproved(approvals, TaskBranches)
      OBVIOUS
    <2>1. Granted(p)
      BY DEF ReleasePlan
    <2>2. /\ ReleaseApproval(TaskBranches) # 0
          /\ approvals[ReleaseApproval(TaskBranches)].status = "APPROVED"
      BY <2>1 DEF Granted
    <2>3. /\ ReleaseApproval(TaskBranches) \in DOMAIN approvals
          /\ approvals[ReleaseApproval(TaskBranches)].branches = TaskBranches
      BY <2>2, ReleaseApprovalFinds DEF ReleaseInv, ReleaseTypeOK
    <2> QED
      BY <2>2, <2>3 DEF HasApproved
  <1> HIDE DEF step
  <1>7. j \in Job /\ j.step = step /\ j.branches = TaskBranches /\ j.run = job[p].run
        /\ j.flushed = job[p].flushed
    BY <1>2, <1>3, <1>4 DEF Job, Step
  <1>8. Honest(p, j, goalDone, main, approvals, lock)
    <2> HIDE DEF j
    <2> QED
      BY <1>2, <1>3, <1>5, <1>6, <1>7 DEF Honest
  <1>9. job' = [job EXCEPT ![p] = j]
    BY <1>1 DEF ReleaseInv, step
  <1>10. UNCHANGED <<task, main, approvals, run, lock, goalDone, crashes>>
    BY DEF Plan
  <1> HIDE DEF j
  <1> QED
    BY <1>7, <1>8, <1>9, <1>10, OwnStepInv

-----------------------------------------------------------------------------
(* Ending a promotion. *)

LEMMA EndedIsHonest ==
    ASSUME NEW p \in Promoter, NEW done, NEW merged, NEW requests, NEW holder
    PROVE  \E j \in Job : /\ Ended(p) = [job EXCEPT ![p] = j]
                          /\ Honest(p, j, done, merged, requests, holder)
  <1> DEFINE step == IF p = Scheduler THEN "idle" ELSE "over"
  <1>1. step \in {"idle", "over"} /\ Ended(p) = [job EXCEPT ![p] = [Idle EXCEPT !.step = step]]
    BY DEF Ended
  <1> HIDE DEF step
  <1> QED
    BY <1>1, IdleIsHonest

\* The lock is given back, if it was this promotion's.
LEMMA LeavesInv ==
    ASSUME ReleaseInv, NEW p \in Promoter, job' = Ended(p),
           lock' = IF lock = p THEN Nobody ELSE lock,
           UNCHANGED <<task, main, approvals, run, goalDone>>, crashes' \in 0 .. MaxCrashes
    PROVE  ReleaseInv'
  <1>1. PICK j \in Job : /\ Ended(p) = [job EXCEPT ![p] = j]
                         /\ Honest(p, j, goalDone', main', approvals', lock')
    BY EndedIsHonest
  <1>2. /\ ReleaseTypeOK' /\ RunEndsAfterGoal' /\ approvals' \in Seq(Request)
        /\ Known(run'.release, goalDone', main', approvals')
    BY DEF ReleaseInv, ReleaseTypeOK, RunEndsAfterGoal
  <1> QED
    BY <1>1, <1>2, SameGrown, PromoterInv

LEMMA FinishedInv ==
    ASSUME ReleaseInv, NEW p \in Promoter, NEW status \in RunStatus, NEW release \in Release,
           Finished(p, status, release), lock \in {p, Nobody},
           Known(release, goalDone, main, approvals'), status = "COMPLETED" => goalDone,
           Grown(approvals, approvals'), approvals' \in Seq(Request),
           Len(approvals') <= MaxApprovals, UNCHANGED <<task, main, goalDone, crashes>>
    PROVE  ReleaseInv'
  <1>1. PICK j \in Job : /\ Ended(p) = [job EXCEPT ![p] = j]
                         /\ Honest(p, j, goalDone', main', approvals', lock')
    BY EndedIsHonest
  <1>2. job' = [job EXCEPT ![p] = j] /\ lock' = Nobody
    BY <1>1 DEF Finished
  <1> DEFINE s == Column(job[p].run.status, status, run.status)
  <1>3. run' = [status |-> s, release |-> release]
    BY DEF Finished
  <1>4. s \in {status, run.status} /\ run \in Row
    BY DEF Column, ReleaseInv, ReleaseTypeOK
  <1> HIDE DEF s
  <1>5. run' \in Row /\ run'.release = release /\ run'.status = s
    BY <1>3, <1>4 DEF Row
  <1>6. RunEndsAfterGoal'
    BY <1>4, <1>5 DEF ReleaseInv, RunEndsAfterGoal
  <1>7. ReleaseTypeOK'
    <2>1. \A k \in DOMAIN approvals' : approvals'[k] \in Request
      OBVIOUS
    <2> QED
      BY <1>2, <1>5, <2>1 DEF ReleaseInv, ReleaseTypeOK, Request
  <1>8. \A q \in Promoter : q # p => lock # q
    BY ReleaseAssumption DEF ReleaseAssumption
  <1> QED
    BY <1>1, <1>2, <1>5, <1>6, <1>7, <1>8, PromoterInv

\* What is written at the end is what was read or flushed, with a true state.
LEMMA FinalReleaseIsKnown ==
    ASSUME ReleaseInv, NEW p \in Promoter, NEW state \in {"BLOCKED", "COMPLETED"},
           state = "COMPLETED" => goalDone
    PROVE  /\ FinalRelease(p, state) \in Release
           /\ Known(FinalRelease(p, state), goalDone, main, approvals)
  <1>1. job[p] \in Job /\ Honest(p, job[p], goalDone, main, approvals, lock)
    BY DEF ReleaseInv
  <1>2. /\ job[p].run.release \in Release /\ job[p].flushed \in Release
        /\ Known(job[p].run.release, goalDone, main, approvals)
        /\ Known(job[p].flushed, goalDone, main, approvals)
    BY <1>1 DEF Honest, Job, Row
  <1>3. run.release \in Release /\ Known(run.release, goalDone, main, approvals)
    BY DEF ReleaseInv, ReleaseTypeOK, Row
  <1>4. ASSUME NEW release \in Release, Known(release, goalDone, main, approvals)
        PROVE  /\ [release EXCEPT !.state = state] \in Release
               /\ Known([release EXCEPT !.state = state], goalDone, main, approvals)
    <2>1. /\ [release EXCEPT !.state = state] \in Release
          /\ [release EXCEPT !.state = state].state = state
          /\ [release EXCEPT !.state = state].merged = release.merged
      BY DEF Release, State
    <2> QED
      BY <1>4, <2>1 DEF Known
  <1>5. CASE p = Scheduler
    BY <1>2, <1>4, <1>5 DEF FinalRelease
  <1>6. CASE p # Scheduler
    BY <1>2, <1>3, <1>6 DEF FinalRelease, Column
  <1> QED
    BY <1>5, <1>6

LEMMA BlockInv ==
    ASSUME ReleaseInv, NEW p \in Promoter, Block(p), lock = p
    PROVE  ReleaseInv'
  <1>1. /\ FinalRelease(p, "BLOCKED") \in Release
        /\ Known(FinalRelease(p, "BLOCKED"), goalDone, main, approvals)
    BY FinalReleaseIsKnown
  <1>2. "BLOCKED_NEEDS_HUMAN_REVIEW" \in RunStatus
    BY DEF RunStatus
  <1>3. approvals' = approvals /\ approvals \in Seq(Request) /\ Len(approvals) <= MaxApprovals
    BY DEF Block, ReleaseInv, ReleaseTypeOK
  <1> QED
    BY <1>1, <1>2, <1>3, SameGrown, FinishedInv DEF Block

LEMMA BlockPlanInv ==
    ASSUME ReleaseInv, NEW p \in Promoter, BlockPlan(p)
    PROVE  ReleaseInv'
  <1> DEFINE recorded == [[[[job[p].run.release EXCEPT !.state = "BLOCKED"]
                               EXCEPT !.approval = 0] EXCEPT !.granted = FALSE]
                               EXCEPT !.branches = job[p].branches]
             release == IF p = Scheduler THEN FinalRelease(p, "BLOCKED") ELSE recorded
  <1>1. /\ job[p].run.release \in Release /\ job[p].branches \subseteq Task
        /\ Known(job[p].run.release, goalDone, main, approvals)
    BY DEF ReleaseInv, Job, Row, Honest
  <1>2. /\ recorded \in Release /\ recorded.state = "BLOCKED"
        /\ recorded.merged = job[p].run.release.merged
    <2>1. 0 \in 0 .. MaxApprovals
      BY ReleaseAssumption DEF ReleaseAssumption
    <2> QED
      BY <1>1, <2>1 DEF Release, State
  <1> HIDE DEF recorded
  <1>3. Known(recorded, goalDone, main, approvals)
    BY <1>1, <1>2 DEF Known
  <1>4. release \in Release /\ Known(release, goalDone, main, approvals)
    BY <1>2, <1>3, FinalReleaseIsKnown
  <1>5. Finished(p, "BLOCKED_NEEDS_HUMAN_REVIEW", release) /\ lock = Nobody
    BY DEF BlockPlan, recorded
  <1>6. "BLOCKED_NEEDS_HUMAN_REVIEW" \in RunStatus
    BY DEF RunStatus
  <1>7. /\ approvals' = approvals /\ approvals \in Seq(Request) /\ Len(approvals) <= MaxApprovals
        /\ UNCHANGED <<task, main, goalDone, crashes>>
    BY DEF BlockPlan, ReleaseInv, ReleaseTypeOK
  <1> HIDE DEF release
  <1> QED
    BY <1>4, <1>5, <1>6, <1>7, SameGrown, FinishedInv

\* The record that waits names the request that was found or has just been made.
LEMMA WaitForApprovalInv ==
    ASSUME ReleaseInv, NEW p \in Promoter, WaitForApproval(p)
    PROVE  ReleaseInv'
  <1> DEFINE i == ReleaseApproval(job[p].branches)
             n == IF i # 0 THEN i ELSE Len(approvals) + 1
             request == [branches |-> job[p].branches, keyed |-> TRUE, status |-> "PENDING"]
             release == [[[[job[p].run.release EXCEPT !.state = "WAITING_HUMAN_APPROVAL"]
                              EXCEPT !.approval = n] EXCEPT !.granted = FALSE]
                              EXCEPT !.branches = job[p].branches]
  <1>1. /\ job[p].run.release \in Release /\ job[p].branches \subseteq Task
        /\ Known(job[p].run.release, goalDone, main, approvals)
    BY DEF ReleaseInv, Job, Row, Honest
  <1>2. approvals \in Seq(Request) /\ Len(approvals) \in Nat /\ Len(approvals) <= MaxApprovals
        /\ MaxApprovals \in Nat
    BY ReleaseAssumption DEF ReleaseAssumption, ReleaseInv, ReleaseTypeOK
  <1>3. i = 0 => Len(approvals) < MaxApprovals
    BY DEF WaitForApproval
  <1>4. i # 0 => i \in DOMAIN approvals /\ approvals[i].branches = job[p].branches
                 /\ i \in 0 .. MaxApprovals
    BY <1>2, ReleaseApprovalFinds
  <1>5. approvals' = IF i # 0 THEN approvals ELSE Append(approvals, request)
    BY DEF WaitForApproval
  <1>6. request \in Request /\ request.branches = job[p].branches
    BY <1>1 DEF Request
  <1> HIDE DEF i, request
  <1>7. /\ approvals' \in Seq(Request) /\ Len(approvals') <= MaxApprovals
        /\ Grown(approvals, approvals')
        /\ n \in DOMAIN approvals' /\ approvals'[n].branches = job[p].branches
        /\ n \in 0 .. MaxApprovals
    <2>1. CASE i # 0
      BY <1>2, <1>4, <1>5, <2>1, SameGrown
    <2>2. CASE i = 0
      <3>1. /\ approvals' = Append(approvals, request) /\ n = Len(approvals) + 1
            /\ n \in 0 .. MaxApprovals
        BY <1>2, <1>3, <1>5, <2>2
      <3>2. /\ approvals' \in Seq(Request) /\ Len(approvals') = Len(approvals) + 1
            /\ DOMAIN approvals' = 1 .. Len(approvals) + 1
            /\ DOMAIN approvals = 1 .. Len(approvals)
            /\ \A k \in DOMAIN approvals : approvals'[k] = approvals[k]
            /\ approvals'[Len(approvals) + 1] = request
        BY <1>2, <1>6, <3>1
      <3>3. Grown(approvals, approvals')
        BY <1>2, <3>2 DEF Grown
      <3> QED
        BY <1>2, <1>3, <1>6, <2>2, <3>1, <3>2, <3>3
    <2> QED
      BY <2>1, <2>2
  <1>8. Finished(p, "PAUSED", release) /\ lock = Nobody /\ UNCHANGED <<task, main, goalDone, crashes>>
    BY DEF WaitForApproval, i
  <1> HIDE DEF n
  <1>9. /\ release \in Release /\ release.state = "WAITING_HUMAN_APPROVAL"
        /\ release.merged = job[p].run.release.merged
        /\ release.approval = n /\ release.branches = job[p].branches
    BY <1>1, <1>7 DEF Release, State
  <1> HIDE DEF release
  <1>10. Known(release, goalDone, main, approvals')
    BY <1>1, <1>7, <1>9 DEF Known
  <1>11. "PAUSED" \in RunStatus
    BY DEF RunStatus
  <1> QED
    BY <1>7, <1>8, <1>9, <1>10, <1>11, FinishedInv

LEMMA CompleteInv ==
    ASSUME ReleaseInv, NEW p \in Promoter, Complete(p)
    PROVE  ReleaseInv'
  <1>1. goalDone
    BY DEF Complete, ReleaseInv, Honest
  <1>2. /\ FinalRelease(p, "COMPLETED") \in Release
        /\ Known(FinalRelease(p, "COMPLETED"), goalDone, main, approvals)
    BY <1>1, FinalReleaseIsKnown
  <1>3. "COMPLETED" \in RunStatus
    BY DEF RunStatus
  <1>4. approvals' = approvals /\ approvals \in Seq(Request) /\ Len(approvals) <= MaxApprovals
    BY DEF Complete, ReleaseInv, ReleaseTypeOK
  <1> QED
    BY <1>1, <1>2, <1>3, <1>4, SameGrown, FinishedInv DEF Complete

-----------------------------------------------------------------------------
(* Merging and testing. *)

LEMMA BeginMergeInv ==
    ASSUME ReleaseInv, NEW p \in Promoter, BeginMerge(p)
    PROVE  ReleaseInv'
  <1> DEFINE read == job[p].run.release
             byHuman == p # Scheduler \/ ~FullAccess
             release == [[[read EXCEPT !.state = "MERGING"] EXCEPT !.branches = job[p].branches]
                             EXCEPT !.granted = byHuman]
             j == [[[job[p] EXCEPT !.step = "merging"] EXCEPT !.merged = read.merged]
                      EXCEPT !.flushed = release]
  <1>1. /\ job[p] \in Job /\ Honest(p, job[p], goalDone, main, approvals, lock)
        /\ job[p].step = "READY_TO_MERGE" /\ lock = Nobody
    BY DEF ReleaseInv, BeginMerge
  <1>2. read \in Release /\ Known(read, goalDone, main, approvals) /\ job[p].branches \subseteq Task
    BY <1>1 DEF Honest, Job, Row
  <1>3. /\ job' = [job EXCEPT ![p] = j] /\ lock' = p
        /\ UNCHANGED <<task, main, approvals, run, goalDone, crashes>>
    BY DEF BeginMerge, ReleaseInv
  <1>4. byHuman \in BOOLEAN
    BY ReleaseAssumption DEF ReleaseAssumption
  <1> HIDE DEF byHuman
  <1>5. release \in Release /\ release.state = "MERGING" /\ release.merged = read.merged
    BY <1>2, <1>4 DEF Release, State
  <1> HIDE DEF release
  <1>6. Known(release, goalDone, main, approvals) /\ read.merged \subseteq main
    BY <1>2, <1>5 DEF Known
  <1>7. read.merged \subseteq Task
    BY <1>2 DEF Release
  <1>8. /\ j \in Job /\ j.step = "merging" /\ j.run = job[p].run /\ j.flushed = release
        /\ j.branches = job[p].branches /\ j.merged = read.merged
    BY <1>1, <1>5, <1>7 DEF Job, Step
  <1> HIDE DEF j
  <1>9. Honest(p, j, goalDone', main', approvals', lock')
    BY <1>1, <1>2, <1>3, <1>6, <1>8 DEF Honest
  <1>10. /\ ReleaseTypeOK' /\ RunEndsAfterGoal' /\ approvals' \in Seq(Request)
         /\ Known(run'.release, goalDone', main', approvals')
    BY <1>3 DEF ReleaseInv, ReleaseTypeOK, RunEndsAfterGoal
  <1>11. \A q \in Promoter : q # p => lock # q
    BY <1>1, ReleaseAssumption DEF ReleaseAssumption
  <1> QED
    BY <1>3, <1>8, <1>9, <1>10, <1>11, SameGrown, PromoterInv

LEMMA MergeBranchInv ==
    ASSUME ReleaseInv, NEW p \in Promoter, MergeBranch(p)
    PROVE  ReleaseInv'
  <1> DEFINE t == Min(Unmerged(p))
             j == [job[p] EXCEPT !.merged = job[p].merged \cup {t}]
  <1>1. /\ job[p] \in Job /\ Honest(p, job[p], goalDone, main, approvals, lock)
        /\ job[p].step = "merging" /\ lock = p
    BY DEF ReleaseInv, MergeBranch, Holds
  <1>2. t \in Task
    <2>1. Unmerged(p) \subseteq Task /\ Task \subseteq Nat /\ Unmerged(p) # {}
      BY <1>1, ReleaseAssumption DEF ReleaseAssumption, Unmerged, Job, MergeBranch
    <2> QED
      BY <2>1, LeastBranchIsMember
  <1>3. /\ main' = main \cup {t} /\ job' = [job EXCEPT ![p] = j]
        /\ UNCHANGED <<task, approvals, run, lock, goalDone, crashes>>
    BY DEF MergeBranch, ReleaseInv
  <1> HIDE DEF t
  <1>4. /\ j \in Job /\ j.step = "merging" /\ j.run = job[p].run /\ j.flushed = job[p].flushed
        /\ j.branches = job[p].branches /\ j.merged = job[p].merged \cup {t}
    BY <1>1, <1>2 DEF Job
  <1> HIDE DEF j
  <1>5. /\ Known(j.run.release, goalDone', main', approvals')
        /\ Known(j.flushed, goalDone', main', approvals')
        /\ Known(run'.release, goalDone', main', approvals')
    BY <1>1, <1>3, <1>4, SameGrown, KnownStays DEF Honest, ReleaseInv
  <1>6. Honest(p, j, goalDone', main', approvals', lock')
    BY <1>1, <1>3, <1>4, <1>5 DEF Honest
  <1>7. ReleaseTypeOK' /\ RunEndsAfterGoal' /\ approvals' \in Seq(Request)
    BY <1>2, <1>3 DEF ReleaseInv, ReleaseTypeOK, RunEndsAfterGoal
  <1> QED
    BY <1>1, <1>3, <1>4, <1>5, <1>6, <1>7, SameGrown, PromoterInv

\* Both agents look at the branch that the lock keeps still.
LEMMA AgentPassesInv ==
    ASSUME ReleaseInv, NEW p \in Promoter, TesterPasses(p) \/ SafetyAuditorPasses(p)
    PROVE  ReleaseInv'
  <1>1. /\ job[p] \in Job /\ Honest(p, job[p], goalDone, main, approvals, lock) /\ lock = p
        /\ main \subseteq Task
    BY DEF ReleaseInv, ReleaseTypeOK, TesterPasses, SafetyAuditorPasses, Holds
  <1>2. CASE TesterPasses(p)
    <2> DEFINE j == [[job[p] EXCEPT !.step = "tested"] EXCEPT !.tester = main]
    <2>1. /\ j \in Job /\ j.step = "tested" /\ j.run = job[p].run /\ j.flushed = job[p].flushed
          /\ j.branches = job[p].branches /\ j.tester = main
      BY <1>1 DEF Job, Step
    <2>2. job[p].branches \subseteq main
      BY <1>1, <1>2 DEF TesterPasses, Holds, Unmerged, Honest
    <2>3. job' = [job EXCEPT ![p] = j]
      BY <1>2 DEF TesterPasses, ReleaseInv
    <2> HIDE DEF j
    <2>4. Honest(p, j, goalDone, main, approvals, lock)
      BY <1>1, <2>1, <2>2 DEF Honest
    <2>5. UNCHANGED <<task, main, approvals, run, lock, goalDone, crashes>>
      BY <1>2 DEF TesterPasses
    <2> QED
      BY <2>1, <2>3, <2>4, <2>5, OwnStepInv
  <1>3. CASE SafetyAuditorPasses(p)
    <2> DEFINE j == [[job[p] EXCEPT !.step = "passed"] EXCEPT !.auditor = main]
    <2>1. /\ j \in Job /\ j.step = "passed" /\ j.run = job[p].run /\ j.flushed = job[p].flushed
          /\ j.branches = job[p].branches /\ j.tester = job[p].tester /\ j.auditor = main
      BY <1>1 DEF Job, Step
    <2>2. job[p].step = "tested"
      BY <1>3 DEF SafetyAuditorPasses, Holds
    <2>3. job' = [job EXCEPT ![p] = j]
      BY <1>3 DEF SafetyAuditorPasses, ReleaseInv
    <2> HIDE DEF j
    <2>4. Honest(p, j, goalDone, main, approvals, lock)
      BY <1>1, <2>1, <2>2 DEF Honest
    <2>5. UNCHANGED <<task, main, approvals, run, lock, goalDone, crashes>>
      BY <1>3 DEF SafetyAuditorPasses
    <2> QED
      BY <2>1, <2>3, <2>4, <2>5, OwnStepInv
  <1> QED
    BY <1>2, <1>3

LEMMA MarkReleaseCompletedInv ==
    ASSUME ReleaseInv, NEW p \in Promoter, MarkReleaseCompleted(p)
    PROVE  ReleaseInv'
  <1> DEFINE j == [job[p] EXCEPT !.step = "marked"]
  <1>1. job[p] \in Job /\ Honest(p, job[p], goalDone, main, approvals, lock)
    BY DEF ReleaseInv
  <1>2. /\ goalDone' = TRUE /\ job' = [job EXCEPT ![p] = j]
        /\ UNCHANGED <<task, main, approvals, run, lock, crashes>>
    BY DEF MarkReleaseCompleted
  <1>3. j \in Job /\ j.step = "marked" /\ j.run = job[p].run /\ j.flushed = job[p].flushed
    BY <1>1 DEF Job, Step
  <1> HIDE DEF j
  <1>4. /\ Known(j.run.release, goalDone', main', approvals')
        /\ Known(j.flushed, goalDone', main', approvals')
        /\ Known(run'.release, goalDone', main', approvals')
    BY <1>1, <1>2, <1>3, SameGrown, KnownStays DEF Honest, ReleaseInv
  <1>5. Honest(p, j, goalDone', main', approvals', lock')
    BY <1>2, <1>3, <1>4 DEF Honest
  <1>6. ReleaseTypeOK' /\ RunEndsAfterGoal' /\ approvals' \in Seq(Request)
    BY <1>2 DEF ReleaseInv, ReleaseTypeOK, RunEndsAfterGoal
  <1> QED
    BY <1>2, <1>3, <1>4, <1>5, <1>6, SameGrown, PromoterInv

-----------------------------------------------------------------------------
(* Every step keeps the invariant. *)

LEMMA PromoteInv ==
    ASSUME ReleaseInv, NEW p \in Promoter, Promote(p)
    PROVE  ReleaseInv'
  <1>1. CASE ReviewRefuses(p) \/ MergeFails(p) \/ AgentFails(p)
    BY <1>1, BlockInv DEF ReviewRefuses, MergeFails, AgentFails, Holds
  <1>2. CASE GoalRefuses(p)
    <2>1. crashes' \in 0 .. MaxCrashes
      BY <1>2 DEF GoalRefuses, ReleaseInv, ReleaseTypeOK
    <2> QED
      BY <1>2, <2>1, LeavesInv DEF GoalRefuses
  <1>3. CASE Dies(p)
    <2>1. crashes' \in 0 .. MaxCrashes
      BY <1>3, ReleaseAssumption DEF ReleaseAssumption, Dies, ReleaseInv, ReleaseTypeOK
    <2> QED
      BY <1>3, <2>1, LeavesInv DEF Dies
  <1> QED
    BY <1>1, <1>2, <1>3, PlanInv, WaitForApprovalInv, BlockPlanInv, BeginMergeInv,
       MergeBranchInv, AgentPassesInv, MarkReleaseCompletedInv, CompleteInv
    DEF Promote, UnderLock

LEMMA NextInv == ReleaseInv /\ [Next]_vars => ReleaseInv'
  <1> SUFFICES ASSUME ReleaseInv, [Next]_vars PROVE ReleaseInv'
    OBVIOUS
  <1>1. CASE UNCHANGED vars
    BY <1>1 DEF vars, ReleaseInv, ReleaseTypeOK, RunEndsAfterGoal
  <1> QED
    BY <1>1, WorldInv, SchedulerStartsInv, ApproveInv, PromoteInv DEF Next

LEMMA Invariant == Spec => []ReleaseInv
  BY InitInv, NextInv, PTL DEF Spec

-----------------------------------------------------------------------------

(* The row of the run, the goal and the requests for approval tell one      *)
(* story, whichever promotions overlap, fail half-way or are killed         *)
(* (promote_run, _complete, _wait_for_approval).                            *)
THEOREM RecordsStayAgreed == Spec => []RecordsAgree
  <1>1. ReleaseInv => RecordsAgree
    BY DEF ReleaseInv, RecordsAgree, Known, RequestNamesWhatWaits
  <1> QED
    BY <1>1, Invariant, PTL

(* The goal is completed by a promotion both of whose agents passed on what *)
(* the target branch holds now, with every branch of the plan in it.        *)
THEOREM CompletionsAreTested == Spec => CompletionIsTested
  <1>1. ASSUME ReleaseInv, [Next]_vars, goalDone' # goalDone
        PROVE  \E p \in Promoter :
                  /\ job[p].step = "passed" /\ job'[p].step = "marked"
                  /\ job[p].tester = main /\ job[p].auditor = main
                  /\ job[p].branches \subseteq main
    <2>1. PICK p \in Promoter : MarkReleaseCompleted(p)
      BY <1>1 DEF Next, vars, World, ReviewPr, Rework, CommandRun, DecideApproval,
         SchedulerStarts, Approve, Promote, Plan, WaitForApproval, BlockPlan, BeginMerge,
         UnderLock, ReviewRefuses, MergeFails, AgentFails, Block, MergeBranch, TesterPasses,
         SafetyAuditorPasses, GoalRefuses, Complete, Dies
    <2>2. job[p].step = "passed" /\ goalDone' = TRUE /\ job'[p].step = "marked"
      <3>1. job[p] \in Job /\ job' = [job EXCEPT ![p].step = "marked"]
        BY <1>1, <2>1 DEF MarkReleaseCompleted, ReleaseInv
      <3> QED
        BY <1>1, <2>1, <3>1 DEF MarkReleaseCompleted, ReleaseInv, Job
    <2>3. goalDone = FALSE
      BY <1>1, <2>2 DEF ReleaseInv, ReleaseTypeOK
    <2>4. Honest(p, job[p], goalDone, main, approvals, lock)
      BY <1>1 DEF ReleaseInv
    <2> QED
      BY <2>2, <2>3, <2>4 DEF Honest
  <1>2. ReleaseInv /\ [Next]_vars =>
           [goalDone' # goalDone =>
              \E p \in Promoter :
                 /\ job[p].step = "passed" /\ job'[p].step = "marked"
                 /\ job[p].tester = main /\ job[p].auditor = main
                 /\ job[p].branches \subseteq main]_vars
    BY <1>1
  <1> QED
    BY <1>2, Invariant, PTL DEF Spec, CompletionIsTested

(* In human_approval mode the scheduler merges only a set of branches whose *)
(* request an operator has approved as a whole.                             *)
THEOREM MergesStayLicensed == Spec => MergesAreLicensed
  <1>1. ASSUME ReleaseInv, [Next]_vars, main' # main
        PROVE  \/ FullAccess \/ lock \in Approver
               \/ \E i \in DOMAIN approvals : /\ approvals[i].status = "APPROVED"
                                              /\ approvals[i].branches = job[lock].branches
    <2>1. PICK p \in Promoter : MergeBranch(p)
      BY <1>1 DEF Next, vars, World, ReviewPr, Rework, CommandRun, DecideApproval,
         SchedulerStarts, Approve, Promote, Plan, WaitForApproval, BlockPlan, BeginMerge,
         UnderLock, ReviewRefuses, MergeFails, AgentFails, Block, TesterPasses,
         SafetyAuditorPasses, GoalRefuses, MarkReleaseCompleted, Complete, Dies
    <2>2. lock = p /\ job[p].step = "merging"
      BY <2>1 DEF MergeBranch, Holds
    <2>3. Honest(p, job[p], goalDone, main, approvals, lock)
      BY <1>1 DEF ReleaseInv
    <2>4. p \in Approver \/ p = Scheduler
      BY DEF Promoter
    <2> QED
      BY <2>2, <2>3, <2>4 DEF Honest, HasApproved
  <1>2. ReleaseInv /\ [Next]_vars =>
           [main' # main =>
              \/ FullAccess \/ lock \in Approver
              \/ \E i \in DOMAIN approvals : /\ approvals[i].status = "APPROVED"
                                             /\ approvals[i].branches = job[lock].branches]_vars
    BY <1>1
  <1> QED
    BY <1>2, Invariant, PTL DEF Spec, MergesAreLicensed

=============================================================================
