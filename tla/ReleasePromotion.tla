-------------------------- MODULE ReleasePromotion --------------------------
(***************************************************************************)
(* The promotion of a run's task branches to the target branch             *)
(* (services/release_promotion.py), started by the scheduler when all      *)
(* tasks have ended (services/scheduler.py) or by an operator who approves *)
(* it (cli/release.py, api/routes/release.py).  A promotion reads the run, *)
(* plans, and writes under the lock that the first UPDATE of the run takes *)
(* until its unit of work ends; the merges are made in the repository and  *)
(* survive a rollback.                                                     *)
(*                                                                         *)
(* A task stands for its branch; what a reworked branch holds, the         *)
(* evidence texts, the profiles and the name of the target branch are left *)
(* out.  Every run has a release policy, and the audit of the release tree *)
(* and the semantic review are one review that may refuse.                 *)
(***************************************************************************)
EXTENDS Sequences, FiniteSetsExt

CONSTANTS
    Task,           \* the tasks that the run has executed, numbered
    Approver,       \* the approving commands that operators send, each of them once
    FullAccess,     \* the promotion mode is full_access, not human_approval
    Reviewed,       \* the policy asks for the audit of the tree or the semantic review
    Command,        \* the statuses that pause, resume and stop write
    MaxApprovals,   \* bound on the approval requests
    MaxCrashes      \* bound on the processes that are killed

Scheduler == "scheduler"
Promoter == {Scheduler} \cup Approver
Nobody == "nobody"

ASSUME ReleaseAssumption ==
    /\ Task \subseteq Nat \ {0} /\ IsFiniteSet(Task)
    /\ Scheduler \notin Approver /\ Nobody \notin Promoter
    /\ {FullAccess, Reviewed} \subseteq BOOLEAN
    /\ Command \subseteq {"RUNNING", "PAUSED", "CANCELLED"}
    /\ MaxApprovals \in Nat /\ MaxCrashes \in Nat

VARIABLES
    task,       \* the status of every task
    main,       \* the branches that are merged
    approvals,  \* the approval requests of the run
    run,        \* the row of the run: status, and the record release_promotion
    lock,       \* the promoter that has the lock of that row
    job,        \* of every promoter: what it has read and done
    goalDone,   \* the goal of the control plane is completed by a release
    crashes     \* how many processes were killed

vars == <<task, main, approvals, run, lock, job, goalDone, crashes>>

TaskStatus == {"PR_READY", "DONE", "FAILED_SAFE", "CANCELLED"}
RunStatus == {"RUNNING", "PAUSED", "BLOCKED_NEEDS_HUMAN_REVIEW", "COMPLETED", "CANCELLED"}
State == {"NONE", "WAITING_HUMAN_APPROVAL", "READY_TO_MERGE", "MERGING", "COMPLETED", "BLOCKED"}
Decision == {"APPROVED", "REJECTED"}

\* approval is the number of a request, or 0.
Release == [state : State, approval : 0..MaxApprovals, granted : BOOLEAN,
            branches : SUBSET Task, merged : SUBSET Task]
NoRelease == [state |-> "NONE", approval |-> 0, granted |-> FALSE, branches |-> {}, merged |-> {}]
Row == [status : RunStatus, release : Release]

\* flushed is the record as the first UPDATE of this promotion wrote it, merged is the list of
\* the record in memory, tester and auditor are what the target branch held when these
\* agents passed.
Idle == [step |-> "idle", run |-> [status |-> "RUNNING", release |-> NoRelease],
         flushed |-> NoRelease, branches |-> {}, merged |-> {},
         tester |-> {}, auditor |-> {}]

Init ==
    /\ task = [t \in Task |-> "PR_READY"]
    /\ main = {}
    /\ approvals = <<>>
    /\ run = [status |-> "RUNNING", release |-> NoRelease]
    /\ lock = Nobody
    /\ job = [p \in Promoter |-> Idle]
    /\ goalDone = FALSE
    /\ crashes = 0

-----------------------------------------------------------------------------
(* The world around a promotion                                            *)

\* A pull request is accepted or rejected, or its task is given up.
ReviewPr(t) ==
    /\ task[t] = "PR_READY"
    /\ \E s \in {"DONE", "FAILED_SAFE", "CANCELLED"} : task' = [task EXCEPT ![t] = s]
    /\ UNCHANGED <<main, approvals, run, lock, job, goalDone, crashes>>

\* The scheduler executes a rejected task again, on the same branch.
Rework(t) ==
    /\ task[t] = "FAILED_SAFE"
    /\ task' = [task EXCEPT ![t] = "PR_READY"]
    /\ UNCHANGED <<main, approvals, run, lock, job, goalDone, crashes>>

\* Pause, resume and stop write the status whatever it is.
CommandRun ==
    /\ lock = Nobody
    /\ \E s \in Command : run' = [run EXCEPT !.status = s]
    /\ UNCHANGED <<task, main, approvals, lock, job, goalDone, crashes>>

\* The decision replaces the key under which a promotion looks for its request.
DecideApproval(i) ==
    /\ approvals[i].status = "PENDING"
    /\ \E d \in Decision :
          approvals' = [approvals EXCEPT ![i].status = d, ![i].keyed = FALSE]
    /\ UNCHANGED <<task, main, run, lock, job, goalDone, crashes>>

-----------------------------------------------------------------------------
(* Starting a promotion, and its plan                                      *)

Started(read) == [Idle EXCEPT !.step = "started", !.run = read, !.flushed = read.release]

\* The request that the record names, or else the newest that is undecided.
ToApprove ==
    LET pending == {i \in DOMAIN approvals : approvals[i].status = "PENDING"}
    IN IF run.release.approval # 0 THEN run.release.approval
       ELSE IF pending # {} THEN Max(pending) ELSE 0

\* An operator approves.  The decision is committed before the promotion starts, and the
\* session goes on with the run as it has written it.
Approve(a) ==
    LET i == ToApprove
        granted == [status |-> "RUNNING",
                    release |-> [run.release EXCEPT !.approval = i, !.granted = TRUE]]
    IN /\ job[a].step = "idle"
       /\ lock = Nobody
       /\ i # 0
       /\ approvals' = IF approvals[i].status = "PENDING"
                       THEN [approvals EXCEPT ![i].status = "APPROVED"] ELSE approvals
       /\ run' = granted
       /\ job' = [job EXCEPT ![a] = Started(granted)]
       /\ UNCHANGED <<task, main, lock, goalDone, crashes>>

\* An iteration of the scheduler finds all tasks ended.
SchedulerStarts ==
    /\ job[Scheduler].step = "idle"
    /\ run.status \notin {"COMPLETED", "CANCELLED", "PAUSED"}
    /\ \A t \in Task : task[t] \in {"PR_READY", "DONE", "CANCELLED"}
    /\ job' = [job EXCEPT ![Scheduler] = Started(run)]
    /\ UNCHANGED <<task, main, approvals, run, lock, goalDone, crashes>>

TaskBranches == {t \in Task : task[t] \in {"PR_READY", "DONE"}}
PrReadyTasks == {t \in Task : task[t] = "PR_READY"}
AllTasksReady ==
    /\ \A t \in Task : task[t] \in {"PR_READY", "DONE"}
    /\ Cardinality(TaskBranches) = Cardinality(PrReadyTasks)

\* The request with the key of these branches.
ReleaseApproval(branches) ==
    LET found == {i \in DOMAIN approvals : approvals[i].keyed /\ approvals[i].branches = branches}
    IN IF FullAccess \/ found = {} THEN 0 ELSE Max(found)

Granted_Requested(p) == p # Scheduler \/ ReleaseApproval(TaskBranches) # 0
Granted(p) ==
    \/ p # Scheduler
    \/ LET i == ReleaseApproval(TaskBranches) IN i # 0 /\ approvals[i].status = "APPROVED"

ReleasePlan(p, clean) ==
    IF ~AllTasksReady \/ ~clean THEN "BLOCKED"
    ELSE IF ~FullAccess /\ ~Granted(p) THEN "WAITING_HUMAN_APPROVAL"
    ELSE "READY_TO_MERGE"

\* A release that the record calls completed is reported so, without another merge.  The
\* repository is clean when it is on the target branch, without changes of its user.
Plan(p) ==
    /\ job[p].step = "started"
    /\ \E clean \in BOOLEAN :
          LET done == job[p].run.release.state = "COMPLETED"
          IN job' = [job EXCEPT ![p].step = IF done THEN "passed" ELSE ReleasePlan(p, clean),
                                ![p].branches = TaskBranches]
    /\ UNCHANGED <<task, main, approvals, run, lock, goalDone, crashes>>

-----------------------------------------------------------------------------
(* Its end, and what it leaves in the row                                  *)

\* A scheduler may be started again; a command is over.
Ended(p) == [job EXCEPT ![p] = [Idle EXCEPT !.step = IF p = Scheduler THEN "idle" ELSE "over"]]

\* A column is in the UPDATE only when its value differs from the one that was read.
Column(read, new, current) == IF new = read THEN current ELSE new

Finished(p, status, release) ==
    /\ run' = [status |-> Column(job[p].run.status, status, run.status), release |-> release]
    /\ lock' = Nobody
    /\ job' = Ended(p)

\* The scheduler writes the record that it has read, with the new state.  The session of a
\* command goes on to change the very object that its first UPDATE wrote and assigns it
\* again: no difference is found, and that UPDATE stays the last one.
FinalRelease(p, state) ==
    IF p = Scheduler THEN [job[p].run.release EXCEPT !.state = state]
    ELSE Column(job[p].run.release, job[p].flushed, run.release)

\* The human approval is asked for, unless there is a request for these branches.
WaitForApproval(p) ==
    LET i == ReleaseApproval(job[p].branches)
    IN /\ job[p].step = "WAITING_HUMAN_APPROVAL"
       /\ lock = Nobody
       /\ i = 0 => Len(approvals) < MaxApprovals
       /\ approvals' = IF i # 0 THEN approvals
                       ELSE Append(approvals, [branches |-> job[p].branches, keyed |-> TRUE,
                                               status |-> "PENDING"])
       /\ Finished(p, "PAUSED",
                   [job[p].run.release EXCEPT !.state = "WAITING_HUMAN_APPROVAL",
                        !.approval = IF i # 0 THEN i ELSE Len(approvals) + 1,
                        !.granted = FALSE, !.branches = job[p].branches])
       /\ UNCHANGED <<task, main, goalDone, crashes>>

BlockPlan(p) ==
    LET recorded == [job[p].run.release EXCEPT !.state = "BLOCKED", !.approval = 0,
                                               !.granted = FALSE, !.branches = job[p].branches]
    IN /\ job[p].step = "BLOCKED"
       /\ lock = Nobody
       /\ Finished(p, "BLOCKED_NEEDS_HUMAN_REVIEW",
                   IF p = Scheduler THEN FinalRelease(p, "BLOCKED") ELSE recorded)
       /\ UNCHANGED <<task, main, approvals, goalDone, crashes>>

Block(p) ==
    /\ Finished(p, "BLOCKED_NEEDS_HUMAN_REVIEW", FinalRelease(p, "BLOCKED"))
    /\ UNCHANGED <<task, main, approvals, goalDone, crashes>>

-----------------------------------------------------------------------------
(* Merging and testing, under the lock                                     *)

\* The first UPDATE of the run, uncommitted, takes the lock.
BeginMerge(p) ==
    LET read == job[p].run.release
        release == [read EXCEPT !.state = "MERGING", !.branches = job[p].branches,
                                !.granted = p # Scheduler \/ ~FullAccess]
    IN /\ job[p].step = "READY_TO_MERGE"
       /\ lock = Nobody
       /\ lock' = p
       /\ job' = [job EXCEPT ![p].step = "merging", ![p].merged = read.merged,
                             ![p].flushed = release]
       /\ UNCHANGED <<task, main, approvals, run, goalDone, crashes>>

Holds(p, step) == lock = p /\ job[p].step = step

\* The audit of the release tree or the semantic review says no.
ReviewRefuses(p) == Reviewed /\ Holds(p, "merging") /\ job[p].merged = {} /\ Block(p)

Unmerged(p) == job[p].branches \ job[p].merged

MergeBranch(p) ==
    /\ Holds(p, "merging")
    /\ Unmerged(p) # {}
    /\ LET t == Min(Unmerged(p))
       IN /\ main' = main \cup {t}
          /\ job' = [job EXCEPT ![p].merged = @ \cup {t}]
    /\ UNCHANGED <<task, approvals, run, lock, goalDone, crashes>>

\* The branch is missing, or its merge fails and is aborted.
MergeFails(p) == Holds(p, "merging") /\ Unmerged(p) # {} /\ Block(p)

TesterPasses_EachBranch(p) ==
    /\ Holds(p, "merging")
    /\ job' = [job EXCEPT ![p].step = "tested", ![p].tester = main]
    /\ UNCHANGED <<task, main, approvals, run, lock, goalDone, crashes>>

TesterPasses(p) ==
    /\ Holds(p, "merging")
    /\ Unmerged(p) = {}
    /\ job' = [job EXCEPT ![p].step = "tested", ![p].tester = main]
    /\ UNCHANGED <<task, main, approvals, run, lock, goalDone, crashes>>

SafetyAuditorPasses(p) ==
    /\ Holds(p, "tested")
    /\ job' = [job EXCEPT ![p].step = "passed", ![p].auditor = main]
    /\ UNCHANGED <<task, main, approvals, run, lock, goalDone, crashes>>

AgentFails(p) ==
    /\ \/ Holds(p, "merging") /\ Unmerged(p) = {}
       \/ Holds(p, "tested")
    /\ Block(p)

\* The goal is completed in the control plane, in a file of its own.
MarkReleaseCompleted(p) ==
    /\ job[p].step = "passed"
    /\ goalDone' = TRUE
    /\ job' = [job EXCEPT ![p].step = "marked"]
    /\ UNCHANGED <<task, main, approvals, run, lock, crashes>>

\* It raises when a gate or a todo of the goal is open, and the unit of work is rolled back.
GoalRefuses(p) ==
    /\ job[p].step = "passed"
    /\ lock' = IF lock = p THEN Nobody ELSE lock
    /\ job' = Ended(p)
    /\ UNCHANGED <<task, main, approvals, run, goalDone, crashes>>

Complete_First(p) ==
    /\ job[p].step \in {"passed", "marked"}
    /\ lock \in {p, Nobody}
    /\ Finished(p, "COMPLETED", FinalRelease(p, "COMPLETED"))
    /\ UNCHANGED <<task, main, approvals, goalDone, crashes>>

Complete(p) ==
    /\ job[p].step = "marked"
    /\ lock \in {p, Nobody}
    /\ Finished(p, "COMPLETED", FinalRelease(p, "COMPLETED"))
    /\ UNCHANGED <<task, main, approvals, goalDone, crashes>>

\* The process is killed: what was not committed is lost, what was merged is not.  Before its
\* first write it leaves nothing, as when it takes no further step.
Dies(p) ==
    /\ lock = p \/ job[p].step \in {"passed", "marked"}
    /\ crashes < MaxCrashes
    /\ crashes' = crashes + 1
    /\ lock' = IF lock = p THEN Nobody ELSE lock
    /\ job' = Ended(p)
    /\ UNCHANGED <<task, main, approvals, run, goalDone>>

World == \/ \E t \in Task : ReviewPr(t) \/ Rework(t)
         \/ CommandRun
         \/ \E i \in DOMAIN approvals : DecideApproval(i)

UnderLock(p) == \/ ReviewRefuses(p)
                \/ MergeBranch(p) \/ MergeFails(p)
                \/ TesterPasses(p) \/ SafetyAuditorPasses(p) \/ AgentFails(p)
                \/ MarkReleaseCompleted(p) \/ GoalRefuses(p)
                \/ Complete(p)

Promote(p) == \/ Plan(p)
              \/ WaitForApproval(p) \/ BlockPlan(p) \/ BeginMerge(p)
              \/ UnderLock(p)
              \/ Dies(p)

Next == \/ World
        \/ SchedulerStarts
        \/ \E a \in Approver : Approve(a)
        \/ \E p \in Promoter : Promote(p)

Spec == Init /\ [][Next]_vars

-----------------------------------------------------------------------------
(* Properties                                                              *)

\* The types of the tables, of the repository and of the row that promotions share.
ReleaseTypeOK ==
    /\ task \in [Task -> TaskStatus]
    /\ goalDone \in BOOLEAN
    /\ main \subseteq Task
    /\ Len(approvals) <= MaxApprovals
    /\ \A i \in DOMAIN approvals :
          approvals[i] \in [branches : SUBSET Task, keyed : BOOLEAN,
                            status : Decision \cup {"PENDING"}]
    /\ run \in Row
    /\ lock \in Promoter \cup {Nobody}
    /\ crashes \in 0..MaxCrashes

\* The goal is completed by a promotion whose Tester and SafetyAuditor both passed on what the
\* target branch holds now, with every branch of the plan in it, whichever promotions
\* overlapped, failed half-way or were killed before.
CompletionIsTested ==
    [][goalDone' # goalDone =>
          \E p \in Promoter :
             /\ job[p].step = "passed" /\ job'[p].step = "marked"
             /\ job[p].tester = main /\ job[p].auditor = main
             /\ job[p].branches \subseteq main]_vars

\* In human_approval mode the scheduler merges only branches of which the whole set was
\* approved; anything else is merged on an operator's command.
MergesAreLicensed ==
    [][main' # main =>
          \/ FullAccess \/ lock \in Approver
          \/ \E i \in DOMAIN approvals : /\ approvals[i].status = "APPROVED"
                                         /\ approvals[i].branches = job[lock].branches]_vars

\* The row of the run is the last to know: a run that a release completed has a completed goal,
\* also when a process dies between the two writes.
RunEndsAfterGoal == run.status = "COMPLETED" => goalDone

\* A record that waits names a request for exactly the branches that it lists, however stale
\* what the promotion had read.
RequestNamesWhatWaits ==
    run.release.state = "WAITING_HUMAN_APPROVAL" =>
        LET i == run.release.approval
        IN i \in DOMAIN approvals /\ approvals[i].branches = run.release.branches

\* The row of the run, the goal and the requests for approval tell one story.
RecordsAgree == ReleaseTypeOK /\ RunEndsAfterGoal /\ RequestNamesWhatWaits

\* "pause after PR_READY and require a durable human approval before merging the local task
\* branches": what is merged in human_approval mode has an approved request on record.
MergesFollowApproval ==
    [][main' # main =>
          FullAccess \/ \E i \in DOMAIN approvals : approvals[i].status = "APPROVED"]_vars
=============================================================================
