-------------------------- MODULE LoopCoordinator ---------------------------
(***************************************************************************)
(* Recurring loops (backend/localforge/services/loop_coordinator.py,       *)
(* loop_service.py and loop_runtime.py): schedules and triggers start loop *)
(* runs, each actionable one with a scheduler run of its own, whose tasks  *)
(* take runners of the pool; operators pause, resume and kill them, and a  *)
(* restart recovers them.                                                  *)
(*                                                                         *)
(* A request is one transaction and one action, but for the two places     *)
(* where the code itself expects others between its read and its write: a  *)
(* pass over the schedules compares the row it read when it claims it, and *)
(* a dispatch reserves the place of the runner it chose.  The scheduler    *)
(* and the pipeline are those of Scheduler and Pipeline; of them only what *)
(* they do to the run, the task run and the pool is here.  A breaker of    *)
(* scope LOOP is never opened by any caller, so its check always passes.   *)
(* A task run that has completed, failed or been cancelled is OVER.        *)
(***************************************************************************)
EXTENDS RunnerPool

CONSTANTS
    Loop,         \* the loops of the project, 1..n in the order of their ids
    Kind,         \* trigger.kind, by loop: "CRON" or "EVENT"
    CatchUp,      \* the loops whose misfire policy is bounded_catchup
    Event,        \* the idempotency keys of external events and of operators
    Pass,         \* the callers of trigger_due_schedules
    Page,         \* how many of the newest runs of a loop a pause or a resume lists
    MaxTime,      \* bound on the clock
    MaxRuns,      \* bound on the loop runs
    MaxTaskRuns,  \* bound on the task runs
    MaxCommands,  \* bound on what operators do to loops, runs and runners
    HealthSetting \* the healths operators give to runners

ASSUME LoopAssumption ==
    /\ IsFiniteSet(Loop) /\ Loop = 1..Cardinality(Loop) /\ CatchUp \subseteq Loop
    /\ MaxTime \in Nat /\ MaxCommands \in Nat
    /\ Kind \in [Loop -> {"CRON", "EVENT"}]
    /\ HealthSetting \subseteq Health \ {"BUSY"}

VARIABLES
    loops,     \* LoopDefinition: status, enabled, next_run_at and trigger_revision
    clock,     \* the time
    passes,    \* by pass, the rows it read and those of them no one wrote since
    runs,      \* LoopRun with the status of its scheduler run, oldest first
    taskRuns,  \* TaskRun of the scheduler runs, with where its scheduler is in it
    claimed,   \* by loop, the occurrences of its schedule that were claimed
    commands   \* how much operators have done

loopVars == <<poolVars, loops, clock, passes, runs, taskRuns, claimed, commands>>

LoopStatus == {"IDLE", "RUNNING", "PAUSED", "DISABLED"}
LoopRunStatus == {"NO_OP", "RUNNING", "PAUSED", "COMPLETED", "FAILED", "CANCELLED"}
RunStatus == {"none", "PENDING", "RUNNING", "PAUSED", "COMPLETED", "FAILED", "CANCELLED"}
NoLease == 0
NoRunner == <<>>

Row == [status : LoopStatus, enabled : BOOLEAN, due : Nat, rev : Nat]
OccurrenceKey == [due : Nat, rev : Nat]
LoopRun == [loop : Loop, key : Event \cup OccurrenceKey, status : LoopRunStatus, sched : RunStatus]
TaskRun == [run : Nat, status : {"RUNNING", "OVER"}, at : {"claimed", "ranked", "working", "ended", "gone"},
            runner : Runner \cup {NoRunner}, lease : Nat]
RowsOf(these) == [read : [these -> OccurrenceKey], current : SUBSET these]

LoopsTypeOK ==
    /\ PoolTypeOK
    /\ loops \in [Loop -> Row]
    /\ clock \in 0..MaxTime /\ commands \in 0..MaxCommands
    /\ DOMAIN passes = Pass
    /\ \A p \in Pass : \E these \in SUBSET Loop : passes[p] \in RowsOf(these)
    /\ runs \in Seq(LoopRun)
    /\ taskRuns \in Seq(TaskRun)
    /\ \A t \in DOMAIN taskRuns : /\ taskRuns[t].run \in DOMAIN runs
                                  /\ taskRuns[t].lease \in {NoLease} \cup DOMAIN leases
    /\ claimed \in [Loop -> Seq(Nat)]

Idle == [read |-> <<>>, current |-> {}]

LoopsInit ==
    /\ PoolInit
    /\ loops = [l \in Loop |-> [status |-> "IDLE", enabled |-> TRUE, due |-> 1, rev |-> 0]]
    /\ clock = 0
    /\ passes = [p \in Pass |-> Idle]
    /\ runs = <<>>
    /\ taskRuns = <<>>
    /\ claimed = [l \in Loop |-> <<>>]
    /\ commands = 0

-----------------------------------------------------------------------------
(***************************************************************************)
(* Triggers and schedules                                                  *)
(***************************************************************************)
Schedulable == {l \in Loop : loops[l].enabled /\ loops[l].status \notin {"PAUSED", "DISABLED"}}

\* updated_at tells every pass that has read these rows that they were written.
Touch(written) == passes' = [p \in Pass |-> [passes[p] EXCEPT !.current = @ \ written]]

SetLoop(l, status, enabled) ==
    /\ loops' = [loops EXCEPT ![l] = [@ EXCEPT !.status = status, !.enabled = enabled]]
    /\ Touch({l})

\* _complete_loop_run_triage: a payload has items to work on, has none, or carries
\* the error of a detector.
Triaged(l, key, payload) ==
    [loop |-> l, key |-> key,
     status |-> CASE payload = "items" -> "RUNNING" [] payload = "none" -> "NO_OP" [] payload = "error" -> "FAILED",
     sched |-> IF payload = "items" THEN "PENDING" ELSE "none"]

\* A key that a run already has starts none.
Deduped(all, run) == IF \E i \in DOMAIN all : all[i].key = run.key THEN all ELSE Append(all, run)

Trigger(l, key, payload) ==
    /\ l \in Schedulable
    /\ runs' = Deduped(runs, Triaged(l, key, payload))
    /\ runs' # runs
    /\ IF payload = "items" THEN SetLoop(l, "RUNNING", TRUE) ELSE UNCHANGED <<loops, passes>>
    /\ UNCHANGED <<poolVars, clock, taskRuns, claimed, commands>>

\* The key of an occurrence names neither the loop nor its project.
Occurrence(l) == [due |-> loops[l].due, rev |-> loops[l].rev]

ReadSchedules(p) ==
    /\ passes[p] = Idle
    /\ passes' = [passes EXCEPT ![p] = [read |-> [l \in Schedulable |-> Occurrence(l)], current |-> Schedulable]]
    /\ UNCHANGED <<poolVars, loops, clock, runs, taskRuns, claimed, commands>>

\* _compare_and_swap_schedule_claim
Swaps_Blind(p, l) == l \in Schedulable
Swaps(p, l) == l \in passes[p].current /\ l \in Schedulable

Claims(p) == {l \in DOMAIN passes[p].read :
                 Kind[l] = "CRON" /\ passes[p].read[l].due <= clock /\ Swaps(p, l)}

Advanced(l, row) ==
    [loops[l] EXCEPT !.due = IF l \in CatchUp THEN row.due + 1 ELSE clock + 1, !.rev = row.rev + 1]

\* The runs with those that a pass starts, loop after loop.
Started(p, payload) ==
    LET all[l \in 0 .. Cardinality(Loop)] ==
            IF l = 0 THEN runs
            ELSE IF l \in Claims(p) THEN Deduped(all[l - 1], Triaged(l, passes[p].read[l], payload[l]))
            ELSE all[l - 1]
    IN  all[Cardinality(Loop)]

ClaimSchedules(p, payload) ==
    LET read == passes[p].read
        mine == Claims(p)
        started == Started(p, payload)
        running == {started[i].loop : i \in {j \in DOMAIN started \ DOMAIN runs : started[j].status = "RUNNING"}}
    IN  /\ passes[p] # Idle
        /\ Len(started) <= MaxRuns
        /\ runs' = started
        /\ loops' = [l \in Loop |->
              IF l \notin mine THEN loops[l]
              ELSE [Advanced(l, read[l]) EXCEPT !.status = IF l \in running THEN "RUNNING" ELSE @]]
        /\ claimed' = [l \in Loop |-> IF l \in mine THEN Append(claimed[l], read[l].rev) ELSE claimed[l]]
        /\ passes' = [q \in Pass |-> IF q = p THEN Idle ELSE [passes[q] EXCEPT !.current = @ \ mine]]
        /\ UNCHANGED <<poolVars, clock, taskRuns, commands>>

-----------------------------------------------------------------------------
(***************************************************************************)
(* Operators                                                               *)
(***************************************************************************)
Command == commands < MaxCommands /\ commands' = commands + 1

Enable(l) ==
    /\ Command
    /\ SetLoop(l, "IDLE", TRUE)
    /\ UNCHANGED <<poolVars, clock, runs, taskRuns, claimed>>

Disable(l) ==
    /\ Command
    /\ SetLoop(l, "DISABLED", FALSE)
    /\ UNCHANGED <<poolVars, clock, runs, taskRuns, claimed>>

\* list_runs_for_loop, newest first and so many.
Recent(l) == {i \in DOMAIN runs : /\ runs[i].loop = l
                                  /\ Cardinality({j \in DOMAIN runs : j > i /\ runs[j].loop = l}) < Page}

Moved(l, from, to) ==
    [i \in DOMAIN runs |-> IF i \in Recent(l) /\ runs[i].status \in from THEN [runs[i] EXCEPT !.status = to] ELSE runs[i]]

\* The scheduler run of a paused loop run is not paused.
Pause(l) ==
    /\ Command
    /\ SetLoop(l, "PAUSED", loops[l].enabled)
    /\ runs' = Moved(l, {"RUNNING"}, "PAUSED")
    /\ UNCHANGED <<poolVars, clock, taskRuns, claimed>>

Resumable_Killed == {"PAUSED", "CANCELLED"}
Resumable == {"PAUSED"}

Resume(l) ==
    /\ Command
    /\ SetLoop(l, "IDLE", loops[l].enabled)
    /\ runs' = Moved(l, Resumable, "RUNNING")
    /\ UNCHANGED <<poolVars, clock, taskRuns, claimed>>

Owned(i) == {t \in DOMAIN taskRuns : taskRuns[t].run = i}
Alive(set) == {t \in set : taskRuns[t].status = "RUNNING"}
Closed == {"COMPLETED", "FAILED", "CANCELLED"}

Ended(set) ==
    [t \in DOMAIN taskRuns |-> IF t \in set THEN [taskRuns[t] EXCEPT !.status = "OVER"] ELSE taskRuns[t]]

\* kill_loop_run, of a run in any state.
Kill(i) ==
    /\ Command
    /\ runs' = [runs EXCEPT ![i] = [@ EXCEPT !.status = "CANCELLED",
                                             !.sched = IF @ \in Closed \cup {"none"} THEN @ ELSE "CANCELLED"]]
    /\ taskRuns' = Ended(Owned(i))
    /\ Cancel(Owned(i))
    /\ UNCHANGED <<loops, clock, passes, claimed>>

OperatorSetsHealth(r, health) ==
    /\ Command
    /\ SetHealth(r, health)
    /\ UNCHANGED <<loops, clock, passes, runs, taskRuns, claimed>>

-----------------------------------------------------------------------------
(***************************************************************************)
(* The scheduler runs                                                      *)
(***************************************************************************)
SetSched(i, status) ==
    /\ runs' = [runs EXCEPT ![i].sched = status]
    /\ UNCHANGED <<poolVars, loops, clock, passes, taskRuns, claimed, commands>>

Busy(i) == \E t \in Owned(i) : taskRuns[t].at # "gone"

StartRun(i) == runs[i].sched = "PENDING" /\ SetSched(i, "RUNNING")

\* It may also fail, which a recovery mirrors just as well.
EndRun(i) == runs[i].sched = "RUNNING" /\ ~Busy(i) /\ SetSched(i, "COMPLETED")

\* The task is claimed and its task run created before the runner is dispatched.
NewTaskRun(i) ==
    [run |-> i, status |-> "RUNNING", at |-> "claimed", runner |-> NoRunner, lease |-> NoLease]

Claim(i) ==
    /\ runs[i].sched = "RUNNING" /\ ~Busy(i)
    /\ Len(taskRuns) < MaxTaskRuns
    /\ taskRuns' = Append(taskRuns, NewTaskRun(i))
    /\ UNCHANGED <<poolVars, loops, clock, passes, runs, claimed, commands>>

Refuse(t) == taskRuns' = [taskRuns EXCEPT ![t] = [@ EXCEPT !.status = "OVER", !.at = "gone"]]

Rank(t) ==
    /\ taskRuns[t].at = "claimed"
    /\ \/ \E r \in Eligible : taskRuns' = [taskRuns EXCEPT ![t] = [@ EXCEPT !.at = "ranked", !.runner = r]]
       \/ Eligible = {} /\ Refuse(t)
    /\ UNCHANGED <<poolVars, loops, clock, passes, runs, claimed, commands>>

\* GovernedExecutionService.start_task writes the task run back as it was claimed.
\* When the setup of the worktree fails, the lease is returned in the same transaction.
Dispatch(t) ==
    LET r == taskRuns[t].runner
    IN  /\ taskRuns[t].at = "ranked"
        /\ \/ /\ Reservable(r)
              /\ Reserve(t, r, 1)
              /\ taskRuns' = [taskRuns EXCEPT ![t] = [@ EXCEPT !.status = "RUNNING", !.at = "working",
                                                               !.lease = Len(leases) + 1]]
           \/ /\ Reservable(r)
              /\ pool' = [pool EXCEPT ![r] = Lowered(Raised(@, 1), 1)]
              /\ leases' = Append(leases, Granted(t, r))
              /\ share' = Append(share, "returned")
              /\ UNCHANGED <<again, short>>
              /\ Refuse(t)
           \/ /\ ~Reservable(r)
              /\ Refuse(t)
              /\ UNCHANGED poolVars
        /\ UNCHANGED <<loops, clock, passes, runs, claimed, commands>>

\* The pipeline ends, and writes the task run whatever became of it meanwhile.
EndTask(t) ==
    /\ taskRuns[t].at = "working"
    /\ taskRuns' = [taskRuns EXCEPT ![t] = [@ EXCEPT !.status = "OVER", !.at = "ended"]]
    /\ UNCHANGED <<poolVars, loops, clock, passes, runs, claimed, commands>>

\* A transaction of its own returns the lease.  Where that raises, so does the
\* attempt to record the failure, and nothing is written.
ReturnLease(t) ==
    /\ taskRuns[t].at = "ended"
    /\ taskRuns' = [taskRuns EXCEPT ![t].at = "gone"]
    /\ IF Returnable(taskRuns[t].lease) THEN Return(taskRuns[t].lease) ELSE UNCHANGED poolVars
    /\ UNCHANGED <<loops, clock, passes, runs, claimed, commands>>

\* No one refreshes the lease of a working task.
ExpireLease(t) ==
    /\ taskRuns[t].at \in {"working", "ended"}
    /\ ~leases[taskRuns[t].lease].expired
    /\ Expire(taskRuns[t].lease)
    /\ UNCHANGED <<loops, clock, passes, runs, taskRuns, claimed, commands>>

-----------------------------------------------------------------------------
(***************************************************************************)
(* Restarts                                                                *)
(***************************************************************************)
Die ==
    /\ \/ \E t \in DOMAIN taskRuns : taskRuns[t].at # "gone"
       \/ \E p \in Pass : passes[p] # Idle
    /\ taskRuns' = [t \in DOMAIN taskRuns |-> [taskRuns[t] EXCEPT !.at = "gone"]]
    /\ passes' = [p \in Pass |-> Idle]
    /\ UNCHANGED <<poolVars, loops, clock, runs, claimed, commands>>

\* recover_pending_loops, after a restart: a running loop run follows a scheduler
\* run that is closed; the task runs of one that is not are failed, and both runs
\* with them.  The first of these also reconciles the pool, and a runner whose
\* count was wrong counts as a resource of that run.
Recover ==
    LET running == {i \in DOMAIN runs : runs[i].status = "RUNNING"}
        orphans == {i \in running : runs[i].sched \notin Closed}
        first == CHOOSE i \in orphans : \A j \in orphans :
                    runs[i].loop < runs[j].loop \/ (runs[i].loop = runs[j].loop /\ i >= j)
        lost == Alive(UNION {Owned(i) : i \in orphans})
        left == Alive(DOMAIN taskRuns) \ lost
        drift == \E r \in Runner :
                    Lowered(pool[r], Cardinality(On(r, Of(Alive(Owned(first)))))).active
                       # Cardinality(On(r, Of(Alive(DOMAIN taskRuns \ Owned(first)))))
        failed == {i \in orphans : Alive(Owned(i)) # {} \/ (i = first /\ drift)}
    IN  /\ running # {}
        /\ \A t \in DOMAIN taskRuns : taskRuns[t].at = "gone"
        /\ runs' = [i \in DOMAIN runs |->
              IF i \in failed THEN [runs[i] EXCEPT !.status = "FAILED", !.sched = "FAILED"]
              ELSE IF i \in running \ orphans THEN [runs[i] EXCEPT !.status = runs[i].sched]
              ELSE runs[i]]
        /\ taskRuns' = Ended(lost)
        /\ IF orphans = {} THEN UNCHANGED poolVars ELSE CancelAndRecount(lost, left)
        /\ UNCHANGED <<loops, clock, passes, claimed, commands>>

Tick ==
    /\ clock < MaxTime
    /\ clock' = clock + 1
    /\ UNCHANGED <<poolVars, loops, passes, runs, taskRuns, claimed, commands>>

LoopsNext ==
    \/ \E l \in Loop, key \in Event, payload \in {"items", "error"} :
          Len(runs) < MaxRuns /\ Trigger(l, key, payload)
    \/ \E p \in Pass : ReadSchedules(p)
    \/ \E p \in Pass : \E payload \in [Claims(p) -> {"items", "none"}] : ClaimSchedules(p, payload)
    \/ \E l \in Loop : Enable(l)
    \/ \E l \in Loop : Disable(l)
    \/ \E l \in Loop : Pause(l)
    \/ \E l \in Loop : Resume(l)
    \/ \E i \in DOMAIN runs : Kill(i)
    \/ \E r \in Runner, health \in HealthSetting : OperatorSetsHealth(r, health)
    \/ \E i \in DOMAIN runs : StartRun(i)
    \/ \E i \in DOMAIN runs : EndRun(i)
    \/ \E i \in DOMAIN runs : Claim(i)
    \/ \E t \in DOMAIN taskRuns : Rank(t)
    \/ \E t \in DOMAIN taskRuns : Dispatch(t)
    \/ \E t \in DOMAIN taskRuns : EndTask(t)
    \/ \E t \in DOMAIN taskRuns : ReturnLease(t)
    \/ \E t \in DOMAIN taskRuns : ExpireLease(t)
    \/ Die
    \/ Recover
    \/ Tick

LoopsSpec == LoopsInit /\ [][LoopsNext]_loopVars

-----------------------------------------------------------------------------
(***************************************************************************)
(* Properties                                                              *)
(***************************************************************************)

\* The places of a runner are neither given twice nor forgotten while they are held
\* (dispatch_task, release_runner_lease, cancel_runner_leases_for_task_run).
PlacesAreCounted == LoopsTypeOK /\ CapacityHolds /\ CountCoversHeldLeases

\* No occurrence of a schedule is claimed twice: of two passes that read it, only
\* the first finds the row as it read it.
OccurrenceClaimedOnce ==
    \A l \in Loop : \A j, k \in DOMAIN claimed[l] : j # k => claimed[l][j] # claimed[l][k]

\* A loop run that has ended is not taken up again, by a resume of its loop or by
\* a recovery; it can only be killed.
EndedRunsStayEnded ==
    [][\A i \in DOMAIN runs : runs[i].status \in Closed \cup {"NO_OP"} =>
          runs'[i].status \in {runs[i].status, "CANCELLED"}]_loopVars

=============================================================================
