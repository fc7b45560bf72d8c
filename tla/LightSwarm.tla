----------------------------- MODULE LightSwarm -----------------------------
(***************************************************************************)
(* A light swarm (backend/localforge/services/light_swarm.py and its       *)
(* dispatcher, life cycle, workers and aggregation): the nodes of a plan   *)
(* are handed to the runners of the pool, and workers and operators report *)
(* on them through requests.                                               *)
(*                                                                         *)
(* A request reads the rows of the run and the plan as one: see Requests.  *)
(*                                                                         *)
(* Ownership tokens are left out: a report without one is accepted, so     *)
(* they keep no report from being made.  Tokens of the model and the time  *)
(* of a run are summed up or dated and never compared.  Leases are taken   *)
(* not to expire while the swarm runs.                                     *)
(***************************************************************************)
EXTENDS RunnerPool, Requests, Graphs, FiniteSetsExt

CONSTANTS
    Node,       \* the nodes, 1..n in the order of the plan
    Type,       \* node_type
    Depends,    \* depends_on
    Edges,      \* the edges of the plan, pairs of nodes
    Required,   \* the nodes planned with an output artifact
    MaxWorkers, \* policy.max_workers
    CostLimit,  \* policy.max_cost_usd
    Agent,      \* the agents that call themselves by name
    TaskRun,    \* the task run that the plan belongs to
    MaxLeases,  \* bound on the dispatch log
    MaxOwned    \* bound on how often a node is listed as active

NodeType == {"RESEARCH", "IMPLEMENT", "TEST", "CRITIQUE", "VERIFY"}
NodeStatus == {"PENDING", "READY", "RUNNING", "COMPLETED", "FAILED", "BLOCKED"}
SwarmStatus == {"RUNNING", "PAUSED", "COMPLETED", "FAILED", "KILLED"}

Plan == [node |-> Node, edge |-> Edges]
Checkers == {n \in Node : Type[n] \in {"CRITIQUE", "VERIFY"}}
Makers == {n \in Node : Type[n] = "IMPLEMENT"}

\* validate_plan.  It compares the edges with no depends_on.
ValidPlan ==
    /\ Cardinality(Makers) <= 4
    /\ Cardinality(Node) > 1 => Checkers # {}
    /\ IsDag(Plan)

ASSUME SwarmAssumption ==
    /\ Node \subseteq Nat \ {0} /\ IsFiniteSet(Node)
    /\ Type \in [Node -> NodeType] /\ Depends \in [Node -> SUBSET Node]
    /\ Required \subseteq Node /\ TaskRun \in Nat
    /\ MaxWorkers \in Nat /\ CostLimit \in Nat /\ MaxOwned \in Nat \ {0}
    /\ ValidPlan

\* The row holds the columns of SwarmRun, and nodes of SwarmPlan.
VARIABLES
    done,      \* the nodes that were ever completed
    submitted  \* whether the task was marked PR_READY

swarmVars == <<poolVars, row, requests, done, submitted>>

Gate == 0          \* the key __pr_ready_gate__ among the node statuses
NoAgent == 0
NoVerdict == ""

\* An agent is the worker of a node, known by the node, or one that names itself.
Owners == {NoAgent} \cup Node \cup Agent

SwarmTypeOK ==
    /\ PoolTypeOK
    /\ row.status \in SwarmStatus
    /\ row.active \in [Node -> 0..MaxOwned]
    /\ row.cost \in 0..(CostLimit + 1)
    /\ DOMAIN row.statuses \in {Node, Node \cup {Gate}}
    /\ \A n \in Node : row.statuses[n] \in NodeStatus
    /\ row.nodes \in [Node -> [dispatched : BOOLEAN, owner : Owners, artifact : BOOLEAN]]
    /\ RequestsTypeOK
    /\ done \subseteq Node

-----------------------------------------------------------------------------
\* _resolve_ready_nodes
Ready_Attempted(r) ==
    {n \in Node : r.statuses[n] \in {"PENDING", "READY"} /\
        \A d \in Depends[n] : r.statuses[d] \in {"RUNNING", "FAILED", "COMPLETED"}}
Ready(r) ==
    {n \in Node : r.statuses[n] \in {"PENDING", "READY"} /\
        \A d \in Depends[n] : r.statuses[d] = "COMPLETED"}

\* _find_downstream
Downstream == [n \in Node |-> Descendants(Plan, n)]

Unowned == [n \in Node |-> 0]

\* start_swarm
SwarmInit ==
    LET fresh == [status |-> "RUNNING", active |-> Unowned, cost |-> 0, verdict |-> NoVerdict,
                  statuses |-> [n \in Node |-> "PENDING"],
                  nodes |-> [n \in Node |-> [dispatched |-> FALSE, owner |-> NoAgent, artifact |-> FALSE]]]
        ready == Ready(fresh)
    IN  /\ PoolInit
        /\ row = [fresh EXCEPT !.active = [n \in Node |-> IF n \in ready THEN 1 ELSE 0],
                               !.statuses = [n \in Node |-> IF n \in ready THEN "READY" ELSE "PENDING"]]
        /\ requests = [c \in Client |-> Unsent]
        /\ done = {}
        /\ submitted = FALSE

-----------------------------------------------------------------------------
(***************************************************************************)
(* Reports                                                                 *)
(***************************************************************************)
Spent(r, cost) == IF r.cost + cost > CostLimit THEN CostLimit + 1 ELSE r.cost + cost

\* _kill_run
Killed(r, verdict) ==
    [r EXCEPT !.status = "KILLED", !.verdict = verdict, !.active = Unowned,
              !.statuses = [k \in DOMAIN @ |-> IF k # Gate /\ r.active[k] > 0 THEN "BLOCKED" ELSE @[k]]]

Promoted(r) ==
    LET new == {n \in Ready(r) : r.statuses[n] = "PENDING"}
    IN  [r EXCEPT !.statuses = [k \in DOMAIN @ |-> IF k \in new THEN "READY" ELSE @[k]],
                  !.active = [n \in Node |-> IF n \in new THEN @[n] + 1 ELSE @[n]]]

AllIn(r, set) == \A k \in DOMAIN r.statuses : r.statuses[k] \in set
Missing(r) == {n \in Required : ~r.nodes[n].artifact}

Settled_Running == {"COMPLETED", "FAILED", "RUNNING"}
Settled == {"COMPLETED", "FAILED"}

Concluded(r) ==
    LET failed == \E k \in DOMAIN r.statuses : r.statuses[k] = "FAILED"
    IN  IF ~AllIn(r, Settled) THEN r
        ELSE [r EXCEPT !.status = IF failed \/ Missing(r) # {} THEN "FAILED" ELSE "COMPLETED",
                       !.verdict = IF failed THEN "NEEDS_REPAIR"
                                   ELSE IF Missing(r) # {} THEN "EVIDENCE_MISSING" ELSE "EVIDENCE_READY"]

\* The first node of these, in the order of the plan, and its owner.
First(set) == CHOOSE n \in set : \A m \in set : n <= m
OwnerOfFirst(r, set) == IF set = {} THEN NoAgent ELSE r.nodes[First(set)].owner
Maker(r) == OwnerOfFirst(r, {n \in Makers : r.nodes[n].owner # NoAgent})

Complete(c, n, agent, artifact, cost) ==
    LET r == View(c)
        owner == IF agent # NoAgent THEN agent ELSE r.nodes[n].owner
        worked == [r EXCEPT !.statuses[n] = "COMPLETED", !.active[n] = @ - 1, !.cost = Spent(r, cost),
                            !.nodes[n] = [r.nodes[n] EXCEPT !.owner = owner, !.artifact = @ \/ artifact]]
    IN  /\ r.active[n] > 0
        /\ n \in Checkers => owner = NoAgent \/ owner # Maker(r)
        /\ Write(c, IF worked.cost > CostLimit THEN Killed(worked, "BUDGET_EXCEEDED")
                    ELSE Concluded(Promoted(worked)), {"nodes"})
        /\ \A m \in Node : row'.active[m] <= MaxOwned
        /\ done' = done \cup {n}
        /\ UNCHANGED <<poolVars, submitted>>

Left(count) == IF count > 0 THEN count - 1 ELSE 0

\* The caller counts the attempts, so that any failure may be retried or final.
Fail(c, n, retried) ==
    LET r == View(c)
        failed == [r EXCEPT !.active[n] = Left(@),
                            !.statuses = [k \in DOMAIN @ |->
                                IF k = n THEN "FAILED"
                                ELSE IF k \in Downstream[n] /\ @[k] = "PENDING" THEN "BLOCKED" ELSE @[k]]]
    IN  /\ Write(c, IF retried THEN [r EXCEPT !.statuses[n] = "PENDING"]
                    ELSE IF AllIn(failed, {"COMPLETED", "FAILED", "BLOCKED"})
                    THEN [failed EXCEPT !.status = "FAILED", !.verdict = "NEEDS_REPAIR"]
                    ELSE failed, {})
        /\ UNCHANGED <<poolVars, done, submitted>>

\* execute_typed_worker_node records an artifact, and observes no execution.
TypedWorker(c, n) ==
    /\ Write(c, [View(c) EXCEPT !.nodes[n].artifact = TRUE], {"nodes"})
    /\ UNCHANGED <<poolVars, done, submitted>>

-----------------------------------------------------------------------------
(***************************************************************************)
(* Dispatch                                                                *)
(***************************************************************************)
FirstFew(set, k) == {n \in set : Cardinality({m \in set : m < n}) < k}
Running(r) == {n \in Node : r.statuses[n] = "RUNNING"}

Vacancies(r) ==
    LET most == Min({MaxWorkers, 4})
    IN  IF Cardinality(Running(r)) >= most THEN 0 ELSE most - Cardinality(Running(r))

Dispatch(c, w) ==
    LET r == View(c)
        wanted == FirstFew({n \in Ready(r) : ~r.nodes[n].dispatched}, Vacancies(r))
        given == FirstFew(wanted, IF w \in Eligible THEN Capacity - pool[w].active ELSE 0)
    IN  /\ given # {}
        /\ Len(leases) + Cardinality(given) <= MaxLeases
        /\ Write(c, [r EXCEPT !.statuses = [k \in DOMAIN @ |-> IF k \in given THEN "RUNNING" ELSE @[k]],
                              !.active = [n \in Node |-> IF n \in given /\ @[n] = 0 THEN 1 ELSE @[n]],
                              !.nodes = [n \in Node |-> IF n \in given
                                  THEN [@[n] EXCEPT !.dispatched = TRUE, !.owner = n] ELSE @[n]]], {})
        /\ Reserve(TaskRun, w, Cardinality(given))
        /\ UNCHANGED <<done, submitted>>

-----------------------------------------------------------------------------
(***************************************************************************)
(* Operators                                                               *)
(***************************************************************************)
Pause(c) ==
    /\ View(c).status = "RUNNING"
    /\ Write(c, [View(c) EXCEPT !.status = "PAUSED"], {})
    /\ UNCHANGED <<poolVars, done, submitted>>

\* The command line kills the run and returns no runner.
KillByCli(c) ==
    /\ Write(c, Killed(View(c), "KILLED_BY_USER"), {})
    /\ UNCHANGED <<poolVars, done, submitted>>

\* release_swarm_run_resources returns the leases of the task run, oldest first, and
\* gives up at the first that is not the newest: it returns one that is alone.
Kill(c) ==
    LET r == View(c)
        active == {n \in Node : r.active[n] > 0}
    IN  /\ Write(c, Killed(r, "KILLED_BY_USER"), IF active = {} THEN {} ELSE {"nodes"})
        /\ IF Len(leases) = 1 /\ \E n \in active : r.nodes[n].dispatched THEN Return(1) ELSE UNCHANGED poolVars
        /\ UNCHANGED <<done, submitted>>

Recover(c) ==
    LET r == View(c)
        owned == Ready(r) \cup Running(r)
    IN  /\ r.status = "RUNNING"
        /\ Write(c, [r EXCEPT !.active = [n \in Node |-> IF n \in owned THEN 1 ELSE 0]], {})
        /\ UNCHANGED <<poolVars, done, submitted>>

\* aggregate_and_submit_pr_ready.  evidence stands for what it looks for outside of
\* the swarm: commits, artifacts, observed checks and the mechanical gate.
Submittable_AllSettled(r) == AllIn(r, {"COMPLETED", "BLOCKED", "FAILED"})
Submittable(r) == AllIn(r, {"COMPLETED"})

Aggregate(c, evidence) ==
    LET r == View(c)
        maker == OwnerOfFirst(r, Makers)
        checker == OwnerOfFirst(r, Checkers)
        accepted == evidence /\ NoAgent \notin {maker, checker} /\ maker # checker
    IN  /\ Submittable(r)
        /\ Write(c, IF accepted THEN [r EXCEPT !.verdict = "EVIDENCE_READY"]
                    ELSE [r EXCEPT !.verdict = "NEEDS_HUMAN",
                                   !.statuses = [k \in DOMAIN @ \cup {Gate} |->
                                       IF k = Gate THEN "REFUSED" ELSE @[k]]], {})
        /\ submitted' = (submitted \/ accepted)
        /\ UNCHANGED <<poolVars, done>>

SwarmNext ==
    \/ \E c \in Client : Read(c, <<>>) /\ UNCHANGED <<poolVars, done, submitted>>
    \/ \E c \in Senders, n \in Node, agent \in Agent \cup {NoAgent}, cost \in {0, 1}, artifact \in BOOLEAN :
          (artifact => n \in Required) /\ Complete(c, n, agent, artifact, cost)
    \/ \E c \in Senders, n \in Node, retried \in BOOLEAN : Fail(c, n, retried)
    \/ \E c \in Senders, n \in Required : TypedWorker(c, n)
    \/ \E c \in Senders, w \in Runner : Dispatch(c, w)
    \/ \E c \in Senders : Pause(c)
    \/ \E c \in Senders : KillByCli(c)
    \/ \E c \in Senders : Kill(c)
    \/ \E c \in Senders : Recover(c)
    \/ \E c \in Senders, evidence \in BOOLEAN : Aggregate(c, evidence)

SwarmSpec == SwarmInit /\ [][SwarmNext]_swarmVars

-----------------------------------------------------------------------------
(***************************************************************************)
(* Properties.  They hold although a request that overlaps another undoes  *)
(* what the other wrote: a completed node may be ready or running again,   *)
(* but then only more work is done, and none that counts is missing.       *)
(***************************************************************************)

\* A node is handed to a worker, or completed, only after every node it depends on
\* was completed, by whatever requests and however these overlapped.
StartsFollowCompletions ==
    \A n \in Node : row.statuses[n] = "RUNNING" \/ n \in done => Depends[n] \subseteq done

\* The swarm says that its evidence is ready, and a pull request is submitted, only
\* when every node of the plan was completed.
ReadyVerdictIsEarned == row.verdict = "EVIDENCE_READY" \/ submitted => done = Node

\* No more nodes run than the policy allows, though two dispatches may each find
\* the same places free.
RunningWithinLimit == Cardinality(Running(row)) <= MaxWorkers

\* What runs was allowed to start, and no more runs than may (dispatch, complete_node).
RunningNodesAreLicensed == SwarmTypeOK /\ StartsFollowCompletions /\ RunningWithinLimit
=============================================================================
