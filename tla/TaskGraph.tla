----------------------------- MODULE TaskGraph ------------------------------
(***************************************************************************)
(* The dynamic task graph (backend/localforge/services/task_graph.py): the *)
(* versions of a plan's graph, the journal of the mutations between them,  *)
(* the replay that rebuilds the last version from the first, and the deep  *)
(* swarm run whose queue of ready nodes the graph decides.                 *)
(*                                                                         *)
(* Two rows of a version cannot be stored, so that of two mutations of the *)
(* same version the second fails.  The row of the run is protected by      *)
(* nothing: see Requests.                                                  *)
(*                                                                         *)
(* A node keeps its dependencies in a list, and a superseding node is      *)
(* given the very list of the node it supersedes.  A stored version keeps  *)
(* no such sharing, but a replay, which goes through all mutations in one  *)
(* memory, does.  Hence list and deps: deps[list[n]] are the dependencies  *)
(* of n.                                                                   *)
(*                                                                         *)
(* Left out: hashes, artifacts and titles; that the actor of a mutation    *)
(* owns its node (the server may change any); calls, cost and tokens are   *)
(* one budget.                                                             *)
(***************************************************************************)
EXTENDS Requests, Graphs, FiniteSetsExt

CONSTANTS
    Node,           \* the names of nodes, in the order of their sorting
    PlanNode,       \* the nodes of the plan
    PlanDepends,    \* their depends_on
    PlanEdges,      \* the edges of the plan, pairs of nodes
    Key,            \* idempotency keys
    Enabled,        \* policy.enabled
    PreferLight,    \* policy.prefer_light_swarm
    Registered,     \* whether the policy registers decision contracts
    MaxNodes,       \* policy.max_nodes
    MaxFanOut,      \* policy.max_fan_out
    MaxDepth,       \* policy.max_depth
    MaxWorkers,     \* policy.max_concurrent_workers
    MaxMutations,   \* policy.max_mutations
    StallThreshold, \* policy.stall_tick_threshold
    Budget,         \* policy.max_paid_calls and max_cost_usd
    MaxVersion,     \* bound on the versions of the graph
    MaxClaims       \* bound on the nodes that claim a key

ASSUME GraphAssumption ==
    /\ Node \subseteq Nat \ {0} /\ IsFiniteSet(Node) /\ PlanNode \subseteq Node
    /\ PlanDepends \in [PlanNode -> SUBSET PlanNode] /\ PlanEdges \subseteq PlanNode \X PlanNode
    /\ {MaxNodes, MaxFanOut, MaxDepth, MaxWorkers, MaxMutations, StallThreshold} \subseteq Nat \ {0}
    /\ Budget \in Nat /\ MaxVersion \in Nat /\ MaxClaims \in Nat
    /\ IsFiniteSet(Client)
    /\ {Enabled, PreferLight, Registered} \subseteq BOOLEAN

\* The row is that of DeepSwarmRun.
VARIABLES
    graphs,   \* the stored versions, the version v at v + 1
    journal,  \* the mutations, in the order of their storing
    done      \* the nodes that were ever completed

graphVars == <<graphs, journal, row, requests, done>>

-----------------------------------------------------------------------------
(***************************************************************************)
(* Graphs                                                                  *)
(***************************************************************************)
NodesOf(g) == DOMAIN g.list
DependsOn(g, n) == g.deps[g.list[n]]
Edges(g) == [node |-> NodesOf(g), edge |-> g.edge]

\* A graph as it is stored and read again: each node has a list of its own.
Stored(g) == [g EXCEPT !.list = [n \in NodesOf(g) |-> n], !.deps = [n \in NodesOf(g) |-> DependsOn(g, n)]]

InitialGraph ==
    [edge |-> PlanEdges, status |-> [n \in PlanNode |-> "PENDING"],
     list |-> [n \in PlanNode |-> n], deps |-> PlanDepends]

Fresh(g, k) == {n \in Node \ NodesOf(g) : Cardinality({m \in Node \ NodesOf(g) : m < n}) < k}

\* CHILDREN are APPEND_CHILD, ADD_CRITIQUE and ADD_VERIFIER, with one node, and
\* SPLIT_TASK, with any number.  New nodes take the next names.
Mutations(g) ==
    [type : {"CHILDREN"}, node : NodesOf(g), with : {Fresh(g, k) : k \in 1..MaxFanOut}]
    \cup [type : {"DEPENDENCY"}, node : NodesOf(g), with : {{n} : n \in NodesOf(g)}]
    \cup [type : {"SUPERSEDE"}, node : NodesOf(g), with : {Fresh(g, 1)}]
    \cup [type : {"CANCEL"}, node : NodesOf(g), with : {{}}]

\* f, and where f says nothing g.
Over(f, g) == [x \in DOMAIN f \cup DOMAIN g |-> IF x \in DOMAIN f THEN f[x] ELSE g[x]]

Adopted(g, m) ==
    [edge |-> g.edge \cup ({m.node} \X m.with),
     status |-> Over([n \in m.with |-> "PENDING"], g.status),
     list |-> Over([n \in m.with |-> n], g.list),
     deps |-> Over([n \in m.with |-> {m.node}], g.deps)]

Ordered(g, m) ==
    [g EXCEPT !.edge = @ \cup (m.with \X {m.node}), !.deps[g.list[m.node]] = @ \cup m.with]

\* The nodes that depend on the old one keep it in their depends_on.
Superseded(g, m) ==
    [g EXCEPT !.edge = {e \in @ : e[1] # m.node} \cup (m.with \X Successors(Edges(g), m.node)),
              !.status = Over([n \in m.with |-> "PENDING"], [g.status EXCEPT ![m.node] = "SKIPPED"]),
              !.list = Over([n \in m.with |-> g.list[m.node]], @)]

\* The nodes at the end of paths of that many edges from these nodes.
After(g, nodes, count) ==
    LET after[k \in 0..count] == IF k = 0 THEN nodes ELSE AllSuccessors(Edges(g), after[k - 1])
    IN  after[count]

Cancelled(g, m) ==
    LET subtree == UNION {After(g, {m.node}, k) : k \in 0..Cardinality(NodesOf(g))}
    IN  [g EXCEPT !.status = [n \in NodesOf(g) |-> IF n \in subtree THEN "BLOCKED" ELSE @[n]]]

Mutated(g, m) ==
    CASE m.type = "CHILDREN" -> Adopted(g, m)
      [] m.type = "DEPENDENCY" -> Ordered(g, m)
      [] m.type = "SUPERSEDE" -> Superseded(g, m)
      [] m.type = "CANCEL" -> Cancelled(g, m)

IsAcyclic(g) == After(g, NodesOf(g), Cardinality(NodesOf(g))) = {}

\* A plan is stored only when it was found to be valid.
ASSUME PlanAssumption == IsAcyclic(InitialGraph)

\* _validate_graph_bounds
WithinBounds(g, depth, nodes) ==
    /\ Cardinality(NodesOf(g)) <= nodes
    /\ \A n \in NodesOf(g) : OutDegree(Edges(g), n) <= MaxFanOut
    /\ After(g, NodesOf(g), depth + 1) = {}

Acceptable_Cyclic(g, m) ==
    /\ m.with # {} \/ m.type = "CANCEL"
    /\ m.type = "DEPENDENCY" => m.with \X {m.node} \cap g.edge = {}
Acceptable(g, m) ==
    /\ m.with # {} \/ m.type = "CANCEL"
    /\ m.type = "DEPENDENCY" => m.with \X {m.node} \cap g.edge = {}
    /\ LET new == Mutated(g, m) IN IsAcyclic(new) /\ WithinBounds(new, MaxDepth, MaxNodes)

-----------------------------------------------------------------------------
(***************************************************************************)
(* Versions                                                                *)
(***************************************************************************)
Latest == graphs[Len(graphs)]
Version == Len(graphs) - 1

Contiguous == \A i \in DOMAIN journal :
    journal[i].sequence = i /\ journal[i].version = i /\ journal[i].parent = i - 1

Replay(v) ==
    LET replay[k \in 0..v] == IF k = 0 THEN graphs[1] ELSE Mutated(replay[k - 1], journal[k].mutation)
    IN  replay[v]

\* replay_graph does not raise.
Replayed(v) == Contiguous /\ Stored(Replay(v)) = graphs[v + 1]

-----------------------------------------------------------------------------
(***************************************************************************)
(* The run                                                                 *)
(***************************************************************************)
NodeStatus == {"PENDING", "READY", "RUNNING", "COMPLETED", "FAILED", "BLOCKED", "SKIPPED"}
RunStatus == {"NONE", "DISABLED", "PENDING", "RUNNING", "EXPANDING", "STALLED", "COMPLETED", "FAILED", "KILLED"}
Verdicts == {"", "FALLBACK", "EVIDENCE_READY", "STALLED_NO_PROGRESS", "LIMIT_EXCEEDED", "KILLED_BY_USER", "ESCALATED"}

NoKey == ""
NoRun == [status |-> "NONE", statuses |-> <<>>, active |-> {}, mutations |-> 0, stall |-> 0,
          spent |-> 0, keys |-> <<>>, used |-> {}, verdict |-> ""]
Executing(r) == r.status \in {"RUNNING", "EXPANDING"}
StatusOf(r, n) == IF n \in DOMAIN r.statuses THEN r.statuses[n] ELSE "PENDING"
KeyOf(r, n) == IF n \in DOMAIN r.keys THEN r.keys[n] ELSE NoKey
In(r, s) == {n \in DOMAIN r.statuses : r.statuses[n] = s}
Going(r) == In(r, "RUNNING")

Dependencies(g, n) == DependsOn(g, n) \cup Predecessors(Edges(g), n)

\* _resolve_ready_node_ids, and the first of them in their order
ReadyNodes_ByEdges(g, r) ==
    {n \in NodesOf(g) : StatusOf(r, n) \in {"PENDING", "READY"}
        /\ Predecessors(Edges(g), n) \subseteq In(r, "COMPLETED")}
ReadyNodes(g, r) ==
    {n \in NodesOf(g) : StatusOf(r, n) \in {"PENDING", "READY"}
        /\ Dependencies(g, n) \subseteq In(r, "COMPLETED")}

FirstReady(g, r, k) ==
    {n \in ReadyNodes(g, r) : Cardinality({m \in ReadyNodes(g, r) : m < n}) < k}

GraphTypeOK ==
    /\ Len(graphs) \in 1..(MaxVersion + 1)
    /\ \A i \in DOMAIN graphs :
          /\ NodesOf(graphs[i]) \subseteq Node /\ graphs[i] = Stored(graphs[i])
          /\ graphs[i].edge \subseteq NodesOf(graphs[i]) \X NodesOf(graphs[i])
          /\ \A n \in NodesOf(graphs[i]) : DependsOn(graphs[i], n) \subseteq NodesOf(graphs[i])
    /\ Len(journal) = Version
    /\ row.status \in RunStatus /\ row.verdict \in Verdicts
    /\ DOMAIN row.statuses \subseteq Node /\ \A n \in DOMAIN row.statuses : row.statuses[n] \in NodeStatus
    /\ row.active \subseteq Node /\ Cardinality(row.active) <= MaxWorkers
    /\ row.mutations \in 0..MaxMutations
    /\ row.stall \in 0..(StallThreshold + Cardinality(Client))  \* a request that overlaps revives a run
    /\ row.spent \in 0..(Budget + 1)
    /\ \A n \in DOMAIN row.keys : row.keys[n] \in Key
    /\ row.used \subseteq Key
    /\ RequestsTypeOK
    /\ done \subseteq Node

GraphInit ==
    /\ graphs = <<InitialGraph>>
    /\ journal = <<>>
    /\ row = NoRun
    /\ requests = [c \in Client |-> Unsent]
    /\ done = {}

\* The version of the graph that a request of this client reads.
VersionOf(c) == Beside(c, Version)
GraphOf(c) == graphs[VersionOf(c) + 1]

-----------------------------------------------------------------------------
(***************************************************************************)
(* Mutations                                                               *)
(***************************************************************************)

\* No row of this version is stored yet.
Unstored_Unconstrained(v) == v > 0
Unstored(v) == v > Version

\* A mutation by the server may name no run.
NamesNoRun(c) == Write(c, View(c), {})

NamesRun(c, new) ==
    LET r == View(c)
        told == [r EXCEPT !.statuses = Over(@, [n \in NodesOf(new) |-> "PENDING"]), !.mutations = @ + 1,
                          !.status = "EXPANDING"]
    IN  /\ Executing(r)
        /\ r.mutations < MaxMutations /\ r.spent < Budget /\ Registered
        /\ Cardinality(r.active) <= MaxWorkers
        /\ Write(c, [told EXCEPT !.active = FirstReady(new, told, MaxWorkers)], {})

JournalEntry(v, m) ==
    [sequence |-> Len(journal) + 1, version |-> v + 1, parent |-> v, mutation |-> m]

Mutate(c, m) ==
    LET v == VersionOf(c)
        new == Stored(Mutated(GraphOf(c), m))
    IN  /\ Unstored(v + 1)
        /\ Acceptable(GraphOf(c), m)
        /\ graphs' = Append(graphs, new)
        /\ journal' = Append(journal, JournalEntry(v, m))
        /\ NamesNoRun(c) \/ NamesRun(c, new)
        /\ UNCHANGED done

-----------------------------------------------------------------------------
(***************************************************************************)
(* The run's life                                                          *)
(***************************************************************************)
FitsLightSwarm == WithinBounds(Latest, 1, 4)
FallsBack == (PreferLight /\ FitsLightSwarm) \/ MaxWorkers = 1 \/ ~Registered

Create ==
    LET known == [NoRun EXCEPT !.statuses = Latest.status]
        usable == Enabled /\ ~(PreferLight /\ FitsLightSwarm) /\ (MaxWorkers = 1 \/ Registered)
    IN  /\ row = NoRun
        /\ WithinBounds(Latest, MaxDepth, MaxNodes)
        /\ Write(Alone, [known EXCEPT !.status = IF usable THEN "PENDING" ELSE "DISABLED",
                                      !.active = FirstReady(Latest, known, MaxWorkers),
                                      !.verdict = IF Enabled /\ FallsBack THEN "FALLBACK" ELSE ""], {})
        /\ UNCHANGED <<graphs, journal, done>>

Enable(c) ==
    /\ View(c).status = "PENDING"
    /\ Write(c, [View(c) EXCEPT !.status = "RUNNING"], {})
    /\ UNCHANGED <<graphs, journal, done>>

Kill(c) ==
    /\ View(c).status # "NONE"
    /\ Write(c, [View(c) EXCEPT !.status = "KILLED", !.verdict = "KILLED_BY_USER"], {})
    /\ UNCHANGED <<graphs, journal, done>>

Startable(r, n) == Executing(r) /\ n \in r.active /\ Cardinality(Going(r)) < MaxWorkers

StartNode(c, n) ==
    /\ Startable(View(c), n)
    /\ Write(c, [View(c) EXCEPT !.statuses = Over([m \in {n} |-> "RUNNING"], @)], {})
    /\ UNCHANGED <<graphs, journal, done>>

-----------------------------------------------------------------------------
(***************************************************************************)
(* Ticks                                                                   *)
(***************************************************************************)
Charged(r, cost) == [r EXCEPT !.spent = Min({@ + cost, Budget + 1})]

Finished_Blocked(r) == \A n \in DOMAIN r.statuses : r.statuses[n] \in {"COMPLETED", "SKIPPED", "BLOCKED"}
Finished(r) == \A n \in DOMAIN r.statuses : r.statuses[n] \in {"COMPLETED", "SKIPPED"}

Completed(r, nodes) == [r EXCEPT !.statuses = Over([n \in nodes |-> "COMPLETED"], @)]

Advanced(r) ==
    [r EXCEPT !.stall = 0,
              !.active = Going(r) \cup FirstReady(Latest, r, MaxWorkers - Cardinality(Going(r))),
              !.status = IF Finished(r) THEN "COMPLETED" ELSE "RUNNING",
              !.verdict = IF Finished(r) THEN "EVIDENCE_READY" ELSE @]

OverLimit(r) == r.mutations >= MaxMutations \/ r.spent > Budget \/ Cardinality(r.active) > MaxWorkers

\* overdue: max_duration_seconds have passed.
Judged(r, overdue) ==
    IF OverLimit(r) \/ overdue THEN [r EXCEPT !.status = "FAILED", !.verdict = "LIMIT_EXCEEDED"]
    ELSE IF r.stall >= StallThreshold THEN [r EXCEPT !.status = "STALLED", !.verdict = "STALLED_NO_PROGRESS"]
    ELSE r

TickIdle(c, cost, overdue) ==
    /\ Executing(View(c))
    /\ Write(c, Judged([Charged(View(c), cost) EXCEPT !.stall = @ + 1], overdue), {})
    /\ UNCHANGED <<graphs, journal, done>>

\* Some running nodes are reported completed.  One that does not run, or a replay that
\* diverges, refuses the whole tick.
TickProgress(c, nodes, cost, overdue) ==
    /\ Executing(View(c))
    /\ Replayed(Version)
    /\ Write(c, Judged(Advanced(Completed(Charged(View(c), cost), nodes)), overdue), {})
    /\ done' = done \cup nodes
    /\ UNCHANGED <<graphs, journal>>

-----------------------------------------------------------------------------
(***************************************************************************)
(* Side effects and restarts                                               *)
(***************************************************************************)

\* The node is one the run knows; the code asks for none.
ClaimSideEffect(c, n, key) ==
    /\ n \in DOMAIN View(c).statuses /\ key \notin View(c).used
    /\ KeyOf(View(c), n) \in {NoKey, key}
    /\ Cardinality(DOMAIN View(c).keys \cup {n}) <= MaxClaims
    /\ Write(c, [View(c) EXCEPT !.keys = Over([m \in {n} |-> key], @)], {})
    /\ UNCHANGED <<graphs, journal, done>>

CompleteSideEffect(c, n) ==
    /\ KeyOf(View(c), n) # NoKey
    /\ Write(c, [Completed(View(c), {n}) EXCEPT !.used = @ \cup {KeyOf(View(c), n)}, !.active = @ \ {n}], {})
    /\ done' = done \cup {n}
    /\ UNCHANGED <<graphs, journal>>

Requeued(r) ==
    [r EXCEPT !.statuses = [n \in DOMAIN @ |->
        IF @[n] # "RUNNING" THEN @[n] ELSE IF KeyOf(r, n) \in r.used THEN "COMPLETED" ELSE "PENDING"]]

\* A graph that cannot be replayed fails the run.
Reconcile(c) ==
    LET r == Requeued(View(c))
    IN  /\ View(c).status # "NONE"
        /\ Write(c, IF Replayed(VersionOf(c))
                    THEN [r EXCEPT !.active = FirstReady(GraphOf(c), r, MaxWorkers),
                                   !.status = IF @ = "EXPANDING" THEN "RUNNING" ELSE @]
                    ELSE [View(c) EXCEPT !.status = "FAILED", !.verdict = "ESCALATED"], {})
        /\ done' = IF Replayed(VersionOf(c)) THEN done \cup In(r, "COMPLETED") ELSE done
        /\ UNCHANGED <<graphs, journal>>

GraphNext ==
    \/ Create
    \/ \E c \in Client : Read(c, Version) /\ UNCHANGED <<graphs, journal, done>>
    \/ \E c \in Senders : Version < MaxVersion /\ \E m \in Mutations(GraphOf(c)) : Mutate(c, m)
    \/ \E c \in Senders : Enable(c)
    \/ \E c \in Senders : Kill(c)
    \/ \E c \in Senders, n \in Node : StartNode(c, n)
    \/ \E c \in Senders, cost \in {0, 1}, overdue \in BOOLEAN : TickIdle(c, cost, overdue)
    \/ \E c \in Senders : \E nodes \in (SUBSET Going(View(c))) \ {{}}, cost \in {0, 1}, overdue \in BOOLEAN :
          TickProgress(c, nodes, cost, overdue)
    \/ \E c \in Senders, n \in Node, key \in Key : ClaimSideEffect(c, n, key)
    \/ \E c \in Senders, n \in Node : CompleteSideEffect(c, n)
    \/ \E c \in Senders : Reconcile(c)

GraphSpec == GraphInit /\ [][GraphNext]_graphVars

-----------------------------------------------------------------------------
(***************************************************************************)
(* Properties                                                              *)
(***************************************************************************)

\* The versions and the journal advance together by one, although two mutations may
\* start from the same version.
JournalIsContiguous == Contiguous /\ Len(journal) = Version

\* No version has a cycle among its edges, and none but that of the plan, before a run of
\* it was created, more nodes or children than the policy allows, or a longer path.
GraphsStayBounded ==
    /\ IsAcyclic(Latest)
    /\ Version > 0 \/ row.status # "NONE" => WithinBounds(Latest, MaxDepth, MaxNodes)

\* A replay rebuilds the latest version, unless a node was superseded: only the list that
\* the two nodes then share makes it diverge.
ReplayFailsOnlyBySharing ==
    ~Replayed(Version) => \E i \in DOMAIN journal : journal[i].mutation.type = "SUPERSEDE"

\* The journal tells how the latest version came about (apply_mutation, replay_graph).
JournalRebuildsGraph == GraphTypeOK /\ JournalIsContiguous /\ ReplayFailsOnlyBySharing

\* A node runs only when all that it depended on in some version was completed,
\* however mutations, ticks, side effects and restarts overlapped.
StartsFollowDependencies ==
    \A n \in Going(row) : \E i \in DOMAIN graphs :
        n \in NodesOf(graphs[i]) /\ Dependencies(graphs[i], n) \subseteq done

\* No more nodes run than the policy allows, though a mutation forgets which ones run
\* when it fills the queue anew.
NodesWithinLimit == Cardinality(Going(row)) <= MaxWorkers

\* What runs was allowed to start, and no more runs than may (tick_deep_swarm, start_node).
RunningNodesAreLicensed == StartsFollowDependencies /\ NodesWithinLimit

\* When the run says that its evidence is ready, every node it knows of was completed,
\* or superseded before the run was created.
EvidenceIsEarned ==
    [][row'.verdict = "EVIDENCE_READY" /\ row.verdict # "EVIDENCE_READY" =>
        \A n \in DOMAIN row'.statuses : n \in done' \/ row'.statuses[n] = "SKIPPED"]_graphVars
=============================================================================
