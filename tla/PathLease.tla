------------------------------ MODULE PathLease -----------------------------
(***************************************************************************)
(* Write leases on repository paths                                        *)
(* (backend/localforge/services/path_lease.py).  Every call first writes   *)
(* the project's row of path_lease_project_locks, so calls for a project   *)
(* are serialized by the database and each is one action.                  *)
(*                                                                         *)
(* A path is the sequence of its components.  The table's unique key       *)
(* (project_id, active_conflict_key) leaves room for one unreleased lease  *)
(* per path, so the leases are a function of the path; a lease is released *)
(* by its id, so a stale owner's late release touches nothing.  Time is a  *)
(* tick; left counts the ticks to expires_at.                              *)
(***************************************************************************)
EXTENDS Naturals, Sequences, FiniteSets, SequencesExt

CONSTANTS
    Owner,      \* owner ids; numbers, because the victim is the greatest
    RunOf,      \* [Owner -> task run]
    Path,       \* the target paths, as sequences of components
    Ttl,        \* the ticks a lease or a renewal grants
    WaitTtl,    \* wait_timeout_seconds
    Threshold   \* escalation_threshold

ASSUME PathLeaseAssumption ==
    /\ Owner \subseteq Nat \ {0} /\ IsFiniteSet(Owner) /\ IsFiniteSet(Path)
    /\ Ttl \in Nat \ {0} /\ WaitTtl \in Nat \ {0} /\ Threshold \in Nat
    /\ DOMAIN RunOf = Owner
    /\ \A p \in Path : p \in Seq(STRING)

VARIABLES
    lease,   \* the unreleased lease of each path; also an expired one stays
    wait,    \* the latest wait edge of each owner for each path
    answer   \* what the last acquire_lease returned

vars == <<lease, wait, answer>>

Nobody == 0
NoLease == [owner |-> Nobody, left |-> 0]
WaitStatus == {"NONE", "WAITING", "ESCALATED", "TIMED_OUT", "DEADLOCK_VICTIM", "CANCELLED"}
NoWait == [status |-> "NONE", blocker |-> Nobody, position |-> 0, contention |-> 0, left |-> 0]
NoAnswer == [verdict |-> "NONE", owner |-> Nobody, path |-> <<>>]

TypeOK ==
    /\ lease \in [Path -> [owner : Owner \cup {Nobody}, left : 0..Ttl]]
    /\ wait \in [Owner -> [Path -> [status : WaitStatus, blocker : Owner \cup {Nobody},
                   position : Nat, contention : Nat, left : 0..WaitTtl]]]
    /\ answer.verdict \in {"NONE", "GRANTED", "CONFLICT", "CONCURRENT"}

Init ==
    /\ lease = [p \in Path |-> NoLease]
    /\ wait = [o \in Owner |-> [p \in Path |-> NoWait]]
    /\ answer = NoAnswer

-----------------------------------------------------------------------------
Live(p) == lease[p].owner # Nobody /\ lease[p].left > 0

\* normalize_lease_path: the repository root normalizes to ".".
Normalized(p) == IF p = <<>> THEN <<".">> ELSE p

Overlap_SamePath(p, q) == Normalized(p) = Normalized(q)

\* is_path_overlapping: the same path, or one a parent of the other.
Overlap(p, q) ==
    IsPrefix(Normalized(p), Normalized(q)) \/ IsPrefix(Normalized(q), Normalized(p))

\* The owners whose live leases stand in the way of o at p.
Conflicts(o, p) ==
    {lease[q].owner : q \in {r \in Path : Live(r) /\ lease[r].owner # o /\ Overlap(r, p)}}

Answer(verdict, o, p) == answer' = [verdict |-> verdict, owner |-> o, path |-> p]

\* acquire_lease, no conflict: the insert succeeds unless the unique key is
\* taken, which an expired lease keeps it.
Grant(o, p) ==
    /\ Conflicts(o, p) = {}
    /\ lease[p].owner = Nobody
    /\ lease' = [lease EXCEPT ![p] = [owner |-> o, left |-> Ttl]]
    /\ Answer("GRANTED", o, p)
    /\ UNCHANGED wait

Refuse(o, p) ==
    /\ Conflicts(o, p) = {}
    /\ lease[p].owner # Nobody
    /\ Answer("CONCURRENT", o, p)
    /\ UNCHANGED <<lease, wait>>

-----------------------------------------------------------------------------
Waiting(o, p) == wait[o][p].status = "WAITING"

\* A resolved edge is never read again but for its status.
Resolved(status) == [NoWait EXCEPT !.status = status]

\* expire_waits, called by enqueue_wait only.
WaitsExpired ==
    [o \in Owner |-> [p \in Path |->
        IF Waiting(o, p) /\ wait[o][p].left = 0
        THEN Resolved("TIMED_OUT") ELSE wait[o][p]]]

\* The same owner asks for the same path again.
Recontended(record) ==
    IF record.contention + 1 >= Threshold
    THEN Resolved("ESCALATED") ELSE [record EXCEPT !.contention = @ + 1]

Queued(waits, o, p, blocker) ==
    [status |-> "WAITING", blocker |-> blocker, contention |-> 1, left |-> WaitTtl,
     position |-> 1 + Cardinality({u \in Owner : waits[u][p].status = "WAITING"})]

Peers_WrongWay(waits, o, blocker) ==
    {e \in {o} \X Path :
        waits[e[1]][e[2]].status = "WAITING" /\ waits[e[1]][e[2]].blocker = o}

\* The edges of a two-cycle with the new edge o -> blocker.
Peers(waits, o, blocker) ==
    {e \in {blocker} \X Path :
        waits[e[1]][e[2]].status = "WAITING" /\ waits[e[1]][e[2]].blocker = o}

\* The greater owner of a two-cycle is the victim: its edge is resolved.
Victim(waits, o, p, blocker) ==
    LET edge == IF o > blocker THEN <<o, p>>
                ELSE CHOOSE e \in Peers(waits, o, blocker) : TRUE
    IN  [waits EXCEPT ![edge[1]][edge[2]] = Resolved("DEADLOCK_VICTIM")]

\* acquire_or_wait on a conflict: enqueue_wait.  Several peer edges make the
\* query for one raise, which undoes the call.
EnqueueWait(o, p) ==
    \E blocker \in Conflicts(o, p) :
       LET expired == WaitsExpired
           queued == [expired EXCEPT ![o][p] = Queued(expired, o, p, blocker)]
           peers == Peers(queued, o, blocker)
       IN  /\ \/ /\ expired[o][p].status = "WAITING"
                 /\ wait' = [expired EXCEPT ![o][p] = Recontended(@)]
              \/ /\ expired[o][p].status # "WAITING"
                 /\ Cardinality(peers) <= 1
                 /\ wait' = IF peers = {} THEN queued ELSE Victim(queued, o, p, blocker)
           /\ Answer("CONFLICT", o, p)
           /\ UNCHANGED lease

CancelWait(o, p) ==
    /\ Waiting(o, p)
    /\ wait' = [wait EXCEPT ![o][p] = Resolved("CANCELLED")]
    /\ UNCHANGED <<lease, answer>>

-----------------------------------------------------------------------------
\* release_lease, by the owner, also when the lease has expired.
ReleaseLease(p) ==
    /\ lease[p].owner # Nobody
    /\ lease' = [lease EXCEPT ![p] = NoLease]
    /\ UNCHANGED <<wait, answer>>

RenewLease(p) ==
    /\ Live(p)
    /\ lease' = [lease EXCEPT ![p].left = Ttl]
    /\ UNCHANGED <<wait, answer>>

\* release_all_leases_for_run
ReleaseRun(run) ==
    /\ lease' = [p \in Path |->
                   IF lease[p].owner # Nobody /\ RunOf[lease[p].owner] = run
                   THEN NoLease ELSE lease[p]]
    /\ UNCHANGED <<wait, answer>>

Tick ==
    /\ \/ \E p \in Path : lease[p].left > 0
       \/ \E o \in Owner, p \in Path : wait[o][p].left > 0
    /\ lease' = [p \in Path |-> [lease[p] EXCEPT !.left = IF @ = 0 THEN 0 ELSE @ - 1]]
    /\ wait' = [o \in Owner |-> [p \in Path |->
                  [wait[o][p] EXCEPT !.left = IF @ = 0 THEN 0 ELSE @ - 1]]]
    /\ UNCHANGED answer

Next ==
    \/ \E o \in Owner, p \in Path :
          Grant(o, p) \/ Refuse(o, p) \/ EnqueueWait(o, p) \/ CancelWait(o, p)
    \/ \E p \in Path : ReleaseLease(p) \/ RenewLease(p)
    \/ \E o \in Owner : ReleaseRun(RunOf[o])
    \/ Tick

Spec == Init /\ [][Next]_vars

-----------------------------------------------------------------------------
(***************************************************************************)
(* Properties.                                                             *)
(***************************************************************************)

\* Two owners never hold live leases on paths of which one contains the other
\* (docs/compliance_backlog_V6-1.md: "No silent path collision is possible in
\* supported databases.").
NoSilentCollision ==
    \A p, q \in Path :
        Live(p) /\ Live(q) /\ lease[p].owner # lease[q].owner
            => ~IsPrefix(p, q) /\ ~IsPrefix(q, p)

\* Two owners never wait for each other at once: of each such pair one edge is
\* resolved as the victim of the deadlock.
NoMutualWait ==
    \A o, u \in Owner, p, q \in Path :
        ~(/\ Waiting(o, p) /\ wait[o][p].blocker = u
          /\ Waiting(u, q) /\ wait[u][q].blocker = o)

\* The leases and the queue are well formed, and no two owners in it wait for each other.
WaitsAreSound == TypeOK /\ NoMutualWait
=============================================================================
