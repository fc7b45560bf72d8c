---------------------------- MODULE ServiceProofs ---------------------------
(***************************************************************************)
(* Theorems about the four services that share no state: the path leases,  *)
(* the ledger of model calls, the harness document and the engineering     *)
(* sessions.  Each is proved of its own specification, for every value of  *)
(* its constants, from an inductive invariant given in its section.        *)
(***************************************************************************)
EXTENDS PathLease, ModelCalls, HarnessDocument, EngineeringContinuity, TLAPS, FiniteSetTheorems

-----------------------------------------------------------------------------
(* The path leases.  Without a lease on the repository root itself, leases  *)
(* never collide, for any number of owners, paths and ticks; the invariant  *)
(* is inductive once it is known what a lease record looks like.            *)

LeaseType == lease \in [Path -> [owner : Owner \cup {Nobody}, left : Nat]]

LeaseInv == LeaseType /\ NoSilentCollision

\* Away from the root, the code's overlap is containment of paths.
LEMMA OverlapIsContainment ==
    ASSUME <<>> \notin Path, NEW p \in Path, NEW q \in Path
    PROVE  Overlap(p, q) <=> IsPrefix(p, q) \/ IsPrefix(q, p)
  BY DEF Overlap, Normalized

LEMMA InitLeases == Init => LeaseInv
  BY DEF Init, LeaseInv, LeaseType, NoLease, Nobody, NoSilentCollision, Live

\* A step that leaves every lease alone, shortens it, gives its ticks back to
\* the same owner while it is live, or releases it, makes no collision.
LEMMA NoNewOwner ==
    ASSUME LeaseInv, LeaseType',
           \A p \in Path : Live(p)' => Live(p) /\ lease'[p].owner = lease[p].owner
    PROVE  LeaseInv'
  BY DEF LeaseInv, NoSilentCollision

\* Every step keeps the leases apart; only Grant gives a path a new owner, and
\* it looked at the live leases first.
LEMMA NextLeases ==
    ASSUME <<>> \notin Path, LeaseInv, [Next]_vars
    PROVE  LeaseInv'
  <1>1. /\ Ttl \in Nat /\ Nobody \notin Owner /\ NoLease.owner = Nobody
        /\ NoLease \in [owner : Owner \cup {Nobody}, left : Nat]
    BY PathLeaseAssumption DEF PathLeaseAssumption, Nobody, NoLease
  <1>2. \A p \in Path : lease[p] \in [owner : Owner \cup {Nobody}, left : Nat]
    BY DEF LeaseInv, LeaseType
  <1>3. ASSUME NEW o \in Owner, NEW p \in Path, Grant(o, p) PROVE LeaseInv'
    <2>1. lease' = [lease EXCEPT ![p] = [owner |-> o, left |-> Ttl]]
      BY <1>3 DEF Grant
    <2>2. LeaseType'
      BY <1>1, <2>1 DEF LeaseInv, LeaseType
    <2>3. ASSUME NEW q \in Path, q # p PROVE lease'[q] = lease[q] /\ Live(q)' = Live(q)
      BY <1>2, <2>1, <2>3 DEF LeaseInv, LeaseType, Live
    <2>4. lease'[p].owner = o
      BY <2>1 DEF LeaseInv, LeaseType
    <2>5. ASSUME NEW q \in Path, q # p, Live(q), lease[q].owner # o
          PROVE  ~IsPrefix(p, q) /\ ~IsPrefix(q, p)
      <3>1. ~Overlap(q, p)
        BY <1>3, <2>5 DEF Grant, Conflicts
      <3> QED
        BY <3>1, OverlapIsContainment
    <2>6. NoSilentCollision'
      <3> SUFFICES ASSUME NEW q \in Path, NEW r \in Path, Live(q)', Live(r)',
                          lease'[q].owner # lease'[r].owner
                   PROVE  ~IsPrefix(q, r) /\ ~IsPrefix(r, q)
        BY DEF NoSilentCollision
      <3>1. CASE q = p
        BY <2>3, <2>4, <2>5, <3>1
      <3>2. CASE r = p
        BY <2>3, <2>4, <2>5, <3>2
      <3>3. CASE q # p /\ r # p
        BY <2>3, <3>3 DEF LeaseInv, NoSilentCollision
      <3> QED
        BY <3>1, <3>2, <3>3
    <2> QED
      BY <2>2, <2>6 DEF LeaseInv
  <1>4. ASSUME NEW p \in Path, ReleaseLease(p) PROVE LeaseInv'
    <2>1. lease' = [lease EXCEPT ![p] = NoLease] /\ LeaseType'
      BY <1>1, <1>4 DEF ReleaseLease, LeaseInv, LeaseType
    <2>2. \A q \in Path : Live(q)' => Live(q) /\ lease'[q].owner = lease[q].owner
      BY <1>1, <2>1 DEF LeaseInv, LeaseType, Live
    <2> QED
      BY <2>1, <2>2, NoNewOwner
  <1>5. ASSUME NEW p \in Path, RenewLease(p) PROVE LeaseInv'
    <2>1. Live(p) /\ lease' = [lease EXCEPT ![p].left = Ttl]
      BY <1>5 DEF RenewLease
    <2>2. LeaseType'
      BY <1>1, <1>2, <2>1 DEF LeaseInv, LeaseType
    <2>3. \A q \in Path : Live(q)' => Live(q) /\ lease'[q].owner = lease[q].owner
      BY <1>2, <2>1 DEF LeaseInv, LeaseType, Live
    <2> QED
      BY <2>2, <2>3, NoNewOwner
  <1>6. ASSUME NEW run, ReleaseRun(run) PROVE LeaseInv'
    <2>1. LeaseType'
      BY <1>1, <1>2, <1>6 DEF ReleaseRun, LeaseType
    <2>2. \A q \in Path : Live(q)' => Live(q) /\ lease'[q].owner = lease[q].owner
      BY <1>1, <1>6 DEF ReleaseRun, Live
    <2> QED
      BY <2>1, <2>2, NoNewOwner
  <1>7. ASSUME Tick PROVE LeaseInv'
    <2>1. lease' = [p \in Path |-> [lease[p] EXCEPT !.left = IF @ = 0 THEN 0 ELSE @ - 1]]
      BY <1>7 DEF Tick
    <2>2. LeaseType'
      BY <1>2, <2>1 DEF LeaseType
    <2>3. \A q \in Path : Live(q)' => Live(q) /\ lease'[q].owner = lease[q].owner
      BY <1>2, <2>1 DEF Live
    <2> QED
      BY <2>2, <2>3, NoNewOwner
  <1>8. ASSUME UNCHANGED lease PROVE LeaseInv'
    BY <1>8 DEF LeaseInv, LeaseType, NoSilentCollision, Live
  <1>9. \/ UNCHANGED lease \/ Tick
        \/ \E o \in Owner, p \in Path : Grant(o, p)
        \/ \E p \in Path : ReleaseLease(p) \/ RenewLease(p)
        \/ \E o \in Owner : ReleaseRun(RunOf[o])
    BY DEF Next, vars, Refuse, EnqueueWait, CancelWait
  <1> QED
    BY <1>3, <1>4, <1>5, <1>6, <1>7, <1>8, <1>9

\* Owners that lease files and directories below the root never write to one
\* another's: at no time do live leases of two owners contain one another.
THEOREM LeasesNeverCollide ==
    ASSUME <<>> \notin Path
    PROVE  Spec => []NoSilentCollision
  <1>1. LeaseInv /\ [Next]_vars => LeaseInv'
    BY NextLeases
  <1>2. LeaseInv => NoSilentCollision
    BY DEF LeaseInv
  <1> QED
    BY <1>1, <1>2, InitLeases, PTL DEF Spec

-----------------------------------------------------------------------------
(* The queue of the path leases.  Two owners never wait for each other: the *)
(* property is inductive, since the only new edge of a step is checked      *)
(* against every edge that could close a cycle of two with it.              *)

Wait == [status : WaitStatus, blocker : Owner \cup {Nobody},
         position : Nat, contention : Nat, left : 0..WaitTtl]

\* NoMutualWait of a queue that is not the current one.
NoneWaitMutually(waits) ==
    \A o, u \in Owner, p, q \in Path :
        ~(/\ waits[o][p].status = "WAITING" /\ waits[o][p].blocker = u
          /\ waits[u][q].status = "WAITING" /\ waits[u][q].blocker = o)

Sound(waits) == waits \in [Owner -> [Path -> Wait]] /\ NoneWaitMutually(waits)

LEMMA SoundIsTyped ==
    WaitsAreSound <=>
       /\ lease \in [Path -> [owner : Owner \cup {Nobody}, left : 0..Ttl]]
       /\ Sound(wait)
       /\ answer.verdict \in {"NONE", "GRANTED", "CONFLICT", "CONCURRENT"}
  BY DEF WaitsAreSound, TypeOK, Wait, Sound, NoneWaitMutually, NoMutualWait, Waiting

LEMMA ResolvedIsTyped ==
    ASSUME NEW status \in WaitStatus
    PROVE  Resolved(status) \in Wait /\ Resolved(status).status = status
  BY PathLeaseAssumption DEF PathLeaseAssumption, Resolved, NoWait, Wait, Nobody

\* A step that leaves each edge alone, resolves it or keeps what it waits for.
LEMMA NoNewEdge ==
    ASSUME NEW waits, NEW next, Sound(waits), next \in [Owner -> [Path -> Wait]],
           \A o \in Owner, p \in Path : next[o][p].status = "WAITING" =>
              waits[o][p].status = "WAITING" /\ next[o][p].blocker = waits[o][p].blocker
    PROVE  Sound(next)
  <1> SUFFICES ASSUME NEW o \in Owner, NEW u \in Owner, NEW p \in Path, NEW q \in Path,
                      next[o][p].status = "WAITING", next[o][p].blocker = u,
                      next[u][q].status = "WAITING", next[u][q].blocker = o
               PROVE  FALSE
    BY DEF Sound, NoneWaitMutually
  <1>1. waits[o][p].status = "WAITING" /\ waits[o][p].blocker = u
    OBVIOUS
  <1>2. waits[u][q].status = "WAITING" /\ waits[u][q].blocker = o
    OBVIOUS
  <1> QED
    BY <1>1, <1>2 DEF Sound, NoneWaitMutually

LEMMA ChangeOneEdge ==
    ASSUME NEW waits, waits \in [Owner -> [Path -> Wait]], NEW o \in Owner, NEW p \in Path,
           NEW record \in Wait, NEW next, next = [waits EXCEPT ![o][p] = record]
    PROVE  /\ next \in [Owner -> [Path -> Wait]]
           /\ next[o][p] = record
           /\ \A u \in Owner, q \in Path : u # o \/ q # p => next[u][q] = waits[u][q]
  <1>1. waits[o] \in [Path -> Wait]
    OBVIOUS
  <1>2. next = [waits EXCEPT ![o] = [waits[o] EXCEPT ![p] = record]]
    OBVIOUS
  <1>3. [waits[o] EXCEPT ![p] = record] \in [Path -> Wait]
    BY <1>1
  <1>4. \A u \in Owner : next[u] = IF u = o THEN [waits[o] EXCEPT ![p] = record] ELSE waits[u]
    BY <1>2
  <1>5. next \in [Owner -> [Path -> Wait]]
    BY <1>2, <1>3
  <1> QED
    BY <1>1, <1>4, <1>5

LEMMA ExpiryIsSound ==
    ASSUME Sound(wait)
    PROVE  Sound(WaitsExpired)
  <1>1. \A o \in Owner, p \in Path : wait[o][p] \in Wait
    BY DEF Sound
  <1>2. Resolved("TIMED_OUT") \in Wait /\ Resolved("TIMED_OUT").status = "TIMED_OUT"
    BY ResolvedIsTyped DEF WaitStatus
  <1>3. WaitsExpired \in [Owner -> [Path -> Wait]]
    BY <1>1, <1>2 DEF WaitsExpired
  <1>4. \A o \in Owner, p \in Path :
           WaitsExpired[o][p] = IF Waiting(o, p) /\ wait[o][p].left = 0
                                THEN Resolved("TIMED_OUT") ELSE wait[o][p]
    BY DEF WaitsExpired
  <1> QED
    BY <1>2, <1>3, <1>4, NoNewEdge

LEMMA QueuedIsTyped ==
    ASSUME NEW waits, NEW o \in Owner, NEW p \in Path, NEW blocker \in Owner
    PROVE  /\ Queued(waits, o, p, blocker) \in Wait
           /\ Queued(waits, o, p, blocker).status = "WAITING"
           /\ Queued(waits, o, p, blocker).blocker = blocker
  <1> DEFINE queue == {u \in Owner : waits[u][p].status = "WAITING"}
  <1>1. Cardinality(queue) \in Nat
    BY PathLeaseAssumption, FS_Subset, FS_CardinalityType DEF PathLeaseAssumption
  <1>2. 1 + Cardinality(queue) \in Nat
    BY <1>1
  <1> QED
    BY <1>2, PathLeaseAssumption DEF PathLeaseAssumption, Queued, Wait, WaitStatus

\* A new edge closes at most one two-cycle, and the victim's edge opens it again.
LEMMA VictimBreaksTheCycle ==
    ASSUME NEW waits, Sound(waits), NEW o \in Owner, NEW p \in Path,
           NEW blocker \in Owner, blocker # o, waits[o][p].status # "WAITING",
           NEW queued, queued = [waits EXCEPT ![o][p] = Queued(waits, o, p, blocker)],
           Cardinality(Peers(queued, o, blocker)) <= 1
    PROVE  Sound(IF Peers(queued, o, blocker) = {} THEN queued
                 ELSE Victim(queued, o, p, blocker))
  <1> DEFINE peers == Peers(queued, o, blocker)
             record == Queued(waits, o, p, blocker)
             resolved == Resolved("DEADLOCK_VICTIM")
  <1>1. record \in Wait /\ record.status = "WAITING" /\ record.blocker = blocker
    BY QueuedIsTyped
  <1>2. resolved \in Wait /\ resolved.status = "DEADLOCK_VICTIM"
    BY ResolvedIsTyped DEF WaitStatus
  <1>3. waits \in [Owner -> [Path -> Wait]] /\ NoneWaitMutually(waits)
    BY DEF Sound
  <1>4. /\ queued \in [Owner -> [Path -> Wait]] /\ queued[o][p] = record
        /\ \A u \in Owner, q \in Path : u # o \/ q # p => queued[u][q] = waits[u][q]
    <2>1. queued = [waits EXCEPT ![o][p] = record]
      OBVIOUS
    <2> HIDE DEF record
    <2> QED
      BY <1>1, <1>3, <2>1, ChangeOneEdge
  <1>5. /\ peers \subseteq {blocker} \X Path
        /\ \A q \in Path : <<blocker, q>> \in peers <=>
              queued[blocker][q].status = "WAITING" /\ queued[blocker][q].blocker = o
    BY DEF Peers
  <1>6. \A e, f \in peers : e = f
    <2> SUFFICES ASSUME NEW e \in peers, NEW f \in peers, e # f PROVE FALSE
      OBVIOUS
    <2>1. IsFiniteSet({blocker} \X Path)
      BY PathLeaseAssumption, FS_Singleton, FS_Product DEF PathLeaseAssumption
    <2>2. IsFiniteSet(peers)
      BY <1>5, <2>1, FS_Subset
    <2>3. {e, f} \in SUBSET peers
      OBVIOUS
    <2>4. Cardinality({e, f}) = 2
      <3>1. IsFiniteSet({e}) /\ Cardinality({e}) = 1
        BY FS_Singleton
      <3>2. Cardinality({e} \cup {f}) = 1 + 1
        <4>1. f \notin {e}
          OBVIOUS
        <4> QED
          BY <3>1, <4>1, FS_AddElement
      <3>3. {e, f} = {e} \cup {f}
        OBVIOUS
      <3> QED
        BY <3>2, <3>3
    <2>5. Cardinality({e, f}) <= Cardinality(peers)
      BY <2>2, <2>3, FS_Subset
    <2> QED
      BY <2>2, <2>4, <2>5, FS_CardinalityType
  <1> HIDE DEF peers, record, resolved
  <1>7. CASE peers = {}
    <2>1. NoneWaitMutually(queued)
      <3> SUFFICES ASSUME NEW u \in Owner, NEW v \in Owner, NEW q \in Path, NEW r \in Path,
                          queued[u][q].status = "WAITING", queued[u][q].blocker = v,
                          queued[v][r].status = "WAITING", queued[v][r].blocker = u
                   PROVE  FALSE
        BY DEF NoneWaitMutually
      <3>1. CASE u = o /\ q = p
        BY <1>1, <1>4, <1>5, <1>7, <3>1
      <3>2. CASE v = o /\ r = p
        BY <1>1, <1>4, <1>5, <1>7, <3>2
      <3>3. CASE ~(u = o /\ q = p) /\ ~(v = o /\ r = p)
        BY <1>3, <1>4, <3>3 DEF NoneWaitMutually
      <3> QED
        BY <3>1, <3>2, <3>3
    <2> QED
      BY <1>4, <1>7, <2>1 DEF Sound, peers
  <1>8. CASE peers # {} /\ o > blocker
    <2> DEFINE next == [queued EXCEPT ![o][p] = resolved]
    <2>1. Victim(queued, o, p, blocker) = next
      BY <1>8 DEF Victim, resolved
    <2>2. /\ next \in [Owner -> [Path -> Wait]] /\ next[o][p] = resolved
          /\ \A u \in Owner, q \in Path : u # o \/ q # p => next[u][q] = queued[u][q]
      BY <1>2, <1>4, ChangeOneEdge
    <2> HIDE DEF next
    <2>3. \A u \in Owner, q \in Path : next[u][q].status = "WAITING" => next[u][q] = waits[u][q]
      BY <1>2, <1>4, <2>2
    <2>4. Sound(next)
      BY <2>2, <2>3, NoNewEdge
    <2> QED
      BY <1>8, <2>1, <2>4 DEF peers
  <1>9. CASE peers # {} /\ ~(o > blocker)
    <2> DEFINE edge == CHOOSE e \in peers : TRUE
    <2>1. edge \in peers /\ peers = {edge}
      BY <1>6, <1>9
    <2>2. Victim(queued, o, p, blocker) = [queued EXCEPT ![edge[1]][edge[2]] = resolved]
      BY <1>9 DEF Victim, resolved, peers
    <2> HIDE DEF edge
    <2>3. PICK e \in Path : edge = <<blocker, e>> /\ edge[1] = blocker /\ edge[2] = e
      BY <1>5, <2>1
    <2> DEFINE next == [queued EXCEPT ![blocker][e] = resolved]
    <2>4. /\ next \in [Owner -> [Path -> Wait]] /\ next[blocker][e] = resolved
          /\ \A u \in Owner, q \in Path :
                u # blocker \/ q # e => next[u][q] = queued[u][q]
      <3>1. queued \in [Owner -> [Path -> Wait]] /\ resolved \in Wait
        BY <1>2, <1>4
      <3>2. next = [queued EXCEPT ![blocker][e] = resolved]
        OBVIOUS
      <3> HIDE DEF next
      <3> QED
        BY <3>1, <3>2, ChangeOneEdge, ZenonT(60)
    <2> HIDE DEF next
    <2>5. \A q \in Path : ~(next[blocker][q].status = "WAITING" /\ next[blocker][q].blocker = o)
      <3> SUFFICES ASSUME NEW q \in Path, next[blocker][q].status = "WAITING",
                          next[blocker][q].blocker = o
                   PROVE  FALSE
        OBVIOUS
      <3>1. q # e
        BY <1>2, <2>4
      <3>2. <<blocker, q>> \in peers
        BY <1>5, <2>4, <3>1
      <3>3. edge = <<blocker, q>>
        BY <2>1, <3>2
      <3> QED
        BY <2>3, <3>1, <3>3
    <2>6. NoneWaitMutually(next)
      <3> SUFFICES ASSUME NEW u \in Owner, NEW v \in Owner, NEW q \in Path, NEW r \in Path,
                          next[u][q].status = "WAITING", next[u][q].blocker = v,
                          next[v][r].status = "WAITING", next[v][r].blocker = u
                   PROVE  FALSE
        BY DEF NoneWaitMutually
      <3>0. next[u][q] = queued[u][q] /\ next[v][r] = queued[v][r]
        <4>1. ~(u = blocker /\ q = e) /\ ~(v = blocker /\ r = e)
          BY <1>2, <2>4
        <4> QED
          BY <2>4, <4>1
      <3>1. CASE u = o /\ q = p
        BY <1>1, <1>4, <2>5, <3>0, <3>1
      <3>2. CASE v = o /\ r = p
        BY <1>1, <1>4, <2>5, <3>0, <3>2
      <3>3. CASE ~(u = o /\ q = p) /\ ~(v = o /\ r = p)
        BY <1>3, <1>4, <3>0, <3>3 DEF NoneWaitMutually
      <3> QED
        BY <3>1, <3>2, <3>3
    <2> QED
      BY <1>9, <2>2, <2>3, <2>4, <2>6 DEF Sound, peers, next
  <1> QED
    BY <1>7, <1>8, <1>9

LEMMA EnqueueIsSound ==
    ASSUME WaitsAreSound, NEW o \in Owner, NEW p \in Path, EnqueueWait(o, p)
    PROVE  WaitsAreSound'
  <1>1. PICK blocker \in Conflicts(o, p) :
           LET expired == WaitsExpired
               queued == [expired EXCEPT ![o][p] = Queued(expired, o, p, blocker)]
               peers == Peers(queued, o, blocker)
           IN  /\ \/ /\ expired[o][p].status = "WAITING"
                     /\ wait' = [expired EXCEPT ![o][p] = Recontended(@)]
                  \/ /\ expired[o][p].status # "WAITING"
                     /\ Cardinality(peers) <= 1
                     /\ wait' = IF peers = {} THEN queued ELSE Victim(queued, o, p, blocker)
               /\ Answer("CONFLICT", o, p)
               /\ UNCHANGED lease
    BY DEF EnqueueWait
  <1> DEFINE expired == WaitsExpired
             queued == [expired EXCEPT ![o][p] = Queued(expired, o, p, blocker)]
  <1>2. Sound(expired)
    BY SoundIsTyped, ExpiryIsSound
  <1>3. blocker \in Owner /\ blocker # o
    BY SoundIsTyped DEF Conflicts, Live
  <1>4. ASSUME expired[o][p].status = "WAITING",
     wait' = [expired EXCEPT ![o][p] = Recontended(@)]
        PROVE  Sound(wait')
    <2> DEFINE record == Recontended(expired[o][p])
    <2> HIDE DEF expired
    <2>1. expired[o][p] \in Wait /\ expired \in [Owner -> [Path -> Wait]]
      BY <1>2 DEF Sound
    <2>2. /\ record \in Wait
          /\ record.status = "WAITING" => record.blocker = expired[o][p].blocker
      <3>1. CASE expired[o][p].contention + 1 >= Threshold
        <4>1. record = Resolved("ESCALATED")
          BY <3>1 DEF Recontended
        <4> QED
          BY <4>1, ResolvedIsTyped DEF WaitStatus
      <3>2. CASE ~(expired[o][p].contention + 1 >= Threshold)
        BY <2>1, <3>2 DEF Recontended, Wait
      <3> QED
        BY <3>1, <3>2
    <2> HIDE DEF record
    <2>3. wait' = [expired EXCEPT ![o][p] = record]
      BY <1>4 DEF record
    <2>4. /\ wait' \in [Owner -> [Path -> Wait]] /\ wait'[o][p] = record
          /\ \A u \in Owner, q \in Path : u # o \/ q # p => wait'[u][q] = expired[u][q]
      BY <2>1, <2>2, <2>3, ChangeOneEdge
    <2>5. \A u \in Owner, q \in Path : wait'[u][q].status = "WAITING" =>
             expired[u][q].status = "WAITING" /\ wait'[u][q].blocker = expired[u][q].blocker
      BY <1>4, <2>2, <2>4
    <2> QED
      BY <1>2, <2>4, <2>5, NoNewEdge
  <1>5. ASSUME expired[o][p].status # "WAITING",
               Cardinality(Peers(queued, o, blocker)) <= 1,
               wait' = IF Peers(queued, o, blocker) = {} THEN queued
                       ELSE Victim(queued, o, p, blocker)
        PROVE  Sound(wait')
    <2> HIDE DEF expired
    <2>1. Sound(IF Peers(queued, o, blocker) = {} THEN queued ELSE Victim(queued, o, p, blocker))
      BY <1>2, <1>3, <1>5, VictimBreaksTheCycle
    <2> HIDE DEF queued
    <2> QED
      BY <1>5, <2>1
  <1>6. Sound(wait')
    <2> HIDE DEF expired
    <2> QED
      BY <1>1, <1>4, <1>5 DEF expired
  <1>7. answer' = [verdict |-> "CONFLICT", owner |-> o, path |-> p] /\ lease' = lease
    BY <1>1 DEF Answer
  <1>8. /\ lease' \in [Path -> [owner : Owner \cup {Nobody}, left : 0..Ttl]]
        /\ answer'.verdict \in {"NONE", "GRANTED", "CONFLICT", "CONCURRENT"}
    BY <1>7, SoundIsTyped
  <1> QED
    BY <1>6, <1>8 DEF WaitsAreSound, TypeOK, Wait, Sound, NoneWaitMutually, NoMutualWait,
       Waiting

LEMMA NextIsSound == WaitsAreSound /\ [Next]_vars => WaitsAreSound'
  <1> DEFINE Lease == [owner : Owner \cup {Nobody}, left : 0..Ttl]
             Verdict == {"NONE", "GRANTED", "CONFLICT", "CONCURRENT"}
             Kept == lease' \in [Path -> Lease] /\ Sound(wait') /\ answer'.verdict \in Verdict
  <1> SUFFICES ASSUME WaitsAreSound, [Next]_vars PROVE Kept
    BY DEF WaitsAreSound, TypeOK, Wait, Sound, NoneWaitMutually, NoMutualWait, Waiting
  <1>1. lease \in [Path -> Lease] /\ Sound(wait) /\ answer.verdict \in Verdict
    BY SoundIsTyped
  <1>2. Ttl \in Nat \ {0} /\ WaitTtl \in Nat \ {0} /\ NoLease \in Lease
    BY PathLeaseAssumption DEF PathLeaseAssumption, NoLease, Nobody
  <1>3. wait \in [Owner -> [Path -> Wait]] /\ \A o \in Owner, p \in Path : wait[o][p] \in Wait
    BY <1>1 DEF Sound
  <1>4. ASSUME NEW o \in Owner, NEW p \in Path, Grant(o, p) PROVE Kept
    BY <1>1, <1>2, <1>4 DEF Grant, Answer
  <1>5. ASSUME NEW o \in Owner, NEW p \in Path, Refuse(o, p) PROVE Kept
    BY <1>1, <1>5 DEF Refuse, Answer
  <1>6. ASSUME NEW o \in Owner, NEW p \in Path, EnqueueWait(o, p) PROVE Kept
    BY <1>6, EnqueueIsSound DEF WaitsAreSound, TypeOK, Wait, Sound, NoneWaitMutually,
       NoMutualWait, Waiting
  <1>7. ASSUME NEW o \in Owner, NEW p \in Path, CancelWait(o, p) PROVE Kept
    <2>1. Resolved("CANCELLED") \in Wait /\ Resolved("CANCELLED").status = "CANCELLED"
      BY ResolvedIsTyped DEF WaitStatus
    <2>2. /\ wait' \in [Owner -> [Path -> Wait]] /\ wait'[o][p] = Resolved("CANCELLED")
          /\ \A u \in Owner, q \in Path : u # o \/ q # p => wait'[u][q] = wait[u][q]
      BY <1>3, <1>7, <2>1, ChangeOneEdge DEF CancelWait
    <2>3. Sound(wait')
      BY <1>1, <2>1, <2>2, NoNewEdge
    <2> QED
      BY <1>1, <1>7, <2>3 DEF CancelWait
  <1>8. ASSUME NEW p \in Path, ReleaseLease(p) \/ RenewLease(p) PROVE Kept
    <2>1. CASE ReleaseLease(p)
      BY <1>1, <1>2, <2>1 DEF ReleaseLease
    <2>2. CASE RenewLease(p)
      <3>1. lease' = [lease EXCEPT ![p].left = Ttl] /\ wait' = wait /\ answer' = answer
        BY <2>2 DEF RenewLease
      <3>2. [lease[p] EXCEPT !.left = Ttl] \in Lease
        BY <1>1, <1>2
      <3> QED
        BY <1>1, <3>1, <3>2
    <2> QED
      BY <1>8, <2>1, <2>2
  <1>9. ASSUME NEW run, ReleaseRun(run) PROVE Kept
    BY <1>1, <1>2, <1>9 DEF ReleaseRun
  <1>10. CASE Tick
    <2>1. /\ lease' = [p \in Path |-> [lease[p] EXCEPT !.left = IF @ = 0 THEN 0 ELSE @ - 1]]
          /\ wait' = [o \in Owner |-> [p \in Path |->
                        [wait[o][p] EXCEPT !.left = IF @ = 0 THEN 0 ELSE @ - 1]]]
          /\ answer' = answer
      BY <1>10 DEF Tick
    <2>2. ASSUME NEW r \in Lease
          PROVE  [r EXCEPT !.left = IF @ = 0 THEN 0 ELSE @ - 1] \in Lease
      BY <1>2
    <2>3. ASSUME NEW r \in Wait
          PROVE  /\ [r EXCEPT !.left = IF @ = 0 THEN 0 ELSE @ - 1] \in Wait
                 /\ [r EXCEPT !.left = IF @ = 0 THEN 0 ELSE @ - 1].status = r.status
                 /\ [r EXCEPT !.left = IF @ = 0 THEN 0 ELSE @ - 1].blocker = r.blocker
      BY <1>2 DEF Wait
    <2>4. lease' \in [Path -> Lease]
      BY <1>1, <2>1, <2>2
    <2>5. \A o \in Owner, p \in Path :
             wait'[o][p] = [wait[o][p] EXCEPT !.left = IF @ = 0 THEN 0 ELSE @ - 1]
      BY <2>1
    <2>6. wait' \in [Owner -> [Path -> Wait]]
      BY <1>3, <2>1, <2>3
    <2>7. \A o \in Owner, p \in Path : /\ wait'[o][p].status = wait[o][p].status
                                       /\ wait'[o][p].blocker = wait[o][p].blocker
      BY <1>3, <2>3, <2>5
    <2>8. Sound(wait')
      BY <1>1, <2>6, <2>7, NoNewEdge
    <2> QED
      BY <1>1, <2>1, <2>4, <2>8
  <1>11. CASE UNCHANGED vars
    BY <1>1, <1>11 DEF vars
  <1> QED
    BY <1>4, <1>5, <1>6, <1>7, <1>8, <1>9, <1>10, <1>11 DEF Next

\* The queue never holds a deadlock of two: whichever of two owners asks last,
\* the greater one's edge is resolved in the same call (enqueue_wait).
THEOREM WaitsStaySound == Spec => []WaitsAreSound
  <1>1. Init => WaitsAreSound
    <2> SUFFICES ASSUME Init PROVE WaitsAreSound
      OBVIOUS
    <2>1. Ttl \in Nat \ {0} /\ WaitTtl \in Nat \ {0}
      BY PathLeaseAssumption DEF PathLeaseAssumption
    <2> QED
      BY <2>1 DEF Init, WaitsAreSound, TypeOK, NoMutualWait, Waiting, NoLease, NoWait, NoAnswer,
         WaitStatus, Nobody
  <1> QED
    BY <1>1, NextIsSound, PTL DEF Spec

-----------------------------------------------------------------------------
(* The ledger of model calls.  The inductive invariant says where a call    *)
(* that has been answered may be, that what has not been answered has not   *)
(* been written, and that the copies of a call bound the entries it may     *)
(* still get.                                                               *)

(* What backs a call: the ledger, the open transaction, or the copy that    *)
(* the failed pipeline is about to write.                                   *)
Backed(c) ==
    \/ entries[c] > 0 \/ c \in unaccounted \/ c \in flushed
    \/ "pipeline" \in leaving /\ c \in copied["pipeline"]
    \/ c = made /\ lane \in Asking

CallsAreBacked == \A c \in 1 .. made : Backed(c)

(* A call in the open transaction has its second copy, or is known to be    *)
(* without one.                                                             *)
FlushedIsBuffered == \A c \in flushed : c \in buffer \/ c \in unaccounted \/ entries[c] > 0

(* Nobody has written what has not been answered.                           *)
OutstandingIsUnwritten ==
    /\ \A c \in Call : c > made => entries[c] = 0
    /\ lane \in Asking =>
          /\ made \in Call /\ entries[made] = 0 /\ made \notin flushed /\ made \notin buffer
          /\ \A u \in Unit : made \notin copied[u]

Once(b) == IF b THEN 1 ELSE 0

Written(c) == entries[c] + Once(c \in flushed)

Holding(c) == {u \in leaving : c \in copied[u]}

(* A call leaves the buffer before it is written twice; only the units of   *)
(* work that hold a copy may still write it.                                *)
WritesAreLimited ==
    /\ \A c \in buffer : Written(c) <= 1
    /\ \A c \in Call : Written(c) + Cardinality(Holding(c)) <= 1 + Cardinality(Unit)

BudgetIsSpent == Cardinality(chief \ unaccounted) + left <= Limit + Ladder - 1

CallsInv ==
    /\ CallsTypeOK /\ CallsAreBacked /\ FlushedIsBuffered /\ OutstandingIsUnwritten
    /\ WritesAreLimited /\ BudgetIsSpent

-----------------------------------------------------------------------------

LEMMA UnitsAreFinite ==
    /\ IsFiniteSet(Unit) /\ Cardinality(Unit) = 1 + Cardinality(Others)
    /\ Cardinality(Others) \in Nat /\ Cardinality(Unit) \in Nat
    /\ \A T \in SUBSET Unit : Cardinality(T) \in Nat /\ Cardinality(T) <= Cardinality(Unit)
  <1>1. IsFiniteSet(Others) /\ "pipeline" \notin Others /\ Cardinality(Others) \in Nat
    BY CallsAssumption, FS_CardinalityType
  <1>2. IsFiniteSet(Unit) /\ Cardinality(Unit) = 1 + Cardinality(Others)
    BY <1>1, FS_AddElement DEF Unit
  <1> QED
    BY <1>1, <1>2, FS_Subset, FS_CardinalityType

LEMMA CallsAreFinite ==
    /\ IsFiniteSet(Call)
    /\ \A C \in SUBSET Call : IsFiniteSet(C) /\ Cardinality(C) \in Nat
  <1>1. MaxCalls \in Int /\ 1 \in Int
    BY CallsAssumption
  <1>2. IsFiniteSet(Call)
    BY <1>1, FS_Interval DEF Call
  <1> QED
    BY <1>2, FS_Subset, FS_CardinalityType

(* The totals of a run count a call at least once for its entries.          *)
LEMMA EntriesCountCalls ==
    ASSUME entries \in [Call -> Nat], NEW C, C \in SUBSET Call, \A c \in C : entries[c] > 0
    PROVE  /\ IsFiniteSet(C) /\ Cardinality(C) \in Nat
           /\ Entries \in Nat /\ Cardinality(C) <= Entries
  <1>1. IsFiniteSet(Call)
    BY CallsAssumption, FS_Interval DEF Call
  <1>2. IsFiniteSet(Rows)
    <2> DEFINE rows == [c \in Call |-> {c} \X (1 .. entries[c])]
               all == {{c} \X (1 .. entries[c]) : c \in Call}
    <2>1. rows \in Surjection(Call, all)
      BY DEF Surjection
    <2>2. IsFiniteSet(all)
      BY <1>1, <2>1, FS_Surjection
    <2>3. \A T \in all : IsFiniteSet(T)
      <3> SUFFICES ASSUME NEW c \in Call PROVE IsFiniteSet({c} \X (1 .. entries[c]))
        OBVIOUS
      <3>1. IsFiniteSet({c}) /\ IsFiniteSet(1 .. entries[c])
        <4>1. entries[c] \in Int /\ 1 \in Int
          OBVIOUS
        <4>2. IsFiniteSet(1 .. entries[c])
          BY <4>1, FS_Interval
        <4> QED
          BY <4>2, FS_Singleton
      <3> QED
        BY <3>1, FS_Product
    <2> QED
      BY <2>2, <2>3, FS_UNION DEF Rows
  <1>3. IsFiniteSet(C) /\ Cardinality(C) \in Nat
    BY <1>1, FS_Subset, FS_CardinalityType
  <1>4. Cardinality(C) <= Cardinality(Rows)
    <2> DEFINE first == [c \in C |-> <<c, 1>>]
    <2>1. \A c \in C : <<c, 1>> \in Rows
      <3> SUFFICES ASSUME NEW c \in C PROVE <<c, 1>> \in Rows
        OBVIOUS
      <3>1. 1 \in 1 .. entries[c]
        OBVIOUS
      <3>2. <<c, 1>> \in {c} \X (1 .. entries[c])
        BY <3>1
      <3> QED
        BY <3>2 DEF Rows
    <2>2. first \in Injection(C, Rows)
      <3>1. first \in [C -> Rows]
        BY <2>1
      <3>2. \A a, b \in C : first[a] = first[b] => a = b
        OBVIOUS
      <3> QED
        BY <3>1, <3>2 DEF Injection, IsInjective
    <2> HIDE DEF first
    <2> QED
      BY <1>2, <2>2, FS_Injection
  <1> QED
    BY <1>2, <1>3, <1>4, FS_CardinalityType DEF Entries

LEMMA CallsInitInv == CallsInit => CallsInv
  <1> SUFFICES ASSUME CallsInit PROVE CallsInv
    OBVIOUS
  <1>1. MaxCalls \in Nat /\ Limit \in Nat /\ Ladder \in Nat \ {0}
    BY CallsAssumption
  <1>2. CallsTypeOK
    BY <1>1 DEF CallsInit, CallsTypeOK, Lane, Asking
  <1>3. CallsAreBacked /\ FlushedIsBuffered
    BY DEF CallsInit, CallsAreBacked, FlushedIsBuffered
  <1>4. OutstandingIsUnwritten
    BY DEF CallsInit, OutstandingIsUnwritten, Asking
  <1>5. WritesAreLimited
    <2>1. \A c \in Call : Holding(c) = {} /\ Written(c) = 0
      BY DEF CallsInit, Holding, Written, Once
    <2> QED
      BY <2>1, UnitsAreFinite, FS_EmptySet DEF CallsInit, WritesAreLimited
  <1>6. BudgetIsSpent
    <2>1. Cardinality(chief \ unaccounted) = 0
      BY FS_EmptySet DEF CallsInit
    <2> QED
      BY <1>1, <2>1 DEF CallsInit, BudgetIsSpent
  <1> QED
    BY <1>2, <1>3, <1>4, <1>5, <1>6 DEF CallsInv

LEMMA TypesAreKept == CallsInv /\ [CallsNext]_callVars => CallsTypeOK'
  <1> SUFFICES ASSUME CallsInv, [CallsNext]_callVars PROVE CallsTypeOK'
    OBVIOUS
  <1>1. CallsTypeOK /\ MaxCalls \in Nat /\ Limit \in Nat /\ Ladder \in Nat \ {0}
    BY CallsAssumption DEF CallsInv
  <1>2. \A calls : Committed(calls) \in [Call -> Nat]
    BY <1>1 DEF CallsTypeOK, Committed
  <1>3. /\ made \in Nat /\ (lane \in Asking => made \in 1 .. made)
        /\ made' = made + 1 =>
              /\ 1 .. made \subseteq 1 .. made' /\ made' \in 1 .. made'
              /\ copied \in [Unit -> SUBSET (1 .. made')]
    <2>1. made \in Nat /\ (lane \in Asking => made \in 1 .. made)
      BY <1>1 DEF CallsInv, CallsTypeOK, OutstandingIsUnwritten, Call
    <2>2. made' = made + 1 => 1 .. made \subseteq 1 .. made' /\ made' \in 1 .. made'
      BY <2>1
    <2>3. copied \in [Unit -> SUBSET (1 .. made)]
      BY <1>1 DEF CallsTypeOK
    <2> QED
      BY <2>1, <2>2, <2>3
  <1>4. "pipeline" \in Unit /\ Others \subseteq Unit /\ "pipeline" \notin Others
    BY CallsAssumption DEF Unit
  <1>10. CASE Open
    BY <1>1, <1>2, <1>3, <1>4, <1>10 DEF Open, CallsTypeOK, Lane, Asking
  <1>11. ASSUME NEW kind \in {"plan", "section"}, Ask(kind) PROVE CallsTypeOK'
    BY <1>1, <1>2, <1>3, <1>4, <1>11 DEF Ask, Dispatch, CallsTypeOK, Lane, Asking
  <1>12. CASE AskSingle
    <2>1. flushed' = {} /\ unaccounted' \in SUBSET (1 .. made)
      BY <1>1, <1>12 DEF AskSingle, CallsTypeOK
    <2>2. CASE Dispatch("single", Ladder - 1)
      <3>1. /\ made' = made + 1 /\ made' \in 0 .. MaxCalls /\ lane' = "single"
            /\ left' \in 0 .. Ladder /\ chief' = chief \cup {made'}
        BY <1>1, <2>2 DEF Dispatch, CallsTypeOK
      <3> QED
        BY <1>1, <1>3, <1>12, <2>1, <3>1 DEF AskSingle, CallsTypeOK, Lane, Asking
    <2>3. CASE UNCHANGED <<lane, left, made, chief>>
      BY <1>1, <1>12, <2>1, <2>3 DEF AskSingle, CallsTypeOK
    <2> QED
      BY <1>12, <2>2, <2>3 DEF AskSingle
  <1>13. CASE AnswerPlan
    BY <1>1, <1>2, <1>3, <1>4, <1>13 DEF AnswerPlan, Record, CallsTypeOK, Lane, Asking
  <1>14. CASE AnswerSection
    BY <1>1, <1>2, <1>3, <1>4, <1>14 DEF AnswerSection, CallsTypeOK, Lane, Asking
  <1>15. ASSUME NEW s \in BOOLEAN, AnswerSingle(s) PROVE CallsTypeOK'
    <2>1. /\ flushed' = flushed \cup {made} /\ buffer' = buffer \cup {made}
          /\ lane = "single" /\ UNCHANGED <<entries, leaving, copied, unaccounted>>
          /\ made \in 1 .. made /\ "pipeline" \notin leaving
      BY <1>1, <1>3, <1>15 DEF AnswerSingle, Record, CallsTypeOK, Asking
    <2>2. CASE lane' = "idle" /\ left' = 0 /\ UNCHANGED <<made, chief>>
      BY <1>1, <2>1, <2>2 DEF CallsTypeOK, Lane
    <2>3. CASE left > 0 /\ Dispatch("single", left - 1)
      <3>1. /\ made' = made + 1 /\ made' \in 0 .. MaxCalls /\ lane' = "single"
            /\ left' \in 0 .. Ladder /\ chief' = chief \cup {made'}
        BY <1>1, <2>3 DEF Dispatch, CallsTypeOK
      <3> QED
        BY <1>1, <1>3, <2>1, <3>1 DEF CallsTypeOK, Lane, Asking
    <2> QED
      BY <1>15, <2>2, <2>3 DEF AnswerSingle
  <1>16. CASE Cancelled
    BY <1>1, <1>2, <1>3, <1>4, <1>16 DEF Cancelled, CallsTypeOK, Lane, Asking
  <1>17. CASE LocalCall
    BY <1>1, <1>2, <1>3, <1>4, <1>17 DEF LocalCall, Record, CallsTypeOK, Lane, Asking
  <1>18. CASE Checkpoint
    BY <1>1, <1>2, <1>3, <1>4, <1>18 DEF Checkpoint, CallsTypeOK, Lane, Asking
  <1>19. CASE Succeed
    BY <1>1, <1>2, <1>3, <1>4, <1>19 DEF Succeed, CallsTypeOK, Lane, Asking
  <1>20. CASE Fail
    BY <1>1, <1>2, <1>3, <1>4, <1>20 DEF Fail, CallsTypeOK, Lane, Asking
  <1>21. ASSUME NEW u \in Others, OtherExits(u) PROVE CallsTypeOK'
    BY <1>1, <1>2, <1>3, <1>4, <1>21 DEF OtherExits, Clear, CallsTypeOK, Lane, Asking
  <1>22. ASSUME NEW u \in Others, OtherFails(u) PROVE CallsTypeOK'
    BY <1>1, <1>2, <1>3, <1>4, <1>22 DEF OtherFails, CallsTypeOK, Lane, Asking
  <1>23. ASSUME NEW u \in Unit, Persist(u) PROVE CallsTypeOK'
    BY <1>1, <1>2, <1>3, <1>4, <1>23 DEF Persist, Left, CallsTypeOK, Lane, Asking
  <1>24. ASSUME NEW u \in Unit, Locked(u) PROVE CallsTypeOK'
    BY <1>1, <1>2, <1>3, <1>4, <1>24 DEF Locked, Left, Clear, CallsTypeOK, Lane, Asking
  <1>25. CASE Dies
    <2>1. /\ flushed' = {} /\ buffer' = {} /\ lane' = "closed" /\ left' = 0 /\ leaving' = {}
          /\ unaccounted' \in SUBSET (1 .. made) /\ UNCHANGED <<entries, made, chief>>
          /\ copied' \in [Unit -> SUBSET (1 .. made)]
      BY <1>1, <1>25 DEF Dies, CallsTypeOK
    <2> QED
      BY <1>1, <2>1 DEF CallsTypeOK, Lane
  <1>26. CASE UNCHANGED callVars
    BY <1>1, <1>2, <1>3, <1>4, <1>26 DEF callVars, CallsTypeOK, Lane, Asking
  <1> QED
    BY <1>10, <1>11, <1>12, <1>13, <1>14, <1>15, <1>16, <1>17, <1>18, <1>19, <1>20, <1>21,
       <1>22, <1>23, <1>24, <1>25, <1>26 DEF CallsNext

LEMMA BackingIsKept == CallsInv /\ [CallsNext]_callVars => CallsAreBacked'
  <1> SUFFICES ASSUME CallsInv, [CallsNext]_callVars PROVE CallsAreBacked'
    OBVIOUS
  <1>1. CallsTypeOK /\ MaxCalls \in Nat /\ Limit \in Nat /\ Ladder \in Nat \ {0}
    BY CallsAssumption DEF CallsInv
  <1>2. CallsAreBacked /\ FlushedIsBuffered
    BY DEF CallsInv
  <1>10. CASE Open
    BY <1>1, <1>2, <1>10 DEF Open, CallsAreBacked, Backed, FlushedIsBuffered, CallsTypeOK,
       Call, Unit, Asking
  <1>11. ASSUME NEW kind \in {"plan", "section"}, Ask(kind) PROVE CallsAreBacked'
    BY <1>1, <1>2, <1>11 DEF Ask, Dispatch, CallsAreBacked, Backed, FlushedIsBuffered,
       CallsTypeOK, Call, Unit, Asking
  <1>12. CASE AskSingle
    BY <1>1, <1>2, <1>12 DEF AskSingle, Dispatch, CallsAreBacked, Backed, FlushedIsBuffered,
       CallsTypeOK, Call, Unit, Asking
  <1>13. CASE AnswerPlan
    BY <1>1, <1>2, <1>13 DEF AnswerPlan, Record, CallsAreBacked, Backed, FlushedIsBuffered,
       CallsTypeOK, Call, Unit, Asking
  <1>14. CASE AnswerSection
    BY <1>1, <1>2, <1>14 DEF AnswerSection, Committed, CallsAreBacked, Backed,
       FlushedIsBuffered, CallsTypeOK, Call, Unit, Asking
  <1>15. ASSUME NEW s \in BOOLEAN, AnswerSingle(s) PROVE CallsAreBacked'
    BY <1>1, <1>2, <1>15 DEF AnswerSingle, Record, Dispatch, CallsAreBacked, Backed,
       FlushedIsBuffered, CallsTypeOK, Call, Unit, Asking
  <1>16. CASE Cancelled
    BY <1>1, <1>2, <1>16 DEF Cancelled, CallsAreBacked, Backed, FlushedIsBuffered,
       CallsTypeOK, Call, Unit, Asking
  <1>17. CASE LocalCall
    BY <1>1, <1>2, <1>17 DEF LocalCall, Record, CallsAreBacked, Backed, FlushedIsBuffered,
       CallsTypeOK, Call, Unit, Asking
  <1>18. CASE Checkpoint
    BY <1>1, <1>2, <1>18 DEF Checkpoint, Committed, CallsAreBacked, Backed,
       FlushedIsBuffered, CallsTypeOK, Call, Unit, Asking
  <1>19. CASE Succeed
    BY <1>1, <1>2, <1>19 DEF Succeed, Committed, CallsAreBacked, Backed, FlushedIsBuffered,
       CallsTypeOK, Call, Unit, Asking
  <1>20. CASE Fail
    BY <1>1, <1>2, <1>20 DEF Fail, CallsAreBacked, Backed, FlushedIsBuffered, CallsTypeOK,
       Call, Unit, Asking
  <1>21. ASSUME NEW u \in Others, OtherExits(u) PROVE CallsAreBacked'
    BY <1>1, <1>2, <1>21 DEF OtherExits, Clear, CallsAreBacked, Backed, FlushedIsBuffered,
       CallsTypeOK, Call, Unit, Asking
  <1>22. ASSUME NEW u \in Others, OtherFails(u) PROVE CallsAreBacked'
    BY <1>1, <1>2, <1>22 DEF OtherFails, CallsAreBacked, Backed, FlushedIsBuffered,
       CallsTypeOK, Call, Unit, Asking
  <1>23. ASSUME NEW u \in Unit, Persist(u) PROVE CallsAreBacked'
    BY <1>1, <1>2, <1>23 DEF Persist, Committed, Left, CallsAreBacked, Backed,
       FlushedIsBuffered, CallsTypeOK, Call, Unit, Asking
  <1>24. ASSUME NEW u \in Unit, Locked(u) PROVE CallsAreBacked'
    BY <1>1, <1>2, <1>24 DEF Locked, Left, Clear, CallsAreBacked, Backed, FlushedIsBuffered,
       CallsTypeOK, Call, Unit, Asking
  <1>25. CASE Dies
    BY <1>1, <1>2, <1>25 DEF Dies, CallsAreBacked, Backed, FlushedIsBuffered, CallsTypeOK,
       Call, Unit, Asking
  <1>26. CASE UNCHANGED callVars
    BY <1>1, <1>2, <1>26 DEF callVars, CallsAreBacked, Backed, FlushedIsBuffered,
       CallsTypeOK, Call, Unit, Asking
  <1> QED
    BY <1>10, <1>11, <1>12, <1>13, <1>14, <1>15, <1>16, <1>17, <1>18, <1>19, <1>20, <1>21,
       <1>22, <1>23, <1>24, <1>25, <1>26 DEF CallsNext

LEMMA SecondCopiesAreKept == CallsInv /\ [CallsNext]_callVars => FlushedIsBuffered'
  <1> SUFFICES ASSUME CallsInv, [CallsNext]_callVars PROVE FlushedIsBuffered'
    OBVIOUS
  <1>1. CallsTypeOK /\ MaxCalls \in Nat /\ Limit \in Nat /\ Ladder \in Nat \ {0}
    BY CallsAssumption DEF CallsInv
  <1>2. CallsAreBacked /\ FlushedIsBuffered
    BY DEF CallsInv
  <1>10. CASE Open
    BY <1>1, <1>2, <1>10 DEF Open, FlushedIsBuffered, CallsTypeOK, Call, Unit, Asking
  <1>11. ASSUME NEW kind \in {"plan", "section"}, Ask(kind) PROVE FlushedIsBuffered'
    BY <1>1, <1>2, <1>11 DEF Ask, Dispatch, FlushedIsBuffered, CallsTypeOK, Call, Unit, Asking
  <1>12. CASE AskSingle
    BY <1>1, <1>2, <1>12 DEF AskSingle, Dispatch, FlushedIsBuffered, CallsTypeOK, Call, Unit,
       Asking
  <1>13. CASE AnswerPlan
    BY <1>1, <1>2, <1>13 DEF AnswerPlan, Record, FlushedIsBuffered, CallsTypeOK, Call, Unit,
       Asking
  <1>14. CASE AnswerSection
    BY <1>1, <1>2, <1>14 DEF AnswerSection, Committed, FlushedIsBuffered, CallsTypeOK, Call,
       Unit, Asking
  <1>15. ASSUME NEW s \in BOOLEAN, AnswerSingle(s) PROVE FlushedIsBuffered'
    BY <1>1, <1>2, <1>15 DEF AnswerSingle, Record, Dispatch, FlushedIsBuffered, CallsTypeOK,
       Call, Unit, Asking
  <1>16. CASE Cancelled
    BY <1>1, <1>2, <1>16 DEF Cancelled, FlushedIsBuffered, CallsTypeOK, Call, Unit, Asking
  <1>17. CASE LocalCall
    BY <1>1, <1>2, <1>17 DEF LocalCall, Record, FlushedIsBuffered, CallsTypeOK, Call, Unit,
       Asking
  <1>18. CASE Checkpoint
    BY <1>1, <1>2, <1>18 DEF Checkpoint, Committed, FlushedIsBuffered, CallsTypeOK, Call,
       Unit, Asking
  <1>19. CASE Succeed
    BY <1>1, <1>2, <1>19 DEF Succeed, Committed, FlushedIsBuffered, CallsTypeOK, Call, Unit,
       Asking
  <1>20. CASE Fail
    BY <1>1, <1>2, <1>20 DEF Fail, FlushedIsBuffered, CallsTypeOK, Call, Unit, Asking
  <1>21. ASSUME NEW u \in Others, OtherExits(u) PROVE FlushedIsBuffered'
    BY <1>1, <1>2, <1>21 DEF OtherExits, Clear, FlushedIsBuffered, CallsTypeOK, Call, Unit,
       Asking
  <1>22. ASSUME NEW u \in Others, OtherFails(u) PROVE FlushedIsBuffered'
    BY <1>1, <1>2, <1>22 DEF OtherFails, FlushedIsBuffered, CallsTypeOK, Call, Unit, Asking
  <1>23. ASSUME NEW u \in Unit, Persist(u) PROVE FlushedIsBuffered'
    BY <1>1, <1>2, <1>23 DEF Persist, Committed, Left, FlushedIsBuffered, CallsTypeOK, Call,
       Unit, Asking
  <1>24. ASSUME NEW u \in Unit, Locked(u) PROVE FlushedIsBuffered'
    BY <1>1, <1>2, <1>24 DEF Locked, Left, Clear, FlushedIsBuffered, CallsTypeOK, Call, Unit,
       Asking
  <1>25. CASE Dies
    BY <1>1, <1>2, <1>25 DEF Dies, FlushedIsBuffered, CallsTypeOK, Call, Unit, Asking
  <1>26. CASE UNCHANGED callVars
    BY <1>1, <1>2, <1>26 DEF callVars, FlushedIsBuffered, CallsTypeOK, Call, Unit, Asking
  <1> QED
    BY <1>10, <1>11, <1>12, <1>13, <1>14, <1>15, <1>16, <1>17, <1>18, <1>19, <1>20, <1>21,
       <1>22, <1>23, <1>24, <1>25, <1>26 DEF CallsNext

LEMMA OutstandingStaysUnwritten == CallsInv /\ [CallsNext]_callVars => OutstandingIsUnwritten'
  <1> SUFFICES ASSUME CallsInv, [CallsNext]_callVars PROVE OutstandingIsUnwritten'
    OBVIOUS
  <1>1. CallsTypeOK /\ MaxCalls \in Nat /\ Limit \in Nat /\ Ladder \in Nat \ {0}
    BY CallsAssumption DEF CallsInv
  <1>2. OutstandingIsUnwritten
    BY DEF CallsInv
  <1>10. CASE Open
    BY <1>1, <1>2, <1>10 DEF Open, OutstandingIsUnwritten, CallsTypeOK, Call, Unit, Asking
  <1>11. ASSUME NEW kind \in {"plan", "section"}, Ask(kind) PROVE OutstandingIsUnwritten'
    BY <1>1, <1>2, <1>11 DEF Ask, Dispatch, OutstandingIsUnwritten, CallsTypeOK, Call, Unit,
       Asking
  <1>12. CASE AskSingle
    BY <1>1, <1>2, <1>12 DEF AskSingle, Dispatch, OutstandingIsUnwritten, CallsTypeOK, Call,
       Unit, Asking
  <1>13. CASE AnswerPlan
    BY <1>1, <1>2, <1>13 DEF AnswerPlan, Record, OutstandingIsUnwritten, CallsTypeOK, Call,
       Unit, Asking
  <1>14. CASE AnswerSection
    BY <1>1, <1>2, <1>14 DEF AnswerSection, Committed, OutstandingIsUnwritten, CallsTypeOK,
       Call, Unit, Asking
  <1>15. ASSUME NEW s \in BOOLEAN, AnswerSingle(s) PROVE OutstandingIsUnwritten'
    BY <1>1, <1>2, <1>15 DEF AnswerSingle, Record, Dispatch, OutstandingIsUnwritten,
       CallsTypeOK, Call, Unit, Asking
  <1>16. CASE Cancelled
    BY <1>1, <1>2, <1>16 DEF Cancelled, OutstandingIsUnwritten, CallsTypeOK, Call, Unit, Asking
  <1>17. CASE LocalCall
    BY <1>1, <1>2, <1>17 DEF LocalCall, Record, OutstandingIsUnwritten, CallsTypeOK, Call,
       Unit, Asking
  <1>18. CASE Checkpoint
    BY <1>1, <1>2, <1>18 DEF Checkpoint, Committed, OutstandingIsUnwritten, CallsTypeOK,
       Call, Unit, Asking
  <1>19. CASE Succeed
    BY <1>1, <1>2, <1>19 DEF Succeed, Committed, OutstandingIsUnwritten, CallsTypeOK, Call,
       Unit, Asking
  <1>20. CASE Fail
    BY <1>1, <1>2, <1>20 DEF Fail, OutstandingIsUnwritten, CallsTypeOK, Call, Unit, Asking
  <1>21. ASSUME NEW u \in Others, OtherExits(u) PROVE OutstandingIsUnwritten'
    BY <1>1, <1>2, <1>21 DEF OtherExits, Clear, OutstandingIsUnwritten, CallsTypeOK, Call,
       Unit, Asking
  <1>22. ASSUME NEW u \in Others, OtherFails(u) PROVE OutstandingIsUnwritten'
    BY <1>1, <1>2, <1>22 DEF OtherFails, OutstandingIsUnwritten, CallsTypeOK, Call, Unit, Asking
  <1>23. ASSUME NEW u \in Unit, Persist(u) PROVE OutstandingIsUnwritten'
    <2>1. \A c \in Call : entries'[c] = entries[c] + (IF c \in copied[u] THEN 1 ELSE 0)
      BY <1>23 DEF Persist, Committed
    <2>2. \A c \in Call : c > made => c \notin copied[u]
      BY <1>1, <1>23 DEF CallsTypeOK
    <2>3. /\ UNCHANGED <<lane, made, flushed>> /\ buffer' = {}
          /\ \A v \in Unit : copied'[v] \subseteq copied[v]
      BY <1>1, <1>23 DEF Persist, Left, CallsTypeOK
    <2>4. \A c \in Call : c > made => entries'[c] = 0
      BY <1>1, <1>2, <2>1, <2>2 DEF OutstandingIsUnwritten, CallsTypeOK
    <2>5. lane \in Asking => entries'[made] = 0
      BY <1>1, <1>2, <1>23, <2>1 DEF OutstandingIsUnwritten, CallsTypeOK
    <2> QED
      BY <1>2, <2>3, <2>4, <2>5 DEF OutstandingIsUnwritten
  <1>24. ASSUME NEW u \in Unit, Locked(u) PROVE OutstandingIsUnwritten'
    BY <1>1, <1>2, <1>24 DEF Locked, Left, Clear, OutstandingIsUnwritten, CallsTypeOK, Call,
       Unit, Asking
  <1>25. CASE Dies
    BY <1>1, <1>2, <1>25 DEF Dies, OutstandingIsUnwritten, CallsTypeOK, Call, Unit, Asking
  <1>26. CASE UNCHANGED callVars
    BY <1>1, <1>2, <1>26 DEF callVars, OutstandingIsUnwritten, CallsTypeOK, Call, Unit, Asking
  <1> QED
    BY <1>10, <1>11, <1>12, <1>13, <1>14, <1>15, <1>16, <1>17, <1>18, <1>19, <1>20, <1>21,
       <1>22, <1>23, <1>24, <1>25, <1>26 DEF CallsNext


(* A call is written no more often than before, or once, or by a unit of    *)
(* work that gives its copy up for it.                                      *)
LEMMA WritesStayLimited ==
    ASSUME CallsInv, CallsTypeOK',
           \A c \in buffer' : \/ c \in buffer /\ Written(c)' <= Written(c)
                              \/ Written(c)' <= 1,
           \A c \in Call :
              \/ Written(c)' <= Written(c) /\ Holding(c)' \subseteq Holding(c)
              \/ Written(c)' <= 1
              \/ /\ Written(c)' = Written(c) + 1
                 /\ \E u \in Holding(c) : Holding(c)' = Holding(c) \ {u}
    PROVE  WritesAreLimited'
  <1>1. \A c \in Call : Written(c) \in Nat /\ Written(c)' \in Nat
    BY DEF CallsInv, CallsTypeOK, Written, Once
  <1>2. /\ \A c \in buffer : Written(c) <= 1
        /\ \A c \in Call : Written(c) + Cardinality(Holding(c)) <= 1 + Cardinality(Unit)
        /\ buffer \subseteq Call /\ buffer' \subseteq Call
    BY CallsAssumption DEF CallsInv, CallsTypeOK, WritesAreLimited, Call
  <1>3. \A c \in buffer' : Written(c)' <= 1
    BY <1>1, <1>2
  <1>4. ASSUME NEW c \in Call
        PROVE Written(c)' + Cardinality(Holding(c)') <= 1 + Cardinality(Unit)
    <2>1. /\ Holding(c) \in SUBSET Unit /\ Holding(c)' \in SUBSET Unit
      BY DEF CallsInv, CallsTypeOK, Holding
    <2>2. /\ IsFiniteSet(Holding(c)) /\ Cardinality(Holding(c)) \in Nat /\ Cardinality(Unit) \in Nat
          /\ Cardinality(Holding(c)') \in Nat /\ Cardinality(Holding(c)') <= Cardinality(Unit)
      BY <2>1, UnitsAreFinite, FS_Subset
    <2>3. CASE Written(c)' <= Written(c) /\ Holding(c)' \subseteq Holding(c)
      <3>1. Cardinality(Holding(c)') <= Cardinality(Holding(c))
        BY <2>2, <2>3, FS_Subset
      <3> QED
        BY <1>1, <1>2, <2>2, <2>3, <3>1
    <2>4. CASE Written(c)' <= 1
      BY <1>1, <2>2, <2>4
    <2>5. CASE Written(c)' = Written(c) + 1 /\ \E u \in Holding(c) : Holding(c)' = Holding(c) \ {u}
      <3>1. PICK u \in Holding(c) : Holding(c)' = Holding(c) \ {u}
        BY <2>5
      <3>2. Cardinality(Holding(c)') = Cardinality(Holding(c)) - 1
        BY <2>2, <3>1, FS_RemoveElement
      <3> QED
        BY <1>1, <1>2, <2>2, <2>5, <3>2
    <2> QED
      BY <2>3, <2>4, <2>5
  <1> QED
    BY <1>3, <1>4 DEF WritesAreLimited

LEMMA WritesAreKept == CallsInv /\ [CallsNext]_callVars => WritesAreLimited'
  <1> SUFFICES ASSUME CallsInv, [CallsNext]_callVars PROVE WritesAreLimited'
    OBVIOUS
  <1> DEFINE Kept ==
               /\ \A c \in buffer' : \/ c \in buffer /\ Written(c)' <= Written(c)
                                     \/ Written(c)' <= 1
               /\ \A c \in Call :
                     \/ Written(c)' <= Written(c) /\ Holding(c)' \subseteq Holding(c)
                     \/ Written(c)' <= 1
                     \/ /\ Written(c)' = Written(c) + 1
                        /\ \E u \in Holding(c) : Holding(c)' = Holding(c) \ {u}
  <1> SUFFICES Kept
    BY TypesAreKept, WritesStayLimited
  <1>1. CallsTypeOK /\ MaxCalls \in Nat /\ (\A c \in Call : entries[c] \in Nat)
    BY CallsAssumption DEF CallsInv, CallsTypeOK
  <1>2. OutstandingIsUnwritten /\ \A c \in buffer : c \in Call /\ Written(c) <= 1
    BY CallsAssumption DEF CallsInv, CallsTypeOK, WritesAreLimited, Call
  <1>3. "pipeline" \in Unit /\ Others \subseteq Unit
    BY DEF Unit
  <1>10. ASSUME Open PROVE Kept
    BY <1>1, <1>2, <1>3, <1>10 DEF Open, Written, Once, Holding, OutstandingIsUnwritten,
       CallsTypeOK, Asking
  <1>11. ASSUME NEW kind \in {"plan", "section"}, Ask(kind) PROVE Kept
    BY <1>1, <1>2, <1>3, <1>11 DEF Ask, Dispatch, Written, Once, Holding,
       OutstandingIsUnwritten, CallsTypeOK, Asking
  <1>12. ASSUME AskSingle PROVE Kept
    BY <1>1, <1>2, <1>3, <1>12 DEF AskSingle, Dispatch, Written, Once, Holding,
       OutstandingIsUnwritten, CallsTypeOK, Asking
  <1>13. ASSUME AnswerPlan PROVE Kept
    BY <1>1, <1>2, <1>3, <1>13 DEF AnswerPlan, Record, Written, Once, Holding,
       OutstandingIsUnwritten, CallsTypeOK, Asking
  <1>14. ASSUME AnswerSection PROVE Kept
    BY <1>1, <1>2, <1>3, <1>14 DEF AnswerSection, Committed, Written, Once, Holding,
       OutstandingIsUnwritten, CallsTypeOK, Asking
  <1>15. ASSUME NEW s \in BOOLEAN, AnswerSingle(s) PROVE Kept
    BY <1>1, <1>2, <1>3, <1>15 DEF AnswerSingle, Record, Dispatch, Written, Once, Holding,
       OutstandingIsUnwritten, CallsTypeOK, Asking
  <1>16. ASSUME Cancelled PROVE Kept
    BY <1>1, <1>2, <1>3, <1>16 DEF Cancelled, Written, Once, Holding, OutstandingIsUnwritten,
       CallsTypeOK, Asking
  <1>17. ASSUME LocalCall PROVE Kept
    <2>1. PICK new \in Call : new = made + 1 /\ entries[new] = 0 /\ new \notin flushed
      BY <1>1, <1>2, <1>17 DEF LocalCall, OutstandingIsUnwritten, CallsTypeOK, Call
    <2>2. /\ flushed' = flushed \cup {new} /\ buffer' = buffer \cup {new}
          /\ UNCHANGED <<entries, leaving, copied>>
      BY <1>17, <2>1 DEF LocalCall, Record
    <2>3. Written(new)' = 1
      BY <2>1, <2>2 DEF Written, Once
    <2>4. \A c \in Call : c # new => Written(c)' = Written(c) /\ Holding(c)' = Holding(c)
      BY <2>2 DEF Written, Once, Holding
    <2>5. \A c \in Call : Written(c) \in Nat
      BY <1>1 DEF Written, Once
    <2> QED
      BY <1>2, <2>2, <2>3, <2>4, <2>5
  <1>18. ASSUME Checkpoint PROVE Kept
    BY <1>1, <1>2, <1>3, <1>18 DEF Checkpoint, Committed, Written, Once, Holding,
       OutstandingIsUnwritten, CallsTypeOK, Asking
  <1>19. ASSUME Succeed PROVE Kept
    BY <1>1, <1>2, <1>3, <1>19 DEF Succeed, Committed, Written, Once, Holding,
       OutstandingIsUnwritten, CallsTypeOK, Asking
  <1>20. ASSUME Fail PROVE Kept
    <2>1. /\ flushed' \subseteq flushed /\ buffer' \subseteq buffer /\ entries' = entries
          /\ leaving' = leaving \cup {"pipeline"} /\ copied' = [copied EXCEPT !["pipeline"] = buffer]
      BY <1>20 DEF Fail
    <2>2. \A c \in Call : Written(c) \in Nat /\ Written(c)' \in Nat /\ Written(c)' <= Written(c)
      BY <1>1, <2>1 DEF Written, Once
    <2>3. \A c \in Call : c \notin buffer => Holding(c)' \subseteq Holding(c)
      <3>1. copied \in [Unit -> SUBSET (1 .. made)] /\ leaving \subseteq Unit /\ "pipeline" \in Unit
        BY <1>1, <1>3 DEF CallsTypeOK
      <3> QED
        BY <2>1, <3>1 DEF Holding
    <2> QED
      BY <1>2, <2>1, <2>2, <2>3
  <1>21. ASSUME NEW u \in Others, OtherExits(u) PROVE Kept
    BY <1>1, <1>2, <1>3, <1>21 DEF OtherExits, Clear, Written, Once, Holding,
       OutstandingIsUnwritten, CallsTypeOK, Asking
  <1>22. ASSUME NEW u \in Others, OtherFails(u) PROVE Kept
    <2>1. /\ flushed' \subseteq flushed /\ buffer' \subseteq buffer /\ entries' = entries
          /\ leaving' = leaving \cup {u} /\ copied' = [copied EXCEPT ![u] = buffer]
      BY <1>22 DEF OtherFails
    <2>2. \A c \in Call : Written(c) \in Nat /\ Written(c)' \in Nat /\ Written(c)' <= Written(c)
      BY <1>1, <2>1 DEF Written, Once
    <2>3. \A c \in Call : c \notin buffer => Holding(c)' \subseteq Holding(c)
      <3>1. copied \in [Unit -> SUBSET (1 .. made)] /\ leaving \subseteq Unit /\ u \in Unit
        BY <1>1, <1>3 DEF CallsTypeOK
      <3> QED
        BY <2>1, <3>1 DEF Holding
    <2> QED
      BY <1>2, <2>1, <2>2, <2>3
  <1>23. ASSUME NEW u \in Unit, Persist(u) PROVE Kept
    BY <1>1, <1>2, <1>3, <1>23 DEF Persist, Committed, Left, Written, Once, Holding,
       OutstandingIsUnwritten, CallsTypeOK, Asking
  <1>24. ASSUME NEW u \in Unit, Locked(u) PROVE Kept
    BY <1>1, <1>2, <1>3, <1>24 DEF Locked, Left, Clear, Written, Once, Holding,
       OutstandingIsUnwritten, CallsTypeOK, Asking
  <1>25. ASSUME Dies PROVE Kept
    BY <1>1, <1>2, <1>3, <1>25 DEF Dies, Written, Once, Holding, OutstandingIsUnwritten,
       CallsTypeOK, Asking
  <1>26. ASSUME UNCHANGED callVars PROVE Kept
    BY <1>1, <1>2, <1>3, <1>26 DEF callVars, Written, Once, Holding, OutstandingIsUnwritten,
       CallsTypeOK, Asking
  <1> QED
    BY <1>10, <1>11, <1>12, <1>13, <1>14, <1>15, <1>16, <1>17, <1>18, <1>19, <1>20, <1>21,
       <1>22, <1>23, <1>24, <1>25, <1>26 DEF CallsNext


(* Nothing that counts is asked for, and the ladder is no longer than it was. *)
LEMMA BudgetShrinks ==
    ASSUME CallsInv, chief' \ unaccounted' \subseteq chief \ unaccounted,
           left' \in Nat, left' <= left
    PROVE  BudgetIsSpent'
  <1>1. MaxCalls \in Nat /\ Limit \in Nat /\ Ladder \in Nat
    BY CallsAssumption
  <1>2. chief \ unaccounted \in SUBSET Call /\ left \in Nat
    BY <1>1 DEF CallsInv, CallsTypeOK, Call
  <1>3. IsFiniteSet(Call)
    BY <1>1, FS_Interval DEF Call
  <1>4. IsFiniteSet(chief \ unaccounted)
    BY <1>2, <1>3, FS_Subset
  <1>5. /\ Cardinality(chief \ unaccounted) \in Nat /\ Cardinality(chief' \ unaccounted') \in Nat
        /\ Cardinality(chief' \ unaccounted') <= Cardinality(chief \ unaccounted)
    BY <1>4, FS_Subset, FS_CardinalityType
  <1> QED
    BY <1>1, <1>2, <1>5 DEF CallsInv, BudgetIsSpent

(* One call more that counts. *)
LEMMA BudgetGrows ==
    ASSUME NEW C, C \in SUBSET Call, NEW D, NEW c, D \subseteq C \cup {c}
    PROVE  /\ Cardinality(C) \in Nat /\ Cardinality(D) \in Nat
           /\ Cardinality(D) <= Cardinality(C) + 1
  <1>1. IsFiniteSet(C) /\ Cardinality(C) \in Nat
    BY CallsAreFinite
  <1>2. /\ IsFiniteSet(C \cup {c}) /\ Cardinality(C \cup {c}) \in Nat
        /\ Cardinality(C \cup {c}) <= Cardinality(C) + 1
    BY <1>1, FS_AddElement, FS_CardinalityType
  <1> QED
    BY <1>1, <1>2, FS_Subset, FS_CardinalityType

LEMMA BudgetIsKept == CallsInv /\ [CallsNext]_callVars => BudgetIsSpent'
  <1> SUFFICES ASSUME CallsInv, [CallsNext]_callVars PROVE BudgetIsSpent'
    OBVIOUS
  <1>1. CallsTypeOK /\ MaxCalls \in Nat /\ Limit \in Nat /\ Ladder \in Nat \ {0}
    BY CallsAssumption DEF CallsInv
  <1>2. /\ chief \in SUBSET Call /\ flushed \in SUBSET Call /\ unaccounted \in SUBSET Call
        /\ entries \in [Call -> Nat] /\ left \in Nat /\ made \in Nat
        /\ 1 .. made \subseteq Call /\ chief \subseteq 1 .. made
    BY <1>1 DEF CallsTypeOK, Call
  <1>3. lane = "idle" => \A c \in chief : c \in unaccounted \/ c \in flushed \/ entries[c] > 0
    BY <1>1, <1>2 DEF CallsInv, CallsTypeOK, CallsAreBacked, Backed, Asking
  <1>4. ASSUME NEW kind \in {"plan", "section"}, Ask(kind) PROVE BudgetIsSpent'
    <2> DEFINE C == {c \in Call : entries[c] > 0}
    <2>1. /\ lane = "idle" /\ EnsureBudget(Entries + Cardinality(flushed))
          /\ chief' = chief \cup {made + 1} /\ left' = 0 /\ unaccounted' = unaccounted
      BY <1>4 DEF Ask, Dispatch
    <2>2. IsFiniteSet(C) /\ Cardinality(C) \in Nat /\ Entries \in Nat /\ Cardinality(C) <= Entries
      BY <1>2, EntriesCountCalls
    <2>3. IsFiniteSet(flushed) /\ Cardinality(flushed) \in Nat
      BY <1>2, CallsAreFinite
    <2>4. /\ IsFiniteSet(C \cup flushed) /\ Cardinality(C \cup flushed) \in Nat
          /\ Cardinality(C \cup flushed) <= Cardinality(C) + Cardinality(flushed)
      <3>1. Cardinality(C \cap flushed) \in Nat
        <4>1. C \cap flushed \in SUBSET flushed
          OBVIOUS
        <4> QED
          BY <2>3, <4>1, FS_Subset, FS_CardinalityType
      <3> HIDE DEF C
      <3>2. /\ IsFiniteSet(C \cup flushed)
            /\ Cardinality(C \cup flushed) = Cardinality(C) + Cardinality(flushed) - Cardinality(C \cap flushed)
        BY <2>2, <2>3, FS_Union
      <3>3. Cardinality(C \cup flushed) \in Nat
        BY <3>2, FS_CardinalityType
      <3> QED
        BY <2>2, <2>3, <3>1, <3>2, <3>3
    <2>5. chief' \ unaccounted' \subseteq (C \cup flushed) \cup {made + 1}
      BY <1>2, <1>3, <2>1
    <2>6. C \cup flushed \in SUBSET Call
      BY <1>2
    <2> HIDE DEF C
    <2>7. /\ Cardinality(chief' \ unaccounted') \in Nat
          /\ Cardinality(chief' \ unaccounted') <= Cardinality(C \cup flushed) + 1
      BY <2>5, <2>6, BudgetGrows
    <2> QED
      BY <1>1, <2>1, <2>2, <2>3, <2>4, <2>7 DEF EnsureBudget, BudgetIsSpent
  <1>5. ASSUME AskSingle PROVE BudgetIsSpent'
    <2> DEFINE C == {c \in Call : entries[c] > 0}
    <2>1. lane = "idle" /\ unaccounted' = unaccounted \cup flushed
      BY <1>5 DEF AskSingle
    <2>2. CASE UNCHANGED <<lane, left, made, chief>>
      <3>1. chief' \ unaccounted' \subseteq chief \ unaccounted /\ left' = left
        BY <2>1, <2>2
      <3> QED
        BY <1>2, <3>1, BudgetShrinks
    <2>3. CASE EnsureBudget(Entries) /\ Dispatch("single", Ladder - 1)
      <3>1. Cardinality(C) \in Nat /\ Entries \in Nat /\ Cardinality(C) <= Entries
        BY <1>2, EntriesCountCalls
      <3>2. chief' = chief \cup {made + 1} /\ left' = Ladder - 1
        BY <2>3 DEF Dispatch
      <3>3. chief' \ unaccounted' \subseteq C \cup {made + 1} /\ C \in SUBSET Call
        BY <1>2, <1>3, <2>1, <3>2
      <3> HIDE DEF C
      <3>4. /\ Cardinality(chief' \ unaccounted') \in Nat
            /\ Cardinality(chief' \ unaccounted') <= Cardinality(C) + 1
        BY <3>3, BudgetGrows
      <3> QED
        BY <1>1, <2>3, <3>1, <3>2, <3>4 DEF EnsureBudget, BudgetIsSpent
    <2> QED
      BY <1>5, <2>2, <2>3 DEF AskSingle
  <1>6. ASSUME NEW s \in BOOLEAN, AnswerSingle(s) PROVE BudgetIsSpent'
    <2>1. unaccounted' = unaccounted
      BY <1>6 DEF AnswerSingle
    <2>2. CASE left' = 0 /\ UNCHANGED chief
      BY <1>2, <2>1, <2>2, BudgetShrinks
    <2>3. CASE left > 0 /\ Dispatch("single", left - 1)
      <3>1. chief' = chief \cup {made + 1} /\ left' = left - 1
        BY <2>3 DEF Dispatch
      <3>2. chief' \ unaccounted' \subseteq (chief \ unaccounted) \cup {made + 1}
        BY <2>1, <3>1
      <3>3. /\ Cardinality(chief \ unaccounted) \in Nat /\ Cardinality(chief' \ unaccounted') \in Nat
            /\ Cardinality(chief' \ unaccounted') <= Cardinality(chief \ unaccounted) + 1
        <4>1. chief \ unaccounted \in SUBSET Call
          BY <1>2
        <4> QED
          BY <3>2, <4>1, BudgetGrows
      <3> QED
        BY <1>1, <1>2, <2>3, <3>1, <3>3 DEF CallsInv, BudgetIsSpent
    <2> QED
      BY <1>6, <2>2, <2>3 DEF AnswerSingle
  <1>7. ASSUME chief' = chief, unaccounted \subseteq unaccounted', left' \in {0, left}
        PROVE  BudgetIsSpent'
    BY <1>2, <1>7, BudgetShrinks
  <1>8. \/ /\ chief' = chief /\ unaccounted \subseteq unaccounted' /\ left' \in {0, left}
        \/ \E kind \in {"plan", "section"} : Ask(kind)
        \/ AskSingle \/ \E s \in BOOLEAN : AnswerSingle(s)
    BY DEF CallsNext, callVars, Open, AnswerPlan, AnswerSection, Cancelled, LocalCall,
       Checkpoint,
       Succeed, Fail, OtherExits, OtherFails, Persist, Locked, Clear, Dies
  <1> QED
    BY <1>4, <1>5, <1>6, <1>7, <1>8

LEMMA CallsInvariant == CallsSpec => []CallsInv
  <1>1. CallsInv /\ [CallsNext]_callVars => CallsInv'
    BY TypesAreKept, BackingIsKept, SecondCopiesAreKept, OutstandingStaysUnwritten,
       WritesAreKept, BudgetIsKept DEF CallsInv
  <1> QED
    BY <1>1, CallsInitInv, PTL DEF CallsSpec

(* The calls of the Chief Engineer exceed the limit of a run by no more than *)
(* the rest of one ladder, whatever fails and however the units of work      *)
(* overlap, save for calls the process is known to have lost (ensure_budget).*)
THEOREM BudgetStaysKept == CallsSpec => []BudgetHolds
  <1>1. CallsInv => BudgetHolds
    <2> SUFFICES ASSUME CallsInv PROVE BudgetHolds
      OBVIOUS
    <2>1. chief \ unaccounted \in SUBSET Call /\ left \in Nat /\ Limit \in Nat /\ Ladder \in Nat
      BY CallsAssumption DEF CallsInv, CallsTypeOK, Call
    <2>2. Cardinality(chief \ unaccounted) \in Nat
      BY <2>1, BudgetGrows
    <2> QED
      BY <2>1, <2>2 DEF CallsInv, BudgetIsSpent, BudgetHolds
  <1> QED
    BY <1>1, CallsInvariant, PTL

(* No recorded call is lost in silence, and none is written more often than *)
(* there are units of work to write it, besides its own (record_call,       *)
(* _persist_pending_model_calls).                                           *)
THEOREM LedgerStaysComplete == CallsSpec => []LedgerIsComplete
  <1>1. CallsInv => LedgerIsComplete
    <2> SUFFICES ASSUME CallsInv PROVE LedgerIsComplete
      OBVIOUS
    <2>1. EvidenceIsKept
      BY DEF CallsInv, CallsAreBacked, Backed, EvidenceIsKept
    <2>2. EntriesAreBounded
      <3> SUFFICES ASSUME NEW c \in Call PROVE entries[c] <= 2 + Cardinality(Others)
        BY DEF EntriesAreBounded
      <3>1. Written(c) + Cardinality(Holding(c)) <= 1 + Cardinality(Unit)
        BY DEF CallsInv, WritesAreLimited
      <3>2. Cardinality(Holding(c)) \in Nat
        <4>1. Holding(c) \in SUBSET Unit
          BY DEF CallsInv, CallsTypeOK, Holding
        <4> QED
          BY <4>1, UnitsAreFinite
      <3>3. entries[c] \in Nat /\ entries[c] <= Written(c) /\ Written(c) \in Nat
        BY DEF CallsInv, CallsTypeOK, Written, Once
      <3> QED
        BY <3>1, <3>2, <3>3, UnitsAreFinite
    <2> QED
      BY <2>1, <2>2 DEF CallsInv, LedgerIsComplete
  <1> QED
    BY <1>1, CallsInvariant, PTL

-----------------------------------------------------------------------------
(* The harness document.  The inductive invariant says what a process       *)
(* relies on inside the lock: it is alone, the document is the one it has   *)
(* read, and the file it has written holds that document.  Snapshot files   *)
(* are never removed, so that their numbers are 1 .. k and the next one is  *)
(* new.                                                                     *)

Busy(w) == job[w] # NoJob

Alone ==
    /\ \A w \in Writers : Busy(w) <=> w \in holder
    /\ \A v, w \in holder : v = w

Numbered == \E k \in Nat : DOMAIN files = 1 .. k

ReadIsCurrent == \A w \in Writers : Busy(w) =>
    /\ job[w].current = document
    /\ job[w].at \in {"backup", "commit"} =>
          job[w].name \in DOMAIN files /\ files[job[w].name] = document
    /\ job[w].at = "commit" => backup = document

HarnessInv ==
    HarnessTypeOK /\ Alone /\ Numbered /\ ReadIsCurrent /\ RollbackExists /\ BackupIsFresh

-----------------------------------------------------------------------------

LEMMA NumberIsNew ==
    ASSUME NEW k \in Nat, DOMAIN files = 1 .. k
    PROVE  NextNumber = k + 1
  <1>1. CASE k = 0
    BY <1>1 DEF NextNumber
  <1>2. CASE k > 0
    <2>1. k \in DOMAIN files /\ \A m \in DOMAIN files : m <= k
      BY <1>2
    <2>2. \A n \in DOMAIN files : (\A m \in DOMAIN files : m <= n) => n = k
      BY <2>1
    <2>3. (CHOOSE n \in DOMAIN files : \A m \in DOMAIN files : m <= n) = k
      BY <2>1, <2>2
    <2> QED
      BY <1>2, <2>3 DEF NextNumber
  <1> QED
    BY <1>1, <1>2

LEMMA NoJobIsNoJob == NoJob \notin Job /\ \A j \in Job : j # NoJob
  BY DEF NoJob, Job

LEMMA HarnessInitInv == HarnessInit => HarnessInv
  <1> SUFFICES ASSUME HarnessInit PROVE HarnessInv
    OBVIOUS
  <1>1. EmptyDocument \in Document
    BY DEF EmptyDocument, Document
  <1>2. HarnessTypeOK
    BY <1>1, HarnessAssumption DEF HarnessInit, HarnessTypeOK
  <1>3. Alone /\ ReadIsCurrent
    BY DEF HarnessInit, Alone, ReadIsCurrent, Busy
  <1>4. Numbered
    <2>1. DOMAIN files = 1 .. 0
      BY DEF HarnessInit
    <2> QED
      BY <2>1 DEF Numbered
  <1>5. RollbackExists /\ BackupIsFresh
    BY DEF HarnessInit, EmptyDocument, RollbackExists, BackupIsFresh
  <1> QED
    BY <1>2, <1>3, <1>4, <1>5 DEF HarnessInv

\* A locked section begins: every mutation of the document passes here.
LEMMA EnterInv ==
    ASSUME HarnessInv, NEW w \in Writers,
           NEW listed \in [Ids -> Entry \cup {NoEntry}],
           Enter(w, listed), ~ Busy(w),
           wish' = wish \/ wish' = [wish EXCEPT ![w] = NoWish]
    PROVE  HarnessInv'
  <1> DEFINE new == [at |-> "snapshot", current |-> document,
                     updated |-> [document EXCEPT !.entries = listed], name |-> 0]
  <1>1. new \in Job /\ new # NoJob /\ new.at = "snapshot" /\ new.current = document
    BY DEF HarnessInv, HarnessTypeOK, Document, Job, NoJob
  <1>2. job' = [job EXCEPT ![w] = new] /\ UNCHANGED <<document, files, backup, past>>
    BY DEF Enter
  <1>3. holder = {} /\ holder' = {w}
    BY DEF Enter, LockIsFree
  <1> HIDE DEF new
  <1>4. job \in [Writers -> Job \cup {NoJob}]
    BY DEF HarnessInv, HarnessTypeOK
  <1>5. job'[w] = new /\ \A v \in Writers : v # w => job'[v] = job[v]
    BY <1>2, <1>4
  <1>6. \A v \in Writers : job[v] = NoJob
    BY <1>3 DEF HarnessInv, Alone, Busy
  <1>7. HarnessTypeOK'
    <2>1. job' \in [Writers -> Job \cup {NoJob}]
      BY <1>1, <1>2, <1>4
    <2>2. wish' \in [Writers -> [id : Ids, entry : Entry] \cup {NoWish}]
      BY DEF HarnessInv, HarnessTypeOK
    <2>3. holder' \in SUBSET Writers
      BY <1>3
    <2> QED
      BY <1>2, <2>1, <2>2, <2>3 DEF HarnessInv, HarnessTypeOK
  <1>8. Alone'
    BY <1>1, <1>3, <1>5, <1>6 DEF Alone, Busy
  <1>9. ReadIsCurrent'
    BY <1>1, <1>2, <1>5, <1>6 DEF ReadIsCurrent, Busy
  <1>10. Numbered' /\ RollbackExists' /\ BackupIsFresh'
    BY <1>2 DEF HarnessInv, Numbered, RollbackExists, BackupIsFresh
  <1> QED
    BY <1>7, <1>8, <1>9, <1>10 DEF HarnessInv

LEMMA WriteSnapshotInv ==
    ASSUME HarnessInv, NEW w \in Writers, WriteSnapshot(w)
    PROVE  HarnessInv'
  <1>1. PICK k \in Nat : DOMAIN files = 1 .. k
    BY DEF HarnessInv, Numbered
  <1>2. NextNumber = k + 1 /\ k + 1 \notin DOMAIN files /\ k + 1 <= MaxFiles
    BY <1>1, NumberIsNew DEF WriteSnapshot
  <1> DEFINE moved == [job[w] EXCEPT !.at = "backup", !.name = k + 1]
  <1>3. /\ UNCHANGED <<document, backup, holder, wish, past>>
        /\ job' = [job EXCEPT ![w] = moved] /\ Busy(w) /\ job[w].at = "snapshot"
        /\ DOMAIN files' = DOMAIN files \cup {k + 1}
        /\ files'[k + 1] = job[w].current
        /\ \A n \in DOMAIN files : files'[n] = files[n]
    BY <1>2 DEF WriteSnapshot, Busy
  <1>4. job \in [Writers -> Job \cup {NoJob}] /\ job[w] \in Job
    BY <1>3 DEF HarnessInv, HarnessTypeOK, Busy
  <1>5. moved \in Job /\ moved.at = "backup" /\ moved.name = k + 1 /\ moved.current = job[w].current
    <2>1. PICK j \in Job : j = job[w]
      BY <1>4
    <2>2. k + 1 \in Nat /\ j \in [at : {"snapshot", "backup", "commit"}, current : Document,
                                 updated : Document, name : Nat]
      BY DEF Job
    <2>3. moved = [j EXCEPT !.at = "backup", !.name = k + 1]
      BY <2>1
    <2> HIDE DEF moved
    <2>4. moved \in [at : {"snapshot", "backup", "commit"}, current : Document,
                    updated : Document, name : Nat]
      BY <2>2, <2>3
    <2> QED
      BY <2>1, <2>2, <2>3, <2>4 DEF Job
  <1> HIDE DEF moved
  <1>6. moved # NoJob
    BY <1>5, NoJobIsNoJob
  <1>7. job'[w] = moved /\ \A v \in Writers : v # w => job'[v] = job[v]
    BY <1>3, <1>4
  <1>8. job[w].current = document /\ document \in Document
    BY <1>3 DEF HarnessInv, ReadIsCurrent, HarnessTypeOK
  <1>9. HarnessTypeOK'
    <2>1. job' \in [Writers -> Job \cup {NoJob}]
      BY <1>3, <1>4, <1>5
    <2>2. DOMAIN files' \subseteq 1 .. MaxFiles
      BY <1>2, <1>3 DEF HarnessInv, HarnessTypeOK
    <2>3. \A n \in DOMAIN files' : files'[n] \in Document
      BY <1>3, <1>8 DEF HarnessInv, HarnessTypeOK
    <2> QED
      BY <1>3, <2>1, <2>2, <2>3 DEF HarnessInv, HarnessTypeOK
  <1>10. Alone'
    BY <1>3, <1>6, <1>7 DEF HarnessInv, Alone, Busy
  <1>11. ReadIsCurrent'
    <2>1. \A v \in Writers : v # w => ~ Busy(v)
      BY <1>3 DEF HarnessInv, Alone
    <2> QED
      BY <1>3, <1>5, <1>7, <1>8, <2>1 DEF ReadIsCurrent, Busy
  <1>12. Numbered'
    <2>1. DOMAIN files' = 1 .. (k + 1)
      BY <1>1, <1>3
    <2> QED
      BY <2>1 DEF Numbered
  <1>13. RollbackExists' /\ BackupIsFresh'
    BY <1>3 DEF HarnessInv, RollbackExists, BackupIsFresh
  <1> QED
    BY <1>9, <1>10, <1>11, <1>12, <1>13 DEF HarnessInv

LEMMA WriteBackupInv ==
    ASSUME HarnessInv, NEW w \in Writers, WriteBackup(w)
    PROVE  HarnessInv'
  <1> DEFINE moved == [job[w] EXCEPT !.at = "commit"]
  <1>1. /\ UNCHANGED <<document, files, holder, wish, past>>
        /\ job' = [job EXCEPT ![w] = moved] /\ Busy(w) /\ job[w].at = "backup"
        /\ backup' = job[w].current
    BY DEF WriteBackup, Busy
  <1>2. job \in [Writers -> Job \cup {NoJob}] /\ job[w] \in Job
    BY <1>1 DEF HarnessInv, HarnessTypeOK, Busy
  <1>3. /\ moved \in Job /\ moved.at = "commit" /\ moved.name = job[w].name
        /\ moved.current = job[w].current
    BY <1>2 DEF Job
  <1> HIDE DEF moved
  <1>4. moved # NoJob
    BY <1>3, NoJobIsNoJob
  <1>5. job'[w] = moved /\ \A v \in Writers : v # w => job'[v] = job[v]
    BY <1>1, <1>2
  <1>6. /\ job[w].current = document /\ document \in Document
        /\ job[w].name \in DOMAIN files /\ files[job[w].name] = document
    BY <1>1 DEF HarnessInv, ReadIsCurrent, HarnessTypeOK
  <1>7. \A v \in Writers : v # w => ~ Busy(v)
    BY <1>1 DEF HarnessInv, Alone
  <1>8. HarnessTypeOK'
    <2>1. job' \in [Writers -> Job \cup {NoJob}]
      BY <1>1, <1>2, <1>3
    <2> QED
      BY <1>1, <1>6, <2>1 DEF HarnessInv, HarnessTypeOK
  <1>9. Alone'
    BY <1>1, <1>4, <1>5 DEF HarnessInv, Alone, Busy
  <1>10. ReadIsCurrent'
    BY <1>1, <1>3, <1>5, <1>6, <1>7 DEF ReadIsCurrent, Busy
  <1>11. Numbered' /\ RollbackExists'
    BY <1>1 DEF HarnessInv, Numbered, RollbackExists
  <1>12. BackupIsFresh'
    BY <1>1, <1>6 DEF BackupIsFresh
  <1> QED
    BY <1>8, <1>9, <1>10, <1>11, <1>12 DEF HarnessInv

LEMMA CommitInv ==
    ASSUME HarnessInv, NEW w \in Writers, Commit(w)
    PROVE  HarnessInv'
  <1> DEFINE r == document.revision
             next == [job[w].updated EXCEPT
                        !.revision = job[w].current.revision + 1,
                        !.snapshot_files = Append(job[w].current.snapshot_files, job[w].name)]
  <1>1. /\ UNCHANGED <<files, backup, wish>>
        /\ document' = next /\ past' = Append(past, document)
        /\ job' = [job EXCEPT ![w] = NoJob] /\ holder' = holder \ {w}
        /\ Busy(w) /\ job[w].at = "commit"
    BY DEF Commit, Busy
  <1>2. job \in [Writers -> Job \cup {NoJob}] /\ job[w] \in Job
    BY <1>1 DEF HarnessInv, HarnessTypeOK, Busy
  <1>3. /\ job[w].current = document /\ document \in Document
        /\ job[w].name \in DOMAIN files /\ files[job[w].name] = document
        /\ backup = document
    BY <1>1 DEF HarnessInv, ReadIsCurrent, HarnessTypeOK
  <1>4. r \in Nat /\ document.snapshot_files \in Seq(Nat) /\ job[w].name \in Nat
        /\ past \in Seq(Document)
    BY <1>2, <1>3 DEF Job, Document, HarnessInv, HarnessTypeOK
  <1>5. /\ next \in Document /\ next.revision = r + 1
        /\ next.snapshot_files = Append(document.snapshot_files, job[w].name)
    <2>1. job[w].updated \in Document
      BY <1>2 DEF Job
    <2> DEFINE names == Append(document.snapshot_files, job[w].name)
    <2>2. names \in Seq(Nat)
      BY <1>4
    <2>3. next = [job[w].updated EXCEPT !.revision = r + 1, !.snapshot_files = names]
      BY <1>3
    <2>4. PICK d \in Document : d = job[w].updated
      BY <2>1
    <2>5. r + 1 \in Nat
      BY <1>4
    <2> HIDE DEF names, next, r
    <2>6. next = [d EXCEPT !.revision = r + 1, !.snapshot_files = names]
      BY <2>3, <2>4
    <2>7. next \in Document /\ next.revision = r + 1 /\ next.snapshot_files = names
      BY <2>2, <2>5, <2>6 DEF Document
    <2> QED
      BY <2>7 DEF names
  <1> HIDE DEF next
  <1>6. job'[w] = NoJob /\ \A v \in Writers : v # w => job'[v] = job[v]
    BY <1>1, <1>2
  <1>7. \A v \in Writers : v # w => ~ Busy(v)
    BY <1>1 DEF HarnessInv, Alone
  <1>8. HarnessTypeOK'
    <2>1. job' \in [Writers -> Job \cup {NoJob}]
      BY <1>1, <1>2
    <2>2. past' \in Seq(Document)
      BY <1>1, <1>3, <1>4
    <2>3. holder' \in SUBSET Writers
      BY <1>1 DEF HarnessInv, HarnessTypeOK
    <2> QED
      BY <1>1, <1>5, <2>1, <2>2, <2>3 DEF HarnessInv, HarnessTypeOK
  <1>9. Alone'
    BY <1>1, <1>6 DEF HarnessInv, Alone, Busy
  <1>10. ReadIsCurrent'
    BY <1>6, <1>7 DEF ReadIsCurrent, Busy
  <1>11. Numbered'
    BY <1>1 DEF HarnessInv, Numbered
  <1>12. RollbackExists'
    <2>1. /\ Len(document.snapshot_files) = r /\ Len(past) = r
          /\ \A i \in 1 .. r : /\ document.snapshot_files[i] \in DOMAIN files
                               /\ files[document.snapshot_files[i]] = past[i]
      BY DEF HarnessInv, RollbackExists
    <2>2. /\ Len(next.snapshot_files) = r + 1
          /\ next.snapshot_files[r + 1] = job[w].name
          /\ \A i \in 1 .. r : next.snapshot_files[i] = document.snapshot_files[i]
      BY <1>4, <1>5, <2>1
    <2>3. /\ Len(past') = r + 1 /\ past'[r + 1] = document
          /\ \A i \in 1 .. r : past'[i] = past[i]
      <3> HIDE DEF r
      <3> QED
        BY <1>1, <1>3, <1>4, <2>1
    <2>4. \A i \in 1 .. (r + 1) : /\ next.snapshot_files[i] \in DOMAIN files
                                  /\ files[next.snapshot_files[i]] = past'[i]
      <3> SUFFICES ASSUME NEW i \in 1 .. (r + 1)
                   PROVE  /\ next.snapshot_files[i] \in DOMAIN files
                          /\ files[next.snapshot_files[i]] = past'[i]
        OBVIOUS
      <3>1. CASE i = r + 1
        BY <1>3, <2>2, <2>3, <3>1
      <3>2. CASE i \in 1 .. r
        BY <2>1, <2>2, <2>3, <3>2
      <3> QED
        BY <1>4, <3>1, <3>2
    <2> QED
      BY <1>1, <1>5, <2>2, <2>3, <2>4 DEF RollbackExists
  <1>13. BackupIsFresh'
    <2>1. past'[Len(past')] = document /\ r + 1 > 0
      <3> HIDE DEF r
      <3> QED
        BY <1>1, <1>3, <1>4
    <2> QED
      BY <1>1, <1>3, <1>5, <2>1 DEF BackupIsFresh
  <1> QED
    BY <1>8, <1>9, <1>10, <1>11, <1>12, <1>13 DEF HarnessInv

LEMMA FailsInv ==
    ASSUME HarnessInv, NEW w \in Writers, Fails(w)
    PROVE  HarnessInv'
  <1>1. /\ UNCHANGED <<document, files, backup, past>>
        /\ job' = [job EXCEPT ![w] = NoJob] /\ holder' = holder \ {w}
        /\ wish' = [wish EXCEPT ![w] = NoWish]
    BY DEF Fails
  <1>2. job \in [Writers -> Job \cup {NoJob}]
    BY DEF HarnessInv, HarnessTypeOK
  <1>3. job'[w] = NoJob /\ \A v \in Writers : v # w => job'[v] = job[v]
    BY <1>1, <1>2
  <1>4. HarnessTypeOK'
    <2>1. job' \in [Writers -> Job \cup {NoJob}]
      BY <1>1, <1>2
    <2>2. wish' \in [Writers -> [id : Ids, entry : Entry] \cup {NoWish}]
      BY <1>1 DEF HarnessInv, HarnessTypeOK
    <2> QED
      BY <1>1, <2>1, <2>2 DEF HarnessInv, HarnessTypeOK
  <1>5. Alone' /\ ReadIsCurrent'
    BY <1>1, <1>3 DEF HarnessInv, Alone, ReadIsCurrent, Busy
  <1>6. Numbered' /\ RollbackExists' /\ BackupIsFresh'
    BY <1>1 DEF HarnessInv, Numbered, RollbackExists, BackupIsFresh
  <1> QED
    BY <1>4, <1>5, <1>6 DEF HarnessInv

\* The registry only reads in its first locked section.
LEMMA WishInv ==
    ASSUME HarnessInv, NEW w \in Writers, NEW i \in Ids, NEW s \in SubagentStatus, Wish(w, i, s)
    PROVE  HarnessInv'
  <1>1. UNCHANGED <<document, files, backup, holder, job, past>>
    BY DEF Wish
  <1>2. [id |-> i, entry |-> Subagent(s)] \in [id : Ids, entry : Entry]
    BY DEF Subagent, Entry
  <1>3. wish' \in [Writers -> [id : Ids, entry : Entry] \cup {NoWish}]
    BY <1>2 DEF Wish, HarnessInv, HarnessTypeOK
  <1> QED
    BY <1>1, <1>3 DEF HarnessInv, HarnessTypeOK, Alone, Numbered, ReadIsCurrent, Busy,
       RollbackExists, BackupIsFresh

LEMMA EditsAreTyped ==
    ASSUME HarnessInv, NEW i \in Ids
    PROVE  /\ \A e \in Entry \cup {NoEntry} :
                 [document.entries EXCEPT ![i] = e] \in [Ids -> Entry \cup {NoEntry}]
           /\ \A v \in Values : document.entries[i] # NoEntry =>
                 [document.entries EXCEPT ![i].content = v] \in [Ids -> Entry \cup {NoEntry}]
  <1>1. document.entries \in [Ids -> Entry \cup {NoEntry}]
    BY DEF HarnessInv, HarnessTypeOK, Document
  <1>2. ASSUME NEW v \in Values, document.entries[i] # NoEntry
        PROVE  [document.entries EXCEPT ![i].content = v] \in [Ids -> Entry \cup {NoEntry}]
    <2>1. document.entries[i] \in Entry
      BY <1>1, <1>2
    <2>2. [document.entries[i] EXCEPT !.content = v] \in Entry
      BY <2>1 DEF Entry
    <2> QED
      BY <1>1, <2>2
  <1> QED
    BY <1>1, <1>2

LEMMA HarnessNextInv == HarnessInv /\ [HarnessNext]_harnessVars => HarnessInv'
  <1> SUFFICES ASSUME HarnessInv, [HarnessNext]_harnessVars PROVE HarnessInv'
    OBVIOUS
  <1>1. CASE UNCHANGED harnessVars
    BY <1>1 DEF harnessVars, HarnessInv, HarnessTypeOK, Alone, Numbered, ReadIsCurrent, Busy,
       RollbackExists, BackupIsFresh
  <1>2. CASE HarnessNext
    <2>1. PICK w \in Writers :
             \/ \E i \in Ids, e \in Inputs : Upsert(w, i, e)
             \/ \E i \in Ids : Delete(w, i) \/ Register(w, i)
             \/ \E i \in Ids, v \in Values : Refine(w, i, v)
             \/ \E i \in Ids, s \in Moves : Transition(w, i, s)
             \/ PutRecord(w)
             \/ WriteSnapshot(w) \/ WriteBackup(w) \/ Commit(w) \/ Fails(w)
      BY <1>2 DEF HarnessNext
    <2>2. ASSUME NEW i \in Ids, NEW e \in Inputs, Upsert(w, i, e) PROVE HarnessInv'
      BY <2>2, EditsAreTyped, EnterInv, HarnessAssumption DEF Upsert, Free, Busy
    <2>3. ASSUME NEW i \in Ids, Delete(w, i) PROVE HarnessInv'
      BY <2>3, EditsAreTyped, EnterInv DEF Delete, Free, Busy
    <2>4. ASSUME NEW i \in Ids, NEW v \in Values, Refine(w, i, v) PROVE HarnessInv'
      BY <2>4, EditsAreTyped, EnterInv DEF Refine, Free, Busy
    <2>5. ASSUME NEW i \in Ids, Register(w, i) PROVE HarnessInv'
      BY <2>5, WishInv DEF Register, SubagentStatus
    <2>6. ASSUME NEW i \in Ids, NEW s \in Moves, Transition(w, i, s) PROVE HarnessInv'
      BY <2>6, WishInv, HarnessAssumption DEF Transition
    <2>7. CASE PutRecord(w)
      <3>1. wish[w].id \in Ids /\ wish[w].entry \in Entry
        BY <2>7 DEF PutRecord, HarnessInv, HarnessTypeOK
      <3> QED
        BY <2>7, <3>1, EditsAreTyped, EnterInv DEF PutRecord, Busy
    <2> QED
      BY <2>1, <2>2, <2>3, <2>4, <2>5, <2>6, <2>7,
         WriteSnapshotInv, WriteBackupInv, CommitInv, FailsInv
  <1> QED
    BY <1>1, <1>2

-----------------------------------------------------------------------------

\* The three together are inductive.
LEMMA HarnessInvariant == HarnessSpec => []HarnessInv
  BY HarnessInitInv, HarnessNextInv, PTL DEF HarnessSpec

(* The document, its snapshots and its backup keep their types.             *)
THEOREM HarnessTypeCorrect == HarnessSpec => []HarnessTypeOK
  <1>1. HarnessInv => HarnessTypeOK
    BY DEF HarnessInv
  <1> QED
    BY <1>1, HarnessInvariant, PTL

(* Every revision of the document can be rolled back: the file that the     *)
(* document names for it holds what that revision replaced.                 *)
THEOREM EveryRevisionRollsBack == HarnessSpec => []RollbackExists
  <1>1. HarnessInv => RollbackExists
    BY DEF HarnessInv
  <1> QED
    BY <1>1, HarnessInvariant, PTL

(* The backup file is never older than the document's last predecessor.     *)
THEOREM BackupStaysFresh == HarnessSpec => []BackupIsFresh
  <1>1. HarnessInv => BackupIsFresh
    BY DEF HarnessInv
  <1> QED
    BY <1>1, HarnessInvariant, PTL

(* The three at once, as the run of the services checks them: whoever dies  *)
(* between the writes of snapshot, backup and document, the history on disk *)
(* stays one that can be rolled back.                                       *)
THEOREM HistoryStaysOnDisk == HarnessSpec => []HistoryIsOnDisk
  <1>1. HarnessInv => HistoryIsOnDisk
    BY DEF HarnessInv, HistoryIsOnDisk
  <1> QED
    BY <1>1, HarnessInvariant, PTL

-----------------------------------------------------------------------------
(* The engineering sessions.  The inductive invariant says what a request   *)
(* that has read may still rely on: sequences and goals only grow, a        *)
(* session leaves DRAFT for good, and a goal that was read carried its      *)
(* history with it.                                                         *)

Complete(goal) == goal.history = [i \in 1 .. goal.revision - 1 |-> i]

(* What a request has read, as far as it still holds when it is written.    *)
Reliable(pending) ==
    /\ pending.op # "none" =>
          /\ pending.read.goal <= Len(goals)
          /\ pending.read.status # "DRAFT" => session.status # "DRAFT"
    /\ pending.op = "transition" => pending.to # "DRAFT"
    /\ pending.op = "revise_goal" =>
          /\ pending.id \in DOMAIN goals
          /\ Complete(pending.goal) /\ pending.goal.revision < MaxGoalRevision
    /\ pending.op = "numbered" => pending.turn.sequence \in 1 .. Cardinality(turns) + 1

Admitting == {r \in Requests : request[r].op \in {"admit", "numbered"}}

OverrunIsSpent ==
    \/ Cardinality(turns) < MaxTurns
    \/ Cardinality(turns) + Cardinality(Admitting) <= MaxTurns + Cardinality(Requests) - 1

EngineeringInv ==
    /\ SessionTypeOK
    /\ IsFiniteSet(turns)
    /\ \A r \in Requests : Reliable(request[r])
    /\ TimelineIsGapless
    /\ HistoryIsComplete
    /\ OverrunIsSpent

-----------------------------------------------------------------------------
(* Lemmas. *)

LEMMA SessionTyped == SessionTypeOK => session \in Session
  BY DEF SessionTypeOK

LEMMA AdmittingIsFinite == IsFiniteSet(Admitting) /\ Cardinality(Admitting) \in Nat
  <1>1. Admitting \subseteq Requests
    BY DEF Admitting
  <1> QED
    BY <1>1, FS_Subset, FS_CardinalityType, EngineeringAssumption

\* Requests that go on admitting are no more than there were, unless one begins.
LEMMA AdmittingShrinks ==
    ASSUME NEW r \in Requests, request \in [Requests -> Pending \cup {Idle}], NEW pending,
           request' = [request EXCEPT ![r] = pending],
           pending.op \in {"admit", "numbered"} => request[r].op \in {"admit", "numbered"}
    PROVE  /\ Cardinality(Admitting') \in Nat
           /\ Cardinality(Admitting') <= Cardinality(Admitting)
  <1>1. \A q \in Requests : request'[q] = IF q = r THEN pending ELSE request[q]
    OBVIOUS
  <1>2. Admitting' \subseteq Admitting
    BY <1>1 DEF Admitting
  <1> QED
    BY <1>2, AdmittingIsFinite, FS_Subset, FS_CardinalityType

\* A request that ends is not admitting, so that one request at least is not.
LEMMA AdmittingLeaves ==
    ASSUME NEW r \in Requests, request \in [Requests -> Pending \cup {Idle}],
           request' = [request EXCEPT ![r] = Idle]
    PROVE  /\ Cardinality(Admitting') \in Nat
           /\ Cardinality(Admitting') <= Cardinality(Requests) - 1
           /\ request[r].op \in {"admit", "numbered"} =>
                 Cardinality(Admitting') = Cardinality(Admitting) - 1
  <1>1. \A q \in Requests : request'[q] = IF q = r THEN Idle ELSE request[q]
    OBVIOUS
  <1>2. Idle.op = "none"
    BY DEF Idle
  <1>3. Admitting' = Admitting \ {r}
    BY <1>1, <1>2 DEF Admitting
  <1>4. Admitting' \subseteq Requests \ {r}
    BY <1>3 DEF Admitting
  <1>5. IsFiniteSet(Requests \ {r}) /\ Cardinality(Requests \ {r}) = Cardinality(Requests) - 1
    BY FS_RemoveElement, EngineeringAssumption
  <1>6. /\ Cardinality(Admitting') <= Cardinality(Requests) - 1
        /\ Cardinality(Admitting') \in Nat
    BY <1>4, <1>5, FS_Subset, FS_CardinalityType
  <1>7. ASSUME request[r].op \in {"admit", "numbered"}
        PROVE  Cardinality(Admitting') = Cardinality(Admitting) - 1
    <2>1. r \in Admitting
      BY <1>7 DEF Admitting
    <2> QED
      BY <2>1, <1>3, AdmittingIsFinite, FS_RemoveElement
  <1> QED
    BY <1>6, <1>7

\* The next revision of a complete goal is complete.
LEMMA RevisedIsComplete ==
    ASSUME NEW goal \in Goal, Complete(goal), goal.revision < MaxGoalRevision
    PROVE  Revised(goal) \in Goal /\ Complete(Revised(goal))
  <1>1. goal.revision \in 1 .. MaxGoalRevision /\ goal.history \in Seq(Nat)
    BY DEF Goal
  <1>2. /\ Revised(goal).revision = goal.revision + 1
        /\ Revised(goal).history = Append(goal.history, goal.revision)
        /\ Revised(goal).status = goal.status
    BY DEF Revised, Goal
  <1>3. Revised(goal) \in Goal
    <2>1. goal.revision + 1 \in 1 .. MaxGoalRevision
      BY <1>1, EngineeringAssumption
    <2>2. Append(goal.history, goal.revision) \in Seq(Nat)
      BY <1>1
    <2> QED
      BY <2>1, <2>2 DEF Revised, Goal
  <1>4. Len(goal.history) = goal.revision - 1
    BY <1>1 DEF Complete
  <1>5. /\ Append(goal.history, goal.revision) \in Seq(Nat)
        /\ Len(Append(goal.history, goal.revision)) = goal.revision
        /\ DOMAIN Append(goal.history, goal.revision) = 1 .. goal.revision
    BY <1>1, <1>4
  <1>6. \A i \in 1 .. goal.revision : Append(goal.history, goal.revision)[i] = i
    BY <1>1, <1>4 DEF Complete
  <1>7. Append(goal.history, goal.revision) = [i \in 1 .. goal.revision |-> i]
    BY <1>5, <1>6
  <1> QED
    BY <1>1, <1>2, <1>3, <1>7 DEF Complete

\* The last sequence of a timeline without gaps is the number of its turns.
LEMMA LastIsCount ==
    ASSUME TimelineIsGapless, IsFiniteSet(turns), turns \subseteq Turn
    PROVE  LastSequence = Cardinality(turns) /\ Cardinality(turns) \in Nat
  <1>1. Cardinality(turns) \in Nat
    BY FS_CardinalityType
  <1>2. CASE turns = {}
    BY <1>1, <1>2, FS_EmptySet DEF LastSequence
  <1>3. CASE turns # {}
    <2> DEFINE S == {t.sequence : t \in turns}
    <2>1. S = 1 .. Cardinality(turns)
      BY DEF TimelineIsGapless
    <2>2. Cardinality(turns) # 0
      BY <1>3, FS_EmptySet
    <2>3. Cardinality(turns) \in S
      BY <1>1, <2>1, <2>2
    <2>4. \A t \in turns : t.sequence \in S /\ t.sequence <= Cardinality(turns)
      BY <1>1, <2>1
    <2>5. \A n \in S : (\A t \in turns : t.sequence <= n) => n = Cardinality(turns)
      BY <1>1, <2>1, <2>3
    <2>6. (CHOOSE n \in S : \A t \in turns : t.sequence <= n) = Cardinality(turns)
      BY <2>3, <2>4, <2>5
    <2> QED
      BY <1>1, <1>3, <2>6 DEF LastSequence
  <1> QED
    BY <1>2, <1>3

-----------------------------------------------------------------------------
(* The invariant holds initially. *)

LEMMA EngineeringInitInv == EngineeringInit => EngineeringInv
  <1> SUFFICES ASSUME EngineeringInit PROVE EngineeringInv
    OBVIOUS
  <1> USE DEF EngineeringInit
  <1>1. SessionTypeOK
    BY EngineeringAssumption DEF SessionTypeOK, Session, SessionStatus
  <1>2. IsFiniteSet(turns) /\ Cardinality(turns) = 0
    BY FS_EmptySet
  <1>3. \A r \in Requests : Reliable(request[r])
    BY DEF Reliable, Idle
  <1>4. TimelineIsGapless
    BY <1>2 DEF TimelineIsGapless
  <1>5. HistoryIsComplete
    BY DEF HistoryIsComplete
  <1>6. OverrunIsSpent
    BY <1>2, EngineeringAssumption DEF OverrunIsSpent
  <1> QED
    BY <1>1, <1>2, <1>3, <1>4, <1>5, <1>6 DEF EngineeringInv

-----------------------------------------------------------------------------
(* Reading. *)

\* A request that takes up a reliable job disturbs nothing else.
LEMMA TakesJob ==
    ASSUME EngineeringInv, NEW r \in Requests, NEW pending \in Pending, Reliable(pending),
           request' = [request EXCEPT ![r] = pending], UNCHANGED <<session, goals, turns>>,
           pending.op \in {"admit", "numbered"} =>
              request[r].op \in {"admit", "numbered"} \/ Cardinality(turns) < MaxTurns
    PROVE  EngineeringInv'
  <1> USE DEF EngineeringInv
  <1>1. SessionTypeOK'
    BY DEF SessionTypeOK
  <1>2. IsFiniteSet(turns)' /\ TimelineIsGapless' /\ HistoryIsComplete'
    BY DEF TimelineIsGapless, HistoryIsComplete
  <1>3. (\A q \in Requests : Reliable(request[q]))'
    <2>1. \A q \in Requests : request'[q] = IF q = r THEN pending ELSE request[q]
      BY DEF SessionTypeOK
    <2> QED
      BY <2>1 DEF Reliable
  <1>4. OverrunIsSpent'
    <2>1. CASE Cardinality(turns) < MaxTurns
      BY <2>1 DEF OverrunIsSpent
    <2>2. CASE ~(Cardinality(turns) < MaxTurns)
      <3>1. /\ Cardinality(Admitting') \in Nat
            /\ Cardinality(Admitting') <= Cardinality(Admitting)
        BY <2>2, AdmittingShrinks DEF SessionTypeOK
      <3>2. Cardinality(turns) \in Nat /\ Cardinality(Requests) \in Nat
        BY FS_CardinalityType, EngineeringAssumption
      <3> QED
        BY <2>2, <3>1, <3>2, AdmittingIsFinite, EngineeringAssumption DEF OverrunIsSpent
    <2> QED
      BY <2>1, <2>2
  <1> QED
    BY <1>1, <1>2, <1>3, <1>4

LEMMA BeginInv ==
    ASSUME EngineeringInv, NEW r \in Requests, NEW pending \in Pending, Begin(r, pending),
           Reliable(pending), pending.op = "admit" => Cardinality(turns) < MaxTurns, pending.op # "numbered"
    PROVE  EngineeringInv'
  BY TakesJob DEF Begin

LEMMA BeginTransitionInv ==
    ASSUME EngineeringInv, NEW r \in Requests, NEW s \in SessionStatus, BeginTransition(r, s)
    PROVE  EngineeringInv'
  <1> DEFINE pending == [op |-> "transition", read |-> session, to |-> s]
  <1>1. session \in Session /\ session.goal <= Len(goals)
    BY DEF EngineeringInv, SessionTypeOK
  <1>2. s # "DRAFT"
    BY <1>1 DEF BeginTransition, TRANSITIONS, Session, SessionStatus, Closed
  <1>3. pending \in Pending
    BY <1>1 DEF Pending
  <1>4. Reliable(pending)
    BY <1>1, <1>2 DEF Reliable
  <1> QED
    BY <1>3, <1>4, BeginInv DEF BeginTransition

LEMMA BeginCreateGoalInv ==
    ASSUME EngineeringInv, NEW r \in Requests, BeginCreateGoal(r)
    PROVE  EngineeringInv'
  <1> DEFINE pending == [op |-> "create_goal", read |-> session]
  <1>1. session \in Session /\ session.goal <= Len(goals)
    BY DEF EngineeringInv, SessionTypeOK
  <1>2. pending \in Pending
    BY <1>1 DEF Pending
  <1>3. Reliable(pending)
    BY <1>1 DEF Reliable
  <1> QED
    BY <1>2, <1>3, BeginInv DEF BeginCreateGoal

LEMMA BeginReviseGoalInv ==
    ASSUME EngineeringInv, NEW r \in Requests, NEW g \in DOMAIN goals, BeginReviseGoal(r, g)
    PROVE  EngineeringInv'
  <1> DEFINE pending == [op |-> "revise_goal", read |-> session, id |-> g, goal |-> goals[g]]
  <1>1. session \in Session /\ session.goal <= Len(goals)
    BY DEF EngineeringInv, SessionTypeOK
  <1>2. g \in 1 .. MaxGoals /\ goals[g] \in Goal
    BY EngineeringAssumption DEF EngineeringInv, SessionTypeOK
  <1>3. pending \in Pending
    BY <1>1, <1>2 DEF Pending
  <1>4. Complete(goals[g]) /\ goals[g].revision < MaxGoalRevision
    BY DEF EngineeringInv, HistoryIsComplete, Complete, BeginReviseGoal
  <1>5. Reliable(pending)
    BY <1>1, <1>4 DEF Reliable
  <1> QED
    BY <1>3, <1>5, BeginInv DEF BeginReviseGoal

LEMMA BeginAdmitInv ==
    ASSUME EngineeringInv, NEW r \in Requests, NEW k \in Keys, BeginAdmit(r, k)
    PROVE  EngineeringInv'
  <1> DEFINE pending == [op |-> "admit", read |-> session, key |-> k]
  <1>1. session \in Session /\ session.goal <= Len(goals)
    BY DEF EngineeringInv, SessionTypeOK
  <1>2. pending \in Pending
    BY <1>1 DEF Pending
  <1>3. Reliable(pending)
    BY <1>1 DEF Reliable
  <1> QED
    BY <1>2, <1>3, BeginInv DEF BeginAdmit, WithinLimit

\* The pending that a request carries, by its operation.
LEMMA JobsAreTyped ==
    ASSUME SessionTypeOK, NEW r \in Requests, request[r].op # "none"
    PROVE  /\ request[r] \in Pending /\ request[r].read \in Session
           /\ request[r].op = "transition" => request[r].to \in SessionStatus
           /\ request[r].op = "revise_goal" =>
                 request[r].id \in 1 .. MaxGoals /\ request[r].goal \in Goal
           /\ request[r].op = "admit" => request[r].key \in Keys
           /\ request[r].op = "numbered" => request[r].turn \in Turn
  <1>1. request[r] \in Pending
    BY DEF SessionTypeOK, Idle
  <1> QED
    BY <1>1 DEF Pending

LEMMA ReadSequenceInv ==
    ASSUME EngineeringInv, NEW r \in Requests, ReadSequence(r)
    PROVE  EngineeringInv'
  <1> DEFINE g == request[r].read.goal
             turn == [sequence |-> LastSequence + 1, key |-> request[r].key, goal |-> g,
                      revision |-> IF g = 0 THEN 0 ELSE goals[g].revision]
             pending == [op |-> "numbered", read |-> request[r].read, turn |-> turn]
  <1>1. request[r].op = "admit" /\ request[r].read \in Session /\ request[r].key \in Keys
    BY JobsAreTyped DEF EngineeringInv, ReadSequence
  <1>2. /\ g \in 0 .. MaxGoals /\ g <= Len(goals)
        /\ request[r].read.status # "DRAFT" => session.status # "DRAFT"
    BY <1>1 DEF EngineeringInv, Reliable, Session
  <1>3. g # 0 => g \in DOMAIN goals /\ goals[g] \in Goal
    BY <1>2, EngineeringAssumption DEF EngineeringInv, SessionTypeOK
  <1>4. LastSequence = Cardinality(turns) /\ Cardinality(turns) \in Nat
    BY LastIsCount DEF EngineeringInv, SessionTypeOK
  <1>5. (IF g = 0 THEN 0 ELSE goals[g].revision) \in 0 .. MaxGoalRevision
    BY <1>3, EngineeringAssumption DEF Goal
  <1>6. turn \in Turn
    BY <1>1, <1>2, <1>4, <1>5 DEF Turn
  <1>7. pending \in Pending
    BY <1>1, <1>6 DEF Pending
  <1>8. turn.sequence \in 1 .. Cardinality(turns) + 1
    BY <1>4
  <1>9. Reliable(pending)
    BY <1>2, <1>8 DEF Reliable
  <1>10. request' = [request EXCEPT ![r] = pending] /\ UNCHANGED <<session, goals, turns>>
    BY DEF ReadSequence
  <1> QED
    BY <1>1, <1>7, <1>9, <1>10, TakesJob

-----------------------------------------------------------------------------
(* Writing. *)

\* Setting a goal's status leaves its revisions alone.
LEMMA GoalStatusKeeps ==
    ASSUME EngineeringInv, NEW g \in 0 .. MaxGoals, g <= Len(goals), NEW s \in SessionStatus,
           GoalStatus(g, s)
    PROVE  goals' \in Seq(Goal) /\ Len(goals') = Len(goals) /\ HistoryIsComplete'
  <1>1. goals \in Seq(Goal)
    BY DEF EngineeringInv, SessionTypeOK
  <1>2. CASE g = 0
    BY <1>1, <1>2 DEF GoalStatus, EngineeringInv, HistoryIsComplete
  <1>3. CASE g # 0
    <2>1. g \in DOMAIN goals /\ goals[g] \in Goal
      BY <1>1, <1>3, EngineeringAssumption
    <2>2. goals' = [goals EXCEPT ![g].status = s]
      BY <1>3 DEF GoalStatus
    <2>3. [goals[g] EXCEPT !.status = s] \in Goal
      BY <2>1 DEF Goal
    <2>4. /\ goals' \in Seq(Goal) /\ Len(goals') = Len(goals)
          /\ DOMAIN goals' = DOMAIN goals
      BY <1>1, <2>1, <2>2, <2>3
    <2>5. \A h \in DOMAIN goals :
             goals'[h].revision = goals[h].revision /\ goals'[h].history = goals[h].history
      <3>1. TAKE h \in DOMAIN goals
      <3>2. goals[h] \in Goal
        BY <1>1
      <3> QED
        BY <1>1, <2>1, <2>2, <3>2 DEF Goal
    <2> QED
      BY <2>4, <2>5 DEF EngineeringInv, HistoryIsComplete
  <1> QED
    BY <1>2, <1>3

\* What every request that ends without a turn keeps.
LEMMA EndsWithoutTurn ==
    ASSUME EngineeringInv, NEW r \in Requests, request[r].op # "none", End(r), turns' = turns,
           session' \in Session, session'.goal <= Len(goals'),
           session.status # "DRAFT" => session'.status # "DRAFT",
           goals' \in Seq(Goal), Len(goals) <= Len(goals'), Len(goals') <= MaxGoals,
           HistoryIsComplete'
    PROVE  EngineeringInv'
  <1> USE DEF EngineeringInv
  <1>1. \A q \in Requests : request'[q] = IF q = r THEN Idle ELSE request[q]
    BY DEF End, SessionTypeOK
  <1>2. SessionTypeOK'
    <2>1. request' \in [Requests -> Pending \cup {Idle}]
      BY DEF End, SessionTypeOK
    <2> QED
      BY <2>1 DEF SessionTypeOK
  <1>3. IsFiniteSet(turns)' /\ TimelineIsGapless'
    BY DEF TimelineIsGapless
  <1>4. (\A q \in Requests : Reliable(request[q]))'
    <2>1. Len(goals) \in Nat /\ Len(goals') \in Nat /\ DOMAIN goals \subseteq DOMAIN goals'
      BY DEF SessionTypeOK
    <2>2. TAKE q \in Requests
    <2>3. CASE q = r
      BY <1>1, <2>3 DEF Reliable, Idle
    <2>4. CASE q # r
      <3>1. request'[q] = request[q] /\ Reliable(request[q])
        BY <1>1, <2>4
      <3>2. request[q].op # "none" => request[q].read.goal \in 0 .. MaxGoals
        BY JobsAreTyped DEF Session
      <3> QED
        BY <2>1, <3>1, <3>2 DEF Reliable
    <2> QED
      BY <2>3, <2>4
  <1>5. OverrunIsSpent'
    <2>1. /\ Cardinality(Admitting') \in Nat
          /\ Cardinality(Admitting') <= Cardinality(Admitting)
      BY AdmittingShrinks DEF End, SessionTypeOK, Idle
    <2>2. Cardinality(turns) \in Nat /\ Cardinality(Requests) \in Nat
      BY FS_CardinalityType, EngineeringAssumption
    <2> QED
      BY <2>1, <2>2, AdmittingIsFinite, EngineeringAssumption DEF OverrunIsSpent
  <1> QED
    BY <1>2, <1>3, <1>4, <1>5

LEMMA WriteTransitionInv ==
    ASSUME EngineeringInv, NEW r \in Requests, WriteTransition(r)
    PROVE  EngineeringInv'
  <1>1. /\ request[r].op = "transition" /\ request[r].read \in Session
        /\ request[r].to \in SessionStatus
    BY JobsAreTyped DEF WriteTransition, EngineeringInv
  <1>2. request[r].read.goal <= Len(goals) /\ request[r].to # "DRAFT"
    BY <1>1 DEF EngineeringInv, Reliable
  <1>3. goals' \in Seq(Goal) /\ Len(goals') = Len(goals) /\ HistoryIsComplete'
    BY <1>1, <1>2, GoalStatusKeeps DEF WriteTransition, Session
  <1>4. session \in Session /\ session.goal <= Len(goals) /\ Len(goals) <= MaxGoals
    BY DEF EngineeringInv, SessionTypeOK
  <1>5. /\ session' \in Session /\ session'.goal = session.goal
        /\ session'.status = request[r].to
    BY <1>1, <1>4 DEF WriteTransition, Session
  <1>6. Len(goals) \in Nat
    BY DEF EngineeringInv, SessionTypeOK
  <1> QED
    BY <1>1, <1>2, <1>3, <1>4, <1>5, <1>6, EndsWithoutTurn DEF WriteTransition

LEMMA WriteCreateGoalInv ==
    ASSUME EngineeringInv, NEW r \in Requests, WriteCreateGoal(r)
    PROVE  EngineeringInv'
  <1> DEFINE goal == [status |-> request[r].read.status, revision |-> 1, history |-> <<>>]
  <1>1. request[r].op = "create_goal" /\ request[r].read \in Session
    BY JobsAreTyped DEF WriteCreateGoal, EngineeringInv
  <1>2. goals \in Seq(Goal) /\ Len(goals) \in Nat /\ session \in Session
    BY DEF EngineeringInv, SessionTypeOK
  <1>3. goal \in Goal
    BY <1>1, EngineeringAssumption DEF Goal, Session
  <1>4. goals' = Append(goals, goal) /\ Len(goals) < MaxGoals
    BY DEF WriteCreateGoal
  <1>5. /\ goals' \in Seq(Goal) /\ Len(goals') = Len(goals) + 1
        /\ DOMAIN goals' = 1 .. Len(goals) + 1
        /\ \A g \in 1 .. Len(goals) : goals'[g] = goals[g]
        /\ goals'[Len(goals) + 1] = goal
    BY <1>2, <1>3, <1>4
  <1>6. HistoryIsComplete'
    <2>1. ASSUME NEW g \in 1 .. Len(goals) + 1
          PROVE  goals'[g].history = [i \in 1 .. goals'[g].revision - 1 |-> i]
      <3>1. CASE g \in 1 .. Len(goals)
        BY <1>2, <1>5, <3>1 DEF EngineeringInv, HistoryIsComplete
      <3>2. CASE g = Len(goals) + 1
        BY <1>5, <3>2
      <3> QED
        BY <1>2, <3>1, <3>2
    <2> QED
      BY <1>5, <2>1 DEF HistoryIsComplete
  <1>7. session' \in Session /\ session'.goal = Len(goals) + 1 /\ session'.status = session.status
    BY <1>2, <1>4, EngineeringAssumption DEF WriteCreateGoal, Session
  <1> QED
    BY <1>1, <1>2, <1>4, <1>5, <1>6, <1>7, EngineeringAssumption, EndsWithoutTurn
       DEF WriteCreateGoal

LEMMA OverwritesRevision ==
    ASSUME NEW goal \in Goal, NEW n, NEW h
    PROVE  [[goal EXCEPT !.revision = n] EXCEPT !.history = h]
              = [status |-> goal.status, revision |-> n, history |-> h]
  <1>1. goal = [status |-> goal.status, revision |-> goal.revision, history |-> goal.history]
    BY DEF Goal
  <1>2. [goal EXCEPT !.revision = n]
           = [status |-> goal.status, revision |-> n, history |-> goal.history]
    BY <1>1
  <1>3. [[status |-> goal.status, revision |-> n,
     history |-> goal.history] EXCEPT !.history = h]
           = [status |-> goal.status, revision |-> n, history |-> h]
    OBVIOUS
  <1> QED
    BY <1>2, <1>3

LEMMA WriteReviseGoalInv ==
    ASSUME EngineeringInv, NEW r \in Requests, WriteReviseGoal(r)
    PROVE  EngineeringInv'
  <1> DEFINE g == request[r].id
             revised == Revised(request[r].goal)
  <1>1. request[r].op = "revise_goal" /\ request[r].goal \in Goal
    BY JobsAreTyped DEF WriteReviseGoal, EngineeringInv
  <1>2. /\ g \in DOMAIN goals /\ Complete(request[r].goal)
        /\ request[r].goal.revision < MaxGoalRevision
    BY <1>1 DEF EngineeringInv, Reliable
  <1>3. revised \in Goal /\ Complete(revised)
    BY <1>1, <1>2, RevisedIsComplete
  <1>4. goals \in Seq(Goal) /\ goals[g] \in Goal
    BY <1>2 DEF EngineeringInv, SessionTypeOK
  <1>5. goals' = [goals EXCEPT ![g].revision = revised.revision, ![g].history = revised.history]
    BY DEF WriteReviseGoal
  <1> HIDE DEF revised
  <1>6. goals' = [goals EXCEPT ![g] =
                    [status |-> goals[g].status, revision |-> revised.revision,
                     history |-> revised.history]]
    <2>1. [[goals[g] EXCEPT !.revision = revised.revision] EXCEPT !.history = revised.history]
             = [status |-> goals[g].status, revision |-> revised.revision,
                history |-> revised.history]
      BY <1>4, OverwritesRevision
    <2>2. goals' = [goals EXCEPT ![g] =
                       [[goals[g] EXCEPT !.revision = revised.revision]
                           EXCEPT !.history = revised.history]]
      BY <1>2, <1>4, <1>5
    <2> QED
      BY <2>1, <2>2
  <1>7. [status |-> goals[g].status, revision |-> revised.revision, history |-> revised.history]
           \in Goal
    BY <1>3, <1>4 DEF Goal
  <1>8. goals' \in Seq(Goal) /\ Len(goals') = Len(goals) /\ DOMAIN goals' = DOMAIN goals
    BY <1>2, <1>4, <1>6, <1>7
  <1>9. HistoryIsComplete'
    <2>1. \A h \in DOMAIN goals : Complete(goals'[h])
      BY <1>2, <1>3, <1>4, <1>6 DEF EngineeringInv, HistoryIsComplete, Complete
    <2> QED
      BY <1>8, <2>1 DEF HistoryIsComplete, Complete
  <1>10. /\ session' = session /\ turns' = turns /\ End(r) /\ Len(goals) \in Nat
         /\ session \in Session /\ session.goal <= Len(goals) /\ Len(goals) <= MaxGoals
    BY <1>4 DEF WriteReviseGoal, EngineeringInv, SessionTypeOK
  <1> QED
    BY <1>1, <1>8, <1>9, <1>10, EndsWithoutTurn

LEMMA AbortsInv ==
    ASSUME EngineeringInv, NEW r \in Requests, Aborts(r)
    PROVE  EngineeringInv'
  <1>1. request[r] \in Pending
    BY DEF Aborts, EngineeringInv, SessionTypeOK
  <1>2. request[r].op # "none"
    BY <1>1 DEF Pending
  <1>3. /\ session' = session /\ turns' = turns /\ goals' = goals /\ End(r)
        /\ session \in Session /\ session.goal <= Len(goals) /\ Len(goals) <= MaxGoals
        /\ goals \in Seq(Goal) /\ Len(goals) \in Nat
    BY DEF Aborts, EngineeringInv, SessionTypeOK
  <1>4. HistoryIsComplete'
    BY <1>3 DEF EngineeringInv, HistoryIsComplete
  <1> QED
    BY <1>2, <1>3, <1>4, EndsWithoutTurn

\* The unique keys leave one sequence to a new turn, the next one.
LEMMA TurnExtends ==
    ASSUME TimelineIsGapless, IsFiniteSet(turns), turns \subseteq Turn, NEW turn \in Turn,
           turn.sequence \in 1 .. Cardinality(turns) + 1, Unique(turn),
           turns' = turns \cup {turn}
    PROVE  /\ IsFiniteSet(turns') /\ Cardinality(turns') = Cardinality(turns) + 1
           /\ TimelineIsGapless'
  <1>1. turn \notin turns /\ Cardinality(turns) \in Nat
    BY FS_CardinalityType DEF Unique
  <1>2. IsFiniteSet(turns') /\ Cardinality(turns') = Cardinality(turns) + 1
    BY <1>1, FS_AddElement
  <1>3. turn.sequence = Cardinality(turns) + 1
    <2>1. turn.sequence \notin {t.sequence : t \in turns}
      BY DEF Unique
    <2>2. turn.sequence \notin 1 .. Cardinality(turns)
      BY <2>1 DEF TimelineIsGapless
    <2> QED
      BY <1>1, <2>2
  <1>4. {t.sequence : t \in turns'} = 1 .. Cardinality(turns')
    <2>1. {t.sequence : t \in turns'} = {t.sequence : t \in turns} \cup {turn.sequence}
      OBVIOUS
    <2>2. {t.sequence : t \in turns'} = (1 .. Cardinality(turns)) \cup {Cardinality(turns) + 1}
      BY <2>1, <1>3 DEF TimelineIsGapless
    <2>3. (1 .. Cardinality(turns)) \cup {Cardinality(turns) + 1} = 1 .. Cardinality(turns) + 1
      BY <1>1
    <2> QED
      BY <1>2, <2>2, <2>3
  <1>5. \A t, u \in turns' : t.key = u.key => t = u
    BY DEF TimelineIsGapless, Unique
  <1> QED
    BY <1>2, <1>4, <1>5 DEF TimelineIsGapless

LEMMA ActivateKeeps ==
    ASSUME EngineeringInv, NEW r \in Requests, request[r].op = "numbered", Activate(r)
    PROVE  /\ session' \in Session /\ session'.goal = session.goal /\ session'.status # "DRAFT"
           /\ goals' \in Seq(Goal) /\ Len(goals') = Len(goals) /\ HistoryIsComplete'
  <1>1. request[r].read \in Session
    BY JobsAreTyped DEF EngineeringInv
  <1>2. /\ request[r].read.goal <= Len(goals)
        /\ request[r].read.status # "DRAFT" => session.status # "DRAFT"
    BY DEF EngineeringInv, Reliable
  <1>3. session \in Session /\ goals \in Seq(Goal)
    BY DEF EngineeringInv, SessionTypeOK
  <1>4. CASE request[r].read.status = "DRAFT"
    <2>1. "ACTIVE" \in SessionStatus
      BY DEF SessionStatus
    <2>2. session' = [session EXCEPT !.status = "ACTIVE"] /\ GoalStatus(request[r].read.goal, "ACTIVE")
      BY <1>4 DEF Activate
    <2>3. goals' \in Seq(Goal) /\ Len(goals') = Len(goals) /\ HistoryIsComplete'
      BY <1>1, <1>2, <2>1, <2>2, GoalStatusKeeps DEF Session
    <2>4. session' \in Session /\ session'.goal = session.goal /\ session'.status = "ACTIVE"
      BY <1>3, <2>1, <2>2 DEF Session
    <2> QED
      BY <2>3, <2>4
  <1>5. CASE request[r].read.status # "DRAFT"
    <2>1. session' = session /\ goals' = goals
      BY <1>5 DEF Activate
    <2>2. HistoryIsComplete'
      BY <2>1 DEF EngineeringInv, HistoryIsComplete
    <2> QED
      BY <1>2, <1>3, <1>5, <2>1, <2>2
  <1> QED
    BY <1>4, <1>5

LEMMA WriteTurnInv ==
    ASSUME EngineeringInv, NEW r \in Requests, WriteTurn(r)
    PROVE  EngineeringInv'
  <1> DEFINE turn == request[r].turn
  <1>1. request[r].op = "numbered" /\ turn \in Turn
    BY JobsAreTyped DEF WriteTurn, EngineeringInv
  <1>2. turn.sequence \in 1 .. Cardinality(turns) + 1
    BY <1>1 DEF EngineeringInv, Reliable
  <1>3. /\ IsFiniteSet(turns') /\ Cardinality(turns') = Cardinality(turns) + 1
        /\ TimelineIsGapless'
    <2>1. /\ TimelineIsGapless /\ IsFiniteSet(turns) /\ turns \subseteq Turn
          /\ Unique(turn) /\ turns' = turns \cup {turn}
      BY DEF EngineeringInv, SessionTypeOK, WriteTurn
    <2> QED
      BY <1>1, <1>2, <2>1, TurnExtends
  <1>4. /\ session' \in Session /\ session'.goal = session.goal /\ session'.status # "DRAFT"
        /\ goals' \in Seq(Goal) /\ Len(goals') = Len(goals) /\ HistoryIsComplete'
    BY <1>1, ActivateKeeps DEF WriteTurn
  <1>5. /\ request \in [Requests -> Pending \cup {Idle}]
        /\ request' = [request EXCEPT ![r] = Idle]
    BY DEF EngineeringInv, SessionTypeOK, WriteTurn, End
  <1>6. \A q \in Requests : request'[q] = IF q = r THEN Idle ELSE request[q]
    BY <1>5
  <1>7. SessionTypeOK'
    <2>1. request' \in [Requests -> Pending \cup {Idle}]
      BY <1>5
    <2>2. turns' \subseteq Turn
      BY <1>1 DEF EngineeringInv, SessionTypeOK, WriteTurn
    <2>3. session'.goal <= Len(goals') /\ Len(goals') <= MaxGoals
      BY <1>4 DEF EngineeringInv, SessionTypeOK
    <2> QED
      BY <1>4, <2>1, <2>2, <2>3 DEF SessionTypeOK
  <1>8. (\A q \in Requests : Reliable(request[q]))'
    <2>1. Cardinality(turns) \in Nat /\ DOMAIN goals' = DOMAIN goals
      BY <1>4, FS_CardinalityType DEF EngineeringInv, SessionTypeOK
    <2>2. TAKE q \in Requests
    <2>3. CASE q = r
      BY <1>6, <2>3 DEF Reliable, Idle
    <2>4. CASE q # r
      <3>1. request'[q] = request[q] /\ Reliable(request[q])
        BY <1>6, <2>4 DEF EngineeringInv
      <3> QED
        BY <1>3, <1>4, <2>1, <3>1 DEF Reliable
    <2> QED
      BY <2>3, <2>4
  <1>9. OverrunIsSpent'
    <2>1. /\ Cardinality(Admitting') \in Nat
          /\ Cardinality(Admitting') <= Cardinality(Requests) - 1
          /\ Cardinality(Admitting') = Cardinality(Admitting) - 1
      BY <1>1, <1>5, AdmittingLeaves
    <2>2. Cardinality(turns) \in Nat /\ Cardinality(Requests) \in Nat
      BY FS_CardinalityType, EngineeringAssumption DEF EngineeringInv
    <2>3. OverrunIsSpent
      BY DEF EngineeringInv
    <2> QED
      BY <1>3, <2>1, <2>2, <2>3, AdmittingIsFinite, EngineeringAssumption DEF OverrunIsSpent
  <1> QED
    BY <1>3, <1>4, <1>7, <1>8, <1>9 DEF EngineeringInv

-----------------------------------------------------------------------------
(* Every step keeps the invariant. *)

LEMMA EngineeringNextInv == EngineeringInv /\ [EngineeringNext]_engineeringVars => EngineeringInv'
  <1> SUFFICES ASSUME EngineeringInv, [EngineeringNext]_engineeringVars PROVE EngineeringInv'
    OBVIOUS
  <1>1. CASE UNCHANGED engineeringVars
    BY <1>1 DEF engineeringVars, EngineeringInv, SessionTypeOK, Reliable, TimelineIsGapless,
                HistoryIsComplete, OverrunIsSpent, Admitting
  <1>2. ASSUME NEW r \in Requests,
               \/ \E s \in SessionStatus : BeginTransition(r, s)
               \/ BeginCreateGoal(r) \/ \E g \in DOMAIN goals : BeginReviseGoal(r, g)
               \/ \E k \in Keys : BeginAdmit(r, k)
               \/ ReadSequence(r)
               \/ WriteTransition(r) \/ WriteCreateGoal(r) \/ WriteReviseGoal(r) \/ WriteTurn(r)
               \/ Aborts(r)
        PROVE  EngineeringInv'
    BY <1>2, BeginTransitionInv, BeginCreateGoalInv, BeginReviseGoalInv, BeginAdmitInv,
       ReadSequenceInv, WriteTransitionInv, WriteCreateGoalInv, WriteReviseGoalInv,
       WriteTurnInv, AbortsInv
  <1> QED
    BY <1>1, <1>2 DEF EngineeringNext

LEMMA EngineeringInvariant == EngineeringSpec => []EngineeringInv
  BY EngineeringInitInv, EngineeringNextInv, PTL DEF EngineeringSpec

(* However many requests overlap, the timeline of a session has no gap and  *)
(* no key twice, and the requests that overlap the one that reaches the     *)
(* limit exceed it by one turn each at most (admit_turn).                   *)
THEOREM AdmissionsStayOrdered == EngineeringSpec => []AdmissionsAreOrdered
  <1>1. EngineeringInv => AdmissionsAreOrdered
    <2> SUFFICES ASSUME EngineeringInv PROVE LimitOverrunIsBounded
      BY DEF EngineeringInv, AdmissionsAreOrdered
    <2>1. Cardinality(turns) \in Nat /\ Cardinality(Requests) \in Nat
      BY FS_CardinalityType, EngineeringAssumption DEF EngineeringInv
    <2> QED
      BY <2>1, AdmittingIsFinite, EngineeringAssumption
         DEF EngineeringInv, OverrunIsSpent, LimitOverrunIsBounded
  <1> QED
    BY <1>1, EngineeringInvariant, PTL

(* A goal remembers every revision that leads to its own, also when an      *)
(* overlapping request has overwritten a later one (revise_goal).           *)
THEOREM HistoryStaysComplete == EngineeringSpec => []HistoryIsComplete
  <1>1. EngineeringInv => HistoryIsComplete
    BY DEF EngineeringInv
  <1> QED
    BY <1>1, EngineeringInvariant, PTL

=============================================================================
