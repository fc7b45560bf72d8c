---------------------------- MODULE SwarmProofs -----------------------------
(***************************************************************************)
(* Proofs about light swarms.                                              *)
(*                                                                         *)
(* A request writes columns that it computed from what it read, so that a  *)
(* row may hold columns of several requests.  SwarmInv therefore says of   *)
(* each column, in the row and in what every open request has read, what   *)
(* it means for the nodes that were completed, and never of two columns    *)
(* what they mean together.                                                *)
(***************************************************************************)
EXTENDS LightSwarm, TLAPS, FiniteSetTheorems, SequenceTheorems

Verdict == {NoVerdict, "BUDGET_EXCEEDED", "KILLED_BY_USER", "NEEDS_REPAIR", "EVIDENCE_MISSING",
            "EVIDENCE_READY", "NEEDS_HUMAN"}

NodeRow == [dispatched : BOOLEAN, owner : Owners, artifact : BOOLEAN]

\* The statuses of the nodes, and of the gate once it has refused.
Statuses ==
    LET Value == NodeStatus \cup {"REFUSED"}
    IN  {s \in [Node -> Value] \cup [Node \cup {Gate} -> Value] : \A n \in Node : s[n] \in NodeStatus}

SwarmRow == [status : SwarmStatus, active : [Node -> Nat], cost : 0..(CostLimit + 1),
             verdict : Verdict, statuses : Statuses, nodes : [Node -> NodeRow]]

SwarmRequest == [stage : {"unsent", "open", "answered"}, row : SwarmRow \cup {<<>>},
                 beside : {<<>>}, left : 0..MaxMeanwhile]

RowsTyped ==
    /\ row \in SwarmRow
    /\ requests \in [Client -> SwarmRequest]
    /\ \A c \in Open : requests[c].row \in SwarmRow

\* What the columns of a row mean when these nodes were completed.
Licensed(r, d) ==
    /\ \A n \in Node : r.statuses[n] = "COMPLETED" => n \in d
    /\ \A n \in Node : r.statuses[n] = "RUNNING" => Depends[n] \subseteq d
    /\ \A n \in Node : r.active[n] > 0 => Depends[n] \subseteq d
    /\ Cardinality(Running(r)) <= MaxWorkers
    /\ r.verdict = "EVIDENCE_READY" => d = Node

Bounded(r) == \A n \in Node : r.active[n] <= MaxOwned

RowsLicensed == /\ Licensed(row, done) /\ Bounded(row)
                /\ \A c \in Open : Licensed(requests[c].row, done) /\ Bounded(requests[c].row)

CompletedInOrder == /\ done \subseteq Node
                    /\ \A n \in done : Depends[n] \subseteq done
                    /\ submitted => done = Node

SwarmInv == PoolTypeOK /\ RowsTyped /\ RowsLicensed /\ CompletedInOrder

-----------------------------------------------------------------------------
(***************************************************************************)
(* The pool                                                                *)
(***************************************************************************)
LEMMA IsSequence ==
    ASSUME NEW S, NEW n \in Nat, NEW f \in [1 .. n -> S]
    PROVE  f \in Seq(S) /\ Len(f) = n /\ DOMAIN f = 1 .. n
  BY SeqDef

LEMMA ConcatenationIsSequence ==
    ASSUME NEW S, NEW s \in Seq(S), NEW t \in Seq(S)
    PROVE  s \o t \in Seq(S) /\ Len(s \o t) = Len(s) + Len(t)
  OBVIOUS

LEMMA ReserveKeepsTypes ==
    ASSUME PoolTypeOK, NEW t \in Nat, NEW w \in Runner, NEW n \in Nat, Reserve(t, w, n)
    PROVE  PoolTypeOK'
  <1> DEFINE S == {"held", "returned", "cancelled", "dropped"}
  <1>1. leases \in Seq(DispatchLog) /\ Len(leases) \in Nat /\ DOMAIN leases = 1 .. Len(leases)
    BY DEF PoolTypeOK
  <1>2. share \in [1 .. Len(leases) -> S]
    BY <1>1 DEF PoolTypeOK
  <1>3. share \in Seq(S) /\ Len(share) = Len(leases)
    BY <1>1, <1>2, IsSequence
  <1>4. Granted(t, w) \in DispatchLog /\ "held" \in S
    BY DEF Granted, DispatchLog
  <1> HIDE DEF S
  <1>5. /\ [k \in 1 .. n |-> Granted(t, w)] \in Seq(DispatchLog)
        /\ Len([k \in 1 .. n |-> Granted(t, w)]) = n
        /\ [k \in 1 .. n |-> "held"] \in Seq(S) /\ Len([k \in 1 .. n |-> "held"]) = n
    <2>1. [k \in 1 .. n |-> Granted(t, w)] \in [1 .. n -> DispatchLog]
      BY <1>4
    <2>2. [k \in 1 .. n |-> "held"] \in [1 .. n -> S]
      BY <1>4
    <2> QED
      BY <2>1, <2>2, IsSequence
  <1>6. leases' \in Seq(DispatchLog) /\ Len(leases') = Len(leases) + n
    BY <1>1, <1>5 DEF Reserve
  <1>7. share' \in Seq(S) /\ Len(share') = Len(leases) + n
    <2>1. PICK places : places = [k \in 1 .. n |-> "held"]
      OBVIOUS
    <2>2. share' = share \o places /\ places \in Seq(S) /\ Len(places) = n
      BY <1>5, <2>1 DEF Reserve
    <2>3. PICK held : held = share
      OBVIOUS
    <2>4. held \o places \in Seq(S) /\ Len(held \o places) = Len(held) + Len(places)
      BY <1>3, <2>2, <2>3, ConcatenationIsSequence
    <2> QED
      BY <1>3, <2>2, <2>3, <2>4
  <1>8. share' \in [DOMAIN leases' -> S]
    <2>1. DOMAIN leases' = 1 .. Len(leases') /\ DOMAIN share' = 1 .. Len(share')
      BY <1>6, <1>7
    <2>2. share' \in [1 .. Len(share') -> S]
      BY <1>7
    <2> QED
      BY <1>6, <1>7, <2>1, <2>2
  <1>9. pool' \in [Runner -> RunnerState]
    <2>1. Raised(pool[w], n) \in RunnerState
      BY DEF PoolTypeOK, Raised, RunnerState, Health
    <2> QED
      BY <2>1 DEF Reserve, PoolTypeOK
  <1> QED
    BY <1>6, <1>8, <1>9 DEF Reserve, PoolTypeOK, S

LEMMA AgainIsCounted ==
    ASSUME PoolTypeOK, NEW set \in SUBSET DOMAIN leases, CountAgain(set)
    PROVE  again' \in [Runner -> Nat] /\ short' \in [Runner -> Nat]
  <1>1. \A r : Cardinality(On(r, GivenBack(set))) \in Nat
    <2>1. leases \in Seq(DispatchLog) /\ IsFiniteSet(DOMAIN leases)
      BY FS_Interval DEF PoolTypeOK
    <2>2. \A r : On(r, GivenBack(set)) \subseteq DOMAIN leases
      BY DEF On, GivenBack
    <2> QED
      BY <2>1, <2>2, FS_Subset, FS_CardinalityType
  <1> QED
    BY <1>1 DEF CountAgain, PoolTypeOK

LEMMA ReturnKeepsTypes ==
    ASSUME PoolTypeOK, NEW l \in DOMAIN leases, Return(l)
    PROVE  PoolTypeOK'
  <1>1. leases[l].runner \in Runner
    <2>1. leases[l] \in DispatchLog
      BY DEF PoolTypeOK
    <2> QED
      BY <2>1 DEF DispatchLog
  <1>2. pool' \in [Runner -> RunnerState]
    <2>1. Lowered(pool[leases[l].runner], 1) \in RunnerState
      BY <1>1 DEF PoolTypeOK, Lowered, RunnerState, Health
    <2> QED
      BY <1>1, <2>1 DEF Return, PoolTypeOK
  <1>3. again' \in [Runner -> Nat] /\ short' \in [Runner -> Nat]
    BY AgainIsCounted DEF Return
  <1> QED
    BY <1>2, <1>3 DEF Return, Shares, PoolTypeOK

USE RunnerPoolAssumption, SwarmAssumption, RequestsAssumption

-----------------------------------------------------------------------------
(***************************************************************************)
(* Sets of nodes                                                           *)
(***************************************************************************)
LEMMA NodesAreCountable ==
    ASSUME NEW S \in SUBSET Node
    PROVE  IsFiniteSet(S) /\ Cardinality(S) \in Nat
  BY FS_Subset, FS_CardinalityType

LEMMA LargerSet ==
    ASSUME NEW S \in SUBSET Node, NEW T \in SUBSET S
    PROVE  T \in SUBSET Node /\ Cardinality(T) <= Cardinality(S)
  BY NodesAreCountable, FS_Subset

\* The first few of some nodes are few.
LEMMA FirstFewAreFew ==
    ASSUME NEW S \in SUBSET Node, NEW k \in Nat
    PROVE  FirstFew(S, k) \in SUBSET S /\ Cardinality(FirstFew(S, k)) <= k
  <1> DEFINE below(n) == {m \in S : m < n}
             T == FirstFew(S, k)
             f == [n \in T |-> Cardinality(below(n)) + 1]
  <1>1. T \in SUBSET S /\ \A n \in T : Cardinality(below(n)) < k
    BY DEF FirstFew
  <1>2. \A n \in S : below(n) \in SUBSET Node /\ IsFiniteSet(below(n)) /\ Cardinality(below(n)) \in Nat
    BY NodesAreCountable
  <1>9. S \subseteq Nat /\ T \subseteq S
    BY <1>1
  <1> HIDE DEF T
  <1>3. f \in [T -> 1 .. k]
    <2>1. ASSUME NEW n \in T PROVE Cardinality(below(n)) + 1 \in 1 .. k
      <3>1. Cardinality(below(n)) \in Nat /\ Cardinality(below(n)) < k
        BY <1>1, <1>2, <1>9
      <3> QED
        BY <3>1
    <2> QED
      BY <2>1
  <1>4. ASSUME NEW m \in T, NEW n \in T, m < n PROVE f[m] # f[n]
    <2>1. m \in S /\ n \in S /\ m \in Nat /\ n \in Nat
      BY <1>9
    <2>2. below(m) \cup {m} \in SUBSET below(n) /\ m \notin below(m)
      <3>1. \A x \in S : x < m => x < n
        BY <1>4, <1>9, <2>1
      <3>2. ~(m < m)
        BY <2>1
      <3> QED
        BY <1>4, <2>1, <3>1, <3>2
    <2>3. Cardinality(below(m) \cup {m}) = Cardinality(below(m)) + 1
      BY <1>2, <2>1, <2>2, FS_AddElement
    <2>4. Cardinality(below(m) \cup {m}) <= Cardinality(below(n))
      BY <1>2, <2>1, <2>2, LargerSet
    <2>5. f[m] = Cardinality(below(m)) + 1 /\ f[n] = Cardinality(below(n)) + 1
      OBVIOUS
    <2>6. Cardinality(below(m)) \in Nat /\ Cardinality(below(n)) \in Nat
      BY <1>2, <2>1
    <2> HIDE DEF below, f
    <2> QED
      BY <2>3, <2>4, <2>5, <2>6
  <1>5. \A m, n \in T : f[m] = f[n] => m = n
    <2> SUFFICES ASSUME NEW m \in T, NEW n \in T, m # n PROVE f[m] # f[n]
      OBVIOUS
    <2>1. m < n \/ n < m
      <3>1. m \in Nat /\ n \in Nat
        BY <1>9
      <3> QED
        BY <3>1
    <2> QED
      BY <2>1, <1>4
  <1>6. f \in Injection(T, 1 .. k)
    BY <1>3, <1>5 DEF Injection, IsInjective
  <1>7. IsFiniteSet(1 .. k) /\ Cardinality(1 .. k) = k
    BY FS_Interval
  <1> HIDE DEF f
  <1>8. Cardinality(T) <= k
    BY <1>6, <1>7, FS_Injection
  <1> QED
    BY <1>1, <1>8 DEF T

LEMMA UnionIsNoLarger ==
    ASSUME NEW S \in SUBSET Node, NEW T \in SUBSET Node
    PROVE  Cardinality(S \cup T) <= Cardinality(S) + Cardinality(T)
  <1>1. IsFiniteSet(S) /\ IsFiniteSet(T) /\ S \cap T \in SUBSET Node
    BY NodesAreCountable
  <1>2. Cardinality(S) \in Nat /\ Cardinality(T) \in Nat /\ Cardinality(S \cap T) \in Nat
    BY <1>1, NodesAreCountable
  <1>3. Cardinality(S \cup T) = Cardinality(S) + Cardinality(T) - Cardinality(S \cap T)
    BY <1>1, FS_Union
  <1> QED
    BY <1>2, <1>3

LEMMA MostWorkers ==
    ASSUME NEW a \in Nat, NEW b \in Nat
    PROVE  Min({a, b}) \in Nat /\ Min({a, b}) <= a
  BY DEF Min

-----------------------------------------------------------------------------
(***************************************************************************)
(* Requests                                                                *)
(***************************************************************************)
\* A sender is a request that reads the row itself, or an open one.
LEMMA ViewIsRow ==
    ASSUME RowsTyped, RowsLicensed, NEW c \in Senders
    PROVE  View(c) \in SwarmRow /\ Licensed(View(c), done) /\ Bounded(View(c))
  BY DEF Senders, Open, View, RowsTyped, RowsLicensed

LEMMA MergedIsRow ==
    ASSUME row \in SwarmRow, NEW read \in SwarmRow, NEW new \in SwarmRow, NEW stamped
    PROVE  LET m == Merged(read, new, stamped)
           IN  /\ m \in SwarmRow
               /\ m.status \in {row.status, new.status} /\ m.active \in {row.active, new.active}
               /\ m.cost \in {row.cost, new.cost} /\ m.verdict \in {row.verdict, new.verdict}
               /\ m.statuses \in {row.statuses, new.statuses}
               /\ m.nodes \in {row.nodes, new.nodes}
  BY DEF Merged, SwarmRow

\* Each column of the row is as it was, or as the request computed it; what the other
\* requests have read does not change.
LEMMA WriteMerges ==
    ASSUME RowsTyped, NEW c \in Senders, NEW new \in SwarmRow, NEW stamped,
           Write(c, new, stamped)
    PROVE  /\ RowsTyped' /\ Open' \subseteq Open
           /\ \A d \in Open' : requests'[d].row = requests[d].row
           /\ row'.active \in {row.active, new.active}
           /\ row'.verdict \in {row.verdict, new.verdict}
           /\ row'.statuses \in {row.statuses, new.statuses}
  <1>1. /\ row' \in SwarmRow
        /\ row'.active \in {row.active, new.active}
        /\ row'.verdict \in {row.verdict, new.verdict}
        /\ row'.statuses \in {row.statuses, new.statuses}
    <2>1. CASE c = Alone
      BY <2>1 DEF Write
    <2>2. CASE c # Alone
      <3>1. requests[c].row \in SwarmRow /\ row \in SwarmRow
        BY <2>2 DEF Senders, RowsTyped
      <3>2. row' = Merged(requests[c].row, new, stamped)
        BY <2>2 DEF Write
      <3> QED
        BY <3>1, <3>2, MergedIsRow
    <2> QED
      BY <2>1, <2>2
  <1>2. requests \in [Client -> SwarmRequest]
    BY DEF RowsTyped
  <1>3. Answered \in SwarmRequest
    BY DEF Answered, SwarmRequest
  <1>4. ASSUME NEW d \in Client
        PROVE  /\ requests'[d] \in SwarmRequest
               /\ requests'[d].stage = "open" => d \in Open /\ requests'[d].row = requests[d].row
    <2>1. requests'[d] = IF d = c THEN Answered
                         ELSE IF d \in Open THEN [requests[d] EXCEPT !.left = @ - 1]
                         ELSE requests[d]
      BY DEF Write
    <2>2. requests[d] \in SwarmRequest
      BY <1>2
    <2>3. CASE d = c
      BY <1>3, <2>1, <2>3 DEF Answered
    <2>4. CASE d # c /\ d \in Open
      <3>1. requests[d].left > 0
        BY <2>4 DEF Write
      <3>2. requests'[d] = [requests[d] EXCEPT !.left = @ - 1]
        BY <2>1, <2>4
      <3>3. requests[d].left - 1 \in 0..MaxMeanwhile
        BY <2>2, <3>1 DEF SwarmRequest
      <3>4. requests'[d] \in SwarmRequest /\ requests'[d].row = requests[d].row
        BY <2>2, <3>2, <3>3 DEF SwarmRequest
      <3> QED
        BY <2>4, <3>4
    <2>5. CASE d # c /\ d \notin Open
      BY <2>1, <2>2, <2>5 DEF Open
    <2> QED
      BY <2>3, <2>4, <2>5
  <1>5. requests' \in [Client -> SwarmRequest]
    <2>1. requests' = [d \in Client |-> requests'[d]]
      BY DEF Write
    <2> QED
      BY <1>4, <2>1
  <1>6. Open' \subseteq Open /\ \A d \in Open' : requests'[d].row = requests[d].row
    BY <1>4 DEF Open
  <1>7. RowsTyped'
    <2>1. \A d \in Open' : requests'[d].row \in SwarmRow
      BY <1>6 DEF RowsTyped
    <2> QED
      BY <1>1, <1>5, <2>1 DEF RowsTyped, SwarmRow, SwarmRequest, Owners, NodeRow, Verdict, Statuses
  <1> QED
    BY <1>1, <1>6, <1>7

\* More nodes completed license no less.
LEMMA LicensedGrows ==
    ASSUME NEW r, NEW d, NEW e \in SUBSET Node, d \subseteq e, Licensed(r, d)
    PROVE  Licensed(r, e)
  BY DEF Licensed

LEMMA MixedIsLicensed ==
    ASSUME NEW a, NEW b, NEW r, NEW d, Licensed(a, d), Licensed(b, d),
           r.active \in {a.active, b.active}, r.verdict \in {a.verdict, b.verdict},
           r.statuses \in {a.statuses, b.statuses}
    PROVE  Licensed(r, d)
  BY DEF Licensed, Running

\* A request whose columns are licensed leaves every row licensed, however it overlaps.
LEMMA RequestsKeepRows ==
    ASSUME SwarmInv, NEW c \in Senders, NEW new \in SwarmRow, NEW stamped, Write(c, new, stamped),
           done \subseteq done', done' \subseteq Node, Licensed(new, done'),
           Bounded(new) \/ \A m \in Node : row'.active[m] <= MaxOwned
    PROVE  RowsTyped' /\ RowsLicensed'
  <1>1. RowsTyped /\ RowsLicensed
    BY DEF SwarmInv
  <1>2. /\ RowsTyped' /\ Open' \subseteq Open
        /\ \A d \in Open' : requests'[d].row = requests[d].row
        /\ row'.active \in {row.active, new.active}
        /\ row'.verdict \in {row.verdict, new.verdict}
        /\ row'.statuses \in {row.statuses, new.statuses}
    BY <1>1, WriteMerges
  <1>3. Licensed(row, done') /\ \A d \in Open : Licensed(requests[d].row, done')
    BY <1>1, LicensedGrows DEF RowsLicensed
  <1>4. Licensed(row', done')
    BY <1>2, <1>3, MixedIsLicensed
  <1>5. Bounded(row')
    BY <1>1, <1>2 DEF Bounded, RowsLicensed
  <1>6. \A d \in Open' : Licensed(requests'[d].row, done') /\ Bounded(requests'[d].row)
    BY <1>1, <1>2, <1>3 DEF RowsLicensed
  <1> QED
    BY <1>2, <1>4, <1>5, <1>6 DEF RowsLicensed, Licensed, Bounded, Running

-----------------------------------------------------------------------------
(***************************************************************************)
(* What a request makes of a row                                           *)
(***************************************************************************)
LEMMA StatusesAreTyped ==
    ASSUME NEW D \in {Node, Node \cup {Gate}}, NEW f \in [D -> NodeStatus \cup {"REFUSED"}],
           \A n \in Node : f[n] \in NodeStatus
    PROVE  f \in Statuses
  BY DEF Statuses

LEMMA RowIsTyped ==
    ASSUME NEW r \in SwarmRow
    PROVE  /\ r.status \in SwarmStatus /\ r.active \in [Node -> Nat] /\ r.cost \in 0..(CostLimit + 1)
           /\ r.verdict \in Verdict /\ r.nodes \in [Node -> NodeRow] /\ r.statuses \in Statuses
           /\ DOMAIN r.statuses \in {Node, Node \cup {Gate}}
           /\ r.statuses \in [DOMAIN r.statuses -> NodeStatus \cup {"REFUSED"}]
           /\ \A n \in Node : r.statuses[n] \in NodeStatus
           /\ Gate \notin Node /\ Node \subseteq DOMAIN r.statuses
  BY DEF SwarmRow, Statuses, Gate

\* What is ready depends on completed nodes only.
LEMMA ReadyIsLicensed ==
    ASSUME NEW r \in SwarmRow, NEW d, Licensed(r, d), NEW n \in Ready(r)
    PROVE  n \in Node /\ Depends[n] \subseteq d
  BY DEF Ready, Licensed

LEMMA KilledIsLicensed ==
    ASSUME NEW r \in SwarmRow, NEW d, Licensed(r, d),
           NEW verdict \in {"BUDGET_EXCEEDED", "KILLED_BY_USER"}
    PROVE  /\ Killed(r, verdict) \in SwarmRow
           /\ Licensed(Killed(r, verdict), d) /\ Bounded(Killed(r, verdict))
  <1> DEFINE f == [k \in DOMAIN r.statuses |->
                     IF k # Gate /\ r.active[k] > 0 THEN "BLOCKED" ELSE r.statuses[k]]
             new == Killed(r, verdict)
  <1>1. /\ r.active \in [Node -> Nat] /\ DOMAIN r.statuses \in {Node, Node \cup {Gate}}
        /\ r.statuses \in [DOMAIN r.statuses -> NodeStatus \cup {"REFUSED"}]
        /\ \A n \in Node : r.statuses[n] \in NodeStatus
        /\ Gate \notin Node /\ Node \subseteq DOMAIN r.statuses
    BY RowIsTyped
  <1>2. f \in [DOMAIN r.statuses -> NodeStatus \cup {"REFUSED"}] /\ \A n \in Node : f[n] \in NodeStatus
    BY <1>1 DEF NodeStatus
  <1>3. f \in Statuses
    BY <1>1, <1>2, StatusesAreTyped
  <1>4. Unowned \in [Node -> Nat] /\ \A n \in Node : Unowned[n] = 0
    BY DEF Unowned
  <1>5. new = [r EXCEPT !.status = "KILLED", !.verdict = verdict, !.active = Unowned, !.statuses = f]
    BY DEF Killed
  <1>6. \A n \in Node : f[n] \in {"BLOCKED", r.statuses[n]}
    BY <1>1
  <1> HIDE DEF f, new
  <1>7. new \in SwarmRow /\ new.statuses = f /\ new.active = Unowned /\ new.verdict = verdict
    BY <1>3, <1>4, <1>5 DEF SwarmRow, SwarmStatus, Verdict
  <1>8. Running(new) \in SUBSET Running(r) /\ Running(r) \in SUBSET Node
    BY <1>6, <1>7 DEF Running
  <1>9. Cardinality(Running(new)) <= MaxWorkers
    BY <1>8, LargerSet, NodesAreCountable DEF Licensed
  <1>10. Bounded(new)
    BY <1>4, <1>7 DEF Bounded
  <1>11. Licensed(new, d)
    BY <1>4, <1>6, <1>7, <1>9 DEF Licensed
  <1> QED
    BY <1>7, <1>10, <1>11 DEF new

LEMMA PromotedIsLicensed ==
    ASSUME NEW r \in SwarmRow, NEW d, Licensed(r, d)
    PROVE  Promoted(r) \in SwarmRow /\ Licensed(Promoted(r), d)
  <1> DEFINE ready == {n \in Ready(r) : r.statuses[n] = "PENDING"}
             f == [k \in DOMAIN r.statuses |-> IF k \in ready THEN "READY" ELSE r.statuses[k]]
             a == [n \in Node |-> IF n \in ready THEN r.active[n] + 1 ELSE r.active[n]]
             new == Promoted(r)
  <1>1. /\ r.active \in [Node -> Nat] /\ DOMAIN r.statuses \in {Node, Node \cup {Gate}}
        /\ r.statuses \in [DOMAIN r.statuses -> NodeStatus \cup {"REFUSED"}]
        /\ \A n \in Node : r.statuses[n] \in NodeStatus
        /\ Gate \notin Node /\ Node \subseteq DOMAIN r.statuses
    BY RowIsTyped
  <1>2. f \in [DOMAIN r.statuses -> NodeStatus \cup {"REFUSED"}] /\ \A n \in Node : f[n] \in NodeStatus
    BY <1>1 DEF NodeStatus
  <1>3. f \in Statuses
    BY <1>1, <1>2, StatusesAreTyped
  <1>4. a \in [Node -> Nat] /\ \A n \in Node : a[n] > 0 => r.active[n] > 0 \/ n \in ready
    BY <1>1
  <1>5. new = [r EXCEPT !.statuses = f, !.active = a]
    BY DEF Promoted
  <1>6. \A n \in Node : f[n] \in {"READY", r.statuses[n]}
    BY <1>1
  <1>7. \A n \in ready : Depends[n] \subseteq d
    BY ReadyIsLicensed
  <1> HIDE DEF f, a, new, ready
  <1>8. new \in SwarmRow /\ new.statuses = f /\ new.active = a /\ new.verdict = r.verdict
    BY <1>3, <1>4, <1>5 DEF SwarmRow
  <1>9. Running(new) \in SUBSET Running(r) /\ Running(r) \in SUBSET Node
    BY <1>6, <1>8 DEF Running
  <1>10. Cardinality(Running(new)) <= MaxWorkers
    BY <1>9, LargerSet, NodesAreCountable DEF Licensed
  <1>11. Licensed(new, d)
    BY <1>4, <1>6, <1>7, <1>8, <1>10 DEF Licensed
  <1> QED
    BY <1>8, <1>11 DEF new

\* The evidence is said to be ready only of nodes that are all completed.
LEMMA ConcludedIsLicensed ==
    ASSUME NEW r \in SwarmRow, NEW d \in SUBSET Node, Licensed(r, d)
    PROVE  Concluded(r) \in SwarmRow /\ Licensed(Concluded(r), d)
  <1> DEFINE new == Concluded(r)
  <1>1. \A n \in Node : n \in DOMAIN r.statuses
    BY RowIsTyped
  <1>2. CASE new = r
    BY <1>2
  <1>3. CASE AllIn(r, Settled)
    <2>1. PICK status \in SwarmStatus, verdict \in Verdict :
             /\ new = [r EXCEPT !.status = status, !.verdict = verdict]
             /\ verdict = "EVIDENCE_READY" => ~ \E k \in DOMAIN r.statuses : r.statuses[k] = "FAILED"
      BY <1>3 DEF Concluded, SwarmStatus, Verdict
    <2>2. /\ new \in SwarmRow /\ new.statuses = r.statuses /\ new.active = r.active
          /\ new.verdict = verdict
      BY <2>1 DEF SwarmRow
    <2>3. verdict = "EVIDENCE_READY" => d = Node
      BY <1>1, <1>3, <2>1 DEF AllIn, Settled, Licensed
    <2> QED
      BY <2>2, <2>3 DEF Licensed, Running
  <1> QED
    BY <1>2, <1>3 DEF Concluded

-----------------------------------------------------------------------------
(***************************************************************************)
(* SwarmInv is inductive                                                   *)
(***************************************************************************)
LEMMA PoolStays ==
    ASSUME PoolTypeOK, UNCHANGED poolVars
    PROVE  PoolTypeOK'
  BY DEF PoolTypeOK, poolVars

LEMMA OrderStays ==
    ASSUME CompletedInOrder, UNCHANGED <<done, submitted>>
    PROVE  CompletedInOrder'
  BY DEF CompletedInOrder

\* A request that completes nothing and leaves the pool alone.
LEMMA ReportKeeps ==
    ASSUME SwarmInv, NEW c \in Senders, NEW new \in SwarmRow, NEW stamped, Write(c, new, stamped),
           Licensed(new, done), Bounded(new), UNCHANGED <<done, submitted>>, PoolTypeOK'
    PROVE  SwarmInv'
  <1>1. done \subseteq done' /\ done' \subseteq Node /\ Licensed(new, done')
    BY DEF SwarmInv, CompletedInOrder
  <1>2. RowsTyped' /\ RowsLicensed'
    BY <1>1, RequestsKeepRows
  <1>3. CompletedInOrder'
    BY OrderStays DEF SwarmInv
  <1> QED
    BY <1>2, <1>3 DEF SwarmInv

LEMMA ReadKeeps ==
    ASSUME SwarmInv, NEW c \in Client, Read(c, <<>>), UNCHANGED <<poolVars, done, submitted>>
    PROVE  SwarmInv'
  <1>1. /\ row \in SwarmRow /\ requests \in [Client -> SwarmRequest]
        /\ \A d \in Open : requests[d].row \in SwarmRow
    BY DEF SwarmInv, RowsTyped
  <1> DEFINE read == [stage |-> "open", row |-> row, beside |-> <<>>, left |-> MaxMeanwhile]
  <1>2. read \in SwarmRequest /\ read.stage = "open" /\ read.row = row
    BY <1>1 DEF SwarmRequest
  <1>3. requests' = [requests EXCEPT ![c] = read] /\ row' = row
    BY DEF Read
  <1> HIDE DEF read
  <1>4. requests' \in [Client -> SwarmRequest]
    BY <1>1, <1>2, <1>3
  <1>5. \A d \in Open' : requests'[d].row = row \/ (d \in Open /\ requests'[d].row = requests[d].row)
    BY <1>1, <1>2, <1>3 DEF Open
  <1>6. RowsTyped'
    <2>1. \A d \in Open' : requests'[d].row \in SwarmRow
      BY <1>1, <1>5
    <2> QED
      BY <1>1, <1>3, <1>4, <2>1 DEF RowsTyped, SwarmRow, SwarmRequest, Owners, NodeRow, Verdict, Statuses
  <1>7. RowsLicensed'
    <2>1. Licensed(row', done') /\ Bounded(row')
      BY <1>3 DEF SwarmInv, RowsLicensed
    <2>2. \A d \in Open' : Licensed(requests'[d].row, done') /\ Bounded(requests'[d].row)
      BY <1>5 DEF SwarmInv, RowsLicensed
    <2> QED
      BY <2>1, <2>2 DEF RowsLicensed, Licensed, Bounded, Running
  <1> QED
    BY <1>6, <1>7, PoolStays, OrderStays DEF SwarmInv

LEMMA CompleteKeeps ==
    ASSUME SwarmInv, NEW c \in Senders, NEW n \in Node, NEW agent \in Agent \cup {NoAgent},
           NEW cost \in {0, 1}, NEW artifact \in BOOLEAN, Complete(c, n, agent, artifact, cost)
    PROVE  SwarmInv'
  <1>1. PICK r : r = View(c)
    OBVIOUS
  <1>2. r \in SwarmRow /\ Licensed(r, done) /\ Bounded(r)
    BY <1>1, ViewIsRow DEF SwarmInv
  <1>3. /\ r.status \in SwarmStatus /\ r.active \in [Node -> Nat] /\ r.cost \in 0..(CostLimit + 1)
        /\ r.nodes \in [Node -> NodeRow] /\ DOMAIN r.statuses \in {Node, Node \cup {Gate}}
        /\ r.statuses \in [DOMAIN r.statuses -> NodeStatus \cup {"REFUSED"}]
        /\ \A m \in Node : r.statuses[m] \in NodeStatus
        /\ Gate \notin Node /\ Node \subseteq DOMAIN r.statuses
    BY <1>2, RowIsTyped
  <1> DEFINE owner == IF agent # NoAgent THEN agent ELSE r.nodes[n].owner
             f == [r.statuses EXCEPT ![n] = "COMPLETED"]
             a == [r.active EXCEPT ![n] = @ - 1]
             x == [r.nodes[n] EXCEPT !.owner = owner, !.artifact = @ \/ artifact]
             worked == [r EXCEPT !.statuses[n] = "COMPLETED", !.active[n] = @ - 1,
                                 !.cost = Spent(r, cost),
                                 !.nodes[n] = [r.nodes[n] EXCEPT !.owner = owner,
                                                                 !.artifact = @ \/ artifact]]
             new == IF worked.cost > CostLimit THEN Killed(worked, "BUDGET_EXCEEDED")
                    ELSE Concluded(Promoted(worked))
  <1>4. /\ r.active[n] > 0
        /\ Write(c, new, {"nodes"})
        /\ \A m \in Node : row'.active[m] <= MaxOwned
        /\ done' = done \cup {n}
        /\ UNCHANGED <<poolVars, submitted>>
    BY <1>1 DEF Complete
  <1>5. done \subseteq Node /\ Depends[n] \subseteq done
    BY <1>2, <1>4 DEF Licensed, SwarmInv, CompletedInOrder
  <1>6. PICK d \in SUBSET Node : d = done \cup {n}
    BY <1>5
  <1>7. worked \in SwarmRow /\ Licensed(worked, d)
    <2>1. f \in Statuses
      <3>1. f \in [DOMAIN r.statuses -> NodeStatus \cup {"REFUSED"}]
        BY <1>3 DEF NodeStatus
      <3>2. \A m \in Node : f[m] \in NodeStatus
        BY <1>3 DEF NodeStatus
      <3> QED
        BY <1>3, <3>1, <3>2, StatusesAreTyped
    <2>2. a \in [Node -> Nat] /\ \A m \in Node : a[m] > 0 => r.active[m] > 0
      BY <1>3, <1>4
    <2>3. Spent(r, cost) \in 0..(CostLimit + 1)
      BY <1>3 DEF Spent
    <2>4. owner \in Owners
      BY <1>3 DEF Owners, NodeRow
    <2>5. x \in NodeRow
      <3>1. r.nodes[n] \in NodeRow
        BY <1>3
      <3>2. (r.nodes[n].artifact \/ artifact) \in BOOLEAN
        BY <3>1 DEF NodeRow
      <3> HIDE DEF owner
      <3> QED
        BY <2>4, <3>1, <3>2 DEF NodeRow
    <2>6. [r.nodes EXCEPT ![n] = x] \in [Node -> NodeRow]
      BY <1>3, <2>5
    <2>7. worked = [r EXCEPT !.statuses = f, !.active = a, !.cost = Spent(r, cost),
                             !.nodes = [r.nodes EXCEPT ![n] = x]]
      BY <1>2, <1>3 DEF SwarmRow
    <2>8. \A m \in Node : f[m] = IF m = n THEN "COMPLETED" ELSE r.statuses[m]
      BY <1>3
    <2> HIDE DEF f, a, x, owner, worked
    <2>9. /\ worked \in SwarmRow /\ worked.statuses = f /\ worked.active = a
          /\ worked.verdict = r.verdict
      BY <1>2, <2>1, <2>2, <2>3, <2>6, <2>7 DEF SwarmRow
    <2>10. Running(worked) \in SUBSET Running(r) /\ Running(r) \in SUBSET Node
      BY <2>8, <2>9 DEF Running
    <2>11. Cardinality(Running(worked)) <= MaxWorkers
      BY <1>2, <2>10, LargerSet, NodesAreCountable DEF Licensed
    <2> QED
      BY <1>2, <1>6, <2>2, <2>8, <2>9, <2>11 DEF Licensed
  <1> HIDE DEF worked
  <1>8. new \in SwarmRow /\ Licensed(new, d)
    <2>1. Killed(worked, "BUDGET_EXCEEDED") \in SwarmRow /\ Licensed(Killed(worked, "BUDGET_EXCEEDED"), d)
      BY <1>7, KilledIsLicensed
    <2>2. Promoted(worked) \in SwarmRow /\ Licensed(Promoted(worked), d)
      BY <1>7, PromotedIsLicensed
    <2>3. Concluded(Promoted(worked)) \in SwarmRow /\ Licensed(Concluded(Promoted(worked)), d)
      BY <2>2, ConcludedIsLicensed
    <2> QED
      BY <2>1, <2>3
  <1> HIDE DEF new
  <1>9. RowsTyped' /\ RowsLicensed'
    BY <1>4, <1>6, <1>8, RequestsKeepRows
  <1>10. CompletedInOrder'
    BY <1>4, <1>5 DEF SwarmInv, CompletedInOrder
  <1>11. PoolTypeOK'
    BY <1>4, PoolStays DEF SwarmInv
  <1> QED
    BY <1>9, <1>10, <1>11 DEF SwarmInv

LEMMA FailKeeps ==
    ASSUME SwarmInv, NEW c \in Senders, NEW n \in Node, NEW retried \in BOOLEAN, Fail(c, n, retried)
    PROVE  SwarmInv'
  <1>1. PICK r : r = View(c)
    OBVIOUS
  <1>2. r \in SwarmRow /\ Licensed(r, done) /\ Bounded(r)
    BY <1>1, ViewIsRow DEF SwarmInv
  <1>3. /\ r.active \in [Node -> Nat] /\ DOMAIN r.statuses \in {Node, Node \cup {Gate}}
        /\ r.statuses \in [DOMAIN r.statuses -> NodeStatus \cup {"REFUSED"}]
        /\ \A m \in Node : r.statuses[m] \in NodeStatus
        /\ Gate \notin Node /\ Node \subseteq DOMAIN r.statuses
    BY <1>2, RowIsTyped
  <1> DEFINE f == [k \in DOMAIN r.statuses |->
                     IF k = n THEN "FAILED"
                     ELSE IF k \in Downstream[n] /\ r.statuses[k] = "PENDING" THEN "BLOCKED"
                     ELSE r.statuses[k]]
             a == [r.active EXCEPT ![n] = Left(@)]
             g == [r.statuses EXCEPT ![n] = "PENDING"]
             failed == [r EXCEPT !.active[n] = Left(@), !.statuses = f]
             new == IF retried THEN [r EXCEPT !.statuses[n] = "PENDING"]
                    ELSE IF AllIn(failed, {"COMPLETED", "FAILED", "BLOCKED"})
                    THEN [failed EXCEPT !.status = "FAILED", !.verdict = "NEEDS_REPAIR"]
                    ELSE failed
  <1>4. Write(c, new, {}) /\ UNCHANGED <<poolVars, done, submitted>>
    BY <1>1 DEF Fail
  <1>5. f \in Statuses /\ g \in Statuses
    <2>1. /\ f \in [DOMAIN r.statuses -> NodeStatus \cup {"REFUSED"}]
          /\ \A m \in Node : f[m] \in NodeStatus
      BY <1>3 DEF NodeStatus
    <2>2. g \in [DOMAIN r.statuses -> NodeStatus \cup {"REFUSED"}]
      BY <1>3 DEF NodeStatus
    <2>3. \A m \in Node : g[m] \in NodeStatus
      BY <1>3 DEF NodeStatus
    <2> HIDE DEF f, g
    <2> QED
      BY <1>3, <2>1, <2>2, <2>3, StatusesAreTyped
  <1>6. a \in [Node -> Nat] /\ \A m \in Node : a[m] <= r.active[m]
    BY <1>3 DEF Left
  <1>7. \A m \in Node : /\ f[m] \in {"FAILED", "BLOCKED", r.statuses[m]}
                        /\ g[m] \in {"PENDING", r.statuses[m]}
    BY <1>3
  <1>8. failed = [r EXCEPT !.active = a, !.statuses = f]
        /\ [r EXCEPT !.statuses[n] = "PENDING"] = [r EXCEPT !.statuses = g]
    BY <1>2, <1>3 DEF SwarmRow
  <1>9. PICK h \in {f, g}, b \in {a, r.active}, status \in SwarmStatus, verdict \in {"NEEDS_REPAIR", r.verdict} :
            new = [r EXCEPT !.status = status, !.active = b, !.verdict = verdict, !.statuses = h]
    <2> HIDE DEF f, g, a
    <2>1. r = [r EXCEPT !.status = r.status, !.active = r.active, !.verdict = r.verdict]
      BY <1>2 DEF SwarmRow
    <2>2. r.status \in SwarmStatus /\ "FAILED" \in SwarmStatus
      BY <1>2, RowIsTyped DEF SwarmStatus
    <2>3. CASE retried
      <3>1. new = [r EXCEPT !.status = r.status, !.active = r.active, !.verdict = r.verdict, !.statuses = g]
        BY <1>2, <1>8, <2>3 DEF SwarmRow
      <3> QED
        BY <2>2, <3>1
    <2>4. CASE ~retried /\ new = failed
      <3>1. new = [r EXCEPT !.status = r.status, !.active = a, !.verdict = r.verdict, !.statuses = f]
        BY <1>2, <1>8, <2>4 DEF SwarmRow
      <3> QED
        BY <2>2, <3>1
    <2>5. CASE ~retried /\ new = [failed EXCEPT !.status = "FAILED", !.verdict = "NEEDS_REPAIR"]
      <3>1. new = [r EXCEPT !.status = "FAILED", !.active = a, !.verdict = "NEEDS_REPAIR", !.statuses = f]
        BY <1>2, <1>8, <2>5 DEF SwarmRow
      <3> QED
        BY <2>2, <3>1
    <2> QED
      BY <2>3, <2>4, <2>5
  <1>10. \A m \in Node : h[m] \in {"FAILED", "BLOCKED", "PENDING", r.statuses[m]} /\ b[m] <= r.active[m]
    BY <1>3, <1>6, <1>7
  <1>11. h \in Statuses /\ b \in [Node -> Nat]
    BY <1>3, <1>5, <1>6
  <1> HIDE DEF f, g, a, failed, new
  <1>12. /\ new \in SwarmRow /\ new.statuses = h /\ new.active = b /\ new.verdict = verdict
    BY <1>2, <1>9, <1>11 DEF SwarmRow, Verdict
  <1>13. Running(new) \in SUBSET Running(r) /\ Running(r) \in SUBSET Node
    BY <1>10, <1>12 DEF Running
  <1>14. Cardinality(Running(new)) <= MaxWorkers
    BY <1>2, <1>13, LargerSet, NodesAreCountable DEF Licensed
  <1>15. \A m \in Node : b[m] \in Nat /\ r.active[m] \in Nat
    BY <1>3, <1>11
  <1>16. Licensed(new, done)
    BY <1>2, <1>9, <1>10, <1>12, <1>14, <1>15 DEF Licensed
  <1>17. Bounded(new)
    BY <1>2, <1>10, <1>12, <1>15 DEF Bounded
  <1> QED
    BY <1>4, <1>12, <1>16, <1>17, ReportKeeps, PoolStays DEF SwarmInv

-----------------------------------------------------------------------------
(***************************************************************************)
(* Dispatches, operators and the aggregation                               *)
(***************************************************************************)
LEMMA TypedWorkerKeeps ==
    ASSUME SwarmInv, NEW c \in Senders, NEW n \in Node, TypedWorker(c, n)
    PROVE  SwarmInv'
  <1>1. PICK r : r = View(c)
    OBVIOUS
  <1>2. r \in SwarmRow /\ Licensed(r, done) /\ Bounded(r)
    BY <1>1, ViewIsRow DEF SwarmInv
  <1> DEFINE new == [r EXCEPT !.nodes[n].artifact = TRUE]
  <1>3. Write(c, new, {"nodes"}) /\ UNCHANGED <<poolVars, done, submitted>>
    BY <1>1 DEF TypedWorker
  <1>4. /\ new \in SwarmRow /\ new.statuses = r.statuses /\ new.active = r.active
        /\ new.verdict = r.verdict
    <2> DEFINE x == [r.nodes[n] EXCEPT !.artifact = TRUE]
    <2>1. r.nodes \in [Node -> NodeRow]
      BY <1>2, RowIsTyped
    <2>2. x \in NodeRow
      BY <2>1 DEF NodeRow
    <2>3. new = [r EXCEPT !.nodes = [r.nodes EXCEPT ![n] = x]]
      BY <1>2, <2>1 DEF SwarmRow, NodeRow
    <2> HIDE DEF x, new
    <2>4. [r.nodes EXCEPT ![n] = x] \in [Node -> NodeRow]
      BY <2>1, <2>2
    <2> QED
      BY <1>2, <2>3, <2>4 DEF SwarmRow
  <1> HIDE DEF new
  <1>5. Licensed(new, done) /\ Bounded(new)
    BY <1>2, <1>4 DEF Licensed, Bounded, Running
  <1> QED
    BY <1>3, <1>4, <1>5, ReportKeeps, PoolStays DEF SwarmInv

LEMMA DispatchKeeps ==
    ASSUME SwarmInv, NEW c \in Senders, NEW w \in Runner, Dispatch(c, w)
    PROVE  SwarmInv'
  <1>1. PICK r : r = View(c)
    OBVIOUS
  <1>2. r \in SwarmRow /\ Licensed(r, done) /\ Bounded(r)
    BY <1>1, ViewIsRow DEF SwarmInv
  <1>3. /\ r.active \in [Node -> Nat] /\ DOMAIN r.statuses \in {Node, Node \cup {Gate}}
        /\ r.statuses \in [DOMAIN r.statuses -> NodeStatus \cup {"REFUSED"}]
        /\ r.nodes \in [Node -> NodeRow]
        /\ \A m \in Node : r.statuses[m] \in NodeStatus
        /\ Gate \notin Node /\ Node \subseteq DOMAIN r.statuses
    BY <1>2, RowIsTyped
  <1>a. PICK wanted : wanted = FirstFew({n \in Ready(r) : ~r.nodes[n].dispatched}, Vacancies(r))
    OBVIOUS
  <1>b. PICK left : left = IF w \in Eligible THEN Capacity - pool[w].active ELSE 0
    OBVIOUS
  <1>c. PICK given : given = FirstFew(wanted, left)
    OBVIOUS
  <1> DEFINE f == [k \in DOMAIN r.statuses |-> IF k \in given THEN "RUNNING" ELSE r.statuses[k]]
             a == [n \in Node |-> IF n \in given /\ r.active[n] = 0 THEN 1 ELSE r.active[n]]
             x == [n \in Node |-> IF n \in given
                                  THEN [r.nodes[n] EXCEPT !.dispatched = TRUE, !.owner = n] ELSE r.nodes[n]]
             new == [r EXCEPT !.statuses = f, !.active = a, !.nodes = x]
             most == Min({MaxWorkers, 4})
  <1>4. Write(c, new, {}) /\ Reserve(TaskRun, w, Cardinality(given)) /\ UNCHANGED <<done, submitted>>
    BY <1>1, <1>a, <1>b, <1>c DEF Dispatch
  <1>5. /\ most \in Nat /\ most <= MaxWorkers
        /\ Running(r) \in SUBSET Node /\ Cardinality(Running(r)) \in Nat
        /\ Vacancies(r) = IF Cardinality(Running(r)) >= most THEN 0 ELSE most - Cardinality(Running(r))
    <2>1. Running(r) \in SUBSET Node
      BY DEF Running
    <2> QED
      BY <2>1, NodesAreCountable, MostWorkers DEF Vacancies
  <1> HIDE DEF most
  <1>6. Vacancies(r) \in Nat
    BY <1>5
  <1>7. left \in Nat
    BY <1>b DEF Eligible, SwarmInv, PoolTypeOK, RunnerState
  <1>8. /\ wanted \in SUBSET Ready(r) /\ wanted \in SUBSET Node
        /\ Cardinality(wanted) <= Vacancies(r)
    <2>1. {n \in Ready(r) : ~r.nodes[n].dispatched} \in SUBSET Node
      BY DEF Ready
    <2> QED
      BY <1>a, <1>6, <2>1, FirstFewAreFew
  <1>9. /\ given \in SUBSET wanted /\ given \in SUBSET Node
        /\ Cardinality(given) \in Nat /\ Cardinality(given) <= Vacancies(r)
    <2>1. given \in SUBSET wanted
      BY <1>c, <1>7, <1>8, FirstFewAreFew
    <2>2. given \in SUBSET Node
      BY <1>8, <2>1
    <2>3. Cardinality(given) <= Cardinality(wanted)
      BY <1>8, <2>1, LargerSet
    <2>4. Cardinality(given) \in Nat /\ Cardinality(wanted) \in Nat
      BY <1>8, <2>2, NodesAreCountable
    <2> QED
      BY <1>6, <1>8, <2>1, <2>2, <2>3, <2>4
  <1>10. \A n \in given : Depends[n] \subseteq done
    BY <1>2, <1>8, <1>9, ReadyIsLicensed
  <1>11. f \in Statuses
    <2>1. /\ f \in [DOMAIN r.statuses -> NodeStatus \cup {"REFUSED"}]
          /\ \A m \in Node : f[m] \in NodeStatus
      BY <1>3 DEF NodeStatus
    <2> HIDE DEF f
    <2> QED
      BY <1>3, <2>1, StatusesAreTyped
  <1>12. /\ a \in [Node -> Nat] /\ \A n \in Node : a[n] > 0 => r.active[n] > 0 \/ n \in given
         /\ \A n \in Node : a[n] <= MaxOwned
    BY <1>2, <1>3 DEF Bounded
  <1>13. x \in [Node -> NodeRow]
    <2>1. ASSUME NEW n \in Node PROVE [r.nodes[n] EXCEPT !.dispatched = TRUE, !.owner = n] \in NodeRow
      <3>1. r.nodes[n] \in NodeRow /\ n \in Owners
        BY <1>3 DEF Owners
      <3> QED
        BY <3>1 DEF NodeRow
    <2> QED
      BY <1>3, <2>1
  <1>15. \A n \in Node : f[n] = IF n \in given THEN "RUNNING" ELSE r.statuses[n]
    BY <1>3
  <1> HIDE DEF f, a, x
  <1>16. /\ new \in SwarmRow /\ new.statuses = f /\ new.active = a /\ new.verdict = r.verdict
    BY <1>2, <1>11, <1>12, <1>13 DEF SwarmRow
  <1> HIDE DEF new
  <1>17. Cardinality(Running(new)) <= MaxWorkers
    <2>1. Running(new) \in SUBSET (Running(r) \cup given)
      BY <1>15, <1>16 DEF Running
    <2>2. IsFiniteSet(Running(r)) /\ IsFiniteSet(given)
      BY <1>5, <1>9, NodesAreCountable
    <2>3. /\ Cardinality(Running(r) \cup given) <= Cardinality(Running(r)) + Cardinality(given)
          /\ Cardinality(Running(r) \cup given) \in Nat
      <3>1. Running(r) \cup given \in SUBSET Node
        BY <1>5, <1>9
      <3> QED
        BY <1>5, <1>9, <3>1, UnionIsNoLarger, NodesAreCountable
    <2>4. /\ Running(r) \cup given \in SUBSET Node
          /\ Cardinality(Running(new)) <= Cardinality(Running(r) \cup given)
          /\ Cardinality(Running(new)) \in Nat
      BY <1>5, <1>9, <2>1, LargerSet, NodesAreCountable
    <2>5. Cardinality(Running(r)) <= MaxWorkers
      BY <1>2 DEF Licensed
    <2> QED
      BY <1>5, <1>9, <2>3, <2>4, <2>5
  <1>18. Licensed(new, done)
    BY <1>2, <1>10, <1>12, <1>15, <1>16, <1>17 DEF Licensed
  <1>19. Bounded(new)
    BY <1>12, <1>16 DEF Bounded
  <1>20. PoolTypeOK'
    BY <1>4, <1>9, ReserveKeepsTypes DEF SwarmInv
  <1> QED
    BY <1>4, <1>16, <1>18, <1>19, <1>20, ReportKeeps

LEMMA PauseKeeps ==
    ASSUME SwarmInv, NEW c \in Senders, Pause(c)
    PROVE  SwarmInv'
  <1>1. PICK r : r = View(c)
    OBVIOUS
  <1>2. r \in SwarmRow /\ Licensed(r, done) /\ Bounded(r)
    BY <1>1, ViewIsRow DEF SwarmInv
  <1> DEFINE new == [r EXCEPT !.status = "PAUSED"]
  <1>3. Write(c, new, {}) /\ UNCHANGED <<poolVars, done, submitted>>
    BY <1>1 DEF Pause
  <1>4. /\ new \in SwarmRow /\ new.statuses = r.statuses /\ new.active = r.active
        /\ new.verdict = r.verdict
    BY <1>2 DEF SwarmRow, SwarmStatus
  <1> HIDE DEF new
  <1>5. Licensed(new, done) /\ Bounded(new)
    BY <1>2, <1>4 DEF Licensed, Bounded, Running
  <1> QED
    BY <1>3, <1>4, <1>5, ReportKeeps, PoolStays DEF SwarmInv

LEMMA KillsKeep ==
    ASSUME SwarmInv, NEW c \in Senders, KillByCli(c) \/ Kill(c)
    PROVE  SwarmInv'
  <1>1. PICK r : r = View(c)
    OBVIOUS
  <1>2. r \in SwarmRow /\ Licensed(r, done) /\ Bounded(r)
    BY <1>1, ViewIsRow DEF SwarmInv
  <1>3. /\ Killed(r, "KILLED_BY_USER") \in SwarmRow
        /\ Licensed(Killed(r, "KILLED_BY_USER"), done) /\ Bounded(Killed(r, "KILLED_BY_USER"))
    BY <1>2, KilledIsLicensed
  <1>4. PoolTypeOK'
    <2>1. CASE UNCHANGED poolVars
      BY <2>1, PoolStays DEF SwarmInv
    <2>2. CASE Len(leases) = 1 /\ Return(1)
      <3>1. PoolTypeOK /\ DOMAIN leases = 1 .. Len(leases)
        BY DEF SwarmInv, PoolTypeOK
      <3> QED
        BY <2>2, <3>1, ReturnKeepsTypes
    <2> QED
      BY <2>1, <2>2 DEF KillByCli, Kill
  <1>5. PICK stamped : /\ Write(c, Killed(r, "KILLED_BY_USER"), stamped)
                       /\ UNCHANGED <<done, submitted>>
    BY <1>1 DEF KillByCli, Kill
  <1> QED
    BY <1>3, <1>4, <1>5, ReportKeeps

LEMMA RecoverKeeps ==
    ASSUME SwarmInv, NEW c \in Senders, Recover(c)
    PROVE  SwarmInv'
  <1>1. PICK r : r = View(c)
    OBVIOUS
  <1>2. r \in SwarmRow /\ Licensed(r, done) /\ Bounded(r)
    BY <1>1, ViewIsRow DEF SwarmInv
  <1> DEFINE owned == Ready(r) \cup Running(r)
             a == [n \in Node |-> IF n \in owned THEN 1 ELSE 0]
             new == [r EXCEPT !.active = a]
  <1>3. Write(c, new, {}) /\ UNCHANGED <<poolVars, done, submitted>>
    BY <1>1 DEF Recover
  <1>4. \A n \in owned : Depends[n] \subseteq done
    BY <1>2, ReadyIsLicensed DEF Running, Licensed
  <1> HIDE DEF owned
  <1>5. a \in [Node -> Nat] /\ \A n \in Node : a[n] <= 1 /\ (a[n] > 0 => n \in owned)
    OBVIOUS
  <1> HIDE DEF a
  <1>6. /\ new \in SwarmRow /\ new.statuses = r.statuses /\ new.active = a
        /\ new.verdict = r.verdict
    BY <1>2, <1>5 DEF SwarmRow
  <1> HIDE DEF new
  <1>7. Licensed(new, done)
    BY <1>2, <1>4, <1>5, <1>6 DEF Licensed, Running
  <1>8. Bounded(new)
    BY <1>5, <1>6 DEF Bounded
  <1> QED
    BY <1>3, <1>6, <1>7, <1>8, ReportKeeps, PoolStays DEF SwarmInv

LEMMA AggregateKeeps ==
    ASSUME SwarmInv, NEW c \in Senders, NEW evidence \in BOOLEAN, Aggregate(c, evidence)
    PROVE  SwarmInv'
  <1>1. PICK r : r = View(c)
    OBVIOUS
  <1>2. r \in SwarmRow /\ Licensed(r, done) /\ Bounded(r)
    BY <1>1, ViewIsRow DEF SwarmInv
  <1>3. /\ DOMAIN r.statuses \in {Node, Node \cup {Gate}}
        /\ r.statuses \in [DOMAIN r.statuses -> NodeStatus \cup {"REFUSED"}]
        /\ \A m \in Node : r.statuses[m] \in NodeStatus
        /\ Gate \notin Node /\ Node \subseteq DOMAIN r.statuses
    BY <1>2, RowIsTyped
  <1> DEFINE f == [k \in DOMAIN r.statuses \cup {Gate} |-> IF k = Gate THEN "REFUSED" ELSE r.statuses[k]]
             ready == [r EXCEPT !.verdict = "EVIDENCE_READY"]
             refused == [r EXCEPT !.verdict = "NEEDS_HUMAN", !.statuses = f]
  <1>4. PICK accepted \in BOOLEAN : /\ Write(c, IF accepted THEN ready ELSE refused, {})
                                    /\ submitted' = (submitted \/ accepted)
    BY <1>1 DEF Aggregate
  <1>5. Submittable(r) /\ UNCHANGED <<poolVars, done>>
    BY <1>1 DEF Aggregate
  <1>6. done = Node
    BY <1>2, <1>3, <1>5 DEF Submittable, AllIn, Licensed, SwarmInv, CompletedInOrder
  <1>7. f \in Statuses
    <2>1. /\ f \in [DOMAIN r.statuses \cup {Gate} -> NodeStatus \cup {"REFUSED"}]
          /\ \A m \in Node : f[m] \in NodeStatus
      BY <1>3
    <2>2. DOMAIN r.statuses \cup {Gate} \in {Node, Node \cup {Gate}}
      BY <1>3
    <2> HIDE DEF f
    <2> QED
      BY <2>1, <2>2, StatusesAreTyped
  <1>8. \A m \in Node : f[m] = r.statuses[m]
    BY <1>3
  <1> HIDE DEF f
  <1>9. /\ ready \in SwarmRow /\ ready.statuses = r.statuses /\ ready.active = r.active
        /\ refused \in SwarmRow /\ refused.statuses = f /\ refused.active = r.active
        /\ refused.verdict = "NEEDS_HUMAN"
    BY <1>2, <1>7 DEF SwarmRow, Verdict
  <1> HIDE DEF ready, refused
  <1>10. Running(ready) = Running(r) /\ Running(refused) = Running(r)
    BY <1>8, <1>9 DEF Running
  <1>11. /\ Licensed(ready, done) /\ Bounded(ready)
         /\ Licensed(refused, done) /\ Bounded(refused)
    BY <1>2, <1>6, <1>8, <1>9, <1>10 DEF Licensed, Bounded
  <1> DEFINE new == IF accepted THEN ready ELSE refused
  <1>12. new \in SwarmRow /\ Licensed(new, done) /\ Bounded(new) /\ Write(c, new, {})
    BY <1>4, <1>9, <1>11
  <1> HIDE DEF new
  <1>13. RowsTyped' /\ RowsLicensed'
    BY <1>5, <1>6, <1>12, RequestsKeepRows
  <1>14. CompletedInOrder' /\ PoolTypeOK'
    BY <1>5, <1>6, PoolStays DEF SwarmInv, CompletedInOrder
  <1> QED
    BY <1>13, <1>14 DEF SwarmInv

LEMMA SwarmInitially ==
    SwarmInit => SwarmInv
  <1> SUFFICES ASSUME SwarmInit PROVE SwarmInv
    OBVIOUS
  <1> DEFINE fresh == [status |-> "RUNNING", active |-> Unowned, cost |-> 0, verdict |-> NoVerdict,
                       statuses |-> [n \in Node |-> "PENDING"],
                       nodes |-> [n \in Node |-> [dispatched |-> FALSE, owner |-> NoAgent,
                                                  artifact |-> FALSE]]]
             ready == Ready(fresh)
             a == [n \in Node |-> IF n \in ready THEN 1 ELSE 0]
             f == [n \in Node |-> IF n \in ready THEN "READY" ELSE "PENDING"]
             x == [n \in Node |-> [dispatched |-> FALSE, owner |-> NoAgent, artifact |-> FALSE]]
  <1>1. /\ PoolInit /\ done = {} /\ submitted = FALSE
        /\ row = [fresh EXCEPT !.active = a, !.statuses = f]
        /\ requests = [c \in Client |-> Unsent]
    BY DEF SwarmInit
  <1>2. \A n \in ready : n \in Node /\ Depends[n] = {}
    BY DEF Ready
  <1>3. row = [status |-> "RUNNING", active |-> a, cost |-> 0, verdict |-> NoVerdict,
               statuses |-> f, nodes |-> x]
    BY <1>1
  <1> HIDE DEF ready
  <1>4. /\ a \in [Node -> Nat] /\ f \in [Node -> NodeStatus \cup {"REFUSED"}]
        /\ \A n \in Node : f[n] \in {"READY", "PENDING"} /\ a[n] <= 1 /\ (a[n] > 0 => n \in ready)
    BY DEF NodeStatus
  <1>5. f \in Statuses
    BY <1>4, StatusesAreTyped DEF NodeStatus
  <1>6. x \in [Node -> NodeRow]
    BY DEF NodeRow, Owners
  <1> HIDE DEF f, a, x
  <1>7. row \in SwarmRow
    BY <1>3, <1>4, <1>5, <1>6 DEF SwarmRow, SwarmStatus, Verdict
  <1>8. Open = {}
    BY <1>1 DEF Open, Unsent
  <1>9. requests \in [Client -> SwarmRequest]
    BY <1>1 DEF SwarmRequest, Unsent
  <1>10. Running(row) = {}
    BY <1>3, <1>4 DEF Running
  <1>11. Licensed(row, done) /\ Bounded(row)
    <2>1. row.statuses = f /\ row.active = a /\ row.verdict = "" /\ done = {}
      BY <1>1, <1>3 DEF NoVerdict
    <2>2. Cardinality(Running(row)) <= MaxWorkers
      BY <1>10, FS_EmptySet
    <2>3. \A n \in Node : row.statuses[n] # "COMPLETED" /\ row.statuses[n] # "RUNNING"
      BY <1>4, <2>1
    <2>4. \A n \in Node : row.active[n] > 0 => Depends[n] \subseteq done
      BY <1>2, <1>4, <2>1
    <2>5. Bounded(row)
      <3>1. \A n \in Node : a[n] \in Nat /\ a[n] <= 1
        BY <1>4
      <3>2. MaxOwned \in Nat /\ 1 <= MaxOwned
        OBVIOUS
      <3>3. \A n \in Node : a[n] <= MaxOwned
        BY <3>1, <3>2
      <3> QED
        BY <2>1, <3>3 DEF Bounded
    <2> QED
      BY <2>1, <2>2, <2>3, <2>4, <2>5 DEF Licensed
  <1>12. PoolTypeOK
    BY <1>1 DEF PoolInit, PoolTypeOK, RunnerState, Health
  <1> QED
    BY <1>1, <1>7, <1>8, <1>9, <1>11, <1>12 DEF SwarmInv, RowsTyped, RowsLicensed, CompletedInOrder

LEMMA SwarmStutters ==
    ASSUME SwarmInv, UNCHANGED swarmVars
    PROVE  SwarmInv'
  <1>1. row' = row /\ requests' = requests /\ done' = done /\ submitted' = submitted
        /\ UNCHANGED poolVars
    BY DEF swarmVars
  <1>2. RowsTyped'
    BY <1>1 DEF SwarmInv, RowsTyped, Open, SwarmRow, SwarmRequest, Owners, NodeRow, Verdict, Statuses
  <1>3. RowsLicensed'
    BY <1>1 DEF SwarmInv, RowsLicensed, Open, Licensed, Bounded, Running
  <1> QED
    BY <1>1, <1>2, <1>3, PoolStays, OrderStays DEF SwarmInv

\* SwarmInv is an inductive invariant of the swarm.
LEMMA SwarmInvariant ==
    SwarmSpec => []SwarmInv
  <1>1. SwarmInit => SwarmInv
    BY SwarmInitially
  <1>2. ASSUME SwarmInv, SwarmNext PROVE SwarmInv'
    <2>1. CASE \E c \in Client : Read(c, <<>>) /\ UNCHANGED <<poolVars, done, submitted>>
      BY <1>2, <2>1, ReadKeeps
    <2>2. CASE \E c \in Senders, n \in Node, agent \in Agent \cup {NoAgent}, cost \in {0, 1}, artifact \in BOOLEAN :
                  (artifact => n \in Required) /\ Complete(c, n, agent, artifact, cost)
      BY <1>2, <2>2, CompleteKeeps
    <2>3. CASE \E c \in Senders, n \in Node, retried \in BOOLEAN : Fail(c, n, retried)
      BY <1>2, <2>3, FailKeeps
    <2>4. CASE \E c \in Senders, n \in Required : TypedWorker(c, n)
      BY <1>2, <2>4, TypedWorkerKeeps
    <2>5. CASE \E c \in Senders, w \in Runner : Dispatch(c, w)
      BY <1>2, <2>5, DispatchKeeps
    <2>6. CASE \E c \in Senders : Pause(c)
      BY <1>2, <2>6, PauseKeeps
    <2>7. CASE \E c \in Senders : KillByCli(c)
      BY <1>2, <2>7, KillsKeep
    <2>8. CASE \E c \in Senders : Kill(c)
      BY <1>2, <2>8, KillsKeep
    <2>9. CASE \E c \in Senders : Recover(c)
      BY <1>2, <2>9, RecoverKeeps
    <2>10. CASE \E c \in Senders, evidence \in BOOLEAN : Aggregate(c, evidence)
      BY <1>2, <2>10, AggregateKeeps
    <2> QED
      BY <1>2, <2>1, <2>2, <2>3, <2>4, <2>5, <2>6, <2>7, <2>8, <2>9, <2>10 DEF SwarmNext
  <1>3. SwarmInv /\ [SwarmNext]_swarmVars => SwarmInv'
    BY <1>2, SwarmStutters
  <1> QED
    BY <1>1, <1>3, PTL DEF SwarmSpec

-----------------------------------------------------------------------------
(***************************************************************************)
(* The theorems                                                            *)
(***************************************************************************)
\* A node is handed to a worker, or completed, only after all it depends on was completed,
\* and no more nodes run than the policy allows, however many requests overlap and
\* whichever columns each of them overwrites (dispatch, complete_node).
THEOREM SwarmNodesStayLicensed == SwarmSpec => []RunningNodesAreLicensed
  <1>1. ASSUME SwarmInv PROVE RunningNodesAreLicensed
    <2>1. row \in SwarmRow /\ Licensed(row, done) /\ Bounded(row) /\ PoolTypeOK
      BY <1>1 DEF SwarmInv, RowsTyped, RowsLicensed
    <2>2. RequestsTypeOK
      BY <1>1 DEF SwarmInv, RowsTyped, RequestsTypeOK, Open, SwarmRequest
    <2>3. row.active \in [Node -> 0..MaxOwned]
      <3>1. row.active \in [Node -> Nat] /\ \A n \in Node : row.active[n] <= MaxOwned
        BY <2>1, RowIsTyped DEF Bounded
      <3> QED
        BY <3>1
    <2>4. SwarmTypeOK
      BY <1>1, <2>1, <2>2, <2>3, RowIsTyped DEF SwarmTypeOK, NodeRow, SwarmInv, CompletedInOrder
    <2>5. StartsFollowCompletions
      BY <1>1, <2>1 DEF StartsFollowCompletions, SwarmInv, CompletedInOrder, Licensed
    <2>6. RunningWithinLimit
      BY <2>1 DEF RunningWithinLimit, Licensed
    <2> QED
      BY <2>4, <2>5, <2>6 DEF RunningNodesAreLicensed
  <1> QED
    BY <1>1, SwarmInvariant, PTL

\* The swarm says that its evidence is ready, and submits a pull request, only when every
\* node was completed, whatever overlapped (_check_completion, aggregate_and_submit_pr_ready).
THEOREM ReadyVerdictStaysEarned == SwarmSpec => []ReadyVerdictIsEarned
  <1>1. ASSUME SwarmInv PROVE ReadyVerdictIsEarned
    BY <1>1 DEF SwarmInv, RowsLicensed, CompletedInOrder, Licensed, ReadyVerdictIsEarned
  <1> QED
    BY <1>1, SwarmInvariant, PTL

=============================================================================
