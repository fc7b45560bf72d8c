----------------------------- MODULE LoopProofs ------------------------------
(***************************************************************************)
(* Proofs about the loops and the pool of runners they share.              *)
(*                                                                         *)
(* LoopsInv strengthens the invariants of LoopCoordinator until they are   *)
(* inductive.  What it adds is what the code takes for granted: the lease  *)
(* of a task run is its own and is asked for once, and a task run that     *)
(* lives holds the place of its lease.                                     *)
(***************************************************************************)
EXTENDS LoopCoordinator, TLAPS, FiniteSetTheorems, SequenceTheorems, NaturalsInduction

\* A pass that may still claim a schedule read the revision it has now, and what
\* was claimed was an earlier one.
ClaimsArePast ==
    /\ \A p \in Pass : \A l \in passes[p].current : passes[p].read[l].rev = loops[l].rev
    /\ \A l \in Loop : \A k \in DOMAIN claimed[l] : claimed[l][k] < loops[l].rev

\* A lease belongs to a task run that was dispatched, a task run that works has one.
LeasesHaveOwners ==
    /\ \A l \in DOMAIN leases : /\ leases[l].taskRun \in DOMAIN taskRuns
                                /\ taskRuns[leases[l].taskRun].at \in {"working", "ended", "gone"}
    /\ \A t \in DOMAIN taskRuns :
          /\ taskRuns[t].at = "ranked" => taskRuns[t].runner \in Runner
          /\ taskRuns[t].at \in {"working", "ended"} => taskRuns[t].lease # NoLease
          /\ taskRuns[t].lease # NoLease => leases[taskRuns[t].lease].taskRun = t
          /\ taskRuns[t].at = "ended" => taskRuns[t].status = "OVER"

\* The lease of a task run that lives holds its place, and a granted one was not
\* cancelled.
LivingHoldPlaces ==
    \A l \in DOMAIN leases : leases[l].status = "SUCCESS" =>
        /\ share[l] # "cancelled"
        /\ taskRuns[leases[l].taskRun].status = "RUNNING" => share[l] = "held"

\* Too many tasks are let in only where places were given back twice.
PlacesAreBounded ==
    \A r \in Runner : /\ Cardinality(On(r, Held)) <= Capacity + again[r]
                      /\ short[r] <= again[r]

LoopsInv ==
    /\ LoopsTypeOK
    /\ ClaimsArePast /\ OccurrenceClaimedOnce
    /\ LeasesHaveOwners /\ LivingHoldPlaces
    /\ CapacityHolds /\ CountCoversHeldLeases /\ PlacesAreBounded

USE RunnerPoolAssumption

-----------------------------------------------------------------------------
(***************************************************************************)
(* Helpers                                                                 *)
(***************************************************************************)
LEMMA IsSequence ==
    ASSUME NEW S, NEW n \in Nat, NEW f \in [1 .. n -> S]
    PROVE  f \in Seq(S) /\ Len(f) = n /\ DOMAIN f = 1 .. n
  BY SeqDef

LEMMA SequenceIsFunction ==
    ASSUME NEW S, NEW s \in Seq(S)
    PROVE  /\ s \in [1 .. Len(s) -> S] /\ Len(s) \in Nat /\ DOMAIN s = 1 .. Len(s)
           /\ \A i \in DOMAIN s : s[i] \in S
  OBVIOUS

\* The sets of leases that are counted are finite.
LEMMA LeasesAreCountable ==
    ASSUME PoolTypeOK, NEW set \in SUBSET DOMAIN leases, NEW r
    PROVE  /\ IsFiniteSet(set) /\ IsFiniteSet(On(r, set))
           /\ Cardinality(set) \in Nat /\ Cardinality(On(r, set)) \in Nat
  <1>1. IsFiniteSet(DOMAIN leases)
    <2>1. DOMAIN leases = 1 .. Len(leases) /\ Len(leases) \in Nat
      BY DEF PoolTypeOK
    <2> QED
      BY <2>1, FS_Interval
  <1>2. On(r, set) \subseteq DOMAIN leases
    BY DEF On
  <1> QED
    BY <1>1, <1>2, FS_Subset, FS_CardinalityType

LEMMA RaisedIsState ==
    ASSUME NEW c \in RunnerState, NEW n \in Nat
    PROVE  Raised(c, n) \in RunnerState
  BY DEF Raised, RunnerState, Health

LEMMA LoweredIsState ==
    ASSUME NEW c \in RunnerState, NEW n \in Nat
    PROVE  Lowered(c, n) \in RunnerState
  BY DEF Lowered, RunnerState, Health

LEMMA AgainIsCounted ==
    ASSUME PoolTypeOK, NEW set \in SUBSET DOMAIN leases, CountAgain(set)
    PROVE  again' \in [Runner -> Nat] /\ short' \in [Runner -> Nat]
  <1>1. \A r : Cardinality(On(r, GivenBack(set))) \in Nat
    <2>1. GivenBack(set) \in SUBSET DOMAIN leases
      BY DEF GivenBack
    <2> QED
      BY <2>1, LeasesAreCountable
  <1> QED
    BY <1>1 DEF CountAgain, PoolTypeOK

-----------------------------------------------------------------------------
(***************************************************************************)
(* What the operations of the pool keep                                    *)
(***************************************************************************)
LEMMA ReserveKeepsTypes ==
    ASSUME PoolTypeOK, NEW t \in Nat, NEW r \in Runner, Reserve(t, r, 1)
    PROVE  /\ PoolTypeOK' /\ Len(leases') = Len(leases) + 1
           /\ leases'[Len(leases) + 1] = Granted(t, r) /\ share'[Len(leases) + 1] = "held"
           /\ \A l \in DOMAIN leases : leases'[l] = leases[l] /\ share'[l] = share[l]
  <1> DEFINE n == Len(leases)
             S == {"held", "returned", "cancelled", "dropped"}
  <1>1. /\ leases \in Seq(DispatchLog) /\ n \in Nat /\ DOMAIN leases = 1 .. n
        /\ share \in [1 .. n -> S]
    BY DEF PoolTypeOK
  <1>2. share \in Seq(S) /\ Len(share) = n
    BY <1>1, IsSequence
  <1>3. Granted(t, r) \in DispatchLog
    BY DEF Granted, DispatchLog
  <1>4. /\ [k \in 1 .. 1 |-> Granted(t, r)] \in Seq(DispatchLog) /\ Len([k \in 1 .. 1 |-> Granted(t, r)]) = 1
        /\ [k \in 1 .. 1 |-> "held"] \in Seq(S) /\ Len([k \in 1 .. 1 |-> "held"]) = 1
    BY <1>3, IsSequence
  <1>5. /\ leases' \in Seq(DispatchLog) /\ Len(leases') = n + 1
        /\ leases'[n + 1] = Granted(t, r) /\ \A l \in 1 .. n : leases'[l] = leases[l]
    BY <1>1, <1>4 DEF Reserve
  <1>6. /\ share' \in Seq(S) /\ Len(share') = n + 1
        /\ share'[n + 1] = "held" /\ \A l \in 1 .. n : share'[l] = share[l]
    BY <1>2, <1>4 DEF Reserve
  <1>7. pool' \in [Runner -> RunnerState]
    BY RaisedIsState DEF Reserve, PoolTypeOK
  <1>8. share' \in [DOMAIN leases' -> S]
    BY <1>5, <1>6
  <1> QED
    BY <1>1, <1>5, <1>6, <1>7, <1>8 DEF Reserve, PoolTypeOK

\* A place that is reserved and returned in one transaction.
LEMMA AppendKeepsTypes ==
    ASSUME PoolTypeOK, NEW t \in Nat, NEW w \in Runner,
           pool' = [pool EXCEPT ![w] = Lowered(Raised(@, 1), 1)],
           leases' = Append(leases, Granted(t, w)), share' = Append(share, "returned"),
           UNCHANGED <<again, short>>
    PROVE  /\ PoolTypeOK' /\ Len(leases') = Len(leases) + 1
           /\ leases'[Len(leases) + 1] = Granted(t, w) /\ share'[Len(leases) + 1] = "returned"
           /\ \A l \in DOMAIN leases : leases'[l] = leases[l] /\ share'[l] = share[l]
  <1> DEFINE n == Len(leases)
             S == {"held", "returned", "cancelled", "dropped"}
  <1>1. /\ leases \in Seq(DispatchLog) /\ n \in Nat /\ DOMAIN leases = 1 .. n
        /\ share \in [1 .. n -> S]
    BY DEF PoolTypeOK
  <1>2. share \in Seq(S) /\ Len(share) = n /\ "returned" \in S
    BY <1>1, IsSequence
  <1>3. Granted(t, w) \in DispatchLog
    BY DEF Granted, DispatchLog
  <1> HIDE DEF S
  <1>4. /\ leases' \in Seq(DispatchLog) /\ Len(leases') = n + 1
        /\ leases'[n + 1] = Granted(t, w) /\ \A l \in 1 .. n : leases'[l] = leases[l]
    BY <1>1, <1>3
  <1>5. /\ share' \in Seq(S) /\ Len(share') = n + 1
        /\ share'[n + 1] = "returned" /\ \A l \in 1 .. n : share'[l] = share[l]
    BY <1>2
  <1>6. pool' \in [Runner -> RunnerState]
    <2>1. pool[w] \in RunnerState /\ 1 \in Nat
      BY DEF PoolTypeOK
    <2>2. Lowered(Raised(pool[w], 1), 1) \in RunnerState
      BY <2>1, RaisedIsState, LoweredIsState
    <2> QED
      BY <2>2 DEF PoolTypeOK
  <1>7. DOMAIN leases' = 1 .. n + 1
    BY <1>1, <1>4
  <1>8. share' \in [1 .. n + 1 -> S]
    BY <1>5, SequenceIsFunction
  <1> QED
    BY <1>1, <1>4, <1>5, <1>6, <1>7, <1>8 DEF PoolTypeOK, S

LEMMA ReturnKeepsTypes ==
    ASSUME PoolTypeOK, NEW l \in DOMAIN leases, Return(l)
    PROVE  PoolTypeOK'
  <1>1. leases[l].runner \in Runner
    <2>1. leases[l] \in DispatchLog
      BY DEF PoolTypeOK
    <2> QED
      BY <2>1 DEF DispatchLog
  <1>2. pool' \in [Runner -> RunnerState]
    BY <1>1, LoweredIsState DEF Return, PoolTypeOK
  <1>3. again' \in [Runner -> Nat] /\ short' \in [Runner -> Nat]
    BY AgainIsCounted DEF Return
  <1> QED
    BY <1>2, <1>3 DEF Return, Shares, PoolTypeOK

LEMMA CancelledIsLog ==
    ASSUME PoolTypeOK, NEW these
    PROVE  /\ Cancelled(these) \in Seq(DispatchLog) /\ DOMAIN Cancelled(these) = DOMAIN leases
           /\ \A l \in DOMAIN leases : /\ Cancelled(these)[l].runner = leases[l].runner
                                       /\ Cancelled(these)[l].taskRun = leases[l].taskRun
                                       /\ Cancelled(these)[l].status = IF l \in Of(these) THEN "CANCELLED"
                                                                       ELSE leases[l].status
  <1>1. DOMAIN leases = 1 .. Len(leases) /\ Len(leases) \in Nat /\ \A l \in DOMAIN leases : leases[l] \in DispatchLog
    BY DEF PoolTypeOK
  <1>2. Cancelled(these) \in [1 .. Len(leases) -> DispatchLog]
    BY <1>1 DEF Cancelled, DispatchLog
  <1>3. \A l \in DOMAIN leases : /\ Cancelled(these)[l].runner = leases[l].runner
                                 /\ Cancelled(these)[l].taskRun = leases[l].taskRun
                                 /\ Cancelled(these)[l].status = IF l \in Of(these) THEN "CANCELLED"
                                                                 ELSE leases[l].status
    BY <1>1 DEF Cancelled, DispatchLog
  <1> QED
    BY <1>1, <1>2, <1>3, IsSequence

LEMMA CancelKeepsTypes ==
    ASSUME PoolTypeOK, NEW these, Cancel(these)
    PROVE  PoolTypeOK'
  <1>1. Of(these) \in SUBSET DOMAIN leases
    BY DEF Of
  <1>2. pool' \in [Runner -> RunnerState]
    BY <1>1, LeasesAreCountable, LoweredIsState DEF Cancel, PoolTypeOK
  <1>3. again' \in [Runner -> Nat] /\ short' \in [Runner -> Nat]
    BY <1>1, AgainIsCounted DEF Cancel
  <1> QED
    BY <1>2, <1>3, CancelledIsLog DEF Cancel, Shares, PoolTypeOK

LEMMA RecountKeepsTypes ==
    ASSUME PoolTypeOK, NEW these, NEW active, CancelAndRecount(these, active)
    PROVE  PoolTypeOK'
  <1>1. Of(active) \in SUBSET DOMAIN leases
    BY DEF Of
  <1>2. \A r \in Runner : Recounted(r, active) \in RunnerState
    BY <1>1, LeasesAreCountable DEF Recounted, RunnerState, Health, PoolTypeOK
  <1>3. share' \in [DOMAIN leases -> {"held", "returned", "cancelled", "dropped"}]
    BY DEF CancelAndRecount, PoolTypeOK
  <1> QED
    BY <1>2, <1>3, CancelledIsLog DEF CancelAndRecount, PoolTypeOK

\* What holds of the count of a runner.
Places(r) ==
    /\ Cardinality(On(r, Held)) <= pool[r].active + short[r]
    /\ Cardinality(On(r, Held)) <= Capacity + again[r]
    /\ pool[r].active <= Capacity + again[r]
    /\ short[r] <= again[r]

LEMMA PlacesAreNumbers ==
    ASSUME PoolTypeOK, NEW r \in Runner
    PROVE  /\ Cardinality(On(r, Held)) \in Nat /\ IsFiniteSet(On(r, Held))
           /\ pool[r] \in RunnerState /\ pool[r].active \in Nat
           /\ again[r] \in Nat /\ short[r] \in Nat
  <1>1. Held \in SUBSET DOMAIN leases
    BY DEF Held
  <1>2. pool[r] \in RunnerState
    BY DEF PoolTypeOK
  <1> QED
    BY <1>1, <1>2, LeasesAreCountable DEF PoolTypeOK, RunnerState

\* Nothing but the count and the places of the leases matters.
LEMMA ReserveKeepsPlaces ==
    ASSUME PoolTypeOK, \A r \in Runner : Places(r),
           NEW t \in Nat, NEW w \in Runner, Reservable(w), Reserve(t, w, 1),
           NEW r \in Runner
    PROVE  Places(r)'
  <1> DEFINE n == Len(leases)
             new == n + 1
  <1>1. /\ PoolTypeOK' /\ DOMAIN leases = 1 .. n /\ DOMAIN leases' = 1 .. new /\ n \in Nat
        /\ leases'[new] = Granted(t, w) /\ share'[new] = "held"
        /\ \A l \in 1 .. n : leases'[l] = leases[l] /\ share'[l] = share[l]
    <2>1. /\ PoolTypeOK' /\ Len(leases') = n + 1
          /\ leases'[n + 1] = Granted(t, w) /\ share'[n + 1] = "held"
          /\ \A l \in DOMAIN leases : leases'[l] = leases[l] /\ share'[l] = share[l]
      BY ReserveKeepsTypes
    <2>2. leases \in Seq(DispatchLog) /\ leases' \in Seq(DispatchLog)
      BY <2>1 DEF PoolTypeOK
    <2> QED
      BY <2>1, <2>2
  <1>2. /\ Places(r) /\ Cardinality(On(r, Held)) \in Nat /\ IsFiniteSet(On(r, Held))
        /\ pool[r].active \in Nat /\ again[r] \in Nat /\ short[r] \in Nat
    BY PlacesAreNumbers
  <1>3. again' = again /\ short' = short
    BY DEF Reserve
  <1>4. Held' = Held \cup {new} /\ new \notin Held
    BY <1>1 DEF Held
  <1>5. CASE r = w
    <2>1. On(r, Held)' = On(r, Held) \cup {new} /\ new \notin On(r, Held)
      BY <1>1, <1>4, <1>5 DEF On, Held, Granted
    <2>2. Cardinality(On(r, Held)') = Cardinality(On(r, Held)) + 1
      BY <1>2, <2>1, FS_AddElement
    <2>3. pool'[r].active = pool[r].active + 1 /\ pool[r].active < Capacity
      BY <1>5 DEF Reserve, Reservable, Raised, PoolTypeOK
    <2> QED
      BY <1>2, <1>3, <2>2, <2>3, RunnerPoolAssumption DEF Places
  <1>6. CASE r # w
    <2>1. On(r, Held)' = On(r, Held)
      BY <1>1, <1>4, <1>6 DEF On, Held, Granted
    <2>2. pool'[r] = pool[r]
      BY <1>6 DEF Reserve, PoolTypeOK
    <2> QED
      BY <1>2, <1>3, <2>1, <2>2 DEF Places
  <1> QED
    BY <1>5, <1>6

\* A place that is reserved and returned in one transaction was there.
LEMMA AppendKeepsPlaces ==
    ASSUME PoolTypeOK, NEW t \in Nat, NEW w \in Runner,
           pool' = [pool EXCEPT ![w] = Lowered(Raised(@, 1), 1)],
           leases' = Append(leases, Granted(t, w)), share' = Append(share, "returned"),
           UNCHANGED <<again, short>>,
           NEW r \in Runner, Places(r)
    PROVE  Places(r)'
  <1> DEFINE n == Len(leases)
  <1>1. /\ PoolTypeOK' /\ Len(leases') = n + 1 /\ share'[n + 1] = "returned"
        /\ \A l \in DOMAIN leases : leases'[l] = leases[l] /\ share'[l] = share[l]
    BY AppendKeepsTypes
  <1>2. leases \in Seq(DispatchLog) /\ leases' \in Seq(DispatchLog)
    BY <1>1 DEF PoolTypeOK
  <1>3. DOMAIN leases = 1 .. n /\ DOMAIN leases' = 1 .. n + 1 /\ n \in Nat
    BY <1>1, <1>2
  <1>4. Held' = Held /\ Held \subseteq DOMAIN leases
    <2>1. \A l : l \in DOMAIN leases' <=> l \in DOMAIN leases \/ l = n + 1
      BY <1>3
    <2> HIDE DEF n
    <2> QED
      BY <1>1, <2>1 DEF Held
  <1>5. On(r, Held)' = On(r, Held)
    BY <1>1, <1>4 DEF On
  <1>6. pool'[r].active = pool[r].active
    <2>1. pool[r].active \in Nat /\ pool \in [Runner -> RunnerState]
      BY PlacesAreNumbers DEF PoolTypeOK
    <2>2. CASE r = w
      <3>1. pool'[r] = Lowered(Raised(pool[r], 1), 1)
        BY <2>1, <2>2
      <3>2. Raised(pool[r], 1).active = pool[r].active + 1
        BY DEF Raised
      <3>3. ASSUME NEW c, c.active = pool[r].active + 1
            PROVE  Lowered(c, 1).active = pool[r].active
        <4>1. c.active - 1 = pool[r].active /\ (c.active > 1 <=> pool[r].active > 0)
          BY <2>1, <3>3
        <4>2. Lowered(c, 1).active = IF c.active > 1 THEN c.active - 1 ELSE 0
          BY DEF Lowered
        <4> QED
          BY <2>1, <4>1, <4>2
      <3> QED
        BY <3>1, <3>2, <3>3
    <2>3. CASE r # w
      BY <2>1, <2>3
    <2> QED
      BY <2>2, <2>3
  <1> QED
    BY <1>5, <1>6 DEF Places

\* A place that is given back lowers the count of its runner, or is counted as given
\* back again.
LEMMA GivingBackKeepsPlaces ==
    ASSUME PoolTypeOK, NEW r \in Runner, Places(r),
           NEW set \in SUBSET DOMAIN leases, \A l \in set : share[l] # "cancelled",
           NEW what \in {"returned", "cancelled"},
           pool'[r].active = LET n == Cardinality(On(r, set))
                             IN  IF pool[r].active > n THEN pool[r].active - n ELSE 0,
           share' = Shares(set, what), CountAgain(set),
           DOMAIN leases' = DOMAIN leases,
           \A l \in DOMAIN leases : leases'[l].runner = leases[l].runner
    PROVE  Places(r)'
  <1> DEFINE H == On(r, Held)
             S == On(r, set)
             G == On(r, GivenBack(set))
  <1>1. /\ Cardinality(H) \in Nat /\ IsFiniteSet(H)
        /\ pool[r].active \in Nat /\ again[r] \in Nat /\ short[r] \in Nat
    BY PlacesAreNumbers
  <1>2. IsFiniteSet(S) /\ Cardinality(S) \in Nat
    BY LeasesAreCountable
  <1>3. G = S \ H
    BY DEF On, GivenBack, Held, PoolTypeOK
  <1>4. On(r, Held)' = H \ S
    <2>1. Held' = Held \ set
      BY DEF Held, Shares
    <2> QED
      BY <2>1 DEF On, Held
  <1>5. /\ IsFiniteSet(H \ S) /\ IsFiniteSet(S \ H)
        /\ Cardinality(H \ S) = Cardinality(H) - Cardinality(H \cap S)
        /\ Cardinality(S \ H) = Cardinality(S) - Cardinality(S \cap H)
    BY <1>1, <1>2, FS_Difference
  <1>6. H \cap S = S \cap H /\ IsFiniteSet(S \cap H) /\ Cardinality(S \cap H) \in Nat
    <2>1. S \cap H \subseteq S
      OBVIOUS
    <2> QED
      BY <1>2, <2>1, FS_Subset, FS_CardinalityType
  <1>7. again'[r] = again[r] + Cardinality(G) /\ short'[r] = short[r] + Cardinality(G)
    BY DEF CountAgain
  <1>8. Cardinality(H \ S) \in Nat /\ Cardinality(S \ H) \in Nat
    BY <1>5, FS_CardinalityType
  <1> HIDE DEF H, S, G
  <1>9. /\ Cardinality(H) <= pool[r].active + short[r]
        /\ Cardinality(H) <= Capacity + again[r]
        /\ pool[r].active <= Capacity + again[r]
        /\ short[r] <= again[r]
    BY DEF Places, H
  <1>10. pool'[r].active = IF pool[r].active > Cardinality(S) THEN pool[r].active - Cardinality(S) ELSE 0
    BY DEF S
  <1>11. Cardinality(On(r, Held)') = Cardinality(H) - Cardinality(S \cap H)
    BY <1>4, <1>5, <1>6
  <1>12. Cardinality(G) = Cardinality(S) - Cardinality(S \cap H)
    BY <1>3, <1>5
  <1>13. /\ Cardinality(On(r, Held)') <= pool'[r].active + short'[r]
         /\ Cardinality(On(r, Held)') <= Capacity + again'[r]
         /\ pool'[r].active <= Capacity + again'[r]
         /\ short'[r] <= again'[r]
    BY <1>1, <1>2, <1>6, <1>7, <1>8, <1>9, <1>10, <1>11, <1>12, <1>3
  <1> QED
    BY <1>13 DEF Places

LEMMA ReturnKeepsPlaces ==
    ASSUME PoolTypeOK, NEW r \in Runner, Places(r),
           NEW l \in DOMAIN leases, share[l] # "cancelled", Return(l)
    PROVE  Places(r)'
  <1>1. pool'[r].active = LET n == Cardinality(On(r, {l}))
                          IN  IF pool[r].active > n THEN pool[r].active - n ELSE 0
    <2>1. pool[r].active \in Nat /\ pool \in [Runner -> RunnerState]
      BY PlacesAreNumbers DEF PoolTypeOK
    <2>2. CASE leases[l].runner = r
      <3>1. On(r, {l}) = {l} /\ Cardinality({l}) = 1
        BY <2>2, FS_Singleton DEF On
      <3>2. pool'[r] = Lowered(pool[r], 1)
        BY <2>1, <2>2 DEF Return
      <3> QED
        BY <3>1, <3>2 DEF Lowered
    <2>3. CASE leases[l].runner # r
      <3>1. On(r, {l}) = {} /\ Cardinality({}) = 0
        BY <2>3, FS_EmptySet DEF On
      <3>2. pool'[r] = pool[r]
        BY <2>1, <2>3 DEF Return
      <3>3. Cardinality(On(r, {l})) = 0
        BY <3>1
      <3> QED
        BY <2>1, <3>2, <3>3
    <2> QED
      BY <2>2, <2>3
  <1> QED
    BY <1>1, GivingBackKeepsPlaces DEF Return

LEMMA CancelKeepsPlaces ==
    ASSUME PoolTypeOK, NEW r \in Runner, Places(r),
           NEW these, \A l \in Of(these) : share[l] # "cancelled", Cancel(these)
    PROVE  Places(r)'
  <1>1. Of(these) \in SUBSET DOMAIN leases
    BY DEF Of
  <1>2. pool'[r].active = LET n == Cardinality(On(r, Of(these)))
                          IN  IF pool[r].active > n THEN pool[r].active - n ELSE 0
    BY DEF Cancel, Lowered
  <1>3. DOMAIN leases' = DOMAIN leases /\ \A l \in DOMAIN leases : leases'[l].runner = leases[l].runner
    BY CancelledIsLog DEF Cancel
  <1> QED
    BY <1>1, <1>2, <1>3, GivingBackKeepsPlaces DEF Cancel

\* A reconciliation counts the places that are held, and no others.
LEMMA RecountKeepsPlaces ==
    ASSUME PoolTypeOK, NEW r \in Runner, Places(r),
           NEW these, NEW active, these \cap active = {},
           \A l \in Of(active) : share[l] = "held", CancelAndRecount(these, active)
    PROVE  Places(r)'
  <1>1. /\ Cardinality(On(r, Held)) \in Nat /\ IsFiniteSet(On(r, Held))
        /\ pool[r].active \in Nat /\ again[r] \in Nat /\ short[r] \in Nat
    BY PlacesAreNumbers
  <1>2. /\ DOMAIN leases' = DOMAIN leases
        /\ \A l \in DOMAIN leases : leases'[l].runner = leases[l].runner
    BY CancelledIsLog DEF CancelAndRecount
  <1>3. Held' = Of(active)
    BY <1>2 DEF CancelAndRecount, Held, Of
  <1>4. On(r, Held)' = On(r, Of(active))
    BY <1>2, <1>3 DEF On, Of
  <1>5. pool'[r].active = Cardinality(On(r, Of(active))) /\ short'[r] = 0 /\ again' = again
    BY DEF CancelAndRecount, Recounted
  <1>6. Cardinality(On(r, Of(active))) \in Nat /\ Cardinality(On(r, Of(active))) <= Cardinality(On(r, Held))
    <2>1. On(r, Of(active)) \subseteq On(r, Held)
      BY DEF On, Of, Held
    <2> QED
      BY <1>1, <2>1, FS_Subset, FS_CardinalityType
  <1> QED
    BY <1>1, <1>4, <1>5, <1>6, RunnerPoolAssumption DEF Places

-----------------------------------------------------------------------------
(***************************************************************************)
(* The runs that a pass starts                                             *)
(***************************************************************************)
LEMMA LeastOfNaturals ==
    ASSUME NEW S, S \subseteq Nat, S # {}
    PROVE  \E x \in S : \A y \in S : x <= y
  <1> DEFINE R == OpToRel(<, Nat)
  <1>1. IsWellFoundedOn(R, Nat)
    BY NatLessThanWellFounded
  <1>2. PICK x \in S : \A y \in S : <<y, x>> \notin R
    <2> HIDE DEF R
    <2> QED
      BY <1>1, WFMin
  <1>3. \A y \in S : ~(y < x)
    BY <1>2 DEF OpToRel
  <1> QED
    BY <1>3

\* all[l] is what is started for the first l of n loops, where old were there before
\* and mine are claimed.
Chain(all, n, old, mine, read, payload) ==
    all = [l \in 0 .. n |-> IF l = 0 THEN old
                           ELSE IF l \in mine THEN Deduped(all[l - 1], Triaged(l, read[l], payload[l]))
                           ELSE all[l - 1]]

LEMMA ChainGrows ==
    ASSUME NEW n \in Nat, NEW old, NEW mine, NEW read, NEW payload,
           NEW f, Chain(f, n, old, mine, read, payload)
    PROVE  \E g : Chain(g, n + 1, old, mine, read, payload)
  <1> DEFINE N(all, l) == IF l \in mine THEN Deduped(all, Triaged(l, read[l], payload[l])) ELSE all
             g == [l \in 0 .. n + 1 |-> IF l <= n THEN f[l] ELSE N(f[n], n + 1)]
  <1>1. ASSUME NEW l \in 0 .. n
        PROVE  f[l] = IF l = 0 THEN old ELSE N(f[l - 1], l)
    BY DEF Chain
  <1> HIDE DEF N
  <1>2. ASSUME NEW l \in 0 .. n + 1
        PROVE  g[l] = IF l = 0 THEN old ELSE N(g[l - 1], l)
    <2>1. CASE l <= n
      <3>1. l \in 0 .. n /\ (l # 0 => l - 1 \in 0 .. n + 1 /\ l - 1 <= n)
        BY <2>1
      <3> QED
        BY <1>1, <2>1, <3>1
    <2>2. CASE l = n + 1
      BY <2>2
    <2> QED
      BY <2>1, <2>2
  <1>3. g = [l \in 0 .. n + 1 |-> IF l = 0 THEN old ELSE N(g[l - 1], l)]
    BY <1>2
  <1> HIDE DEF g
  <1>4. Chain(g, n + 1, old, mine, read, payload)
    BY <1>3 DEF Chain, N
  <1> QED
    BY <1>4

LEMMA ChainExists ==
    ASSUME NEW n \in Nat, NEW old, NEW mine, NEW read, NEW payload
    PROVE  \E f : Chain(f, n, old, mine, read, payload)
  <1> DEFINE bad == {i \in Nat : ~\E f : Chain(f, i, old, mine, read, payload)}
  <1>1. ASSUME bad # {} PROVE FALSE
    <2>1. PICK i \in bad : \A j \in bad : i <= j
      <3>1. bad \subseteq Nat
        OBVIOUS
      <3> HIDE DEF bad
      <3> QED
        BY <3>1, <1>1, LeastOfNaturals
    <2>2. CASE i = 0
      <3>1. Chain([j \in 0 .. 0 |-> old], 0, old, mine, read, payload)
        BY DEF Chain
      <3> QED
        BY <2>1, <2>2, <3>1
    <2>3. CASE i # 0
      <3>1. i - 1 \in Nat /\ i - 1 \notin bad
        BY <2>1, <2>3
      <3>2. PICK f : Chain(f, i - 1, old, mine, read, payload)
        BY <3>1
      <3>3. \E g : Chain(g, (i - 1) + 1, old, mine, read, payload)
        BY <3>1, <3>2, ChainGrows
      <3> QED
        BY <2>1, <3>3
    <2> QED
      BY <2>2, <2>3
  <1> QED
    BY <1>1

\* The runs all are the runs old and more of them.
Extends(all, old) ==
    /\ all \in Seq(LoopRun) /\ Len(old) <= Len(all)
    /\ \A i \in 1 .. Len(old) : all[i] = old[i]

LEMMA DedupedExtends ==
    ASSUME NEW old \in Seq(LoopRun), NEW all, Extends(all, old), NEW run \in LoopRun
    PROVE  Extends(Deduped(all, run), old)
  BY DEF Extends, Deduped

LEMMA StartedExtends ==
    ASSUME LoopsTypeOK, NEW p \in Pass, NEW payload \in [Claims(p) -> {"items", "none"}]
    PROVE  Extends(Started(p, payload), runs)
  <1> DEFINE n == Cardinality(Loop)
             mine == Claims(p)
             read == passes[p].read
             all == CHOOSE all : Chain(all, n, runs, mine, read, payload)
  <1>1. n \in Nat /\ Loop = 1 .. n
    BY LoopAssumption, FS_CardinalityType
  <1>2. Chain(all, n, runs, mine, read, payload)
    <2> HIDE DEF n, mine, read
    <2> QED
      BY <1>1, ChainExists
  <1>3. Started(p, payload) = all[n]
    BY DEF Started, Chain
  <1>4. ASSUME NEW l \in mine
        PROVE  Triaged(l, read[l], payload[l]) \in LoopRun
    <2>1. l \in DOMAIN read /\ DOMAIN read \subseteq Loop /\ read[l] \in OccurrenceKey
      BY DEF LoopsTypeOK, RowsOf, Claims
    <2>2. payload[l] \in {"items", "none"}
      BY <1>4
    <2> HIDE DEF read
    <2> QED
      BY <2>1, <2>2 DEF Triaged, LoopRun, LoopRunStatus, RunStatus
  <1> HIDE DEF all, mine, read, n
  <1>5. runs \in Seq(LoopRun) /\ Extends(runs, runs)
    BY DEF LoopsTypeOK, Extends
  <1> DEFINE bad == {l \in 0 .. n : ~Extends(all[l], runs)}
  <1>6. ASSUME bad # {} PROVE FALSE
    <2>1. PICK l \in bad : \A j \in bad : l <= j
      <3>1. bad \subseteq Nat
        BY <1>1
      <3> HIDE DEF bad
      <3> QED
        BY <3>1, <1>6, LeastOfNaturals
    <2>2. CASE l = 0
      BY <1>1, <1>2, <1>5, <2>1, <2>2 DEF Chain
    <2>3. CASE l # 0
      <3>1. l \in 0 .. n /\ l - 1 \in 0 .. n /\ l - 1 \notin bad
        BY <1>1, <2>1, <2>3
      <3>2. Extends(all[l - 1], runs)
        BY <3>1
      <3>3. all[l] = IF l \in mine THEN Deduped(all[l - 1], Triaged(l, read[l], payload[l])) ELSE all[l - 1]
        BY <1>2, <2>3, <3>1 DEF Chain
      <3>4. Extends(all[l], runs)
        BY <1>4, <1>5, <3>2, <3>3, DedupedExtends
      <3> QED
        BY <2>1, <3>4
    <2> QED
      BY <2>2, <2>3
  <1>7. n \in 0 .. n
    BY <1>1
  <1> QED
    BY <1>3, <1>6, <1>7

-----------------------------------------------------------------------------
(***************************************************************************)
(* The steps of the loops                                                  *)
(***************************************************************************)
LEMMA RowsAreTyped ==
    ASSUME LoopsTypeOK
    PROVE  /\ PoolTypeOK /\ leases \in Seq(DispatchLog)
           /\ leases \in [1 .. Len(leases) -> DispatchLog] /\ Len(leases) \in Nat /\ DOMAIN leases = 1 .. Len(leases)
           /\ \A l \in DOMAIN leases : leases[l] \in DispatchLog
           /\ runs \in Seq(LoopRun) /\ runs \in [1 .. Len(runs) -> LoopRun] /\ Len(runs) \in Nat /\ DOMAIN runs = 1 .. Len(runs)
           /\ \A i \in DOMAIN runs : runs[i] \in LoopRun
           /\ taskRuns \in Seq(TaskRun) /\ taskRuns \in [1 .. Len(taskRuns) -> TaskRun] /\ Len(taskRuns) \in Nat /\ DOMAIN taskRuns = 1 .. Len(taskRuns)
           /\ \A t \in DOMAIN taskRuns : taskRuns[t] \in TaskRun
  BY DEF LoopsTypeOK, PoolTypeOK

\* Ending task runs changes nothing of them but their status.
LEMMA EndedIsTyped ==
    ASSUME LoopsTypeOK, NEW set
    PROVE  /\ Ended(set) \in Seq(TaskRun) /\ DOMAIN Ended(set) = DOMAIN taskRuns
           /\ \A t \in DOMAIN taskRuns : /\ Ended(set)[t].run = taskRuns[t].run
                                         /\ Ended(set)[t].at = taskRuns[t].at
                                         /\ Ended(set)[t].runner = taskRuns[t].runner
                                         /\ Ended(set)[t].lease = taskRuns[t].lease
                                         /\ Ended(set)[t].status = IF t \in set THEN "OVER" ELSE taskRuns[t].status
  <1>1. /\ Len(taskRuns) \in Nat /\ DOMAIN taskRuns = 1 .. Len(taskRuns)
        /\ \A t \in DOMAIN taskRuns : taskRuns[t] \in TaskRun
    BY RowsAreTyped
  <1>2. Ended(set) \in [1 .. Len(taskRuns) -> TaskRun]
    BY <1>1 DEF Ended, TaskRun
  <1>3. \A t \in DOMAIN taskRuns : /\ Ended(set)[t].run = taskRuns[t].run
                                   /\ Ended(set)[t].at = taskRuns[t].at
                                   /\ Ended(set)[t].runner = taskRuns[t].runner
                                   /\ Ended(set)[t].lease = taskRuns[t].lease
                                   /\ Ended(set)[t].status = IF t \in set THEN "OVER" ELSE taskRuns[t].status
    BY <1>1 DEF Ended, TaskRun
  <1> QED
    BY <1>1, <1>2, <1>3, IsSequence

\* What a pass has read stays typed when some of it is forgotten.
LEMMA TouchedRowsAreTyped ==
    ASSUME LoopsTypeOK, NEW written, Touch(written)
    PROVE  DOMAIN passes' = Pass /\ \A p \in Pass : \E these \in SUBSET Loop : passes'[p] \in RowsOf(these)
  <1>1. ASSUME NEW p \in Pass PROVE \E these \in SUBSET Loop : passes'[p] \in RowsOf(these)
    <2>1. PICK these \in SUBSET Loop : passes[p] \in RowsOf(these)
      BY DEF LoopsTypeOK
    <2>2. passes'[p] \in RowsOf(these)
      BY <2>1 DEF Touch, RowsOf
    <2> QED
      BY <2>2
  <1> QED
    BY <1>1 DEF Touch

\* One task run is written.
LEMMA ChangedTaskRun ==
    ASSUME LoopsTypeOK, NEW t \in DOMAIN taskRuns, NEW new \in TaskRun,
           taskRuns' = [taskRuns EXCEPT ![t] = new]
    PROVE  /\ taskRuns' \in Seq(TaskRun) /\ DOMAIN taskRuns' = DOMAIN taskRuns
           /\ \A u \in DOMAIN taskRuns : taskRuns'[u] = IF u = t THEN new ELSE taskRuns[u]
  <1>1. taskRuns \in [1 .. Len(taskRuns) -> TaskRun] /\ Len(taskRuns) \in Nat /\ DOMAIN taskRuns = 1 .. Len(taskRuns)
    BY RowsAreTyped
  <1>2. taskRuns' \in [1 .. Len(taskRuns) -> TaskRun]
    BY <1>1
  <1> QED
    BY <1>1, <1>2, IsSequence

LEMMA TypesFollow ==
    ASSUME LoopsTypeOK, PoolTypeOK', DOMAIN leases \subseteq DOMAIN leases',
           UNCHANGED <<loops, clock, passes, runs, claimed, commands>>,
           taskRuns' \in Seq(TaskRun), DOMAIN taskRuns' = DOMAIN taskRuns,
           \A u \in DOMAIN taskRuns :
              /\ taskRuns'[u].run = taskRuns[u].run
              /\ taskRuns'[u].lease = taskRuns[u].lease \/ taskRuns'[u].lease \in DOMAIN leases'
    PROVE  LoopsTypeOK'
  <1>1. ASSUME NEW u \in DOMAIN taskRuns'
        PROVE  taskRuns'[u].run \in DOMAIN runs' /\ taskRuns'[u].lease \in {NoLease} \cup DOMAIN leases'
    <2>1. u \in DOMAIN taskRuns
      OBVIOUS
    <2>2. taskRuns[u].run \in DOMAIN runs /\ taskRuns[u].lease \in {NoLease} \cup DOMAIN leases
      BY <2>1 DEF LoopsTypeOK
    <2>3. taskRuns'[u].run = taskRuns[u].run /\ runs' = runs
      BY <2>1
    <2>4. taskRuns'[u].lease = taskRuns[u].lease \/ taskRuns'[u].lease \in DOMAIN leases'
      BY <2>1
    <2>5. CASE taskRuns'[u].lease = taskRuns[u].lease
      BY <2>2, <2>3, <2>5
    <2>6. CASE taskRuns'[u].lease \in DOMAIN leases'
      BY <2>2, <2>3, <2>6
    <2> QED
      BY <2>4, <2>5, <2>6
  <1> QED
    BY <1>1 DEF LoopsTypeOK

LEMMA SetLoopIsTyped ==
    ASSUME LoopsTypeOK, NEW l \in Loop, NEW status \in LoopStatus, NEW enabled \in BOOLEAN,
           SetLoop(l, status, enabled)
    PROVE  /\ loops' \in [Loop -> Row]
           /\ \A k \in Loop : loops'[k].rev = loops[k].rev
           /\ DOMAIN passes' = Pass
           /\ \A p \in Pass : \E these \in SUBSET Loop : passes'[p] \in RowsOf(these)
  <1>1. loops \in [Loop -> Row]
    BY DEF LoopsTypeOK
  <1>2. DOMAIN passes' = Pass /\ \A p \in Pass : \E these \in SUBSET Loop : passes'[p] \in RowsOf(these)
    BY TouchedRowsAreTyped DEF SetLoop
  <1>3. loops' = [loops EXCEPT ![l] = [@ EXCEPT !.status = status, !.enabled = enabled]]
    BY DEF SetLoop
  <1>4. [loops[l] EXCEPT !.status = status, !.enabled = enabled] \in Row
    BY <1>1 DEF Row
  <1>5. [loops[l] EXCEPT !.status = status, !.enabled = enabled].rev = loops[l].rev
    BY <1>1 DEF Row
  <1>6. loops' \in [Loop -> Row] /\ \A k \in Loop : loops'[k].rev = loops[k].rev
    BY <1>1, <1>3, <1>4, <1>5
  <1> QED
    BY <1>2, <1>6

LEMMA MovedIsTyped ==
    ASSUME LoopsTypeOK, NEW l, NEW from, NEW to \in LoopRunStatus
    PROVE  Moved(l, from, to) \in Seq(LoopRun) /\ DOMAIN Moved(l, from, to) = DOMAIN runs
  <1>1. /\ Len(runs) \in Nat /\ DOMAIN runs = 1 .. Len(runs) /\ \A i \in DOMAIN runs : runs[i] \in LoopRun
    BY RowsAreTyped
  <1>2. Moved(l, from, to) \in [1 .. Len(runs) -> LoopRun]
    BY <1>1 DEF Moved, LoopRun
  <1> QED
    BY <1>1, <1>2, IsSequence

LEMMA TypesAreKept ==
    ASSUME LoopsInv, LoopsNext
    PROVE  LoopsTypeOK'
  <1>1. LoopsTypeOK
    BY DEF LoopsInv
  <1>2. /\ PoolTypeOK /\ leases \in Seq(DispatchLog) /\ leases \in [1 .. Len(leases) -> DispatchLog] /\ Len(leases) \in Nat /\ DOMAIN leases = 1 .. Len(leases)
        /\ \A l \in DOMAIN leases : leases[l] \in DispatchLog
        /\ runs \in Seq(LoopRun) /\ runs \in [1 .. Len(runs) -> LoopRun] /\ Len(runs) \in Nat /\ DOMAIN runs = 1 .. Len(runs)
        /\ \A i \in DOMAIN runs : runs[i] \in LoopRun
        /\ taskRuns \in Seq(TaskRun) /\ taskRuns \in [1 .. Len(taskRuns) -> TaskRun] /\ Len(taskRuns) \in Nat /\ DOMAIN taskRuns = 1 .. Len(taskRuns)
        /\ \A t \in DOMAIN taskRuns : taskRuns[t] \in TaskRun
    BY <1>1, RowsAreTyped
  <1>3. LeasesHaveOwners
    BY DEF LoopsInv
  <1>a1. ASSUME NEW l \in Loop, NEW key \in Event, NEW payload \in {"items", "error"},
        Trigger(l, key, payload) PROVE LoopsTypeOK'
    <2>1. Triaged(l, key, payload) \in LoopRun
      BY <1>a1 DEF Triaged, LoopRun, LoopRunStatus, RunStatus
    <2>2. runs' \in Seq(LoopRun) /\ DOMAIN runs \subseteq DOMAIN runs'
      <3>1. CASE runs' = runs
        BY <1>2, <3>1
      <3>2. CASE runs' = Append(runs, Triaged(l, key, payload))
        <4>1. runs' \in Seq(LoopRun) /\ Len(runs') = Len(runs) + 1
          BY <1>2, <2>1, <3>2
        <4> QED
          BY <1>2, <4>1, SequenceIsFunction
      <3> QED
        BY <1>a1, <3>1, <3>2 DEF Trigger, Deduped
    <2>3. /\ loops' \in [Loop -> Row] /\ DOMAIN passes' = Pass
          /\ \A p \in Pass : \E these \in SUBSET Loop : passes'[p] \in RowsOf(these)
      <3>1. CASE SetLoop(l, "RUNNING", TRUE)
        <4>1. "RUNNING" \in LoopStatus /\ TRUE \in BOOLEAN
          BY DEF LoopStatus
        <4> QED
          BY <1>1, <3>1, <4>1, SetLoopIsTyped
      <3>2. CASE UNCHANGED <<loops, passes>>
        BY <1>1, <3>2 DEF LoopsTypeOK
      <3> QED
        BY <1>a1, <3>1, <3>2 DEF Trigger
    <2> QED
      BY <1>1, <1>2, <1>a1, <2>2, <2>3 DEF Trigger, LoopsTypeOK, PoolTypeOK, poolVars
  <1>a2. ASSUME NEW p \in Pass, ReadSchedules(p) PROVE LoopsTypeOK'
    <2>1. [l \in Schedulable |-> Occurrence(l)] \in [Schedulable -> OccurrenceKey]
      BY <1>1 DEF Schedulable, Occurrence, OccurrenceKey, LoopsTypeOK, Row
    <2>2. Schedulable \in SUBSET Loop
      BY DEF Schedulable
    <2>3. passes'[p] \in RowsOf(Schedulable)
      BY <1>1, <1>a2, <2>1, <2>2 DEF ReadSchedules, RowsOf, LoopsTypeOK
    <2>4. \A q \in Pass : \E these \in SUBSET Loop : passes'[q] \in RowsOf(these)
      BY <1>1, <1>a2, <2>2, <2>3 DEF ReadSchedules, LoopsTypeOK
    <2> QED
      BY <1>1, <1>2, <1>a2, <2>4 DEF ReadSchedules, LoopsTypeOK, PoolTypeOK, poolVars
  <1>a3. ASSUME NEW p \in Pass, NEW payload \in [Claims(p) -> {"items", "none"}],
        ClaimSchedules(p, payload) PROVE LoopsTypeOK'
    <2>1. Extends(runs', runs)
      BY <1>1, <1>a3, StartedExtends DEF ClaimSchedules
    <2>2. runs' \in Seq(LoopRun) /\ DOMAIN runs \subseteq DOMAIN runs'
      BY <1>2, <2>1 DEF Extends
    <2>3. PICK these \in SUBSET Loop : passes[p] \in RowsOf(these)
      BY <1>1, <1>a3 DEF LoopsTypeOK
    <2>4. \A l \in Claims(p) : passes[p].read[l] \in OccurrenceKey
      BY <2>3 DEF RowsOf, Claims
    <2>5. loops' \in [Loop -> Row]
      <3> DEFINE claim(l, on) == [Advanced(l, passes[p].read[l]) EXCEPT !.status = IF l \in on THEN "RUNNING" ELSE @]
      <3>1. loops \in [Loop -> Row] /\ clock \in Nat
        BY <1>1, LoopAssumption DEF LoopsTypeOK
      <3>2. ASSUME NEW l \in Claims(p), l \in Loop PROVE Advanced(l, passes[p].read[l]) \in Row
        <4> DEFINE due == IF l \in CatchUp THEN passes[p].read[l].due + 1 ELSE clock + 1
                   rev == passes[p].read[l].rev + 1
        <4>1. due \in Nat /\ rev \in Nat /\ loops[l] \in Row
          BY <2>4, <3>1, <3>2 DEF OccurrenceKey
        <4> HIDE DEF due, rev
        <4>2. [loops[l] EXCEPT !.due = due, !.rev = rev] \in Row
          BY <4>1 DEF Row
        <4> QED
          BY <4>2 DEF Advanced, due, rev
      <3>3. ASSUME NEW l \in Claims(p), l \in Loop, NEW on PROVE claim(l, on) \in Row
        BY <3>2, <3>3 DEF Row, LoopStatus
      <3> HIDE DEF claim
      <3>4. PICK running : loops' = [l \in Loop |-> IF l \notin Claims(p) THEN loops[l] ELSE claim(l, running)]
        BY <1>a3 DEF ClaimSchedules, claim
      <3> QED
        BY <3>1, <3>3, <3>4
    <2>6. claimed' \in [Loop -> Seq(Nat)]
      BY <1>1, <1>a3, <2>4 DEF ClaimSchedules, LoopsTypeOK, OccurrenceKey
    <2>7. ASSUME NEW q \in Pass PROVE \E some \in SUBSET Loop : passes'[q] \in RowsOf(some)
      <3>1. CASE q = p
        <4>1. passes'[q] = Idle /\ Idle \in RowsOf({})
          BY <1>a3, <3>1 DEF ClaimSchedules, Idle, RowsOf
        <4> QED
          BY <4>1
      <3>2. CASE q # p
        <4>1. PICK some \in SUBSET Loop : passes[q] \in RowsOf(some)
          BY <1>1 DEF LoopsTypeOK
        <4>2. passes'[q] \in RowsOf(some)
          BY <1>a3, <3>2, <4>1 DEF ClaimSchedules, RowsOf
        <4> QED
          BY <4>2
      <3> QED
        BY <3>1, <3>2
    <2>8. DOMAIN passes' = Pass /\ UNCHANGED <<poolVars, clock, taskRuns, commands>>
      BY <1>a3 DEF ClaimSchedules
    <2> QED
      BY <1>1, <1>2, <2>2, <2>5, <2>6, <2>7, <2>8 DEF LoopsTypeOK, PoolTypeOK, poolVars
  <1>a4. ASSUME NEW l \in Loop, Enable(l) PROVE LoopsTypeOK'
    <2>1. /\ loops' \in [Loop -> Row] /\ DOMAIN passes' = Pass
          /\ \A p \in Pass : \E these \in SUBSET Loop : passes'[p] \in RowsOf(these)
      <3>1. "IDLE" \in LoopStatus /\ TRUE \in BOOLEAN
        BY DEF LoopStatus
      <3> QED
        BY <1>1, <1>a4, <3>1, SetLoopIsTyped DEF Enable
    <2> QED
      BY <1>1, <1>2, <1>a4, <2>1, LoopAssumption DEF Enable, Command, LoopsTypeOK, PoolTypeOK, poolVars
  <1>a5. ASSUME NEW l \in Loop, Disable(l) PROVE LoopsTypeOK'
    <2>1. /\ loops' \in [Loop -> Row] /\ DOMAIN passes' = Pass
          /\ \A p \in Pass : \E these \in SUBSET Loop : passes'[p] \in RowsOf(these)
      <3>1. "DISABLED" \in LoopStatus /\ FALSE \in BOOLEAN
        BY DEF LoopStatus
      <3> QED
        BY <1>1, <1>a5, <3>1, SetLoopIsTyped DEF Disable
    <2> QED
      BY <1>1, <1>2, <1>a5, <2>1, LoopAssumption DEF Disable, Command, LoopsTypeOK, PoolTypeOK, poolVars
  <1>a6. ASSUME NEW l \in Loop, Pause(l) PROVE LoopsTypeOK'
    <2>1. runs' \in Seq(LoopRun) /\ DOMAIN runs' = DOMAIN runs
      BY <1>1, <1>a6, MovedIsTyped DEF Pause, LoopRunStatus, Resumable
    <2>2. /\ loops' \in [Loop -> Row] /\ DOMAIN passes' = Pass
          /\ \A p \in Pass : \E these \in SUBSET Loop : passes'[p] \in RowsOf(these)
      <3>1. loops[l].enabled \in BOOLEAN /\ "PAUSED" \in LoopStatus
        BY <1>1, <1>a6 DEF LoopsTypeOK, Row, LoopStatus
      <3> QED
        BY <1>1, <1>a6, <3>1, SetLoopIsTyped DEF Pause
    <2> QED
      BY <1>1, <1>2, <1>a6, <2>1, <2>2, LoopAssumption DEF Pause, Command, LoopsTypeOK, PoolTypeOK, poolVars
  <1>a7. ASSUME NEW l \in Loop, Resume(l) PROVE LoopsTypeOK'
    <2>1. runs' \in Seq(LoopRun) /\ DOMAIN runs' = DOMAIN runs
      BY <1>1, <1>a7, MovedIsTyped DEF Resume, LoopRunStatus, Resumable
    <2>2. /\ loops' \in [Loop -> Row] /\ DOMAIN passes' = Pass
          /\ \A p \in Pass : \E these \in SUBSET Loop : passes'[p] \in RowsOf(these)
      <3>1. loops[l].enabled \in BOOLEAN /\ "IDLE" \in LoopStatus
        BY <1>1, <1>a7 DEF LoopsTypeOK, Row, LoopStatus
      <3> QED
        BY <1>1, <1>a7, <3>1, SetLoopIsTyped DEF Resume
    <2> QED
      BY <1>1, <1>2, <1>a7, <2>1, <2>2, LoopAssumption DEF Resume, Command, LoopsTypeOK, PoolTypeOK, poolVars
  <1>a8. ASSUME NEW i \in DOMAIN runs, Kill(i) PROVE LoopsTypeOK'
    <2>1. PoolTypeOK'
      BY <1>1, <1>2, <1>a8, CancelKeepsTypes DEF Kill
    <2>2. taskRuns' \in Seq(TaskRun) /\ DOMAIN taskRuns' = DOMAIN taskRuns
          /\ \A t \in DOMAIN taskRuns : taskRuns'[t].run = taskRuns[t].run /\ taskRuns'[t].lease = taskRuns[t].lease
      BY <1>1, <1>a8, EndedIsTyped DEF Kill
    <2>3. runs' \in Seq(LoopRun) /\ DOMAIN runs' = DOMAIN runs
      <3>1. runs' \in [1 .. Len(runs) -> LoopRun]
        BY <1>2, <1>a8 DEF Kill, LoopRun, LoopRunStatus, RunStatus, Closed
      <3> QED
        BY <1>2, <3>1, IsSequence
    <2>4. DOMAIN leases' = DOMAIN leases
      BY <1>2, <1>a8, CancelledIsLog DEF Kill, Cancel
    <2>5. UNCHANGED <<loops, clock, passes, claimed>> /\ commands' \in 0 .. MaxCommands
      BY <1>1, <1>a8, LoopAssumption DEF Kill, Command, LoopsTypeOK
    <2>6. \A t \in DOMAIN taskRuns' : taskRuns'[t].run \in DOMAIN runs' /\ taskRuns'[t].lease \in {NoLease} \cup DOMAIN leases'
      BY <1>1, <2>2, <2>3, <2>4 DEF LoopsTypeOK
    <2> QED
      BY <1>1, <2>1, <2>2, <2>3, <2>5, <2>6 DEF LoopsTypeOK
  <1>a9. ASSUME NEW r \in Runner, NEW health \in HealthSetting, OperatorSetsHealth(r, health) PROVE LoopsTypeOK'
    <2>1. PoolTypeOK'
      BY <1>2, <1>a9, LoopAssumption DEF OperatorSetsHealth, SetHealth, PoolTypeOK, RunnerState
    <2> QED
      BY <1>1, <1>2, <1>a9, <2>1, LoopAssumption DEF OperatorSetsHealth, SetHealth, Command, LoopsTypeOK
  <1>a10. ASSUME NEW i \in DOMAIN runs, StartRun(i) PROVE LoopsTypeOK'
    <2>1. runs' \in Seq(LoopRun) /\ DOMAIN runs' = DOMAIN runs
      <3>1. runs' \in [1 .. Len(runs) -> LoopRun]
        BY <1>2, <1>a10 DEF StartRun, SetSched, LoopRun, RunStatus
      <3> QED
        BY <1>2, <3>1, IsSequence
    <2> QED
      BY <1>1, <1>2, <1>a10, <2>1 DEF StartRun, SetSched, LoopsTypeOK, PoolTypeOK, poolVars
  <1>a11. ASSUME NEW i \in DOMAIN runs, EndRun(i) PROVE LoopsTypeOK'
    <2>1. runs' \in Seq(LoopRun) /\ DOMAIN runs' = DOMAIN runs
      <3>1. runs' \in [1 .. Len(runs) -> LoopRun]
        BY <1>2, <1>a11 DEF EndRun, SetSched, LoopRun, RunStatus
      <3> QED
        BY <1>2, <3>1, IsSequence
    <2> QED
      BY <1>1, <1>2, <1>a11, <2>1 DEF EndRun, SetSched, LoopsTypeOK, PoolTypeOK, poolVars
  <1>a12. ASSUME NEW i \in DOMAIN runs, Claim(i) PROVE LoopsTypeOK'
    <2>1. NewTaskRun(i) \in TaskRun /\ NewTaskRun(i).run = i /\ NewTaskRun(i).lease = NoLease
      BY <1>2, <1>a12 DEF NewTaskRun, TaskRun, NoLease
    <2> QED
      BY <1>1, <1>2, <1>a12, <2>1 DEF Claim, LoopsTypeOK, PoolTypeOK, poolVars
  <1>a13. ASSUME NEW t \in DOMAIN taskRuns, Rank(t) PROVE LoopsTypeOK'
    <2>1. PICK new : /\ taskRuns' = [taskRuns EXCEPT ![t] = new]
                     /\ \/ \E r \in Runner : new = [taskRuns[t] EXCEPT !.at = "ranked", !.runner = r]
                        \/ new = [taskRuns[t] EXCEPT !.status = "OVER", !.at = "gone"]
      BY <1>a13 DEF Rank, Refuse, Eligible
    <2>2. taskRuns[t] \in TaskRun
      BY <1>2, <1>a13
    <2>3. new \in TaskRun /\ new.run = taskRuns[t].run /\ new.lease = taskRuns[t].lease
      BY <2>1, <2>2 DEF TaskRun
    <2>4. /\ taskRuns' \in Seq(TaskRun) /\ DOMAIN taskRuns' = DOMAIN taskRuns
          /\ \A u \in DOMAIN taskRuns : taskRuns'[u] = IF u = t THEN new ELSE taskRuns[u]
      BY <1>1, <1>a13, <2>1, <2>3, ChangedTaskRun
    <2>5. \A u \in DOMAIN taskRuns : taskRuns'[u].run = taskRuns[u].run /\ taskRuns'[u].lease = taskRuns[u].lease
      BY <2>3, <2>4
    <2>6. PoolTypeOK' /\ DOMAIN leases' = DOMAIN leases /\ UNCHANGED <<loops, clock, passes, runs, claimed, commands>>
      BY <1>2, <1>a13 DEF Rank, PoolTypeOK, poolVars
    <2> QED
      BY <1>1, <2>4, <2>5, <2>6, TypesFollow
  <1>a14. ASSUME NEW t \in DOMAIN taskRuns, Dispatch(t) PROVE LoopsTypeOK'
    <2> DEFINE w == taskRuns[t].runner
               works == [taskRuns[t] EXCEPT !.status = "RUNNING", !.at = "working", !.lease = Len(leases) + 1]
               refused == [taskRuns[t] EXCEPT !.status = "OVER", !.at = "gone"]
    <2>1. /\ w \in Runner /\ taskRuns[t].at = "ranked" /\ t \in Nat /\ taskRuns[t] \in TaskRun
          /\ UNCHANGED <<loops, clock, passes, runs, claimed, commands>>
      BY <1>2, <1>3, <1>a14 DEF Dispatch, LeasesHaveOwners
    <2>2. /\ works \in TaskRun /\ works.run = taskRuns[t].run /\ works.lease = Len(leases) + 1
          /\ refused \in TaskRun /\ refused.run = taskRuns[t].run /\ refused.lease = taskRuns[t].lease
      <3>1. Len(leases) + 1 \in Nat
        BY <1>2
      <3>2. works \in TaskRun /\ works.run = taskRuns[t].run /\ works.lease = Len(leases) + 1
        BY <2>1, <3>1 DEF TaskRun
      <3>3. refused \in TaskRun /\ refused.run = taskRuns[t].run /\ refused.lease = taskRuns[t].lease
        BY <2>1 DEF TaskRun
      <3> QED
        BY <3>2, <3>3
    <2> HIDE DEF works, refused
    <2>3. CASE /\ Reserve(t, w, 1)
               /\ taskRuns' = [taskRuns EXCEPT ![t] = works]
      <3>1. PoolTypeOK' /\ Len(leases') = Len(leases) + 1
        BY <1>2, <2>1, <2>3, ReserveKeepsTypes
      <3>2. DOMAIN leases' = 1 .. Len(leases) + 1
        BY <3>1 DEF PoolTypeOK
      <3>3. /\ taskRuns' \in Seq(TaskRun) /\ DOMAIN taskRuns' = DOMAIN taskRuns
            /\ \A u \in DOMAIN taskRuns : taskRuns'[u] = IF u = t THEN works ELSE taskRuns[u]
        BY <1>1, <2>2, <2>3, ChangedTaskRun
      <3>4. Len(leases) + 1 \in DOMAIN leases' /\ DOMAIN leases \subseteq DOMAIN leases'
        BY <1>2, <3>2
      <3>5. \A u \in DOMAIN taskRuns :
               /\ taskRuns'[u].run = taskRuns[u].run
               /\ taskRuns'[u].lease = taskRuns[u].lease \/ taskRuns'[u].lease \in DOMAIN leases'
        BY <2>2, <3>3, <3>4
      <3> QED
        BY <1>1, <2>1, <3>1, <3>3, <3>4, <3>5, TypesFollow
    <2>4. CASE /\ pool' = [pool EXCEPT ![w] = Lowered(Raised(@, 1), 1)]
               /\ leases' = Append(leases, Granted(t, w)) /\ share' = Append(share, "returned")
               /\ UNCHANGED <<again, short>>
               /\ taskRuns' = [taskRuns EXCEPT ![t] = refused]
      <3>1. PoolTypeOK' /\ Len(leases') = Len(leases) + 1
        BY <1>2, <2>1, <2>4, AppendKeepsTypes
      <3>2. DOMAIN leases' = 1 .. Len(leases) + 1
        BY <3>1 DEF PoolTypeOK
      <3>3. /\ taskRuns' \in Seq(TaskRun) /\ DOMAIN taskRuns' = DOMAIN taskRuns
            /\ \A u \in DOMAIN taskRuns : taskRuns'[u] = IF u = t THEN refused ELSE taskRuns[u]
        BY <1>1, <2>2, <2>4, ChangedTaskRun
      <3>4. DOMAIN leases \subseteq DOMAIN leases'
        BY <1>2, <3>2
      <3>5. \A u \in DOMAIN taskRuns :
               taskRuns'[u].run = taskRuns[u].run /\ taskRuns'[u].lease = taskRuns[u].lease
        BY <2>2, <3>3
      <3> QED
        BY <1>1, <2>1, <3>1, <3>3, <3>4, <3>5, TypesFollow
    <2>5. CASE UNCHANGED poolVars /\ taskRuns' = [taskRuns EXCEPT ![t] = refused]
      <3>1. /\ taskRuns' \in Seq(TaskRun) /\ DOMAIN taskRuns' = DOMAIN taskRuns
            /\ \A u \in DOMAIN taskRuns : taskRuns'[u] = IF u = t THEN refused ELSE taskRuns[u]
        BY <1>1, <2>2, <2>5, ChangedTaskRun
      <3>2. \A u \in DOMAIN taskRuns :
               taskRuns'[u].run = taskRuns[u].run /\ taskRuns'[u].lease = taskRuns[u].lease
        BY <2>2, <3>1
      <3>3. PoolTypeOK' /\ DOMAIN leases \subseteq DOMAIN leases'
        BY <1>2, <2>5 DEF PoolTypeOK, poolVars
      <3> QED
        BY <1>1, <2>1, <3>1, <3>2, <3>3, TypesFollow
    <2> QED
      BY <1>a14, <2>3, <2>4, <2>5 DEF Dispatch, Refuse, works, refused
  <1>a15. ASSUME NEW t \in DOMAIN taskRuns, EndTask(t) PROVE LoopsTypeOK'
    <2> DEFINE new == [taskRuns[t] EXCEPT !.status = "OVER", !.at = "ended"]
    <2>1. new \in TaskRun /\ new.run = taskRuns[t].run /\ new.lease = taskRuns[t].lease
      BY <1>2, <1>a15 DEF TaskRun
    <2>2. taskRuns' = [taskRuns EXCEPT ![t] = new]
      BY <1>a15 DEF EndTask
    <2> HIDE DEF new
    <2>3. /\ taskRuns' \in Seq(TaskRun) /\ DOMAIN taskRuns' = DOMAIN taskRuns
          /\ \A u \in DOMAIN taskRuns : taskRuns'[u] = IF u = t THEN new ELSE taskRuns[u]
      BY <1>1, <1>a15, <2>1, <2>2, ChangedTaskRun
    <2>4. \A u \in DOMAIN taskRuns : taskRuns'[u].run = taskRuns[u].run /\ taskRuns'[u].lease = taskRuns[u].lease
      BY <2>1, <2>3
    <2>5. PoolTypeOK' /\ DOMAIN leases' = DOMAIN leases /\ UNCHANGED <<loops, clock, passes, runs, claimed, commands>>
      BY <1>2, <1>a15 DEF EndTask, PoolTypeOK, poolVars
    <2> QED
      BY <1>1, <2>3, <2>4, <2>5, TypesFollow
  <1>a16. ASSUME NEW t \in DOMAIN taskRuns, ReturnLease(t) PROVE LoopsTypeOK'
    <2>1. /\ taskRuns' = [taskRuns EXCEPT ![t].at = "gone"] /\ UNCHANGED <<loops, clock, passes, runs, claimed, commands>>
      BY <1>a16 DEF ReturnLease
    <2>2. taskRuns' \in Seq(TaskRun) /\ DOMAIN taskRuns' = DOMAIN taskRuns
      <3>1. taskRuns' \in [1 .. Len(taskRuns) -> TaskRun]
        BY <1>2, <2>1 DEF TaskRun
      <3> QED
        BY <1>2, <3>1, IsSequence
    <2>3. \A u \in DOMAIN taskRuns : taskRuns'[u].run = taskRuns[u].run /\ taskRuns'[u].lease = taskRuns[u].lease
      BY <1>2, <2>1 DEF TaskRun
    <2>4. taskRuns[t].lease \in DOMAIN leases
      BY <1>1, <1>3, <1>a16 DEF ReturnLease, LoopsTypeOK, LeasesHaveOwners
    <2>5. PoolTypeOK' /\ leases' = leases
      BY <1>2, <1>a16, <2>4, ReturnKeepsTypes DEF ReturnLease, Return, PoolTypeOK, poolVars
    <2> QED
      BY <1>1, <2>1, <2>2, <2>3, <2>5 DEF LoopsTypeOK
  <1>a17. ASSUME NEW t \in DOMAIN taskRuns, ExpireLease(t) PROVE LoopsTypeOK'
    <2>1. taskRuns[t].lease \in DOMAIN leases
      BY <1>1, <1>3, <1>a17 DEF ExpireLease, LoopsTypeOK, LeasesHaveOwners
    <2>2. leases' \in Seq(DispatchLog) /\ DOMAIN leases' = DOMAIN leases
      <3>1. leases' \in [1 .. Len(leases) -> DispatchLog]
        BY <1>2, <1>a17, <2>1 DEF ExpireLease, Expire, DispatchLog
      <3> QED
        BY <1>2, <3>1, IsSequence
    <2> QED
      BY <1>1, <1>a17, <2>2 DEF ExpireLease, Expire, LoopsTypeOK, PoolTypeOK
  <1>a18. ASSUME Die PROVE LoopsTypeOK'
    <2>1. [u \in DOMAIN taskRuns |-> [taskRuns[u] EXCEPT !.at = "gone"]] \in [1 .. Len(taskRuns) -> TaskRun]
      BY <1>2 DEF TaskRun
    <2>2. taskRuns' \in Seq(TaskRun) /\ DOMAIN taskRuns' = DOMAIN taskRuns
      <3>1. taskRuns' \in [1 .. Len(taskRuns) -> TaskRun]
        BY <1>2, <1>a18, <2>1, IsSequence DEF Die
      <3> QED
        BY <1>2, <3>1, IsSequence
    <2>3. \A u \in DOMAIN taskRuns : taskRuns'[u].run = taskRuns[u].run /\ taskRuns'[u].lease = taskRuns[u].lease
      BY <1>2, <1>a18 DEF Die, TaskRun
    <2>4. Idle \in RowsOf({})
      BY DEF Idle, RowsOf
    <2>5. DOMAIN passes' = Pass /\ \A p \in Pass : \E these \in SUBSET Loop : passes'[p] \in RowsOf(these)
      BY <1>a18, <2>4 DEF Die
    <2> QED
      BY <1>1, <1>a18, <2>2, <2>3, <2>5 DEF Die, LoopsTypeOK, PoolTypeOK, poolVars
  <1>a19. ASSUME Recover PROVE LoopsTypeOK'
    <2>1. PICK lost, left : \/ UNCHANGED poolVars
                            \/ CancelAndRecount(lost, left)
      BY <1>a19 DEF Recover
    <2>2. PoolTypeOK' /\ DOMAIN leases' = DOMAIN leases
      BY <1>2, <2>1, RecountKeepsTypes, CancelledIsLog DEF CancelAndRecount, PoolTypeOK, poolVars
    <2>3. PICK set : taskRuns' = Ended(set)
      BY <1>a19 DEF Recover
    <2>4. taskRuns' \in Seq(TaskRun) /\ DOMAIN taskRuns' = DOMAIN taskRuns
          /\ \A t \in DOMAIN taskRuns : taskRuns'[t].run = taskRuns[t].run /\ taskRuns'[t].lease = taskRuns[t].lease
      BY <1>1, <2>3, EndedIsTyped
    <2>5. PICK failed, followed : /\ \A i \in followed : runs[i].sched \in Closed
                                  /\ runs' = [i \in DOMAIN runs |->
                                        IF i \in failed THEN [runs[i] EXCEPT !.status = "FAILED", !.sched = "FAILED"]
                                        ELSE IF i \in followed THEN [runs[i] EXCEPT !.status = runs[i].sched]
                                        ELSE runs[i]]
      <3> DEFINE running == {i \in DOMAIN runs : runs[i].status = "RUNNING"}
                 orphans == {i \in running : runs[i].sched \notin Closed}
      <3>1. PICK failed : runs' = [i \in DOMAIN runs |->
                                        IF i \in failed THEN [runs[i] EXCEPT !.status = "FAILED", !.sched = "FAILED"]
                                        ELSE IF i \in running \ orphans THEN [runs[i] EXCEPT !.status = runs[i].sched]
                                        ELSE runs[i]]
        BY <1>a19 DEF Recover
      <3>2. \A i \in running \ orphans : runs[i].sched \in Closed
        OBVIOUS
      <3> HIDE DEF running, orphans
      <3> QED
        BY <3>1, <3>2
    <2>6. runs' \in [1 .. Len(runs) -> LoopRun]
      BY <1>2, <2>5 DEF LoopRun, LoopRunStatus, RunStatus, Closed
    <2>7. runs' \in Seq(LoopRun) /\ DOMAIN runs' = DOMAIN runs
      <3>1. runs' \in [1 .. Len(runs) -> LoopRun]
        BY <1>2, <2>6, IsSequence
      <3> QED
        BY <1>2, <3>1, IsSequence
    <2>8. UNCHANGED <<loops, clock, passes, claimed, commands>>
      BY <1>a19 DEF Recover
    <2> QED
      BY <1>1, <2>2, <2>4, <2>7, <2>8 DEF LoopsTypeOK
  <1>a20. ASSUME Tick PROVE LoopsTypeOK'
    BY <1>1, <1>2, LoopAssumption, <1>a20 DEF Tick, LoopsTypeOK, PoolTypeOK, poolVars
  <1> QED
    BY <1>a1, <1>a2, <1>a3, <1>a4, <1>a5, <1>a6, <1>a7, <1>a8, <1>a9, <1>a10, <1>a11, <1>a12, <1>a13, <1>a14, <1>a15, <1>a16, <1>a17, <1>a18, <1>a19, <1>a20 DEF LoopsNext

-----------------------------------------------------------------------------
(***************************************************************************)
(* Claims of occurrences                                                   *)
(***************************************************************************)
LEMMA CalmKeepsClaims ==
    ASSUME ClaimsArePast, OccurrenceClaimedOnce, claimed' = claimed,
           \A l \in Loop : loops'[l].rev = loops[l].rev,
           \A p \in Pass : \A l \in passes'[p].current :
              l \in Loop /\ passes'[p].read[l].rev = loops[l].rev
    PROVE  ClaimsArePast' /\ OccurrenceClaimedOnce'
  BY DEF ClaimsArePast, OccurrenceClaimedOnce

LEMMA TouchKeepsClaims ==
    ASSUME LoopsTypeOK, ClaimsArePast, OccurrenceClaimedOnce, NEW l \in Loop, NEW status \in LoopStatus,
           NEW enabled \in BOOLEAN, SetLoop(l, status, enabled), claimed' = claimed
    PROVE  ClaimsArePast' /\ OccurrenceClaimedOnce'
  <1>1. \A k \in Loop : loops'[k].rev = loops[k].rev
    BY SetLoopIsTyped
  <1>2. ASSUME NEW p \in Pass, NEW k \in passes'[p].current
        PROVE  k \in Loop /\ passes'[p].read[k].rev = loops[k].rev
    <2>1. PICK these \in SUBSET Loop : passes[p] \in RowsOf(these)
      BY DEF LoopsTypeOK
    <2>2. passes'[p].read = passes[p].read /\ k \in passes[p].current
      BY <1>2, <2>1 DEF SetLoop, Touch, RowsOf
    <2> QED
      BY <2>1, <2>2 DEF ClaimsArePast, RowsOf
  <1> QED
    BY <1>1, <1>2, CalmKeepsClaims

LEMMA ClaimsAreKept ==
    ASSUME LoopsInv, LoopsNext
    PROVE  ClaimsArePast' /\ OccurrenceClaimedOnce'
  <1>1. LoopsTypeOK /\ ClaimsArePast /\ OccurrenceClaimedOnce
    BY DEF LoopsInv
  <1>2. \A p \in Pass : \A l \in passes[p].current : l \in Loop /\ passes[p].read[l].rev = loops[l].rev
    BY <1>1 DEF LoopsTypeOK, RowsOf, ClaimsArePast
  <1>3. ASSUME UNCHANGED <<loops, passes, claimed>> PROVE ClaimsArePast' /\ OccurrenceClaimedOnce'
    BY <1>1, <1>2, <1>3, CalmKeepsClaims
  <1>a1. ASSUME NEW l \in Loop, NEW key \in Event, NEW payload \in {"items", "error"},
        Trigger(l, key, payload) PROVE ClaimsArePast' /\ OccurrenceClaimedOnce'
    <2>1. CASE SetLoop(l, "RUNNING", TRUE)
      <3>1. "RUNNING" \in LoopStatus /\ TRUE \in BOOLEAN
        BY DEF LoopStatus
      <3> QED
        BY <1>1, <1>a1, <2>1, <3>1, TouchKeepsClaims DEF Trigger
    <2>2. CASE UNCHANGED <<loops, passes>>
      BY <1>3, <1>a1, <2>2 DEF Trigger
    <2> QED
      BY <1>a1, <2>1, <2>2 DEF Trigger
  <1>a2. ASSUME NEW p \in Pass, ReadSchedules(p) PROVE ClaimsArePast' /\ OccurrenceClaimedOnce'
    <2>1. ASSUME NEW q \in Pass, NEW l \in passes'[q].current
          PROVE  l \in Loop /\ passes'[q].read[l].rev = loops[l].rev
      <3>1. CASE q = p
        BY <1>1, <1>a2, <2>1, <3>1 DEF ReadSchedules, Schedulable, Occurrence, LoopsTypeOK
      <3>2. CASE q # p
        BY <1>1, <1>2, <1>a2, <2>1, <3>2 DEF ReadSchedules, LoopsTypeOK
      <3> QED
        BY <3>1, <3>2
    <2> QED
      BY <1>1, <1>a2, <2>1, CalmKeepsClaims DEF ReadSchedules
  <1>a3. ASSUME NEW p \in Pass, NEW payload \in [Claims(p) -> {"items", "none"}],
        ClaimSchedules(p, payload) PROVE ClaimsArePast' /\ OccurrenceClaimedOnce'
    <2> DEFINE mine == Claims(p)
               read == passes[p].read
    <2>1. ASSUME NEW l \in mine
          PROVE  l \in Loop /\ read[l].rev = loops[l].rev /\ loops[l].rev \in Nat /\ loops[l] \in Row
      <3>1. l \in passes[p].current
        BY <2>1 DEF Claims, Swaps
      <3>2. l \in Loop /\ read[l].rev = loops[l].rev
        BY <1>2, <3>1
      <3> QED
        BY <1>1, <3>2 DEF LoopsTypeOK, Row
    <2>2. ASSUME NEW l \in mine PROVE loops'[l].rev = loops[l].rev + 1
      <3>1. Advanced(l, read[l]).rev = read[l].rev + 1
        BY <2>1 DEF Advanced, Row
      <3>2. PICK new : loops'[l] = [Advanced(l, read[l]) EXCEPT !.status = new]
        BY <1>a3, <2>1 DEF ClaimSchedules
      <3>3. "rev" \in DOMAIN Advanced(l, read[l])
        BY <2>1 DEF Advanced, Row
      <3>4. loops'[l].rev = Advanced(l, read[l]).rev
        BY <3>2, <3>3
      <3> QED
        BY <2>1, <3>1, <3>4
    <2>3. \A l \in Loop \ mine : loops'[l] = loops[l] /\ claimed'[l] = claimed[l]
      BY <1>1, <1>a3 DEF ClaimSchedules, LoopsTypeOK
    <2>4. \A l \in mine : claimed'[l] = Append(claimed[l], loops[l].rev) /\ claimed[l] \in Seq(Nat)
      BY <1>1, <1>a3, <2>1 DEF ClaimSchedules, LoopsTypeOK
    <2>5. ASSUME NEW q \in Pass, NEW l \in passes'[q].current PROVE passes'[q].read[l].rev = loops'[l].rev
      <3>1. q # p
        BY <1>a3, <2>5 DEF ClaimSchedules, Idle
      <3>2. PICK these \in SUBSET Loop : passes[q] \in RowsOf(these)
        BY <1>1 DEF LoopsTypeOK
      <3>3. passes'[q] = [passes[q] EXCEPT !.current = @ \ mine]
        BY <1>a3, <3>1 DEF ClaimSchedules
      <3>4. passes'[q].read = passes[q].read /\ l \in passes[q].current /\ l \notin mine
        BY <2>5, <3>2, <3>3 DEF RowsOf
      <3> HIDE DEF mine
      <3> QED
        BY <1>2, <2>3, <3>4
    <2> HIDE DEF mine, read
    <2>6. ASSUME NEW l \in Loop, NEW k \in DOMAIN claimed'[l] PROVE claimed'[l][k] < loops'[l].rev
      <3>1. CASE l \in mine
        <4>1. \A i \in DOMAIN claimed[l] : claimed[l][i] < loops[l].rev /\ claimed[l][i] \in Nat
          BY <1>1, <2>4, <3>1 DEF ClaimsArePast
        <4>2. \/ k \in DOMAIN claimed[l] /\ claimed'[l][k] = claimed[l][k]
              \/ claimed'[l][k] = loops[l].rev
          BY <2>4, <2>6, <3>1
        <4> QED
          BY <2>1, <2>2, <3>1, <4>1, <4>2
      <3>2. CASE l \notin mine
        BY <1>1, <2>3, <2>6, <3>2 DEF ClaimsArePast
      <3> QED
        BY <3>1, <3>2
    <2>7. ASSUME NEW l \in Loop, NEW j \in DOMAIN claimed'[l], NEW k \in DOMAIN claimed'[l], j # k
          PROVE  claimed'[l][j] # claimed'[l][k]
      <3>1. CASE l \in mine
        <4>1. \A i \in DOMAIN claimed[l] : claimed[l][i] < loops[l].rev /\ claimed[l][i] \in Nat
          BY <1>1, <2>4, <3>1 DEF ClaimsArePast
        <4>2. loops[l].rev \in Nat
          BY <2>1, <3>1
        <4>3. \A i \in DOMAIN claimed'[l] :
                 \/ i \in DOMAIN claimed[l] /\ claimed'[l][i] = claimed[l][i]
                 \/ i = Len(claimed[l]) + 1 /\ claimed'[l][i] = loops[l].rev
          <5>1. /\ Append(claimed[l], loops[l].rev) \in Seq(Nat)
                /\ \A i \in 1 .. Len(claimed[l]) : Append(claimed[l], loops[l].rev)[i] = claimed[l][i]
                /\ Append(claimed[l], loops[l].rev)[Len(claimed[l]) + 1] = loops[l].rev
                /\ Len(Append(claimed[l], loops[l].rev)) = Len(claimed[l]) + 1
            BY <2>4, <3>1, <4>2
          <5>2. DOMAIN claimed'[l] = 1 .. Len(claimed[l]) + 1 /\ DOMAIN claimed[l] = 1 .. Len(claimed[l]) /\ Len(claimed[l]) \in Nat
            BY <2>4, <3>1, <5>1
          <5> QED
            BY <2>4, <3>1, <5>1, <5>2
        <4> QED
          BY <1>1, <2>7, <4>1, <4>2, <4>3 DEF OccurrenceClaimedOnce
      <3>2. CASE l \notin mine
        BY <1>1, <2>3, <2>7, <3>2 DEF OccurrenceClaimedOnce
      <3> QED
        BY <3>1, <3>2
    <2> QED
      BY <2>5, <2>6, <2>7 DEF ClaimsArePast, OccurrenceClaimedOnce
  <1>a4. ASSUME NEW l \in Loop, Enable(l) PROVE ClaimsArePast' /\ OccurrenceClaimedOnce'
    <2>1. "IDLE" \in LoopStatus /\ TRUE \in BOOLEAN
      BY <1>1 DEF LoopStatus, LoopsTypeOK, Row
    <2> QED
      BY <1>1, <1>a4, <2>1, TouchKeepsClaims DEF Enable
  <1>a5. ASSUME NEW l \in Loop, Disable(l) PROVE ClaimsArePast' /\ OccurrenceClaimedOnce'
    <2>1. "DISABLED" \in LoopStatus /\ FALSE \in BOOLEAN
      BY <1>1 DEF LoopStatus, LoopsTypeOK, Row
    <2> QED
      BY <1>1, <1>a5, <2>1, TouchKeepsClaims DEF Disable
  <1>a6. ASSUME NEW l \in Loop, Pause(l) PROVE ClaimsArePast' /\ OccurrenceClaimedOnce'
    <2>1. "PAUSED" \in LoopStatus /\ loops[l].enabled \in BOOLEAN
      BY <1>1 DEF LoopStatus, LoopsTypeOK, Row
    <2> QED
      BY <1>1, <1>a6, <2>1, TouchKeepsClaims DEF Pause
  <1>a7. ASSUME NEW l \in Loop, Resume(l) PROVE ClaimsArePast' /\ OccurrenceClaimedOnce'
    <2>1. "IDLE" \in LoopStatus /\ loops[l].enabled \in BOOLEAN
      BY <1>1 DEF LoopStatus, LoopsTypeOK, Row
    <2> QED
      BY <1>1, <1>a7, <2>1, TouchKeepsClaims DEF Resume
  <1>a8. ASSUME NEW i \in DOMAIN runs, Kill(i) PROVE ClaimsArePast' /\ OccurrenceClaimedOnce'
    BY <1>3, <1>a8 DEF Kill, Command
  <1>a9. ASSUME NEW r \in Runner, NEW health \in HealthSetting, OperatorSetsHealth(r, health) PROVE ClaimsArePast' /\ OccurrenceClaimedOnce'
    BY <1>3, <1>a9 DEF OperatorSetsHealth, Command, SetHealth
  <1>a10. ASSUME NEW i \in DOMAIN runs, StartRun(i) PROVE ClaimsArePast' /\ OccurrenceClaimedOnce'
    BY <1>3, <1>a10 DEF StartRun, SetSched
  <1>a11. ASSUME NEW i \in DOMAIN runs, EndRun(i) PROVE ClaimsArePast' /\ OccurrenceClaimedOnce'
    BY <1>3, <1>a11 DEF EndRun, SetSched
  <1>a12. ASSUME NEW i \in DOMAIN runs, Claim(i) PROVE ClaimsArePast' /\ OccurrenceClaimedOnce'
    BY <1>3, <1>a12 DEF Claim, NewTaskRun
  <1>a13. ASSUME NEW t \in DOMAIN taskRuns, Rank(t) PROVE ClaimsArePast' /\ OccurrenceClaimedOnce'
    BY <1>3, <1>a13 DEF Rank, Refuse
  <1>a14. ASSUME NEW t \in DOMAIN taskRuns, Dispatch(t) PROVE ClaimsArePast' /\ OccurrenceClaimedOnce'
    BY <1>3, <1>a14 DEF Dispatch, Refuse
  <1>a15. ASSUME NEW t \in DOMAIN taskRuns, EndTask(t) PROVE ClaimsArePast' /\ OccurrenceClaimedOnce'
    BY <1>3, <1>a15 DEF EndTask
  <1>a16. ASSUME NEW t \in DOMAIN taskRuns, ReturnLease(t) PROVE ClaimsArePast' /\ OccurrenceClaimedOnce'
    BY <1>3, <1>a16 DEF ReturnLease
  <1>a17. ASSUME NEW t \in DOMAIN taskRuns, ExpireLease(t) PROVE ClaimsArePast' /\ OccurrenceClaimedOnce'
    BY <1>3, <1>a17 DEF ExpireLease, Expire
  <1>a18. ASSUME Die PROVE ClaimsArePast' /\ OccurrenceClaimedOnce'
    <2>1. \A p \in Pass : passes'[p].current = {}
      BY <1>a18 DEF Die, Idle
    <2> QED
      BY <1>1, <1>a18, <2>1, CalmKeepsClaims DEF Die
  <1>a19. ASSUME Recover PROVE ClaimsArePast' /\ OccurrenceClaimedOnce'
    BY <1>3, <1>a19 DEF Recover
  <1>a20. ASSUME Tick PROVE ClaimsArePast' /\ OccurrenceClaimedOnce'
    BY <1>3, <1>a20 DEF Tick
  <1> QED
    BY <1>a1, <1>a2, <1>a3, <1>a4, <1>a5, <1>a6, <1>a7, <1>a8, <1>a9, <1>a10, <1>a11, <1>a12, <1>a13, <1>a14, <1>a15, <1>a16, <1>a17, <1>a18, <1>a19, <1>a20 DEF LoopsNext

-----------------------------------------------------------------------------
(***************************************************************************)
(* Leases and their task runs                                               *)
(***************************************************************************)
Dispatched == {"working", "ended", "gone"}

\* A step that writes at most one task run, and of that neither lease nor life anew.
LEMMA TaskRunsFollow ==
    ASSUME LoopsTypeOK, LeasesHaveOwners, NEW t \in DOMAIN taskRuns,
           Rank(t) \/ EndTask(t) \/ ReturnLease(t) \/ (Refuse(t) /\ taskRuns[t].at = "ranked")
    PROVE  /\ DOMAIN taskRuns' = DOMAIN taskRuns
           /\ \A u \in DOMAIN taskRuns :
                 /\ taskRuns'[u].lease = taskRuns[u].lease
                 /\ taskRuns'[u].status = "RUNNING" => taskRuns[u].status = "RUNNING"
                 /\ taskRuns[u].at \in Dispatched => taskRuns'[u].at \in Dispatched
                 /\ taskRuns'[u].at = "ranked" => taskRuns'[u].runner \in Runner
                 /\ taskRuns'[u].at \in {"working", "ended"} => taskRuns[u].at \in {"working", "ended"}
                 /\ taskRuns'[u].at = "ended" => taskRuns'[u].status = "OVER"
  <1> DEFINE Fits(old, new) ==
               /\ new.lease = old.lease
               /\ new.status = "RUNNING" => old.status = "RUNNING"
               /\ old.at \in Dispatched => new.at \in Dispatched
               /\ new.at = "ranked" => new.runner \in Runner
               /\ new.at \in {"working", "ended"} => old.at \in {"working", "ended"}
               /\ new.at = "ended" => new.status = "OVER"
  <1>1. taskRuns[t] \in TaskRun
    BY RowsAreTyped
  <1>2. \A u \in DOMAIN taskRuns : Fits(taskRuns[u], taskRuns[u])
    BY DEF LeasesHaveOwners
  <1>3. PICK new \in TaskRun : taskRuns' = [taskRuns EXCEPT ![t] = new] /\ Fits(taskRuns[t], new)
    <2>1. CASE Refuse(t) /\ taskRuns[t].at \in {"claimed", "ranked"}
      <3> DEFINE new == [taskRuns[t] EXCEPT !.status = "OVER", !.at = "gone"]
      <3>1. new \in TaskRun /\ Fits(taskRuns[t], new)
        BY <1>1, <2>1 DEF TaskRun, Dispatched
      <3> QED
        BY <2>1, <3>1 DEF Refuse
    <2>2. CASE EndTask(t)
      <3> DEFINE new == [taskRuns[t] EXCEPT !.status = "OVER", !.at = "ended"]
      <3>1. new \in TaskRun /\ Fits(taskRuns[t], new)
        BY <1>1, <2>2 DEF TaskRun, Dispatched, EndTask
      <3> QED
        BY <2>2, <3>1 DEF EndTask
    <2>3. CASE ReturnLease(t)
      <3> DEFINE new == [taskRuns[t] EXCEPT !.at = "gone"]
      <3>1. new \in TaskRun /\ Fits(taskRuns[t], new)
        BY <1>1, <2>3 DEF TaskRun, Dispatched, ReturnLease
      <3>2. taskRuns' = [taskRuns EXCEPT ![t] = new]
        BY <2>3 DEF ReturnLease
      <3> QED
        BY <3>1, <3>2
    <2>4. ASSUME NEW r \in Runner, taskRuns[t].at = "claimed",
                 taskRuns' = [taskRuns EXCEPT ![t] = [@ EXCEPT !.at = "ranked", !.runner = r]]
          PROVE  \E new \in TaskRun : taskRuns' = [taskRuns EXCEPT ![t] = new] /\ Fits(taskRuns[t], new)
      <3> DEFINE new == [taskRuns[t] EXCEPT !.at = "ranked", !.runner = r]
      <3>1. new \in TaskRun /\ Fits(taskRuns[t], new)
        BY <1>1, <2>4 DEF TaskRun, Dispatched
      <3> QED
        BY <2>4, <3>1
    <2>5. CASE Rank(t)
      <3>1. taskRuns[t].at = "claimed" /\ Eligible \subseteq Runner
        BY <2>5 DEF Rank, Eligible
      <3>2. CASE Refuse(t)
        BY <2>1, <3>1, <3>2
      <3>3. CASE ~Refuse(t)
        <4>1. PICK r \in Runner : taskRuns' = [taskRuns EXCEPT ![t] = [@ EXCEPT !.at = "ranked", !.runner = r]]
          BY <2>5, <3>1, <3>3 DEF Rank
        <4> QED
          BY <2>4, <3>1, <4>1
      <3> QED
        BY <3>2, <3>3
    <2> QED
      BY <2>1, <2>2, <2>3, <2>5
  <1>4. /\ DOMAIN taskRuns' = DOMAIN taskRuns
        /\ \A u \in DOMAIN taskRuns : taskRuns'[u] = IF u = t THEN new ELSE taskRuns[u]
    BY <1>3, ChangedTaskRun
  <1>5. \A u \in DOMAIN taskRuns : Fits(taskRuns[u], taskRuns'[u])
    <2> HIDE DEF Fits
    <2> QED
      BY <1>2, <1>3, <1>4
  <1> QED
    BY <1>4, <1>5

\* The log keeps who its leases were granted to.
SameOwners == DOMAIN leases' = DOMAIN leases /\ \A l \in DOMAIN leases : leases'[l].taskRun = leases[l].taskRun

LEMMA OwnersStay ==
    ASSUME LoopsTypeOK, LeasesHaveOwners, SameOwners, DOMAIN taskRuns' = DOMAIN taskRuns,
           \A u \in DOMAIN taskRuns :
              /\ taskRuns'[u].lease = taskRuns[u].lease
              /\ taskRuns[u].at \in Dispatched => taskRuns'[u].at \in Dispatched
              /\ taskRuns'[u].at = "ranked" => taskRuns'[u].runner \in Runner
              /\ taskRuns'[u].at \in {"working", "ended"} => taskRuns[u].at \in {"working", "ended"}
              /\ taskRuns'[u].at = "ended" => taskRuns'[u].status = "OVER"
    PROVE  LeasesHaveOwners'
  <1>1. \A l \in DOMAIN leases' : /\ leases'[l].taskRun \in DOMAIN taskRuns'
                                  /\ taskRuns'[leases'[l].taskRun].at \in Dispatched
    BY DEF LeasesHaveOwners, SameOwners, Dispatched
  <1>2. ASSUME NEW u \in DOMAIN taskRuns'
        PROVE  /\ taskRuns'[u].at = "ranked" => taskRuns'[u].runner \in Runner
               /\ taskRuns'[u].at \in {"working", "ended"} => taskRuns'[u].lease # NoLease
               /\ taskRuns'[u].lease # NoLease => leases'[taskRuns'[u].lease].taskRun = u
               /\ taskRuns'[u].at = "ended" => taskRuns'[u].status = "OVER"
    <2>1. u \in DOMAIN taskRuns /\ taskRuns[u].lease \in {NoLease} \cup DOMAIN leases
      BY DEF LoopsTypeOK
    <2> QED
      BY <2>1 DEF LeasesHaveOwners, SameOwners
  <1> QED
    BY <1>1, <1>2 DEF LeasesHaveOwners, Dispatched

LEMMA HoldsStay ==
    ASSUME LoopsTypeOK, LeasesHaveOwners, LivingHoldPlaces, SameOwners,
           \A u \in DOMAIN taskRuns : taskRuns'[u].status = "RUNNING" => taskRuns[u].status = "RUNNING",
           \A l \in DOMAIN leases : leases'[l].status = "SUCCESS" =>
              /\ leases[l].status = "SUCCESS"
              /\ \/ share'[l] = share[l]
                 \/ share'[l] = "held"
                 \/ share'[l] # "cancelled" /\ taskRuns'[leases[l].taskRun].status # "RUNNING"
    PROVE  LivingHoldPlaces'
  <1>1. ASSUME NEW l \in DOMAIN leases', leases'[l].status = "SUCCESS"
        PROVE  /\ share'[l] # "cancelled"
               /\ taskRuns'[leases'[l].taskRun].status = "RUNNING" => share'[l] = "held"
    <2>1. /\ l \in DOMAIN leases /\ leases[l].status = "SUCCESS" /\ leases'[l].taskRun = leases[l].taskRun
          /\ leases[l].taskRun \in DOMAIN taskRuns
      BY <1>1 DEF SameOwners, LeasesHaveOwners
    <2>2. share[l] # "cancelled" /\ (taskRuns[leases[l].taskRun].status = "RUNNING" => share[l] = "held")
      BY <2>1 DEF LivingHoldPlaces
    <2> QED
      BY <1>1, <2>1, <2>2
  <1> QED
    BY <1>1 DEF LivingHoldPlaces

LEMMA LeasesAreKept ==
    ASSUME LoopsInv, LoopsNext
    PROVE  LeasesHaveOwners' /\ LivingHoldPlaces'
  <1>1. LoopsTypeOK /\ LeasesHaveOwners /\ LivingHoldPlaces
    BY DEF LoopsInv
  <1>2. /\ leases \in Seq(DispatchLog) /\ Len(leases) \in Nat /\ DOMAIN leases = 1 .. Len(leases)
        /\ Len(taskRuns) \in Nat /\ DOMAIN taskRuns = 1 .. Len(taskRuns)
        /\ \A t \in DOMAIN taskRuns : taskRuns[t] \in TaskRun
        /\ \A l \in DOMAIN leases : leases[l] \in DispatchLog
    BY <1>1, RowsAreTyped
  <1>3. PoolTypeOK
    BY <1>1, RowsAreTyped
  <1>4. ASSUME UNCHANGED <<leases, share, taskRuns>> PROVE LeasesHaveOwners' /\ LivingHoldPlaces'
    BY <1>1, <1>4 DEF LeasesHaveOwners, LivingHoldPlaces
  <1>a1. ASSUME NEW l \in Loop, NEW key \in Event, NEW payload \in {"items", "error"},
        Trigger(l, key, payload) PROVE LeasesHaveOwners' /\ LivingHoldPlaces'
    BY <1>4, <1>a1 DEF Trigger, SetLoop, Touch, poolVars
  <1>a2. ASSUME NEW p \in Pass, ReadSchedules(p) PROVE LeasesHaveOwners' /\ LivingHoldPlaces'
    BY <1>4, <1>a2 DEF ReadSchedules, poolVars
  <1>a3. ASSUME NEW p \in Pass, NEW payload \in [Claims(p) -> {"items", "none"}],
        ClaimSchedules(p, payload) PROVE LeasesHaveOwners' /\ LivingHoldPlaces'
    BY <1>4, <1>a3 DEF ClaimSchedules, poolVars
  <1>a4. ASSUME NEW l \in Loop, Enable(l) PROVE LeasesHaveOwners' /\ LivingHoldPlaces'
    BY <1>4, <1>a4 DEF Enable, SetLoop, Touch, Command, poolVars
  <1>a5. ASSUME NEW l \in Loop, Disable(l) PROVE LeasesHaveOwners' /\ LivingHoldPlaces'
    BY <1>4, <1>a5 DEF Disable, SetLoop, Touch, Command, poolVars
  <1>a6. ASSUME NEW l \in Loop, Pause(l) PROVE LeasesHaveOwners' /\ LivingHoldPlaces'
    BY <1>4, <1>a6 DEF Pause, SetLoop, Touch, Command, poolVars
  <1>a7. ASSUME NEW l \in Loop, Resume(l) PROVE LeasesHaveOwners' /\ LivingHoldPlaces'
    BY <1>4, <1>a7 DEF Resume, SetLoop, Touch, Command, poolVars
  <1>a8. ASSUME NEW i \in DOMAIN runs, Kill(i) PROVE LeasesHaveOwners' /\ LivingHoldPlaces'
    <2>1. /\ DOMAIN taskRuns' = DOMAIN taskRuns
          /\ \A u \in DOMAIN taskRuns : /\ taskRuns'[u].lease = taskRuns[u].lease
                                        /\ taskRuns'[u].at = taskRuns[u].at
                                        /\ taskRuns'[u].runner = taskRuns[u].runner
                                        /\ taskRuns'[u].status = IF u \in Owned(i) THEN "OVER" ELSE taskRuns[u].status
      BY <1>1, <1>a8, EndedIsTyped DEF Kill
    <2>2. SameOwners
      BY <1>3, <1>a8, CancelledIsLog DEF Kill, Cancel, SameOwners
    <2>3. ASSUME NEW l \in DOMAIN leases, leases'[l].status = "SUCCESS"
          PROVE  leases[l].status = "SUCCESS" /\ share'[l] = share[l]
      <3>1. leases'[l].status = IF l \in Of(Owned(i)) THEN "CANCELLED" ELSE leases[l].status
        BY <1>3, <1>a8, CancelledIsLog DEF Kill, Cancel
      <3>2. l \notin Of(Owned(i))
        BY <2>3, <3>1
      <3> QED
        BY <1>a8, <2>3, <3>1, <3>2 DEF Kill, Cancel, Shares
    <2>4. LeasesHaveOwners'
      BY <1>1, <2>1, <2>2, OwnersStay DEF LeasesHaveOwners
    <2>5. LivingHoldPlaces'
      BY <1>1, <2>1, <2>2, <2>3, HoldsStay
    <2> QED
      BY <2>4, <2>5
  <1>a9. ASSUME NEW r \in Runner, NEW health \in HealthSetting, OperatorSetsHealth(r, health) PROVE LeasesHaveOwners' /\ LivingHoldPlaces'
    BY <1>4, <1>a9 DEF OperatorSetsHealth, Command, SetHealth, poolVars
  <1>a10. ASSUME NEW i \in DOMAIN runs, StartRun(i) PROVE LeasesHaveOwners' /\ LivingHoldPlaces'
    BY <1>4, <1>a10 DEF StartRun, SetSched, poolVars
  <1>a11. ASSUME NEW i \in DOMAIN runs, EndRun(i) PROVE LeasesHaveOwners' /\ LivingHoldPlaces'
    BY <1>4, <1>a11 DEF EndRun, SetSched, poolVars
  <1>a12. ASSUME NEW i \in DOMAIN runs, Claim(i) PROVE LeasesHaveOwners' /\ LivingHoldPlaces'
    <2> DEFINE n == Len(taskRuns)
               new == NewTaskRun(i)
    <2>1. new \in TaskRun
      BY <1>1, <1>a12, RowsAreTyped DEF NewTaskRun, TaskRun, NoLease
    <2>2. taskRuns' \in Seq(TaskRun) /\ Len(taskRuns') = n + 1
          /\ taskRuns'[n + 1] = new /\ \A u \in 1 .. n : taskRuns'[u] = taskRuns[u]
      BY <1>1, <2>1, <1>a12, RowsAreTyped DEF Claim
    <2>3. DOMAIN taskRuns' = 1 .. n + 1 /\ n \in Nat /\ n + 1 \notin DOMAIN taskRuns
      BY <1>2, <2>2
    <2>4. new.at = "claimed" /\ new.lease = NoLease
      BY DEF NewTaskRun
    <2>5. leases' = leases /\ share' = share
      BY <1>a12 DEF Claim, poolVars
    <2> HIDE DEF new, n
    <2>6. \A l \in DOMAIN leases : leases[l].taskRun \in 1 .. n
      BY <1>1, <1>2 DEF LeasesHaveOwners, n
    <2>7. \A u \in DOMAIN taskRuns' : (u \in DOMAIN taskRuns /\ taskRuns'[u] = taskRuns[u]) \/ taskRuns'[u] = new
      BY <1>2, <2>2, <2>3 DEF n
    <2>8. LeasesHaveOwners'
      <3>1. \A l \in DOMAIN leases' : /\ leases'[l].taskRun \in DOMAIN taskRuns'
                                      /\ taskRuns'[leases'[l].taskRun].at \in {"working", "ended", "gone"}
        BY <1>1, <2>2, <2>3, <2>5, <2>6 DEF LeasesHaveOwners
      <3> QED
        BY <1>1, <2>4, <2>5, <2>7, <3>1 DEF LeasesHaveOwners
    <2>9. LivingHoldPlaces'
      BY <1>1, <2>2, <2>5, <2>6 DEF LivingHoldPlaces
    <2> QED
      BY <2>8, <2>9
  <1>a13. ASSUME NEW t \in DOMAIN taskRuns, Rank(t) PROVE LeasesHaveOwners' /\ LivingHoldPlaces'
    <2>1. SameOwners /\ share' = share /\ leases' = leases
      BY <1>a13 DEF Rank, SameOwners, poolVars
    <2>2. LeasesHaveOwners'
      BY <1>1, <1>a13, <2>1, TaskRunsFollow, OwnersStay
    <2>3. LivingHoldPlaces'
      BY <1>1, <1>a13, <2>1, TaskRunsFollow, HoldsStay
    <2> QED
      BY <2>2, <2>3
  <1>a14. ASSUME NEW t \in DOMAIN taskRuns, Dispatch(t) PROVE LeasesHaveOwners' /\ LivingHoldPlaces'
    <2> DEFINE w == taskRuns[t].runner
               n == Len(leases)
               works == [taskRuns[t] EXCEPT !.status = "RUNNING", !.at = "working", !.lease = n + 1]
               refused == [taskRuns[t] EXCEPT !.status = "OVER", !.at = "gone"]
    <2>1. /\ w \in Runner /\ taskRuns[t].at = "ranked" /\ t \in Nat /\ taskRuns[t] \in TaskRun
      BY <1>1, <1>2, <1>a14 DEF Dispatch, LeasesHaveOwners
    <2>2. \A l \in DOMAIN leases : leases[l].taskRun # t /\ leases[l].taskRun \in DOMAIN taskRuns
      BY <1>1, <2>1 DEF LeasesHaveOwners
    <2>3. /\ works \in TaskRun /\ works.at = "working" /\ works.status = "RUNNING" /\ works.lease = n + 1
      <3>1. n + 1 \in Nat
        BY <1>2
      <3> QED
        BY <2>1, <3>1 DEF TaskRun
    <2>4. /\ refused \in TaskRun /\ refused.at = "gone" /\ refused.status = "OVER"
          /\ refused.lease = taskRuns[t].lease
      BY <2>1 DEF TaskRun
    <2> HIDE DEF works, refused
    <2>5. CASE Reserve(t, w, 1) /\ taskRuns' = [taskRuns EXCEPT ![t] = works]
      <3>1. /\ Len(leases') = n + 1 /\ PoolTypeOK'
            /\ leases'[n + 1] = Granted(t, w) /\ share'[n + 1] = "held"
            /\ \A l \in DOMAIN leases : leases'[l] = leases[l] /\ share'[l] = share[l]
        BY <1>3, <2>1, <2>5, ReserveKeepsTypes
      <3>2. DOMAIN leases' = 1 .. n + 1 /\ n + 1 # NoLease
        BY <1>2, <3>1 DEF PoolTypeOK, NoLease
      <3>3. /\ DOMAIN taskRuns' = DOMAIN taskRuns
            /\ \A u \in DOMAIN taskRuns : taskRuns'[u] = IF u = t THEN works ELSE taskRuns[u]
        BY <1>1, <2>3, <2>5, ChangedTaskRun
      <3>4. \A l \in DOMAIN leases' : l \in DOMAIN leases \/ l = n + 1
        BY <1>2, <3>2
      <3>5. Granted(t, w).taskRun = t
        BY DEF Granted
      <3> HIDE DEF w, n
      <3>6. LeasesHaveOwners'
        <4>1. ASSUME NEW l \in DOMAIN leases'
              PROVE  leases'[l].taskRun \in DOMAIN taskRuns' /\ taskRuns'[leases'[l].taskRun].at \in Dispatched
          BY <1>1, <2>2, <2>3, <3>1, <3>3, <3>4, <3>5 DEF LeasesHaveOwners, Dispatched
        <4>2. ASSUME NEW u \in DOMAIN taskRuns'
              PROVE  /\ taskRuns'[u].at = "ranked" => taskRuns'[u].runner \in Runner
                     /\ taskRuns'[u].at \in {"working", "ended"} => taskRuns'[u].lease # NoLease
                     /\ taskRuns'[u].lease # NoLease => leases'[taskRuns'[u].lease].taskRun = u
                     /\ taskRuns'[u].at = "ended" => taskRuns'[u].status = "OVER"
          <5>1. CASE u = t
            BY <2>3, <3>1, <3>2, <3>3, <3>5, <5>1
          <5>2. CASE u # t
            <6>1. u \in DOMAIN taskRuns /\ taskRuns'[u] = taskRuns[u] /\ taskRuns[u].lease \in {NoLease} \cup DOMAIN leases
              BY <1>1, <3>3, <4>2, <5>2 DEF LoopsTypeOK
            <6> QED
              BY <1>1, <3>1, <6>1 DEF LeasesHaveOwners
          <5> QED
            BY <5>1, <5>2
        <4> QED
          BY <4>1, <4>2 DEF LeasesHaveOwners, Dispatched
      <3>7. LivingHoldPlaces'
        BY <1>1, <2>2, <3>1, <3>3, <3>4 DEF LivingHoldPlaces
      <3> QED
        BY <3>6, <3>7
    <2>6. CASE /\ pool' = [pool EXCEPT ![w] = Lowered(Raised(@, 1), 1)]
               /\ leases' = Append(leases, Granted(t, w)) /\ share' = Append(share, "returned")
               /\ UNCHANGED <<again, short>>
               /\ taskRuns' = [taskRuns EXCEPT ![t] = refused]
      <3>1. /\ Len(leases') = n + 1 /\ PoolTypeOK'
            /\ leases'[n + 1] = Granted(t, w) /\ share'[n + 1] = "returned"
            /\ \A l \in DOMAIN leases : leases'[l] = leases[l] /\ share'[l] = share[l]
        BY <1>3, <2>1, <2>6, AppendKeepsTypes
      <3>2. DOMAIN leases' = 1 .. n + 1 /\ n + 1 # NoLease
        BY <1>2, <3>1 DEF PoolTypeOK, NoLease
      <3>3. /\ DOMAIN taskRuns' = DOMAIN taskRuns
            /\ \A u \in DOMAIN taskRuns : taskRuns'[u] = IF u = t THEN refused ELSE taskRuns[u]
        BY <1>1, <2>4, <2>6, ChangedTaskRun
      <3>4. \A l \in DOMAIN leases' : l \in DOMAIN leases \/ l = n + 1
        BY <1>2, <3>2
      <3>5. Granted(t, w).taskRun = t
        BY DEF Granted
      <3> HIDE DEF w, n
      <3>6. LeasesHaveOwners'
        <4>1. ASSUME NEW l \in DOMAIN leases'
              PROVE  leases'[l].taskRun \in DOMAIN taskRuns' /\ taskRuns'[leases'[l].taskRun].at \in Dispatched
          BY <1>1, <2>2, <2>4, <3>1, <3>3, <3>4, <3>5 DEF LeasesHaveOwners, Dispatched
        <4>2. ASSUME NEW u \in DOMAIN taskRuns'
              PROVE  /\ taskRuns'[u].at = "ranked" => taskRuns'[u].runner \in Runner
                     /\ taskRuns'[u].at \in {"working", "ended"} => taskRuns'[u].lease # NoLease
                     /\ taskRuns'[u].lease # NoLease => leases'[taskRuns'[u].lease].taskRun = u
                     /\ taskRuns'[u].at = "ended" => taskRuns'[u].status = "OVER"
          <5>1. /\ u \in DOMAIN taskRuns /\ taskRuns'[u].lease = taskRuns[u].lease
                /\ taskRuns[u].lease \in {NoLease} \cup DOMAIN leases
                /\ taskRuns[u].lease # NoLease => leases[taskRuns[u].lease].taskRun = u
            BY <1>1, <2>4, <3>3, <4>2 DEF LoopsTypeOK, LeasesHaveOwners
          <5>2. taskRuns'[u].lease # NoLease => leases'[taskRuns'[u].lease].taskRun = u
            BY <3>1, <5>1
          <5> QED
            BY <1>1, <2>4, <3>3, <5>1, <5>2 DEF LeasesHaveOwners
        <4> QED
          BY <4>1, <4>2 DEF LeasesHaveOwners, Dispatched
      <3>7. LivingHoldPlaces'
        BY <1>1, <2>2, <2>4, <3>1, <3>3, <3>4, <3>5 DEF LivingHoldPlaces
      <3> QED
        BY <3>6, <3>7
    <2>7. CASE UNCHANGED poolVars /\ Refuse(t)
      <3>1. SameOwners /\ share' = share /\ leases' = leases
        BY <2>7 DEF SameOwners, poolVars
      <3>2. LeasesHaveOwners'
        BY <1>1, <2>1, <2>7, <3>1, TaskRunsFollow, OwnersStay
      <3>3. LivingHoldPlaces'
        BY <1>1, <2>1, <2>7, <3>1, TaskRunsFollow, HoldsStay
      <3> QED
        BY <3>2, <3>3
    <2> QED
      BY <1>a14, <2>5, <2>6, <2>7 DEF Dispatch, Refuse, works, refused
  <1>a15. ASSUME NEW t \in DOMAIN taskRuns, EndTask(t) PROVE LeasesHaveOwners' /\ LivingHoldPlaces'
    <2>1. SameOwners /\ share' = share /\ leases' = leases
      BY <1>a15 DEF EndTask, SameOwners, poolVars
    <2>2. LeasesHaveOwners'
      BY <1>1, <1>a15, <2>1, TaskRunsFollow, OwnersStay
    <2>3. LivingHoldPlaces'
      BY <1>1, <1>a15, <2>1, TaskRunsFollow, HoldsStay
    <2> QED
      BY <2>2, <2>3
  <1>a16. ASSUME NEW t \in DOMAIN taskRuns, ReturnLease(t) PROVE LeasesHaveOwners' /\ LivingHoldPlaces'
    <2> DEFINE lease == taskRuns[t].lease
    <2>1. /\ lease \in DOMAIN leases /\ leases[lease].taskRun = t
          /\ taskRuns[t].status = "OVER"
      BY <1>1, <1>a16 DEF ReturnLease, LoopsTypeOK, LeasesHaveOwners
    <2>2. SameOwners /\ leases' = leases /\ \A l \in DOMAIN leases : share'[l] = share[l] \/ (l = lease /\ share'[l] = "returned")
      BY <1>3, <1>a16 DEF ReturnLease, Return, Shares, SameOwners, PoolTypeOK, poolVars
    <2>3. LeasesHaveOwners'
      BY <1>1, <1>a16, <2>2, TaskRunsFollow, OwnersStay
    <2>4. /\ \A u \in DOMAIN taskRuns : taskRuns'[u].status = "RUNNING" => taskRuns[u].status = "RUNNING"
          /\ taskRuns'[t].status # "RUNNING"
      BY <1>1, <1>a16, <2>1, TaskRunsFollow
    <2> HIDE DEF lease
    <2>5. \A l \in DOMAIN leases : leases'[l].status = "SUCCESS" =>
             /\ leases[l].status = "SUCCESS"
             /\ \/ share'[l] = share[l]
                \/ share'[l] = "held"
                \/ share'[l] # "cancelled" /\ taskRuns'[leases[l].taskRun].status # "RUNNING"
      BY <2>1, <2>2, <2>4
    <2>6. LivingHoldPlaces'
      BY <1>1, <2>2, <2>4, <2>5, HoldsStay
    <2> QED
      BY <2>3, <2>6
  <1>a17. ASSUME NEW t \in DOMAIN taskRuns, ExpireLease(t) PROVE LeasesHaveOwners' /\ LivingHoldPlaces'
    <2>1. taskRuns[t].lease \in DOMAIN leases
      BY <1>1, <1>a17 DEF ExpireLease, LoopsTypeOK, LeasesHaveOwners
    <2>2. /\ DOMAIN leases' = DOMAIN leases
          /\ \A l \in DOMAIN leases : leases'[l].taskRun = leases[l].taskRun /\ leases'[l].status = leases[l].status
      BY <1>1, <1>a17, <2>1, RowsAreTyped DEF ExpireLease, Expire, DispatchLog
    <2>3. taskRuns' = taskRuns /\ share' = share
      BY <1>a17 DEF ExpireLease, Expire
    <2>4. SameOwners
      BY <2>2 DEF SameOwners
    <2>5. LeasesHaveOwners'
      BY <1>1, <2>3, <2>4, OwnersStay DEF LeasesHaveOwners
    <2>6. LivingHoldPlaces'
      BY <1>1, <2>2, <2>3, <2>4, HoldsStay
    <2> QED
      BY <2>5, <2>6
  <1>a18. ASSUME Die PROVE LeasesHaveOwners' /\ LivingHoldPlaces'
    <2>1. /\ DOMAIN taskRuns' = DOMAIN taskRuns
          /\ \A u \in DOMAIN taskRuns : /\ taskRuns'[u].lease = taskRuns[u].lease /\ taskRuns'[u].at = "gone"
                                        /\ taskRuns'[u].status = taskRuns[u].status
      BY <1>2, <1>a18 DEF Die, TaskRun
    <2>2. SameOwners /\ share' = share /\ leases' = leases
      BY <1>a18 DEF Die, SameOwners, poolVars
    <2>3. LeasesHaveOwners'
      BY <1>1, <2>1, <2>2, OwnersStay DEF Dispatched
    <2>4. LivingHoldPlaces'
      BY <1>1, <2>1, <2>2, HoldsStay
    <2> QED
      BY <2>3, <2>4
  <1>a19. ASSUME Recover PROVE LeasesHaveOwners' /\ LivingHoldPlaces'
    <2>1. PICK lost, left : /\ taskRuns' = Ended(lost)
                            /\ UNCHANGED poolVars \/ CancelAndRecount(lost, left)
                            /\ left = Alive(DOMAIN taskRuns) \ lost
      BY <1>a19 DEF Recover
    <2>2. /\ DOMAIN taskRuns' = DOMAIN taskRuns
          /\ \A u \in DOMAIN taskRuns : /\ taskRuns'[u].lease = taskRuns[u].lease
                                        /\ taskRuns'[u].at = taskRuns[u].at
                                        /\ taskRuns'[u].runner = taskRuns[u].runner
                                        /\ taskRuns'[u].status = IF u \in lost THEN "OVER" ELSE taskRuns[u].status
      BY <1>1, <2>1, EndedIsTyped
    <2>3. SameOwners /\ \A l \in DOMAIN leases : leases'[l].status = "SUCCESS" => leases[l].status = "SUCCESS"
      BY <1>3, <2>1, CancelledIsLog DEF CancelAndRecount, SameOwners, poolVars
    <2>4. LeasesHaveOwners'
      BY <1>1, <2>2, <2>3, OwnersStay DEF LeasesHaveOwners
    <2>5. ASSUME NEW l \in DOMAIN leases, leases'[l].status = "SUCCESS"
          PROVE  \/ share'[l] = share[l]
                 \/ share'[l] = "held"
                 \/ share'[l] # "cancelled" /\ taskRuns'[leases[l].taskRun].status # "RUNNING"
      <3>1. CASE UNCHANGED poolVars
        BY <3>1 DEF poolVars
      <3>2. CASE CancelAndRecount(lost, left)
        <4>1. leases'[l].status = IF l \in Of(lost) THEN "CANCELLED" ELSE leases[l].status
          BY <1>3, <3>2, CancelledIsLog DEF CancelAndRecount
        <4>2. l \notin Of(lost)
          BY <2>5, <4>1
        <4>3. share'[l] = IF l \in Of(left) THEN "held" ELSE IF share[l] = "held" THEN "dropped" ELSE share[l]
          BY <3>2, <4>2 DEF CancelAndRecount
        <4>4. CASE share[l] = "held" /\ l \notin Of(left)
          <5>1. leases[l].taskRun \notin left /\ leases[l].taskRun \notin lost /\ leases[l].taskRun \in DOMAIN taskRuns
            BY <1>1, <2>3, <2>5, <4>2, <4>4 DEF Of, LeasesHaveOwners
          <5>2. \A u \in DOMAIN taskRuns : u \notin lost /\ u \notin left => taskRuns[u].status # "RUNNING"
            BY <2>1 DEF Alive
          <5>3. taskRuns'[leases[l].taskRun].status # "RUNNING"
            BY <2>2, <5>1, <5>2
          <5> QED
            BY <4>3, <4>4, <5>3
        <4> QED
          BY <4>3, <4>4
      <3> QED
        BY <2>1, <3>1, <3>2
    <2>6. LivingHoldPlaces'
      BY <1>1, <2>2, <2>3, <2>5, HoldsStay
    <2> QED
      BY <2>4, <2>6
  <1>a20. ASSUME Tick PROVE LeasesHaveOwners' /\ LivingHoldPlaces'
    BY <1>4, <1>a20 DEF Tick, poolVars
  <1> QED
    BY <1>a1, <1>a2, <1>a3, <1>a4, <1>a5, <1>a6, <1>a7, <1>a8, <1>a9, <1>a10, <1>a11, <1>a12, <1>a13, <1>a14, <1>a15, <1>a16, <1>a17, <1>a18, <1>a19, <1>a20 DEF LoopsNext

-----------------------------------------------------------------------------
(***************************************************************************)
(* The counts of the runners                                                *)
(***************************************************************************)
LEMMA PlacesAreKept ==
    ASSUME LoopsInv, LoopsNext
    PROVE  \A r \in Runner : Places(r)'
  <1>1. LoopsTypeOK /\ LeasesHaveOwners /\ LivingHoldPlaces
    BY DEF LoopsInv
  <1>2. \A r \in Runner : Places(r)
    BY DEF LoopsInv, CapacityHolds, CountCoversHeldLeases, PlacesAreBounded, Places
  <1>3. PoolTypeOK
    BY <1>1, RowsAreTyped
  <1>4. ASSUME UNCHANGED poolVars PROVE \A r \in Runner : Places(r)'
    <2>1. \A r \in Runner : Places(r)' <=> Places(r)
      BY <1>4 DEF poolVars, Places, On, Held
    <2> QED
      BY <1>2, <2>1
  <1>a1. ASSUME NEW l \in Loop, NEW key \in Event, NEW payload \in {"items", "error"},
        Trigger(l, key, payload) PROVE \A r \in Runner : Places(r)'
    BY <1>4, <1>a1 DEF Trigger, SetLoop, Touch
  <1>a2. ASSUME NEW p \in Pass, ReadSchedules(p) PROVE \A r \in Runner : Places(r)'
    BY <1>4, <1>a2 DEF ReadSchedules
  <1>a3. ASSUME NEW p \in Pass, NEW payload \in [Claims(p) -> {"items", "none"}],
        ClaimSchedules(p, payload) PROVE \A r \in Runner : Places(r)'
    BY <1>4, <1>a3 DEF ClaimSchedules
  <1>a4. ASSUME NEW l \in Loop, Enable(l) PROVE \A r \in Runner : Places(r)'
    BY <1>4, <1>a4 DEF Enable, SetLoop, Touch, Command
  <1>a5. ASSUME NEW l \in Loop, Disable(l) PROVE \A r \in Runner : Places(r)'
    BY <1>4, <1>a5 DEF Disable, SetLoop, Touch, Command
  <1>a6. ASSUME NEW l \in Loop, Pause(l) PROVE \A r \in Runner : Places(r)'
    BY <1>4, <1>a6 DEF Pause, SetLoop, Touch, Command
  <1>a7. ASSUME NEW l \in Loop, Resume(l) PROVE \A r \in Runner : Places(r)'
    BY <1>4, <1>a7 DEF Resume, SetLoop, Touch, Command
  <1>a8. ASSUME NEW i \in DOMAIN runs, Kill(i) PROVE \A r \in Runner : Places(r)'
    <2>1. \A l \in Of(Owned(i)) : share[l] # "cancelled"
      BY <1>1 DEF Of, LivingHoldPlaces
    <2> QED
      BY <1>2, <1>3, <1>a8, <2>1, CancelKeepsPlaces DEF Kill
  <1>a9. ASSUME NEW w \in Runner, NEW health \in HealthSetting, OperatorSetsHealth(w, health) PROVE \A r \in Runner : Places(r)'
    <2>1. \A r \in Runner : pool'[r].active = pool[r].active
      BY <1>3, <1>a9 DEF OperatorSetsHealth, SetHealth, PoolTypeOK, RunnerState
    <2>2. UNCHANGED <<leases, share, again, short>>
      BY <1>a9 DEF OperatorSetsHealth, SetHealth
    <2> QED
      BY <1>2, <2>1, <2>2 DEF Places, On, Held
  <1>a10. ASSUME NEW i \in DOMAIN runs, StartRun(i) PROVE \A r \in Runner : Places(r)'
    BY <1>4, <1>a10 DEF StartRun, SetSched
  <1>a11. ASSUME NEW i \in DOMAIN runs, EndRun(i) PROVE \A r \in Runner : Places(r)'
    BY <1>4, <1>a11 DEF EndRun, SetSched
  <1>a12. ASSUME NEW i \in DOMAIN runs, Claim(i) PROVE \A r \in Runner : Places(r)'
    BY <1>4, <1>a12 DEF Claim, NewTaskRun
  <1>a13. ASSUME NEW t \in DOMAIN taskRuns, Rank(t) PROVE \A r \in Runner : Places(r)'
    BY <1>4, <1>a13 DEF Rank, Refuse
  <1>a14. ASSUME NEW t \in DOMAIN taskRuns, Dispatch(t) PROVE \A r \in Runner : Places(r)'
    <2> DEFINE w == taskRuns[t].runner
    <2>1. w \in Runner /\ t \in Nat
      <3>1. t \in Nat
        BY <1>1, RowsAreTyped
      <3> QED
        BY <1>1, <1>a14, <3>1 DEF Dispatch, LeasesHaveOwners
    <2>2. CASE Reservable(w) /\ Reserve(t, w, 1)
      BY <1>2, <1>3, <2>1, <2>2, ReserveKeepsPlaces
    <2>3. CASE /\ Reservable(w) /\ pool' = [pool EXCEPT ![w] = Lowered(Raised(@, 1), 1)]
               /\ leases' = Append(leases, Granted(t, w)) /\ share' = Append(share, "returned")
               /\ UNCHANGED <<again, short>>
      BY <1>2, <1>3, <2>1, <2>3, AppendKeepsPlaces
    <2>4. CASE UNCHANGED poolVars
      BY <1>4, <2>4
    <2> QED
      BY <1>a14, <2>2, <2>3, <2>4 DEF Dispatch
  <1>a15. ASSUME NEW t \in DOMAIN taskRuns, EndTask(t) PROVE \A r \in Runner : Places(r)'
    BY <1>4, <1>a15 DEF EndTask
  <1>a16. ASSUME NEW t \in DOMAIN taskRuns, ReturnLease(t) PROVE \A r \in Runner : Places(r)'
    <2>1. taskRuns[t].lease \in DOMAIN leases
      BY <1>1, <1>a16 DEF ReturnLease, LoopsTypeOK, LeasesHaveOwners
    <2>2. CASE Returnable(taskRuns[t].lease) /\ Return(taskRuns[t].lease)
      <3>1. share[taskRuns[t].lease] # "cancelled"
        BY <1>1, <2>1, <2>2 DEF Returnable, Newest, LivingHoldPlaces
      <3> QED
        BY <1>2, <1>3, <2>1, <2>2, <3>1, ReturnKeepsPlaces
    <2>3. CASE UNCHANGED poolVars
      BY <1>4, <2>3
    <2> QED
      BY <1>a16, <2>2, <2>3 DEF ReturnLease
  <1>a17. ASSUME NEW t \in DOMAIN taskRuns, ExpireLease(t) PROVE \A r \in Runner : Places(r)'
    <2>1. taskRuns[t].lease \in DOMAIN leases
      BY <1>1, <1>a17 DEF ExpireLease, LoopsTypeOK, LeasesHaveOwners
    <2>2. /\ DOMAIN leases' = DOMAIN leases /\ \A l \in DOMAIN leases : leases'[l].runner = leases[l].runner
          /\ UNCHANGED <<pool, share, again, short>>
      BY <1>1, <1>a17, <2>1, RowsAreTyped DEF ExpireLease, Expire, DispatchLog
    <2>3. Held' = Held /\ Held \subseteq DOMAIN leases
      BY <2>2 DEF Held
    <2>4. \A r \in Runner : On(r, Held)' = On(r, Held)
      BY <2>2, <2>3 DEF On
    <2> QED
      BY <1>2, <2>2, <2>4 DEF Places
  <1>a18. ASSUME Die PROVE \A r \in Runner : Places(r)'
    BY <1>4, <1>a18 DEF Die
  <1>a19. ASSUME Recover PROVE \A r \in Runner : Places(r)'
    <2>1. PICK lost, left : /\ UNCHANGED poolVars \/ CancelAndRecount(lost, left)
                            /\ left = Alive(DOMAIN taskRuns) \ lost
      BY <1>a19 DEF Recover
    <2>2. CASE CancelAndRecount(lost, left)
      <3>1. lost \cap left = {} /\ \A u \in left : u \in DOMAIN taskRuns /\ taskRuns[u].status = "RUNNING"
        BY <2>1 DEF Alive
      <3>2. \A l \in Of(left) : share[l] = "held"
        BY <1>1, <3>1 DEF Of, LivingHoldPlaces
      <3> QED
        BY <1>2, <1>3, <2>2, <3>1, <3>2, RecountKeepsPlaces
    <2> QED
      BY <1>4, <2>1, <2>2
  <1>a20. ASSUME Tick PROVE \A r \in Runner : Places(r)'
    BY <1>4, <1>a20 DEF Tick
  <1> QED
    BY <1>a1, <1>a2, <1>a3, <1>a4, <1>a5, <1>a6, <1>a7, <1>a8, <1>a9, <1>a10, <1>a11, <1>a12, <1>a13, <1>a14, <1>a15, <1>a16, <1>a17, <1>a18, <1>a19, <1>a20 DEF LoopsNext

-----------------------------------------------------------------------------
(***************************************************************************)
(* Theorems                                                                *)
(***************************************************************************)
LEMMA LoopsInitInv == LoopsInit => LoopsInv
  <1> SUFFICES ASSUME LoopsInit PROVE LoopsInv
    OBVIOUS
  <1>1. leases = <<>> /\ share = <<>> /\ runs = <<>> /\ taskRuns = <<>>
    BY DEF LoopsInit, PoolInit
  <1>2. DOMAIN leases = {} /\ Held = {} /\ \A r : On(r, Held) = {}
    BY <1>1 DEF Held, On
  <1>3. LoopsTypeOK
    <2>1. PoolTypeOK
      BY <1>1 DEF LoopsInit, PoolInit, PoolTypeOK, RunnerState, Health
    <2>2. Idle \in RowsOf({})
      BY DEF Idle, RowsOf
    <2>3. DOMAIN passes = Pass /\ \A p \in Pass : \E these \in SUBSET Loop : passes[p] \in RowsOf(these)
      BY <2>2 DEF LoopsInit
    <2>4. loops \in [Loop -> Row] /\ clock \in 0 .. MaxTime /\ commands \in 0 .. MaxCommands /\ claimed \in [Loop -> Seq(Nat)]
      BY LoopAssumption DEF LoopsInit, Row, LoopStatus
    <2> QED
      BY <1>1, <2>1, <2>3, <2>4 DEF LoopsTypeOK
  <1>4. ClaimsArePast /\ OccurrenceClaimedOnce
    BY DEF LoopsInit, Idle, ClaimsArePast, OccurrenceClaimedOnce
  <1>5. LeasesHaveOwners /\ LivingHoldPlaces
    BY <1>1 DEF LeasesHaveOwners, LivingHoldPlaces
  <1>6. CapacityHolds /\ CountCoversHeldLeases /\ PlacesAreBounded
    <2>1. \A r \in Runner : /\ Cardinality(On(r, Held)) = 0 /\ pool[r].active = 0
                            /\ again[r] = 0 /\ short[r] = 0
      BY <1>2, FS_EmptySet DEF LoopsInit, PoolInit
    <2> QED
      BY <2>1 DEF CapacityHolds, CountCoversHeldLeases, PlacesAreBounded
  <1> QED
    BY <1>3, <1>4, <1>5, <1>6 DEF LoopsInv

LEMMA LoopsNextInv == LoopsInv /\ [LoopsNext]_loopVars => LoopsInv'
  <1> SUFFICES ASSUME LoopsInv, [LoopsNext]_loopVars PROVE LoopsInv'
    OBVIOUS
  <1>1. CASE LoopsNext
    <2>1. LoopsTypeOK' /\ ClaimsArePast' /\ OccurrenceClaimedOnce' /\ LeasesHaveOwners' /\ LivingHoldPlaces'
      BY <1>1, TypesAreKept, ClaimsAreKept, LeasesAreKept
    <2>2. \A r \in Runner : Places(r)'
      BY <1>1, PlacesAreKept
    <2>3. CapacityHolds' /\ CountCoversHeldLeases' /\ PlacesAreBounded'
      BY <2>2 DEF Places, CapacityHolds, CountCoversHeldLeases, PlacesAreBounded
    <2> QED
      BY <2>1, <2>3 DEF LoopsInv
  <1>2. CASE UNCHANGED loopVars
    <2>1. /\ loops' = loops /\ clock' = clock /\ passes' = passes /\ runs' = runs /\ taskRuns' = taskRuns
          /\ claimed' = claimed /\ commands' = commands
          /\ pool' = pool /\ leases' = leases /\ share' = share /\ again' = again /\ short' = short
      BY <1>2 DEF loopVars, poolVars
    <2>2. LoopsTypeOK'
      BY <2>1 DEF LoopsInv, LoopsTypeOK, PoolTypeOK
    <2>3. ClaimsArePast' /\ OccurrenceClaimedOnce' /\ LeasesHaveOwners' /\ LivingHoldPlaces'
      BY <2>1 DEF LoopsInv, ClaimsArePast, OccurrenceClaimedOnce, LeasesHaveOwners, LivingHoldPlaces
    <2>4. CapacityHolds' /\ CountCoversHeldLeases' /\ PlacesAreBounded'
      BY <2>1 DEF LoopsInv, CapacityHolds, CountCoversHeldLeases, PlacesAreBounded, On, Held
    <2> QED
      BY <2>2, <2>3, <2>4 DEF LoopsInv
  <1> QED
    BY <1>1, <1>2

LEMMA LoopsInvariant == LoopsSpec => []LoopsInv
  BY LoopsInitInv, LoopsNextInv, PTL DEF LoopsSpec

\* The places of the runners are neither given twice nor forgotten, however workers,
\* kills and reconciliations give them back (runner_pool.py).
THEOREM PlacesStayCounted == LoopsSpec => []PlacesAreCounted
  <1>1. LoopsInv => PlacesAreCounted
    BY DEF LoopsInv, PlacesAreCounted
  <1> QED
    BY <1>1, LoopsInvariant, PTL

\* Of the passes that read a schedule, one claims what is due (_compare_and_swap_schedule_claim).
THEOREM OccurrencesAreClaimedOnce == LoopsSpec => []OccurrenceClaimedOnce
  <1>1. LoopsInv => OccurrenceClaimedOnce
    BY DEF LoopsInv
  <1> QED
    BY <1>1, LoopsInvariant, PTL

\* No resume and no recovery takes an ended loop run up again (resume_loop,
\* recover_pending_loops).
THEOREM EndedRunsAreLeftAlone == LoopsSpec => EndedRunsStayEnded
  <1> DEFINE Left == \A i \in DOMAIN runs : runs[i].status \in Closed \cup {"NO_OP"} =>
                        runs'[i].status \in {runs[i].status, "CANCELLED"}
  <1>1. ASSUME LoopsInv, LoopsNext PROVE Left
    <2>1. /\ LoopsTypeOK /\ runs \in Seq(LoopRun) /\ DOMAIN runs = 1 .. Len(runs) /\ Len(runs) \in Nat
          /\ runs \in [1 .. Len(runs) -> LoopRun] /\ \A i \in DOMAIN runs : runs[i] \in LoopRun
      BY <1>1, RowsAreTyped DEF LoopsInv
    <2>2. ASSUME UNCHANGED runs PROVE Left
      BY <2>2
    <2>3. ASSUME NEW l \in Loop, NEW key \in Event, NEW payload \in {"items", "error"}, Trigger(l, key, payload)
          PROVE  Left
      <3>1. Triaged(l, key, payload) \in LoopRun
        BY <2>3 DEF Triaged, LoopRun, LoopRunStatus, RunStatus
      <3>2. Extends(runs, runs)
        BY <2>1 DEF Extends
      <3>3. Extends(runs', runs)
        BY <2>1, <2>3, <3>1, <3>2, DedupedExtends DEF Trigger
      <3> QED
        BY <2>1, <3>3 DEF Extends
    <2>4. ASSUME NEW p \in Pass, NEW payload \in [Claims(p) -> {"items", "none"}], ClaimSchedules(p, payload)
          PROVE  Left
      <3>1. Extends(runs', runs)
        BY <2>1, <2>4, StartedExtends DEF ClaimSchedules
      <3> QED
        BY <2>1, <3>1 DEF Extends
    <2>5. ASSUME NEW l \in Loop, Pause(l) \/ Resume(l) PROVE Left
      BY <2>1, <2>5 DEF Pause, Resume, Resumable, Moved, Closed
    <2>6. ASSUME NEW i \in DOMAIN runs, Kill(i) PROVE Left
      BY <2>1, <2>6 DEF Kill, LoopRun
    <2>7. ASSUME NEW i \in DOMAIN runs, StartRun(i) \/ EndRun(i) PROVE Left
      <3>1. PICK sched : runs' = [runs EXCEPT ![i].sched = sched]
        BY <2>7 DEF StartRun, EndRun, SetSched
      <3>2. \A j \in DOMAIN runs : runs'[j].status = runs[j].status
        BY <2>1, <3>1 DEF LoopRun
      <3> QED
        BY <3>2
    <2>8. ASSUME Recover PROVE Left
      <3> DEFINE running == {i \in DOMAIN runs : runs[i].status = "RUNNING"}
                 orphans == {i \in running : runs[i].sched \notin Closed}
      <3>1. PICK failed \in SUBSET orphans :
                  runs' = [i \in DOMAIN runs |->
                              IF i \in failed THEN [runs[i] EXCEPT !.status = "FAILED", !.sched = "FAILED"]
                              ELSE IF i \in running \ orphans THEN [runs[i] EXCEPT !.status = runs[i].sched]
                              ELSE runs[i]]
        BY <2>8 DEF Recover
      <3> QED
        BY <3>1 DEF Closed
    <2> QED
      BY <1>1, <2>2, <2>3, <2>4, <2>5, <2>6, <2>7, <2>8
         DEF LoopsNext, ReadSchedules, Enable, Disable, OperatorSetsHealth, Claim, Rank, Dispatch, EndTask,
             ReturnLease, ExpireLease, Die, Tick
  <1>2. LoopsInv /\ [LoopsNext]_loopVars => [Left]_loopVars
    BY <1>1
  <1> QED
    BY <1>2, LoopsInvariant, PTL DEF LoopsSpec, EndedRunsStayEnded

=============================================================================
