---------------------- MODULE ControlPlaneStoreProofs -----------------------
(***************************************************************************)
(* Theorems about the store: type correctness, mutual exclusion of the     *)
(* writers, and that the store implements the log of operations for every  *)
(* set of processes and operations and any number of deaths.               *)
(*                                                                         *)
(* The inductive invariant says what a writer may rely on between its two  *)
(* writes: it alone holds the lock, and the snapshot is still the one its  *)
(* draft was computed from, or, after the replacement, the draft itself.   *)
(***************************************************************************)
EXTENDS ControlPlaneStore, TLAPS

Op == Operation \cup Anonymous
State == Seq(Op)

Writing(p) == pc[p] \in {"computed", "replaced"}

\* The lock excludes, and a draft is one operation ahead of the snapshot.
WritersInv ==
    /\ \A p \in Process : Writing(p) <=> p \in holder
    /\ \A p, q \in holder : p = q
    /\ \A p \in Process : Writing(p) => op[p] \in Op
    /\ \A p \in Process : pc[p] = "computed" =>
          draft[p] = Append(snapshot, op[p]) /\ ~Applied(op[p])
    /\ \A p \in Process : pc[p] = "replaced" =>
          \E i \in DOMAIN snapshot : snapshot[i] = op[p]

LEMMA WrittenType ==
    ASSUME TypeOK, NEW state \in State, NEW text \in {"whole", "torn", "unterminated"}
    PROVE  Written(state, text) \in Seq([state : State, text : Text])
  <1> DEFINE L == [state : State, text : Text]
  <1>1. journal \in Seq(L) /\ [state |-> state, text |-> text] \in L
    BY DEF TypeOK, Text, State, Op
  <1>2. Append(journal, [state |-> state, text |-> text]) \in Seq(L)
    <2> HIDE DEF L
    <2> QED
      BY <1>1
  <1>3. ASSUME journal # <<>>, NEW t \in Text
        PROVE  [journal EXCEPT ![Len(journal)].text = t] \in Seq(L)
    <2>1. Len(journal) \in DOMAIN journal /\ journal[Len(journal)] \in L
      <3> HIDE DEF L
      <3> QED
        BY <1>1, <1>3
    <2>2. [journal[Len(journal)] EXCEPT !.text = t] \in L
      BY <1>3, <2>1
    <2> HIDE DEF L
    <2> QED
      BY <1>1, <2>1, <2>2
  <1>4. "garbled" \in Text /\ "torn" \in Text
    BY DEF Text
  <1> QED
    BY <1>2, <1>3, <1>4 DEF Written

LEMMA InitTypeOK == Init => TypeOK
  BY DEF Init, TypeOK, Place

LEMMA NextTypeOK ==
    ASSUME TypeOK, WritersInv, [Next]_vars
    PROVE  TypeOK'
  <1>1. /\ snapshot \in State /\ \A p \in Process : draft[p] \in State
        /\ crashes \in Nat /\ <<>> \in State
    BY DEF TypeOK, State, Op
  <1>2. ASSUME NEW p \in Process, NEW o \in Op, Compute(p, o) PROVE TypeOK'
    <2>1. Append(snapshot, o) \in State
      BY <1>1, <1>2 DEF State
    <2> QED
      BY <1>2, <2>1 DEF Compute, TypeOK, Place, State, Op
  <1>3. ASSUME NEW p \in Process, NEW o \in Op, Drop(p, o) PROVE TypeOK'
    BY <1>3 DEF Drop, TypeOK, Op
  <1>4. ASSUME NEW p \in Process, VerifyReads(p) PROVE TypeOK'
    BY <1>1, <1>4 DEF VerifyReads, TypeOK, Place, State, Op
  <1>5. ASSUME NEW p \in Process, VerifyReplays(p) PROVE TypeOK'
    <2>1. (Readable /\ Replayed = draft[p]) \in BOOLEAN
      BY DEF Readable
    <2> HIDE DEF Readable, Replayed
    <2>2. verdict' \in [Process -> BOOLEAN]
      BY <1>5, <2>1 DEF VerifyReplays, TypeOK
    <2> QED
      BY <1>1, <1>5, <2>2 DEF VerifyReplays, Release, TypeOK, Place, State, Op
  <1>6. ASSUME NEW p \in Process, Replace(p) PROVE TypeOK'
    BY <1>1, <1>6 DEF Replace, TypeOK, Place, State, Op
  <1>7. ASSUME NEW p \in Process, AppendEvent(p) PROVE TypeOK'
    <2> op[p] \in Op
      BY <1>7 DEF AppendEvent, WritersInv, Writing
    <2>1. journal' \in Seq([state : State, text : Text])
      BY <1>1, <1>7, WrittenType DEF AppendEvent
    <2> QED
      BY <1>1, <1>7, <2>1 DEF AppendEvent, Release, TypeOK, Place, State, Op
  <1>8. ASSUME NEW p \in Process, Crash(p) PROVE TypeOK'
    <2>1. journal' \in Seq([state : State, text : Text])
      BY <1>1, <1>8, WrittenType DEF Crash, TypeOK, State, Op
    <2> QED
      BY <1>1, <1>8, <2>1 DEF Crash, Release, TypeOK, Place, State, Op
  <1>9. CASE UNCHANGED vars
    BY <1>9 DEF vars, TypeOK
  <1> QED
    BY <1>2, <1>3, <1>4, <1>5, <1>6, <1>7, <1>8, <1>9 DEF Next, Op

LEMMA InitWriters == Init => WritersInv
  BY DEF Init, WritersInv, Writing

\* The snapshot with one more operation: what it holds afterwards.
LEMMA AppendedState ==
    ASSUME NEW s \in State, NEW o \in Op
    PROVE  /\ \E i \in DOMAIN Append(s, o) : Append(s, o)[i] = o
           /\ Append(s, o) \in State
  <1>1. Append(s, o) \in State /\ Len(s) + 1 \in DOMAIN Append(s, o)
        /\ Append(s, o)[Len(s) + 1] = o
    BY DEF State
  <1> QED
    BY <1>1

LEMMA NextWriters ==
    ASSUME TypeOK, WritersInv, [Next]_vars
    PROVE  WritersInv'
  <1>1. /\ snapshot \in State /\ holder \subseteq Process
        /\ pc \in [Process -> Place] /\ DOMAIN op = Process /\ DOMAIN draft = Process
    BY DEF TypeOK, State, Op
  <1>2. ASSUME NEW p \in Process, NEW o \in Op, Compute(p, o) PROVE WritersInv'
    <2>1. holder' = {p} /\ snapshot' = snapshot /\ \A q \in Process : ~Writing(q)
      BY <1>1, <1>2 DEF Compute, LockIsFree, WritersInv
    <2>2. ASSUME NEW q \in Process
          PROVE  /\ q = p => pc'[q] = "computed" /\ op'[q] = o /\ draft'[q] = Append(snapshot, o)
                 /\ q # p => pc'[q] = pc[q] /\ op'[q] = op[q] /\ draft'[q] = draft[q]
      BY <1>1, <1>2 DEF Compute
    <2>3. ~Applied(o)'
      BY <1>2, <2>1 DEF Compute, Applied
    <2> QED
      BY <2>1, <2>2, <2>3 DEF WritersInv, Writing, Applied
  <1>3. ASSUME NEW p \in Process, NEW o \in Op, Drop(p, o) PROVE WritersInv'
    BY <1>3 DEF Drop, WritersInv, Writing, Applied
  <1>4. ASSUME NEW p \in Process, VerifyReads(p) PROVE WritersInv'
    BY <1>1, <1>4 DEF VerifyReads, WritersInv, Writing, Applied
  <1>5. ASSUME NEW p \in Process, NEW reached \in Place, pc[p] = reached, Release(p),
               UNCHANGED snapshot
        PROVE  WritersInv'
    <2>1. ASSUME NEW q \in Process
          PROVE  /\ q = p => pc'[q] = "idle"
                 /\ q # p => pc'[q] = pc[q] /\ op'[q] = op[q] /\ draft'[q] = draft[q]
      BY <1>1, <1>5 DEF Release
    <2> QED
      BY <1>5, <2>1 DEF WritersInv, Writing, Applied, Release
  <1>6. ASSUME NEW p \in Process, Replace(p) PROVE WritersInv'
    <2>1. p \in holder /\ op[p] \in Op /\ draft[p] = Append(snapshot, op[p])
      BY <1>6 DEF Replace, WritersInv, Writing
    <2>2. \E i \in DOMAIN snapshot' : snapshot'[i] = op[p]
      BY <1>1, <1>6, <2>1, AppendedState DEF Replace
    <2>3. ASSUME NEW q \in Process
          PROVE  /\ q = p => pc'[q] = "replaced"
                 /\ q # p => pc'[q] = pc[q] /\ ~Writing(q)
      BY <1>1, <1>6, <2>1 DEF Replace, WritersInv
    <2> QED
      BY <1>6, <2>1, <2>2, <2>3 DEF Replace, WritersInv, Writing
  <1>7. CASE UNCHANGED vars
    BY <1>7 DEF vars, WritersInv, Writing, Applied
  <1>8. ASSUME NEW p \in Process, VerifyReplays(p) \/ AppendEvent(p) \/ Crash(p)
        PROVE  WritersInv'
    BY <1>1, <1>5, <1>8 DEF VerifyReplays, AppendEvent, Crash
  <1> QED
    BY <1>2, <1>3, <1>4, <1>6, <1>7, <1>8 DEF Next, Op

\* Every reachable state is well typed and has at most one writer, whose draft
\* is exactly one operation ahead of the snapshot.
THEOREM StoreTypeCorrect == Spec => [](TypeOK /\ WritersInv)
  BY InitTypeOK, InitWriters, NextTypeOK, NextWriters, PTL DEF Spec

\* The store implements the log of operations: an operation takes effect when
\* its snapshot replaces the old one, and a retry after a death finds it there.
THEOREM StoreImplementsOperationLog == Spec => ImplementsOperationLog
  <1>1. Init => Log!Init
    BY DEF Init, Log!Init
  <1>2. TypeOK /\ WritersInv /\ [Next]_vars => [Log!Next]_(Log!vars)
    <2> SUFFICES ASSUME TypeOK, WritersInv, [Next]_vars
                 PROVE  [Log!Next]_(Log!vars)
      OBVIOUS
    <2>1. ASSUME NEW p \in Process, Replace(p) PROVE Log!Next
      <3>1. /\ op[p] \in Op /\ ~Applied(op[p])
            /\ snapshot' = Append(snapshot, op[p]) /\ answered' = answered
        BY <2>1 DEF Replace, WritersInv, Writing
      <3> QED
        BY <3>1 DEF Log!Next, Log!TakeEffect, Log!InLog, Applied, Op
    <2>2. ASSUME NEW p \in Process, AppendEvent(p) PROVE Log!Next
      <3>1. /\ op[p] \in Op /\ \E i \in DOMAIN snapshot : snapshot[i] = op[p]
            /\ snapshot' = snapshot /\ answered' = answered \cup {op[p]}
        BY <2>2 DEF AppendEvent, WritersInv, Writing
      <3> QED
        BY <3>1 DEF Log!Next, Log!Return, Log!InLog, Op
    <2>3. ASSUME NEW p \in Process, NEW o \in Op, Drop(p, o) PROVE Log!Next
      BY <2>3 DEF Drop, Applied, Log!Next, Log!Return, Log!InLog, Op
    <2>4. ASSUME UNCHANGED <<snapshot, answered>> PROVE UNCHANGED Log!vars
      BY <2>4 DEF Log!vars
    <2>5. \/ UNCHANGED <<snapshot, answered>>
          \/ \E p \in Process : Replace(p) \/ AppendEvent(p) \/ \E o \in Op : Drop(p, o)
      BY DEF Next, vars, Compute, VerifyReads, VerifyReplays, Crash, Op
    <2> QED
      BY <2>1, <2>2, <2>3, <2>4, <2>5
  <1> QED
    BY <1>1, <1>2, StoreTypeCorrect, PTL DEF Spec, ImplementsOperationLog, Log!Spec

-----------------------------------------------------------------------------
(* The journal against the snapshot.  A line is never changed but in how    *)
(* much of it can be read, so that the states of the lines stay in order    *)
(* and behind the snapshot; the writer that has replaced the snapshot owes  *)
(* one line, which it writes or takes with it when it dies.                 *)

Owing == \E p \in Process : pc[p] = "replaced"

JournalInv ==
    /\ JournalFollowsSnapshot
    /\ \A p \in Process : pc[p] = "replaced" =>
          /\ draft[p] = snapshot
          /\ \A i \in DOMAIN journal : Len(journal[i].state) < Len(snapshot)
    /\ Readable => Len(snapshot) - Len(Replayed) <= crashes + (IF Owing THEN 1 ELSE 0)

LEMMA PrefixGrows ==
    ASSUME NEW s \in State, NEW t \in State, IsPrefix(s, t), NEW o \in Op
    PROVE  /\ IsPrefix(s, Append(t, o)) /\ Len(s) < Len(Append(t, o))
           /\ IsPrefix(t, t)
  <1>1. /\ Len(s) \in Nat /\ Len(t) \in Nat /\ Len(s) <= Len(t)
        /\ Len(Append(t, o)) = Len(t) + 1
    BY DEF State, IsPrefix
  <1>2. SubSeq(Append(t, o), 1, Len(s)) = SubSeq(t, 1, Len(s))
    <2>1. \A i \in 1 .. Len(s) : Append(t, o)[i] = t[i]
      BY <1>1 DEF State
    <2> QED
      BY <1>1, <2>1 DEF State
  <1> QED
    BY <1>1, <1>2 DEF IsPrefix

\* What a write does to the lines: it adds one, or spoils the last.
LEMMA WrittenLines ==
    ASSUME TypeOK, NEW state \in State, NEW text \in {"whole", "torn", "unterminated"},
           journal' = Written(state, text)
    PROVE  /\ DOMAIN journal' \in {DOMAIN journal, 1 .. Len(journal) + 1}
           /\ DOMAIN journal = 1 .. Len(journal) /\ Len(journal) \in Nat
           /\ \A i \in DOMAIN journal' :
                 journal'[i].state = IF i \in DOMAIN journal THEN journal[i].state ELSE state
           /\ Readable' => Readable /\ Replayed' = state
  <1> DEFINE L == [state : State, text : Text]
             new == [state |-> state, text |-> text]
  <1>1. journal \in Seq(L) /\ new \in L
    BY DEF TypeOK, Text, State, Op
  <1>2. new.state = state /\ new.text = text
    OBVIOUS
  <1>3. CASE journal = <<>> \/ Last(journal).text \in {"whole", "garbled"}
    <2>1. journal' = Append(journal, new)
      BY <1>3 DEF Written
    <2> HIDE DEF L, new
    <2>2. /\ DOMAIN journal' = 1 .. Len(journal) + 1 /\ Len(journal') = Len(journal) + 1
          /\ DOMAIN journal = 1 .. Len(journal) /\ Len(journal) \in Nat
          /\ \A i \in DOMAIN journal : journal'[i] = journal[i]
          /\ journal'[Len(journal) + 1] = new
      BY <1>1, <2>1
    <2>3. Readable' => Readable
      BY <2>2 DEF Readable
    <2>4. journal' # <<>> /\ Replayed' = state
      BY <1>2, <2>2 DEF Replayed, Last
    <2> QED
      BY <1>2, <2>2, <2>3, <2>4
  <1>4. CASE ~(journal = <<>> \/ Last(journal).text \in {"whole", "garbled"})
    <2> DEFINE t == IF text = "whole" THEN "garbled" ELSE "torn"
    <2>1. journal' = [journal EXCEPT ![Len(journal)].text = t]
      BY <1>4 DEF Written
    <2>2. Len(journal) \in DOMAIN journal /\ DOMAIN journal = 1 .. Len(journal) /\ Len(journal) \in Nat
      <3> HIDE DEF L
      <3> QED
        BY <1>1, <1>4
    <2>3. journal[Len(journal)] \in L
      <3> HIDE DEF L
      <3> QED
        BY <1>1, <2>2
    <2>4. /\ DOMAIN journal' = DOMAIN journal
          /\ \A i \in DOMAIN journal : journal'[i].state = journal[i].state
          /\ journal'[Len(journal)].text = t
      BY <2>1, <2>2, <2>3
    <2>5. ~Readable'
      BY <2>2, <2>4 DEF Readable
    <2> QED
      BY <2>2, <2>4, <2>5
  <1> QED
    BY <1>3, <1>4

LEMMA InitJournal == Init => JournalInv
  BY DEF Init, JournalInv, JournalFollowsSnapshot, Owing, Replayed

\* A step that neither writes nor owes or pays a line.
LEMMA QuietJournal ==
    ASSUME JournalInv, UNCHANGED <<snapshot, journal>>, crashes' \in {crashes, crashes + 1},
           crashes \in Nat, snapshot \in State, Len(Replayed) \in Nat,
           \A p \in Process : pc'[p] = "replaced" => pc[p] = "replaced" /\ draft'[p] = draft[p],
           crashes' = crashes => (Owing => Owing')
    PROVE  JournalInv'
  <1>1. JournalFollowsSnapshot' /\ (Readable' = Readable) /\ Replayed' = Replayed
    BY DEF JournalInv, JournalFollowsSnapshot, Readable, Replayed
  <1>2. \A p \in Process : pc'[p] = "replaced" =>
           /\ draft'[p] = snapshot'
           /\ \A i \in DOMAIN journal' : Len(journal'[i].state) < Len(snapshot')
    BY DEF JournalInv
  <1>3. Readable' => Len(snapshot') - Len(Replayed') <= crashes' + (IF Owing' THEN 1 ELSE 0)
    <2>1. Len(snapshot) \in Nat
      BY DEF State
    <2>2. Readable => Len(snapshot) - Len(Replayed) <= crashes + (IF Owing THEN 1 ELSE 0)
      BY DEF JournalInv
    <2> HIDE DEF Owing, Readable, Replayed
    <2> QED
      BY <1>1, <2>1, <2>2
  <1> QED
    BY <1>1, <1>2, <1>3 DEF JournalInv

\* The writer pays its line: all other lines are shorter.
LEMMA PaidJournal ==
    ASSUME TypeOK, WritersInv, JournalInv, NEW p \in Process, pc[p] = "replaced",
           NEW text \in {"whole", "torn", "unterminated"},
           journal' = Written(draft[p], text), snapshot' = snapshot,
           crashes' \in {crashes, crashes + 1}, \A q \in Process : pc'[q] # "replaced"
    PROVE  JournalInv'
  <1>1. /\ draft[p] = snapshot /\ snapshot \in State /\ Len(snapshot) \in Nat /\ crashes \in Nat
        /\ \A i \in DOMAIN journal :
              /\ Len(journal[i].state) < Len(snapshot)
              /\ IsPrefix(journal[i].state, snapshot)
    BY DEF JournalInv, JournalFollowsSnapshot, TypeOK, State, Op
  <1>2. /\ DOMAIN journal' \in {DOMAIN journal, 1 .. Len(journal) + 1}
        /\ DOMAIN journal = 1 .. Len(journal) /\ Len(journal) \in Nat
        /\ \A i \in DOMAIN journal' :
              journal'[i].state = IF i \in DOMAIN journal THEN journal[i].state ELSE snapshot
        /\ Readable' => Readable /\ Replayed' = snapshot
    BY <1>1, WrittenLines
  <1>3. IsPrefix(snapshot, snapshot)
    BY <1>1 DEF IsPrefix
  <1>4. \A i \in DOMAIN journal' : IsPrefix(journal'[i].state, snapshot')
    BY <1>1, <1>2, <1>3
  <1>5. ASSUME NEW i \in DOMAIN journal', NEW j \in DOMAIN journal', i < j
        PROVE  Len(journal'[i].state) < Len(journal'[j].state)
    <2>1. i \in DOMAIN journal
      BY <1>2, <1>5
    <2>2. CASE j \in DOMAIN journal
      BY <1>2, <1>5, <2>1, <2>2 DEF JournalInv, JournalFollowsSnapshot
    <2>3. CASE j \notin DOMAIN journal
      BY <1>1, <1>2, <2>1, <2>3
    <2> QED
      BY <2>2, <2>3
  <1>6. ASSUME Readable'
        PROVE  Len(snapshot') - Len(Replayed') <= crashes' + (IF Owing' THEN 1 ELSE 0)
    <2>1. Replayed' = snapshot /\ snapshot' = snapshot
      BY <1>2, <1>6
    <2>2. (IF Owing' THEN 1 ELSE 0) \in Nat /\ crashes' \in Nat
      BY <1>1
    <2>3. Len(snapshot') - Len(Replayed') = 0
      BY <1>1, <2>1
    <2> QED
      BY <2>2, <2>3
  <1> QED
    BY <1>4, <1>5, <1>6 DEF JournalInv, JournalFollowsSnapshot

LEMMA NextJournal ==
    ASSUME TypeOK, WritersInv, JournalInv, [Next]_vars
    PROVE  JournalInv'
  <1>1. /\ snapshot \in State /\ crashes \in Nat /\ pc \in [Process -> Place]
        /\ DOMAIN draft = Process
    BY DEF TypeOK, State, Op
  <1>2. Len(Replayed) \in Nat
    <2> DEFINE L == [state : State, text : Text]
    <2>1. journal \in Seq(L)
      BY DEF TypeOK, State, Op
    <2>2. CASE journal = <<>>
      BY <2>2 DEF Replayed
    <2>3. CASE journal # <<>>
      <3>1. Last(journal) \in L
        <4> HIDE DEF L
        <4> QED
          BY <2>1, <2>3 DEF Last
      <3> QED
        BY <2>3, <3>1 DEF Replayed, State
    <2> QED
      BY <2>2, <2>3
  <1>3. \A p, q \in Process : pc[p] \in {"computed", "replaced"} /\ Writing(q) => p = q
    BY DEF WritersInv, Writing
  <1>4. ASSUME NEW p \in Process, NEW o \in Op, Compute(p, o) PROVE JournalInv'
    <2>1. \A q \in Process : ~Writing(q)
      BY <1>4 DEF Compute, LockIsFree, WritersInv
    <2>2. \A q \in Process : pc'[q] # "replaced" /\ pc[q] # "replaced"
      BY <1>1, <1>4, <2>1 DEF Compute, Writing
    <2>3. UNCHANGED <<snapshot, journal, crashes>> /\ ~Owing
      BY <1>4, <2>2 DEF Compute, Owing
    <2> QED
      BY <1>1, <1>2, <2>2, <2>3, QuietJournal
  <1>5. ASSUME NEW p \in Process, NEW o \in Op, Drop(p, o) PROVE JournalInv'
    BY <1>1, <1>2, <1>5, QuietJournal DEF Drop, Owing
  <1>6. ASSUME NEW p \in Process, VerifyReads(p) \/ VerifyReplays(p) PROVE JournalInv'
    <2>1. /\ UNCHANGED <<snapshot, journal, crashes>> /\ pc[p] # "replaced"
          /\ \A q \in Process : q # p => pc'[q] = pc[q] /\ draft'[q] = draft[q]
          /\ pc'[p] # "replaced"
      BY <1>1, <1>6 DEF VerifyReads, VerifyReplays, Release
    <2>2. Owing' = Owing
      BY <2>1 DEF Owing
    <2> QED
      BY <1>1, <1>2, <2>1, <2>2, QuietJournal
  <1>7. ASSUME NEW p \in Process, Replace(p) PROVE JournalInv'
    <2>1. /\ pc[p] = "computed" /\ op[p] \in Op /\ draft[p] = Append(snapshot, op[p])
          /\ snapshot' = draft[p] /\ UNCHANGED <<journal, draft, crashes>>
      BY <1>7 DEF Replace, WritersInv, Writing
    <2>2. ASSUME NEW q \in Process PROVE pc'[q] = "replaced" <=> q = p
      BY <1>1, <1>3, <1>7, <2>1 DEF Replace, Writing
    <2>3. \A i \in DOMAIN journal :
             /\ IsPrefix(journal[i].state, snapshot') /\ Len(journal[i].state) < Len(snapshot')
      <3>1. TAKE i \in DOMAIN journal
      <3>2. journal[i].state \in State
        <4> DEFINE L == [state : State, text : Text]
        <4>1. journal \in Seq(L)
          BY DEF TypeOK, State, Op
        <4>2. journal[i] \in L
          <5> HIDE DEF L
          <5> QED
            BY <4>1
        <4> QED
          BY <4>2
      <3>3. IsPrefix(journal[i].state, snapshot)
        BY DEF JournalInv, JournalFollowsSnapshot
      <3> QED
        BY <1>1, <2>1, <3>2, <3>3, PrefixGrows
    <2>4. ~Owing /\ Owing'
      BY <1>3, <2>1, <2>2 DEF Owing, Writing
    <2>5. JournalFollowsSnapshot'
      BY <2>1, <2>3 DEF JournalInv, JournalFollowsSnapshot
    <2>6. Readable' => Len(snapshot') - Len(Replayed') <= crashes' + (IF Owing' THEN 1 ELSE 0)
      <3>1. (Readable' = Readable) /\ Replayed' = Replayed /\ Len(snapshot') = Len(snapshot) + 1
            /\ Len(snapshot) \in Nat
        BY <1>1, <2>1 DEF Readable, Replayed, State
      <3>2. Readable => Len(snapshot) - Len(Replayed) <= crashes
        BY <1>1, <2>4 DEF JournalInv
      <3> HIDE DEF Owing, Readable, Replayed
      <3> QED
        BY <1>1, <1>2, <2>1, <2>4, <3>1, <3>2
    <2> QED
      BY <2>1, <2>2, <2>3, <2>5, <2>6 DEF JournalInv
  <1>8. ASSUME NEW p \in Process, NEW reached \in Place, pc[p] = reached, Release(p),
               UNCHANGED snapshot
        PROVE  /\ \A q \in Process : q # p => pc'[q] = pc[q] /\ draft'[q] = draft[q]
               /\ pc'[p] = "idle"
               /\ Writing(p) => \A q \in Process : pc'[q] # "replaced"
    BY <1>1, <1>3, <1>8 DEF Release, Writing
  <1>9. ASSUME NEW p \in Process, AppendEvent(p) PROVE JournalInv'
    BY <1>8, <1>9, PaidJournal DEF AppendEvent, Writing, Place
  <1>10. ASSUME NEW p \in Process, Crash(p) PROVE JournalInv'
    <2>1. pc[p] \in Place /\ Release(p) /\ snapshot' = snapshot /\ crashes' = crashes + 1
      BY <1>1, <1>10 DEF Crash
    <2>2. CASE UNCHANGED journal
      BY <1>1, <1>2, <1>8, <2>1, <2>2, QuietJournal
    <2>3. ASSUME NEW text \in {"torn", "unterminated"}, pc[p] = "replaced",
                 journal' = Written(draft[p], text)
          PROVE  JournalInv'
      BY <1>8, <2>1, <2>3, PaidJournal DEF Writing
    <2> QED
      BY <1>10, <2>2, <2>3 DEF Crash
  <1>11. CASE UNCHANGED vars
    BY <1>1, <1>2, <1>11, QuietJournal DEF vars, Owing
  <1> QED
    BY <1>4, <1>5, <1>6, <1>7, <1>9, <1>10, <1>11 DEF Next, Op

\* However many processes die in a write, the journal is a copy of the
\* snapshot's history in order, and what it lacks are lines that dead
\* processes did not write, one for each at most.
THEOREM JournalStaysBehindSnapshot == Spec => []JournalTrailsSnapshot
  <1>1. TypeOK /\ WritersInv /\ JournalInv => JournalTrailsSnapshot
    <2> SUFFICES ASSUME TypeOK, WritersInv, JournalInv, holder = {}, Readable
                 PROVE  Len(snapshot) - Len(Replayed) <= crashes
      BY DEF JournalInv, JournalTrailsSnapshot, JournalLagsByCrashes
    <2>1. ~Owing
      BY DEF Owing, WritersInv, Writing
    <2>2. crashes \in Nat
      BY DEF TypeOK
    <2> HIDE DEF Owing, Replayed, Readable
    <2> QED
      BY <2>1, <2>2 DEF JournalInv
  <1> QED
    BY <1>1, InitTypeOK, InitWriters, InitJournal, NextTypeOK, NextWriters, NextJournal, PTL
       DEF Spec
=============================================================================
