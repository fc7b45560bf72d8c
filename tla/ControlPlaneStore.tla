------------------------- MODULE ControlPlaneStore --------------------------
(***************************************************************************)
(* The file store under the kernel                                         *)
(* (backend/localforge/control_plane/store.py): a snapshot file that is    *)
(* replaced atomically and a journal file that is appended to, both        *)
(* guarded by one file lock that the operating system drops when its       *)
(* holder dies.  Processes may die between and inside the two writes.      *)
(*                                                                         *)
(* A state of the control plane is abstracted to the sequence of the       *)
(* operations that made it; its revision is the length of the sequence     *)
(* and its applied_operations are the named operations in it.  A mutation  *)
(* that raises or changes nothing writes nothing and is not a step.        *)
(***************************************************************************)
EXTENDS Naturals, Sequences, FiniteSets, SequencesExt

CONSTANTS
    Process,      \* the workers, schedulers, servers and commands
    Operation,    \* operations with an operation_id
    Anonymous,    \* operations without one (sync_tasks, recover_expired_leases)
    MaxRevision,  \* bound on the revisions written
    MaxCrashes    \* bound on the processes that die

ASSUME StoreAssumption == Operation \cap Anonymous = {} /\ MaxRevision \in Nat /\ MaxCrashes \in Nat

VARIABLES
    holder,    \* the processes that hold the file lock
    pc,        \* where each process is inside update or verify_replay
    op,        \* the operation each process is applying
    draft,     \* the state it has computed, or the one verify_replay read
    snapshot,  \* the state file; <<>> when there is none yet
    journal,   \* the lines of the events file
    answered,  \* the operations whose caller got an answer
    verdict,   \* the last answer verify_replay gave each process
    crashes

vars == <<holder, pc, op, draft, snapshot, journal, answered, verdict, crashes>>

Place == {"idle", "computed", "replaced", "verifying"}
Nothing == "nothing"

\* A line is whole, or lacks its newline, or is cut short; a line written
\* behind one of the latter two runs into it and the two are garbled.
Text == {"whole", "unterminated", "torn", "garbled"}

TypeOK ==
    /\ holder \subseteq Process
    /\ pc \in [Process -> Place]
    /\ op \in [Process -> Operation \cup Anonymous \cup {Nothing}]
    /\ draft \in [Process -> Seq(Operation \cup Anonymous)]
    /\ snapshot \in Seq(Operation \cup Anonymous)
    /\ journal \in Seq([state : Seq(Operation \cup Anonymous), text : Text])
    /\ answered \subseteq Operation \cup Anonymous
    /\ verdict \in [Process -> BOOLEAN]
    /\ crashes \in Nat

Init ==
    /\ holder = {}
    /\ pc = [p \in Process |-> "idle"]
    /\ op = [p \in Process |-> Nothing]
    /\ draft = [p \in Process |-> <<>>]
    /\ snapshot = <<>>
    /\ journal = <<>>
    /\ answered = {}
    /\ verdict = [p \in Process |-> TRUE]
    /\ crashes = 0

-----------------------------------------------------------------------------
LockIsFree == holder = {}

Applied_Anything(o) == FALSE
Applied(o) == o \in Operation /\ \E i \in DOMAIN snapshot : snapshot[i] = o

\* update, up to the file writes: lock, read the snapshot, run the mutation.
Compute(p, o) ==
    /\ pc[p] = "idle"
    /\ LockIsFree
    /\ ~Applied(o)
    /\ Len(snapshot) < MaxRevision
    /\ holder' = holder \cup {p}
    /\ pc' = [pc EXCEPT ![p] = "computed"]
    /\ op' = [op EXCEPT ![p] = o]
    /\ draft' = [draft EXCEPT ![p] = Append(snapshot, o)]
    /\ UNCHANGED <<snapshot, journal, answered, verdict, crashes>>

\* update, when the operation id was applied before.
Drop(p, o) ==
    /\ pc[p] = "idle"
    /\ LockIsFree
    /\ Applied(o)
    /\ answered' = answered \cup {o}
    /\ UNCHANGED <<holder, pc, op, draft, snapshot, journal, verdict, crashes>>

\* _write_unlocked: a temporary file takes the place of the snapshot.
Replace(p) ==
    /\ pc[p] = "computed"
    /\ snapshot' = draft[p]
    /\ pc' = [pc EXCEPT ![p] = "replaced"]
    /\ UNCHANGED <<holder, op, draft, journal, answered, verdict, crashes>>

\* What the events file holds once text is written behind what it held.
Written(state, text) ==
    IF journal = <<>> \/ Last(journal).text \in {"whole", "garbled"}
    THEN Append(journal, [state |-> state, text |-> text])
    ELSE [journal EXCEPT ![Len(journal)].text = IF text = "whole" THEN "garbled" ELSE "torn"]

Release(p) ==
    /\ holder' = holder \ {p}
    /\ pc' = [pc EXCEPT ![p] = "idle"]
    /\ op' = [op EXCEPT ![p] = Nothing]
    /\ draft' = [draft EXCEPT ![p] = <<>>]

AppendEvent_OnlyNamed(p) ==
    /\ pc[p] = "replaced"
    /\ journal' = IF op[p] \in Operation THEN Written(draft[p], "whole") ELSE journal
    /\ answered' = answered \cup {op[p]}
    /\ Release(p)
    /\ UNCHANGED <<snapshot, verdict, crashes>>

\* _append_event_unlocked, and the return to the caller.
AppendEvent(p) ==
    /\ pc[p] = "replaced"
    /\ journal' = Written(draft[p], "whole")
    /\ answered' = answered \cup {op[p]}
    /\ Release(p)
    /\ UNCHANGED <<snapshot, verdict, crashes>>

\* The process dies, possibly inside the append: the line may be missing,
\* short, or lack only its newline.  The operating system drops the lock.
Crash_KeepsLock(p) ==
    /\ pc[p] # "idle" /\ crashes < MaxCrashes
    /\ crashes' = crashes + 1
    /\ pc' = [pc EXCEPT ![p] = "idle"]
    /\ op' = [op EXCEPT ![p] = Nothing]
    /\ UNCHANGED <<holder, draft, snapshot, journal, answered, verdict>>

Crash(p) ==
    /\ pc[p] # "idle" /\ crashes < MaxCrashes
    /\ crashes' = crashes + 1
    /\ \/ UNCHANGED journal
       \/ /\ pc[p] = "replaced"
          /\ \E text \in {"torn", "unterminated"} : journal' = Written(draft[p], text)
    /\ Release(p)
    /\ UNCHANGED <<snapshot, answered, verdict>>

-----------------------------------------------------------------------------
\* replay: the state of the last line, when every line can be parsed.
Readable == \A i \in DOMAIN journal : journal[i].text \in {"whole", "unterminated"}
Replayed == IF journal = <<>> THEN <<>> ELSE Last(journal).state

\* verify_replay reads the snapshot and then, under a lock of its own, the
\* journal.
VerifyReads(p) ==
    /\ pc[p] = "idle"
    /\ LockIsFree
    /\ draft' = [draft EXCEPT ![p] = snapshot]
    /\ pc' = [pc EXCEPT ![p] = "verifying"]
    /\ UNCHANGED <<holder, op, snapshot, journal, answered, verdict, crashes>>

VerifyReplays(p) ==
    /\ pc[p] = "verifying"
    /\ LockIsFree
    /\ verdict' = [verdict EXCEPT ![p] = Readable /\ Replayed = draft[p]]
    /\ Release(p)
    /\ UNCHANGED <<snapshot, journal, answered, crashes>>

Next == \E p \in Process :
           \/ \E o \in Operation \cup Anonymous : Compute(p, o) \/ Drop(p, o)
           \/ VerifyReads(p) \/ VerifyReplays(p)
           \/ Replace(p) \/ AppendEvent(p)
           \/ Crash(p)

Spec == Init /\ [][Next]_vars

\* A process that lives carries on with the update it is in.
FairSpec == Spec /\ \A p \in Process : WF_vars(Replace(p)) /\ WF_vars(AppendEvent(p))

-----------------------------------------------------------------------------
(***************************************************************************)
(* Properties.                                                             *)
(***************************************************************************)

\* The journal never holds a state the snapshot did not go through: what the
\* lines say is a prefix of the history of the snapshot, oldest first.
JournalFollowsSnapshot ==
    /\ \A i \in DOMAIN journal : IsPrefix(journal[i].state, snapshot)
    /\ \A i, j \in DOMAIN journal : i < j => Len(journal[i].state) < Len(journal[j].state)

\* Between updates the snapshot is ahead of a readable journal only by updates
\* whose process died in the write, one for each that died.
JournalLagsByCrashes ==
    holder = {} /\ Readable => Len(snapshot) - Len(Replayed) <= crashes

\* The journal is a copy of the snapshot's history, whole but for the lines that
\* dead processes did not write (update, _append_event_unlocked).
JournalTrailsSnapshot == TypeOK /\ JournalFollowsSnapshot /\ JournalLagsByCrashes

\* A process that dies in an update does not leave the store locked.
StoreStaysUsable == \A p \in Process : p \in holder ~> holder = {}

\* The store implements the log of operations, through deaths and retries.
Log == INSTANCE OperationLog WITH log <- snapshot
ImplementsOperationLog == Log!Spec
=============================================================================
