-------------------------- MODULE HarnessDocument ---------------------------
(***************************************************************************)
(* The durable harness state of a project (runtime/harness_state.py): one  *)
(* JSON document that local processes change under a file lock, after they *)
(* have written the document as it was to a numbered snapshot and to a     *)
(* backup, and the registry of subagents (runtime/subagents.py) that reads *)
(* an entry in one locked section and puts it back in another.             *)
(*                                                                         *)
(* Each file is replaced atomically; a process may die, or a write raise,  *)
(* between two of them.                                                    *)
(***************************************************************************)
EXTENDS Naturals, Sequences, FiniteSets

CONSTANTS
    Writers,       \* local processes
    Ids,           \* identifiers of entries
    Values,        \* content of entries that are no subagents
    Inputs,        \* bound: entries the upsert route is given
    Moves,         \* bound: statuses the transition route is given
    MaxRevision,   \* bound: revisions of the document
    MaxFiles       \* bound: snapshot files, those left by a death included


SubagentStatus ==
    {"PENDING", "RUNNING", "PAUSED", "COMPLETED", "FAILED", "BLOCKED", "CANCELLED"}

TERMINAL == {"COMPLETED", "FAILED", "BLOCKED", "CANCELLED"}

(* Base entries and system prompts are never supplemental.  The content of  *)
(* the entry of a subagent is its record, here the status.                  *)
Entry == [kind : {"memory", "subagent"}, supplemental : BOOLEAN, content : Values \cup SubagentStatus]

NoEntry == [kind |-> "none"]

ASSUME HarnessAssumption ==
    /\ MaxRevision \in Nat /\ MaxFiles \in Nat
    /\ Inputs \subseteq Entry /\ Moves \subseteq SubagentStatus

Document == [revision : Nat, entries : [Ids -> Entry \cup {NoEntry}], snapshot_files : Seq(Nat)]

EmptyDocument ==
    [revision |-> 0, entries |-> [i \in Ids |-> NoEntry], snapshot_files |-> <<>>]

VARIABLES
    document,   \* harness_state.json
    files,      \* the snapshot files: a function from their numbers
    backup,     \* harness_state.json.bak
    holder,     \* the processes inside _process_lock
    job,        \* the mutation each process is in the middle of
    wish,       \* entries the registry of a process is about to put
    past        \* history: the documents that were replaced, in order

harnessVars == <<document, files, backup, holder, job, wish, past>>

NoJob == [at |-> "none"]
Job == [at : {"snapshot", "backup", "commit"}, current : Document, updated : Document, name : Nat]

NoWish == [id |-> "none"]

HarnessTypeOK ==
    /\ document \in Document /\ backup \in Document
    /\ DOMAIN files \subseteq 1 .. MaxFiles /\ \A n \in DOMAIN files : files[n] \in Document
    /\ holder \in SUBSET Writers
    /\ job \in [Writers -> Job \cup {NoJob}]
    /\ wish \in [Writers -> [id : Ids, entry : Entry] \cup {NoWish}]
    /\ past \in Seq(Document)

HarnessInit ==
    /\ document = EmptyDocument /\ backup = EmptyDocument
    /\ files = [n \in {} |-> EmptyDocument]
    /\ holder = {}
    /\ job = [w \in Writers |-> NoJob] /\ wish = [w \in Writers |-> NoWish]
    /\ past = <<>>

-----------------------------------------------------------------------------
(* The locked sections. *)

LockIsFree == holder = {}

Enter(w, entries) ==
    /\ LockIsFree /\ document.revision < MaxRevision
    /\ holder' = holder \cup {w}
    /\ job' = [job EXCEPT ![w] =
           [at |-> "snapshot", current |-> document,
            updated |-> [document EXCEPT !.entries = entries], name |-> 0]]
    /\ UNCHANGED <<document, files, backup, past>>

Free(w) == job[w] = NoJob /\ wish[w] = NoWish

Upsert(w, i, e) ==
    /\ Free(w)
    /\ Enter(w, [document.entries EXCEPT ![i] = e]) /\ UNCHANGED wish

Delete(w, i) ==
    /\ Free(w) /\ document.entries[i] # NoEntry
    /\ Enter(w, [document.entries EXCEPT ![i] = NoEntry]) /\ UNCHANGED wish

Refine(w, i, v) ==
    /\ Free(w) /\ document.entries[i] # NoEntry /\ document.entries[i].supplemental
    /\ Enter(w, [document.entries EXCEPT ![i].content = v]) /\ UNCHANGED wish

NextNumber_Last == IF DOMAIN files = {} THEN 1
                   ELSE CHOOSE n \in DOMAIN files : \A m \in DOMAIN files : m <= n

NextNumber == 1 + (IF DOMAIN files = {} THEN 0
               ELSE CHOOSE n \in DOMAIN files : \A m \in DOMAIN files : m <= n)

WriteSnapshot(w) ==
    /\ job[w] # NoJob /\ job[w].at = "snapshot" /\ NextNumber <= MaxFiles
    /\ files' = [n \in DOMAIN files \cup {NextNumber} |->
                    IF n = NextNumber THEN job[w].current ELSE files[n]]
    /\ job' = [job EXCEPT ![w] = [job[w] EXCEPT !.at = "backup", !.name = NextNumber]]
    /\ UNCHANGED <<document, backup, holder, wish, past>>

WriteBackup(w) ==
    /\ job[w] # NoJob /\ job[w].at = "backup"
    /\ backup' = job[w].current
    /\ job' = [job EXCEPT ![w] = [job[w] EXCEPT !.at = "commit"]]
    /\ UNCHANGED <<document, files, holder, wish, past>>

Commit(w) ==
    /\ job[w] # NoJob /\ job[w].at = "commit"
    /\ document' = [job[w].updated EXCEPT
           !.revision = job[w].current.revision + 1,
           !.snapshot_files = Append(job[w].current.snapshot_files, job[w].name)]
    /\ past' = Append(past, document)
    /\ holder' = holder \ {w} /\ job' = [job EXCEPT ![w] = NoJob]
    /\ UNCHANGED <<files, backup, wish>>

(* The process dies, or a write raises: the lock is given back, and the     *)
(* files that were written stay.                                            *)
Fails(w) ==
    /\ job[w] # NoJob \/ wish[w] # NoWish
    /\ holder' = holder \ {w}
    /\ job' = [job EXCEPT ![w] = NoJob] /\ wish' = [wish EXCEPT ![w] = NoWish]
    /\ UNCHANGED <<document, files, backup, past>>

-----------------------------------------------------------------------------
(* The registry of subagents: get, decide, put. *)

Subagent(s) == [kind |-> "subagent", supplemental |-> TRUE, content |-> s]

Wish(w, i, s) ==
    /\ LockIsFree /\ Free(w)
    /\ wish' = [wish EXCEPT ![w] = [id |-> i, entry |-> Subagent(s)]]
    /\ UNCHANGED <<document, files, backup, holder, job, past>>

Register(w, i) == document.entries[i].kind # "subagent" /\ Wish(w, i, "PENDING")

Transition(w, i, s) ==
    /\ document.entries[i].kind = "subagent"
    /\ document.entries[i].content \in SubagentStatus \ TERMINAL
    /\ Wish(w, i, s)

PutRecord(w) ==
    /\ wish[w] # NoWish /\ job[w] = NoJob
    /\ Enter(w, [document.entries EXCEPT ![wish[w].id] = wish[w].entry])
    /\ wish' = [wish EXCEPT ![w] = NoWish]

HarnessNext == \E w \in Writers :
    \/ \E i \in Ids, e \in Inputs : Upsert(w, i, e)
    \/ \E i \in Ids : Delete(w, i) \/ Register(w, i)
    \/ \E i \in Ids, v \in Values : Refine(w, i, v)
    \/ \E i \in Ids, s \in Moves : Transition(w, i, s)
    \/ PutRecord(w)
    \/ WriteSnapshot(w) \/ WriteBackup(w) \/ Commit(w) \/ Fails(w)

HarnessSpec == HarnessInit /\ [][HarnessNext]_harnessVars

-----------------------------------------------------------------------------
(* Properties. *)

(* The i-th name in the document is the file of the document that the i-th  *)
(* change replaced, whatever died in between and however many processes     *)
(* write (_snapshot_unlocked, _commit_unlocked).                            *)
RollbackExists ==
    /\ Len(document.snapshot_files) = document.revision /\ Len(past) = document.revision
    /\ \A i \in 1 .. document.revision :
           /\ document.snapshot_files[i] \in DOMAIN files
           /\ files[document.snapshot_files[i]] = past[i]

(* The backup is the document or its last predecessor, so that one of two   *)
(* files gives what was last answered (the order of the three writes).      *)
BackupIsFresh ==
    \/ backup = document
    \/ document.revision > 0 /\ backup = past[Len(past)]

(* The present document, the one before it and each one that a revision    *)
(* replaced are all on disk.                                                *)
HistoryIsOnDisk == HarnessTypeOK /\ RollbackExists /\ BackupIsFresh

=============================================================================
