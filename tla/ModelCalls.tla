----------------------------- MODULE ModelCalls -----------------------------
(***************************************************************************)
(* The ledger of model calls of one run (services/model_calls.py) between  *)
(* the pipeline that asks the Chief Engineer, in one long unit of work,    *)
(* and the heartbeats and requests whose short units of work begin and end *)
(* meanwhile in the same process (storage/transactions.py).                *)
(*                                                                         *)
(* A recorded call is flushed into the open transaction of the pipeline    *)
(* and kept, besides, in a buffer that belongs to the class: a unit of     *)
(* work that ends with an exception writes the buffer down again after its *)
(* rollback, and every unit of work that ends, of whatever kind, empties   *)
(* it.  The budget of a run is checked against the entries of the ledger   *)
(* that the transaction of the pipeline can see.                           *)
(***************************************************************************)
EXTENDS Naturals, FiniteSets

CONSTANTS
    MaxCalls,   \* bound: calls made in a behaviour
    Limit,      \* resource_limits: max_gateway_calls or max_paid_calls
    Ladder,     \* models that the single-document repair tries on one check
    Others      \* heartbeats and requests of the process

ASSUME CallsAssumption ==
    /\ MaxCalls \in Nat /\ Limit \in Nat /\ Ladder \in Nat \ {0}
    /\ IsFiniteSet(Others) /\ "pipeline" \notin Others

Call == 1 .. MaxCalls
Unit == Others \cup {"pipeline"}

VARIABLES
    entries,      \* committed ledger entries of each call
    flushed,      \* calls in the open transaction of the pipeline
    buffer,       \* _pending_calls, shared by all units of work
    leaving,      \* units of work that are writing the buffer down
    copied,       \* what each of them has taken from the buffer
    lane,         \* what the pipeline is doing
    left,         \* models it may still try on the last check
    made,         \* calls made so far; the last one may be outstanding
    chief,        \* those made by the Chief Engineer
    unaccounted   \* calls that the process is known to have lost sight of

callVars == <<entries, flushed, buffer, leaving, copied, lane, left, made, chief, unaccounted>>

Asking == {"plan", "section", "single"}
Lane == {"closed", "idle"} \cup Asking

CallsTypeOK ==
    /\ entries \in [Call -> Nat]
    /\ flushed \in SUBSET (1 .. made) /\ buffer \in SUBSET (1 .. made)
    /\ leaving \in SUBSET Unit /\ copied \in [Unit -> SUBSET (1 .. made)]
    /\ lane \in Lane /\ left \in 0 .. Ladder /\ made \in 0 .. MaxCalls
    /\ chief \in SUBSET (1 .. made) /\ unaccounted \in SUBSET (1 .. made)
    /\ lane = "closed" => flushed = {}
    /\ "pipeline" \in leaving => lane = "closed"
    /\ lane # "single" => left = 0

CallsInit ==
    /\ entries = [c \in Call |-> 0]
    /\ flushed = {} /\ buffer = {}
    /\ leaving = {} /\ copied = [u \in Unit |-> {}]
    /\ lane = "closed" /\ left = 0
    /\ made = 0 /\ chief = {} /\ unaccounted = {}

-----------------------------------------------------------------------------
(* The budget.  _run_totals counts entries: one written twice counts twice. *)

Rows == UNION {{c} \X (1 .. entries[c]) : c \in Call}

Entries == Cardinality(Rows)

EnsureBudget_OffByOne(seen) == seen <= Limit

EnsureBudget(seen) == seen + 1 <= Limit

Committed(calls) == [c \in Call |-> entries[c] + (IF c \in calls THEN 1 ELSE 0)]

Dispatch(kind, tries) ==
    /\ made < MaxCalls
    /\ made' = made + 1 /\ chief' = chief \cup {made + 1}
    /\ lane' = kind /\ left' = tries

-----------------------------------------------------------------------------
(* The pipeline and its unit of work. *)

Open ==
    /\ lane = "closed" /\ "pipeline" \notin leaving
    /\ lane' = "idle"
    /\ UNCHANGED <<entries, flushed, buffer, leaving, copied, left, made, chief, unaccounted>>

(* review_contract, the final review and one model of a semantic repair;    *)
(* and one section of a segmented visual repair.  Each call has its check.  *)
Ask(kind) ==
    /\ lane = "idle" /\ EnsureBudget(Entries + Cardinality(flushed))
    /\ Dispatch(kind, 0)
    /\ UNCHANGED <<entries, flushed, buffer, leaving, copied, unaccounted>>

(* The single-document repair rolls its transaction back before it checks   *)
(* the budget, and may then try every model of the ladder.                  *)
AskSingle ==
    /\ lane = "idle"
    /\ flushed' = {} /\ unaccounted' = unaccounted \cup flushed
    /\ \/ EnsureBudget(Entries) /\ Dispatch("single", Ladder - 1)
       \/ ~ EnsureBudget(Entries) /\ UNCHANGED <<lane, left, made, chief>>
    /\ UNCHANGED <<entries, buffer, leaving, copied>>

Record(c) == flushed' = flushed \cup {c} /\ buffer' = buffer \cup {c}

(* A call answers or fails, and is recorded in both cases. *)
AnswerPlan ==
    /\ lane = "plan" /\ lane' = "idle"
    /\ Record(made)
    /\ UNCHANGED <<entries, leaving, copied, left, made, chief, unaccounted>>

AnswerSection ==
    /\ lane = "section" /\ lane' = "idle"
    /\ buffer' = buffer \cup {made}
    /\ entries' = Committed(flushed \cup {made}) /\ flushed' = {}
    /\ UNCHANGED <<leaving, copied, left, made, chief, unaccounted>>

AnswerSingle(success) ==
    /\ lane = "single" /\ Record(made)
    /\ \/ (success \/ left = 0) /\ lane' = "idle" /\ left' = 0 /\ UNCHANGED <<made, chief>>
       \/ ~ success /\ left > 0 /\ Dispatch("single", left - 1)
    /\ UNCHANGED <<entries, leaving, copied, unaccounted>>

(* The repair step is cancelled at its deadline: what it has asked for is   *)
(* no exception the repair handles, and the call is not recorded.           *)
Cancelled ==
    /\ lane \in Asking
    /\ lane' = "idle" /\ left' = 0 /\ unaccounted' = unaccounted \cup {made}
    /\ UNCHANGED <<entries, flushed, buffer, leaving, copied, made, chief>>

(* A local worker of the same provider is recorded and never checked. *)
LocalCall ==
    /\ lane = "idle" /\ made < MaxCalls
    /\ made' = made + 1 /\ Record(made + 1)
    /\ UNCHANGED <<entries, leaving, copied, lane, left, chief, unaccounted>>

Checkpoint ==
    /\ lane = "idle" /\ flushed # {}
    /\ entries' = Committed(flushed) /\ flushed' = {}
    /\ UNCHANGED <<buffer, leaving, copied, lane, left, made, chief, unaccounted>>

Succeed ==
    /\ lane = "idle" /\ lane' = "closed"
    /\ entries' = Committed(flushed) /\ flushed' = {} /\ buffer' = {}
    /\ UNCHANGED <<leaving, copied, left, made, chief, unaccounted>>

Fail_ClearsFirst ==
    /\ lane = "idle" /\ lane' = "closed"
    /\ flushed' = {} /\ buffer' = {}
    /\ leaving' = leaving \cup {"pipeline"}
    /\ UNCHANGED <<entries, copied, left, made, chief, unaccounted>>

(* An exception ends the pipeline: rollback, then the buffer is taken.      *)
Fail ==
    /\ lane = "idle" /\ lane' = "closed"
    /\ flushed' = {}
    /\ leaving' = leaving \cup {"pipeline"} /\ copied' = [copied EXCEPT !["pipeline"] = buffer]
    /\ UNCHANGED <<entries, buffer, left, made, chief, unaccounted>>

-----------------------------------------------------------------------------
(* The other units of work. *)

(* Emptying the buffer leaves a call that is only in the open transaction   *)
(* of the pipeline without a second copy.                                   *)
Clear ==
    /\ buffer' = {}
    /\ unaccounted' = unaccounted \cup {c \in buffer : entries[c] = 0}

OtherExits(u) ==
    /\ u \notin leaving /\ buffer # {}
    /\ Clear
    /\ UNCHANGED <<entries, flushed, leaving, copied, lane, left, made, chief>>

OtherFails(u) ==
    /\ u \notin leaving /\ buffer # {}
    /\ leaving' = leaving \cup {u} /\ copied' = [copied EXCEPT ![u] = buffer]
    /\ UNCHANGED <<entries, flushed, buffer, lane, left, made, chief, unaccounted>>

Left(u) == leaving' = leaving \ {u} /\ copied' = [copied EXCEPT ![u] = {}]

(* The copies are committed once no other writer holds the database.        *)
Persist(u) ==
    /\ u \in leaving /\ flushed = {}
    /\ entries' = Committed(copied[u])
    /\ Left(u) /\ buffer' = {}
    /\ unaccounted' = unaccounted \cup {c \in buffer : entries'[c] = 0}
    /\ UNCHANGED <<flushed, lane, left, made, chief>>

(* The pipeline holds it for longer than the driver waits: the failure is   *)
(* logged, and the buffer emptied all the same.                             *)
Locked(u) ==
    /\ u \in leaving /\ flushed # {}
    /\ Left(u) /\ Clear
    /\ UNCHANGED <<entries, flushed, lane, left, made, chief>>

(* The process dies, with the buffer, the copies and the transaction.       *)
Dies ==
    /\ lane # "closed" \/ leaving # {}
    /\ unaccounted' = unaccounted \cup {c \in 1 .. made : entries[c] = 0}
    /\ flushed' = {} /\ buffer' = {} /\ lane' = "closed" /\ left' = 0
    /\ leaving' = {} /\ copied' = [u \in Unit |-> {}]
    /\ UNCHANGED <<entries, made, chief>>

CallsNext ==
    \/ Open \/ Ask("plan") \/ Ask("section") \/ AskSingle
    \/ AnswerPlan \/ AnswerSection \/ \E s \in BOOLEAN : AnswerSingle(s)
    \/ Cancelled \/ LocalCall \/ Checkpoint \/ Succeed \/ Fail
    \/ \E u \in Others : OtherExits(u) \/ OtherFails(u)
    \/ \E u \in Unit : Persist(u) \/ Locked(u)
    \/ Dies

CallsSpec == CallsInit /\ [][CallsNext]_callVars

-----------------------------------------------------------------------------
(* Properties. *)

(* What the Chief Engineer has asked for exceeds the limit of the run by no *)
(* more than the rest of one ladder, save for calls of which the process    *)
(* lost sight (ensure_budget against record_call, rollback and clear).      *)
BudgetHolds == Cardinality(chief \ unaccounted) <= Limit + Ladder - 1

(* A recorded call is in the ledger, in the open transaction, in the buffer *)
(* or in the hands of a unit of work that is writing it down, unless the    *)
(* process lost sight of it (__aexit__: rollback, persist, then clear).     *)
EvidenceIsKept ==
    \A c \in 1 .. made :
        \/ entries[c] > 0 \/ c \in flushed \cup buffer \cup unaccounted
        \/ \E u \in leaving : c \in copied[u]
        \/ c = made /\ lane \in Asking

(* A call that a checkpoint has committed is written again by each unit of  *)
(* work that failed while it was in the buffer, and by no other.            *)
EntriesAreBounded == \A c \in Call : entries[c] <= 2 + Cardinality(Others)

(* No recorded call is lost and none is written without end (record_call,   *)
(* _persist_pending_model_calls).                                           *)
LedgerIsComplete == CallsTypeOK /\ EvidenceIsKept /\ EntriesAreBounded

=============================================================================
