----------------------- MODULE EngineeringContinuity ------------------------
(***************************************************************************)
(* One engineering session, its goals and its timeline of turns            *)
(* (services/engineering.py), under requests that overlap.                 *)
(*                                                                         *)
(* A request reads the session, decides, and writes in one transaction.    *)
(* Reads open no transaction in SQLite and nothing compares a revision at  *)
(* the write, so that what a request writes may rest on a session, a goal  *)
(* or a count that others have changed since; the unique keys of the turns *)
(* are all that the database checks.                                       *)
(***************************************************************************)
EXTENDS Naturals, Sequences, FiniteSets

CONSTANTS
    Requests,      \* bound: requests in progress at once
    Keys,          \* idempotency keys of turns
    MaxTurns,      \* max_turns of the session
    MaxGoals,      \* bound: goals created
    MaxGoalRevision \* bound: revisions of a goal

ASSUME EngineeringAssumption ==
    /\ IsFiniteSet(Requests)
    /\ MaxTurns \in Nat \ {0} /\ MaxGoals \in Nat /\ MaxGoalRevision \in Nat \ {0}

SessionStatus == {"DRAFT", "ACTIVE", "PAUSED", "BLOCKED", "COMPLETED", "CANCELLED"}

Closed == {"COMPLETED", "CANCELLED"}

TRANSITIONS == [s \in SessionStatus |->
    CASE s = "DRAFT" -> {"ACTIVE", "CANCELLED"}
      [] s = "ACTIVE" -> {"PAUSED", "BLOCKED", "COMPLETED", "CANCELLED"}
      [] s \in {"PAUSED", "BLOCKED"} -> {"ACTIVE", "CANCELLED"}
      [] s \in Closed -> {}]

VARIABLES
    session,   \* its status and its current goal, 0 for none
    goals,     \* the goals created, in order
    turns,     \* the admitted turns
    request    \* what each request has read, and what it is about to write

engineeringVars == <<session, goals, turns, request>>

Session == [status : SessionStatus, goal : 0 .. MaxGoals]
Goal == [status : SessionStatus, revision : 1 .. MaxGoalRevision, history : Seq(Nat)]
Turn == [sequence : Nat, key : Keys, goal : 0 .. MaxGoals, revision : 0 .. MaxGoalRevision]

Idle == [op |-> "none"]

(* What a request carries from its reading to its writing.                  *)
Pending == [op : {"transition"}, read : Session, to : SessionStatus]
  \cup [op : {"create_goal"}, read : Session]
  \cup [op : {"revise_goal"}, read : Session, id : 1 .. MaxGoals, goal : Goal]
  \cup [op : {"admit"}, read : Session, key : Keys]
  \cup [op : {"numbered"}, read : Session, turn : Turn]

SessionTypeOK ==
    /\ session \in Session /\ session.goal <= Len(goals)
    /\ goals \in Seq(Goal) /\ Len(goals) <= MaxGoals
    /\ turns \subseteq Turn
    /\ request \in [Requests -> Pending \cup {Idle}]
    /\ turns # {} => session.status # "DRAFT"

EngineeringInit ==
    /\ session = [status |-> "DRAFT", goal |-> 0]
    /\ goals = <<>> /\ turns = {}
    /\ request = [r \in Requests |-> Idle]

-----------------------------------------------------------------------------
(* Reading: the early returns and the refusals are guards. *)

Begin(r, job) ==
    /\ request[r] = Idle
    /\ request' = [request EXCEPT ![r] = job]
    /\ UNCHANGED <<session, goals, turns>>

BeginTransition(r, to) ==
    /\ to \in TRANSITIONS[session.status]
    /\ Begin(r, [op |-> "transition", read |-> session, to |-> to])

BeginCreateGoal(r) ==
    /\ session.goal = 0 /\ session.status \notin Closed
    /\ Begin(r, [op |-> "create_goal", read |-> session])

BeginReviseGoal(r, g) ==
    /\ session.status \notin Closed /\ goals[g].revision < MaxGoalRevision
    /\ Begin(r, [op |-> "revise_goal", read |-> session, id |-> g, goal |-> goals[g]])

WithinLimit(count) == count < MaxTurns

BeginAdmit(r, k) ==
    /\ \A t \in turns : t.key # k
    /\ session.status \notin Closed /\ WithinLimit(Cardinality(turns))
    /\ Begin(r, [op |-> "admit", read |-> session, key |-> k])

LastSequence == IF turns = {} THEN 0
                ELSE CHOOSE n \in {t.sequence : t \in turns} : \A t \in turns : t.sequence <= n

(* The goal and then the last sequence are read after the limit.            *)
ReadSequence(r) ==
    /\ request[r].op = "admit"
    /\ LET g == request[r].read.goal IN
       request' = [request EXCEPT ![r] =
           [op |-> "numbered", read |-> request[r].read,
            turn |-> [sequence |-> LastSequence + 1, key |-> request[r].key, goal |-> g,
                      revision |-> IF g = 0 THEN 0 ELSE goals[g].revision]]]
    /\ UNCHANGED <<session, goals, turns>>

-----------------------------------------------------------------------------
(* Writing: only the columns a request has changed are written. *)

End(r) == request' = [request EXCEPT ![r] = Idle]

GoalStatus(g, s) == goals' = IF g = 0 THEN goals ELSE [goals EXCEPT ![g].status = s]

WriteTransition(r) ==
    /\ request[r].op = "transition"
    /\ session' = [session EXCEPT !.status = request[r].to]
    /\ GoalStatus(request[r].read.goal, request[r].to)
    /\ End(r) /\ UNCHANGED turns

WriteCreateGoal(r) ==
    /\ request[r].op = "create_goal" /\ Len(goals) < MaxGoals
    /\ goals' = Append(goals, [status |-> request[r].read.status, revision |-> 1, history |-> <<>>])
    /\ session' = [session EXCEPT !.goal = Len(goals) + 1]
    /\ End(r) /\ UNCHANGED turns

Revised_New(goal) ==
    [goal EXCEPT !.revision = goal.revision + 1, !.history = Append(goal.history, goal.revision + 1)]

Revised(goal) ==
    [goal EXCEPT !.revision = goal.revision + 1, !.history = Append(goal.history, goal.revision)]

WriteReviseGoal(r) ==
    /\ request[r].op = "revise_goal"
    /\ LET revised == Revised(request[r].goal) IN
       goals' = [goals EXCEPT ![request[r].id].revision = revised.revision,
                              ![request[r].id].history = revised.history]
    /\ End(r) /\ UNCHANGED <<session, turns>>

Unique_KeyOnly(turn) == \A t \in turns : t.key # turn.key

(* uq_engineering_turn_session_sequence, uq_engineering_turn_idempotency *)
Unique(turn) == \A t \in turns : t.sequence # turn.sequence /\ t.key # turn.key

Activate(r) ==
    IF request[r].read.status = "DRAFT"
    THEN /\ session' = [session EXCEPT !.status = "ACTIVE"]
         /\ GoalStatus(request[r].read.goal, "ACTIVE")
    ELSE UNCHANGED <<session, goals>>

WriteTurn(r) ==
    /\ request[r].op = "numbered" /\ Unique(request[r].turn)
    /\ turns' = turns \cup {request[r].turn}
    /\ Activate(r) /\ End(r)

(* The unique keys refuse the turn, or the process dies: all is rolled back. *)
Aborts(r) ==
    /\ request[r] # Idle
    /\ End(r) /\ UNCHANGED <<session, goals, turns>>

EngineeringNext == \E r \in Requests :
    \/ \E s \in SessionStatus : BeginTransition(r, s)
    \/ BeginCreateGoal(r) \/ \E g \in DOMAIN goals : BeginReviseGoal(r, g)
    \/ \E k \in Keys : BeginAdmit(r, k)
    \/ ReadSequence(r)
    \/ WriteTransition(r) \/ WriteCreateGoal(r) \/ WriteReviseGoal(r) \/ WriteTurn(r)
    \/ Aborts(r)

EngineeringSpec == EngineeringInit /\ [][EngineeringNext]_engineeringVars

-----------------------------------------------------------------------------
(* Properties. *)

(* However requests overlap, the timeline has no gap and no sequence or key *)
(* twice (admit_turn against the unique keys of the turns).                 *)
TimelineIsGapless ==
    /\ {t.sequence : t \in turns} = 1 .. Cardinality(turns)
    /\ \A t, u \in turns : t.key = u.key => t = u

(* The limit is read before the turn is written: the requests in progress   *)
(* beside the one that reaches it may each exceed it by one, and no more.   *)
LimitOverrunIsBounded == Cardinality(turns) <= MaxTurns + Cardinality(Requests) - 1

(* What overlapping requests may do to the timeline of a session.           *)
AdmissionsAreOrdered == SessionTypeOK /\ TimelineIsGapless /\ LimitOverrunIsBounded

(* A goal remembers every revision that leads to its own, whatever revision *)
(* an overlapping request has overwritten (revise_goal).                    *)
HistoryIsComplete ==
    \A g \in DOMAIN goals : goals[g].history = [i \in 1 .. goals[g].revision - 1 |-> i]

=============================================================================
