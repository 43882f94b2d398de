----------------------------- MODULE TaskIntake -----------------------------
(***************************************************************************)
(* The intake of POST /api/task: create_task and                           *)
(* create_task_from_requirement, one transaction each.  A client whose     *)
(* request fails, or whose answer is lost, sends the request again.  The   *)
(* database is PostgreSQL: the number of a task is drawn from a sequence   *)
(* that no rollback resets, and an INSERT whose key another transaction    *)
(* has just inserted waits for the end of that transaction.                *)
(*                                                                         *)
(* The requests are valid: the checks of type and title come before the    *)
(* first statement and leave no trace.                                     *)
(***************************************************************************)
EXTENDS Naturals, FiniteSets

CONSTANTS
    Client,
    Requirement,  \* the clients that submit a requirement
    Key,          \* Key[c]: the idempotency_key that c sends
    NoKey,
    MaxFaults     \* bound on failures, for model checking only

ASSUME IntakeAssumption ==
    /\ Requirement \subseteq Client
    /\ MaxFaults \in Nat

VARIABLES
    tasks,         \* committed rows of task, as [number, key, linked]
    requirements,  \* committed rows of requirement, by the number of their task
    last,          \* the last number drawn
    pc,            \* where the request of a client is
    number,        \* the number its transaction has drawn
    answer,        \* the last answer a client got
    faults

session == <<pc, number>>
intakeVars == <<tasks, requirements, last, session, answer, faults>>

Numbers == {t.number : t \in tasks}
Keyed(c) == Key[c] # NoKey
Taken(c) == \/ Keyed(c) /\ \E t \in tasks : t.key = Key[c]
            \/ number[c] \in Numbers

\* Another transaction has inserted the same key or number and is still open.
Contested(c) ==
    \E d \in Client \ {c} :
        /\ pc[d] = "inserted"
        /\ \/ Keyed(c) /\ Key[d] = Key[c]
           \/ number[d] = number[c]

Init ==
    /\ tasks = {}
    /\ requirements = {}
    /\ last = 0
    /\ pc = [c \in Client |-> "idle"]
    /\ number = [c \in Client |-> 0]
    /\ answer = [c \in Client |-> "none"]
    /\ faults = 0

Goto(c, next) == pc' = [pc EXCEPT ![c] = next]

\* The request ends; an open transaction is rolled back with its session.
Answer(c, code) ==
    /\ Goto(c, "idle")
    /\ number' = [number EXCEPT ![c] = 0]
    /\ answer' = [answer EXCEPT ![c] = code]
---------------------------------------------------------------------------
\* A first request, or another one after an error or a lost answer.
Post(c) ==
    /\ pc[c] = "idle"
    /\ answer[c] \in {"none", "500", "lost"}
    /\ Goto(c, IF c \in Requirement THEN "requirement" ELSE "task")
    /\ UNCHANGED <<tasks, requirements, last, number, answer, faults>>

\* Mutant of FlushRequirement: create_requirement is called, which commits.
CommitRequirement(c) ==
    /\ pc[c] = "requirement"
    /\ Goto(c, "task")
    /\ requirements' = requirements \cup {last + 1}
    /\ UNCHANGED <<tasks, last, number, answer, faults>>

\* The flush of the requirement, which gets its id.
FlushRequirement(c) ==
    /\ pc[c] = "requirement"
    /\ Goto(c, "task")
    /\ UNCHANGED <<tasks, requirements, last, number, answer, faults>>

\* Mutant of NextNumber: the fallback for SQLite.
NextNumberOfRows == IF tasks = {} THEN 1
                    ELSE 1 + CHOOSE n \in Numbers : \A m \in Numbers : m <= n

NextNumber == last + 1

\* The INSERT of the task draws a number before it looks at the indexes.
DrawNumber(c) ==
    /\ pc[c] = "task"
    /\ number' = [number EXCEPT ![c] = NextNumber]
    /\ last' = NextNumber
    /\ Goto(c, "insert")
    /\ UNCHANGED <<tasks, requirements, answer, faults>>

\* Mutant of InsertTask: no unique index on the key.
InsertTaskUnchecked(c) ==
    /\ pc[c] = "insert"
    /\ Goto(c, "inserted")
    /\ UNCHANGED <<tasks, requirements, last, number, answer, faults>>

InsertTask(c) ==
    /\ pc[c] = "insert"
    /\ ~Contested(c)
    /\ ~Taken(c)
    /\ Goto(c, "inserted")
    /\ UNCHANGED <<tasks, requirements, last, number, answer, faults>>

\* IntegrityError: the transaction is rolled back.  With a key in the request
\* the error is taken for a duplicate of that key.
RejectDuplicate(c) ==
    /\ pc[c] = "insert"
    /\ ~Contested(c)
    /\ Taken(c)
    /\ Answer(c, IF Keyed(c) THEN "409" ELSE "500")
    /\ UNCHANGED <<tasks, requirements, last, faults>>

\* Mutant of Commit: flush instead of commit.
CommitNothing(c) ==
    /\ pc[c] = "inserted"
    /\ Goto(c, "committed")
    /\ UNCHANGED <<tasks, requirements, last, number, answer, faults>>

Commit(c) ==
    /\ pc[c] = "inserted"
    /\ tasks' = tasks \cup {[number |-> number[c], key |-> Key[c],
                             linked |-> c \in Requirement]}
    /\ requirements' = requirements \cup
                         (IF c \in Requirement THEN {number[c]} ELSE {})
    /\ Goto(c, "committed")
    /\ UNCHANGED <<last, number, answer, faults>>

\* The orchestrator is triggered in the same call; whatever it does, the task
\* stays and the answer is 201.  Module TaskPreparation has the cycle.
Accept(c) ==
    /\ pc[c] = "committed"
    /\ Answer(c, "201")
    /\ UNCHANGED <<tasks, requirements, last, faults>>

\* Any other error of the database, before the commit or in the refresh after
\* it; or the process dies, or the connection, and no answer arrives.
Fault(c) ==
    /\ pc[c] # "idle"
    /\ faults < MaxFaults
    /\ faults' = faults + 1
    /\ \E code \in {"500", "lost"} : Answer(c, code)
    /\ UNCHANGED <<tasks, requirements, last>>

Step(c) ==
    \/ Post(c)
    \/ FlushRequirement(c)
    \/ DrawNumber(c)
    \/ InsertTask(c)
    \/ RejectDuplicate(c)
    \/ Commit(c)
    \/ Accept(c)

Next == \E c \in Client : Step(c) \/ Fault(c)

Spec == Init /\ [][Next]_intakeVars

\* The server works on each request, and a client sends its request again
\* until it has an answer that settles it.
FairSpec == Spec /\ \A c \in Client : WF_intakeVars(Step(c))
---------------------------------------------------------------------------
(* Properties *)

\* The variables have their types.
TypeOK ==
    /\ tasks \subseteq [number : 1..last, key : {Key[c] : c \in Client}, linked : BOOLEAN]
    /\ requirements \subseteq 1..last
    /\ last \in Nat
    /\ pc \in [Client -> {"idle", "requirement", "task", "insert", "inserted", "committed"}]
    /\ number \in [Client -> 0..last]
    /\ answer \in [Client -> {"none", "201", "409", "500", "lost"}]
    /\ faults \in 0..MaxFaults

\* "If idempotency_key is provided and already exists, IdempotencyError": two
\* requests with one key, overlapping or repeated, leave one task.
OneTaskPerKey ==
    \A t, u \in tasks : t.key = u.key /\ t.key # NoKey => t = u

\* "Both operations succeed or fail together": there is no requirement without
\* its planning task and no such task without its requirement.
RequirementsHaveTasks == requirements = {t.number : t \in {u \in tasks : u.linked}}

\* 409 tells a client that its task exists: it never comes from an error that
\* has nothing to do with the key, or from a request that fails itself later.
ConflictMeansDone ==
    \A c \in Client : answer[c] = "409" => \E t \in tasks : t.key = Key[c]

\* "Trigger failures must never undo a successfully persisted task": with 201
\* the task is stored, also if others with the key came in between.
AcceptedIsStored ==
    \A c \in Client : pc[c] = "committed" \/ answer[c] = "201" =>
        \E t \in tasks : /\ t.key = Key[c]
                         /\ c \in Requirement /\ ~Keyed(c) => t.linked

\* A client that sends its request until it is settled has a task in the end.
RequestIsStored ==
    \A c \in Client : [](pc[c] # "idle" => <>(\E t \in tasks : t.key = Key[c]))
===========================================================================
