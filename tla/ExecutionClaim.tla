-------------------------- MODULE ExecutionClaim --------------------------
(***************************************************************************)
(* Runners claim prepared tasks.  A session works on a batch: for each task *)
(* it looks for an active execution, updates the task row if it is still   *)
(* prepared, and inserts the execution.  The database runs transactions at *)
(* READ COMMITTED: an updated row is locked until the transaction ends,    *)
(* and an UPDATE of a locked row waits and then looks at the row again.    *)
(*                                                                         *)
(* status and active are the committed values.                             *)
(***************************************************************************)
EXTENDS Naturals, FiniteSets

CONSTANTS
    Task,
    Runner,       \* sessions that claim
    Polling,      \* those of a poll loop; the others claim a given task
    Committing,   \* those whose caller commits; no caller in src/ does
    BatchSize,    \* batch_size of the runner configuration
    Keyed,        \* those whose new TaskExecution gets an id; the column has
                  \* no default and claim_task passes none: {} in src/
    MaxCrashes    \* bound on broken-off sessions, for model checking only

ASSUME ClaimAssumption ==
    /\ Polling \subseteq Runner
    /\ Committing \subseteq Runner
    /\ BatchSize \in Nat \ {0}
    /\ Keyed \subseteq Runner
    /\ MaxCrashes \in Nat

VARIABLES
    status,   \* Task.status
    active,   \* the number of executions of a task that are not final
    todo,     \* the tasks the session has yet to claim
    checked,  \* the task whose row it is about to update
    updated,  \* the task whose execution it is about to insert
    claimed,  \* the tasks whose execution it has inserted
    crashes

tx == <<todo, checked, updated, claimed>>
claimVars == <<status, active, tx, crashes>>

InCycle(r) == todo[r] \cup checked[r] \cup updated[r] \cup claimed[r] # {}

\* Rows the transaction of r has updated and not yet committed.
Locks(r) == updated[r] \cup claimed[r]

\* r waits for a row q has updated.
WaitsFor(r, q) == \E t \in checked[r] : r # q /\ t \in Locks(q)

Begin(r, S) ==
    /\ todo' = [todo EXCEPT ![r] = S]
    /\ UNCHANGED <<checked, updated, claimed>>

\* The session is closed: what it did not commit is undone.
Close(r) ==
    /\ todo' = [todo EXCEPT ![r] = {}]
    /\ checked' = [checked EXCEPT ![r] = {}]
    /\ updated' = [updated EXCEPT ![r] = {}]
    /\ claimed' = [claimed EXCEPT ![r] = {}]

ClaimInit ==
    /\ active = [t \in Task |-> 0]
    /\ todo = [r \in Runner |-> {}]
    /\ checked = [r \in Runner |-> {}]
    /\ updated = [r \in Runner |-> {}]
    /\ claimed = [r \in Runner |-> {}]
    /\ crashes = 0
---------------------------------------------------------------------------
\* poll_and_claim_tasks: up to BatchSize prepared tasks, in no given order.
Poll(r) ==
    LET prepared == {t \in Task : status[t] = "prepared"} IN
    /\ r \in Polling
    /\ ~InCycle(r)
    /\ \E S \in SUBSET prepared :
          /\ S # {}
          /\ S = prepared \/ Cardinality(S) = BatchSize
          /\ Cardinality(S) <= BatchSize
          /\ Begin(r, S)
    /\ UNCHANGED <<status, active, crashes>>

\* claim_single_task, whatever the state of the task.
ClaimSingle(r, t) ==
    /\ r \in Runner \ Polling
    /\ ~InCycle(r)
    /\ Begin(r, {t})
    /\ UNCHANGED <<status, active, crashes>>

\* An active execution makes the claim fail; the session goes on to the next.
CheckActive(r, t) ==
    /\ t \in todo[r]
    /\ checked[r] \cup updated[r] = {}
    /\ todo' = [todo EXCEPT ![r] = @ \ {t}]
    /\ checked' = [checked EXCEPT ![r] = IF active[t] = 0 THEN {t} ELSE {}]
    /\ UNCHANGED <<status, active, updated, claimed, crashes>>

\* Mutant of UpdateTask: no wait for the row.
UpdateTaskWithoutWaiting(r, t) ==
    /\ t \in checked[r]
    /\ checked' = [checked EXCEPT ![r] = {}]
    /\ updated' = [updated EXCEPT ![r] =
                     IF status[t] = "prepared" THEN {t} ELSE {}]
    /\ UNCHANGED <<status, active, todo, claimed, crashes>>

\* UPDATE task SET status = queued WHERE id = t AND status = prepared.
UpdateTask(r, t) ==
    /\ t \in checked[r]
    /\ \A q \in Runner : ~WaitsFor(r, q)
    /\ checked' = [checked EXCEPT ![r] = {}]
    /\ updated' = [updated EXCEPT ![r] =
                     IF status[t] = "prepared" THEN {t} ELSE {}]
    /\ UNCHANGED <<status, active, todo, claimed, crashes>>

\* Mutant of InsertExecution: no unique index over the active executions.
InsertExecutionUnindexed(r, t) ==
    /\ t \in updated[r]
    /\ r \in Keyed
    /\ updated' = [updated EXCEPT ![r] = {}]
    /\ claimed' = [claimed EXCEPT ![r] = @ \cup {t}]
    /\ UNCHANGED <<status, active, todo, checked, crashes>>

\* The flush of the new execution; ix_task_executions_unique_active admits
\* it.  The event with sequence 1 goes with it.
InsertExecution(r, t) ==
    /\ t \in updated[r]
    /\ r \in Keyed
    /\ active[t] = 0
    /\ updated' = [updated EXCEPT ![r] = {}]
    /\ claimed' = [claimed EXCEPT ![r] = @ \cup {t}]
    /\ UNCHANGED <<status, active, todo, checked, crashes>>

\* The flush fails, on the index or for want of a key.  The error is no
\* ClaimFailedError: it ends the whole poll cycle.
InsertFails(r, t) ==
    /\ t \in updated[r]
    /\ r \notin Keyed \/ active[t] > 0
    /\ Close(r)
    /\ UNCHANGED <<status, active, crashes>>

\* Two transactions wait for each other's rows: the database ends one.
DeadlockAbort(r) ==
    /\ \E S \in SUBSET Runner :
          /\ r \in S
          /\ \A p \in S : /\ \E q \in S : WaitsFor(p, q)
                          /\ \E q \in S : WaitsFor(q, p)
    /\ Close(r)
    /\ UNCHANGED <<status, active, crashes>>

\* Mutants of FinishCycle: nobody commits; the task gets the status of the
\* execution it is about to have.
FinishCycleUncommitted(r) ==
    /\ InCycle(r)
    /\ todo[r] \cup checked[r] \cup updated[r] = {}
    /\ Close(r)
    /\ UNCHANGED <<status, active, crashes>>

\* Every task of the batch is handled.  _process_execution only logs; then
\* the session is closed, after a commit if the caller does one.
FinishCycle(r) ==
    /\ InCycle(r)
    /\ todo[r] \cup checked[r] \cup updated[r] = {}
    /\ LET done == IF r \in Committing THEN claimed[r] ELSE {} IN
        /\ status' = [t \in Task |-> IF t \in done THEN "queued" ELSE status[t]]
        /\ active' = [t \in Task |-> IF t \in done THEN active[t] + 1 ELSE active[t]]
    /\ Close(r)
    /\ UNCHANGED crashes

\* The process dies or the database fails.
Crash(r) ==
    /\ InCycle(r)
    /\ crashes < MaxCrashes
    /\ crashes' = crashes + 1
    /\ Close(r)
    /\ UNCHANGED <<status, active>>

RunnerWork(r) ==
    \/ Poll(r)
    \/ \E t \in Task : CheckActive(r, t)
    \/ \E t \in Task : UpdateTask(r, t)
    \/ \E t \in Task : InsertExecution(r, t)
    \/ \E t \in Task : InsertFails(r, t)
    \/ DeadlockAbort(r)
    \/ FinishCycle(r)

RunnerStep(r) ==
    \/ RunnerWork(r)
    \/ \E t \in Task : ClaimSingle(r, t)
    \/ Crash(r)
---------------------------------------------------------------------------
(* The claim on its own: tasks only become prepared. *)

Init ==
    /\ status \in [Task -> {"backlog", "prepared"}]
    /\ ClaimInit

\* The commit at the end of a preparation.
Prepare(t) ==
    /\ status[t] = "backlog"
    /\ status' = [status EXCEPT ![t] = "prepared"]
    /\ UNCHANGED <<active, tx, crashes>>

Next ==
    \/ \E r \in Runner : RunnerStep(r)
    \/ \E t \in Task : Prepare(t)

\* The poll loop runs for ever and a session that started gets on; nobody has
\* to call claim_single_task, and nothing has to crash.  The database grants a
\* row to those who wait for it in the order they came, so none waits for ever.
Spec == Init /\ [][Next]_claimVars
FairSpec ==
    /\ Spec
    /\ \A r \in Runner : /\ WF_claimVars(RunnerWork(r))
                         /\ \A t \in Task : SF_claimVars(UpdateTask(r, t))
---------------------------------------------------------------------------
(* Properties *)

\* The variables have their types.
TypeOK ==
    /\ status \in [Task -> {"backlog", "prepared", "queued"}]
    /\ active \in [Task -> Nat]
    /\ todo \in [Runner -> SUBSET Task]
    /\ checked \in [Runner -> SUBSET Task]
    /\ updated \in [Runner -> SUBSET Task]
    /\ claimed \in [Runner -> SUBSET Task]
    /\ crashes \in Nat

\* Two sessions never hold uncommitted claims of one task, and a claim that
\* is not yet committed is of a task that is prepared and has no execution:
\* check, update and insert are separate statements, and a commit of another
\* session may fall between any two of them.
ClaimsAreDisjoint ==
    \A r \in Runner : \A t \in Locks(r) :
        /\ status[t] = "prepared"
        /\ active[t] = 0
        /\ \A q \in Runner \ {r} : t \notin Locks(q)

\* "Atomically claim a prepared task and create a TaskExecution": what the
\* claims do to the committed tables is one step per batch.
Queue == INSTANCE ClaimQueue
ImplementsClaimQueue == Queue!Spec

\* "The runner polls for prepared tasks, claims them atomically": a prepared
\* task does not wait for ever, in spite of sessions that fail on the same
\* rows or wait for each other.
PreparedIsClaimed == \A t \in Task : status[t] = "prepared" ~> status[t] = "queued"
===========================================================================
