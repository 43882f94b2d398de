-------------------------- MODULE TaskPreparation --------------------------
(***************************************************************************)
(* The preparation pipeline of the orchestrator: request threads insert    *)
(* tasks and each runs one preparation cycle (discover, plan, lock,        *)
(* prepare), while a stale-queue recovery may run beside them.  All of     *)
(* them share the task table of the database; nothing else is shared.      *)
(*                                                                         *)
(* A column of the table is a function from tasks.  A worker is a request  *)
(* thread with its SQLAlchemy session: the rows the session has loaded are *)
(* kept in view, because with expire_on_commit=False and autoflush=False   *)
(* the code computes new values from what it loaded, not from the table.   *)
(***************************************************************************)
EXTENDS TaskClassification

CONSTANTS
    Worker,          \* request threads, each with its own worker id
    NoWorker,        \* the NULL of column locked_by
    MaxBatchSize,    \* max_batch_size of the discovery
    MaxAttempts,     \* max_preparation_attempts of the recovery
    AttemptCap,      \* bound on recorded attempts, for model checking only
    ErrorText,       \* what the error classifier makes of a message
    SlowPreparation, \* TRUE if a preparation may outlast stale_timeout
    SlowCycle        \* TRUE if a cycle, from its discovery on, may outlast it

ASSUME WorkerAssumption == NoWorker \notin Worker
ASSUME NumberAssumption ==
    /\ MaxBatchSize \in Nat \ {0}
    /\ MaxAttempts \in Nat \ {0}
    /\ AttemptCap \in Nat \ {0}
ASSUME ErrorAssumption ==
    /\ "null" \notin ErrorText
    /\ ErrorText \subseteq {"recoverable", "conflict", "non_recoverable"}
ASSUME SlowAssumption == SlowPreparation \in BOOLEAN /\ SlowCycle \in BOOLEAN

VARIABLES
    status,        \* "absent" until the row is inserted
    lockedBy,
    queuedAt,      \* "null", or how old the timestamp is
    attempts,      \* preparation_attempt_count
    lastError,     \* last_preparation_error
    pc,            \* where in its cycle each worker is
    batch,         \* the task ids the worker still has to handle
    view,          \* the row values the worker's session holds
    stale,         \* the rows a running recovery cycle has loaded
    staleView,     \* and their values at that time
    unlockedGrant  \* history: tasks lock_tasks ever reported as locked
                   \* although its rollback had undone the lock

rows == <<status, lockedBy, queuedAt, attempts, lastError>>
sessions == <<pc, batch, view>>
recovery == <<stale, staleView>>
vars == <<rows, sessions, recovery, unlockedGrant>>

Status == {"absent", "backlog", "queued", "prepared", "failed"}
Row == [attempts : Nat, lastError : {"null"} \cup ErrorText]

FreshRow == [attempts |-> 0, lastError |-> "null"]
RowOf(t) == [attempts |-> attempts[t], lastError |-> lastError[t]]

\* lock_tasks returned t to w and w has not finished with it.
Holds(w, t) == pc[w] = "prepare" /\ t \in batch[w]
---------------------------------------------------------------------------
(* Discovery *)

Open == {t \in Executable : status[t] = "backlog"}

\* find_candidates: as many open tasks as the limit lets through.
CandidateSets ==
    {S \in SUBSET Open :
        \/ Cardinality(S) = MaxBatchSize
        \/ S = Open /\ Cardinality(S) < MaxBatchSize}

---------------------------------------------------------------------------
Init ==
    /\ status = [t \in Task |-> "absent"]
    /\ lockedBy = [t \in Task |-> NoWorker]
    /\ queuedAt = [t \in Task |-> "null"]
    /\ attempts = [t \in Task |-> 0]
    /\ lastError = [t \in Task |-> "null"]
    /\ pc = [w \in Worker |-> "idle"]
    /\ batch = [w \in Worker |-> {}]
    /\ view = [w \in Worker |-> [t \in Task |-> FreshRow]]
    /\ stale = {}
    /\ staleView = [t \in Task |-> FreshRow]
    /\ unlockedGrant = {}

\* The worker leaves its cycle; its session is closed.
EndCycle(w) ==
    /\ pc' = [pc EXCEPT ![w] = "idle"]
    /\ batch' = [batch EXCEPT ![w] = {}]
    /\ view' = [view EXCEPT ![w] = [t \in Task |-> FreshRow]]

\* create_task: the row is committed, then the orchestrator is triggered in
\* the same thread and session.  Until the discovery, batch[w] remembers that
\* the session already holds the new row.
CreateTask(w, t) ==
    /\ pc[w] = "idle"
    /\ status[t] = "absent"
    /\ status' = [status EXCEPT ![t] = "backlog"]
    /\ pc' = [pc EXCEPT ![w] = "discover"]
    /\ batch' = [batch EXCEPT ![w] = {t}]
    /\ UNCHANGED <<lockedBy, queuedAt, attempts, lastError, view, recovery,
                   unlockedGrant>>

\* A request for a task outside this instance triggers a cycle all the same.
TriggerCycle(w) ==
    /\ pc[w] = "idle"
    /\ pc' = [pc EXCEPT ![w] = "discover"]
    /\ UNCHANGED <<rows, batch, view, recovery, unlockedGrant>>

\* Rows the session already holds keep the values it holds: the query does
\* not refresh them.
Discover(w) ==
    /\ pc[w] = "discover"
    /\ \/ Open = {} /\ EndCycle(w)
       \/ \E S \in CandidateSets : \E P \in BatchPlans(S) :
            /\ S # {}
            /\ pc' = [pc EXCEPT ![w] = "lock"]
            /\ batch' = [batch EXCEPT ![w] = P]
            /\ view' = [view EXCEPT ![w] = [t \in Task |->
                    IF t \in batch[w] THEN FreshRow ELSE RowOf(t)]]
    /\ UNCHANGED <<rows, recovery, unlockedGrant>>
---------------------------------------------------------------------------
(* Locking *)

\* Mutant of LockTasks: the row count is not compared with the plan.
LockTasksUnchecked(w) ==
    LET free == {t \in batch[w] : status[t] = "backlog"} IN
    /\ pc[w] = "lock"
    /\ status' = [t \in Task |-> IF t \in free THEN "queued" ELSE status[t]]
    /\ lockedBy' = [t \in Task |-> IF t \in free THEN w ELSE lockedBy[t]]
    /\ queuedAt' = [t \in Task |-> IF t \in free THEN "recent" ELSE queuedAt[t]]
    /\ pc' = [pc EXCEPT ![w] = "prepare"]
    /\ UNCHANGED <<attempts, lastError, batch, view, recovery, unlockedGrant>>

\* lock_tasks, row count as expected: UPDATE ... WHERE status = backlog, then
\* commit.
LockTasks(w) ==
    /\ pc[w] = "lock"
    /\ \A t \in batch[w] : status[t] = "backlog"
    /\ status' = [t \in Task |->
                    IF t \in batch[w] THEN "queued" ELSE status[t]]
    /\ lockedBy' = [t \in Task |->
                    IF t \in batch[w] THEN w ELSE lockedBy[t]]
    /\ queuedAt' = [t \in Task |->
                    IF t \in batch[w] THEN "recent" ELSE queuedAt[t]]
    /\ pc' = [pc EXCEPT ![w] = "prepare"]
    /\ UNCHANGED <<attempts, lastError, batch, view, recovery, unlockedGrant>>

\* lock_tasks, fewer rows than expected: rollback, which releases every row
\* and expires the session.
LockConflict(w) ==
    /\ pc[w] = "lock"
    /\ \E t \in batch[w] : status[t] # "backlog"
    /\ pc' = [pc EXCEPT ![w] = "reread"]
    /\ UNCHANGED <<rows, batch, view, recovery, unlockedGrant>>

\* Mutant of RereadAfterConflict: the whole plan is returned as locked.
RereadReturnsThePlan(w) ==
    /\ pc[w] = "reread"
    /\ unlockedGrant' = unlockedGrant \cup {t \in batch[w] : status[t] = "backlog"}
    /\ pc' = [pc EXCEPT ![w] = "prepare"]
    /\ view' = [view EXCEPT ![w] = [t \in Task |-> RowOf(t)]]
    /\ UNCHANGED <<rows, batch, recovery>>

\* The rows are read again; the ones found in backlog are returned as
\* locked_task_ids.
RereadAfterConflict(w) ==
    LET free == {t \in batch[w] : status[t] = "backlog"} IN
    /\ pc[w] = "reread"
    /\ unlockedGrant' = unlockedGrant \cup free
    /\ IF free = {}
       THEN EndCycle(w)
       ELSE /\ pc' = [pc EXCEPT ![w] = "prepare"]
            /\ batch' = [batch EXCEPT ![w] = free]
            /\ view' = [view EXCEPT ![w] = [t \in Task |-> RowOf(t)]]
    /\ UNCHANGED <<rows, recovery>>

\* An exception escapes the cycle, the database fails during the lock, or
\* the process dies: the worker forgets what it had locked.
AbortCycle(w) ==
    /\ pc[w] # "idle"
    /\ EndCycle(w)
    /\ UNCHANGED <<rows, recovery, unlockedGrant>>
---------------------------------------------------------------------------
(* Preparing one of the tasks lock_tasks returned *)

FinishTask(w, t) ==
    IF batch[w] = {t}
    THEN EndCycle(w)
    ELSE batch' = [batch EXCEPT ![w] = @ \ {t}] /\ UNCHANGED <<pc, view>>

\* Count the attempt and keep the message.  The new count comes from the
\* session; an unchanged value is not part of the UPDATE statement.
RecordFailure(w, t) ==
    /\ view[w][t].attempts < AttemptCap
    /\ attempts' = [attempts EXCEPT ![t] = view[w][t].attempts + 1]
    /\ \E e \in ErrorText :
          lastError' = [lastError EXCEPT ![t] =
                          IF e = view[w][t].lastError THEN @ ELSE e]

\* The context was built and is valid: UPDATE ... WHERE id = t.
PrepareSucceeds(w, t) ==
    /\ Holds(w, t)
    /\ status' = [status EXCEPT ![t] = "prepared"]
    /\ FinishTask(w, t)
    /\ UNCHANGED <<lockedBy, queuedAt, attempts, lastError, recovery,
                   unlockedGrant>>

\* PreparationError of type NON_RECOVERABLE.
PrepareRejects(w, t) ==
    /\ Holds(w, t)
    /\ RecordFailure(w, t)
    /\ status' = [status EXCEPT ![t] = "failed"]
    /\ FinishTask(w, t)
    /\ UNCHANGED <<lockedBy, queuedAt, recovery, unlockedGrant>>

\* Mutant of ReleaseLock: the timestamp is not cleared.
ReleaseLockKeepsTime(t) ==
    IF status[t] = "queued"
    THEN /\ status' = [status EXCEPT ![t] = "backlog"]
         /\ lockedBy' = [lockedBy EXCEPT ![t] = NoWorker]
         /\ UNCHANGED queuedAt
    ELSE UNCHANGED <<status, lockedBy, queuedAt>>

\* release_lock: only a queued row changes, whoever locked it.
ReleaseLock(t) ==
    IF status[t] = "queued"
    THEN /\ status' = [status EXCEPT ![t] = "backlog"]
         /\ lockedBy' = [lockedBy EXCEPT ![t] = NoWorker]
         /\ queuedAt' = [queuedAt EXCEPT ![t] = "null"]
    ELSE UNCHANGED <<status, lockedBy, queuedAt>>

\* PreparationError of type RECOVERABLE or CONFLICT: the commit in
\* release_lock also flushes the failure recorded before.
PrepareReturns(w, t) ==
    /\ Holds(w, t)
    /\ RecordFailure(w, t)
    /\ ReleaseLock(t)
    /\ FinishTask(w, t)
    /\ UNCHANGED <<recovery, unlockedGrant>>

\* The same, but the database fails in release_lock: its rollback discards
\* the recorded failure too, the row stays queued, and the cycle goes on with
\* rows it has to load again.
ReleaseFails(w, t) ==
    /\ Holds(w, t)
    /\ IF batch[w] = {t}
       THEN EndCycle(w)
       ELSE /\ batch' = [batch EXCEPT ![w] = @ \ {t}]
            /\ view' = [view EXCEPT ![w] = [u \in Task |-> RowOf(u)]]
            /\ UNCHANGED pc
    /\ UNCHANGED <<rows, recovery, unlockedGrant>>

\* Any other exception: the failure is recorded and the row left as it is.
PrepareBreaks(w, t) ==
    /\ Holds(w, t)
    /\ RecordFailure(w, t)
    /\ FinishTask(w, t)
    /\ UNCHANGED <<status, lockedBy, queuedAt, recovery, unlockedGrant>>
---------------------------------------------------------------------------
(* Stale-queue recovery *)

\* stale_timeout passes for a lock.  Unless SlowPreparation, only locks no
\* live worker is still working on get that old.  A worker that has planned a
\* task read it before the lock: unless SlowCycle, its cycle ends before that.
LockAges(t) ==
    /\ queuedAt[t] = "recent"
    /\ SlowPreparation \/ \A w \in Worker : ~Holds(w, t)
    /\ SlowCycle \/ \A w \in Worker : t \notin batch[w]
    /\ queuedAt' = [queuedAt EXCEPT ![t] = "stale"]
    /\ UNCHANGED <<status, lockedBy, attempts, lastError, sessions, recovery,
                   unlockedGrant>>

\* Mutant of StaleTasks: only the age of the timestamp counts.
StaleTasksOfAnyStatus(Owners) ==
    {t \in Task : queuedAt[t] = "stale" /\ lockedBy[t] \in Owners}

\* find_stale_tasks, for every worker or for the ids in Owners.
StaleTasks(Owners) ==
    {t \in Task : /\ status[t] = "queued"
                  /\ queuedAt[t] = "stale"
                  /\ lockedBy[t] \in Owners}

FindStaleTasks ==
    /\ stale = {}
    /\ \E Owners \in {Worker \cup {NoWorker}} \cup {{w} : w \in Worker} :
          /\ StaleTasks(Owners) # {}
          /\ stale' = StaleTasks(Owners)
          /\ staleView' = [t \in Task |->
                IF t \in StaleTasks(Owners) THEN RowOf(t) ELSE FreshRow]
    /\ UNCHANGED <<rows, sessions, unlockedGrant>>

\* recover_task, from the values loaded before.
RecoveredStatus(row) ==
    IF \/ row.attempts >= MaxAttempts
       \/ row.lastError = "non_recoverable"
    THEN "failed" ELSE "backlog"

\* Mutant of PutBack: the reset is not limited to the tasks that go back.
PutBackAll == stale

\* The tasks the cycle returns to backlog.
PutBack == {t \in stale : RecoveredStatus(staleView[t]) = "backlog"}

\* The commit of run_recovery_cycle.  Every row goes by its id alone; count
\* and message are reset for the tasks that go back, and only where the
\* loaded value differs from the new one.
RecoverStaleTasks ==
    /\ stale # {}
    /\ status' = [t \in Task |->
            IF t \in stale THEN RecoveredStatus(staleView[t]) ELSE status[t]]
    /\ lockedBy' = [t \in Task |->
            IF t \in stale THEN NoWorker ELSE lockedBy[t]]
    /\ queuedAt' = [t \in Task |->
            IF t \in stale THEN "null" ELSE queuedAt[t]]
    /\ attempts' = [t \in Task |->
            IF t \in PutBack /\ staleView[t].attempts # 0
            THEN 0 ELSE attempts[t]]
    /\ lastError' = [t \in Task |->
            IF t \in PutBack /\ staleView[t].lastError # "null"
            THEN "null" ELSE lastError[t]]
    /\ stale' = {}
    /\ staleView' = [t \in Task |-> FreshRow]
    /\ UNCHANGED <<sessions, unlockedGrant>>

\* The recovery dies, or its commit fails, before anything is written.
RecoveryAborts ==
    /\ stale # {}
    /\ stale' = {}
    /\ staleView' = [t \in Task |-> FreshRow]
    /\ UNCHANGED <<rows, sessions, unlockedGrant>>
---------------------------------------------------------------------------
WorkerStep(w) ==
    \/ \E t \in Task : CreateTask(w, t)
    \/ TriggerCycle(w)
    \/ Discover(w)
    \/ LockTasks(w)
    \/ LockConflict(w)
    \/ RereadAfterConflict(w)
    \/ AbortCycle(w)
    \/ \E t \in Task : PrepareSucceeds(w, t)
    \/ \E t \in Task : PrepareRejects(w, t)
    \/ \E t \in Task : PrepareReturns(w, t)
    \/ \E t \in Task : ReleaseFails(w, t)
    \/ \E t \in Task : PrepareBreaks(w, t)

RecoveryStep ==
    \/ \E t \in Task : LockAges(t)
    \/ FindStaleTasks
    \/ RecoverStaleTasks
    \/ RecoveryAborts

Next == (\E w \in Worker : WorkerStep(w)) \/ RecoveryStep

Spec == Init /\ [][Next]_vars
---------------------------------------------------------------------------
(* Properties *)

\* The variables have their types.
TypeOK ==
    /\ status \in [Task -> Status]
    /\ lockedBy \in [Task -> Worker \cup {NoWorker}]
    /\ queuedAt \in [Task -> {"null", "recent", "stale"}]
    /\ attempts \in [Task -> Nat]
    /\ lastError \in [Task -> {"null"} \cup ErrorText]
    /\ pc \in [Worker -> {"idle", "discover", "lock", "reread", "prepare"}]
    /\ batch \in [Worker -> SUBSET Task]
    /\ view \in [Worker -> [Task -> Row]]
    /\ stale \in SUBSET Task
    /\ staleView \in [Task -> Row]
    /\ unlockedGrant \in SUBSET Task

\* Whatever is committed in whatever order (locks, releases without an owner
\* check, the blind writes of a recovery), a backlog row carries no trace of a
\* lock and a queued row carries all of it: a queued row with queued_at NULL
\* would never satisfy the comparison in find_stale_tasks and stay for good.
LockColumnsAgree ==
    \A t \in Task :
        /\ status[t] = "backlog" => lockedBy[t] = NoWorker /\ queuedAt[t] = "null"
        /\ status[t] = "queued" => lockedBy[t] \in Worker /\ queuedAt[t] # "null"

\* The concurrency invariant in the docstring of TaskLocker: two workers never
\* have the same task, and who has it is who the row says locked it.  The code
\* keeps it for every task that was never handed out of a rolled-back lock.
GrantsAreExclusive ==
    \A t \in Task \ unlockedGrant : \A w \in Worker :
        Holds(w, t) => status[t] = "queued" /\ lockedBy[t] = w

\* The same promise as the docstring words it, with no exception.
TwoWorkersNeverClaimTheSameTask ==
    \A t \in Task : \A v, w \in Worker : Holds(v, t) /\ Holds(w, t) => v = w

\* No late commit of a worker or of the recovery overwrites an outcome.
OutcomesAreFinal ==
    [][\A t \in Task \ unlockedGrant :
         status[t] \in {"prepared", "failed"} => status'[t] = status[t]]_vars

\* The recovery commits what it has decided from the values it loaded, by id
\* and without a look at the row.  Until then the row keeps these values and
\* its old lock, whatever the workers do that planned the task before.
RecoveryIsCurrent ==
    \A t \in stale \ unlockedGrant :
        /\ status[t] = "queued" /\ queuedAt[t] = "stale"
        /\ staleView[t] = RowOf(t)

\* A failed task says why, although workers compute what they write from rows
\* they read before their lock, the ORM drops assignments that repeat a loaded
\* value, and the recovery clears the message.  Unless SlowCycle: a worker
\* whose copy is older than the recovery fails a task without a message.
FailedIsExplained ==
    \A t \in Task : status[t] = "failed" => lastError[t] # "null"
===========================================================================
