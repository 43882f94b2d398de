------------------------ MODULE TaskPipeline_proofs ------------------------
(***************************************************************************)
(* What the preparation, the recovery and the runners promise together,    *)
(* for any number of tasks, workers and runners.  The invariants of the    *)
(* preparation survive in this company because a claim only moves a        *)
(* prepared task to queued, and nobody who prepares or recovers has an     *)
(* interest in a prepared task.                                            *)
(***************************************************************************)
EXTENDS TaskPipeline, TaskPreparation_proofs

ClaimTypes ==
    /\ active \in [Task -> Nat]
    /\ todo \in [Runner -> SUBSET Task]
    /\ checked \in [Runner -> SUBSET Task]
    /\ updated \in [Runner -> SUBSET Task]
    /\ claimed \in [Runner -> SUBSET Task]

\* A row that a claim has updated is locked by one session and still prepared
\* in the committed table.  An execution that has been inserted is the only
\* one: until then an execution may be left from an earlier claim, of a task
\* that the recovery has put back.
ClaimRows ==
    \A r \in Runner :
        /\ \A t \in Claim!Locks(r) :
              /\ status[t] = "prepared"
              /\ \A q \in Runner \ {r} : t \notin Claim!Locks(q)
        /\ \A t \in claimed[r] : active[t] = 0

PipelineInv == TypeOK /\ ClaimTypes /\ ClaimRows /\ OneActiveExecution

LEMMA PipelineInvInit == PipelineInit => PipelineInv
  BY InitType
  DEF PipelineInit, Claim!ClaimInit, PipelineInv, ClaimTypes, ClaimRows,
      Claim!Locks, OneActiveExecution

\* Steps of the preparation leave the locked rows alone.
LEMMA PreparationKeepsClaims ==
    ASSUME PipelineInv, PreparationStep
    PROVE  PipelineInv'
  <1>1. TypeOK'
    BY NextType DEF PreparationStep, PipelineInv
  <1>2. /\ UNCHANGED claimRest
        /\ \A r \in Runner : \A t \in Claim!Locks(r) : status'[t] = status[t]
    BY DEF PreparationStep
  <1>3. \A r \in Runner : Claim!Locks(r)' = Claim!Locks(r)
    BY <1>2 DEF claimRest, Claim!Locks
  <1>4. QED
    BY <1>1, <1>2, <1>3 DEF claimRest, PipelineInv, ClaimTypes, ClaimRows,
       OneActiveExecution

\* A step of a session that does not commit and locks no row.
LEMMA FewerLocks ==
    ASSUME PipelineInv, UNCHANGED preparationRest, UNCHANGED <<status, active>>,
           ClaimTypes',
           \A q \in Runner : Claim!Locks(q)' \subseteq Claim!Locks(q),
           \A q \in Runner : \A t \in claimed'[q] : active[t] = 0
    PROVE  PipelineInv'
  <1>1. TypeOK'
    BY DEF PipelineInv, TypeOK, preparationRest, sessions, recovery
  <1>2. QED
    BY <1>1 DEF PipelineInv, ClaimRows, OneActiveExecution

LEMMA ClosedSession ==
    ASSUME ClaimTypes, NEW r \in Runner, Claim!Close(r), UNCHANGED active
    PROVE  /\ ClaimTypes'
           /\ \A q \in Runner : /\ Claim!Locks(q)' = IF q = r THEN {} ELSE Claim!Locks(q)
                                /\ claimed'[q] = IF q = r THEN {} ELSE claimed[q]
  BY DEF ClaimTypes, Claim!Close, Claim!Locks

LEMMA CloseKeepsClaims ==
    ASSUME PipelineInv, NEW r \in Runner, Claim!Close(r),
           UNCHANGED preparationRest, UNCHANGED <<status, active>>
    PROVE  PipelineInv'
  <1>1. ClaimTypes /\ \A q \in Runner : \A t \in claimed[q] : active[t] = 0
    BY DEF PipelineInv, ClaimRows
  <1>2. QED
    BY <1>1, ClosedSession, FewerLocks

LEMMA UpdateKeepsClaims ==
    ASSUME PipelineInv, NEW r \in Runner, NEW t \in Task, Claim!UpdateTask(r, t),
           UNCHANGED preparationRest
    PROVE  PipelineInv'
  <1> USE DEF PipelineInv
  <1>1. TypeOK'
    BY DEF Claim!UpdateTask, TypeOK, preparationRest, sessions, recovery
  <1>2. ClaimTypes'
    BY DEF Claim!UpdateTask, ClaimTypes
  <1>3. \A q \in Runner \ {r} : Claim!Locks(q)' = Claim!Locks(q) /\ t \notin Claim!Locks(q)
    BY DEF Claim!UpdateTask, ClaimTypes, Claim!Locks, Claim!WaitsFor
  <1>4. Claim!Locks(r)' \subseteq Claim!Locks(r) \cup {u \in {t} : status[u] = "prepared"}
    BY DEF Claim!UpdateTask, ClaimTypes, Claim!Locks
  <1>5. UNCHANGED <<status, active, claimed>>
    BY DEF Claim!UpdateTask
  <1>6. ClaimRows'
    BY <1>3, <1>4, <1>5 DEF ClaimRows
  <1>7. QED
    BY <1>1, <1>2, <1>5, <1>6 DEF OneActiveExecution

LEMMA InsertKeepsClaims ==
    ASSUME PipelineInv, NEW r \in Runner, NEW t \in Task, Claim!InsertExecution(r, t),
           UNCHANGED preparationRest
    PROVE  PipelineInv'
  <1> USE DEF PipelineInv
  <1>1. ClaimTypes' /\ UNCHANGED <<status, active>>
    BY DEF Claim!InsertExecution, ClaimTypes
  <1>2. \A q \in Runner : Claim!Locks(q)' \subseteq Claim!Locks(q)
    BY DEF Claim!InsertExecution, ClaimTypes, Claim!Locks
  <1>3. \A q \in Runner : \A u \in claimed'[q] : active[u] = 0
    BY DEF Claim!InsertExecution, ClaimTypes, ClaimRows
  <1>4. QED
    BY <1>1, <1>2, <1>3, FewerLocks

\* The commit: its rows are nobody else's, and their executions the first.
LEMMA FinishKeepsClaims ==
    ASSUME PipelineInv, NEW r \in Runner, Claim!FinishCycle(r),
           UNCHANGED preparationRest
    PROVE  PipelineInv'
  <1> DEFINE done == IF r \in Committing THEN claimed[r] ELSE {}
  <1> USE DEF PipelineInv
  <1>1. /\ status' = [t \in Task |-> IF t \in done THEN "queued" ELSE status[t]]
        /\ active' = [t \in Task |-> IF t \in done THEN active[t] + 1 ELSE active[t]]
        /\ Claim!Close(r)
    BY DEF Claim!FinishCycle
  <1>2. \A t \in done : t \in Task /\ t \in Claim!Locks(r) /\ active[t] = 0
    BY DEF ClaimTypes, ClaimRows, Claim!Locks
  <1> HIDE DEF done
  <1>3. TypeOK'
    BY <1>1 DEF TypeOK, Status, preparationRest, sessions, recovery
  <1>4. ClaimTypes'
    BY <1>1 DEF ClaimTypes, Claim!Close
  <1>5. \A q \in Runner : /\ Claim!Locks(q)' = IF q = r THEN {} ELSE Claim!Locks(q)
                          /\ claimed'[q] = IF q = r THEN {} ELSE claimed[q]
    BY <1>1 DEF ClaimTypes, Claim!Close, Claim!Locks
  <1>6. ASSUME NEW q \in Runner, q # r, NEW t \in Claim!Locks(q)
        PROVE  t \in Task /\ t \notin done
    BY <1>2, <1>6 DEF ClaimTypes, ClaimRows, Claim!Locks
  <1>7. ClaimRows'
    <2> SUFFICES ASSUME NEW q \in Runner
                 PROVE  /\ \A t \in Claim!Locks(q)' :
                              /\ status'[t] = "prepared"
                              /\ \A p \in Runner \ {q} : t \notin Claim!Locks(p)'
                        /\ \A t \in claimed'[q] : active'[t] = 0
      BY DEF ClaimRows
    <2>1. CASE q = r
      BY <1>5, <2>1
    <2>2. CASE q # r
      <3>1. \A t \in Claim!Locks(q) : status'[t] = status[t] /\ active'[t] = active[t]
        BY <1>1, <1>6, <2>2
      <3>2. claimed[q] \subseteq Claim!Locks(q)
        BY DEF Claim!Locks
      <3>3. QED
        BY <1>5, <2>2, <3>1, <3>2 DEF ClaimRows
    <2>3. QED
      BY <2>1, <2>2
  <1>8. OneActiveExecution'
    BY <1>1, <1>2 DEF OneActiveExecution
  <1>9. QED
    BY <1>3, <1>4, <1>7, <1>8

LEMMA ClaimKeepsClaims ==
    ASSUME PipelineInv, ClaimStep
    PROVE  PipelineInv'
  <1>1. PICK r \in Runner : Claim!RunnerStep(r)
    BY DEF ClaimStep
  <1>2. UNCHANGED preparationRest
    BY DEF ClaimStep
  <1>3. ClaimTypes /\ \A q \in Runner : \A t \in claimed[q] : active[t] = 0
    BY DEF PipelineInv, ClaimRows
  <1>4. CASE Claim!Poll(r) \/ \E t \in Task : Claim!ClaimSingle(r, t)
    <2>1. UNCHANGED <<status, active, updated, claimed>> /\ ClaimTypes'
      BY <1>3, <1>4 DEF Claim!Poll, Claim!ClaimSingle, Claim!Begin, ClaimTypes
    <2>2. QED
      BY <1>2, <1>3, <2>1, FewerLocks DEF Claim!Locks
  <1>5. ASSUME NEW t \in Task, Claim!CheckActive(r, t)
        PROVE  PipelineInv'
    <2>1. UNCHANGED <<status, active, updated, claimed>> /\ ClaimTypes'
      BY <1>3, <1>5 DEF Claim!CheckActive, ClaimTypes
    <2>2. QED
      BY <1>2, <1>3, <2>1, FewerLocks DEF Claim!Locks
  <1>6. ASSUME NEW t \in Task, Claim!UpdateTask(r, t)
        PROVE  PipelineInv'
    BY <1>2, <1>6, UpdateKeepsClaims
  <1>7. ASSUME NEW t \in Task, Claim!InsertExecution(r, t)
        PROVE  PipelineInv'
    BY <1>2, <1>7, InsertKeepsClaims
  <1>8. CASE \/ \E t \in Task : Claim!InsertFails(r, t)
             \/ Claim!DeadlockAbort(r) \/ Claim!Crash(r)
    BY <1>2, <1>8, CloseKeepsClaims DEF Claim!InsertFails, Claim!DeadlockAbort, Claim!Crash
  <1>9. CASE Claim!FinishCycle(r)
    BY <1>2, <1>9, FinishKeepsClaims
  <1>10. QED
    BY <1>1, <1>4, <1>5, <1>6, <1>7, <1>8, <1>9 DEF Claim!RunnerStep, Claim!RunnerWork

LEMMA EndKeepsClaims ==
    ASSUME PipelineInv, NEW t \in Task, ExecutionEnds(t)
    PROVE  PipelineInv'
  <1>1. /\ active[t] \in Nat /\ active[t] > 0
        /\ active' = [active EXCEPT ![t] = active[t] - 1]
    BY DEF ExecutionEnds, PipelineInv, ClaimTypes
  <1>2. TypeOK' /\ \A r \in Runner : Claim!Locks(r)' = Claim!Locks(r)
    BY DEF ExecutionEnds, PipelineInv, TypeOK, vars, rows, sessions, recovery, Claim!Locks
  <1>3. QED
    BY <1>1, <1>2 DEF ExecutionEnds, vars, rows, PipelineInv, ClaimTypes, ClaimRows,
       OneActiveExecution

LEMMA PipelineInvNext == PipelineInv /\ [PipelineNext]_pipelineVars => PipelineInv'
  <1> SUFFICES ASSUME PipelineInv, [PipelineNext]_pipelineVars
               PROVE  PipelineInv'
    OBVIOUS
  <1>1. CASE UNCHANGED pipelineVars
    <2>1. TypeOK'
      BY <1>1, NextType DEF pipelineVars, PipelineInv
    <2>2. QED
      BY <1>1, <2>1 DEF pipelineVars, claimRest, vars, rows, PipelineInv, ClaimTypes,
         ClaimRows, Claim!Locks, OneActiveExecution
  <1>2. QED
    BY <1>1, PreparationKeepsClaims, ClaimKeepsClaims, EndKeepsClaims DEF PipelineNext

LEMMA PipelineAlways == PipelineSpec => []PipelineInv
  BY PipelineInvInit, PipelineInvNext, PTL DEF PipelineSpec

\* The variables keep their types while workers and runners share the table.
THEOREM PipelineTypeCorrect == PipelineSpec => []TypeOK
  BY PipelineAlways, PTL DEF PipelineInv

\* A task never has two executions at once, for any number of runners, also if
\* preparations outlast their timeout and the recovery hands the task out again
\* while an execution of it is running.
THEOREM OneExecution == PipelineSpec => []OneActiveExecution
  BY PipelineAlways, PTL DEF PipelineInv
---------------------------------------------------------------------------
(* What the preparation promises, among runners. *)

\* To the preparation a step of a runner is one that takes prepared tasks.
TakesPrepared ==
    /\ UNCHANGED preparationRest
    /\ \A t \in Task : \/ status'[t] = status[t]
                       \/ status[t] = "prepared" /\ status'[t] = "queued"

LEMMA PipelineSteps ==
    ASSUME PipelineInv, [PipelineNext]_pipelineVars
    PROVE  [Next]_vars \/ TakesPrepared
  <1>1. CASE ClaimStep
    <2>1. PICK r \in Runner : Claim!RunnerStep(r)
      BY <1>1 DEF ClaimStep
    <2>2. CASE Claim!FinishCycle(r)
      <3>1. \A t \in claimed[r] : status[t] = "prepared"
        BY DEF PipelineInv, ClaimRows, Claim!Locks
      <3>2. QED
        BY <1>1, <2>2, <3>1 DEF ClaimStep, Claim!FinishCycle, TakesPrepared
    <2>3. CASE ~Claim!FinishCycle(r)
      <3>1. status' = status
        BY <2>1, <2>3 DEF Claim!RunnerStep, Claim!RunnerWork, Claim!Poll,
           Claim!ClaimSingle, Claim!CheckActive, Claim!UpdateTask,
           Claim!InsertExecution, Claim!InsertFails, Claim!DeadlockAbort, Claim!Crash
      <3>2. QED
        BY <1>1, <3>1 DEF ClaimStep, TakesPrepared
    <2>4. QED
      BY <2>2, <2>3
  <1>2. CASE PreparationStep
    BY <1>2 DEF PreparationStep
  <1>3. ASSUME NEW t \in Task, ExecutionEnds(t)
        PROVE  UNCHANGED vars
    BY <1>3 DEF ExecutionEnds
  <1>4. QED
    BY <1>1, <1>2, <1>3 DEF PipelineNext, pipelineVars

\* A worker holds no prepared task, and the recovery has loaded none.
LEMMA TakingKeepsExclusion ==
    ASSUME ExclusionInv, TypeOK', TakesPrepared
    PROVE  ExclusionInv'
  BY DEF ExclusionInv, GrantInv, TakesPrepared, preparationRest, sessions, recovery,
     Holds, RowOf

\* The columns of a lock, also in a prepared row: the claim changes the status
\* only, and the queued row it leaves has the columns the preparation set.
ColumnsOf(t) ==
    /\ status[t] \in {"absent", "backlog"} =>
          lockedBy[t] = NoWorker /\ queuedAt[t] = "null"
    /\ status[t] \in {"queued", "prepared"} =>
          lockedBy[t] \in Worker /\ queuedAt[t] # "null"

CoveredColumnsAgree == \A t \in Task \ unlockedGrant : ColumnsOf(t)

LEMMA TakingKeepsColumns ==
    ASSUME CoveredColumnsAgree, TakesPrepared
    PROVE  CoveredColumnsAgree'
  BY DEF CoveredColumnsAgree, ColumnsOf, TakesPrepared, preparationRest

\* A preparation that succeeds finds the lock in the row: for a task no
\* rolled-back lock handed out, GrantInv says so.
LEMMA CoveredColumnsNext ==
    ASSUME SlowPreparation = FALSE, ExclusionInv, CoveredColumnsAgree, [Next]_vars
    PROVE  CoveredColumnsAgree'
  <1> USE DEF rows, sessions, recovery
  <1>1. SUFFICES ASSUME NEW u \in Task \ unlockedGrant'
                 PROVE  ColumnsOf(u)'
    BY DEF CoveredColumnsAgree
  <1>2. unlockedGrant \subseteq unlockedGrant'
    BY DEF Next, WorkerStep, RecoveryStep, vars, CreateTask, TriggerCycle, Discover,
       LockTasks, LockConflict, RereadAfterConflict, AbortCycle, PrepareSucceeds,
       PrepareRejects, PrepareReturns, ReleaseFails, PrepareBreaks, LockAges,
       FindStaleTasks, RecoverStaleTasks, RecoveryAborts
  <1>3. TypeOK /\ ColumnsOf(u) /\ GrantInv(u)
    BY <1>1, <1>2 DEF ExclusionInv, CoveredColumnsAgree
  <1>4. ASSUME UNCHANGED <<status, lockedBy, queuedAt>>
        PROVE  ColumnsOf(u)'
    BY <1>3, <1>4 DEF ColumnsOf
  <1>5. ASSUME NEW w \in Worker, NEW t \in Task, CreateTask(w, t)
        PROVE  ColumnsOf(u)'
    BY <1>3, <1>5 DEF CreateTask, ColumnsOf, TypeOK
  <1>6. ASSUME NEW w \in Worker, LockTasks(w)
        PROVE  ColumnsOf(u)'
    BY <1>3, <1>6 DEF LockTasks, ColumnsOf, TypeOK
  <1>7. ASSUME NEW w \in Worker, NEW t \in Task,
               PrepareSucceeds(w, t) \/ PrepareRejects(w, t)
        PROVE  ColumnsOf(u)'
    <2>1. /\ Holds(w, t) /\ UNCHANGED <<lockedBy, queuedAt>>
          /\ u # t => status'[u] = status[u]
          /\ u = t => status'[u] \in {"prepared", "failed"}
      BY <1>3, <1>7 DEF PrepareSucceeds, PrepareRejects, TypeOK
    <2>2. u = t => status[u] = "queued"
      BY <1>3, <2>1 DEF GrantInv
    <2>3. QED
      BY <1>3, <2>1, <2>2 DEF ColumnsOf
  <1>8. ASSUME NEW w \in Worker, NEW t \in Task, PrepareReturns(w, t)
        PROVE  ColumnsOf(u)'
    <2>1. CASE status[t] = "queued"
      BY <1>3, <1>8, <2>1 DEF PrepareReturns, ReleaseLock, ColumnsOf, TypeOK
    <2>2. CASE status[t] # "queued"
      BY <1>4, <1>8, <2>2 DEF PrepareReturns, ReleaseLock
    <2>3. QED
      BY <2>1, <2>2
  <1>9. ASSUME NEW t \in Task, LockAges(t)
        PROVE  ColumnsOf(u)'
    BY <1>3, <1>9 DEF LockAges, ColumnsOf, TypeOK
  <1>10. ASSUME RecoverStaleTasks
         PROVE  ColumnsOf(u)'
    BY <1>3, <1>10 DEF RecoverStaleTasks, RecoveredStatus, ColumnsOf
  <1>11. ASSUME NEW w \in Worker,
                \/ TriggerCycle(w) \/ Discover(w) \/ LockConflict(w)
                \/ RereadAfterConflict(w) \/ AbortCycle(w)
                \/ \E t \in Task : ReleaseFails(w, t) \/ PrepareBreaks(w, t)
         PROVE  ColumnsOf(u)'
    BY <1>4, <1>11 DEF TriggerCycle, Discover, LockConflict, RereadAfterConflict,
       AbortCycle, ReleaseFails, PrepareBreaks
  <1>12. CASE FindStaleTasks \/ RecoveryAborts \/ UNCHANGED vars
    BY <1>4, <1>12 DEF FindStaleTasks, RecoveryAborts, vars
  <1>13. QED
    BY <1>5, <1>6, <1>7, <1>8, <1>9, <1>10, <1>11, <1>12
    DEF Next, WorkerStep, RecoveryStep

GrantedInv == PipelineInv /\ ExclusionInv /\ CoveredColumnsAgree

LEMMA GrantedInvInit == PipelineInit => GrantedInv
  BY PipelineInvInit, ExclusionInit
  DEF PipelineInit, Init, GrantedInv, CoveredColumnsAgree, ColumnsOf

LEMMA GrantedInvNext ==
    ASSUME SlowPreparation = FALSE, GrantedInv, [PipelineNext]_pipelineVars
    PROVE  GrantedInv'
  <1>1. PipelineInv' /\ TypeOK'
    BY PipelineInvNext DEF GrantedInv, PipelineInv
  <1>2. CASE [Next]_vars
    BY <1>1, <1>2, ExclusionNext, CoveredColumnsNext DEF GrantedInv
  <1>3. CASE TakesPrepared
    BY <1>1, <1>3, TakingKeepsExclusion, TakingKeepsColumns DEF GrantedInv
  <1>4. QED
    BY <1>2, <1>3, PipelineSteps DEF GrantedInv

LEMMA GrantedAlways ==
    ASSUME SlowPreparation = FALSE
    PROVE  PipelineSpec => []GrantedInv
  <1>1. GrantedInv /\ [PipelineNext]_pipelineVars => GrantedInv'
    BY GrantedInvNext
  <1>2. QED
    BY <1>1, GrantedInvInit, PTL DEF PipelineSpec

\* Exclusive grants survive the runners: a task a runner has claimed is queued
\* like one that is being prepared, and nobody is preparing it.
THEOREM PipelineGrants ==
    ASSUME SlowPreparation = FALSE
    PROVE  PipelineSpec => []GrantsAreExclusive
  <1>1. GrantedInv => GrantsAreExclusive
    BY DEF GrantedInv, ExclusionInv, GrantInv, GrantsAreExclusive
  <1>2. QED
    BY <1>1, GrantedAlways, PTL

\* The recovery commits by id what it has decided from values it loaded before;
\* also while runners claim tasks whose locks are old, these values are still
\* those of the rows.
THEOREM PipelineRecovery ==
    ASSUME SlowPreparation = FALSE
    PROVE  PipelineSpec => []RecoveryIsCurrent
  <1>1. GrantedInv => RecoveryIsCurrent
    BY DEF GrantedInv, ExclusionInv, TypeOK, GrantInv, RecoveryIsCurrent
  <1>2. QED
    BY <1>1, GrantedAlways, PTL

\* A task that a lock really covered carries the columns of that lock until
\* it goes back to backlog, also while a runner has it: once it is queued,
\* find_stale_tasks can select it.
THEOREM CoveredColumns ==
    ASSUME SlowPreparation = FALSE
    PROVE  PipelineSpec => []CoveredColumnsAgree
  BY GrantedAlways, PTL DEF GrantedInv
---------------------------------------------------------------------------
(* Failures are explained, among runners. *)

\* The recovery has loaded no prepared task, and none can be planned.
LEMMA TakingKeepsExplanations ==
    ASSUME ExplainInv, TypeOK', TakesPrepared
    PROVE  ExplainInv'
  <1>1. UNCHANGED <<queuedAt, attempts, lastError, sessions, recovery>>
    BY DEF TakesPrepared, preparationRest
  <1>2. OldLocksAreForgotten' /\ OpenIsUnlocked'
    BY <1>1 DEF ExplainInv, OldLocksAreForgotten, OpenIsUnlocked, TakesPrepared, sessions
  <1>3. FreshRecovery'
    BY <1>1 DEF ExplainInv, TypeOK, FreshRecovery, RowOf, TakesPrepared, recovery
  <1>4. \A w \in Worker : CopyIsNotAhead(w)'
    BY <1>1 DEF ExplainInv, CopyIsNotAhead, sessions
  <1>5. \A t \in Task : Explained(t)'
    BY <1>1 DEF ExplainInv, Explained, TakesPrepared
  <1>6. QED
    BY <1>2, <1>3, <1>4, <1>5 DEF ExplainInv

ExplainedInv == PipelineInv /\ ExplainInv

LEMMA ExplainedNext ==
    ASSUME SlowCycle = FALSE, ExplainedInv, [PipelineNext]_pipelineVars
    PROVE  ExplainedInv'
  <1>1. PipelineInv' /\ TypeOK'
    BY PipelineInvNext DEF ExplainedInv, PipelineInv
  <1>2. CASE [Next]_vars
    BY <1>1, <1>2, ExplainNext DEF ExplainedInv
  <1>3. CASE TakesPrepared
    BY <1>1, <1>3, TakingKeepsExplanations DEF ExplainedInv
  <1>4. QED
    BY <1>2, <1>3, PipelineSteps DEF ExplainedInv

\* If no cycle outlasts the stale timeout, a failed task has a message, for any
\* number of request threads and runners and with copies of any age: an
\* increment of the count may be lost on the way, the message is not.
THEOREM PipelineFailures ==
    ASSUME SlowCycle = FALSE
    PROVE  PipelineSpec => []FailedIsExplained
  <1>1. PipelineInit => ExplainedInv
    BY PipelineInvInit, ExplainInit DEF PipelineInit, ExplainedInv
  <1>2. ExplainedInv /\ [PipelineNext]_pipelineVars => ExplainedInv'
    BY ExplainedNext
  <1>3. ExplainedInv => FailedIsExplained
    BY DEF ExplainedInv, ExplainInv, Explained, FailedIsExplained
  <1>4. QED
    BY <1>1, <1>2, <1>3, PTL DEF PipelineSpec
---------------------------------------------------------------------------
(* The life cycle of a task, with runners. *)

\* A claim takes prepared tasks over: they are then what an abandoned task is,
\* queued and in nobody's hands, and the recovery may put them back.
TakeOver(S) ==
    /\ \A t \in S : StageOf(t) = "prepared"
    /\ Lifecycle!Drop(S, "abandoned")

LEMMA TakingTakesOver ==
    ASSUME ExclusionInv, TakesPrepared
    PROVE  \E S \in SUBSET Task : TakeOver(S)
  <1> DEFINE S == {t \in Task \ unlockedGrant : status'[t] # status[t]}
  <1>1. /\ UNCHANGED <<lockedBy, unlockedGrant>>
        /\ \A v \in Worker, u \in Task : Holds(v, u)' <=> Holds(v, u)
    BY DEF TakesPrepared, preparationRest, sessions, Holds
  <1>2. ASSUME NEW t \in S
        PROVE  /\ StageOf(t) = "prepared"
               /\ StageOf(t)' = "abandoned" /\ HolderOf(t)' = NoWorker
    <2>1. t \in Task /\ status[t] = "prepared" /\ status'[t] = "queued"
      BY DEF TakesPrepared
    <2>2. \A v \in Worker : ~Holds(v, t)'
      BY <1>1, <2>1 DEF ExclusionInv, GrantInv
    <2>3. QED
      BY <1>1, <2>1, <2>2 DEF StageOf, HolderOf
  <1>3. ASSUME NEW t \in Task, t \notin S
        PROVE  StageOf(t)' = StageOf(t) /\ HolderOf(t)' = HolderOf(t)
    <2>1. CASE t \in unlockedGrant
      BY <1>1, <2>1, ForfeitedStage, ForfeitedStageNext
    <2>2. CASE t \notin unlockedGrant
      BY <1>1, <1>3, <2>2, StageUnchanged
    <2>3. QED
      BY <2>1, <2>2
  <1> HIDE DEF S
  <1>4. Lifecycle!Drop(S, "abandoned")
    BY <1>2, <1>3, LifecycleDrops
  <1>5. S \in SUBSET Task
    BY DEF S
  <1>6. QED
    BY <1>2, <1>4, <1>5 DEF TakeOver

\* Among runners the preparation keeps the promises of TaskLifecycle, with one
\* more step: a prepared task is taken over.  In particular a task that has
\* failed stays failed, and a prepared one changes only by being claimed.
THEOREM PipelineLifecycle ==
    ASSUME SlowPreparation = FALSE
    PROVE  PipelineSpec =>
             /\ Lifecycle!Init
             /\ [][Lifecycle!Next \/ \E S \in SUBSET Task : TakeOver(S)]_(Lifecycle!vars)
  <1>1. PipelineInit => Lifecycle!Init
    BY RefinesInit DEF PipelineInit
  <1>2. GrantedInv /\ [PipelineNext]_pipelineVars =>
          [Lifecycle!Next \/ \E S \in SUBSET Task : TakeOver(S)]_(Lifecycle!vars)
    BY PipelineSteps, RefinesNext, TakingTakesOver DEF GrantedInv
  <1>3. QED
    BY <1>1, <1>2, GrantedAlways, PTL DEF PipelineSpec
===========================================================================
