---------------------- MODULE TaskPreparation_proofs ----------------------
(***************************************************************************)
(* Proofs about TaskPreparation, for every set of tasks and workers, every *)
(* batch size and every limit; last, that it implements TaskLifecycle.     *)
(***************************************************************************)
EXTENDS TaskPreparationRefines, FiniteSetTheorems, TLAPS

LEMMA RowOfType ==
    ASSUME TypeOK, NEW t \in Task
    PROVE  RowOf(t) \in Row
  BY DEF TypeOK, RowOf, Row

LEMMA FreshRowType == FreshRow \in Row
  BY DEF FreshRow, Row

\* Leaving the cycle keeps the types of the session.
LEMMA EndCycleType ==
    ASSUME TypeOK, NEW w \in Worker, EndCycle(w)
    PROVE  /\ pc' \in [Worker -> {"idle", "discover", "lock", "reread", "prepare"}]
           /\ batch' \in [Worker -> SUBSET Task]
           /\ view' \in [Worker -> [Task -> Row]]
  <1>1. [t \in Task |-> FreshRow] \in [Task -> Row]
    BY FreshRowType
  <1>2. QED
    BY <1>1 DEF EndCycle, TypeOK

LEMMA FinishTaskType ==
    ASSUME TypeOK, NEW w \in Worker, NEW t \in Task, FinishTask(w, t)
    PROVE  /\ pc' \in [Worker -> {"idle", "discover", "lock", "reread", "prepare"}]
           /\ batch' \in [Worker -> SUBSET Task]
           /\ view' \in [Worker -> [Task -> Row]]
  <1>1. CASE EndCycle(w)
    BY <1>1, EndCycleType
  <1>2. CASE batch' = [batch EXCEPT ![w] = @ \ {t}] /\ UNCHANGED <<pc, view>>
    BY <1>2 DEF TypeOK
  <1>3. QED
    BY <1>1, <1>2 DEF FinishTask

LEMMA RecordFailureType ==
    ASSUME TypeOK, NEW w \in Worker, NEW t \in Task, RecordFailure(w, t)
    PROVE  /\ attempts' \in [Task -> Nat]
           /\ lastError' \in [Task -> {"null"} \cup ErrorText]
  <1>1. view[w][t].attempts \in Nat
    BY DEF TypeOK, Row
  <1>2. attempts' \in [Task -> Nat]
    BY <1>1 DEF RecordFailure, TypeOK
  <1>3. PICK e \in ErrorText : lastError' = [lastError EXCEPT ![t] =
                          IF e = view[w][t].lastError THEN @ ELSE e]
    BY DEF RecordFailure
  <1>4. lastError' \in [Task -> {"null"} \cup ErrorText]
    BY <1>3 DEF TypeOK
  <1>5. QED
    BY <1>2, <1>4

LEMMA InitType == Init => TypeOK
  BY FreshRowType DEF Init, TypeOK, Status

LEMMA NextType == TypeOK /\ [Next]_vars => TypeOK'
  <1> SUFFICES ASSUME TypeOK, [Next]_vars
               PROVE  TypeOK'
    OBVIOUS
  <1> USE DEF rows, sessions, recovery
  <1>1. ASSUME NEW w \in Worker, NEW t \in Task, CreateTask(w, t)
        PROVE  TypeOK'
    BY <1>1 DEF CreateTask, TypeOK, Status
  <1>2. ASSUME NEW w \in Worker, TriggerCycle(w)
        PROVE  TypeOK'
    BY <1>2 DEF TriggerCycle, TypeOK
  <1>3. ASSUME NEW w \in Worker, Discover(w)
        PROVE  TypeOK'
    <2>1. CASE EndCycle(w)
      BY <1>3, <2>1, EndCycleType DEF Discover, TypeOK
    <2>2. ASSUME NEW S \in CandidateSets, NEW P \in BatchPlans(S),
                 pc' = [pc EXCEPT ![w] = "lock"],
                 batch' = [batch EXCEPT ![w] = P],
                 view' = [view EXCEPT ![w] = [t \in Task |->
                    IF t \in batch[w] THEN FreshRow ELSE RowOf(t)]]
          PROVE  TypeOK'
      <3>1. P \in SUBSET Task
        BY <2>2 DEF BatchPlans, CandidateSets, Open, Executable
      <3>2. [t \in Task |-> IF t \in batch[w] THEN FreshRow ELSE RowOf(t)]
               \in [Task -> Row]
        BY RowOfType, FreshRowType
      <3>3. view' \in [Worker -> [Task -> Row]]
        BY <2>2, <3>2 DEF TypeOK
      <3>4. QED
        BY <1>3, <2>2, <3>1, <3>3 DEF Discover, TypeOK
    <2>3. QED
      BY <1>3, <2>1, <2>2 DEF Discover
  <1>4. ASSUME NEW w \in Worker, LockTasks(w)
        PROVE  TypeOK'
    BY <1>4 DEF LockTasks, TypeOK, Status
  <1>5. ASSUME NEW w \in Worker, LockConflict(w)
        PROVE  TypeOK'
    BY <1>5 DEF LockConflict, TypeOK
  <1>6. ASSUME NEW w \in Worker, RereadAfterConflict(w)
        PROVE  TypeOK'
    <2> DEFINE free == {t \in batch[w] : status[t] = "backlog"}
    <2>1. free \in SUBSET Task
      BY DEF TypeOK
    <2>2. unlockedGrant' \in SUBSET Task
      BY <1>6, <2>1 DEF RereadAfterConflict, TypeOK
    <2>3. CASE EndCycle(w)
      BY <1>6, <2>2, <2>3, EndCycleType DEF RereadAfterConflict, TypeOK
    <2>4. CASE /\ pc' = [pc EXCEPT ![w] = "prepare"]
               /\ batch' = [batch EXCEPT ![w] = free]
               /\ view' = [view EXCEPT ![w] = [t \in Task |-> RowOf(t)]]
      <3>1. [t \in Task |-> RowOf(t)] \in [Task -> Row]
        BY RowOfType
      <3>2. view' \in [Worker -> [Task -> Row]]
        BY <2>4, <3>1 DEF TypeOK
      <3>3. batch' \in [Worker -> SUBSET Task]
        BY <2>4, <2>1 DEF TypeOK
      <3> HIDE DEF free
      <3>4. QED
        BY <1>6, <2>2, <2>4, <3>2, <3>3 DEF RereadAfterConflict, TypeOK
    <2>5. QED
      BY <1>6, <2>3, <2>4 DEF RereadAfterConflict
  <1>7. ASSUME NEW w \in Worker, AbortCycle(w)
        PROVE  TypeOK'
    BY <1>7, EndCycleType DEF AbortCycle, TypeOK
  <1>8. ASSUME NEW w \in Worker, NEW t \in Task, PrepareSucceeds(w, t)
        PROVE  TypeOK'
    BY <1>8, FinishTaskType DEF PrepareSucceeds, TypeOK, Status
  <1>9. ASSUME NEW w \in Worker, NEW t \in Task, PrepareRejects(w, t)
        PROVE  TypeOK'
    BY <1>9, FinishTaskType, RecordFailureType
    DEF PrepareRejects, TypeOK, Status
  <1>10. ASSUME NEW w \in Worker, NEW t \in Task, PrepareReturns(w, t)
         PROVE  TypeOK'
    BY <1>10, FinishTaskType, RecordFailureType
    DEF PrepareReturns, ReleaseLock, TypeOK, Status
  <1>11. ASSUME NEW w \in Worker, NEW t \in Task, ReleaseFails(w, t)
         PROVE  TypeOK'
    <2>1. CASE EndCycle(w)
      BY <1>11, <2>1, EndCycleType DEF ReleaseFails, TypeOK
    <2>2. CASE /\ batch' = [batch EXCEPT ![w] = @ \ {t}]
               /\ view' = [view EXCEPT ![w] = [u \in Task |-> RowOf(u)]]
               /\ UNCHANGED pc
      <3>1. [u \in Task |-> RowOf(u)] \in [Task -> Row]
        BY RowOfType
      <3>2. view' \in [Worker -> [Task -> Row]]
        BY <2>2, <3>1 DEF TypeOK
      <3>3. QED
        BY <1>11, <2>2, <3>2 DEF ReleaseFails, TypeOK
    <2>3. QED
      BY <1>11, <2>1, <2>2 DEF ReleaseFails
  <1>12. ASSUME NEW w \in Worker, NEW t \in Task, PrepareBreaks(w, t)
         PROVE  TypeOK'
    BY <1>12, FinishTaskType, RecordFailureType DEF PrepareBreaks, TypeOK
  <1>13. ASSUME NEW t \in Task, LockAges(t)
         PROVE  TypeOK'
    BY <1>13 DEF LockAges, TypeOK
  <1>14. ASSUME FindStaleTasks
         PROVE  TypeOK'
    <2>1. PICK Owners : /\ stale' = StaleTasks(Owners)
                        /\ staleView' = [t \in Task |->
                              IF t \in StaleTasks(Owners)
                              THEN RowOf(t) ELSE FreshRow]
      BY <1>14 DEF FindStaleTasks
    <2>2. stale' \in SUBSET Task
      BY <2>1 DEF StaleTasks
    <2>3. staleView' \in [Task -> Row]
      BY <2>1, RowOfType, FreshRowType
    <2>4. QED
      BY <1>14, <2>2, <2>3 DEF FindStaleTasks, TypeOK
  <1>15. ASSUME RecoverStaleTasks
         PROVE  TypeOK'
    <2>1. staleView' \in [Task -> Row]
      BY <1>15, FreshRowType DEF RecoverStaleTasks
    <2>2. status' \in [Task -> Status]
      BY <1>15 DEF RecoverStaleTasks, RecoveredStatus, TypeOK, Status
    <2>3. attempts' \in [Task -> Nat] /\ lastError' \in [Task -> {"null"} \cup ErrorText]
      BY <1>15 DEF RecoverStaleTasks, TypeOK
    <2>4. QED
      BY <1>15, <2>1, <2>2, <2>3 DEF RecoverStaleTasks, TypeOK
  <1>16. ASSUME RecoveryAborts
         PROVE  TypeOK'
    BY <1>16, FreshRowType DEF RecoveryAborts, TypeOK
  <1>17. CASE UNCHANGED vars
    BY <1>17 DEF vars, TypeOK
  <1>18. QED
    BY <1>1, <1>2, <1>3, <1>4, <1>5, <1>6, <1>7, <1>8, <1>9, <1>10, <1>11,
       <1>12, <1>13, <1>14, <1>15, <1>16, <1>17
    DEF Next, WorkerStep, RecoveryStep

\* Every variable keeps its type.
THEOREM TypeCorrect == Spec => []TypeOK
  BY InitType, NextType, PTL DEF Spec
---------------------------------------------------------------------------
(* What is planned: a batch exists whenever a task is open, and keeps its   *)
(* promises until it is used up.                                           *)

\* There is a plan for any candidates, and it leaves somebody to prepare.
LEMMA PlanExists ==
    ASSUME NEW S \in SUBSET Task
    PROVE  /\ BatchPlans(S) # {}
           /\ S # {} => \A P \in BatchPlans(S) : P # {}
  <1> DEFINE Rivals(t) == {u \in S \ ReadOnly : ConflictKey(u) = ConflictKey(t)}
             First(t) == CHOOSE u \in Rivals(t) : TRUE
             P == (S \cap ReadOnly) \cup {t \in S \ ReadOnly : t = First(t)}
  <1>1. ASSUME NEW t \in S \ ReadOnly
        PROVE  /\ First(t) \in Rivals(t)
               /\ First(First(t)) = First(t)
    <2>1. t \in Rivals(t)
      OBVIOUS
    <2>2. First(t) \in Rivals(t)
      BY <2>1
    <2>3. Rivals(First(t)) = Rivals(t)
      BY <2>2
    <2>4. First(First(t)) = First(t)
      BY <2>3
    <2>5. QED
      BY <2>2, <2>4
  <1>2. P \in SUBSET S /\ S \cap ReadOnly \subseteq P
    OBVIOUS
  <1>3. ASSUME NEW t \in S \ ReadOnly
        PROVE  \E u \in P \ ReadOnly : ConflictKey(u) = ConflictKey(t)
    BY <1>1, <1>3
  <1>4. ASSUME NEW t \in P \ ReadOnly, NEW u \in P \ ReadOnly,
               ConflictKey(u) = ConflictKey(t)
        PROVE  u = t
    <2>1. Rivals(u) = Rivals(t)
      BY <1>4
    <2>2. u = First(u) /\ t = First(t)
      BY <1>4
    <2>3. QED
      BY <2>1, <2>2
  <1> HIDE DEF P, First, Rivals
  <1>5. P \in BatchPlans(S)
    BY <1>2, <1>3, <1>4 DEF BatchPlans
  <1>6. QED
    BY <1>5 DEF BatchPlans

\* A set with at least n elements has a subset with n: a smallest one of those
\* with at least n.
LEMMA SubsetOfSize ==
    ASSUME NEW S, IsFiniteSet(S), NEW n \in Nat, Cardinality(S) >= n
    PROVE  \E T \in SUBSET S : Cardinality(T) = n
  <1> DEFINE Large == {T \in SUBSET S : Cardinality(T) >= n}
             R == StrictSubsetOrdering(S)
  <1>1. Large \subseteq FiniteSubsetsOf(S) /\ S \in Large
    BY FS_Subset DEF FiniteSubsetsOf
  <1>2. IsWellFoundedOn(R, FiniteSubsetsOf(S))
    BY FS_StrictSubsetOrderingWellFounded
  <1> HIDE DEF R
  <1>3. PICK T \in Large : \A U \in Large : ~(<<U, T>> \in R)
    <2> HIDE DEF Large
    <2>1. QED
      BY <1>1, <1>2, WFMin
  <1>4. IsFiniteSet(T) /\ Cardinality(T) \in Nat
    BY <1>3, FS_Subset, FS_CardinalityType
  <1>5. ASSUME Cardinality(T) > n
        PROVE  FALSE
    <2>1. PICK x \in T : TRUE
      BY <1>4, <1>5, FS_EmptySet
    <2>2. Cardinality(T \ {x}) = Cardinality(T) - 1
      BY <1>4, FS_RemoveElement
    <2>3. T \ {x} \in Large
      BY <1>3, <1>4, <1>5, <2>2
    <2>4. <<T \ {x}, T>> \in R
      BY <1>3, <2>1 DEF R, StrictSubsetOrdering
    <2>5. QED
      BY <1>3, <2>3, <2>4
  <1>6. QED
    BY <1>3, <1>4, <1>5

\* As long as there are open tasks, the discovery finds candidates and the
\* planner a batch of them: no cycle is stuck over what other tasks demand.
THEOREM DiscoveryFindsWork ==
    Open # {} => \E S \in CandidateSets : \E P \in BatchPlans(S) : P # {}
  <1> SUFFICES ASSUME Open # {}
               PROVE  \E S \in CandidateSets : \E P \in BatchPlans(S) : P # {}
    OBVIOUS
  <1>1. Open \in SUBSET Task
    BY DEF Open, Executable
  <1>2. IsFiniteSet(Open) /\ Cardinality(Open) \in Nat
    BY <1>1, TaskAssumption, FS_Subset, FS_CardinalityType
  <1>3. \E S \in CandidateSets : S # {}
    <2>1. CASE Cardinality(Open) < MaxBatchSize
      BY <2>1 DEF CandidateSets
    <2>2. CASE Cardinality(Open) >= MaxBatchSize
      <3>1. PICK S \in SUBSET Open : Cardinality(S) = MaxBatchSize
        BY <1>2, <2>2, NumberAssumption, SubsetOfSize
      <3>2. S # {}
        BY <3>1, NumberAssumption, FS_EmptySet
      <3>3. QED
        BY <3>1, <3>2 DEF CandidateSets
    <2>3. QED
      BY <1>2, <2>1, <2>2, NumberAssumption
  <1>4. PICK S \in CandidateSets : S # {}
    BY <1>3
  <1>5. S \in SUBSET Task
    BY <1>1 DEF CandidateSets
  <1>6. QED
    BY <1>4, <1>5, PlanExists
\* What a worker prepares in one cycle: no more tasks than the limit, only of
\* types that are executed, and of the writing tasks one per conflict key.
BatchOK(B) ==
    /\ B \subseteq Executable
    /\ Cardinality(B) <= MaxBatchSize
    /\ \A t, u \in B \ ReadOnly : ConflictKey(u) = ConflictKey(t) => u = t

BatchesAreCompatible == \A w \in Worker : pc[w] # "discover" => BatchOK(batch[w])

LEMMA SmallerBatch ==
    ASSUME NEW B, BatchOK(B), NEW A \in SUBSET B
    PROVE  BatchOK(A)
  <1>1. IsFiniteSet(B)
    BY TaskAssumption, FS_Subset DEF BatchOK, Executable
  <1>2. Cardinality(A) <= Cardinality(B) /\ Cardinality(A) \in Nat /\ Cardinality(B) \in Nat
    BY <1>1, FS_Subset, FS_CardinalityType
  <1>3. Cardinality(A) <= MaxBatchSize
    BY <1>2, NumberAssumption DEF BatchOK
  <1>4. QED
    BY <1>3 DEF BatchOK

LEMMA EmptyBatch == BatchOK({})
  BY FS_EmptySet, NumberAssumption DEF BatchOK

LEMMA PlannedBatch ==
    ASSUME NEW S \in CandidateSets, NEW P \in BatchPlans(S)
    PROVE  BatchOK(P)
  <1>1. S \subseteq Open /\ P \subseteq S /\ Open \subseteq Task
    BY DEF CandidateSets, BatchPlans, Open, Executable
  <1>2. IsFiniteSet(S) /\ Cardinality(S) \in Nat
    BY <1>1, TaskAssumption, FS_Subset, FS_CardinalityType
  <1>3. Cardinality(P) <= Cardinality(S) /\ Cardinality(P) \in Nat
    BY <1>1, <1>2, FS_Subset, FS_CardinalityType
  <1>4. Cardinality(S) <= MaxBatchSize
    BY <1>2, NumberAssumption DEF CandidateSets
  <1>5. Cardinality(P) <= MaxBatchSize
    BY <1>2, <1>3, <1>4, NumberAssumption
  <1>6. P \subseteq Executable
    BY <1>1 DEF Open
  <1>7. QED
    BY <1>5, <1>6 DEF BatchPlans, BatchOK

LEMMA BatchNext ==
    ASSUME TypeOK, BatchesAreCompatible, [Next]_vars
    PROVE  BatchesAreCompatible'
  <1> USE DEF rows, sessions, recovery
  <1>1. SUFFICES ASSUME NEW v \in Worker, pc'[v] # "discover"
                 PROVE  BatchOK(batch'[v])
    BY DEF BatchesAreCompatible, BatchOK
  <1>2. ASSUME batch'[v] \subseteq batch[v], pc[v] # "discover"
        PROVE  BatchOK(batch'[v])
    BY <1>2, SmallerBatch DEF BatchesAreCompatible
  <1>3. ASSUME NEW w \in Worker, EndCycle(w), pc[v] # "discover" \/ v = w
        PROVE  BatchOK(batch'[v])
    BY <1>2, <1>3, EmptyBatch DEF EndCycle, TypeOK
  <1>4. ASSUME NEW w \in Worker, NEW t \in Task, FinishTask(w, t), Holds(w, t)
        PROVE  BatchOK(batch'[v])
    <2>1. pc[w] # "discover"
      BY <1>4 DEF Holds
    <2>2. CASE EndCycle(w)
      BY <1>1, <1>3, <2>1, <2>2 DEF EndCycle, TypeOK
    <2>3. CASE batch' = [batch EXCEPT ![w] = @ \ {t}] /\ UNCHANGED <<pc, view>>
      BY <1>1, <1>2, <2>3 DEF TypeOK
    <2>4. QED
      BY <1>4, <2>2, <2>3 DEF FinishTask
  <1>5. ASSUME NEW w \in Worker, NEW t \in Task, CreateTask(w, t)
        PROVE  BatchOK(batch'[v])
    BY <1>1, <1>2, <1>5 DEF CreateTask, TypeOK
  <1>6. ASSUME NEW w \in Worker, TriggerCycle(w) \/ LockTasks(w) \/ LockConflict(w)
        PROVE  BatchOK(batch'[v])
    BY <1>1, <1>2, <1>6 DEF TriggerCycle, LockTasks, LockConflict, TypeOK
  <1>7. ASSUME NEW w \in Worker, Discover(w)
        PROVE  BatchOK(batch'[v])
    <2>1. CASE EndCycle(w)
      BY <1>1, <1>3, <2>1 DEF EndCycle, TypeOK
    <2>2. ASSUME NEW S \in CandidateSets, NEW P \in BatchPlans(S),
                 pc' = [pc EXCEPT ![w] = "lock"],
                 batch' = [batch EXCEPT ![w] = P]
          PROVE  BatchOK(batch'[v])
      <3>1. CASE v = w
        BY <2>2, <3>1, PlannedBatch DEF TypeOK
      <3>2. CASE v # w
        BY <1>1, <1>2, <2>2, <3>2 DEF TypeOK
      <3>3. QED
        BY <3>1, <3>2
    <2>3. QED
      BY <1>7, <2>1, <2>2 DEF Discover
  <1>8. ASSUME NEW w \in Worker, RereadAfterConflict(w)
        PROVE  BatchOK(batch'[v])
    <2>1. CASE EndCycle(w)
      BY <1>1, <1>3, <2>1 DEF EndCycle, TypeOK
    <2>2. CASE /\ pc' = [pc EXCEPT ![w] = "prepare"]
               /\ batch' = [batch EXCEPT ![w] = {t \in batch[w] : status[t] = "backlog"}]
      BY <1>1, <1>2, <1>8, <2>2 DEF RereadAfterConflict, TypeOK
    <2>3. QED
      BY <1>8, <2>1, <2>2 DEF RereadAfterConflict
  <1>9. ASSUME NEW w \in Worker, AbortCycle(w)
        PROVE  BatchOK(batch'[v])
    BY <1>1, <1>3, <1>9 DEF AbortCycle, EndCycle, TypeOK
  <1>10. ASSUME NEW w \in Worker, NEW t \in Task,
                \/ PrepareSucceeds(w, t) \/ PrepareRejects(w, t)
                \/ PrepareReturns(w, t) \/ PrepareBreaks(w, t)
         PROVE  BatchOK(batch'[v])
    BY <1>4, <1>10 DEF PrepareSucceeds, PrepareRejects, PrepareReturns, PrepareBreaks
  <1>11. ASSUME NEW w \in Worker, NEW t \in Task, ReleaseFails(w, t)
         PROVE  BatchOK(batch'[v])
    <2>1. CASE EndCycle(w)
      BY <1>1, <1>3, <2>1 DEF EndCycle, TypeOK
    <2>2. CASE batch' = [batch EXCEPT ![w] = @ \ {t}] /\ UNCHANGED pc
      BY <1>1, <1>2, <2>2 DEF TypeOK
    <2>3. QED
      BY <1>11, <2>1, <2>2 DEF ReleaseFails
  <1>12. CASE RecoveryStep \/ UNCHANGED vars
    <2>1. UNCHANGED <<pc, batch>>
      BY <1>12 DEF RecoveryStep, LockAges, FindStaleTasks, RecoverStaleTasks,
         RecoveryAborts, vars
    <2>2. QED
      BY <1>1, <1>2, <2>1
  <1>13. QED
    BY <1>5, <1>6, <1>7, <1>8, <1>9, <1>10, <1>11, <1>12 DEF Next, WorkerStep

\* From the plan to the last preparation, through conflicts and failed releases,
\* a batch has no two tasks that would write to one branch.
THEOREM CompatibleBatches == Spec => []BatchesAreCompatible
  <1>1. Init => TypeOK /\ BatchesAreCompatible
    BY InitType, EmptyBatch DEF Init, BatchesAreCompatible
  <1>2. TypeOK /\ BatchesAreCompatible /\ [Next]_vars => TypeOK' /\ BatchesAreCompatible'
    BY NextType, BatchNext
  <1>3. QED
    BY <1>1, <1>2, PTL DEF Spec
---------------------------------------------------------------------------
(* The columns of a lock change together. *)

\* A row that was never inserted has no lock either: needed because the
\* insertion does not set the columns.
ColumnsInv ==
    /\ TypeOK
    /\ LockColumnsAgree
    /\ \A t \in Task : status[t] = "absent" =>
          lockedBy[t] = NoWorker /\ queuedAt[t] = "null"

LEMMA ColumnsInit == Init => ColumnsInv
  BY InitType DEF Init, ColumnsInv, LockColumnsAgree

LEMMA ColumnsNext == ColumnsInv /\ [Next]_vars => ColumnsInv'
  <1> SUFFICES ASSUME ColumnsInv, [Next]_vars
               PROVE  ColumnsInv'
    OBVIOUS
  <1> USE DEF rows, sessions, recovery, ColumnsInv, LockColumnsAgree
  <1>0. TypeOK /\ TypeOK'
    BY NextType
  <1>1. ASSUME NEW w \in Worker, NEW t \in Task, CreateTask(w, t)
        PROVE  ColumnsInv'
    BY <1>0, <1>1 DEF CreateTask, TypeOK
  <1>2. ASSUME UNCHANGED <<status, lockedBy, queuedAt>>
        PROVE  ColumnsInv'
    BY <1>0, <1>2
  <1>3. ASSUME NEW w \in Worker,
               \/ TriggerCycle(w) \/ Discover(w) \/ LockConflict(w)
               \/ RereadAfterConflict(w) \/ AbortCycle(w)
               \/ \E t \in Task : ReleaseFails(w, t) \/ PrepareBreaks(w, t)
        PROVE  ColumnsInv'
    BY <1>2, <1>3 DEF TriggerCycle, Discover, LockConflict,
       RereadAfterConflict, AbortCycle, ReleaseFails, PrepareBreaks
  <1>4. ASSUME NEW w \in Worker, LockTasks(w)
        PROVE  ColumnsInv'
    BY <1>0, <1>4, WorkerAssumption DEF LockTasks, TypeOK
  <1>5. ASSUME NEW w \in Worker, NEW t \in Task,
               PrepareSucceeds(w, t) \/ PrepareRejects(w, t)
        PROVE  ColumnsInv'
    BY <1>0, <1>5 DEF PrepareSucceeds, PrepareRejects, TypeOK
  <1>6. ASSUME NEW w \in Worker, NEW t \in Task, PrepareReturns(w, t)
        PROVE  ColumnsInv'
    <2>1. CASE status[t] = "queued"
      <3>1. /\ status' = [status EXCEPT ![t] = "backlog"]
            /\ lockedBy' = [lockedBy EXCEPT ![t] = NoWorker]
            /\ queuedAt' = [queuedAt EXCEPT ![t] = "null"]
        BY <1>6, <2>1 DEF PrepareReturns, ReleaseLock
      <3>2. ASSUME NEW u \in Task
            PROVE  /\ u # t => UNCHANGED <<status[u], lockedBy[u], queuedAt[u]>>
                   /\ u = t => /\ status'[u] = "backlog"
                              /\ lockedBy'[u] = NoWorker
                              /\ queuedAt'[u] = "null"
        BY <1>0, <3>1 DEF TypeOK
      <3>3. QED
        BY <1>0, <3>2
    <2>2. CASE status[t] # "queued"
      BY <1>2, <1>6, <2>2 DEF PrepareReturns, ReleaseLock
    <2>3. QED
      BY <2>1, <2>2
  <1>7. ASSUME NEW t \in Task, LockAges(t)
        PROVE  ColumnsInv'
    BY <1>0, <1>7 DEF LockAges, TypeOK
  <1>8. ASSUME FindStaleTasks \/ RecoveryAborts
        PROVE  ColumnsInv'
    BY <1>2, <1>8 DEF FindStaleTasks, RecoveryAborts
  <1>9. ASSUME RecoverStaleTasks
        PROVE  ColumnsInv'
    BY <1>0, <1>9 DEF RecoverStaleTasks, RecoveredStatus, TypeOK
  <1>10. CASE UNCHANGED vars
    BY <1>2, <1>10 DEF vars
  <1>11. QED
    BY <1>1, <1>3, <1>4, <1>5, <1>6, <1>7, <1>8, <1>9, <1>10
    DEF Next, WorkerStep, RecoveryStep

\* In every order of commits, with recoveries that race live workers and
\* locks handed out by mistake, the columns of the lock agree with the status.
THEOREM LockColumns == Spec => []LockColumnsAgree
  <1>1. Spec => []ColumnsInv
    BY ColumnsInit, ColumnsNext, PTL DEF Spec
  <1>2. ColumnsInv => LockColumnsAgree
    BY DEF ColumnsInv
  <1>3. QED
    BY <1>1, <1>2, PTL
---------------------------------------------------------------------------
(* Exclusive grants, when a lock outlives the preparation it covers. *)

\* For a task no rolled-back lock handed out: whoever works on it is the
\* worker in its row, under a timestamp the recovery cannot select, and what
\* the recovery has loaded is still queued, old and unchanged.
GrantInv(t) ==
    /\ \A w \in Worker : Holds(w, t) =>
          /\ status[t] = "queued"
          /\ lockedBy[t] = w
          /\ queuedAt[t] = "recent"
          /\ t \notin stale
    /\ t \in stale => /\ status[t] = "queued" /\ queuedAt[t] = "stale"
                      /\ staleView[t] = RowOf(t)

ExclusionInv == TypeOK /\ \A t \in Task \ unlockedGrant : GrantInv(t)

LEMMA ExclusionInit == Init => ExclusionInv
  BY InitType DEF Init, ExclusionInv, GrantInv, Holds

\* What a worker holds after it finished one task it held before.
LEMMA FinishHolds ==
    ASSUME TypeOK, NEW w \in Worker, NEW t \in Task, FinishTask(w, t),
           NEW v \in Worker, NEW u \in Task, Holds(v, u)'
    PROVE  Holds(v, u) /\ (v = w => u # t)
  <1>1. CASE EndCycle(w)
    BY <1>1 DEF EndCycle, Holds, TypeOK
  <1>2. CASE batch' = [batch EXCEPT ![w] = @ \ {t}] /\ UNCHANGED <<pc, view>>
    BY <1>2 DEF Holds, TypeOK
  <1>3. QED
    BY <1>1, <1>2 DEF FinishTask

LEMMA EndHolds ==
    ASSUME TypeOK, NEW w \in Worker, EndCycle(w),
           NEW v \in Worker, NEW u \in Task, Holds(v, u)'
    PROVE  Holds(v, u) /\ v # w
  BY DEF EndCycle, Holds, TypeOK

LEMMA ExclusionNext ==
    ASSUME SlowPreparation = FALSE, ExclusionInv, [Next]_vars
    PROVE  ExclusionInv'
  <1> USE DEF rows, sessions, recovery, ExclusionInv, GrantInv
  <1>0. TypeOK /\ TypeOK'
    BY NextType
  <1>1. SUFFICES ASSUME NEW u \in Task \ unlockedGrant'
                 PROVE  GrantInv(u)'
    BY <1>0
  <1>2. ASSUME u \notin unlockedGrant,
               UNCHANGED <<rows, recovery>>,
               \A v \in Worker : Holds(v, u)' => Holds(v, u)
        PROVE  GrantInv(u)'
    BY <1>2 DEF RowOf
  <1>3. ASSUME NEW w \in Worker, NEW t \in Task, CreateTask(w, t)
        PROVE  GrantInv(u)'
    BY <1>0, <1>3 DEF CreateTask, TypeOK, Holds, RowOf
  <1>4. ASSUME NEW w \in Worker, TriggerCycle(w) \/ LockConflict(w)
        PROVE  GrantInv(u)'
    BY <1>0, <1>2, <1>4 DEF TriggerCycle, LockConflict, Holds, TypeOK
  <1>5. ASSUME NEW w \in Worker, Discover(w)
        PROVE  GrantInv(u)'
    <2>1. \A v \in Worker : Holds(v, u)' => Holds(v, u)
      BY <1>0, <1>5, EndHolds DEF Discover, Holds, TypeOK
    <2>2. QED
      BY <1>2, <1>5, <2>1 DEF Discover
  <1>6. ASSUME NEW w \in Worker, LockTasks(w)
        PROVE  GrantInv(u)'
    BY <1>0, <1>6 DEF LockTasks, Holds, TypeOK, RowOf
  <1>7. ASSUME NEW w \in Worker, RereadAfterConflict(w)
        PROVE  GrantInv(u)'
    <2>1. u \notin unlockedGrant /\ (u \in batch[w] => status[u] # "backlog")
      BY <1>7 DEF RereadAfterConflict
    <2>2. \A v \in Worker : Holds(v, u)' => Holds(v, u)
      BY <1>0, <1>7, <2>1, EndHolds DEF RereadAfterConflict, Holds, TypeOK
    <2>3. QED
      BY <1>2, <1>7, <2>1, <2>2 DEF RereadAfterConflict
  <1>8. ASSUME NEW w \in Worker, AbortCycle(w)
        PROVE  GrantInv(u)'
    BY <1>0, <1>2, <1>8, EndHolds DEF AbortCycle
  <1>9. ASSUME NEW w \in Worker, NEW t \in Task,
               \/ PrepareSucceeds(w, t) \/ PrepareRejects(w, t)
               \/ PrepareReturns(w, t) \/ PrepareBreaks(w, t)
        PROVE  GrantInv(u)'
    <2>1. Holds(w, t) /\ FinishTask(w, t) /\ UNCHANGED <<recovery, unlockedGrant>>
      BY <1>9 DEF PrepareSucceeds, PrepareRejects, PrepareReturns, PrepareBreaks
    <2>2. \A v \in Worker : Holds(v, u)' => Holds(v, u) /\ (v = w => u # t)
      BY <1>0, <2>1, FinishHolds
    <2>3. u # t => UNCHANGED <<status[u], lockedBy[u], queuedAt[u]>>
      BY <1>0, <1>9 DEF PrepareSucceeds, PrepareRejects, PrepareReturns,
         PrepareBreaks, ReleaseLock, TypeOK
    <2>4. u # t => RowOf(u)' = RowOf(u)
      BY <1>0, <1>9 DEF PrepareSucceeds, PrepareRejects, PrepareReturns,
         PrepareBreaks, RecordFailure, RowOf, TypeOK
    <2>5. u = t => lockedBy[u] = w /\ u \notin stale
      BY <2>1
    <2>6. QED
      BY <2>1, <2>2, <2>3, <2>4, <2>5
  <1>10. ASSUME NEW w \in Worker, NEW t \in Task, ReleaseFails(w, t)
         PROVE  GrantInv(u)'
    <2>1. \A v \in Worker : Holds(v, u)' => Holds(v, u)
      BY <1>0, <1>10, EndHolds DEF ReleaseFails, Holds, TypeOK
    <2>2. QED
      BY <1>2, <1>10, <2>1 DEF ReleaseFails
  <1>11. ASSUME NEW t \in Task, LockAges(t)
         PROVE  GrantInv(u)'
    BY <1>0, <1>11 DEF LockAges, Holds, TypeOK, RowOf
  <1>12. ASSUME FindStaleTasks
         PROVE  GrantInv(u)'
    BY <1>0, <1>12 DEF FindStaleTasks, StaleTasks, Holds, RowOf
  <1>13. ASSUME RecoverStaleTasks
         PROVE  GrantInv(u)'
    BY <1>0, <1>13 DEF RecoverStaleTasks, Holds
  <1>14. ASSUME RecoveryAborts
         PROVE  GrantInv(u)'
    BY <1>0, <1>14 DEF RecoveryAborts, Holds
  <1>15. CASE UNCHANGED vars
    BY <1>2, <1>15 DEF vars, Holds
  <1>16. QED
    BY <1>3, <1>4, <1>5, <1>6, <1>7, <1>8, <1>9, <1>10, <1>11, <1>12, <1>13,
       <1>14, <1>15
    DEF Next, WorkerStep, RecoveryStep

LEMMA ExclusionAlways ==
    ASSUME SlowPreparation = FALSE
    PROVE  Spec => []ExclusionInv
  <1>1. ExclusionInv /\ [Next]_vars => ExclusionInv'
    BY ExclusionNext
  <1>2. QED
    BY <1>1, ExclusionInit, PTL DEF Spec

\* If no preparation outlasts the stale timeout, a task the lock really
\* covered is only ever worked on by the worker its row names.
THEOREM ExclusiveGrants ==
    ASSUME SlowPreparation = FALSE
    PROVE  Spec => []GrantsAreExclusive
  <1>1. ExclusionInv => GrantsAreExclusive
    BY DEF ExclusionInv, GrantInv, GrantsAreExclusive
  <1>2. QED
    BY <1>1, ExclusionAlways, PTL

\* Under the same assumption the recovery decides by values that are still
\* those of the rows, up to its commit.
THEOREM CurrentRecovery ==
    ASSUME SlowPreparation = FALSE
    PROVE  Spec => []RecoveryIsCurrent
  <1>1. ExclusionInv => RecoveryIsCurrent
    BY DEF ExclusionInv, TypeOK, GrantInv, RecoveryIsCurrent
  <1>2. QED
    BY <1>1, ExclusionAlways, PTL

\* No step changes the status of a task that has an outcome.
LEMMA FinalStep ==
    ASSUME SlowPreparation = FALSE, ExclusionInv, [Next]_vars,
           NEW t \in Task \ unlockedGrant, status[t] \in {"prepared", "failed"}
    PROVE  status'[t] = status[t]
  <1> USE DEF rows, sessions, recovery, ExclusionInv, GrantInv
  <1>1. t \notin stale /\ \A w \in Worker : ~Holds(w, t)
    OBVIOUS
  <1>2. CASE RecoveryStep
    BY <1>1, <1>2 DEF RecoveryStep, LockAges, FindStaleTasks,
       RecoverStaleTasks, RecoveryAborts
  <1>3. ASSUME NEW w \in Worker, NEW u \in Task,
               CreateTask(w, u) \/ PrepareSucceeds(w, u)
               \/ PrepareRejects(w, u) \/ PrepareReturns(w, u)
               \/ ReleaseFails(w, u) \/ PrepareBreaks(w, u)
        PROVE  status'[t] = status[t]
    BY <1>1, <1>3 DEF CreateTask, PrepareSucceeds, PrepareRejects, PrepareReturns,
       ReleaseFails, PrepareBreaks, ReleaseLock, TypeOK
  <1>4. ASSUME NEW w \in Worker,
               \/ TriggerCycle(w) \/ Discover(w) \/ LockTasks(w)
               \/ LockConflict(w) \/ RereadAfterConflict(w) \/ AbortCycle(w)
        PROVE  status'[t] = status[t]
    BY <1>4 DEF TriggerCycle, Discover, LockTasks, LockConflict,
       RereadAfterConflict, AbortCycle, TypeOK
  <1>5. CASE UNCHANGED vars
    BY <1>5 DEF vars
  <1>6. QED
    BY <1>2, <1>3, <1>4, <1>5 DEF Next, WorkerStep

\* Under the same assumption nothing overwrites an outcome of such a task.
THEOREM FinalOutcomes ==
    ASSUME SlowPreparation = FALSE
    PROVE  Spec => OutcomesAreFinal
  <1> DEFINE Final == \A t \in Task \ unlockedGrant :
         status[t] \in {"prepared", "failed"} => status'[t] = status[t]
  <1>1. ExclusionInv /\ [Next]_vars => [Final]_vars
    BY FinalStep
  <1>2. QED
    BY <1>1, ExclusionAlways, PTL DEF Spec, OutcomesAreFinal
---------------------------------------------------------------------------
(* Failures are explained, as long as no cycle outlasts the stale timeout.  *)
(* The copies of the workers may be old: they may lack attempts that other  *)
(* workers have recorded since.  But no recovery comes after them, so a     *)
(* message that a copy has is not cleared, and dropping the assignment that *)
(* repeats it does no harm.                                                 *)

\* A lock that is old covers no task that some worker has planned.
OldLocksAreForgotten ==
    \A t \in Task : queuedAt[t] = "stale" => \A w \in Worker : t \notin batch[w]

\* What can be planned has no lock.
OpenIsUnlocked ==
    \A t \in Task : status[t] \in {"absent", "backlog"} => queuedAt[t] = "null"

\* What the recovery has loaded is queued, old and unchanged, whoever it was
\* handed out to.
FreshRecovery ==
    \A t \in stale : /\ status[t] = "queued" /\ queuedAt[t] = "stale"
                     /\ staleView[t] = RowOf(t)

\* A message in the copy of a planned task is not gone from the table.
CopyIsNotAhead(w) ==
    pc[w] # "discover" =>
        \A t \in batch[w] : view[w][t].lastError # "null" => lastError[t] # "null"

\* A message has come with every attempt and every failed task.
Explained(t) ==
    attempts[t] > 0 \/ status[t] = "failed" => lastError[t] # "null"

ExplainInv ==
    /\ TypeOK
    /\ OldLocksAreForgotten
    /\ OpenIsUnlocked
    /\ FreshRecovery
    /\ \A w \in Worker : CopyIsNotAhead(w)
    /\ \A t \in Task : Explained(t)

LEMMA ExplainInit == Init => ExplainInv
  BY InitType
  DEF Init, ExplainInv, OldLocksAreForgotten, OpenIsUnlocked, FreshRecovery,
      CopyIsNotAhead, Explained

\* What a session still has to do after it finished a task, it had before.
LEMMA FinishKeepsCopies ==
    ASSUME TypeOK, NEW w \in Worker, NEW t \in Task, FinishTask(w, t),
           NEW v \in Worker, NEW u \in batch'[v]
    PROVE  u \in batch[v] /\ view'[v] = view[v] /\ pc'[v] = pc[v]
  <1>1. CASE EndCycle(w)
    BY <1>1 DEF EndCycle, TypeOK
  <1>2. CASE batch' = [batch EXCEPT ![w] = @ \ {t}] /\ UNCHANGED <<pc, view>>
    BY <1>2 DEF TypeOK
  <1>3. QED
    BY <1>1, <1>2 DEF FinishTask

LEMMA EndKeepsCopies ==
    ASSUME TypeOK, NEW w \in Worker, EndCycle(w),
           NEW v \in Worker, NEW u \in batch'[v]
    PROVE  u \in batch[v] /\ view'[v] = view[v] /\ pc'[v] = pc[v]
  BY DEF EndCycle, TypeOK

\* The message after a recorded failure, whatever the session had loaded.
LEMMA RecordedFailure ==
    ASSUME TypeOK, NEW w \in Worker, NEW t \in Task, RecordFailure(w, t),
           view[w][t].lastError # "null" => lastError[t] # "null"
    PROVE  /\ lastError'[t] # "null"
           /\ \A u \in Task : u # t => RowOf(u)' = RowOf(u)
  <1>1. PICK e \in ErrorText :
           lastError' = [lastError EXCEPT ![t] =
                           IF e = view[w][t].lastError THEN @ ELSE e]
    BY DEF RecordFailure
  <1>2. e # "null"
    BY ErrorAssumption
  <1>3. lastError'[t] # "null"
    BY <1>1, <1>2 DEF TypeOK
  <1>4. QED
    BY <1>1, <1>3 DEF RecordFailure, RowOf, TypeOK

LEMMA ExplainNext ==
    ASSUME SlowCycle = FALSE, ExplainInv, [Next]_vars
    PROVE  ExplainInv'
  <1> USE DEF rows, sessions, recovery
  <1>0. /\ TypeOK /\ TypeOK'
        /\ OldLocksAreForgotten /\ OpenIsUnlocked /\ FreshRecovery
        /\ \A w \in Worker : CopyIsNotAhead(w)
        /\ \A t \in Task : Explained(t)
        /\ stale \subseteq Task
        /\ \A w \in Worker : batch[w] \subseteq Task
        /\ \A t \in stale : \A w \in Worker : t \notin batch[w]
    BY NextType DEF ExplainInv, OldLocksAreForgotten, FreshRecovery, TypeOK
  <1>1. ASSUME OldLocksAreForgotten', OpenIsUnlocked', FreshRecovery',
               \A w \in Worker : CopyIsNotAhead(w)', \A t \in Task : Explained(t)'
        PROVE  ExplainInv'
    BY <1>0, <1>1 DEF ExplainInv
  <1>2. ASSUME UNCHANGED <<rows, recovery>>,
               \A v \in Worker : \A u \in batch'[v] : queuedAt[u] # "stale",
               \A v \in Worker : CopyIsNotAhead(v)'
        PROVE  ExplainInv'
    BY <1>0, <1>1, <1>2
    DEF OldLocksAreForgotten, OpenIsUnlocked, FreshRecovery, Explained, RowOf
  <1>3. ASSUME NEW w \in Worker, NEW t \in Task, CreateTask(w, t)
        PROVE  ExplainInv'
    <2>1. /\ \A u \in Task : RowOf(u)' = RowOf(u) /\ queuedAt'[u] = queuedAt[u]
          /\ \A u \in Task : u # t => status'[u] = status[u]
          /\ status'[t] = "backlog" /\ queuedAt[t] = "null" /\ t \notin stale
      BY <1>0, <1>3 DEF CreateTask, OpenIsUnlocked, FreshRecovery, RowOf, TypeOK
    <2>2. OldLocksAreForgotten'
      BY <1>0, <1>3, <2>1 DEF CreateTask, OldLocksAreForgotten, TypeOK
    <2>3. OpenIsUnlocked' /\ FreshRecovery'
      BY <1>0, <1>3, <2>1 DEF CreateTask, OpenIsUnlocked, FreshRecovery
    <2>4. \A v \in Worker : CopyIsNotAhead(v)'
      BY <1>0, <1>3 DEF CreateTask, CopyIsNotAhead, TypeOK
    <2>5. \A u \in Task : Explained(u)'
      BY <1>0, <1>3, <2>1 DEF CreateTask, Explained
    <2>6. QED
      BY <1>1, <2>2, <2>3, <2>4, <2>5
  <1>4. ASSUME NEW w \in Worker, TriggerCycle(w) \/ LockConflict(w)
        PROVE  ExplainInv'
    <2>1. \A v \in Worker : CopyIsNotAhead(v)'
      BY <1>0, <1>4 DEF TriggerCycle, LockConflict, CopyIsNotAhead, TypeOK
    <2>2. QED
      BY <1>0, <1>2, <1>4, <2>1 DEF TriggerCycle, LockConflict, OldLocksAreForgotten
  <1>5. ASSUME UNCHANGED <<rows, recovery>>, NEW w \in Worker, EndCycle(w)
        PROVE  ExplainInv'
    <2>1. \A v \in Worker : CopyIsNotAhead(v)'
      BY <1>0, <1>5, EndKeepsCopies DEF CopyIsNotAhead
    <2>2. \A v \in Worker : \A u \in batch'[v] : queuedAt[u] # "stale"
      BY <1>0, <1>5, EndKeepsCopies DEF OldLocksAreForgotten
    <2>3. QED
      BY <1>2, <1>5, <2>1, <2>2
  <1>6. ASSUME NEW w \in Worker, Discover(w)
        PROVE  ExplainInv'
    <2>1. CASE EndCycle(w)
      BY <1>5, <1>6, <2>1 DEF Discover
    <2>2. ASSUME NEW S \in CandidateSets, NEW P \in BatchPlans(S),
                 pc' = [pc EXCEPT ![w] = "lock"],
                 batch' = [batch EXCEPT ![w] = P],
                 view' = [view EXCEPT ![w] = [t \in Task |->
                    IF t \in batch[w] THEN FreshRow ELSE RowOf(t)]]
          PROVE  ExplainInv'
      <3>1. UNCHANGED <<rows, recovery>>
        BY <1>6 DEF Discover
      <3>2. \A u \in P : u \in Task /\ queuedAt[u] # "stale"
        BY <1>0, <2>2 DEF BatchPlans, CandidateSets, Open, Executable, OpenIsUnlocked
      <3>3. \A v \in Worker : \A u \in batch'[v] : queuedAt[u] # "stale"
        BY <1>0, <2>2, <3>2 DEF OldLocksAreForgotten, TypeOK
      <3>4. CopyIsNotAhead(w)'
        <4>1. batch'[w] = P /\ \A u \in P : view'[w][u] \in {FreshRow, RowOf(u)}
          BY <1>0, <2>2, <3>2 DEF TypeOK
        <4>2. QED
          BY <3>1, <4>1 DEF CopyIsNotAhead, RowOf, FreshRow
      <3>5. \A v \in Worker : v # w => CopyIsNotAhead(v)'
        BY <1>0, <2>2, <3>1 DEF CopyIsNotAhead, TypeOK
      <3>6. QED
        BY <1>2, <3>1, <3>3, <3>4, <3>5
    <2>3. QED
      BY <1>6, <2>1, <2>2 DEF Discover
  <1>7. ASSUME NEW w \in Worker, LockTasks(w)
        PROVE  ExplainInv'
    <2>1. \A u \in Task : RowOf(u)' = RowOf(u)
      BY <1>7 DEF LockTasks, RowOf
    <2>2. OldLocksAreForgotten'
      BY <1>0, <1>7 DEF LockTasks, OldLocksAreForgotten
    <2>3. OpenIsUnlocked' /\ FreshRecovery'
      BY <1>0, <1>7, <2>1 DEF LockTasks, OpenIsUnlocked, FreshRecovery
    <2>4. \A v \in Worker : CopyIsNotAhead(v)'
      BY <1>0, <1>7 DEF LockTasks, CopyIsNotAhead, TypeOK
    <2>5. \A u \in Task : Explained(u)'
      BY <1>0, <1>7 DEF LockTasks, Explained
    <2>6. QED
      BY <1>1, <2>2, <2>3, <2>4, <2>5
  <1>8. ASSUME UNCHANGED <<rows, recovery>>, NEW w \in Worker, NEW B \in SUBSET batch[w],
               batch' = [batch EXCEPT ![w] = B],
               view' = [view EXCEPT ![w] = [u \in Task |-> RowOf(u)]],
               \A v \in Worker : v # w => pc'[v] = pc[v]
        PROVE  ExplainInv'
    <2>1. \A v \in Worker : \A u \in batch'[v] : queuedAt[u] # "stale"
      BY <1>0, <1>8 DEF OldLocksAreForgotten, TypeOK
    <2>2. CopyIsNotAhead(w)'
      <3>1. \A u \in batch'[w] : view'[w][u] = RowOf(u)
        BY <1>0, <1>8 DEF TypeOK
      <3>2. ASSUME NEW u \in batch'[w]
            PROVE  view'[w][u].lastError = lastError[u]
        <4>1. view'[w][u] = [attempts |-> attempts[u], lastError |-> lastError[u]]
          BY <3>1 DEF RowOf
        <4>2. QED
          BY <4>1
      <3>3. QED
        BY <1>8, <3>2 DEF CopyIsNotAhead
    <2>3. \A v \in Worker : v # w => CopyIsNotAhead(v)'
      BY <1>0, <1>8 DEF CopyIsNotAhead, TypeOK
    <2>4. QED
      BY <1>2, <1>8, <2>1, <2>2, <2>3
  <1>9. ASSUME NEW w \in Worker, RereadAfterConflict(w)
        PROVE  ExplainInv'
    <2> DEFINE free == {t \in batch[w] : status[t] = "backlog"}
    <2>1. free \in SUBSET batch[w] /\ UNCHANGED <<rows, recovery>>
      BY <1>9 DEF RereadAfterConflict
    <2>2. CASE EndCycle(w)
      BY <1>5, <2>1, <2>2
    <2>3. CASE /\ pc' = [pc EXCEPT ![w] = "prepare"]
               /\ batch' = [batch EXCEPT ![w] = free]
               /\ view' = [view EXCEPT ![w] = [t \in Task |-> RowOf(t)]]
      <3> HIDE DEF free
      <3>1. QED
        BY <1>0, <1>8, <2>1, <2>3 DEF TypeOK
    <2>4. QED
      BY <1>9, <2>2, <2>3 DEF RereadAfterConflict
  <1>10. ASSUME NEW w \in Worker, AbortCycle(w)
         PROVE  ExplainInv'
    BY <1>5, <1>10 DEF AbortCycle
  <1>11. ASSUME NEW w \in Worker, NEW t \in Task,
                \/ PrepareSucceeds(w, t) \/ PrepareRejects(w, t)
                \/ PrepareReturns(w, t) \/ PrepareBreaks(w, t)
         PROVE  ExplainInv'
    <2>1. /\ t \in batch[w] /\ pc[w] = "prepare" /\ FinishTask(w, t)
          /\ UNCHANGED <<recovery, unlockedGrant>>
          /\ PrepareSucceeds(w, t) \/ RecordFailure(w, t)
      BY <1>11 DEF PrepareSucceeds, PrepareRejects, PrepareReturns, PrepareBreaks, Holds
    <2>2. t \notin stale /\ queuedAt[t] # "stale"
      BY <1>0, <2>1 DEF OldLocksAreForgotten
    <2>3. /\ \A u \in Task : u # t => RowOf(u)' = RowOf(u)
          /\ lastError[t] # "null" => lastError'[t] # "null"
          /\ lastError'[t] # "null" \/ (PrepareSucceeds(w, t) /\ RowOf(t)' = RowOf(t))
      <3>1. CASE RecordFailure(w, t)
        BY <1>0, <2>1, <3>1, RecordedFailure DEF CopyIsNotAhead
      <3>2. CASE PrepareSucceeds(w, t)
        BY <3>2 DEF PrepareSucceeds, RowOf
      <3>3. QED
        BY <2>1, <3>1, <3>2
    <2>4. /\ \A u \in Task : u # t => status'[u] = status[u] /\ queuedAt'[u] = queuedAt[u]
          /\ queuedAt'[t] # "stale"
          /\ status'[t] \in {"absent", "backlog"} => queuedAt'[t] = "null"
          /\ PrepareSucceeds(w, t) => status'[t] = "prepared"
      BY <1>0, <1>11, <2>2 DEF PrepareSucceeds, PrepareRejects, PrepareReturns,
         PrepareBreaks, ReleaseLock, OpenIsUnlocked, TypeOK
    <2>5. \A v \in Worker : \A u \in batch'[v] :
             u \in batch[v] /\ view'[v] = view[v] /\ pc'[v] = pc[v]
      BY <1>0, <2>1, FinishKeepsCopies
    <2>6. OldLocksAreForgotten'
      BY <1>0, <2>4, <2>5 DEF OldLocksAreForgotten
    <2>7. OpenIsUnlocked'
      BY <1>0, <2>4 DEF OpenIsUnlocked
    <2>8. FreshRecovery'
      BY <1>0, <2>1, <2>2, <2>3, <2>4 DEF FreshRecovery
    <2>9. ASSUME NEW v \in Worker
          PROVE  CopyIsNotAhead(v)'
      <3>1. \A u \in Task : lastError[u] # "null" => lastError'[u] # "null"
        BY <2>3 DEF RowOf
      <3>2. QED
        BY <1>0, <2>5, <3>1 DEF CopyIsNotAhead
    <2>10. \A u \in Task : Explained(u)'
      BY <1>0, <2>3, <2>4 DEF Explained, RowOf
    <2>11. QED
      BY <1>1, <2>6, <2>7, <2>8, <2>9, <2>10
  <1>12. ASSUME NEW w \in Worker, NEW t \in Task, ReleaseFails(w, t)
         PROVE  ExplainInv'
    <2>1. UNCHANGED <<rows, recovery>>
      BY <1>12 DEF ReleaseFails
    <2>2. CASE EndCycle(w)
      BY <1>5, <2>1, <2>2
    <2>3. CASE /\ batch' = [batch EXCEPT ![w] = @ \ {t}]
               /\ view' = [view EXCEPT ![w] = [u \in Task |-> RowOf(u)]]
               /\ UNCHANGED pc
      <3>1. batch' = [batch EXCEPT ![w] = batch[w] \ {t}]
        BY <2>3
      <3>2. QED
        BY <1>8, <2>1, <2>3, <3>1
    <2>4. QED
      BY <1>12, <2>2, <2>3 DEF ReleaseFails
  <1>13. ASSUME NEW t \in Task, LockAges(t)
         PROVE  ExplainInv'
    <2>1. /\ \A u \in Task : RowOf(u)' = RowOf(u)
          /\ UNCHANGED <<status, sessions, recovery>>
          /\ \A u \in Task : u # t => queuedAt'[u] = queuedAt[u]
          /\ queuedAt[t] = "recent" /\ \A w \in Worker : t \notin batch[w]
      BY <1>0, <1>13 DEF LockAges, RowOf, TypeOK
    <2>2. OldLocksAreForgotten' /\ OpenIsUnlocked'
      BY <1>0, <2>1 DEF OldLocksAreForgotten, OpenIsUnlocked
    <2>3. FreshRecovery'
      BY <1>0, <2>1 DEF FreshRecovery
    <2>4. \A w \in Worker : CopyIsNotAhead(w)'
      BY <1>0, <1>13 DEF LockAges, CopyIsNotAhead
    <2>5. \A u \in Task : Explained(u)'
      BY <1>0, <1>13 DEF LockAges, Explained
    <2>6. QED
      BY <1>1, <2>2, <2>3, <2>4, <2>5
  <1>14. ASSUME FindStaleTasks \/ RecoveryAborts
         PROVE  ExplainInv'
    <2>1. UNCHANGED <<rows, sessions>>
      BY <1>14 DEF FindStaleTasks, RecoveryAborts
    <2>2. FreshRecovery'
      BY <1>14 DEF FindStaleTasks, RecoveryAborts, StaleTasks, FreshRecovery, RowOf
    <2>3. QED
      BY <1>0, <1>1, <2>1, <2>2
      DEF OldLocksAreForgotten, OpenIsUnlocked, CopyIsNotAhead, Explained
  <1>15. ASSUME RecoverStaleTasks
         PROVE  ExplainInv'
    <2>1. ASSUME NEW u \in stale
          PROVE  /\ staleView[u].attempts = attempts[u]
                 /\ staleView[u].lastError = lastError[u]
      <3>1. staleView[u] = RowOf(u)
        BY <1>0 DEF FreshRecovery
      <3>2. QED
        BY <3>1 DEF RowOf
    <2>2. /\ \A u \in Task \ stale : /\ RowOf(u)' = RowOf(u) /\ status'[u] = status[u]
                                     /\ queuedAt'[u] = queuedAt[u]
          /\ \A u \in stale : queuedAt'[u] = "null"
          /\ stale' = {} /\ UNCHANGED sessions
      BY <1>0, <1>15 DEF RecoverStaleTasks, PutBack, RowOf, TypeOK
    <2>3. OldLocksAreForgotten' /\ OpenIsUnlocked' /\ FreshRecovery'
      BY <1>0, <2>2 DEF OldLocksAreForgotten, OpenIsUnlocked, FreshRecovery
    <2>4. \A w \in Worker : CopyIsNotAhead(w)'
      BY <1>0, <2>2 DEF CopyIsNotAhead, RowOf
    <2>5. ASSUME NEW u \in Task
          PROVE  Explained(u)'
      <3>1. CASE u \notin stale
        BY <1>0, <2>2, <3>1 DEF Explained, RowOf
      <3>2. CASE u \in stale /\ RecoveredStatus(staleView[u]) = "backlog"
        <4>1. u \in PutBack /\ staleView[u].attempts = attempts[u]
          BY <2>1, <3>2 DEF PutBack
        <4>2. status'[u] = "backlog" /\ attempts'[u] = 0
          BY <1>15, <3>2, <4>1 DEF RecoverStaleTasks
        <4>3. QED
          BY <4>2 DEF Explained
      <3>3. CASE u \in stale /\ RecoveredStatus(staleView[u]) # "backlog"
        <4>1. attempts'[u] = attempts[u] /\ lastError'[u] = lastError[u]
          BY <1>15, <3>3 DEF RecoverStaleTasks, PutBack
        <4>2. attempts[u] >= MaxAttempts \/ lastError[u] = "non_recoverable"
          BY <2>1, <3>3 DEF RecoveredStatus
        <4>3. lastError[u] # "null"
          BY <1>0, <4>2, NumberAssumption DEF Explained, TypeOK
        <4>4. QED
          BY <4>1, <4>3 DEF Explained
      <3>4. QED
        BY <3>1, <3>2, <3>3
    <2>6. QED
      BY <1>1, <2>3, <2>4, <2>5
  <1>16. CASE UNCHANGED vars
    BY <1>0, <1>2, <1>16 DEF vars, CopyIsNotAhead, OldLocksAreForgotten
  <1>17. QED
    BY <1>3, <1>4, <1>6, <1>7, <1>9, <1>10, <1>11, <1>12, <1>13, <1>14, <1>15, <1>16
    DEF Next, WorkerStep, RecoveryStep
---------------------------------------------------------------------------
(* TaskPreparation implements TaskLifecycle as long as no preparation      *)
(* outlasts the stale timeout.                                             *)

\* The mapped state of a task depends on four things only.
LEMMA StageUnchanged ==
    ASSUME NEW u \in Task,
           status'[u] = status[u], lockedBy'[u] = lockedBy[u],
           u \in unlockedGrant' <=> u \in unlockedGrant,
           \A v \in Worker : Holds(v, u)' <=> Holds(v, u)
    PROVE  StageOf(u)' = StageOf(u) /\ HolderOf(u)' = HolderOf(u)
  BY DEF StageOf, HolderOf

LEMMA LifecycleStutters ==
    ASSUME \A u \in Task : StageOf(u)' = StageOf(u) /\ HolderOf(u)' = HolderOf(u)
    PROVE  UNCHANGED Lifecycle!vars
  BY DEF Lifecycle!vars

\* Drop, stated for the mapped state.
LEMMA LifecycleDrops ==
    ASSUME NEW S, NEW g,
           \A u \in Task : u \in S => StageOf(u)' = g /\ HolderOf(u)' = NoWorker,
           \A u \in Task : u \notin S =>
               StageOf(u)' = StageOf(u) /\ HolderOf(u)' = HolderOf(u)
    PROVE  Lifecycle!Drop(S, g)
  BY DEF Lifecycle!Drop

\* The mapped state of a task some worker holds.
LEMMA HeldStage ==
    ASSUME SlowPreparation = FALSE, ExclusionInv,
           NEW w \in Worker, NEW t \in Task \ unlockedGrant, Holds(w, t)
    PROVE  /\ StageOf(t) = "held" /\ HolderOf(t) = w
           /\ t \in Lifecycle!HeldBy(w)
           /\ status[t] = "queued" /\ t \notin stale
           /\ \A v \in Worker : Holds(v, t) => v = w
  BY DEF ExclusionInv, GrantInv, StageOf, HolderOf, Lifecycle!HeldBy

LEMMA ForfeitedStage ==
    ASSUME NEW t \in unlockedGrant
    PROVE  StageOf(t) = "forfeited" /\ HolderOf(t) = NoWorker
  BY DEF StageOf, HolderOf

LEMMA ForfeitedStageNext ==
    ASSUME NEW t \in unlockedGrant'
    PROVE  StageOf(t)' = "forfeited" /\ HolderOf(t)' = NoWorker
  BY DEF StageOf, HolderOf

LEMMA RefinesInit == Init => Lifecycle!Init
  <1> SUFFICES ASSUME Init PROVE Lifecycle!Init
    OBVIOUS
  <1>1. \A t \in Task : StageOf(t) = "absent" /\ HolderOf(t) = NoWorker
    BY DEF Init, StageOf, HolderOf
  <1>2. QED
    BY <1>1 DEF Lifecycle!Init

\* Finishing one task settles it, or abandons it if the row stays queued.
LEMMA RefinesFinish ==
    ASSUME SlowPreparation = FALSE, ExclusionInv,
           NEW w \in Worker, NEW t \in Task, Holds(w, t),
           UNCHANGED unlockedGrant,
           status'[t] \in {"queued", "prepared", "failed", "backlog"},
           \A u \in Task : u # t =>
               status'[u] = status[u] /\ lockedBy'[u] = lockedBy[u],
           \A v \in Worker, u \in Task :
               Holds(v, u)' <=> Holds(v, u) /\ ~(v = w /\ u = t)
    PROVE  Lifecycle!Next \/ UNCHANGED Lifecycle!vars
  <1>1. ASSUME NEW u \in Task, u # t
        PROVE  StageOf(u)' = StageOf(u) /\ HolderOf(u)' = HolderOf(u)
    BY <1>1, StageUnchanged
  <1>2. CASE t \in unlockedGrant
    <2>1. StageOf(t)' = StageOf(t) /\ HolderOf(t)' = HolderOf(t)
      BY <1>2, ForfeitedStage, ForfeitedStageNext
    <2>2. QED
      BY <1>1, <2>1, LifecycleStutters
  <1>3. CASE t \notin unlockedGrant
    <2>1. /\ t \in Lifecycle!HeldBy(w)
          /\ \A v \in Worker : ~Holds(v, t)'
      BY <1>3, HeldStage
    <2>2. CASE status'[t] = "queued"
      <3>1. StageOf(t)' = "abandoned" /\ HolderOf(t)' = NoWorker
        BY <1>3, <2>1, <2>2 DEF StageOf, HolderOf
      <3>2. Lifecycle!Drop({t}, "abandoned")
        BY <1>1, <3>1, LifecycleDrops
      <3>3. Lifecycle!Abandon(w, {t})
        BY <2>1, <3>2 DEF Lifecycle!Abandon
      <3>4. QED
        BY <3>3 DEF Lifecycle!Next
    <2>3. CASE status'[t] # "queued"
      <3>1. StageOf(t)' = status'[t] /\ HolderOf(t)' = NoWorker
        BY <1>3, <2>3 DEF StageOf, HolderOf
      <3>2. Lifecycle!Drop({t}, status'[t])
        BY <1>1, <3>1, LifecycleDrops
      <3>3. Lifecycle!Settle(w, t)
        BY <2>1, <2>3, <3>2 DEF Lifecycle!Settle
      <3>4. QED
        BY <3>3 DEF Lifecycle!Next
    <2>4. QED
      BY <2>2, <2>3
  <1>4. QED
    BY <1>2, <1>3

LEMMA EndHoldsExactly ==
    ASSUME TypeOK, NEW w \in Worker, EndCycle(w),
           NEW v \in Worker, NEW u \in Task
    PROVE  Holds(v, u)' <=> Holds(v, u) /\ v # w
  BY DEF EndCycle, Holds, TypeOK

LEMMA FinishHoldsExactly ==
    ASSUME TypeOK, NEW w \in Worker, NEW t \in Task, Holds(w, t),
           FinishTask(w, t), NEW v \in Worker, NEW u \in Task
    PROVE  Holds(v, u)' <=> Holds(v, u) /\ ~(v = w /\ u = t)
  <1>1. CASE batch[w] = {t}
    BY <1>1 DEF FinishTask, EndCycle, Holds, TypeOK
  <1>2. CASE batch[w] # {t}
    BY <1>2 DEF FinishTask, Holds, TypeOK
  <1>3. QED
    BY <1>1, <1>2

LEMMA RefinesNext ==
    ASSUME SlowPreparation = FALSE, ExclusionInv, [Next]_vars
    PROVE  Lifecycle!Next \/ UNCHANGED Lifecycle!vars
  <1> USE DEF rows, sessions, recovery
  <1>0. TypeOK
    BY DEF ExclusionInv
  <1>1. ASSUME UNCHANGED <<status, lockedBy, unlockedGrant>>,
               \A v \in Worker, u \in Task : Holds(v, u)' <=> Holds(v, u)
        PROVE  UNCHANGED Lifecycle!vars
    BY <1>1, StageUnchanged, LifecycleStutters
  <1>2. ASSUME NEW w \in Worker, NEW t \in Task, CreateTask(w, t)
        PROVE  Lifecycle!Next \/ UNCHANGED Lifecycle!vars
    <2>1. \A v \in Worker, u \in Task : Holds(v, u)' <=> Holds(v, u)
      BY <1>0, <1>2 DEF CreateTask, Holds, TypeOK
    <2>2. ASSUME NEW u \in Task, u # t
          PROVE  StageOf(u)' = StageOf(u) /\ HolderOf(u)' = HolderOf(u)
      BY <1>0, <1>2, <2>1, <2>2, StageUnchanged DEF CreateTask, TypeOK
    <2>3. CASE t \in unlockedGrant
      <3>1. StageOf(t)' = StageOf(t) /\ HolderOf(t)' = HolderOf(t)
        BY <1>2, <2>3, ForfeitedStage, ForfeitedStageNext DEF CreateTask
      <3>2. QED
        BY <2>2, <3>1, LifecycleStutters
    <2>4. CASE t \notin unlockedGrant
      <3>1. StageOf(t) = "absent"
        BY <1>2, <2>4 DEF CreateTask, StageOf
      <3>2. StageOf(t)' = "backlog" /\ HolderOf(t)' = NoWorker
        BY <1>0, <1>2, <2>4 DEF CreateTask, StageOf, HolderOf, TypeOK
      <3>3. Lifecycle!Drop({t}, "backlog")
        BY <2>2, <3>2, LifecycleDrops
      <3>4. QED
        BY <3>1, <3>3 DEF Lifecycle!Next, Lifecycle!Submit
    <2>5. QED
      BY <2>3, <2>4
  <1>3. ASSUME NEW w \in Worker, TriggerCycle(w) \/ Discover(w) \/ LockConflict(w)
        PROVE  UNCHANGED Lifecycle!vars
    <2>1. \A v \in Worker, u \in Task : Holds(v, u)' <=> Holds(v, u)
      BY <1>0, <1>3, EndHoldsExactly
      DEF TriggerCycle, Discover, LockConflict, Holds, TypeOK
    <2>2. QED
      BY <1>1, <1>3, <2>1 DEF TriggerCycle, Discover, LockConflict
  <1>4. ASSUME NEW w \in Worker, LockTasks(w)
        PROVE  Lifecycle!Next \/ UNCHANGED Lifecycle!vars
    <2> DEFINE S == batch[w] \ unlockedGrant
    <2>0. S \in SUBSET Task
      BY <1>0 DEF TypeOK
    <2>1. \A v \in Worker, u \in Task :
             Holds(v, u)' <=> Holds(v, u) \/ (v = w /\ u \in batch[w])
      BY <1>0, <1>4 DEF LockTasks, Holds, TypeOK
    <2>2. ASSUME NEW u \in S
          PROVE  /\ StageOf(u) = "backlog"
                 /\ StageOf(u)' = "held" /\ HolderOf(u)' = w
      BY <1>4, <2>0, <2>1 DEF LockTasks, StageOf, HolderOf
    <2>3. ASSUME NEW u \in Task, u \notin S
          PROVE  StageOf(u)' = StageOf(u) /\ HolderOf(u)' = HolderOf(u)
      <3>1. CASE u \in unlockedGrant
        BY <1>4, <3>1, ForfeitedStage, ForfeitedStageNext DEF LockTasks
      <3>2. CASE u \notin batch[w]
        BY <1>4, <2>1, <3>2, StageUnchanged DEF LockTasks
      <3>3. QED
        BY <2>3, <3>1, <3>2
    <2> HIDE DEF S
    <2>4. Lifecycle!Claim(w, S)
      BY <2>0, <2>2, <2>3 DEF Lifecycle!Claim
    <2>5. QED
      BY <2>0, <2>4 DEF Lifecycle!Next
  <1>5. ASSUME NEW w \in Worker, RereadAfterConflict(w)
        PROVE  Lifecycle!Next \/ UNCHANGED Lifecycle!vars
    <2> DEFINE free == {t \in batch[w] : status[t] = "backlog"}
    <2>0. free \in SUBSET Task
      BY <1>0 DEF TypeOK
    <2>1. /\ unlockedGrant' = unlockedGrant \cup free
          /\ UNCHANGED <<status, lockedBy>>
      BY <1>5 DEF RereadAfterConflict
    <2>2. \A u \in free : StageOf(u) \in {"backlog", "forfeited"}
      BY DEF StageOf
    <2>3. \A u \in free : StageOf(u)' = "forfeited" /\ HolderOf(u)' = NoWorker
      BY <2>1, ForfeitedStageNext
    <2>4. \A v \in Worker, u \in Task \ free : Holds(v, u)' <=> Holds(v, u)
      BY <1>0, <1>5, EndHoldsExactly DEF RereadAfterConflict, Holds, TypeOK
    <2>5. \A u \in Task \ free :
             StageOf(u)' = StageOf(u) /\ HolderOf(u)' = HolderOf(u)
      BY <2>1, <2>4, StageUnchanged
    <2> HIDE DEF free
    <2>6. Lifecycle!Drop(free, "forfeited")
      BY <2>3, <2>5, LifecycleDrops
    <2>7. Lifecycle!Forfeit(free)
      BY <2>0, <2>2, <2>6 DEF Lifecycle!Forfeit
    <2>8. QED
      BY <2>0, <2>7 DEF Lifecycle!Next
  <1>6. ASSUME NEW w \in Worker, AbortCycle(w)
        PROVE  Lifecycle!Next \/ UNCHANGED Lifecycle!vars
    <2> DEFINE S == {t \in Task \ unlockedGrant : Holds(w, t)}
    <2>1. UNCHANGED <<status, lockedBy, unlockedGrant>>
      BY <1>6 DEF AbortCycle
    <2>2. \A v \in Worker, u \in Task : Holds(v, u)' <=> Holds(v, u) /\ v # w
      BY <1>0, <1>6, EndHoldsExactly DEF AbortCycle
    <2>3. ASSUME NEW u \in S
          PROVE  StageOf(u)' = "abandoned" /\ HolderOf(u)' = NoWorker
      BY <2>1, <2>2, HeldStage DEF StageOf, HolderOf
    <2>4. ASSUME NEW u \in Task, u \notin S
          PROVE  StageOf(u)' = StageOf(u) /\ HolderOf(u)' = HolderOf(u)
      <3>1. CASE u \in unlockedGrant
        BY <2>1, <3>1, ForfeitedStage, ForfeitedStageNext
      <3>2. CASE ~Holds(w, u)
        BY <2>1, <2>2, <3>2, StageUnchanged
      <3>3. QED
        BY <2>4, <3>1, <3>2
    <2>5. S \subseteq Lifecycle!HeldBy(w)
      BY HeldStage
    <2> HIDE DEF S
    <2>6. Lifecycle!Drop(S, "abandoned")
      BY <2>3, <2>4, LifecycleDrops
    <2>7. S \in SUBSET Task
      BY DEF S
    <2>8. QED
      BY <2>5, <2>6, <2>7 DEF Lifecycle!Next, Lifecycle!Abandon
  <1>7. ASSUME NEW w \in Worker, NEW t \in Task,
               \/ PrepareSucceeds(w, t) \/ PrepareRejects(w, t)
               \/ PrepareReturns(w, t) \/ PrepareBreaks(w, t)
        PROVE  Lifecycle!Next \/ UNCHANGED Lifecycle!vars
    <2>1. Holds(w, t) /\ FinishTask(w, t) /\ UNCHANGED unlockedGrant
      BY <1>7 DEF PrepareSucceeds, PrepareRejects, PrepareReturns, PrepareBreaks
    <2>2. \A u \in Task : u # t =>
             status'[u] = status[u] /\ lockedBy'[u] = lockedBy[u]
      BY <1>0, <1>7 DEF PrepareSucceeds, PrepareRejects, PrepareReturns,
         PrepareBreaks, ReleaseLock, TypeOK
    <2>3. \A v \in Worker, u \in Task :
             Holds(v, u)' <=> Holds(v, u) /\ ~(v = w /\ u = t)
      BY <1>0, <2>1, FinishHoldsExactly
    <2>4. CASE t \in unlockedGrant
      <3>1. StageOf(t)' = StageOf(t) /\ HolderOf(t)' = HolderOf(t)
        BY <2>1, <2>4, ForfeitedStage, ForfeitedStageNext
      <3>2. \A u \in Task : u # t =>
               StageOf(u)' = StageOf(u) /\ HolderOf(u)' = HolderOf(u)
        BY <2>1, <2>2, <2>3, StageUnchanged
      <3>3. QED
        BY <3>1, <3>2, LifecycleStutters
    <2>5. CASE t \notin unlockedGrant
      <3>1. status[t] = "queued"
        BY <2>1, <2>5, HeldStage
      <3>2. status'[t] \in {"queued", "prepared", "failed", "backlog"}
        BY <1>0, <1>7, <3>1 DEF PrepareSucceeds, PrepareRejects,
           PrepareReturns, PrepareBreaks, ReleaseLock, TypeOK
      <3>3. QED
        BY <2>1, <2>2, <2>3, <3>2, RefinesFinish
    <2>6. QED
      BY <2>4, <2>5
  <1>8. ASSUME NEW w \in Worker, NEW t \in Task, ReleaseFails(w, t)
        PROVE  Lifecycle!Next \/ UNCHANGED Lifecycle!vars
    <2>1. Holds(w, t) /\ UNCHANGED <<status, lockedBy, unlockedGrant>>
      BY <1>8 DEF ReleaseFails
    <2>2. \A v \in Worker, u \in Task :
             Holds(v, u)' <=> Holds(v, u) /\ ~(v = w /\ u = t)
      <3>1. CASE batch[w] = {t}
        BY <1>0, <1>8, <3>1 DEF ReleaseFails, EndCycle, Holds, TypeOK
      <3>2. CASE batch[w] # {t}
        BY <1>0, <1>8, <3>2 DEF ReleaseFails, Holds, TypeOK
      <3>3. QED
        BY <3>1, <3>2
    <2>3. CASE t \in unlockedGrant
      <3>1. \A u \in Task : StageOf(u)' = StageOf(u) /\ HolderOf(u)' = HolderOf(u)
        BY <2>1, <2>2, <2>3, StageUnchanged, ForfeitedStage, ForfeitedStageNext
      <3>2. QED
        BY <3>1, LifecycleStutters
    <2>4. CASE t \notin unlockedGrant
      <3>1. status[t] = "queued"
        BY <2>1, <2>4, HeldStage
      <3>2. status'[t] \in {"queued", "prepared", "failed", "backlog"}
        BY <2>1, <3>1
      <3>3. QED
        BY <2>1, <2>2, <3>2, RefinesFinish
    <2>5. QED
      BY <2>3, <2>4
  <1>9. ASSUME \/ \E t \in Task : LockAges(t)
               \/ FindStaleTasks \/ RecoveryAborts \/ UNCHANGED vars
        PROVE  UNCHANGED Lifecycle!vars
    BY <1>1, <1>9 DEF LockAges, FindStaleTasks, RecoveryAborts, vars, Holds
  <1>10. ASSUME RecoverStaleTasks
         PROVE  Lifecycle!Next \/ UNCHANGED Lifecycle!vars
    <2> DEFINE B == {t \in stale \ unlockedGrant :
                       RecoveredStatus(staleView[t]) = "backlog"}
               F == {t \in stale \ unlockedGrant :
                       RecoveredStatus(staleView[t]) # "backlog"}
    <2>0. B \in SUBSET Task /\ F \in SUBSET Task
      BY <1>0 DEF TypeOK
    <2>1. \A v \in Worker, u \in Task : Holds(v, u)' <=> Holds(v, u)
      BY <1>10 DEF RecoverStaleTasks, Holds
    <2>2. ASSUME NEW u \in stale \ unlockedGrant
          PROVE  /\ StageOf(u) = "abandoned" /\ HolderOf(u) = NoWorker
                 /\ HolderOf(u)' = NoWorker
                 /\ StageOf(u)' = RecoveredStatus(staleView[u])
                 /\ RecoveredStatus(staleView[u]) \in {"backlog", "failed"}
      <3>1. u \in Task
        BY <1>0 DEF TypeOK
      <3>2. status[u] = "queued" /\ \A v \in Worker : ~Holds(v, u)
        BY <3>1 DEF ExclusionInv, GrantInv
      <3>3. /\ status'[u] = RecoveredStatus(staleView[u])
            /\ UNCHANGED unlockedGrant
        BY <1>10, <3>1 DEF RecoverStaleTasks
      <3>4. RecoveredStatus(staleView[u]) \in {"backlog", "failed"}
        BY DEF RecoveredStatus
      <3>5. QED
        BY <3>1, <3>2, <3>3, <3>4 DEF StageOf, HolderOf
    <2>3. ASSUME NEW u \in Task, u \notin B, u \notin F
          PROVE  StageOf(u)' = StageOf(u) /\ HolderOf(u)' = HolderOf(u)
      <3>1. CASE u \in unlockedGrant
        BY <1>10, <3>1, ForfeitedStage, ForfeitedStageNext DEF RecoverStaleTasks
      <3>2. CASE u \notin stale
        BY <1>10, <2>1, <3>2, StageUnchanged DEF RecoverStaleTasks
      <3>3. QED
        BY <2>3, <3>1, <3>2
    <2>4. /\ \A u \in B : StageOf(u)' = "backlog"
          /\ \A u \in F : StageOf(u)' = "failed" /\ u \notin B
          /\ \A u \in B \cup F : StageOf(u) = "abandoned" /\ HolderOf(u)' = HolderOf(u)
      BY <2>2
    <2> HIDE DEF B, F
    <2>5. Lifecycle!Reclaim(B, F)
      BY <2>0, <2>3, <2>4 DEF Lifecycle!Reclaim
    <2>6. QED
      BY <2>0, <2>5 DEF Lifecycle!Next
  <1>11. QED
    BY <1>2, <1>3, <1>4, <1>5, <1>6, <1>7, <1>8, <1>9, <1>10
    DEF Next, WorkerStep, RecoveryStep

\* The pipeline keeps the promises of TaskLifecycle for every set of tasks
\* and workers, provided that no preparation outlasts the stale timeout.
THEOREM Refinement ==
    ASSUME SlowPreparation = FALSE
    PROVE  Spec => ImplementsLifecycle
  <1>1. ExclusionInv /\ [Next]_vars => [Lifecycle!Next]_(Lifecycle!vars)
    BY RefinesNext
  <1>2. QED
    BY <1>1, RefinesInit, ExclusionAlways, PTL
    DEF Spec, ImplementsLifecycle, Lifecycle!Spec
===========================================================================
