----------------------- MODULE ExecutionClaim_proofs -----------------------
(* Proofs about ExecutionClaim: the typing lemma, the inductive invariant   *)
(* of the claims, and the refinement of ClaimQueue.                         *)
EXTENDS ExecutionClaim, FiniteSetTheorems, TLAPS

LEMMA TypeInit == Init => TypeOK
<1> SUFFICES ASSUME Init PROVE TypeOK
  OBVIOUS
<1> QED
  BY DEF Init, ClaimInit, TypeOK

LEMMA CloseTypes ==
    ASSUME TypeOK, NEW r \in Runner, Close(r)
    PROVE  /\ todo' \in [Runner -> SUBSET Task]
           /\ checked' \in [Runner -> SUBSET Task]
           /\ updated' \in [Runner -> SUBSET Task]
           /\ claimed' \in [Runner -> SUBSET Task]
BY DEF TypeOK, Close

LEMMA TypeStep ==
    ASSUME TypeOK, [Next]_claimVars
    PROVE  TypeOK'
<1>1. ASSUME NEW r \in Runner, Poll(r) PROVE TypeOK'
  BY <1>1 DEF TypeOK, Poll, Begin
<1>2. ASSUME NEW r \in Runner, NEW t \in Task, ClaimSingle(r, t) PROVE TypeOK'
  BY <1>2 DEF TypeOK, ClaimSingle, Begin
<1>3. ASSUME NEW r \in Runner, NEW t \in Task, CheckActive(r, t) PROVE TypeOK'
  BY <1>3 DEF TypeOK, CheckActive
<1>4. ASSUME NEW r \in Runner, NEW t \in Task, UpdateTask(r, t) PROVE TypeOK'
  BY <1>4 DEF TypeOK, UpdateTask
<1>5. ASSUME NEW r \in Runner, NEW t \in Task, InsertExecution(r, t) PROVE TypeOK'
  BY <1>5 DEF TypeOK, InsertExecution
<1>6. ASSUME NEW r \in Runner, NEW t \in Task, InsertFails(r, t) PROVE TypeOK'
  BY <1>6, CloseTypes DEF TypeOK, InsertFails
<1>7. ASSUME NEW r \in Runner, DeadlockAbort(r) PROVE TypeOK'
  BY <1>7, CloseTypes DEF TypeOK, DeadlockAbort
<1>8. ASSUME NEW r \in Runner, FinishCycle(r) PROVE TypeOK'
  BY <1>8, CloseTypes DEF TypeOK, FinishCycle
<1>9. ASSUME NEW r \in Runner, Crash(r) PROVE TypeOK'
  BY <1>9, CloseTypes DEF TypeOK, Crash
<1>10. ASSUME NEW t \in Task, Prepare(t) PROVE TypeOK'
  BY <1>10 DEF TypeOK, Prepare, tx
<1>11. CASE UNCHANGED claimVars
  BY <1>11 DEF TypeOK, claimVars, tx
<1> QED
  BY <1>1, <1>2, <1>3, <1>4, <1>5, <1>6, <1>7, <1>8, <1>9, <1>10, <1>11
     DEF Next, RunnerStep, RunnerWork

\* Every variable has its type in every reachable state, for any number of
\* tasks and sessions.
THEOREM ClaimTypeCorrect == Spec => []TypeOK
BY TypeInit, TypeStep, PTL DEF Spec
---------------------------------------------------------------------------
\* A task with an execution has left prepared for good.  Without this the
\* UPDATE could succeed on a task whose execution was committed after the check.
ActiveIsQueued == \A t \in Task : active[t] # 0 => status[t] = "queued"

ClaimInv == TypeOK /\ ActiveIsQueued /\ ClaimsAreDisjoint

LEMMA ClaimInvInit == Init => ClaimInv
<1> SUFFICES ASSUME Init PROVE ActiveIsQueued /\ ClaimsAreDisjoint
  BY TypeInit DEF ClaimInv
<1> QED
  BY DEF Init, ClaimInit, ActiveIsQueued, ClaimsAreDisjoint, Locks

\* A step that gives no session a lock and leaves the tables alone.
LEMMA FewerLocks ==
    ASSUME ClaimInv, UNCHANGED <<status, active>>,
           \A q \in Runner : Locks(q)' \subseteq Locks(q)
    PROVE  (ActiveIsQueued /\ ClaimsAreDisjoint)'
BY DEF ClaimInv, ActiveIsQueued, ClaimsAreDisjoint

LEMMA CloseDropsLocks ==
    ASSUME TypeOK, NEW r \in Runner, Close(r)
    PROVE  \A q \in Runner : Locks(q)' = IF q = r THEN {} ELSE Locks(q)
BY DEF TypeOK, Close, Locks

LEMMA FinishKeeps ==
    ASSUME ClaimInv, NEW r \in Runner, FinishCycle(r)
    PROVE  (ActiveIsQueued /\ ClaimsAreDisjoint)'
<1> DEFINE done == IF r \in Committing THEN claimed[r] ELSE {}
<1>1. /\ \A t \in Task : status'[t] = IF t \in done THEN "queued" ELSE status[t]
      /\ \A t \in Task : active'[t] = IF t \in done THEN active[t] + 1 ELSE active[t]
  BY DEF FinishCycle
<1>2. \A q \in Runner : Locks(q)' = IF q = r THEN {} ELSE Locks(q)
  BY CloseDropsLocks DEF FinishCycle, ClaimInv
<1>3. ActiveIsQueued'
  BY <1>1 DEF ActiveIsQueued, ClaimInv
<1>4. ASSUME NEW q \in Runner, NEW t \in Locks(q)'
      PROVE  (/\ status[t] = "prepared"
              /\ active[t] = 0
              /\ \A p \in Runner \ {q} : t \notin Locks(p))'
  <2>1. q # r /\ t \in Locks(q)
    BY <1>2, <1>4
  <2>2. t \in Task
    BY <2>1 DEF ClaimInv, TypeOK, Locks
  <2>3. t \notin done
    BY <2>1 DEF ClaimInv, ClaimsAreDisjoint, Locks
  <2> QED
    BY <1>1, <1>2, <2>1, <2>2, <2>3 DEF ClaimInv, ClaimsAreDisjoint
<1> QED
  BY <1>3, <1>4 DEF ClaimsAreDisjoint

LEMMA UpdateKeeps ==
    ASSUME ClaimInv, NEW r \in Runner, NEW t \in Task, UpdateTask(r, t)
    PROVE  (ActiveIsQueued /\ ClaimsAreDisjoint)'
<1>1. \A q \in Runner \ {r} : Locks(q)' = Locks(q) /\ t \notin Locks(q)
  BY DEF UpdateTask, ClaimInv, TypeOK, Locks, WaitsFor
<1>2. Locks(r)' \subseteq Locks(r) \cup {u \in {t} : status[u] = "prepared"}
  BY DEF UpdateTask, ClaimInv, TypeOK, Locks
<1>3. UNCHANGED <<status, active>>
  BY DEF UpdateTask
<1>4. status[t] = "prepared" => active[t] = 0
  BY DEF ClaimInv, ActiveIsQueued
<1> QED
  BY <1>1, <1>2, <1>3, <1>4 DEF ClaimInv, ActiveIsQueued, ClaimsAreDisjoint

LEMMA ClaimInvStep ==
    ASSUME ClaimInv, [Next]_claimVars
    PROVE  ClaimInv'
<1> USE DEF ClaimInv
<1> SUFFICES (ActiveIsQueued /\ ClaimsAreDisjoint)'
  BY TypeStep
<1>1. ASSUME NEW r \in Runner, Poll(r) PROVE (ActiveIsQueued /\ ClaimsAreDisjoint)'
  BY <1>1, FewerLocks DEF Poll, Begin, Locks
<1>2. ASSUME NEW r \in Runner, NEW t \in Task, ClaimSingle(r, t)
      PROVE  (ActiveIsQueued /\ ClaimsAreDisjoint)'
  BY <1>2, FewerLocks DEF ClaimSingle, Begin, Locks
<1>3. ASSUME NEW r \in Runner, NEW t \in Task, CheckActive(r, t)
      PROVE  (ActiveIsQueued /\ ClaimsAreDisjoint)'
  BY <1>3, FewerLocks DEF CheckActive, Locks
<1>4. ASSUME NEW r \in Runner, NEW t \in Task, UpdateTask(r, t)
      PROVE  (ActiveIsQueued /\ ClaimsAreDisjoint)'
  BY <1>4, UpdateKeeps
<1>5. ASSUME NEW r \in Runner, NEW t \in Task, InsertExecution(r, t)
      PROVE  (ActiveIsQueued /\ ClaimsAreDisjoint)'
  <2>1. \A q \in Runner : Locks(q)' \subseteq Locks(q)
    BY <1>5 DEF InsertExecution, TypeOK, Locks
  <2> QED
    BY <1>5, <2>1, FewerLocks DEF InsertExecution
<1>6. ASSUME NEW r \in Runner, NEW t \in Task, InsertFails(r, t)
      PROVE  (ActiveIsQueued /\ ClaimsAreDisjoint)'
  BY <1>6, CloseDropsLocks, FewerLocks DEF InsertFails
<1>7. ASSUME NEW r \in Runner, DeadlockAbort(r)
      PROVE  (ActiveIsQueued /\ ClaimsAreDisjoint)'
  BY <1>7, CloseDropsLocks, FewerLocks DEF DeadlockAbort
<1>8. ASSUME NEW r \in Runner, FinishCycle(r)
      PROVE  (ActiveIsQueued /\ ClaimsAreDisjoint)'
  BY <1>8, FinishKeeps
<1>9. ASSUME NEW r \in Runner, Crash(r) PROVE (ActiveIsQueued /\ ClaimsAreDisjoint)'
  BY <1>9, CloseDropsLocks, FewerLocks DEF Crash
<1>10. ASSUME NEW t \in Task, Prepare(t) PROVE (ActiveIsQueued /\ ClaimsAreDisjoint)'
  <2>1. t \notin UNION {Locks(q) : q \in Runner}
    BY <1>10 DEF Prepare, ClaimsAreDisjoint
  <2>2. \A q \in Runner : Locks(q)' = Locks(q)
    BY <1>10 DEF Prepare, tx, Locks
  <2>3. \A q \in Runner : \A u \in Locks(q) : u \in Task /\ u # t
    BY <2>1 DEF Locks, TypeOK
  <2>4. active' = active /\ \A u \in Task : status'[u] = IF u = t THEN "prepared" ELSE status[u]
    BY <1>10 DEF Prepare, TypeOK
  <2>5. active[t] = 0
    BY <1>10 DEF Prepare, ActiveIsQueued
  <2> QED
    BY <2>2, <2>3, <2>4, <2>5 DEF ActiveIsQueued, ClaimsAreDisjoint
<1>11. CASE UNCHANGED claimVars
  BY <1>11, FewerLocks DEF claimVars, tx, Locks
<1> QED
  BY <1>1, <1>2, <1>3, <1>4, <1>5, <1>6, <1>7, <1>8, <1>9, <1>10, <1>11
     DEF Next, RunnerStep, RunnerWork

\* Two sessions never hold claims of one task, and an uncommitted claim is of
\* a prepared task without an execution, for any number of sessions, whatever
\* the batch size and whoever commits.
THEOREM DisjointClaims == Spec => []ClaimsAreDisjoint
<1>1. ClaimInv => ClaimsAreDisjoint
  BY DEF ClaimInv
<1> QED
  BY <1>1, ClaimInvInit, ClaimInvStep, PTL DEF Spec
---------------------------------------------------------------------------
LEMMA QueueInit == Init => Queue!Init
BY DEF Init, ClaimInit, Queue!Init

LEMMA CommitIsClaim ==
    ASSUME ClaimInv, NEW r \in Runner, FinishCycle(r)
    PROVE  [Queue!Next]_(Queue!vars)
<1> DEFINE done == IF r \in Committing THEN claimed[r] ELSE {}
<1>1. done \in SUBSET Task
  BY DEF ClaimInv, TypeOK
<1>2. \A t \in done : status[t] = "prepared" /\ active[t] = 0
  BY DEF ClaimInv, ClaimsAreDisjoint, Locks
<1>3. active' = [t \in Task |-> IF t \in done THEN active[t] + 1 ELSE active[t]]
  BY DEF FinishCycle
<1>4. active' = [t \in Task |-> IF t \in done THEN 1 ELSE active[t]]
  BY <1>2, <1>3
<1>5. status' = [t \in Task |-> IF t \in done THEN "queued" ELSE status[t]]
  BY DEF FinishCycle
<1>6. Queue!Claim(done)
  BY <1>2, <1>4, <1>5 DEF Queue!Claim
<1> QED
  BY <1>1, <1>6 DEF Queue!Next

LEMMA QueueStep ==
    ASSUME ClaimInv, [Next]_claimVars
    PROVE  [Queue!Next]_(Queue!vars)
<1>1. ASSUME NEW r \in Runner, RunnerStep(r), ~FinishCycle(r)
      PROVE  UNCHANGED <<status, active>>
  BY <1>1 DEF RunnerStep, RunnerWork, Poll, ClaimSingle, CheckActive, UpdateTask,
     InsertExecution, InsertFails, DeadlockAbort, Crash
<1>2. ASSUME NEW t \in Task, Prepare(t) PROVE Queue!Prepare(t)
  BY <1>2 DEF Prepare, Queue!Prepare
<1> QED
  BY <1>1, <1>2, CommitIsClaim DEF Next, claimVars, Queue!Next, Queue!vars

\* Seen from the committed tables, a cycle of a session claims its whole batch
\* in one step or does nothing.
THEOREM ClaimRefinement == Spec => ImplementsClaimQueue
<1>1. Init => Queue!Init
  BY QueueInit
<1>2. ClaimInv /\ [Next]_claimVars => [Queue!Next]_(Queue!vars)
  BY QueueStep
<1> QED
  BY <1>1, <1>2, ClaimInvInit, ClaimInvStep, PTL
     DEF Spec, ImplementsClaimQueue, Queue!Spec
---------------------------------------------------------------------------
(* Nobody is stuck: what liveness needs of the waiting for rows.            *)

\* The database may end the transaction of r to resolve a deadlock.
Deadlocked(r) ==
    \E S \in SUBSET Runner :
        /\ r \in S
        /\ \A p \in S : (\E q \in S : WaitsFor(p, q)) /\ (\E q \in S : WaitsFor(q, p))

\* The guards of RunnerWork for a session in a cycle: of CheckActive, UpdateTask,
\* the two outcomes of the insert, FinishCycle and DeadlockAbort.
MayGoOn(r) ==
    \/ todo[r] # {} /\ checked[r] \cup updated[r] = {}
    \/ checked[r] # {} /\ \A q \in Runner : ~WaitsFor(r, q)
    \/ updated[r] # {}
    \/ InCycle(r) /\ todo[r] \cup checked[r] \cup updated[r] = {}
    \/ Deadlocked(r)

\* With a session the set has all it waits for.
WaitClosed(S) == \A p \in S, q \in Runner : WaitsFor(p, q) => q \in S

\* Sessions may wait for each other's rows as they like: among those that hold
\* up a session there is one that goes on or that the database ends.
NobodyIsStuck ==
    \A S \in SUBSET Runner :
        WaitClosed(S) /\ (\E r \in S : InCycle(r)) => \E q \in S : MayGoOn(q)

\* A smallest set of sessions each of which waits for another one in the set
\* is a deadlock: one that nobody waits for could be left out.
LEMMA WaitersAreDeadlocked ==
    ASSUME IsFiniteSet(Runner), NEW S \in SUBSET Runner, S # {},
           \A p \in S : \E q \in S : WaitsFor(p, q)
    PROVE  \E p \in S : Deadlocked(p)
<1> DEFINE Waiting == {T \in SUBSET S : T # {} /\ \A p \in T : \E q \in T : WaitsFor(p, q)}
<1>1. Waiting \subseteq FiniteSubsetsOf(S) /\ S \in Waiting
  BY FS_Subset DEF FiniteSubsetsOf
<1>2. IsWellFoundedOn(StrictSubsetOrdering(S), FiniteSubsetsOf(S))
  BY FS_StrictSubsetOrderingWellFounded
<1>3. PICK T \in Waiting : \A U \in Waiting : ~(<<U, T>> \in StrictSubsetOrdering(S))
  <2> HIDE DEF Waiting
  <2> QED
    BY <1>1, <1>2, WFMin
<1>4. T \subseteq S /\ T # {} /\ \A p \in T : \E q \in T : WaitsFor(p, q)
  BY <1>3
<1>5. ASSUME NEW p \in T, \A q \in T : ~WaitsFor(q, p)
      PROVE  FALSE
  <2> DEFINE U == T \ {p}
  <2>1. \A r \in U : \E q \in U : WaitsFor(r, q)
    BY <1>4, <1>5
  <2>2. U # {}
    BY <1>4 DEF WaitsFor
  <2>3. U \in Waiting
    BY <1>4, <2>1, <2>2
  <2>4. <<U, T>> \in StrictSubsetOrdering(S)
    BY <1>4 DEF StrictSubsetOrdering
  <2> QED
    BY <1>3, <2>3, <2>4
<1>6. PICK p \in T : TRUE
  BY <1>4
<1> QED
  BY <1>4, <1>5, <1>6 DEF Deadlocked

LEMMA StuckIsImpossible ==
    ASSUME IsFiniteSet(Runner), NEW S \in SUBSET Runner, WaitClosed(S),
           NEW r \in S, InCycle(r)
    PROVE  \E q \in S : MayGoOn(q)
<1> SUFFICES ASSUME \A q \in S : ~MayGoOn(q)
             PROVE  FALSE
  OBVIOUS
<1> DEFINE B == {p \in S : InCycle(p)}
<1>1. ASSUME NEW p \in B
      PROVE  \E q \in B : WaitsFor(p, q)
  <2>1. PICK q \in Runner : WaitsFor(p, q)
    BY <1>1 DEF MayGoOn, InCycle
  <2>2. q \in S /\ InCycle(q)
    BY <2>1, <1>1 DEF WaitClosed, WaitsFor, Locks, InCycle
  <2> QED
    BY <2>1, <2>2
<1>2. r \in B /\ B \in SUBSET Runner
  OBVIOUS
<1> HIDE DEF B
<1>3. \E p \in B : Deadlocked(p)
  BY <1>1, <1>2, WaitersAreDeadlocked
<1> QED
  BY <1>3 DEF B, MayGoOn

\* In every state and for any number of sessions; that a session which may go on
\* does is the fairness of ExecutionClaim.
THEOREM ClaimsNeverStick ==
    ASSUME IsFiniteSet(Runner)
    PROVE  NobodyIsStuck
BY StuckIsImpossible DEF NobodyIsStuck
===========================================================================
