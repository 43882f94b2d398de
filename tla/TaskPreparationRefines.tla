----------------------- MODULE TaskPreparationRefines -----------------------
(* The pipeline implements TaskLifecycle.                                  *)
EXTENDS TaskPreparation

\* A queued task is held if some worker still has it and abandoned otherwise.
StageOf(t) ==
    IF t \in unlockedGrant THEN "forfeited"
    ELSE IF status[t] # "queued" THEN status[t]
    ELSE IF \E w \in Worker : Holds(w, t) THEN "held" ELSE "abandoned"

HolderOf(t) ==
    IF StageOf(t) = "held" THEN lockedBy[t] ELSE NoWorker

Lifecycle == INSTANCE TaskLifecycle WITH
    Nobody <- NoWorker,
    stage <- [t \in Task |-> StageOf(t)],
    holder <- [t \in Task |-> HolderOf(t)]

\* Every step of request threads and recovery is a step of the promised
\* lifecycle or leaves it alone: the lock takes a batch or nothing, only the
\* locking worker settles a task, the recovery touches abandoned tasks only.
ImplementsLifecycle == Lifecycle!Spec
===========================================================================
