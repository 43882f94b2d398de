--------------------------- MODULE TaskPipeline ---------------------------
(***************************************************************************)
(* Preparation, stale-queue recovery and runners over one task table.      *)
(* "queued" means two things there: locked for preparation, and claimed by *)
(* a runner.  claim_task leaves queued_at and locked_by as the preparation *)
(* set them.                                                               *)
(***************************************************************************)
EXTENDS TaskPreparation

CONSTANTS Runner, Polling, Committing, BatchSize, Keyed, MaxCrashes

VARIABLES active, todo, checked, updated, claimed, crashes

Claim == INSTANCE ExecutionClaim

claimRest == <<active, todo, checked, updated, claimed, crashes>>
preparationRest ==
    <<lockedBy, queuedAt, attempts, lastError, sessions, recovery, unlockedGrant>>
pipelineVars == <<vars, claimRest>>

PipelineInit == Init /\ Claim!ClaimInit

\* An UPDATE of a row that a claim has updated waits for that transaction.
PreparationStep ==
    /\ Next
    /\ \A r \in Runner : \A t \in Claim!Locks(r) :
          /\ status'[t] = status[t]
          /\ RowOf(t)' = RowOf(t)
          /\ lockedBy'[t] = lockedBy[t]
          /\ queuedAt'[t] = queuedAt[t]
    /\ UNCHANGED claimRest

ClaimStep ==
    /\ \E r \in Runner : Claim!RunnerStep(r)
    /\ UNCHANGED preparationRest

\* An execution reaches done, failed or review.  Nothing in src/ then writes
\* the status of its task.
ExecutionEnds(t) ==
    /\ active[t] > 0
    /\ active' = [active EXCEPT ![t] = @ - 1]
    /\ UNCHANGED <<vars, todo, checked, updated, claimed, crashes>>

PipelineNext ==
    \/ PreparationStep
    \/ ClaimStep
    \/ \E t \in Task : ExecutionEnds(t)

PipelineSpec == PipelineInit /\ [][PipelineNext]_pipelineVars
---------------------------------------------------------------------------
(* Properties *)

\* At most one active execution per task, also when the recovery returns a
\* claimed task to backlog between the check of a second claim and its insert:
\* then only the unique index stands in the way.
OneActiveExecution == \A t \in Task : active[t] <= 1
===========================================================================
