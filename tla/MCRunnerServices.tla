-------------------------- MODULE MCRunnerServices --------------------------
(***************************************************************************)
(* Services of the runner that no code calls yet: the event stream, the    *)
(* inspection of a worktree, the adoption of a commit, and the retry       *)
(* policy over all its inputs: transport errors, attempts and jitters of   *)
(* every phase, and executions with ages up to MaxAge.  They share no      *)
(* state, so each is explored while the others have not begun.             *)
(***************************************************************************)
EXTENDS EventStream, ResultInspection, CommitAdoption, RetryPolicy, TLC

CONSTANTS m1, m2, m3, c1, c2, r1, r2, MaxAttempts, MaxAge

VARIABLES error, phase, attempt, jitter, execution

caseVars == <<error, phase, attempt, jitter, execution>>
serviceVars == <<streamVars, worktree, adoptionVars, caseVars>>

Limit == [heartbeat |-> 1, update |-> 2, duration |-> 3]
Age == 0..MaxAge

\* Every write of a row renews updated_at; created_at is the oldest.
Executions ==
    {x \in [created : Age, updated : Age,
            started : Age \cup {Never}, heartbeat : Age \cup {Never}] :
        /\ x.updated <= x.created
        /\ x.started # Never => x.updated <= x.started /\ x.started <= x.created
        /\ x.heartbeat # Never => /\ x.started # Never
                                  /\ x.updated <= x.heartbeat
                                  /\ x.heartbeat <= x.started}

Young == [created |-> 0, updated |-> 0, started |-> Never, heartbeat |-> Never]

CaseInit ==
    /\ error = Error("JSONDecodeError", 0, {})
    /\ phase = "claim" /\ attempt = 1 /\ jitter = 0
    /\ execution = Young

CaseNext ==
    \/ /\ error' \in TransportErrors
       /\ UNCHANGED <<phase, attempt, jitter, execution>>
    \/ /\ phase' \in Phases
       /\ attempt' \in 1..MaxAttempts
       /\ jitter' \in -1..1
       /\ UNCHANGED <<error, execution>>
    \/ /\ execution' \in Executions
       /\ UNCHANGED <<error, phase, attempt, jitter>>

Init == StreamInit /\ WorktreeInit /\ AdoptionInit /\ CaseInit

Next ==
    \/ /\ WorktreeInit /\ AdoptionInit /\ CaseInit
       /\ StreamNext
       /\ UNCHANGED <<worktree, adoptionVars, caseVars>>
    \/ /\ StreamInit /\ AdoptionInit /\ CaseInit
       /\ WorktreeNext
       /\ UNCHANGED <<streamVars, adoptionVars, caseVars>>
    \/ /\ StreamInit /\ WorktreeInit /\ CaseInit
       /\ AdoptionNext
       /\ UNCHANGED <<streamVars, worktree, caseVars>>
    \/ /\ StreamInit /\ WorktreeInit /\ AdoptionInit /\ CaseInit
       /\ CaseNext
       /\ UNCHANGED <<streamVars, worktree, adoptionVars>>

Spec == Init /\ [][Next]_serviceVars

\* Commits and runners are interchangeable; every property is an invariant.
Symmetry == Permutations(Commit) \cup Permutations(Runner)
---------------------------------------------------------------------------
(* Properties of the retry policy *)

\* "Max duration", "update timeout", "heartbeat timeout": of an execution that
\* has started, the query and the check on the object agree up to the moment
\* at which an age equals its limit.
StartedStaleIsFound ==
    /\ execution.started # Never /\ IsStale(execution, Limit)
          => FoundStale(execution, Limit)
    /\ execution.started # Never /\ FoundStale(execution, Limit)
          => \/ IsStale(execution, Limit)
             \/ execution.updated = Limit.update
             \/ execution.heartbeat = Limit.heartbeat
             \/ execution.started = Limit.duration

\* How a request is repeated: one that OpenCode refuses never is (of the
\* responses below 500 only 408 and 429 are retryable, whoever wrapped the
\* error), and the delay before any other attempt does not shrink and stays,
\* with its jitter, within a tenth of max_delay_seconds.
RetriesAreMeasured ==
    /\ error.status \in 400..499 \ {408, 429}
          => {Classify(error), Classify(DispatchError(error))} \cap Retryable = {}
    /\ RetryDelay(phase, attempt, jitter) \in 1..((11 * Policy(phase).max) \div 10)
    /\ attempt > 1 => Backoff(phase, attempt) >= Backoff(phase, attempt - 1)
===========================================================================
