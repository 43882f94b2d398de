-------------------------- MODULE TaskClassification --------------------------
(***************************************************************************)
(* What the orchestrator reads off a task before it plans a batch: its     *)
(* type and the settings in its details, which nothing changes later.      *)
(***************************************************************************)
EXTENDS Naturals, FiniteSets

CONSTANTS
    Task,         \* the tasks users may submit
    Type,         \* Type[t]: the column type
    WriteSetting, \* details["requires_write_access"], or "unset"
    Branch,       \* details["branch_name"], or NoBranch
    NoBranch

ASSUME TaskAssumption ==
    /\ IsFiniteSet(Task)
    /\ Type \in [Task -> {"planning", "execution", "analysis", "requirement"}]
    /\ WriteSetting \in [Task -> {"true", "false", "unset"}]

\* find_candidates selects by type; a planning task takes the place of the
\* requirement it plans.
Executable == {t \in Task : Type[t] \in {"planning", "execution", "analysis"}}

\* An explicit setting precedes the default of the type.
RequiresWrite(t) ==
    IF WriteSetting[t] = "unset" THEN Type[t] = "execution"
    ELSE WriteSetting[t] = "true"

ReadOnly == {t \in Task : ~RequiresWrite(t)}

\* A branch of its own, named after its number, unless the details name one.
ConflictKey(t) == IF Branch[t] = NoBranch THEN <<"task", t>> ELSE <<"branch", Branch[t]>>

\* create_batch_plan: every read-only candidate of S, and of the others the
\* first one for each conflict key.  The order of the candidates is left open,
\* and S is never larger than a batch.
BatchPlans(S) ==
    {P \in SUBSET S :
        /\ S \cap ReadOnly \subseteq P
        /\ \A t \in S \ ReadOnly :
              \E u \in P \ ReadOnly : ConflictKey(u) = ConflictKey(t)
        /\ \A t, u \in P \ ReadOnly :
              ConflictKey(u) = ConflictKey(t) => u = t}
===========================================================================
