------------------------- MODULE MCTaskPreparation -------------------------
(* TLC instances of TaskPreparation.                                       *)
EXTENDS TaskPreparationRefines, TLC

CONSTANTS t1, t2, w1, w2

\* A planning task that may write, and an analysis, which only reads.
Types == [t \in Task |-> IF t = t2 THEN "analysis" ELSE "planning"]
Settings == [t \in Task |-> IF t = t2 THEN "unset" ELSE "true"]
NoBranches == [t \in Task |-> NoBranch]
Symmetric == Permutations(Worker)
===========================================================================
