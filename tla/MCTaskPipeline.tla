-------------------------- MODULE MCTaskPipeline --------------------------
EXTENDS TaskPipeline, TLC

CONSTANTS t1, t2, w1, w2, w3, r1, r2

\* An execution, which writes, and an analysis, which only reads.
Types == [t \in Task |-> IF t = t2 THEN "analysis" ELSE "execution"]
NoSettings == [t \in Task |-> "unset"]
Symmetric == Permutations(Worker)
NoBranches == [t \in Task |-> NoBranch]
===========================================================================
