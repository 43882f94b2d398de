------------------------- MODULE MCExecutionClaim -------------------------
EXTENDS ExecutionClaim

CONSTANTS t1, t2, r1, r2, single

===========================================================================
