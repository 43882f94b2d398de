------------------------ MODULE MCExecutionDispatch ------------------------
EXTENDS ExecutionDispatch

CONSTANTS e1, e2
===========================================================================
