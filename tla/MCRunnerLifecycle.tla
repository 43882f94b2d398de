------------------------- MODULE MCRunnerLifecycle -------------------------
EXTENDS RunnerLifecycle

CONSTANTS sigterm, sigint, again
===========================================================================
