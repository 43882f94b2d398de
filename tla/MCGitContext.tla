--------------------------- MODULE MCGitContext ---------------------------
EXTENDS GitContext, TLC

CONSTANTS t1, t2, t3

Symmetric == Permutations(Task)
===========================================================================
