---------------------------- MODULE MCTaskIntake ----------------------------
EXTENDS TaskIntake

CONSTANTS c1, c2, c3, key

\* Two clients share a key; the third sends none.
SharedKey == [x \in Client |-> IF x = c3 THEN NoKey ELSE key]
===========================================================================
