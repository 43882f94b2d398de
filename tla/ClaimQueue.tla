---------------------------- MODULE ClaimQueue ----------------------------
(***************************************************************************)
(* What claiming promises: a batch of prepared tasks is taken in one step, *)
(* each task once, and with the task its execution comes into being.       *)
(***************************************************************************)
EXTENDS Naturals

CONSTANT Task

VARIABLES
    status,  \* of the task
    active   \* how many executions of the task are not finished

vars == <<status, active>>

Init ==
    /\ status \in [Task -> {"backlog", "prepared"}]
    /\ active = [t \in Task |-> 0]

Prepare(t) ==
    /\ status[t] = "backlog"
    /\ status' = [status EXCEPT ![t] = "prepared"]
    /\ UNCHANGED active

Claim(S) ==
    /\ \A t \in S : status[t] = "prepared" /\ active[t] = 0
    /\ status' = [t \in Task |-> IF t \in S THEN "queued" ELSE status[t]]
    /\ active' = [t \in Task |-> IF t \in S THEN 1 ELSE active[t]]

Next == (\E t \in Task : Prepare(t)) \/ (\E S \in SUBSET Task : Claim(S))

Spec == Init /\ [][Next]_vars
===========================================================================
