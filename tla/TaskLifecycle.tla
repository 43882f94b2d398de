--------------------------- MODULE TaskLifecycle ---------------------------
(***************************************************************************)
(* What the preparation pipeline promises about tasks, without sessions,   *)
(* row counts or timestamps: a task is held by at most one worker, only    *)
(* its holder settles it, a task whose holder is gone can be put back, and *)
(* a settled task stays settled.                                           *)
(*                                                                         *)
(* The promise ends for a task the lock handed out unlocked: such a task   *)
(* is forfeited, and nothing is said of it any more.                       *)
(***************************************************************************)
CONSTANTS Task, Worker, Nobody

VARIABLES
    stage,   \* the stage of each task
    holder   \* the worker preparing it

vars == <<stage, holder>>

Stage == {"absent", "backlog", "held", "abandoned", "prepared", "failed",
          "forfeited"}

Init ==
    /\ stage = [t \in Task |-> "absent"]
    /\ holder = [t \in Task |-> Nobody]

\* The tasks of S reach stage g and nobody holds them.
Drop(S, g) ==
    /\ stage' = [t \in Task |-> IF t \in S THEN g ELSE stage[t]]
    /\ holder' = [t \in Task |-> IF t \in S THEN Nobody ELSE holder[t]]

HeldBy(w) == {t \in Task : stage[t] = "held" /\ holder[t] = w}

Submit(t) == stage[t] = "absent" /\ Drop({t}, "backlog")

\* All of a batch or nothing.
Claim(w, S) ==
    /\ \A t \in S : stage[t] = "backlog"
    /\ stage' = [t \in Task |-> IF t \in S THEN "held" ELSE stage[t]]
    /\ holder' = [t \in Task |-> IF t \in S THEN w ELSE holder[t]]

\* The holder finishes a task, well or badly, or puts it back.
Settle(w, t) ==
    /\ t \in HeldBy(w)
    /\ \E g \in {"prepared", "failed", "backlog"} : Drop({t}, g)

\* The holder forgets some of its tasks: a crash, or an error it only logs.
Abandon(w, S) == S \subseteq HeldBy(w) /\ Drop(S, "abandoned")

\* Only abandoned tasks are recovered.
Reclaim(B, F) ==
    /\ \A t \in B \cup F : stage[t] = "abandoned"
    /\ stage' = [t \in Task |-> IF t \in B THEN "backlog"
                                ELSE IF t \in F THEN "failed" ELSE stage[t]]
    /\ UNCHANGED holder

\* A lock that was rolled back hands out tasks that are free.
Forfeit(S) ==
    /\ \A t \in S : stage[t] \in {"backlog", "forfeited"}
    /\ Drop(S, "forfeited")

Next ==
    \/ \E t \in Task : Submit(t)
    \/ \E w \in Worker, S \in SUBSET Task :
          Claim(w, S) \/ Abandon(w, S)
    \/ \E w \in Worker, t \in Task : Settle(w, t)
    \/ \E B, F \in SUBSET Task : Reclaim(B, F)
    \/ \E S \in SUBSET Task : Forfeit(S)

Spec == Init /\ [][Next]_vars
===========================================================================
