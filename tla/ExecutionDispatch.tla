------------------------- MODULE ExecutionDispatch -------------------------
(***************************************************************************)
(* The runner that claimed an execution sends its prompt to OpenCode, in   *)
(* one transaction; the stale recovery looks at all executions, in another *)
(* one.  row and events are the committed tables.  A session works on a    *)
(* copy of a row and writes only the columns it changed.                   *)
(*                                                                         *)
(* No code in src/ calls dispatch_prompt, handle_error or                  *)
(* process_stale_executions: the caller of the first two is modelled to    *)
(* handle a failure and then commit, unless it breaks off.                 *)
(***************************************************************************)
EXTENDS RetryPolicy

CONSTANTS
    Execution,
    MaxAttempts,  \* TaskExecution.max_attempts
    MaxCrashes    \* bound on broken-off sessions, for model checking only

ASSUME DispatchAssumption ==
    /\ MaxAttempts \in Nat \ {0}
    /\ MaxCrashes \in Nat

VARIABLES
    row,       \* the committed row of task_executions
    events,    \* its committed events, in the order of their sequence
    pc,        \* where the dispatch of an execution is
    loaded,    \* the row as the runner's session read it
    copy,      \* the row as that session has it now
    pending,   \* the events it has added
    seen,      \* attempt as the recovery session read it; 0: not in the session
    planned,   \* attempt as the recovery session has it now
    accepted,  \* the number of prompts OpenCode has taken for an execution
    crashes

runner == <<pc, loaded, copy, pending>>
recovery == <<seen, planned>>
dispatchVars == <<row, events, runner, recovery, accepted, crashes>>

FailureTypes == {Classify(DispatchError(x)) : x \in TransportErrors}

\* The columns of task_executions that the two services write.
Row == [status : {"queued", "dispatching", "in_progress"},
        attempt : Nat,
        retry : BOOLEAN,                        \* next_retry_at is set
        error : {"none", "raw"} \cup FailureTypes]
Claimed == [status |-> "queued", attempt |-> 1, retry |-> FALSE, error |-> "none"]

Init ==
    /\ row = [e \in Execution |-> Claimed]
    /\ events = [e \in Execution |-> <<"claimed">>]
    /\ pc = [e \in Execution |-> "idle"]
    /\ loaded = [e \in Execution |-> Claimed]
    /\ copy = [e \in Execution |-> Claimed]
    /\ pending = [e \in Execution |-> <<>>]
    /\ seen = [e \in Execution |-> 0]
    /\ planned = [e \in Execution |-> 0]
    /\ accepted = [e \in Execution |-> 0]
    /\ crashes = 0

\* From the flush on the runner's transaction holds the row.
Locked(e) == pc[e] \in {"sending", "failed", "done"}

Changed(db, old, new) == IF new # old THEN new ELSE db

\* What a flush of the session makes of the row.
Merged(db, old, new) ==
    [status  |-> Changed(db.status, old.status, new.status),
     attempt |-> Changed(db.attempt, old.attempt, new.attempt),
     retry   |-> Changed(db.retry, old.retry, new.retry),
     error   |-> Changed(db.error, old.error, new.error)]
---------------------------------------------------------------------------
(* dispatch_prompt *)

\* Mutant of Load: the status is not looked at.
LoadInAnyStatus(e) ==
    /\ pc[e] = "idle"
    /\ loaded' = [loaded EXCEPT ![e] = row[e]]
    /\ copy' = [copy EXCEPT ![e] = row[e]]
    /\ pc' = [pc EXCEPT ![e] = "loaded"]
    /\ UNCHANGED <<row, events, pending, recovery, accepted, crashes>>

\* Only a queued execution is dispatched; for any other the call raises.
Load(e) ==
    /\ pc[e] = "idle"
    /\ row[e].status = "queued"
    /\ loaded' = [loaded EXCEPT ![e] = row[e]]
    /\ copy' = [copy EXCEPT ![e] = row[e]]
    /\ pc' = [pc EXCEPT ![e] = "loaded"]
    /\ UNCHANGED <<row, events, pending, recovery, accepted, crashes>>

\* Mutant of Flush: the status of success, before there is any.
FlushInProgress(e) ==
    /\ pc[e] = "loaded"
    /\ copy' = [copy EXCEPT ![e].status = "in_progress"]
    /\ pc' = [pc EXCEPT ![e] = "sending"]
    /\ UNCHANGED <<row, events, loaded, pending, recovery, accepted, crashes>>

Flush(e) ==
    /\ pc[e] = "loaded"
    /\ copy' = [copy EXCEPT ![e].status = "dispatching"]
    /\ pc' = [pc EXCEPT ![e] = "sending"]
    /\ UNCHANGED <<row, events, loaded, pending, recovery, accepted, crashes>>

\* OpenCode takes the prompt and answers with a message id.  Of what follows
\* in the code only the query for the event's number can fail, and with it the
\* session: the except branch repeats it, so the session is left (BreakOff).
Deliver(e) ==
    /\ pc[e] = "sending"
    /\ accepted' = [accepted EXCEPT ![e] = @ + 1]
    /\ copy' = [copy EXCEPT ![e].status = "in_progress"]
    /\ pending' = [pending EXCEPT ![e] = <<"dispatched">>]
    /\ pc' = [pc EXCEPT ![e] = "done"]
    /\ UNCHANGED <<row, events, loaded, recovery, crashes>>

\* Mutant of Fail: the error is raised before its event is added.
FailSilently(e) ==
    /\ copy' = [copy EXCEPT ![e].error = "raw"]
    /\ pc' = [pc EXCEPT ![e] = "failed"]
    /\ UNCHANGED <<row, events, loaded, pending, recovery, crashes>>

\* The except branch: the error and its event; the status stays.
Fail(e) ==
    /\ copy' = [copy EXCEPT ![e].error = "raw"]
    /\ pending' = [pending EXCEPT ![e] = <<"error">>]
    /\ pc' = [pc EXCEPT ![e] = "failed"]
    /\ UNCHANGED <<row, events, loaded, recovery, crashes>>

\* A timeout or an answer without an id: OpenCode works on the prompt.
AnswerIsLost(e) ==
    /\ pc[e] = "sending"
    /\ accepted' = [accepted EXCEPT ![e] = @ + 1]
    /\ Fail(e)

\* No session, no connection, or a refusal.
SendFails(e) ==
    /\ pc[e] = "sending"
    /\ Fail(e)
    /\ UNCHANGED accepted

\* RecoveryService.handle_error, given the DispatchError.  Its decision to
\* fail or to review is returned, and the caller has nothing to apply it with.
AfterError(x, type) ==
    IF ShouldRetry(type, x.attempt, MaxAttempts)
    THEN [x EXCEPT !.error = type, !.retry = TRUE, !.attempt = x.attempt + 1]
    ELSE [x EXCEPT !.error = type]

HandleError(e) ==
    /\ pc[e] = "failed"
    /\ \E type \in FailureTypes : copy' = [copy EXCEPT ![e] = AfterError(@, type)]
    /\ pc' = [pc EXCEPT ![e] = "done"]
    /\ UNCHANGED <<row, events, loaded, pending, recovery, accepted, crashes>>

Leave(e) ==
    /\ pc' = [pc EXCEPT ![e] = "idle"]
    /\ loaded' = [loaded EXCEPT ![e] = Claimed]
    /\ copy' = [copy EXCEPT ![e] = Claimed]
    /\ pending' = [pending EXCEPT ![e] = <<>>]

\* Mutant of Commit: the session is closed instead.
CommitNothing(e) ==
    /\ pc[e] = "done"
    /\ Leave(e)
    /\ UNCHANGED <<row, events, recovery, accepted, crashes>>

Commit(e) ==
    /\ pc[e] = "done"
    /\ row' = [row EXCEPT ![e] = Merged(@, loaded[e], copy[e])]
    /\ events' = [events EXCEPT ![e] = @ \o pending[e]]
    /\ Leave(e)
    /\ UNCHANGED <<recovery, accepted, crashes>>

\* The process dies or the session is closed without a commit.
BreakOff(e) ==
    /\ pc[e] # "idle"
    /\ crashes < MaxCrashes
    /\ crashes' = crashes + 1
    /\ Leave(e)
    /\ UNCHANGED <<row, events, recovery, accepted>>
---------------------------------------------------------------------------
(* process_stale_executions, and a caller that commits or closes *)

\* handle_stale_execution plans one more attempt; then
\* _apply_recovery_decision fails on a RecoveryAction that does not exist,
\* and the loop goes on.  Which active executions are old is left open.
ScanStale ==
    /\ \E S \in (SUBSET Execution) \ {{}} :
          LET known(e) == IF seen[e] = 0 THEN row[e].attempt ELSE planned[e] IN
          /\ seen' = [e \in Execution |->
                        IF e \in S /\ seen[e] = 0 THEN row[e].attempt ELSE seen[e]]
          /\ planned' = [e \in Execution |->
                        IF e \notin S THEN planned[e]
                        ELSE IF ShouldRetry("transient", known(e), MaxAttempts)
                             THEN known(e) + 1 ELSE known(e)]
    /\ UNCHANGED <<row, events, runner, accepted, crashes>>

Forget ==
    /\ seen' = [e \in Execution |-> 0]
    /\ planned' = [e \in Execution |-> 0]

ToWrite == {e \in Execution : planned[e] # seen[e]}

\* Mutant of CommitRecovery: the UPDATE writes the whole row it once read.
CommitRecoveryWholeRow ==
    /\ \E e \in Execution : seen[e] # 0
    /\ \A e \in ToWrite : ~Locked(e)
    /\ row' = [e \in Execution |->
                 IF e \in ToWrite THEN [Claimed EXCEPT !.attempt = planned[e], !.retry = TRUE]
                 ELSE row[e]]
    /\ Forget
    /\ UNCHANGED <<events, runner, accepted, crashes>>

\* The UPDATE waits for rows that a runner has flushed.
CommitRecovery ==
    /\ \E e \in Execution : seen[e] # 0
    /\ \A e \in ToWrite : ~Locked(e)
    /\ row' = [e \in Execution |->
                 IF e \in ToWrite THEN [row[e] EXCEPT !.attempt = planned[e], !.retry = TRUE]
                 ELSE row[e]]
    /\ Forget
    /\ UNCHANGED <<events, runner, accepted, crashes>>

CloseRecovery ==
    /\ \E e \in Execution : seen[e] # 0
    /\ Forget
    /\ UNCHANGED <<row, events, runner, accepted, crashes>>
---------------------------------------------------------------------------
RunnerWork(e) ==
    \/ Load(e)
    \/ Flush(e)
    \/ Deliver(e)
    \/ AnswerIsLost(e)
    \/ SendFails(e)
    \/ HandleError(e)
    \/ Commit(e)

Next ==
    \/ \E e \in Execution : RunnerWork(e) \/ BreakOff(e)
    \/ ScanStale
    \/ CommitRecovery
    \/ CloseRecovery

\* The runner gets on with what it claimed; a request ends by its timeout.
\* The recovery runs over and over and commits in the end.
Spec == Init /\ [][Next]_dispatchVars
FairSpec ==
    /\ Spec
    /\ \A e \in Execution : WF_dispatchVars(RunnerWork(e))
    /\ WF_dispatchVars(ScanStale)
    /\ SF_dispatchVars(CommitRecovery)
---------------------------------------------------------------------------
(* Properties *)

\* The variables have their types.
TypeOK ==
    /\ row \in [Execution -> Row]
    /\ events \in [Execution -> Seq({"claimed", "dispatched", "error"})]
    /\ pc \in [Execution -> {"idle", "loaded", "sending", "failed", "done"}]
    /\ loaded \in [Execution -> Row]
    /\ copy \in [Execution -> Row]
    /\ pending \in [Execution -> Seq({"dispatched", "error"})]
    /\ seen \in [Execution -> Nat]
    /\ planned \in [Execution -> Nat]
    /\ accepted \in [Execution -> Nat]
    /\ crashes \in Nat

\* "in_progress is only set after successful dispatch": OpenCode has taken the
\* prompt, and the last event says so; a failed dispatch is explained by an
\* error and its event.
OutcomeIsTrue ==
    \A e \in Execution :
        /\ row[e].status = "in_progress" =>
              accepted[e] > 0 /\ events[e][Len(events[e])] = "dispatched"
        /\ row[e].status = "dispatching" =>
              row[e].error # "none" /\ events[e][Len(events[e])] = "error"

\* A prompt goes out only for an execution that the tables show as queued: a
\* second delivery needs a first one that was never recorded.
SentWhileQueued ==
    [][\A e \in Execution :
         accepted'[e] > accepted[e] => row[e].status = "queued"]_dispatchVars

\* What a dispatch has committed stays, although the recovery writes the row
\* from a copy it read before.
OutcomeIsKept ==
    [][\A e \in Execution :
         row[e].status # "queued" =>
             row'[e].status = row[e].status /\ row'[e].error = row[e].error]_dispatchVars

\* "No endless loops: max_attempts": two services raise the number of attempts
\* from copies of their own, and it never passes the maximum.
AttemptsAreBounded == \A e \in Execution : row[e].attempt <= MaxAttempts

\* A queued execution is dispatched in the end, or its failure is recorded.
QueuedIsDispatched ==
    \A e \in Execution : row[e].status = "queued" ~> row[e].status # "queued"
===========================================================================
