---------------------- MODULE ExecutionDispatch_proofs ----------------------
(***************************************************************************)
(* Safety of the dispatch for every set of executions and every maximum of *)
(* attempts.  The inductive invariant says what the session of a runner    *)
(* holds at each point of a dispatch: while it holds anything the          *)
(* committed row is still queued, so that no two outcomes can meet.        *)
(***************************************************************************)
EXTENDS ExecutionDispatch, TLAPS

\* The session's copy of a row, at each point of the dispatch.
CopyInv(e) ==
    /\ row[e].status = "queued" => row[e].error = "none"
    /\ pc[e] # "idle" =>
          /\ row[e].status = "queued"
          /\ loaded[e].status = "queued"
          /\ loaded[e].error = "none"
          /\ copy[e].attempt <= MaxAttempts
    /\ pc[e] = "loaded" => copy[e].status = "queued"
    /\ pc[e] = "sending" => copy[e].status = "dispatching"
    /\ pc[e] \in {"failed", "done"} =>
          \/ /\ copy[e].status = "dispatching"
             /\ copy[e].error # "none"
             /\ pending[e] = <<"error">>
          \/ /\ pc[e] = "done"
             /\ copy[e].status = "in_progress"
             /\ accepted[e] > 0
             /\ pending[e] = <<"dispatched">>

PlannedInv(e) == planned[e] <= MaxAttempts

IInv ==
    /\ TypeOK
    /\ OutcomeIsTrue
    /\ AttemptsAreBounded
    /\ \A e \in Execution : CopyInv(e) /\ PlannedInv(e)
-----------------------------------------------------------------------------
\* What handle_error writes to error_type is a value of the ErrorType enum.
LEMMA FailureTypesAreErrorTypes == FailureTypes \subseteq ErrorTypes
<1>1. SUFFICES ASSUME NEW x \in TransportErrors
               PROVE  Classify(DispatchError(x)) \in ErrorTypes
  BY DEF FailureTypes
<1> DEFINE rules == Rules(DispatchError(x))
           S == {i \in 1..14 : rules[i][1]}
<1>2. DOMAIN rules = 1..14 /\ rules[14][1] = TRUE
  BY DEF Rules
<1>3. \A i \in 1..14 : rules[i][2] \in ErrorTypes
  <2>1. /\ rules[1][2] = "timeout"             /\ rules[2][2] = "transient"
        /\ rules[3][2] = "conflict"            /\ rules[4][2] = "validation_failed"
        /\ rules[5][2] = "contract_violation"  /\ rules[6][2] = "conflict"
        /\ rules[7][2] = "validation_failed"   /\ rules[8][2] = "timeout"
    BY DEF Rules
  <2>2. /\ rules[9][2] = "permanent"           /\ rules[10][2] = "transient"
        /\ rules[11][2] = "transient"          /\ rules[12][2] = "transient"
        /\ rules[13][2] = "transient"          /\ rules[14][2] = "permanent"
    BY DEF Rules
  <2> HIDE DEF rules
  <2>3. QED
    BY <2>1, <2>2 DEF ErrorTypes
<1>4. S \subseteq 1..14 /\ 14 \in S
  BY <1>2
<1>5. ASSUME NEW T \in SUBSET (1..14), 14 \in T
      PROVE  \E i \in T : \A j \in T : i <= j
  BY <1>5
<1>6. \E i \in S : \A j \in S : i <= j
  BY <1>4, <1>5
<1> HIDE DEF S
<1>7. MinOf(S) \in S
  BY <1>6 DEF MinOf
<1>8. Classify(DispatchError(x)) = rules[MinOf(S)][2]
  BY <1>2 DEF Classify, S
<1>9. QED
  BY <1>3, <1>4, <1>7, <1>8

LEMMA InitIInv == Init => IInv
BY DispatchAssumption
DEF Init, IInv, TypeOK, Row, Claimed, OutcomeIsTrue, AttemptsAreBounded,
    CopyInv, PlannedInv

-----------------------------------------------------------------------------
LEMMA NextIInv == IInv /\ [Next]_dispatchVars => IInv'
<1> SUFFICES ASSUME IInv, [Next]_dispatchVars
             PROVE  IInv'
  OBVIOUS
<1> USE DispatchAssumption
<1>0. TypeOK /\ OutcomeIsTrue /\ AttemptsAreBounded
      /\ \A e \in Execution : CopyInv(e) /\ PlannedInv(e)
  BY DEF IInv
<1>1. ASSUME NEW e \in Execution, Load(e)
      PROVE  IInv'
  BY <1>0, <1>1, SMTT(30) DEF Load, IInv, TypeOK, Row, OutcomeIsTrue, AttemptsAreBounded,
     CopyInv, PlannedInv, recovery
<1>2. ASSUME NEW e \in Execution, Flush(e)
      PROVE  IInv'
  <2>1. /\ copy'[e] = [copy[e] EXCEPT !.status = "dispatching"]
        /\ \A d \in Execution \ {e} : copy'[d] = copy[d]
        /\ copy' \in [Execution -> Row]
    BY <1>0, <1>2 DEF Flush, TypeOK, Row
  <2>2. TypeOK'
    BY <1>0, <1>2, <2>1 DEF Flush, TypeOK, recovery
  <2>3. OutcomeIsTrue' /\ AttemptsAreBounded'
    BY <1>0, <1>2 DEF Flush, OutcomeIsTrue, AttemptsAreBounded
  <2>4. ASSUME NEW d \in Execution PROVE CopyInv(d)' /\ PlannedInv(d)'
    <3>1. /\ row' = row /\ loaded' = loaded /\ planned' = planned
          /\ pending' = pending /\ accepted' = accepted
          /\ CopyInv(d) /\ PlannedInv(d) /\ copy[e] \in Row
          /\ pc[e] = "loaded" /\ pc'[e] = "sending"
          /\ d # e => pc'[d] = pc[d]
      BY <1>0, <1>2 DEF Flush, recovery, TypeOK
    <3>2. CASE d = e
      <4>1. copy'[e].status = "dispatching" /\ copy'[e].attempt = copy[e].attempt
        BY <2>1, <3>1 DEF Row
      <4>2. /\ row[e].status = "queued" /\ row[e].error = "none"
            /\ loaded[e].status = "queued" /\ loaded[e].error = "none"
            /\ copy[e].attempt <= MaxAttempts
        BY <3>1, <3>2 DEF CopyInv
      <4>3. QED
        BY <3>1, <3>2, <4>1, <4>2 DEF CopyInv, PlannedInv
    <3>3. CASE d # e
      <4>1. copy'[d] = copy[d]
        BY <2>1, <3>3
      <4>2. QED
        BY <3>1, <3>3, <4>1 DEF CopyInv, PlannedInv
    <3>4. QED
      BY <3>2, <3>3
  <2>5. QED
    BY <2>2, <2>3, <2>4 DEF IInv
<1>3. ASSUME NEW e \in Execution, Deliver(e)
      PROVE  IInv'
  <2>1. /\ copy'[e] = [copy[e] EXCEPT !.status = "in_progress"]
        /\ \A d \in Execution \ {e} : copy'[d] = copy[d]
        /\ copy' \in [Execution -> Row]
        /\ accepted'[e] = accepted[e] + 1 /\ accepted[e] \in Nat
        /\ pc[e] = "sending" /\ pc'[e] = "done" /\ pending'[e] = <<"dispatched">>
        /\ \A d \in Execution \ {e} :
              /\ accepted'[d] = accepted[d]
              /\ pc'[d] = pc[d]
              /\ pending'[d] = pending[d]
    <3>1. /\ copy \in [Execution -> Row] /\ copy[e] \in Row
          /\ accepted \in [Execution -> Nat]
          /\ pc = [d \in Execution |-> pc[d]] /\ pending = [d \in Execution |-> pending[d]]
      BY <1>0 DEF TypeOK
    <3>2. [copy[e] EXCEPT !.status = "in_progress"] \in Row
      BY <3>1 DEF Row
    <3>3. copy' = [copy EXCEPT ![e] = [copy[e] EXCEPT !.status = "in_progress"]]
      BY <1>3 DEF Deliver
    <3>4. QED
      BY <1>3, <3>1, <3>2, <3>3 DEF Deliver
  <2>2. TypeOK'
    BY <1>0, <1>3, <2>1 DEF Deliver, TypeOK, recovery
  <2>3. OutcomeIsTrue' /\ AttemptsAreBounded'
    BY <1>0, <1>3 DEF Deliver, OutcomeIsTrue, AttemptsAreBounded, TypeOK
  <2>4. ASSUME NEW d \in Execution PROVE CopyInv(d)' /\ PlannedInv(d)'
    <3>1. /\ row' = row /\ loaded' = loaded /\ planned' = planned
          /\ CopyInv(d) /\ PlannedInv(d) /\ copy[e] \in Row
      BY <1>0, <1>3 DEF Deliver, recovery, TypeOK
    <3>2. CASE d = e
      <4>1. copy'[e].status = "in_progress" /\ copy'[e].attempt = copy[e].attempt
        BY <2>1, <3>1 DEF Row
      <4>2. /\ row[e].status = "queued" /\ row[e].error = "none"
            /\ loaded[e].status = "queued" /\ loaded[e].error = "none"
            /\ copy[e].attempt <= MaxAttempts
        BY <2>1, <3>1, <3>2 DEF CopyInv
      <4>3. accepted'[e] > 0
        BY <2>1
      <4>4. QED
        BY <2>1, <3>1, <3>2, <4>1, <4>2, <4>3 DEF CopyInv, PlannedInv
    <3>3. CASE d # e
      BY <2>1, <3>1, <3>3 DEF CopyInv, PlannedInv
    <3>4. QED
      BY <3>2, <3>3
  <2>5. QED
    BY <2>2, <2>3, <2>4 DEF IInv
<1>4. ASSUME NEW e \in Execution, AnswerIsLost(e) \/ SendFails(e)
      PROVE  IInv'
  <2>0. /\ pc[e] = "sending" /\ Fail(e)
        /\ accepted' \in [Execution -> Nat]
        /\ \A d \in Execution : accepted'[d] >= accepted[d]
    <3>1. CASE AnswerIsLost(e)
      BY <1>0, <3>1 DEF AnswerIsLost, TypeOK
    <3>2. CASE SendFails(e)
      BY <1>0, <3>2 DEF SendFails, TypeOK
    <3>3. QED
      BY <1>4, <3>1, <3>2
  <2>1. /\ copy'[e] = [copy[e] EXCEPT !.error = "raw"]
        /\ \A d \in Execution \ {e} : copy'[d] = copy[d]
        /\ copy' \in [Execution -> Row]
        /\ pc'[e] = "failed" /\ pending'[e] = <<"error">>
        /\ \A d \in Execution \ {e} : pc'[d] = pc[d] /\ pending'[d] = pending[d]
    <3>1. /\ copy \in [Execution -> Row] /\ copy[e] \in Row
          /\ pc = [d \in Execution |-> pc[d]] /\ pending = [d \in Execution |-> pending[d]]
      BY <1>0 DEF TypeOK
    <3>2. [copy[e] EXCEPT !.error = "raw"] \in Row
      BY <3>1 DEF Row
    <3>3. copy' = [copy EXCEPT ![e] = [copy[e] EXCEPT !.error = "raw"]]
      BY <2>0 DEF Fail
    <3>4. QED
      BY <2>0, <3>1, <3>2, <3>3 DEF Fail
  <2>2. TypeOK'
    BY <1>0, <2>0, <2>1 DEF Fail, TypeOK, recovery
  <2>3. OutcomeIsTrue' /\ AttemptsAreBounded'
    BY <1>0, <2>0 DEF Fail, OutcomeIsTrue, AttemptsAreBounded, TypeOK
  <2>4. ASSUME NEW d \in Execution PROVE CopyInv(d)' /\ PlannedInv(d)'
    <3>1. /\ row' = row /\ loaded' = loaded /\ planned' = planned
          /\ CopyInv(d) /\ PlannedInv(d) /\ copy[e] \in Row
          /\ accepted[d] \in Nat /\ accepted'[d] \in Nat
      BY <1>0, <2>0 DEF Fail, recovery, TypeOK
    <3>2. CASE d = e
      <4>1. /\ copy'[e].status = copy[e].status
            /\ copy'[e].attempt = copy[e].attempt
            /\ copy'[e].error # "none"
        BY <2>1, <3>1 DEF Row
      <4>2. QED
        BY <2>0, <2>1, <3>1, <3>2, <4>1 DEF CopyInv, PlannedInv
    <3>3. CASE d # e
      BY <2>0, <2>1, <3>1, <3>3 DEF CopyInv, PlannedInv
    <3>4. QED
      BY <3>2, <3>3
  <2>5. QED
    BY <2>2, <2>3, <2>4 DEF IInv
<1>5. ASSUME NEW e \in Execution, HandleError(e)
      PROVE  IInv'
  <2>1. PICK type \in FailureTypes : copy' = [copy EXCEPT ![e] = AfterError(@, type)]
    BY <1>5 DEF HandleError
  <2>2. type \in ErrorTypes /\ type # "none"
    BY FailureTypesAreErrorTypes DEF ErrorTypes
  <2>3. /\ copy'[e].status = copy[e].status
        /\ copy'[e].error = type
        /\ copy'[e] \in Row
        /\ copy[e].attempt <= MaxAttempts => copy'[e].attempt <= MaxAttempts
        /\ \A d \in Execution \ {e} : copy'[d] = copy[d]
    <3> DEFINE new == AfterError(copy[e], type)
    <3>1. copy[e] \in Row
      BY <1>0 DEF TypeOK
    <3>2. copy'[e] = new /\ \A d \in Execution \ {e} : copy'[d] = copy[d]
      BY <1>0, <2>1 DEF TypeOK
    <3>3. CASE ShouldRetry(type, copy[e].attempt, MaxAttempts)
      <4>1. new = [copy[e] EXCEPT !.error = type, !.retry = TRUE,
                                  !.attempt = copy[e].attempt + 1]
        BY <3>3 DEF AfterError
      <4>2. copy[e].attempt < MaxAttempts
        BY <3>3 DEF ShouldRetry
      <4>3. /\ new.status = copy[e].status
            /\ new.error = type
            /\ new.attempt = copy[e].attempt + 1
            /\ new \in Row
        <5> HIDE DEF new
        <5>1. copy[e].attempt + 1 \in Nat
          BY <3>1 DEF Row
        <5>2. new = [status |-> copy[e].status, attempt |-> copy[e].attempt + 1,
                     retry |-> TRUE, error |-> type]
          BY <3>1, <4>1 DEF Row
        <5>3. QED
          BY <3>1, <5>1, <5>2 DEF Row
      <4>4. copy[e].attempt \in Nat
        BY <3>1 DEF Row
      <4>5. QED
        BY <3>2, <4>2, <4>3, <4>4
    <3>4. CASE ~ShouldRetry(type, copy[e].attempt, MaxAttempts)
      <4>1. new = [copy[e] EXCEPT !.error = type]
        BY <3>4 DEF AfterError
      <4>2. QED
        BY <3>1, <3>2, <4>1 DEF Row
    <3>5. QED
      BY <3>3, <3>4
  <2>4. copy' \in [Execution -> Row]
    BY <1>0, <2>1, <2>3 DEF TypeOK
  <2>5. TypeOK'
    BY <1>0, <1>5, <2>4 DEF HandleError, TypeOK, recovery
  <2>6. OutcomeIsTrue' /\ AttemptsAreBounded'
    BY <1>0, <1>5 DEF HandleError, OutcomeIsTrue, AttemptsAreBounded
  <2>7. ASSUME NEW d \in Execution PROVE CopyInv(d)' /\ PlannedInv(d)'
    BY <1>0, <1>5, <2>2, <2>3 DEF HandleError, CopyInv, PlannedInv, TypeOK, recovery
  <2>8. QED
    BY <2>5, <2>6, <2>7 DEF IInv
<1>6. ASSUME NEW e \in Execution, Commit(e)
      PROVE  IInv'
  <2>1. /\ row'[e] = Merged(row[e], loaded[e], copy[e])
        /\ events'[e] = events[e] \o pending[e]
        /\ \A d \in Execution \ {e} : row'[d] = row[d] /\ events'[d] = events[d]
        /\ row[e] \in Row /\ loaded[e] \in Row /\ copy[e] \in Row
        /\ events' \in [Execution -> Seq({"claimed", "dispatched", "error"})]
    BY <1>0, <1>6 DEF Commit, TypeOK
  <2>2. /\ row'[e] \in Row
        /\ row'[e].status = copy[e].status
        /\ row'[e].attempt <= MaxAttempts
        /\ copy[e].error # "none" => row'[e].error = copy[e].error
    <3>1. /\ row[e].status = "queued" /\ loaded[e].status = "queued"
          /\ loaded[e].error = "none"
          /\ row[e].attempt <= MaxAttempts /\ copy[e].attempt <= MaxAttempts
      BY <1>0, <1>6 DEF Commit, CopyInv, AttemptsAreBounded
    <3>2. row'[e].status = copy[e].status
      BY <2>1, <3>1 DEF Merged, Changed
    <3>3. row'[e].attempt <= MaxAttempts
      BY <2>1, <3>1 DEF Merged, Changed
    <3>4. copy[e].error # "none" => row'[e].error = copy[e].error
      BY <2>1, <3>1 DEF Merged, Changed
    <3>5. row'[e] \in Row
      BY <2>1 DEF Merged, Changed, Row
    <3>6. QED
      BY <3>2, <3>3, <3>4, <3>5
  <2>3. TypeOK'
    BY <1>0, <1>6, <2>1, <2>2, SMTT(30) DEF Commit, Leave, Claimed, TypeOK, Row, recovery
  <2>4. AttemptsAreBounded'
    BY <1>0, <2>1, <2>2 DEF AttemptsAreBounded
  <2>5. \/ /\ copy[e].status = "dispatching"
           /\ copy[e].error # "none"
           /\ pending[e] = <<"error">>
        \/ /\ copy[e].status = "in_progress"
           /\ accepted[e] > 0
           /\ pending[e] = <<"dispatched">>
    BY <1>0, <1>6 DEF Commit, CopyInv
  <2>6. OutcomeIsTrue'
    <3>1. events[e] \in Seq({"claimed", "dispatched", "error"})
      BY <1>0 DEF TypeOK
    <3>2. \A x : pending[e] = <<x>> => events'[e][Len(events'[e])] = x
      BY <2>1, <3>1
    <3> DEFINE Told(d) ==
          /\ row[d].status = "in_progress" =>
                accepted[d] > 0 /\ events[d][Len(events[d])] = "dispatched"
          /\ row[d].status = "dispatching" =>
                row[d].error # "none" /\ events[d][Len(events[d])] = "error"
    <3>3. accepted' = accepted
      BY <1>6 DEF Commit
    <3>4. Told(e)'
      BY <2>2, <2>5, <3>2, <3>3
    <3>5. ASSUME NEW d \in Execution \ {e} PROVE Told(d)'
      <4>1. row'[d] = row[d] /\ events'[d] = events[d]
        BY <2>1
      <4>2. Told(d)
        BY <1>0 DEF OutcomeIsTrue
      <4>3. QED
        BY <3>3, <4>1, <4>2
    <3>6. \A d \in Execution : Told(d)'
      BY <3>4, <3>5
    <3>7. QED
      BY <3>6 DEF OutcomeIsTrue
  <2>7. ASSUME NEW d \in Execution PROVE CopyInv(d)' /\ PlannedInv(d)'
    BY <1>0, <1>6, <2>1, <2>2, <2>5, SMTT(30) DEF Commit, Leave, CopyInv, PlannedInv, TypeOK, recovery
  <2>8. QED
    BY <2>3, <2>4, <2>6, <2>7 DEF IInv
<1>7. ASSUME NEW e \in Execution, BreakOff(e)
      PROVE  IInv'
  BY <1>0, <1>7, SMTT(30) DEF BreakOff, Leave, Claimed, IInv, TypeOK, Row, OutcomeIsTrue,
     AttemptsAreBounded, CopyInv, PlannedInv, recovery
<1>8. CASE ScanStale
  <2>1. PICK S \in SUBSET Execution :
          LET known(e) == IF seen[e] = 0 THEN row[e].attempt ELSE planned[e] IN
          /\ seen' = [e \in Execution |->
                        IF e \in S /\ seen[e] = 0 THEN row[e].attempt ELSE seen[e]]
          /\ planned' = [e \in Execution |->
                        IF e \notin S THEN planned[e]
                        ELSE IF ShouldRetry("transient", known(e), MaxAttempts)
                             THEN known(e) + 1 ELSE known(e)]
    BY <1>8 DEF ScanStale
  <2>2. \A e \in Execution : row[e].attempt \in Nat /\ row[e].attempt <= MaxAttempts
    BY <1>0 DEF TypeOK, Row, AttemptsAreBounded
  <2>3. /\ seen' \in [Execution -> Nat]
        /\ planned' \in [Execution -> Nat]
        /\ \A e \in Execution : planned'[e] <= MaxAttempts
    BY <1>0, <2>1, <2>2 DEF ShouldRetry, TypeOK, PlannedInv
  <2>4. QED
    BY <1>0, <1>8, <2>3 DEF ScanStale, IInv, TypeOK, OutcomeIsTrue, AttemptsAreBounded,
       CopyInv, PlannedInv, runner
<1>9. CASE CommitRecovery
  <2>1. ASSUME NEW e \in Execution
        PROVE  /\ row'[e] \in Row
               /\ row'[e].status = row[e].status
               /\ row'[e].error = row[e].error
               /\ row'[e].attempt <= MaxAttempts
    <3>1. /\ row[e] \in Row /\ row[e].attempt <= MaxAttempts
          /\ planned[e] \in Nat /\ planned[e] <= MaxAttempts
      BY <1>0 DEF TypeOK, AttemptsAreBounded, PlannedInv
    <3>2. \/ row'[e] = row[e]
          \/ row'[e] = [row[e] EXCEPT !.attempt = planned[e], !.retry = TRUE]
      BY <1>9 DEF CommitRecovery
    <3>3. QED
      BY <3>1, <3>2 DEF Row
  <2>2. /\ row' \in [Execution -> Row]
        /\ seen' \in [Execution -> Nat]
        /\ planned' \in [Execution -> Nat]
        /\ \A e \in Execution : planned'[e] <= MaxAttempts
    <3>1. row' = [e \in Execution |-> row'[e]]
      BY <1>9 DEF CommitRecovery
    <3>2. row' \in [Execution -> Row]
      BY <2>1, <3>1
    <3>3. /\ seen' = [e \in Execution |-> 0]
          /\ planned' = [e \in Execution |-> 0]
      BY <1>9 DEF CommitRecovery, Forget
    <3>4. QED
      BY <3>2, <3>3
  <2>3. UNCHANGED <<events, pc, loaded, copy, pending, accepted, crashes>>
    BY <1>9 DEF CommitRecovery, runner
  <2>4. TypeOK'
    BY <1>0, <2>2, <2>3 DEF TypeOK
  <2>5. OutcomeIsTrue' /\ AttemptsAreBounded'
    BY <1>0, <2>1, <2>3 DEF OutcomeIsTrue, AttemptsAreBounded
  <2>6. ASSUME NEW e \in Execution PROVE CopyInv(e)' /\ PlannedInv(e)'
    BY <1>0, <2>1, <2>2, <2>3 DEF CopyInv, PlannedInv
  <2>7. QED
    BY <2>4, <2>5, <2>6 DEF IInv
<1>10. CASE CloseRecovery
  BY <1>0, <1>10, SMTT(30) DEF CloseRecovery, Forget, IInv, TypeOK, Row, OutcomeIsTrue,
     AttemptsAreBounded, CopyInv, PlannedInv, runner
<1>11. CASE UNCHANGED dispatchVars
  BY <1>0, <1>11 DEF dispatchVars, runner, recovery, IInv, TypeOK, Row, OutcomeIsTrue,
     AttemptsAreBounded, CopyInv, PlannedInv
<1>12. QED
  BY <1>1, <1>2, <1>3, <1>4, <1>5, <1>6, <1>7, <1>8, <1>9, <1>10, <1>11
  DEF Next, RunnerWork

THEOREM Invariance == Spec => []IInv
<1>1. Init => IInv
  BY InitIInv
<1>2. IInv /\ [Next]_dispatchVars => IInv'
  BY NextIInv
<1>3. QED
  BY <1>1, <1>2, PTL DEF Spec

\* The tables and the two sessions are well typed.
THEOREM DispatchTypeCorrect == Spec => []TypeOK
<1>1. IInv => TypeOK
  BY DEF IInv
<1>2. QED
  BY <1>1, Invariance, PTL

\* in_progress is only ever committed for a prompt that OpenCode has taken.
THEOREM OutcomesAreTrue == Spec => []OutcomeIsTrue
<1>1. IInv => OutcomeIsTrue
  BY DEF IInv
<1>2. QED
  BY <1>1, Invariance, PTL

\* Two services that both count attempts never pass the maximum.
THEOREM BoundedAttempts == Spec => []AttemptsAreBounded
<1>1. IInv => AttemptsAreBounded
  BY DEF IInv
<1>2. QED
  BY <1>1, Invariance, PTL

\* A prompt is sent only while the tables show the execution as queued.
THEOREM SendingIsForQueued == Spec => SentWhileQueued
<1>1. IInv /\ [Next]_dispatchVars =>
        \A e \in Execution : accepted'[e] > accepted[e] => row[e].status = "queued"
  <2> SUFFICES ASSUME IInv, [Next]_dispatchVars, NEW e \in Execution,
                      accepted'[e] > accepted[e]
               PROVE  row[e].status = "queued"
    OBVIOUS
  <2>1. accepted[e] \in Nat
    BY DEF IInv, TypeOK
  <2>2. ASSUME NEW d \in Execution, pc[d] = "sending",
               accepted' = [accepted EXCEPT ![d] = @ + 1]
        PROVE  pc[e] = "sending"
    <3>1. accepted \in [Execution -> Nat]
      BY DEF IInv, TypeOK
    <3>2. CASE d = e
      BY <2>2, <3>2
    <3>3. CASE d # e
      <4>1. accepted'[e] = accepted[e]
        BY <2>2, <3>1, <3>3
      <4>2. QED
        BY <2>1, <4>1
    <3>4. QED
      BY <3>2, <3>3
  <2>3. ASSUME accepted' = accepted
        PROVE  FALSE
    BY <2>1, <2>3
  <2>4. \/ accepted' = accepted
        \/ \E d \in Execution :
              /\ pc[d] = "sending"
              /\ accepted' = [accepted EXCEPT ![d] = @ + 1]
    BY DEF Next, RunnerWork, Load, Flush, Deliver, AnswerIsLost, SendFails, HandleError,
       Commit, BreakOff, ScanStale, CommitRecovery, CloseRecovery, dispatchVars
  <2>5. pc[e] = "sending"
    BY <2>2, <2>3, <2>4
  <2>6. QED
    BY <2>5 DEF IInv, CopyInv
<1>2. QED
  BY <1>1, Invariance, PTL DEF Spec, SentWhileQueued

\* The recovery's late write never undoes the outcome of a dispatch.
THEOREM OutcomesAreKept == Spec => OutcomeIsKept
<1>1. IInv /\ [Next]_dispatchVars =>
        \A e \in Execution :
          row[e].status # "queued" =>
             row'[e].status = row[e].status /\ row'[e].error = row[e].error
  <2> SUFFICES ASSUME IInv, [Next]_dispatchVars, NEW e \in Execution,
                      row[e].status # "queued"
               PROVE  row'[e].status = row[e].status /\ row'[e].error = row[e].error
    OBVIOUS
  <2>1. pc[e] = "idle"
    BY DEF IInv, CopyInv
  <2>2. ASSUME NEW d \in Execution, RunnerWork(d) \/ BreakOff(d)
        PROVE  row'[e] = row[e]
    BY <2>1, <2>2 DEF RunnerWork, Load, Flush, Deliver, AnswerIsLost, SendFails, Fail,
       HandleError, Commit, BreakOff, IInv, TypeOK
  <2>3. CASE CommitRecovery
    <3>1. row[e] \in Row
      BY DEF IInv, TypeOK
    <3>2. row'[e] = IF e \in ToWrite
                    THEN [row[e] EXCEPT !.attempt = planned[e], !.retry = TRUE]
                    ELSE row[e]
      BY <2>3 DEF CommitRecovery
    <3>3. QED
      BY <3>1, <3>2 DEF Row
  <2>4. CASE ScanStale \/ CloseRecovery \/ UNCHANGED dispatchVars
    BY <2>4 DEF ScanStale, CloseRecovery, dispatchVars
  <2>5. QED
    BY <2>2, <2>3, <2>4 DEF Next
<1>2. QED
  BY <1>1, Invariance, PTL DEF Spec, OutcomeIsKept
-----------------------------------------------------------------------------
(* How often OpenCode is given the prompt of one execution                 *)

\* A queued execution that is not being sent, or has not been answered yet,
\* has no delivery but those whose session broke off.
Unrecorded(e) ==
    row[e].status = "queued" /\ pc[e] \in {"idle", "loaded", "sending"}
DeliveryInv ==
    \A e \in Execution :
        IF Unrecorded(e) THEN accepted[e] <= crashes ELSE accepted[e] <= crashes + 1

\* A prompt is delivered once more than sessions broke off, at most.
DeliveriesAreCounted == \A e \in Execution : accepted[e] <= crashes + 1

LEMMA NextDeliveryInv ==
    IInv /\ DeliveryInv /\ [Next]_dispatchVars => DeliveryInv'
<1> SUFFICES ASSUME IInv, DeliveryInv, [Next]_dispatchVars, NEW e \in Execution
             PROVE  IF Unrecorded(e)' THEN accepted'[e] <= crashes'
                    ELSE accepted'[e] <= crashes' + 1
  BY DEF DeliveryInv
<1>0. /\ accepted \in [Execution -> Nat] /\ accepted[e] \in Nat /\ crashes \in Nat
      /\ pc = [d \in Execution |-> pc[d]] /\ row = [d \in Execution |-> row[d]]
      /\ CopyInv(e)
      /\ IF Unrecorded(e) THEN accepted[e] <= crashes ELSE accepted[e] <= crashes + 1
  BY DEF IInv, TypeOK, DeliveryInv
<1>1. ASSUME NEW d \in Execution, Load(d) \/ Flush(d) \/ HandleError(d)
      PROVE  /\ accepted' = accepted /\ crashes' = crashes /\ row' = row
             /\ Unrecorded(e)' <=> Unrecorded(e)
  BY <1>0, <1>1 DEF Load, Flush, HandleError, Unrecorded
<1>2. ASSUME NEW d \in Execution, Deliver(d) \/ AnswerIsLost(d) \/ SendFails(d)
      PROVE  /\ crashes' = crashes
             /\ d # e => accepted'[e] = accepted[e] /\ (Unrecorded(e)' <=> Unrecorded(e))
             /\ d = e => /\ accepted'[e] \in {accepted[e], accepted[e] + 1}
                         /\ Unrecorded(e) /\ ~Unrecorded(e)'
  <2>1. CopyInv(d)
    BY DEF IInv
  <2>2. /\ pc[d] = "sending" /\ row' = row /\ crashes' = crashes
        /\ pc' = [pc EXCEPT ![d] = "done"] \/ pc' = [pc EXCEPT ![d] = "failed"]
        /\ accepted' = accepted \/ accepted' = [accepted EXCEPT ![d] = @ + 1]
    BY <1>2 DEF Deliver, AnswerIsLost, SendFails, Fail
  <2>3. QED
    BY <1>0, <2>1, <2>2 DEF Unrecorded, CopyInv
<1>3. ASSUME NEW d \in Execution, Commit(d)
      PROVE  /\ accepted' = accepted /\ crashes' = crashes
             /\ Unrecorded(e)' => Unrecorded(e)
  <2>1. /\ pc[d] = "done" /\ accepted' = accepted /\ crashes' = crashes
        /\ row' = [row EXCEPT ![d] = Merged(@, loaded[d], copy[d])]
        /\ pc' = [pc EXCEPT ![d] = "idle"]
    BY <1>3 DEF Commit, Leave
  <2>2. CASE d = e
    <3>1. copy[e].status # "queued" /\ loaded[e].status = "queued"
      BY <1>0, <2>1, <2>2 DEF CopyInv
    <3>2. row'[e].status # "queued"
      BY <1>0, <2>1, <2>2, <3>1 DEF Merged, Changed
    <3>3. QED
      BY <2>1, <3>2 DEF Unrecorded
  <2>3. CASE d # e
    BY <1>0, <2>1, <2>3 DEF Unrecorded
  <2>4. QED
    BY <2>2, <2>3
<1>4. ASSUME NEW d \in Execution, BreakOff(d)
      PROVE  /\ accepted' = accepted /\ crashes' = crashes + 1
             /\ d # e => (Unrecorded(e)' <=> Unrecorded(e))
  BY <1>0, <1>4 DEF BreakOff, Leave, Unrecorded
<1>5. CASE ScanStale \/ CommitRecovery \/ CloseRecovery \/ UNCHANGED dispatchVars
  <2>1. accepted' = accepted /\ crashes' = crashes /\ pc' = pc
    BY <1>5 DEF ScanStale, CommitRecovery, CloseRecovery, dispatchVars, runner
  <2>2. row'[e].status = row[e].status
    <3>1. row[e] \in Row
      BY DEF IInv, TypeOK
    <3>2. row'[e] = row[e]
          \/ row'[e] = [row[e] EXCEPT !.attempt = planned[e], !.retry = TRUE]
      BY <1>5 DEF ScanStale, CommitRecovery, CloseRecovery, dispatchVars
    <3>3. QED
      BY <3>1, <3>2 DEF Row
  <2>3. Unrecorded(e)' <=> Unrecorded(e)
    BY <2>1, <2>2 DEF Unrecorded
  <2>4. QED
    BY <1>0, <2>1, <2>3
<1>6. ASSUME NEW d \in Execution, RunnerWork(d) \/ BreakOff(d)
      PROVE  IF Unrecorded(e)' THEN accepted'[e] <= crashes'
             ELSE accepted'[e] <= crashes' + 1
  <2>1. CASE Load(d) \/ Flush(d) \/ HandleError(d)
    BY <1>0, <1>1, <2>1
  <2>2. CASE Deliver(d) \/ AnswerIsLost(d) \/ SendFails(d)
    BY <1>0, <1>2, <2>2
  <2>3. CASE Commit(d)
    BY <1>0, <1>3, <2>3
  <2>4. CASE BreakOff(d)
    BY <1>0, <1>4, <2>4
  <2>5. QED
    BY <1>6, <2>1, <2>2, <2>3, <2>4 DEF RunnerWork
<1>7. QED
  BY <1>5, <1>6 DEF Next

\* OpenCode is given a prompt a second time only after a session that had sent
\* it broke off before its commit: no lost answer, failure or recovery is
\* enough, whatever the order of the steps.
THEOREM CountedDeliveries == Spec => []DeliveriesAreCounted
<1>1. Init => DeliveryInv
  BY DEF Init, DeliveryInv, Unrecorded
<1>2. IInv /\ DeliveryInv => DeliveriesAreCounted
  <2> SUFFICES ASSUME IInv, DeliveryInv, NEW e \in Execution
               PROVE  accepted[e] <= crashes + 1
    BY DEF DeliveriesAreCounted
  <2>1. accepted[e] \in Nat /\ crashes \in Nat
    BY DEF IInv, TypeOK
  <2>2. QED
    BY <2>1 DEF DeliveryInv
<1>3. QED
  BY <1>1, <1>2, NextDeliveryInv, Invariance, PTL DEF Spec
=============================================================================
