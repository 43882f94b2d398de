---------------------------- MODULE RetryPolicy ----------------------------
(***************************************************************************)
(* What the runner makes of an error and of an old execution, as pure      *)
(* functions.  An exception is known by its class, by the status of the    *)
(* HTTP response it stands for, and by the phrases that occur in its text. *)
(* Delays are in tenths of a second, ages in any unit.                     *)
(***************************************************************************)
EXTENDS Integers, Sequences

MinOf(S) == CHOOSE x \in S : \A y \in S : x <= y

\* An exception without a response has status 0.
Error(class, status, words) ==
    [class |-> class, status |-> status, words |-> words]

\* The phrases in the reason of a response: "Request Timeout", "Conflict", ...
ReasonWords == [s \in {404, 408, 409, 422, 429, 500, 503, 504} |->
    CASE s \in {408, 504} -> {"timeout"}
      [] s = 409 -> {"conflict"}
      [] s = 429 -> {"too many"}
      [] OTHER -> {}]

\* What httpx and json raise under a request to OpenCode.
TransportErrors ==
    {Error("TimeoutException", 0, {}),
     Error("ConnectError", 0, {"connection", "refused"}),
     Error("ConnectError", 0, {"resolve"}),
     Error("JSONDecodeError", 0, {})}
    \cup {Error("HTTPStatusError", s, ReasonWords[s]) : s \in DOMAIN ReasonWords}

\* The client raises an error of its own instead, whose text keeps only the
\* reason of the response; PromptDispatcher wraps that once more.
ClientText(e) ==
    CASE e.class = "TimeoutException" -> {"timed out"}
      [] e.class = "ConnectError"     -> {}
      [] e.class = "HTTPStatusError"  -> e.words
      [] e.class = "JSONDecodeError"  -> {"validation", "invalid"}
DispatchError(e) == Error("DispatchError", 0, ClientText(e))

Has(e, phrase) == phrase \in e.words

\* classify_error: the first rule that applies decides.
Rules(e) == <<
    << \/ e.class \in {"TimeoutError", "TimeoutException"}
       \/ Has(e, "timeout") \/ Has(e, "timed out"),            "timeout">>,
    << \/ e.class \in {"ConnectionError", "ConnectError"}
       \/ Has(e, "connection") /\ Has(e, "refused")
       \/ Has(e, "network") \/ Has(e, "unreachable"),          "transient">>,
    << \/ e.class = "ConflictError"
       \/ Has(e, "conflict") \/ Has(e, "already exists"),      "conflict">>,
    << \/ e.class \in {"ValueError", "JSONDecodeError", "ValidationError"}
       \/ Has(e, "validation") \/ Has(e, "invalid"),           "validation_failed">>,
    << e.class = "ContractViolationError",                     "contract_violation">>,
    << e.status = 409,                                         "conflict">>,
    << e.status = 422,                                         "validation_failed">>,
    << e.status = 408,                                         "timeout">>,
    << e.status \in 400..499,                                  "permanent">>,
    << e.status \in 500..599,                                  "transient">>,
    << Has(e, "dns") \/ Has(e, "resolve"),                     "transient">>,
    << Has(e, "resource") /\ Has(e, "exhausted"),              "transient">>,
    << Has(e, "busy") \/ Has(e, "too many"),                   "transient">>,
    << TRUE,                                                   "permanent">> >>

ErrorTypes == {"transient", "permanent", "conflict", "timeout",
               "contract_violation", "validation_failed"}
Retryable == {"transient", "timeout"}

\* Mutant of Classify: an unknown error is taken for a transient one.
ClassifyOptimistic(e) ==
    LET rules == Rules(e)
        first == MinOf({i \in DOMAIN rules : rules[i][1]})
    IN IF first = Len(rules) THEN "transient" ELSE rules[first][2]

Classify(e) ==
    LET rules == Rules(e) IN rules[MinOf({i \in DOMAIN rules : rules[i][1]})][2]
---------------------------------------------------------------------------
(* calculate_retry_decision *)

Phases == {"claim", "session", "dispatch", "stream", "result", "adoption"}

Policy(p) ==
    CASE p = "claim"    -> [base |-> 10,  max |-> 300]
      [] p = "session"  -> [base |-> 20,  max |-> 600]
      [] p = "dispatch" -> [base |-> 50,  max |-> 1200]
      [] p = "stream"   -> [base |-> 100, max |-> 3000]
      [] p = "result"   -> [base |-> 50,  max |-> 1200]
      [] p = "adoption" -> [base |-> 100, max |-> 3000]

\* Mutant of ShouldRetry: one attempt too many.
ShouldRetryTooOften(type, attempt, maxAttempts) ==
    type \in Retryable /\ attempt <= maxAttempts

\* The column max_attempts is never null, so the policy's own is not used.
ShouldRetry(type, attempt, maxAttempts) ==
    type \in Retryable /\ attempt < maxAttempts

Backoff(p, attempt) ==
    MinOf({Policy(p).base * 2 ^ (attempt - 1), Policy(p).max})

\* jitter, in tenths of the backoff, is drawn from -1..1.
RetryDelay(p, attempt, jitter) ==
    LET b == Backoff(p, attempt) IN b + (b * jitter) \div 10
---------------------------------------------------------------------------
(* Stale executions.  An execution x is known by the ages of its           *)
(* timestamps; Never stands for one that is not set.                       *)

Never == -1

IsStale(x, limit) ==
    IF x.started = Never
    THEN x.created > limit.update
    ELSE \/ x.heartbeat # Never /\ x.heartbeat > limit.heartbeat
         \/ x.updated > limit.update
         \/ x.started > limit.duration

\* Mutant of FoundStale: no condition on the duration.
FoundStaleByUpdate(x, limit) ==
    \/ x.heartbeat # Never /\ x.heartbeat >= limit.heartbeat
    \/ x.updated >= limit.update

\* The query of find_stale_executions, for an active execution.
FoundStale(x, limit) ==
    \/ x.heartbeat # Never /\ x.heartbeat >= limit.heartbeat
    \/ x.updated >= limit.update
    \/ x.started # Never /\ x.started >= limit.duration
===========================================================================
