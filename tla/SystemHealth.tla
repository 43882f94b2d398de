---------------------------- MODULE SystemHealth ----------------------------
(***************************************************************************)
(* The health of the system as GET /health tells it: what the four checks  *)
(* make of what they find, and what is made of the four.                   *)
(***************************************************************************)
EXTENDS Naturals

HealthStatus == {"OK", "DEGRADED", "ERROR"}
OptionalComponents == {"opencode"}

\* What a probe by HTTP meets: the status of a response, or an exception.
ProbeErrors == {"timeout", "refused", "invalid_url", "other"}

\* get_api_healthcheck asks the API itself.
ApiHealth(answer) == IF answer = "200" THEN "OK" ELSE "DEGRADED"

\* get_database_healthcheck: any error is one.
DatabaseHealth(connected) == IF connected THEN "OK" ELSE "DEGRADED"

\* probe_opencode_endpoint; redirects are followed.
OpenCodeState(enabled, answer) ==
    CASE ~enabled -> "disabled"
      [] enabled /\ answer = "2xx" -> "available"
      [] enabled /\ answer = "timeout" -> "timeout"
      [] enabled /\ answer = "invalid_url" -> "invalid_config"
      [] enabled /\ answer \in {"refused", "other"} -> "unreachable"
      [] enabled /\ answer = "4xx" -> "unexpected_response"

OpenCodeHealth(state) == IF state = "available" THEN "OK" ELSE "DEGRADED"

\* get_telegram_bot_healthcheck: the age of the file counts before its status.
TelegramBotHealth(status, fresh) ==
    CASE ~fresh -> "ERROR"
      [] fresh /\ status = "ok" -> "OK"
      [] fresh /\ status = "degraded" -> "DEGRADED"
      [] fresh /\ status \notin {"ok", "degraded"} -> "ERROR"

\* aggregate_system_status of checks, a function from components to statuses.
AggregateSystemStatus(checks) ==
    LET core == {checks[c] : c \in DOMAIN checks \ OptionalComponents} IN
    CASE DOMAIN checks = {} -> "ERROR"
      [] DOMAIN checks # {} /\ core = {} -> "OK"
      [] "ERROR" \in core -> "ERROR"
      [] "ERROR" \notin core /\ "DEGRADED" \in core -> "DEGRADED"
      [] core = {"OK"} -> "OK"

\* Every answer of GET /health, whatever the probes of the API, of the database
\* and of OpenCode meet.
Answers(botHealth) ==
    {AggregateSystemStatus(
        [api |-> ApiHealth(api), database |-> DatabaseHealth(connected),
         telegram_bot |-> botHealth,
         opencode |-> OpenCodeHealth(OpenCodeState(enabled, answer))]) :
        api \in {"200", "5xx"} \cup ProbeErrors, connected \in BOOLEAN,
        enabled \in BOOLEAN, answer \in {"2xx", "4xx"} \cup ProbeErrors}
===========================================================================
