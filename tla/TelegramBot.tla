---------------------------- MODULE TelegramBot ----------------------------
(***************************************************************************)
(* The processes of the Telegram bot, the launcher that starts and stops   *)
(* the API and the first bot, and the script that restarts the bot         *)
(* (ops/scripts/telegram_restart.sh).  They know of each other through     *)
(* signals, the process table, a PID file and the health file, from which  *)
(* the API answers whether the bot is well.                                *)
(*                                                                         *)
(* The script's lock does not appear: "(set -C; echo $$) > LOCK_FILE" opens *)
(* the file before set -C forbids to overwrite it, so it always succeeds.  *)
(* Overlap says whether anybody starts a restart while another one runs; a *)
(* script that is killed counts as running until its subshell, which lives *)
(* on, has started and recorded the bot.  The launcher is started at most  *)
(* once, while no bot lives and no restart runs.  The files are those that *)
(* an earlier bot may have left.                                           *)
(* The script finds every bot of the process table, i.e. pgrep is there.   *)
(***************************************************************************)
EXTENDS SystemHealth, FiniteSets

CONSTANTS
    Bot,        \* process ids, each used once
    Script,     \* invocations of the restart script
    Nobody,
    Former,     \* the pid of a bot that died before all this
    Overlap,
    MaxKills    \* bound on crashes, for model checking only

ASSUME BotAssumption ==
    /\ Nobody \notin Bot
    /\ Former \notin Bot \cup {Nobody}
    /\ Overlap \in BOOLEAN
    /\ MaxKills \in Nat

VARIABLES
    bot,       \* where a bot is in run_bot and main
    shutdown,  \* its shutdown_task: "none", "steps" or "done"
    event,     \* its shutdown_event
    reporter,  \* whether its health_reporter is alive
    signalled, \* the bots with a pending SIGTERM
    killed,    \* those with a pending SIGKILL
    launcher,  \* where run_orchestrator is
    child,     \* the bot it has spawned, or Nobody
    script,    \* where an invocation of the script is
    targets,   \* the pids it has listed; later the bot it has started
    pidFile,   \* the pid recorded, or Nobody
    health,    \* the health file, [status, pid]
    fresh,     \* whether it is younger than HEALTH_STALE_THRESHOLD
    kills

tasks == <<shutdown, event, reporter>>
processes == <<bot, tasks, signalled, killed>>
scripts == <<launcher, child, script, targets>>
files == <<pidFile, health, fresh>>
botVars == <<processes, scripts, files, kills>>

\* From the first statement to the end; "exited" by itself, "dead" by a signal.
BotPoints == {"none", "boot", "setup", "init", "notify", "connect", "wait",
              "failing", "fatal", "main", "exited", "dead"}
Alive == {b \in Bot : bot[b] \notin {"none", "exited", "dead"}}

\* add_signal_handler has been called and the event loop is not closed: at its
\* end asyncio.run waits for the tasks it has cancelled.
Handling(b) ==
    \/ bot[b] \in {"init", "notify", "connect", "wait", "failing"}
    \/ bot[b] \in {"fatal", "main"} /\ shutdown[b] = "steps"

\* A script that is killed is "cut" between its two looks at who lives and the
\* signals, and "killed" elsewhere.
ScriptPoints == {"idle", "clean", "remove", "list", "terminate", "grace", "verify",
                 "start", "fork", "record", "read", "settle",
                 "success", "failed", "killed", "cut"}
Ended(s) == script[s] \in {"success", "failed", "killed", "cut"}
Busy(s) == script[s] # "idle" /\ ~Ended(s)

NoHealth == [status |-> "none", pid |-> Nobody]
SaysRunning == health.status \in {"ok", "starting"}

\* write_health_status
WriteHealth(b, status) ==
    /\ health' = [status |-> status, pid |-> b]
    /\ fresh' = TRUE

\* Nothing runs, but the files of a bot that was killed may still be there.
Init ==
    /\ launcher = "none"
    /\ child = Nobody
    /\ bot = [b \in Bot |-> "none"]
    /\ shutdown = [b \in Bot |-> "none"]
    /\ event = [b \in Bot |-> FALSE]
    /\ reporter = [b \in Bot |-> FALSE]
    /\ signalled = {}
    /\ killed = {}
    /\ script = [s \in Script |-> "idle"]
    /\ targets = [s \in Script |-> {}]
    /\ pidFile \in {Nobody, Former}
    /\ health \in {NoHealth} \cup
          [status : {"starting", "ok", "not_ok"}, pid : {Former}]
    /\ fresh = TRUE
    /\ kills = 0
---------------------------------------------------------------------------
(* A bot *)

Goto(b, from, to) == bot[b] = from /\ bot' = [bot EXCEPT ![b] = to]

\* A process takes its tasks and its pending signals with it.
Gone(b, how) ==
    /\ bot' = [bot EXCEPT ![b] = how]
    /\ shutdown' = [shutdown EXCEPT ![b] = "none"]
    /\ event' = [event EXCEPT ![b] = FALSE]
    /\ reporter' = [reporter EXCEPT ![b] = FALSE]
    /\ signalled' = signalled \ {b}
    /\ killed' = killed \ {b}

\* clear_pid_file(expected_pid=os.getpid())
ClearPidFile(b) == pidFile' = IF pidFile = b THEN Nobody ELSE pidFile

\* run_bot
WritesStarting(b) ==
    /\ Goto(b, "boot", "setup")
    /\ WriteHealth(b, "starting")
    /\ UNCHANGED <<tasks, signalled, killed, scripts, pidFile, kills>>

\* Disabled, no token or no library: run_bot returns or exits, without a pid
\* in the health file.
RefusesToRun(b) ==
    /\ Goto(b, "boot", "main")
    /\ WriteHealth(Nobody, "not_ok")
    /\ UNCHANGED <<tasks, signalled, killed, scripts, pidFile, kills>>

InstallsHandlers(b) ==
    /\ Goto(b, "setup", "init")
    /\ UNCHANGED <<tasks, signalled, killed, scripts, files, kills>>

\* Mutant of Initializes: the pid is not written.
InitializesSilently(b) ==
    /\ Goto(b, "init", "notify")
    /\ UNCHANGED <<tasks, signalled, killed, scripts, files, kills>>

\* application.initialize and start, then write_pid_file.
Initializes(b) ==
    /\ Goto(b, "init", "notify")
    /\ pidFile' = b
    /\ UNCHANGED <<tasks, signalled, killed, scripts, health, fresh, kills>>

InitializeFails(b) ==
    /\ Goto(b, "init", "fatal")
    /\ UNCHANGED <<tasks, signalled, killed, scripts, files, kills>>

\* The startup notification is sent, or has failed; the reporter starts.
StartsReporter(b) ==
    /\ Goto(b, "notify", "connect")
    /\ reporter' = [reporter EXCEPT ![b] = TRUE]
    /\ UNCHANGED <<shutdown, event, signalled, killed, scripts, files, kills>>

StartsPolling(b) ==
    /\ Goto(b, "connect", "wait")
    /\ WriteHealth(b, "ok")
    /\ UNCHANGED <<tasks, signalled, killed, scripts, pidFile, kills>>

\* start_polling raises: the finally clause cancels the reporter and stops the
\* application itself, unless a shutdown has been through.
PollingFails(b) ==
    /\ Goto(b, "connect", IF event[b] THEN "fatal" ELSE "failing")
    /\ reporter' = [reporter EXCEPT ![b] = FALSE]
    /\ WriteHealth(b, "not_ok")
    /\ UNCHANGED <<shutdown, event, signalled, killed, scripts, pidFile, kills>>

\* The end of stop_bot_application in the finally clause.
StopsAfterFailure(b) ==
    /\ Goto(b, "failing", "fatal")
    /\ event' = [event EXCEPT ![b] = TRUE]
    /\ ClearPidFile(b)
    /\ WriteHealth(b, "not_ok")
    /\ UNCHANGED <<shutdown, reporter, signalled, killed, scripts, kills>>

\* health_reporter
ReportsOk(b) ==
    /\ bot[b] \in {"connect", "wait"}
    /\ reporter[b]
    /\ WriteHealth(b, "ok")
    /\ UNCHANGED <<processes, scripts, pidFile, kills>>

\* shutdown_handler; before it is installed and after the loop is closed the
\* signal ends the process.
TakesSignal(b) ==
    /\ b \in signalled \cap Alive
    /\ \/ /\ Handling(b)
          /\ shutdown[b] = "steps"
          /\ signalled' = signalled \ {b}
          /\ UNCHANGED <<bot, tasks, killed, health, fresh>>
       \/ /\ Handling(b)
          /\ shutdown[b] # "steps"
          /\ signalled' = signalled \ {b}
          /\ shutdown' = [shutdown EXCEPT ![b] = "steps"]
          /\ WriteHealth(b, "not_ok")
          /\ UNCHANGED <<bot, event, reporter, killed>>
       \/ /\ ~Handling(b)
          /\ Gone(b, "dead")
          /\ UNCHANGED <<health, fresh>>
    /\ UNCHANGED <<scripts, pidFile, kills>>

\* Mutant of FinishesShutdown: the event is set on success only.
FinishesShutdownOnSuccess(b) ==
    /\ b \in Alive
    /\ shutdown[b] = "steps"
    /\ shutdown' = [shutdown EXCEPT ![b] = "done"]
    /\ \/ /\ event' = [event EXCEPT ![b] = TRUE]
          /\ UNCHANGED <<health, fresh>>
       \/ /\ bot[b] \notin {"fatal", "main"}
          /\ WriteHealth(b, "not_ok")
          /\ UNCHANGED event
    /\ ClearPidFile(b)
    /\ UNCHANGED <<bot, reporter, signalled, killed, scripts, kills>>

\* stop_bot_application: the steps end, fail or outlast the timeout (and say
\* so), or asyncio.run cancels the task that main leaves behind.
FinishesShutdown(b) ==
    /\ b \in Alive
    /\ shutdown[b] = "steps"
    /\ shutdown' = [shutdown EXCEPT ![b] = "done"]
    /\ \/ UNCHANGED <<health, fresh>>
       \/ bot[b] \notin {"fatal", "main"} /\ WriteHealth(b, "not_ok")
    /\ ClearPidFile(b)
    /\ event' = [event EXCEPT ![b] = TRUE]
    /\ UNCHANGED <<bot, reporter, signalled, killed, scripts, kills>>

\* The event is set: the reporter is cancelled, then the file is written.
Stops(b) ==
    /\ event[b]
    /\ Goto(b, "wait", "main")
    /\ reporter' = [reporter EXCEPT ![b] = FALSE]
    /\ WriteHealth(b, "not_ok")
    /\ UNCHANGED <<shutdown, event, signalled, killed, scripts, pidFile, kills>>

\* main catches what run_bot has raised.
ReportsFatal(b) ==
    /\ shutdown[b] # "steps"
    /\ Goto(b, "fatal", "main")
    /\ WriteHealth(b, "not_ok")
    /\ UNCHANGED <<tasks, signalled, killed, scripts, pidFile, kills>>

Exits(b) ==
    /\ shutdown[b] # "steps"
    /\ bot[b] = "main"
    /\ Gone(b, "exited")
    /\ ClearPidFile(b)
    /\ UNCHANGED <<scripts, health, fresh, kills>>
---------------------------------------------------------------------------
(* From outside *)

\* The next pid forks.
StartsBot(b) ==
    /\ bot[b] = "none"
    /\ b = CHOOSE c \in Bot : bot[c] = "none"
    /\ bot' = [bot EXCEPT ![b] = "boot"]

\* run_orchestrator spawns its bot and looks at no file.
LauncherStarts ==
    /\ launcher = "none"
    /\ Alive = {}
    /\ \A s \in Script : ~Busy(s)
    /\ launcher' = "monitor"
    /\ \E b \in Bot : StartsBot(b) /\ child' = b
    /\ UNCHANGED <<tasks, signalled, killed, script, targets, files, kills>>

\* monitor_processes ends, by a signal or because the API has ended, for which
\* its own restart is enough; it goes on without a bot.  terminate_process.
LauncherStops ==
    /\ launcher = "monitor"
    /\ launcher' = "terminate"
    /\ signalled' = signalled \cup ({child} \cap Alive)
    /\ UNCHANGED <<bot, tasks, killed, child, script, targets, files, kills>>

\* Its grace of ten seconds is over.
LauncherKills ==
    /\ launcher = "terminate"
    /\ launcher' = "ended"
    /\ killed' = killed \cup ({child} \cap Alive)
    /\ UNCHANGED <<bot, tasks, signalled, child, script, targets, files, kills>>

LauncherEnds ==
    /\ launcher = "terminate"
    /\ child \notin Alive
    /\ launcher' = "ended"
    /\ UNCHANGED <<processes, child, script, targets, files, kills>>

\* A SIGKILL of the script or the launcher takes effect.
Dies(b) ==
    /\ b \in killed \cap Alive
    /\ Gone(b, "dead")
    /\ UNCHANGED <<scripts, files, kills>>

\* A bot crashes at any point.
Crashes(b) ==
    /\ b \in Alive
    /\ kills < MaxKills
    /\ kills' = kills + 1
    /\ Gone(b, "dead")
    /\ UNCHANGED <<scripts, files>>

\* Time passes HEALTH_STALE_THRESHOLD; a reporter writes more often.
HealthAges ==
    /\ fresh
    /\ health.status # "none"
    /\ ~\E b \in Alive : reporter[b]
    /\ fresh' = FALSE
    /\ UNCHANGED <<processes, scripts, pidFile, health, kills>>
---------------------------------------------------------------------------
(* The script *)

Step(s, from, to) ==
    /\ script[s] = from
    /\ script' = [script EXCEPT ![s] = to]
    /\ UNCHANGED <<launcher, child>>

Ends(s, how) ==
    /\ script' = [script EXCEPT ![s] = how]
    /\ targets' = [targets EXCEPT ![s] = {}]
    /\ UNCHANGED <<launcher, child>>

Begins(s) ==
    /\ \/ Overlap
       \/ \A q \in Script : ~Busy(q)
    /\ Step(s, "idle", "clean")
    /\ s = CHOOSE q \in Script : script[q] = "idle"
    /\ UNCHANGED <<processes, targets, files, kills>>

\* Mutant of Remaining: only the PID file is looked at.
RemainingByFile(file) == {file} \cap Alive

\* list_matching_pids and is_pid_running: the PID file and pgrep.
Remaining(file) == ({file} \cup Alive) \cap Alive

\* cleanup_stale_pid reads the PID file and looks for the process ...
ChecksFile(s) ==
    /\ Step(s, "clean", IF pidFile \in Alive \cup {Nobody} THEN "list" ELSE "remove")
    /\ UNCHANGED <<processes, targets, files, kills>>

\* ... and then removes the file, whatever is in it by now.
RemovesFile(s) ==
    /\ Step(s, "remove", "list")
    /\ pidFile' = Nobody
    /\ UNCHANGED <<processes, targets, health, fresh, kills>>

\* The beginning of stop_existing_process: a pid of the file counts even if its
\* process has gone.
Lists(s) ==
    /\ LET pids == Remaining(pidFile) \cup ({pidFile} \ {Nobody}) IN
        /\ targets' = [targets EXCEPT ![s] = pids]
        /\ Step(s, "list", IF pids = {} THEN "start" ELSE "terminate")
    /\ UNCHANGED <<processes, files, kills>>

Terminates(s) ==
    /\ Step(s, "terminate", "grace")
    /\ signalled' = signalled \cup (targets[s] \cap Alive)
    /\ UNCHANGED <<bot, tasks, killed, targets, files, kills>>

AllStopped(s) ==
    /\ targets[s] \cap Alive = {}
    /\ Step(s, "grace", "verify")
    /\ UNCHANGED <<processes, targets, files, kills>>

\* Mutant of GraceEnds: the script waits for as long as it takes.
WaitsForEver(s) ==
    /\ targets[s] \cap Alive = {}
    /\ Step(s, "grace", "verify")
    /\ UNCHANGED <<processes, targets, files, kills>>

\* TELEGRAM_SHUTDOWN_TIMEOUT is over: SIGKILL, and one second for its effect.
GraceEnds(s) ==
    /\ Step(s, "grace", "verify")
    /\ killed' = killed \cup (targets[s] \cap Alive)
    /\ UNCHANGED <<bot, tasks, signalled, targets, files, kills>>

\* mark_health_file_stopped keeps the pid of the file.
MarkStopped ==
    IF SaysRunning
    THEN WriteHealth(health.pid, "not_ok")
    ELSE UNCHANGED <<health, fresh>>

\* The end of stop_existing_process, with reconcile_health_after_stop.
Verifies(s) ==
    /\ script[s] = "verify"
    /\ pidFile' = Nobody
    /\ \/ /\ Remaining(Nobody) # {}
          /\ Ends(s, "failed")
          /\ UNCHANGED <<health, fresh>>
       \/ /\ Remaining(Nobody) = {}
          /\ Step(s, "verify", "start")
          /\ MarkStopped
          /\ UNCHANGED targets
    /\ UNCHANGED <<processes, kills>>

\* start_process forks nothing: the bot is disabled, which is a success; there is
\* no token; or there is a bot already.
StartsNothing(s) ==
    /\ script[s] = "start"
    /\ \E how \in {"success", "failed"} : Ends(s, how)
    /\ UNCHANGED <<processes, files, kills>>

\* Mutant of ChecksStart: the health file is left as it is.
ChecksStartOnly(s) ==
    /\ Remaining(pidFile) = {}
    /\ Step(s, "start", "fork")
    /\ pidFile' = Nobody
    /\ UNCHANGED <<processes, targets, health, fresh, kills>>

\* validate_pid_file_for_start removes a stale PID file.
ChecksStart(s) ==
    /\ Remaining(pidFile) = {}
    /\ Step(s, "start", "fork")
    /\ pidFile' = Nobody
    /\ MarkStopped
    /\ UNCHANGED <<processes, targets, kills>>

Forks(s) ==
    /\ Step(s, "fork", "record")
    /\ \E b \in Bot : StartsBot(b) /\ targets' = [targets EXCEPT ![s] = {b}]
    /\ UNCHANGED <<tasks, signalled, killed, files, kills>>

\* echo $! > PID_FILE
Records(s) ==
    /\ Step(s, "record", "read")
    /\ pidFile' \in targets[s]
    /\ UNCHANGED <<processes, targets, health, fresh, kills>>

\* The pid is read back from the file, which the bot may have removed.
ReadsBack(s) ==
    /\ script[s] = "read"
    /\ IF pidFile = Nobody
       THEN Ends(s, "failed")
       ELSE /\ Step(s, "read", "settle")
            /\ targets' = [targets EXCEPT ![s] = {pidFile}]
    /\ UNCHANGED <<processes, files, kills>>

\* After two seconds.
Settles(s) ==
    /\ script[s] = "settle"
    /\ \/ /\ targets[s] \subseteq Alive
          /\ Ends(s, "success")
          /\ UNCHANGED pidFile
       \/ /\ ~(targets[s] \subseteq Alive)
          /\ Ends(s, "failed")
          /\ pidFile' = Nobody
    /\ UNCHANGED <<processes, health, fresh, kills>>

\* The script is killed: it leaves everything as it is.
ScriptDies(s) ==
    /\ Busy(s)
    /\ kills < MaxKills
    /\ kills' = kills + 1
    /\ Ends(s, IF script[s] \in {"list", "terminate"} THEN "cut" ELSE "killed")
    /\ UNCHANGED <<processes, files>>
---------------------------------------------------------------------------
BotStep(b) ==
    \/ WritesStarting(b)
    \/ RefusesToRun(b)
    \/ InstallsHandlers(b)
    \/ Initializes(b)
    \/ InitializeFails(b)
    \/ StartsReporter(b)
    \/ StartsPolling(b)
    \/ PollingFails(b)
    \/ StopsAfterFailure(b)
    \/ ReportsOk(b)
    \/ TakesSignal(b)
    \/ FinishesShutdown(b)
    \/ Stops(b)
    \/ ReportsFatal(b)
    \/ Exits(b)
    \/ Dies(b)
    \/ Crashes(b)

ScriptStep(s) ==
    \/ ChecksFile(s)
    \/ RemovesFile(s)
    \/ Lists(s)
    \/ Terminates(s)
    \/ AllStopped(s)
    \/ GraceEnds(s)
    \/ Verifies(s)
    \/ StartsNothing(s)
    \/ ChecksStart(s)
    \/ Forks(s)
    \/ Records(s)
    \/ ReadsBack(s)
    \/ Settles(s)

Next ==
    \/ \E b \in Bot : BotStep(b)
    \/ \E s \in Script : Begins(s) \/ ScriptStep(s) \/ ScriptDies(s)
    \/ LauncherStarts
    \/ LauncherStops
    \/ LauncherKills
    \/ LauncherEnds
    \/ HealthAges

Spec == Init /\ [][Next]_botVars

\* The script waits for nobody longer than it says, wait_for bounds the shutdown
\* of a bot, and signals are delivered.  What a bot awaits of Telegram may not
\* end at all.
FairSpec ==
    /\ Spec
    /\ \A s \in Script : WF_botVars(ScriptStep(s))
    /\ \A b \in Bot :
          /\ WF_botVars(TakesSignal(b))
          /\ WF_botVars(FinishesShutdown(b))
          /\ WF_botVars(Stops(b))
          /\ WF_botVars(Exits(b))
          /\ WF_botVars(Dies(b))
---------------------------------------------------------------------------
(* Properties *)

\* The variables have their types.
TypeOK ==
    /\ bot \in [Bot -> BotPoints]
    /\ shutdown \in [Bot -> {"none", "steps", "done"}]
    /\ event \in [Bot -> BOOLEAN]
    /\ reporter \in [Bot -> BOOLEAN]
    /\ signalled \in SUBSET Bot
    /\ killed \in SUBSET Bot
    /\ launcher \in {"none", "monitor", "terminate", "ended"}
    /\ child \in Bot \cup {Nobody}
    /\ script \in [Script -> ScriptPoints]
    /\ targets \in [Script -> SUBSET (Bot \cup {Former})]
    /\ pidFile \in Bot \cup {Nobody, Former}
    /\ health \in [status : {"none", "starting", "ok", "not_ok"},
                   pid : Bot \cup {Nobody, Former}]
    /\ fresh \in BOOLEAN
    /\ kills \in Nat

\* "Acquire lock to prevent concurrent restarts": however a restart ends and
\* whatever dies in between, there are never two bots, which would take each
\* other's updates.
OneBot == \A b, c \in Alive : b = c

\* A bot that works, and that nobody stops, is the one the PID file names: what
\* a script removes, or another bot on its way out, is not this entry.  The
\* exception is the launcher's bot when it writes its pid over that of an earlier
\* one while a script is about to remove the stale file (telegram_restart.sh:138
\* and 139): that script ends the bot, unless it is killed first.
WorkingBotIsRecorded ==
    \A b \in Bot \ killed :
        bot[b] \in {"notify", "connect", "wait"} /\ shutdown[b] = "none" =>
            \/ pidFile = b
            \/ /\ b = child
               /\ \/ b \in signalled
                  \/ \E s \in Script : script[s] \in {"list", "terminate", "cut"}

\* get_telegram_bot_healthcheck
BotHealthcheck == TelegramBotHealth(health.status, fresh)

\* What the health file says was true of a bot that was killed.
LeftBehind(p) == p = Former \/ (p \in Bot /\ bot[p] = "dead")

\* GET /health answers better than ERROR only if the bot that wrote so lives and
\* is connected to Telegram or still connecting (its reporter says "polling" as
\* soon as it runs), or was killed and nobody can know better: no other bot lives
\* but one the launcher has just spawned.  It no longer does after the bot has
\* ended by itself, however its reporter, its shutdown and its last words
\* interleave.
HealthIsEarned ==
    Answers(BotHealthcheck) # {"ERROR"} =>
        \/ health.pid \in Bot /\ bot[health.pid] \in {"connect", "wait"}
        \/ LeftBehind(health.pid) /\ \A b \in Alive : b = child /\ bot[b] = "boot"

\* A restart comes to an end, even if the bot hangs and ignores its signal.
RestartEnds == \A s \in Script : Busy(s) ~> Ended(s)

\* A polling bot that takes a SIGTERM ends, even if its shutdown fails, takes too
\* long or is asked for twice.
ShutdownEnds ==
    \A b \in Bot :
        bot[b] = "wait" /\ shutdown[b] = "steps" ~> bot[b] \in {"exited", "dead"}
===========================================================================
