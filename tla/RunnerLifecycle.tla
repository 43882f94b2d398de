-------------------------- MODULE RunnerLifecycle --------------------------
(***************************************************************************)
(* The tasks of a runner's event loop: the main coroutine, which polls and *)
(* at last stops itself, a task per signal, which stops it too, and the    *)
(* watchdog's loop, which keeps an idle session alive.  A step takes a     *)
(* task from one suspension to the next.  runner_lifecycle gives no        *)
(* validator, so that a poll cycle is never suspended.                     *)
(***************************************************************************)
EXTENDS Naturals

CONSTANTS
    Signal,         \* the signals that may arrive
    Main,           \* the main coroutine, which calls stop as they do
    MaxContinues

ASSUME LifecycleAssumption ==
    /\ Main \notin Signal
    /\ MaxContinues \in Nat

Stopper == Signal \cup {Main}

VARIABLES
    enabled,    \* the watchdog is enabled and has a session
    main,       \* where the main coroutine is
    running,    \* Runner._running
    watching,   \* Watchdog._running
    loop,       \* where the watchdog's task is
    client,     \* its http client
    stop,       \* where a call of Runner.stop is
    cancelled,  \* the tasks that asyncio.run has cancelled
    active,     \* an activity has been recorded
    idle,       \* watchdog_idle_seconds ago
    continues   \* _continues_sent

runner == <<main, running, stop, cancelled>>
watchdog == <<watching, loop, client>>
session == <<active, idle, continues>>
lifecycleVars == <<enabled, runner, watchdog, session>>

Pending(s) == stop[s] \in {"new", "join", "aclose"}

LifecycleInit ==
    /\ enabled \in BOOLEAN
    /\ main = "start"
    /\ running = FALSE
    /\ watching = FALSE
    /\ loop = "none"
    /\ client = "none"
    /\ stop = [s \in Stopper |-> "none"]
    /\ cancelled = {}
    /\ active = FALSE
    /\ idle = FALSE
    /\ continues = 0
---------------------------------------------------------------------------
(* Runner and runner_lifecycle *)

\* _poll_cycle: an execution that is processed is an activity.
PollCycle ==
    \/ active' = TRUE /\ idle' = FALSE
    \/ UNCHANGED <<active, idle>>

StartWatchdog ==
    IF enabled
    THEN loop' = "new" /\ client' = "open"
    ELSE UNCHANGED <<loop, client>>

\* Mutant of BeginStop: a runner whose watchdog is off is not stopped.
BeginStopOfWatchdog(s) ==
    /\ running' = (running /\ ~watching)
    /\ watching' = FALSE
    /\ stop' = [stop EXCEPT ![s] = IF watching THEN "join" ELSE "done"]

\* Runner.stop up to the await of the watchdog's task, which it cancels; a
\* watchdog that somebody else has begun to stop is not waited for.
BeginStop(s) ==
    /\ running' = FALSE
    /\ watching' = FALSE
    /\ stop' = [stop EXCEPT ![s] = IF watching THEN "join" ELSE "done"]

\* The first cycle may raise, as every other.
Start ==
    /\ main = "start"
    /\ StartWatchdog
    /\ \/ /\ main' = "sleep"
          /\ running' = TRUE
          /\ watching' = enabled
          /\ PollCycle
          /\ UNCHANGED stop
       \/ /\ main' = "stopping"
          /\ stop' = [stop EXCEPT ![Main] = IF enabled THEN "join" ELSE "done"]
          /\ UNCHANGED <<running, watching, active, idle>>
    /\ UNCHANGED <<enabled, cancelled, continues>>

Polls ==
    /\ main = "sleep"
    /\ running
    /\ PollCycle
    /\ UNCHANGED <<enabled, runner, watchdog, continues>>

\* start returns, and runner_lifecycle stops the runner.
Leaves ==
    /\ main = "sleep"
    /\ ~running
    /\ main' = "stopping"
    /\ BeginStop(Main)
    /\ UNCHANGED <<enabled, cancelled, loop, client, session>>

\* A session that cannot be opened or closed is no error of a cycle: it leaves
\* start.
Breaks ==
    /\ main = "sleep"
    /\ running
    /\ main' = "stopping"
    /\ BeginStop(Main)
    /\ UNCHANGED <<enabled, cancelled, loop, client, session>>

\* signal_handler
SignalArrives(s) ==
    /\ main \in {"sleep", "stopping"}
    /\ s \in Signal
    /\ stop[s] = "none"
    /\ stop' = [stop EXCEPT ![s] = "new"]
    /\ UNCHANGED <<enabled, main, running, cancelled, watchdog, session>>

StopBegins(s) ==
    /\ stop[s] = "new"
    /\ s \notin cancelled
    /\ BeginStop(s)
    /\ UNCHANGED <<enabled, main, cancelled, loop, client, session>>

\* Mutant of Joins: the watchdog's task is not awaited.
JoinsNothing(s) ==
    /\ stop[s] = "join"
    /\ stop' = [stop EXCEPT ![s] = "aclose"]
    /\ client' = "closing"
    /\ cancelled' = cancelled \ {s}
    /\ UNCHANGED <<enabled, main, running, watching, loop, session>>

\* Mutant of Joins: a cancellation of the caller is passed on.
JoinsUnlessCancelled(s) ==
    /\ stop[s] = "join"
    /\ loop = "done"
    /\ cancelled' = cancelled \ {s}
    /\ IF s \in cancelled
       THEN /\ stop' = [stop EXCEPT ![s] = "cut"]
            /\ UNCHANGED client
       ELSE /\ stop' = [stop EXCEPT ![s] = "aclose"]
            /\ client' = "closing"
    /\ UNCHANGED <<enabled, main, running, watching, loop, session>>

\* The task has ended.  stop takes any CancelledError for the task's, its own
\* as well, and goes on to aclose.
Joins(s) ==
    /\ stop[s] = "join"
    /\ loop = "done"
    /\ stop' = [stop EXCEPT ![s] = "aclose"]
    /\ client' = "closing"
    /\ cancelled' = cancelled \ {s}
    /\ UNCHANGED <<enabled, main, running, watching, loop, session>>

Closes(s) ==
    /\ stop[s] = "aclose"
    /\ s \notin cancelled
    /\ stop' = [stop EXCEPT ![s] = "done"]
    /\ client' = "closed"
    /\ UNCHANGED <<enabled, main, running, cancelled, watching, loop, session>>

\* CancelledError before the first step or out of aclose.
CutShort(s) ==
    /\ stop[s] \in {"new", "aclose"}
    /\ s \in cancelled
    /\ stop' = [stop EXCEPT ![s] = "cut"]
    /\ cancelled' = cancelled \ {s}
    /\ UNCHANGED <<enabled, main, running, watchdog, session>>

\* The handlers are removed, and asyncio.run cancels what is left.
Returns ==
    /\ main = "stopping"
    /\ stop[Main] = "done"
    /\ main' = "closing"
    /\ cancelled' = {s \in Signal : Pending(s)}
    /\ UNCHANGED <<enabled, running, stop, watchdog, session>>

Exits ==
    /\ main = "closing"
    /\ \A s \in Signal : ~Pending(s)
    /\ loop \in {"none", "done"}
    /\ main' = "exited"
    /\ UNCHANGED <<enabled, running, stop, cancelled, watchdog, session>>
---------------------------------------------------------------------------
(* Watchdog._run *)

LoopBegins ==
    /\ loop = "new"
    /\ watching
    /\ loop' = "sleep"
    /\ UNCHANGED <<enabled, runner, watching, client, session>>

\* _should_send_ping.  A ping is no activity: the next one follows after one
\* poll interval.
ShouldSendPing == active /\ continues < MaxContinues /\ idle

SendsPing ==
    /\ loop = "sleep"
    /\ watching
    /\ ShouldSendPing
    /\ loop' = "post"
    /\ UNCHANGED <<enabled, runner, watching, client, session>>

PingSucceeds ==
    /\ loop = "post"
    /\ watching
    /\ loop' = "sleep"
    /\ continues' = continues + 1
    /\ UNCHANGED <<enabled, runner, watching, client, active, idle>>

\* Mutant of PingFails: the exception ends the loop.
PingFailsLoop ==
    /\ loop = "post"
    /\ watching
    /\ loop' = "done"
    /\ UNCHANGED <<enabled, runner, watching, client, session>>

\* A status of 400 or more, a timeout, any other exception: it does not count.
PingFails ==
    /\ loop = "post"
    /\ watching
    /\ loop' = "sleep"
    /\ UNCHANGED <<enabled, runner, watching, client, session>>

\* stop has cancelled the task, asleep or in a request.
LoopIsCancelled ==
    /\ loop \in {"new", "sleep", "post"}
    /\ ~watching
    /\ loop' = "done"
    /\ UNCHANGED <<enabled, runner, watching, client, session>>

TimePasses ==
    /\ active
    /\ ~idle
    /\ idle' = TRUE
    /\ UNCHANGED <<enabled, runner, watchdog, active, continues>>
---------------------------------------------------------------------------
LoopStep ==
    \/ LoopBegins
    \/ SendsPing
    \/ PingSucceeds
    \/ PingFails
    \/ LoopIsCancelled

StopStep(s) ==
    \/ StopBegins(s)
    \/ Joins(s)
    \/ Closes(s)
    \/ CutShort(s)

MainStep ==
    \/ Start
    \/ Leaves
    \/ Returns
    \/ Exits

LifecycleNext ==
    \/ MainStep
    \/ Polls
    \/ Breaks
    \/ \E s \in Stopper : SignalArrives(s) \/ StopStep(s)
    \/ LoopStep
    \/ TimePasses

LifecycleSpec == LifecycleInit /\ [][LifecycleNext]_lifecycleVars

\* The event loop runs every task that can go on: sleeps end, a request has a
\* timeout of ten seconds.  A session that lives answers one of the pings.
\* Nobody promises that there is anything to poll.
FairLifecycleSpec ==
    /\ LifecycleSpec
    /\ WF_lifecycleVars(MainStep)
    /\ WF_lifecycleVars(LoopStep)
    /\ SF_lifecycleVars(PingSucceeds)
    /\ \A s \in Stopper : WF_lifecycleVars(StopStep(s))
---------------------------------------------------------------------------
(* Properties *)

\* The variables have their types.
LifecycleTypeOK ==
    /\ enabled \in BOOLEAN
    /\ main \in {"start", "sleep", "stopping", "closing", "exited"}
    /\ running \in BOOLEAN
    /\ watching \in BOOLEAN
    /\ loop \in {"none", "new", "sleep", "post", "done"}
    /\ client \in {"none", "open", "closing", "closed"}
    /\ stop \in [Stopper -> {"none", "new", "join", "aclose", "done", "cut"}]
    /\ cancelled \in SUBSET Signal
    /\ active \in BOOLEAN
    /\ idle \in BOOLEAN
    /\ continues \in 0..MaxContinues

\* The process ends with nothing left behind: the main coroutine does not wait
\* for a watchdog that a signal's task has begun to stop, and asyncio.run
\* cancels that task, which has still to see the loop end and close its client.
ExitLeavesNothing ==
    main = "exited" => client # "open" /\ loop \in {"none", "done"}

\* A ping is sent through an open client only, however often and from wherever
\* the runner is stopped meanwhile.
PingsHaveAClient == loop = "post" => client = "open"

\* A signal ends the runner, whatever it and the watchdog are doing, and even
\* if the same signal comes again.
SignalEndsRunner ==
    \A s \in Signal : stop[s] = "new" ~> main = "exited"

\* A session that stays idle gets all its pings: "HTTP errors are logged but do
\* not crash the runner", nor the loop.
IdleSessionIsPinged ==
    <>[](watching /\ active /\ idle) => <>(continues = MaxContinues)
===========================================================================
