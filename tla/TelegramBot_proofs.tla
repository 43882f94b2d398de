------------------------- MODULE TelegramBot_proofs -------------------------
(***************************************************************************)
(* Proofs about the bot's processes, for any number of bots, restarts and  *)
(* crashes, as long as one restart follows the other (~Overlap).           *)
(*                                                                         *)
(* The argument: a script that is about to stop bots has listed every one  *)
(* that lives, it starts a bot only when none does, and what it has        *)
(* started is all that lives until it ends.  Whoever empties the PID file  *)
(* therefore knows of no bot that works, but for a script that has found   *)
(* the file stale; what was stale is then the file of a bot that ended     *)
(* before the launcher started its own.  Whatever outlives a bot in the    *)
(* health file is corrected before a script starts the next one.           *)
(***************************************************************************)
EXTENDS TelegramBot, TLAPS

OneScript == \A s, q \in Script : Busy(s) /\ Busy(q) => s = q

\* The bots a script knows of are all there are.
AliveIsListed ==
    \A s \in Script :
        script[s] \in {"terminate", "grace", "verify", "record", "read", "settle"}
        => Alive \subseteq targets[s]

\* What the script has found alive after its grace has been sent a SIGKILL.
RestIsKilled == \A s \in Script : script[s] = "verify" => Alive \subseteq killed

\* The script watches the bot it has started.
StartedIsOne ==
    \A s \in Script :
        /\ script[s] \in {"record", "read", "settle"}
              => \E b \in Bot : targets[s] = {b}
        /\ script[s] = "read" => pidFile \in targets[s] \cup {Nobody}

NothingBeforeFork ==
    \A s \in Script : script[s] = "fork" => Alive = {} /\ ~SaysRunning

\* A PID file that an earlier bot has left outlives the start of the launcher's
\* bot only, and so it is no other that a script may be about to remove.
FileIsOfAlive ==
    /\ \A b \in Alive \ {child} : pidFile \in {b, Nobody}
    /\ \A s \in Script :
          /\ script[s] = "fork" => pidFile = Nobody
          /\ script[s] = "remove" => Alive \subseteq {child}

\* An "ok" is that of a connected bot, or of one that was killed.
OkIsEarned ==
    health.status = "ok" =>
        \/ health.pid \in Bot /\ bot[health.pid] \in {"connect", "wait"}
        \/ LeftBehind(health.pid) /\ \A b \in Alive : b = child /\ bot[b] = "boot"

IInv ==
    /\ TypeOK
    /\ OneBot
    /\ WorkingBotIsRecorded
    /\ OneScript
    /\ AliveIsListed
    /\ RestIsKilled
    /\ StartedIsOne
    /\ NothingBeforeFork
    /\ FileIsOfAlive
    /\ OkIsEarned
-----------------------------------------------------------------------------
LEMMA InitIInv == Init => IInv
BY BotAssumption
DEF Init, IInv, TypeOK, OneBot, WorkingBotIsRecorded, OneScript, AliveIsListed,
    RestIsKilled, StartedIsOne, NothingBeforeFork, FileIsOfAlive, OkIsEarned,
    LeftBehind, Alive, Busy, Ended,
    BotPoints, ScriptPoints, NoHealth

HealthTypeOK ==
    /\ health \in [status : {"none", "starting", "ok", "not_ok"},
                   pid : Bot \cup {Nobody, Former}]
    /\ fresh \in BOOLEAN

LEMMA WriteHealthType ==
    ASSUME NEW p \in Bot \cup {Nobody, Former}, NEW x \in {"starting", "ok", "not_ok"},
           WriteHealth(p, x)
    PROVE  HealthTypeOK'
BY DEF WriteHealth, HealthTypeOK

LEMMA MarkStoppedType == HealthTypeOK /\ MarkStopped => HealthTypeOK'
<1> SUFFICES ASSUME HealthTypeOK, MarkStopped PROVE HealthTypeOK'
  OBVIOUS
<1>1. CASE SaysRunning
  <2>1. health.pid \in Bot \cup {Nobody, Former}
    BY DEF HealthTypeOK
  <2>2. WriteHealth(health.pid, "not_ok")
    BY <1>1 DEF MarkStopped
  <2> QED
    BY <2>1, <2>2, WriteHealthType
<1>2. CASE ~SaysRunning
  BY <1>2 DEF MarkStopped, HealthTypeOK
<1> QED
  BY <1>1, <1>2

LEMMA NextTypeOK == TypeOK /\ [Next]_botVars => TypeOK'
<1> SUFFICES ASSUME TypeOK, [Next]_botVars PROVE TypeOK'
  OBVIOUS
<1> USE BotAssumption DEF TypeOK, BotPoints, ScriptPoints
<1>1. ASSUME NEW b \in Bot, WritesStarting(b)
      PROVE  TypeOK'
  BY <1>1 DEF WritesStarting, Goto, WriteHealth, tasks, scripts
<1>2. ASSUME NEW b \in Bot, RefusesToRun(b)
      PROVE  TypeOK'
  BY <1>2 DEF RefusesToRun, Goto, WriteHealth, tasks, scripts
<1>3. ASSUME NEW b \in Bot, InstallsHandlers(b)
      PROVE  TypeOK'
  BY <1>3 DEF InstallsHandlers, Goto, tasks, scripts, files
<1>4. ASSUME NEW b \in Bot, Initializes(b)
      PROVE  TypeOK'
  BY <1>4 DEF Initializes, Goto, tasks, scripts
<1>5. ASSUME NEW b \in Bot, InitializeFails(b)
      PROVE  TypeOK'
  BY <1>5 DEF InitializeFails, Goto, tasks, scripts, files
<1>6. ASSUME NEW b \in Bot, StartsReporter(b)
      PROVE  TypeOK'
  BY <1>6 DEF StartsReporter, Goto, scripts, files
<1>7. ASSUME NEW b \in Bot, StartsPolling(b)
      PROVE  TypeOK'
  BY <1>7 DEF StartsPolling, Goto, WriteHealth, tasks, scripts
<1>8. ASSUME NEW b \in Bot, PollingFails(b)
      PROVE  TypeOK'
  BY <1>8 DEF PollingFails, Goto, WriteHealth, scripts
<1>9. ASSUME NEW b \in Bot, StopsAfterFailure(b)
      PROVE  TypeOK'
  BY <1>9 DEF StopsAfterFailure, Goto, WriteHealth, ClearPidFile, scripts
<1>10. ASSUME NEW b \in Bot, ReportsOk(b)
      PROVE  TypeOK'
  BY <1>10 DEF ReportsOk, WriteHealth, processes, scripts, tasks
<1>11. ASSUME NEW b \in Bot, TakesSignal(b)
      PROVE  TypeOK'
  <2>1. HealthTypeOK'
    <3>1. HealthTypeOK /\ UNCHANGED <<health, fresh>> => HealthTypeOK'
      BY DEF HealthTypeOK
    <3>2. WriteHealth(b, "not_ok") \/ UNCHANGED <<health, fresh>>
      BY <1>11 DEF TakesSignal
    <3> QED
      BY <3>1, <3>2, WriteHealthType DEF HealthTypeOK
  <2>2. CASE Gone(b, "dead") /\ ~Handling(b)
    BY <1>11, <2>1, <2>2 DEF TakesSignal, Gone, HealthTypeOK, scripts
  <2>3. CASE Handling(b)
    BY <1>11, <2>1, <2>3 DEF TakesSignal, HealthTypeOK, scripts, tasks
  <2> QED
    BY <1>11, <2>2, <2>3 DEF TakesSignal
<1>12. ASSUME NEW b \in Bot, FinishesShutdown(b)
      PROVE  TypeOK'
  <2>1. HealthTypeOK'
    <3>1. HealthTypeOK /\ UNCHANGED <<health, fresh>> => HealthTypeOK'
      BY DEF HealthTypeOK
    <3>2. WriteHealth(b, "not_ok") \/ UNCHANGED <<health, fresh>>
      BY <1>12 DEF FinishesShutdown
    <3> QED
      BY <3>1, <3>2, WriteHealthType DEF HealthTypeOK
  <2> QED
    BY <1>12, <2>1 DEF FinishesShutdown, ClearPidFile, HealthTypeOK, scripts
<1>13. ASSUME NEW b \in Bot, Stops(b)
      PROVE  TypeOK'
  BY <1>13 DEF Stops, Goto, WriteHealth, scripts
<1>14. ASSUME NEW b \in Bot, ReportsFatal(b)
      PROVE  TypeOK'
  BY <1>14 DEF ReportsFatal, Goto, WriteHealth, tasks, scripts
<1>15. ASSUME NEW b \in Bot, Exits(b)
      PROVE  TypeOK'
  BY <1>15 DEF Exits, Gone, ClearPidFile, scripts
<1>16. ASSUME NEW b \in Bot, Dies(b)
      PROVE  TypeOK'
  BY <1>16 DEF Dies, Gone, scripts, files, Alive
<1>17. ASSUME NEW b \in Bot, Crashes(b)
      PROVE  TypeOK'
  BY <1>17 DEF Crashes, Gone, scripts, files, Alive
<1>18. ASSUME NEW s \in Script, Begins(s)
      PROVE  TypeOK'
  BY <1>18 DEF Begins, Step, processes, files, tasks
<1>19. ASSUME NEW s \in Script, Lists(s)
      PROVE  TypeOK'
  BY <1>19 DEF Lists, Step, Remaining, processes, files, Alive, tasks
<1>20. ASSUME NEW s \in Script, Terminates(s)
      PROVE  TypeOK'
  BY <1>20 DEF Terminates, Step, tasks, files, Alive
<1>21. ASSUME NEW s \in Script, AllStopped(s)
      PROVE  TypeOK'
  BY <1>21 DEF AllStopped, Step, processes, files, Alive, tasks
<1>22. ASSUME NEW s \in Script, GraceEnds(s)
      PROVE  TypeOK'
  BY <1>22 DEF GraceEnds, Step, tasks, files, Alive
<1>23. ASSUME NEW s \in Script, Verifies(s)
      PROVE  TypeOK'
  <2>1. HealthTypeOK'
    BY <1>23, MarkStoppedType DEF Verifies, HealthTypeOK
  <2>2. /\ script' \in [Script -> ScriptPoints]
        /\ targets' \in [Script -> SUBSET (Bot \cup {Former})]
    <3>1. CASE Ends(s, "failed")
      BY <3>1 DEF Ends
    <3>2. CASE Step(s, "verify", "start") /\ UNCHANGED targets
      BY <3>2 DEF Step
    <3> QED
      BY <1>23, <3>1, <3>2 DEF Verifies
  <2> QED
    BY <1>23, <2>1, <2>2 DEF Verifies, Step, Ends, HealthTypeOK, processes, tasks
<1>24. ASSUME NEW s \in Script, StartsNothing(s)
      PROVE  TypeOK'
  BY <1>24 DEF StartsNothing, Ends, processes, files, tasks
<1>25. ASSUME NEW s \in Script, ChecksStart(s)
      PROVE  TypeOK'
  <2>1. HealthTypeOK'
    BY <1>25, MarkStoppedType DEF ChecksStart, HealthTypeOK
  <2> QED
    BY <1>25, <2>1 DEF ChecksStart, Step, HealthTypeOK, processes, tasks
<1>26. ASSUME NEW s \in Script, Forks(s)
      PROVE  TypeOK'
  BY <1>26 DEF Forks, StartsBot, Step, tasks, files
<1>27. ASSUME NEW s \in Script, Records(s)
      PROVE  TypeOK'
  BY <1>27 DEF Records, Step, processes, tasks
<1>28. ASSUME NEW s \in Script, ReadsBack(s)
      PROVE  TypeOK'
  BY <1>28 DEF ReadsBack, Step, Ends, processes, files, tasks
<1>29. ASSUME NEW s \in Script, Settles(s)
      PROVE  TypeOK'
  BY <1>29 DEF Settles, Ends, processes, Alive, tasks
<1>30. ASSUME NEW s \in Script, ScriptDies(s)
      PROVE  TypeOK'
  BY <1>30 DEF ScriptDies, Ends, processes, files, tasks
<1>31. ASSUME LauncherStops
      PROVE  TypeOK'
  BY <1>31 DEF LauncherStops, tasks, files, Alive
<1>32. ASSUME LauncherKills
      PROVE  TypeOK'
  BY <1>32 DEF LauncherKills, tasks, files, Alive
<1>33. ASSUME LauncherEnds
      PROVE  TypeOK'
  BY <1>33 DEF LauncherEnds, processes, files, Alive, tasks
<1>34. ASSUME HealthAges
      PROVE  TypeOK'
  BY <1>34 DEF HealthAges, processes, scripts, Alive, tasks
<1>35. ASSUME LauncherStarts
      PROVE  TypeOK'
  BY <1>35 DEF LauncherStarts, StartsBot, tasks, files
<1>36. ASSUME NEW s \in Script, ChecksFile(s)
      PROVE  TypeOK'
  BY <1>36 DEF ChecksFile, Step, processes, files, tasks
<1>37. ASSUME NEW s \in Script, RemovesFile(s)
      PROVE  TypeOK'
  BY <1>37 DEF RemovesFile, Step, processes, tasks
<1>38. CASE UNCHANGED botVars
  BY <1>38 DEF botVars, processes, tasks, scripts, files
<1> QED
  BY <1>1, <1>2, <1>3, <1>4, <1>5, <1>6, <1>7, <1>8, <1>9, <1>10, <1>11, <1>12,
     <1>13, <1>14, <1>15, <1>16, <1>17, <1>18, <1>19, <1>20, <1>21, <1>22, <1>23,
     <1>24, <1>25, <1>26, <1>27, <1>28, <1>29, <1>30, <1>31, <1>32, <1>33,
     <1>34, <1>35, <1>36, <1>37, <1>38
  DEF Next, BotStep, ScriptStep

\* The steps of a bot: they make none alive, and one that works touches the PID
\* file only to enter itself.
LEMMA BotStepIInv ==
    ASSUME IInv, TypeOK', NEW b \in Bot, BotStep(b)
    PROVE  IInv'
<1> USE BotAssumption
    DEF IInv, TypeOK, OneBot, WorkingBotIsRecorded, OneScript, AliveIsListed, RestIsKilled,
        StartedIsOne, NothingBeforeFork, FileIsOfAlive, OkIsEarned, LeftBehind,
        SaysRunning, Busy, Ended, Alive
<1>1. CASE WritesStarting(b)
  BY <1>1 DEF WritesStarting, Goto, WriteHealth, tasks, scripts
<1>2. CASE RefusesToRun(b)
  BY <1>2 DEF RefusesToRun, Goto, WriteHealth, tasks, scripts
<1>3. CASE InstallsHandlers(b)
  BY <1>3 DEF InstallsHandlers, Goto, tasks, scripts, files
<1>4. CASE Initializes(b)
  BY <1>4 DEF Initializes, Goto, tasks, scripts
<1>5. CASE InitializeFails(b)
  BY <1>5 DEF InitializeFails, Goto, tasks, scripts, files
<1>6. CASE StartsReporter(b)
  BY <1>6 DEF StartsReporter, Goto, scripts, files
<1>7. CASE StartsPolling(b)
  BY <1>7 DEF StartsPolling, Goto, WriteHealth, tasks, scripts
<1>8. CASE PollingFails(b)
  BY <1>8 DEF PollingFails, Goto, WriteHealth, scripts
<1>9. CASE StopsAfterFailure(b)
  BY <1>9 DEF StopsAfterFailure, Goto, WriteHealth, ClearPidFile, scripts
<1>10. CASE ReportsOk(b)
  BY <1>10 DEF ReportsOk, WriteHealth, processes, scripts, tasks
<1>11. CASE TakesSignal(b)
  BY <1>11 DEF TakesSignal, Gone, WriteHealth, tasks, scripts, Handling
<1>12. CASE FinishesShutdown(b)
  BY <1>12 DEF FinishesShutdown, WriteHealth, ClearPidFile, scripts
<1>13. CASE Stops(b)
  BY <1>13 DEF Stops, Goto, WriteHealth, scripts
<1>14. CASE ReportsFatal(b)
  BY <1>14 DEF ReportsFatal, Goto, WriteHealth, tasks, scripts
<1>15. CASE Exits(b)
  BY <1>15 DEF Exits, Gone, ClearPidFile, scripts
<1>16. CASE Dies(b)
  BY <1>16 DEF Dies, Gone, scripts, files
<1>17. CASE Crashes(b)
  BY <1>17 DEF Crashes, Gone, scripts, files
<1> QED
  BY <1>1, <1>2, <1>3, <1>4, <1>5, <1>6, <1>7, <1>8, <1>9, <1>10, <1>11, <1>12,
     <1>13, <1>14, <1>15, <1>16, <1>17 DEF BotStep

\* The steps of a script.
LEMMA ScriptStepIInv ==
    ASSUME IInv, TypeOK', ~Overlap, NEW s \in Script,
           Begins(s) \/ ScriptStep(s) \/ ScriptDies(s)
    PROVE  IInv'
<1> USE BotAssumption
<1>0. TypeOK'
  OBVIOUS
<1>t. TypeOK /\ OneBot /\ WorkingBotIsRecorded /\ OneScript /\ AliveIsListed
      /\ RestIsKilled /\ StartedIsOne /\ NothingBeforeFork /\ FileIsOfAlive
      /\ OkIsEarned
  BY DEF IInv
<1> USE <1>t
<1>1. CASE Begins(s)
  <2>1. \A q \in Script : ~Busy(q)
    BY <1>1 DEF Begins
  <2>2. /\ script'[s] = "clean" /\ script[s] = "idle"
        /\ \A q \in Script \ {s} : script'[q] = script[q]
        /\ UNCHANGED child
    BY <1>1 DEF Begins, Step, TypeOK
  <2>3. UNCHANGED <<processes, targets, files, kills>>
    BY <1>1 DEF Begins
  <2>4. OneScript'
    BY <2>1, <2>2 DEF OneScript, Busy, Ended
  <2>5. OneBot' /\ WorkingBotIsRecorded' /\ OkIsEarned'
    BY <2>2, <2>3 DEF OneBot, WorkingBotIsRecorded, OkIsEarned, LeftBehind, Alive,
       processes, tasks, files
  <2>6. /\ AliveIsListed' /\ RestIsKilled' /\ StartedIsOne' /\ NothingBeforeFork'
        /\ FileIsOfAlive'
    BY <2>2, <2>3 DEF AliveIsListed, RestIsKilled, StartedIsOne, NothingBeforeFork,
       FileIsOfAlive, SaysRunning, Alive, processes, tasks, files
  <2> QED
    BY <1>0, <2>4, <2>5, <2>6 DEF IInv
<1>2. CASE Lists(s)
  BY <1>0, <1>2 DEF Lists, Step, Remaining, processes, files, tasks, Alive, IInv, TypeOK,
     OneBot, WorkingBotIsRecorded, OneScript, AliveIsListed, RestIsKilled,
     StartedIsOne, NothingBeforeFork, FileIsOfAlive, OkIsEarned, LeftBehind, SaysRunning,
     Busy, Ended
<1>3. CASE Terminates(s)
  BY <1>0, <1>3 DEF Terminates, Step, tasks, files, Alive, IInv, TypeOK, OneBot,
     WorkingBotIsRecorded, OneScript, AliveIsListed, RestIsKilled, StartedIsOne,
     NothingBeforeFork, FileIsOfAlive, OkIsEarned, LeftBehind, SaysRunning,
     Busy, Ended
<1>4. CASE AllStopped(s)
  BY <1>0, <1>4 DEF AllStopped, Step, processes, files, tasks, Alive, IInv,
     TypeOK, OneBot, WorkingBotIsRecorded, OneScript, AliveIsListed, RestIsKilled,
     StartedIsOne, NothingBeforeFork, FileIsOfAlive, OkIsEarned, LeftBehind, SaysRunning,
     Busy, Ended
<1>5. CASE GraceEnds(s)
  BY <1>0, <1>5 DEF GraceEnds, Step, tasks, files, Alive, IInv, TypeOK, OneBot,
     WorkingBotIsRecorded, OneScript, AliveIsListed, RestIsKilled, StartedIsOne,
     NothingBeforeFork, FileIsOfAlive, OkIsEarned, LeftBehind, SaysRunning,
     Busy, Ended
<1>6. CASE Verifies(s)
  <2>1. /\ script[s] = "verify" /\ pidFile' = Nobody
        /\ UNCHANGED <<processes, child, kills>>
        /\ Alive' = Alive /\ Alive \subseteq killed
    BY <1>6 DEF Verifies, Step, Ends, RestIsKilled, processes, tasks, Alive
  <2>2. OneBot' /\ WorkingBotIsRecorded'
    BY <2>1 DEF OneBot, WorkingBotIsRecorded, Alive, processes, tasks
  <2>3. CASE Ends(s, "failed") /\ UNCHANGED <<health, fresh>>
    BY <1>0, <2>1, <2>2, <2>3
    DEF Ends, IInv, TypeOK, OneScript, AliveIsListed, RestIsKilled, StartedIsOne,
        NothingBeforeFork, FileIsOfAlive, OkIsEarned, LeftBehind, SaysRunning, Busy,
        Ended, processes, tasks
  <2>4. CASE Step(s, "verify", "start") /\ MarkStopped /\ UNCHANGED targets
    <3>1. OkIsEarned'
      BY <2>1, <2>4 DEF OkIsEarned, MarkStopped, WriteHealth, SaysRunning, processes
    <3>2. NothingBeforeFork' /\ FileIsOfAlive'
      BY <2>1, <2>4 DEF NothingBeforeFork, FileIsOfAlive, OneScript, Busy, Ended, Step,
         TypeOK
    <3> QED
      BY <1>0, <2>1, <2>2, <2>4, <3>1, <3>2
      DEF Step, IInv, TypeOK, OneScript, AliveIsListed, RestIsKilled, StartedIsOne,
          Busy, Ended, processes
  <2> QED
    BY <1>6, <2>3, <2>4 DEF Verifies
<1>7. CASE StartsNothing(s)
  BY <1>0, <1>7 DEF StartsNothing, Ends, processes, files, tasks, Alive, IInv,
     TypeOK, OneBot, WorkingBotIsRecorded, OneScript, AliveIsListed, RestIsKilled,
     StartedIsOne, NothingBeforeFork, FileIsOfAlive, OkIsEarned, LeftBehind, SaysRunning,
     Busy, Ended
<1>8. CASE ChecksStart(s)
  <2>1. /\ script[s] = "start"
        /\ script' = [script EXCEPT ![s] = "fork"]
        /\ pidFile' = Nobody
        /\ UNCHANGED <<bot, tasks, signalled, killed, targets>>
    BY <1>8 DEF ChecksStart, Step, processes
  <2>2. Alive = {} /\ Alive' = {}
    BY <1>8, <2>1 DEF ChecksStart, Remaining, Alive
  <2>3. OkIsEarned' /\ ~SaysRunning'
    BY <1>8, <2>1, <2>2 DEF ChecksStart, MarkStopped, WriteHealth, SaysRunning,
       OkIsEarned
  <2>4. OneBot' /\ WorkingBotIsRecorded' /\ RestIsKilled' /\ AliveIsListed'
    BY <2>2 DEF OneBot, WorkingBotIsRecorded, RestIsKilled, AliveIsListed, Alive
  <2>5. OneScript' /\ NothingBeforeFork' /\ FileIsOfAlive'
    BY <2>1, <2>2, <2>3 DEF OneScript, NothingBeforeFork, FileIsOfAlive, Busy, Ended,
       TypeOK
  <2>6. StartedIsOne'
    BY <2>1 DEF StartedIsOne, OneScript, Busy, Ended, TypeOK
  <2> QED
    BY <1>0, <2>3, <2>4, <2>5, <2>6 DEF IInv
<1>9. CASE Forks(s)
  <2>1. PICK b \in Bot : /\ bot[b] = "none"
                        /\ bot' = [bot EXCEPT ![b] = "boot"]
                        /\ targets' = [targets EXCEPT ![s] = {b}]
    BY <1>9 DEF Forks, StartsBot
  <2>2. /\ script[s] = "fork"
        /\ script' = [script EXCEPT ![s] = "record"]
        /\ UNCHANGED <<tasks, signalled, killed, files, kills>>
    BY <1>9 DEF Forks, Step
  <2>3. Alive = {} /\ ~SaysRunning
    BY <2>2 DEF NothingBeforeFork
  <2>4. Alive' = {b}
    BY <2>1, <2>3 DEF Alive, TypeOK
  <2>5. \A q \in Script \ {s} : ~Busy(q) /\ script'[q] = script[q]
    BY <2>2 DEF OneScript, Busy, Ended, TypeOK
  <2>6. script'[s] = "record" /\ targets'[s] = {b}
    BY <2>1, <2>2 DEF TypeOK
  <2>7. OneBot' /\ AliveIsListed' /\ RestIsKilled' /\ StartedIsOne' /\ NothingBeforeFork'
    BY <2>4, <2>5, <2>6
    DEF OneBot, AliveIsListed, RestIsKilled, StartedIsOne, NothingBeforeFork, Busy, Ended
  <2>8. OneScript'
    BY <2>5 DEF OneScript, Busy, Ended
  <2>9. WorkingBotIsRecorded'
    BY <2>1, <2>3 DEF WorkingBotIsRecorded, Alive, TypeOK
  <2>10. FileIsOfAlive'
    BY <2>2, <2>4, <2>5, <2>6 DEF FileIsOfAlive, Busy, Ended, files
  <2>11. OkIsEarned'
    BY <2>2, <2>3 DEF OkIsEarned, SaysRunning, files
  <2> QED
    BY <1>0, <2>7, <2>8, <2>9, <2>10, <2>11 DEF IInv
<1>10. CASE Records(s)
  BY <1>0, <1>10 DEF Records, Step, processes, tasks, Alive, IInv, TypeOK, OneBot,
     WorkingBotIsRecorded, OneScript, AliveIsListed, RestIsKilled, StartedIsOne,
     NothingBeforeFork, FileIsOfAlive, OkIsEarned, LeftBehind, SaysRunning,
     Busy, Ended
<1>11. CASE ReadsBack(s)
  BY <1>0, <1>11 DEF ReadsBack, Step, Ends, processes, files, tasks, Alive, IInv,
     TypeOK, OneBot, WorkingBotIsRecorded, OneScript, AliveIsListed, RestIsKilled,
     StartedIsOne, NothingBeforeFork, FileIsOfAlive, OkIsEarned, LeftBehind, SaysRunning,
     Busy, Ended
<1>12. CASE Settles(s)
  BY <1>0, <1>12 DEF Settles, Ends, processes, tasks, Alive, IInv, TypeOK, OneBot,
     WorkingBotIsRecorded, OneScript, AliveIsListed, RestIsKilled, StartedIsOne,
     NothingBeforeFork, FileIsOfAlive, OkIsEarned, LeftBehind, SaysRunning,
     Busy, Ended
<1>13. CASE ScriptDies(s)
  BY <1>0, <1>13 DEF ScriptDies, Ends, processes, files, tasks, Alive, IInv,
     TypeOK, OneBot, WorkingBotIsRecorded, OneScript, AliveIsListed, RestIsKilled,
     StartedIsOne, NothingBeforeFork, FileIsOfAlive, OkIsEarned, LeftBehind, SaysRunning,
     Busy, Ended
<1>14. CASE ChecksFile(s)
  BY <1>0, <1>14 DEF ChecksFile, Step, processes, files, tasks, Alive, IInv, TypeOK, OneBot,
     WorkingBotIsRecorded, OneScript, AliveIsListed, RestIsKilled, StartedIsOne,
     NothingBeforeFork, FileIsOfAlive, OkIsEarned, LeftBehind, SaysRunning,
     Busy, Ended
<1>15. CASE RemovesFile(s)
  BY <1>0, <1>15 DEF RemovesFile, Step, processes, tasks, Alive, IInv, TypeOK, OneBot,
     WorkingBotIsRecorded, OneScript, AliveIsListed, RestIsKilled, StartedIsOne,
     NothingBeforeFork, FileIsOfAlive, OkIsEarned, LeftBehind, SaysRunning,
     Busy, Ended
<1> QED
  BY <1>1, <1>2, <1>3, <1>4, <1>5, <1>6, <1>7, <1>8, <1>9, <1>10, <1>11,
     <1>12, <1>13, <1>14, <1>15 DEF ScriptStep

LEMMA HealthAgesIInv ==
    ASSUME IInv, TypeOK', HealthAges
    PROVE  IInv'
<1>1. UNCHANGED <<processes, scripts, pidFile, health>>
  BY DEF HealthAges
<1>2. UNCHANGED <<bot, shutdown, reporter, child, script, targets, signalled, killed>>
  BY <1>1 DEF processes, scripts, tasks
<1>3. Alive' = Alive /\ (SaysRunning' <=> SaysRunning)
  BY <1>1, <1>2 DEF Alive, SaysRunning, Ended
<1>4. OneBot' /\ WorkingBotIsRecorded' /\ OkIsEarned'
  BY <1>1, <1>2, <1>3 DEF IInv, OneBot, WorkingBotIsRecorded, OkIsEarned, LeftBehind
<1>5. OneScript' /\ AliveIsListed' /\ RestIsKilled'
  BY <1>1, <1>2, <1>3 DEF IInv, OneScript, AliveIsListed, RestIsKilled, Busy, Ended
<1>6. StartedIsOne' /\ NothingBeforeFork' /\ FileIsOfAlive'
  BY <1>1, <1>2, <1>3 DEF IInv, StartedIsOne, NothingBeforeFork, FileIsOfAlive
<1> QED
  BY <1>4, <1>5, <1>6 DEF IInv

\* The launcher starts its bot while no bot lives and no restart runs.
LEMMA LauncherStartsIInv ==
    ASSUME IInv, TypeOK', LauncherStarts
    PROVE  IInv'
<1>1. /\ Alive = {} /\ \A s \in Script : ~Busy(s)
      /\ UNCHANGED <<shutdown, event, reporter, signalled, killed, script, targets,
                     pidFile, health>>
  BY DEF LauncherStarts, tasks, files
<1>2. PICK b \in Bot : bot[b] = "none" /\ bot' = [bot EXCEPT ![b] = "boot"] /\ child' = b
  BY DEF LauncherStarts, StartsBot
<1>3. Alive' = {b} /\ bot'[b] = "boot"
  BY <1>1, <1>2 DEF Alive, IInv, TypeOK
<1>4. OneBot' /\ FileIsOfAlive'
  BY <1>1, <1>2, <1>3 DEF OneBot, FileIsOfAlive, Busy, Ended
<1>5. WorkingBotIsRecorded'
  BY <1>1, <1>2 DEF WorkingBotIsRecorded, Alive, IInv, TypeOK
<1>6. OneScript' /\ AliveIsListed' /\ RestIsKilled' /\ StartedIsOne' /\ NothingBeforeFork'
  BY <1>1 DEF OneScript, AliveIsListed, RestIsKilled, StartedIsOne, NothingBeforeFork,
     Busy, Ended
<1>7. OkIsEarned'
  BY <1>1, <1>2, <1>3 DEF IInv, TypeOK, OkIsEarned, LeftBehind, Alive
<1> QED
  BY <1>4, <1>5, <1>6, <1>7 DEF IInv

LEMMA NextIInv ==
    ASSUME ~Overlap
    PROVE  IInv /\ [Next]_botVars => IInv'
<1> SUFFICES ASSUME IInv, [Next]_botVars PROVE IInv'
  OBVIOUS
<1>0. TypeOK'
  BY NextTypeOK DEF IInv
<1>1. ASSUME NEW b \in Bot, BotStep(b)
      PROVE  IInv'
  BY <1>0, <1>1, BotStepIInv
<1>2. ASSUME NEW s \in Script, Begins(s) \/ ScriptStep(s) \/ ScriptDies(s)
      PROVE  IInv'
  BY <1>0, <1>2, ScriptStepIInv
<1> USE BotAssumption
    DEF IInv, TypeOK, OneBot, WorkingBotIsRecorded, OneScript, AliveIsListed, RestIsKilled,
        StartedIsOne, NothingBeforeFork, FileIsOfAlive, OkIsEarned, LeftBehind,
        SaysRunning, Busy, Ended, Alive
<1>3. CASE LauncherStops
  BY <1>3 DEF LauncherStops, tasks, files
<1>4. CASE LauncherKills
  BY <1>4 DEF LauncherKills, tasks, files
<1>5. CASE LauncherEnds
  BY <1>5 DEF LauncherEnds, processes, files, tasks
<1>6. CASE HealthAges
  BY <1>0, <1>6, HealthAgesIInv
<1>7. CASE LauncherStarts
  BY <1>0, <1>7, LauncherStartsIInv
<1>8. CASE UNCHANGED botVars
  BY <1>8 DEF botVars, processes, tasks, scripts, files
<1> QED
  BY <1>1, <1>2, <1>3, <1>4, <1>5, <1>6, <1>7, <1>8 DEF Next
-----------------------------------------------------------------------------
\* Every reachable state is well typed, even when restarts overlap.
THEOREM TypeCorrect == Spec => []TypeOK
<1>1. Init => TypeOK
  BY InitIInv DEF IInv
<1> QED
  BY <1>1, NextTypeOK, PTL DEF Spec

THEOREM Safety ==
    ASSUME ~Overlap
    PROVE  Spec => []IInv
BY InitIInv, NextIInv, PTL DEF Spec

\* As long as one restart follows the other, there are never two bots, whatever
\* crashes, is killed or outlasts its timeout in between.
THEOREM NeverTwoBots ==
    ASSUME ~Overlap
    PROVE  Spec => []OneBot
<1>1. IInv => OneBot
  BY DEF IInv
<1> QED
  BY <1>1, Safety, PTL

\* The PID file names the bot that works: every write and removal by a script, a
\* bot on its way out or a failed start leaves its entry alone.
THEOREM RecordedBot ==
    ASSUME ~Overlap
    PROVE  Spec => []WorkingBotIsRecorded
<1>1. IInv => WorkingBotIsRecorded
  BY DEF IInv
<1> QED
  BY <1>1, Safety, PTL

\* One ERROR of a core component is the answer of GET /health.
LEMMA BotErrorIsAnswered ==
    ASSUME NEW x, Answers(x) # {"ERROR"}
    PROVE  x # "ERROR"
<1>1. SUFFICES ASSUME x = "ERROR" PROVE Answers(x) = {"ERROR"}
  OBVIOUS
<1> DEFINE checks(p, d, o) ==
        [api |-> p, database |-> d, telegram_bot |-> "ERROR", opencode |-> o]
<1>2. ASSUME NEW p, NEW d, NEW o
      PROVE  AggregateSystemStatus(checks(p, d, o)) = "ERROR"
  <2>1. DOMAIN checks(p, d, o) = {"api", "database", "telegram_bot", "opencode"}
    OBVIOUS
  <2>2. checks(p, d, o)["telegram_bot"] = "ERROR"
    OBVIOUS
  <2> HIDE DEF checks
  <2>3. "ERROR" \in {checks(p, d, o)[c] : c \in DOMAIN checks(p, d, o) \ OptionalComponents}
    BY <2>1, <2>2 DEF OptionalComponents
  <2> QED
    BY <2>1, <2>3 DEF AggregateSystemStatus
<1> DEFINE Api == {"200", "5xx"} \cup ProbeErrors
           Open == {"2xx", "4xx"} \cup ProbeErrors
           answer(p, d, e, o) == AggregateSystemStatus(
               [api |-> ApiHealth(p), database |-> DatabaseHealth(d),
                telegram_bot |-> x, opencode |-> OpenCodeHealth(OpenCodeState(e, o))])
<1>3. Answers(x) = {answer(p, d, e, o) : p \in Api, d \in BOOLEAN, e \in BOOLEAN, o \in Open}
  BY DEF Answers
<1>4. \A p, d, e, o : answer(p, d, e, o) = "ERROR"
  BY <1>1, <1>2
<1>5. "200" \in Api /\ "2xx" \in Open
  OBVIOUS
<1> HIDE DEF answer, Api, Open
<1>6. "ERROR" \in Answers(x)
  <2>1. answer("200", TRUE, TRUE, "2xx") \in Answers(x)
    <3>1. ASSUME NEW p \in Api, NEW d \in BOOLEAN, NEW e \in BOOLEAN, NEW o \in Open
          PROVE  answer(p, d, e, o) \in Answers(x)
      BY <1>3
    <3>2. TRUE \in BOOLEAN
      OBVIOUS
    <3> QED
      BY <3>1, <3>2, <1>5
  <2> QED
    BY <2>1, <1>4
<1>7. Answers(x) \subseteq {"ERROR"}
  BY <1>3, <1>4
<1> QED
  BY <1>6, <1>7

\* What GET /health says of the bot is earned, however the reporter, a shutdown,
\* a crash and a restart interleave.
THEOREM EarnedHealth ==
    ASSUME ~Overlap
    PROVE  Spec => []HealthIsEarned
<1>1. IInv => HealthIsEarned
  <2> SUFFICES ASSUME IInv, Answers(BotHealthcheck) # {"ERROR"}
               PROVE  \/ health.pid \in Bot /\ bot[health.pid] \in {"connect", "wait"}
                      \/ /\ LeftBehind(health.pid)
                         /\ \A b \in Alive : b = child /\ bot[b] = "boot"
    BY DEF HealthIsEarned
  <2>1. BotHealthcheck # "ERROR"
    BY BotErrorIsAnswered
  <2>2. health.status \in {"none", "starting", "ok", "not_ok"} /\ fresh \in BOOLEAN
    BY DEF IInv, TypeOK
  <2>3. health.status = "ok"
    BY <2>1, <2>2 DEF BotHealthcheck, TelegramBotHealth
  <2> QED
    BY <2>3 DEF IInv, OkIsEarned
<1> QED
  BY <1>1, Safety, PTL
=============================================================================
