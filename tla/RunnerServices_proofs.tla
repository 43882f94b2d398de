------------------------ MODULE RunnerServices_proofs ------------------------
(***************************************************************************)
(* Proofs about the services of the runner, which share no state: its      *)
(* lifecycle with the watchdog, the event stream, the adoption of commits, *)
(* the inspection of a worktree and the retry policy; for any number of    *)
(* signals, pings, events, runners and files, and for ages of any size.    *)
(***************************************************************************)
EXTENDS RunnerLifecycle, MCRunnerServices, FiniteSetTheorems, TLAPS

-----------------------------------------------------------------------------
(* The lifecycle of a runner.  The watchdog is taken from "watching" to    *)
(* "closed" by one call of stop, whoever makes it: the one that has reset  *)
(* the flag.  The others do not wait, but asyncio.run waits for the tasks. *)

NothingBeforeStart ==
    main = "start" =>
        /\ loop = "none" /\ client = "none" /\ ~watching
        /\ \A s \in Stopper : stop[s] = "none"

\* Exactly one call of stop takes over from the flag.
OneJoiner ==
    /\ \A s, q \in Stopper : stop[s] = "join" /\ stop[q] = "join" => s = q
    /\ \A s \in Stopper : stop[s] = "join" => ~watching
    /\ \A s \in Stopper : stop[s] = "aclose" => loop = "done"

ClientIsOwned ==
    /\ loop \in {"new", "sleep", "post"} => client = "open"
    /\ client = "open" => watching \/ \E s \in Stopper : stop[s] = "join"

Closing ==
    /\ main \in {"start", "sleep"} => stop[Main] = "none"
    /\ main \in {"stopping", "closing", "exited"} => ~watching
    /\ main \in {"closing", "exited"} => stop[Main] = "done"
    /\ main = "exited" =>
          /\ \A s \in Signal : ~Pending(s)
          /\ loop \in {"none", "done"}

\* LifecycleTypeOK but for the counter.
TasksTypeOK ==
    /\ enabled \in BOOLEAN /\ running \in BOOLEAN /\ watching \in BOOLEAN
    /\ main \in {"start", "sleep", "stopping", "closing", "exited"}
    /\ loop \in {"none", "new", "sleep", "post", "done"}
    /\ client \in {"none", "open", "closing", "closed"}
    /\ stop \in [Stopper -> {"none", "new", "join", "aclose", "done", "cut"}]
    /\ cancelled \in SUBSET Signal
    /\ active \in BOOLEAN /\ idle \in BOOLEAN

\* A ping under way is one of those allowed.
PingsAreCounted ==
    /\ continues \in 0..MaxContinues
    /\ loop = "post" => continues < MaxContinues

LifecycleIInv ==
    /\ TasksTypeOK
    /\ NothingBeforeStart
    /\ OneJoiner
    /\ ClientIsOwned
    /\ Closing

LEMMA LifecycleInitIInv == LifecycleInit => LifecycleIInv
BY LifecycleAssumption
DEF LifecycleInit, LifecycleIInv, TasksTypeOK, NothingBeforeStart, OneJoiner,
    ClientIsOwned, Closing, Stopper

\* The main coroutine stops the runner.
LEMMA MainStops ==
    ASSUME LifecycleIInv, main = "sleep", main' = "stopping", BeginStop(Main),
           UNCHANGED <<enabled, cancelled, loop, client, active, idle>>
    PROVE  LifecycleIInv'
<1> USE LifecycleAssumption
    DEF LifecycleIInv, TasksTypeOK, NothingBeforeStart, OneJoiner, ClientIsOwned, Closing,
        BeginStop
<1>1. Main \in Stopper
  BY DEF Stopper
<1>2. CASE watching
  BY <1>1, <1>2
<1>3. CASE ~watching
  BY <1>1, <1>3
<1> QED
  BY <1>2, <1>3

LEMMA LifecycleNextIInv ==
    LifecycleIInv /\ [LifecycleNext]_lifecycleVars => LifecycleIInv'
<1> SUFFICES ASSUME LifecycleIInv, [LifecycleNext]_lifecycleVars
             PROVE  LifecycleIInv'
  OBVIOUS
<1> USE LifecycleAssumption
    DEF LifecycleIInv, TasksTypeOK, NothingBeforeStart, OneJoiner, ClientIsOwned,
        Closing, Stopper, Pending
<1>1. CASE Start
  <2>1. /\ main = "start" /\ loop = "none" /\ client = "none" /\ ~watching
        /\ \A s \in Stopper : stop[s] = "none"
        /\ Main \in Stopper
        /\ UNCHANGED <<enabled, cancelled>>
    BY <1>1 DEF Start
  <2>2. CASE enabled
    <3>1. loop' = "new" /\ client' = "open"
      BY <1>1, <2>2 DEF Start, StartWatchdog
    <3>2. CASE /\ main' = "sleep" /\ running' = TRUE /\ watching' = enabled
               /\ PollCycle /\ UNCHANGED stop
      BY <2>1, <2>2, <3>1, <3>2 DEF PollCycle
    <3>3. CASE /\ main' = "stopping" /\ stop' = [stop EXCEPT ![Main] = "join"]
               /\ UNCHANGED <<running, watching, active, idle>>
      BY <2>1, <3>1, <3>3
    <3> QED
      BY <1>1, <2>2, <3>2, <3>3 DEF Start
  <2>3. CASE ~enabled
    <3>1. UNCHANGED <<loop, client>>
      BY <1>1, <2>3 DEF Start, StartWatchdog
    <3>2. CASE /\ main' = "sleep" /\ running' = TRUE /\ watching' = enabled
               /\ PollCycle /\ UNCHANGED stop
      BY <2>1, <2>3, <3>1, <3>2 DEF PollCycle
    <3>3. CASE /\ main' = "stopping" /\ stop' = [stop EXCEPT ![Main] = "done"]
               /\ UNCHANGED <<running, watching, active, idle>>
      BY <2>1, <3>1, <3>3
    <3> QED
      BY <1>1, <2>3, <3>2, <3>3 DEF Start
  <2> QED
    BY <2>2, <2>3
<1>2. CASE Polls
  BY <1>2 DEF Polls, PollCycle, runner, watchdog
<1>3. CASE Leaves
  BY <1>3, MainStops DEF Leaves, session
<1>4. CASE Breaks
  BY <1>4, MainStops DEF Breaks, session
<1>5. ASSUME NEW s \in Stopper, SignalArrives(s)
      PROVE  LifecycleIInv'
  BY <1>5 DEF SignalArrives, watchdog, session
<1>6. ASSUME NEW s \in Stopper, StopBegins(s)
      PROVE  LifecycleIInv'
  <2>1. /\ stop[s] = "new" /\ stop' = [stop EXCEPT ![s] = IF watching THEN "join" ELSE "done"]
        /\ running' = FALSE /\ watching' = FALSE
        /\ UNCHANGED <<enabled, main, cancelled, loop, client, active, idle>>
    BY <1>6 DEF StopBegins, BeginStop, session
  <2>2. /\ stop'[s] = IF watching THEN "join" ELSE "done"
        /\ \A q \in Stopper \ {s} : stop'[q] = stop[q]
    BY <2>1
  <2>3. TasksTypeOK' /\ NothingBeforeStart'
    BY <2>1
  <2>4. OneJoiner' /\ ClientIsOwned'
    BY <2>1, <2>2
  <2>5. Closing'
    BY <2>1, <2>2
  <2> QED
    BY <2>3, <2>4, <2>5
<1>7. ASSUME NEW s \in Stopper, Joins(s)
      PROVE  LifecycleIInv'
  BY <1>7 DEF Joins, session
<1>8. ASSUME NEW s \in Stopper, Closes(s)
      PROVE  LifecycleIInv'
  BY <1>8 DEF Closes, session
<1>9. ASSUME NEW s \in Stopper, CutShort(s)
      PROVE  LifecycleIInv'
  BY <1>9 DEF CutShort, watchdog, session
<1>10. CASE Returns
  BY <1>10 DEF Returns, watchdog, session
<1>11. CASE Exits
  BY <1>11 DEF Exits, watchdog, session
<1>12. CASE LoopBegins
  BY <1>12 DEF LoopBegins, runner, session
<1>13. CASE SendsPing
  BY <1>13 DEF SendsPing, runner, session
<1>14. CASE PingSucceeds
  BY <1>14 DEF PingSucceeds, runner
<1>15. CASE PingFails
  BY <1>15 DEF PingFails, runner, session
<1>16. CASE LoopIsCancelled
  BY <1>16 DEF LoopIsCancelled, runner, session
<1>17. CASE TimePasses
  BY <1>17 DEF TimePasses, runner, watchdog
<1>18. CASE UNCHANGED lifecycleVars
  BY <1>18 DEF lifecycleVars, runner, watchdog, session
<1> QED
  BY <1>1, <1>2, <1>3, <1>4, <1>5, <1>6, <1>7, <1>8, <1>9, <1>10, <1>11, <1>12,
     <1>13, <1>14, <1>15, <1>16, <1>17, <1>18
  DEF LifecycleNext, MainStep, StopStep, LoopStep

LEMMA NextPings == PingsAreCounted /\ [LifecycleNext]_lifecycleVars => PingsAreCounted'
<1> SUFFICES ASSUME PingsAreCounted, [LifecycleNext]_lifecycleVars
             PROVE  PingsAreCounted'
  OBVIOUS
<1> USE LifecycleAssumption DEF PingsAreCounted
<1>1. CASE SendsPing
  BY <1>1 DEF SendsPing, ShouldSendPing, session
<1>2. CASE PingSucceeds
  BY <1>2 DEF PingSucceeds
<1>3. CASE UNCHANGED continues /\ loop' # "post"
  BY <1>3
<1>4. CASE UNCHANGED <<continues, loop>>
  BY <1>4
<1>5. CASE Start
  BY <1>3, <1>4, <1>5 DEF Start, StartWatchdog
<1>6. CASE Polls \/ Leaves \/ Breaks \/ Returns \/ Exits \/ TimePasses
  BY <1>4, <1>6 DEF Polls, Leaves, Breaks, Returns, Exits, TimePasses, watchdog, session
<1>7. ASSUME NEW s \in Stopper, SignalArrives(s) \/ StopStep(s)
      PROVE  PingsAreCounted'
  BY <1>4, <1>7
  DEF SignalArrives, StopStep, StopBegins, Joins, Closes, CutShort, watchdog, session
<1>8. CASE LoopBegins \/ PingFails \/ LoopIsCancelled
  BY <1>3, <1>8 DEF LoopBegins, PingFails, LoopIsCancelled, session
<1>9. CASE UNCHANGED lifecycleVars
  BY <1>4, <1>9 DEF lifecycleVars, watchdog, session
<1> QED
  BY <1>1, <1>2, <1>5, <1>6, <1>7, <1>8, <1>9 DEF LifecycleNext, MainStep, LoopStep

THEOREM LifecycleSafety == LifecycleSpec => []LifecycleIInv
BY LifecycleInitIInv, LifecycleNextIInv, PTL DEF LifecycleSpec

\* Every reachable state of a runner is well typed, and no more pings succeed than
\* watchdog_max_continues.
THEOREM LifecycleTypes == LifecycleSpec => []LifecycleTypeOK
<1>1. LifecycleInit => PingsAreCounted
  <2>1. LifecycleInit => continues = 0 /\ loop = "none"
    BY DEF LifecycleInit
  <2> QED
    BY <2>1, LifecycleAssumption DEF PingsAreCounted
<1>2. LifecycleIInv /\ PingsAreCounted => LifecycleTypeOK
  BY DEF LifecycleIInv, TasksTypeOK, PingsAreCounted, LifecycleTypeOK
<1> QED
  BY <1>1, <1>2, NextPings, LifecycleSafety, PTL DEF LifecycleSpec

\* No ping goes through a client that is being closed, however many calls of stop
\* interleave with the loop.
THEOREM PingsAreSentThroughTheClient == LifecycleSpec => []PingsHaveAClient
<1>1. LifecycleIInv => PingsHaveAClient
  BY DEF LifecycleIInv, ClientIsOwned, PingsHaveAClient
<1> QED
  BY <1>1, LifecycleSafety, PTL

\* The process ends with the loop ended and the client closed or closing.
THEOREM NothingIsLeft == LifecycleSpec => []ExitLeavesNothing
<1>1. LifecycleIInv => ExitLeavesNothing
  BY LifecycleAssumption
  DEF LifecycleIInv, TasksTypeOK, ClientIsOwned, Closing, Pending, Stopper,
      ExitLeavesNothing
<1> QED
  BY <1>1, LifecycleSafety, PTL
-----------------------------------------------------------------------------
(* The event stream.  What is remembered comes from the log, so the memory *)
(* is not emptied while the ids of the log fit into it.                    *)

Ids == {log[i].id : i \in DOMAIN log} \ {NoId}
Fits == Cardinality(Ids) <= CacheSize

EventsAreKnown ==
    /\ eventIds \subseteq Ids
    /\ Fits => \A i \in DOMAIN out :
          log[out[i].index].id # NoId => log[out[i].index].id \in eventIds

\* NothingTwice, position by position.
YieldedOnce ==
    Fits => \A i, j \in DOMAIN out :
        i # j /\ out[i].index = out[j].index => log[out[i].index].id = NoId

Numbered == NumberedWithoutGaps /\ sequence = Len(out)

StreamIInv ==
    /\ StreamTypeOK
    /\ IsFiniteSet(Ids)
    /\ EventsAreKnown
    /\ YieldedOnce
    /\ Numbered
    /\ TerminalIsOfThisStream

LEMMA StreamInitIInv == StreamInit => StreamIInv
<1> SUFFICES ASSUME StreamInit PROVE StreamIInv
  OBVIOUS
<1>1. /\ log = <<>> /\ out = <<>> /\ eventIds = {} /\ received = {} /\ sequence = 0
      /\ connection = "closed" /\ pos = 0 /\ connections = 0 /\ terminal = FALSE
  BY DEF StreamInit
<1>2. Ids = {}
  BY <1>1 DEF Ids
<1>3. IsFiniteSet({}) /\ Cardinality({}) = 0
  BY FS_EmptySet
<1>4. StreamTypeOK
  <2>1. log \in Seq(Events) /\ out \in Seq([index : Nat, seq : Nat])
    BY <1>1
  <2>2. Len(log) = 0 /\ DOMAIN out = {} /\ DOMAIN log = {}
    BY <1>1
  <2>3. pos \in 0..Len(log) /\ connections \in Nat /\ sequence \in Nat
    BY <1>1, <2>2
  <2>4. eventIds \subseteq Message /\ Cardinality(eventIds) <= CacheSize
    BY <1>1, <1>3, StreamAssumption
  <2>5. terminal \in BOOLEAN
    BY <1>1
  <2>6. received \subseteq DOMAIN log /\ \A i \in DOMAIN out : out[i].index \in received
    BY <1>1, <2>2
  <2> QED
    BY <1>1, <2>1, <2>3, <2>4, <2>5, <2>6 DEF StreamTypeOK
<1>5. EventsAreKnown /\ YieldedOnce /\ Numbered
  BY <1>1, <1>2 DEF EventsAreKnown, YieldedOnce, Numbered, NumberedWithoutGaps
<1>6. TerminalIsOfThisStream
  BY <1>1 DEF TerminalIsOfThisStream
<1> QED
  BY <1>2, <1>3, <1>4, <1>5, <1>6 DEF StreamIInv

\* What is sent is new to the log; everything said of it before stays true.
LEMMA SendIInv ==
    ASSUME StreamIInv, NEW event \in Events, Send(event)
    PROVE  StreamIInv'
<1>1. /\ log \in Seq(Events) /\ Len(log) \in Nat /\ log' = Append(log, event)
      /\ UNCHANGED <<connection, pos, connections, eventIds, terminal, sequence, received, out>>
  BY DEF Send, StreamIInv, StreamTypeOK, handler
<1>2. /\ log' \in Seq(Events) /\ DOMAIN log = 1..Len(log) /\ Len(log') = Len(log) + 1
      /\ DOMAIN log' = 1..(Len(log) + 1)
      /\ \A i \in DOMAIN log : log'[i] = log[i]
      /\ log'[Len(log) + 1] = event
  BY <1>1
<1>3. Ids' \subseteq Ids \cup {event.id} /\ Ids \subseteq Ids'
  BY <1>1, <1>2 DEF Ids
<1>4. IsFiniteSet(Ids') /\ Cardinality(Ids) <= Cardinality(Ids')
  <2>1. IsFiniteSet(Ids)
    BY DEF StreamIInv
  <2>2. IsFiniteSet(Ids \cup {event.id})
    BY <2>1, FS_AddElement
  <2>3. IsFiniteSet(Ids')
    BY <2>2, <1>3, FS_Subset
  <2> QED
    BY <2>3, <1>3, FS_Subset
<1>5. Fits' => Fits
  <2>1. Cardinality(Ids) \in Nat /\ Cardinality(Ids') \in Nat
    BY <1>4, FS_CardinalityType DEF StreamIInv
  <2> QED
    BY <2>1, <1>4, StreamAssumption DEF Fits
<1>6. \A i \in received : i \in DOMAIN log /\ log'[i] = log[i]
  BY <1>2 DEF StreamIInv, StreamTypeOK
<1>7. \A i \in DOMAIN out : log'[out[i].index] = log[out[i].index]
  BY <1>6 DEF StreamIInv, StreamTypeOK
<1>8. StreamTypeOK'
  BY <1>1, <1>2 DEF StreamIInv, StreamTypeOK
<1>9. EventsAreKnown' /\ YieldedOnce'
  BY <1>1, <1>3, <1>5, <1>7 DEF StreamIInv, EventsAreKnown, YieldedOnce
<1>10. Numbered'
  BY <1>1 DEF StreamIInv, Numbered, NumberedWithoutGaps
<1>11. TerminalIsOfThisStream'
  BY <1>1, <1>6 DEF StreamIInv, TerminalIsOfThisStream
<1> QED
  BY <1>4, <1>8, <1>9, <1>10, <1>11 DEF StreamIInv

\* What is remembered after an event is no more than its id.
LEMMA Remembered ==
    ASSUME StreamIInv, NEW event \in Events, Remember(event),
           event.id # NoId => event.id \in Ids
    PROVE  /\ eventIds' \subseteq Ids
           /\ eventIds' \subseteq Message /\ Cardinality(eventIds') <= CacheSize
           /\ Fits => eventIds' = eventIds \cup ({event.id} \ {NoId})
<1> DEFINE ids == eventIds \cup ({event.id} \ {NoId})
<1>1. eventIds' = IF Cardinality(ids) > CacheSize THEN {} ELSE ids
  BY DEF Remember
<1>2. ids \subseteq Ids
  BY DEF StreamIInv, EventsAreKnown
<1>3. IsFiniteSet(Ids) /\ IsFiniteSet(ids) /\ Cardinality(ids) <= Cardinality(Ids)
  BY <1>2, FS_Subset DEF StreamIInv
<1>4. Cardinality(ids) \in Nat /\ Cardinality(Ids) \in Nat /\ CacheSize \in Nat
  BY <1>3, FS_CardinalityType, StreamAssumption
<1>5. Ids \subseteq Message
  BY DEF Ids, StreamIInv, StreamTypeOK, Events
<1> HIDE DEF ids
<1>6. CASE Cardinality(ids) > CacheSize
  BY <1>1, <1>3, <1>4, <1>6, FS_EmptySet DEF Fits
<1>7. CASE ~(Cardinality(ids) > CacheSize)
  <2>1. eventIds' = ids /\ Cardinality(ids) <= CacheSize
    BY <1>1, <1>4, <1>7
  <2> QED
    BY <1>2, <1>5, <2>1 DEF ids
<1> QED
  BY <1>6, <1>7

LEMMA ReceiveIInv ==
    ASSUME StreamIInv, Receive
    PROVE  StreamIInv'
<1> DEFINE event == log[pos']
<1>1. /\ pos' = pos + 1 /\ received' = received \cup {pos'}
      /\ terminal' = (terminal \/ IsTerminal(event))
      /\ UNCHANGED <<log, connection, connections>>
  BY DEF Receive
<1>2. /\ log \in Seq(Events) /\ DOMAIN log = 1..Len(log) /\ Len(log) \in Nat
      /\ pos' \in 0..Len(log) /\ pos' \in DOMAIN log /\ event \in Events
      /\ received \subseteq DOMAIN log
  BY DEF Receive, StreamIInv, StreamTypeOK
<1>3. Ids' = Ids /\ (Fits' <=> Fits) /\ IsFiniteSet(Ids')
  BY <1>1 DEF Ids, Fits, StreamIInv
<1>4. event.id # NoId => event.id \in Ids
  BY <1>2 DEF Ids
<1>5. TerminalIsOfThisStream'
  BY <1>1 DEF StreamIInv, TerminalIsOfThisStream
<1> HIDE DEF event
<1>6. CASE IsDuplicate(event) /\ UNCHANGED <<eventIds, sequence, out>>
  <2>1. StreamTypeOK'
    BY <1>1, <1>2, <1>6 DEF StreamIInv, StreamTypeOK
  <2>2. EventsAreKnown' /\ YieldedOnce' /\ Numbered'
    BY <1>1, <1>3, <1>6
    DEF StreamIInv, EventsAreKnown, YieldedOnce, Numbered, NumberedWithoutGaps
  <2> QED
    BY <1>3, <1>5, <2>1, <2>2 DEF StreamIInv
<1>7. CASE /\ ~IsDuplicate(event)
           /\ Remember(event)
           /\ out' = Append(out, [index |-> pos', seq |-> sequence])
           /\ sequence' = sequence + 1
  <2>1. /\ eventIds' \subseteq Ids
        /\ eventIds' \subseteq Message /\ Cardinality(eventIds') <= CacheSize
        /\ Fits => eventIds' = eventIds \cup ({event.id} \ {NoId})
    BY <1>2, <1>4, <1>7, Remembered
  <2>2. /\ out \in Seq([index : Nat, seq : Nat]) /\ Len(out) \in Nat
        /\ DOMAIN out = 1..Len(out) /\ sequence = Len(out)
        /\ \A i \in DOMAIN out : out[i].index \in received /\ out[i].seq = i - 1
    BY DEF StreamIInv, StreamTypeOK, Numbered, NumberedWithoutGaps
  <2>3. /\ out' \in Seq([index : Nat, seq : Nat]) /\ Len(out') = Len(out) + 1
        /\ DOMAIN out' = 1..(Len(out) + 1)
        /\ \A i \in DOMAIN out : out'[i] = out[i]
        /\ out'[Len(out) + 1].index = pos' /\ out'[Len(out) + 1].seq = sequence
    BY <1>2, <1>7, <2>2
  <2>4. \A i \in DOMAIN out' : i \in DOMAIN out \/ i = Len(out) + 1
    BY <2>2, <2>3
  <2>5. StreamTypeOK'
    <3>1. \A i \in DOMAIN out' : out'[i].index \in received'
      BY <1>1, <2>2, <2>3, <2>4
    <3>2. sequence' \in Nat
      BY <1>7, <2>2
    <3>3. terminal' \in BOOLEAN
      BY <1>1 DEF StreamIInv, StreamTypeOK, IsTerminal
    <3> QED
      BY <1>1, <1>2, <2>1, <2>3, <3>1, <3>2, <3>3 DEF StreamIInv, StreamTypeOK
  <2>6. Numbered'
    BY <1>7, <2>2, <2>3, <2>4 DEF Numbered, NumberedWithoutGaps
  <2>7. EventsAreKnown'
    BY <1>1, <1>3, <2>1, <2>2, <2>3, <2>4 DEF StreamIInv, EventsAreKnown, event
  <2>8. YieldedOnce'
    <3>1. SUFFICES ASSUME Fits, NEW i \in DOMAIN out', NEW j \in DOMAIN out', i # j,
                          out'[i].index = out'[j].index
                   PROVE  log[out'[i].index].id = NoId
      BY <1>1, <1>3 DEF YieldedOnce
    <3>2. \A k \in DOMAIN out : log[out[k].index].id # NoId => log[out[k].index].id # event.id
      BY <1>7, <3>1 DEF StreamIInv, EventsAreKnown, IsDuplicate
    <3>3. CASE i \in DOMAIN out /\ j \in DOMAIN out
      BY <2>3, <3>1, <3>3 DEF StreamIInv, YieldedOnce
    <3>4. CASE i = Len(out) + 1
      <4>1. j \in DOMAIN out /\ out[j].index = pos' /\ out'[i].index = pos'
        BY <2>3, <2>4, <3>1, <3>4
      <4> QED
        BY <3>2, <4>1 DEF event
    <3>5. CASE j = Len(out) + 1
      <4>1. i \in DOMAIN out /\ out[i].index = pos' /\ out'[i].index = pos'
        BY <2>3, <2>4, <3>1, <3>5
      <4> QED
        BY <3>2, <4>1 DEF event
    <3> QED
      BY <2>4, <3>3, <3>4, <3>5
  <2> QED
    BY <1>3, <1>5, <2>5, <2>6, <2>7, <2>8 DEF StreamIInv
<1> QED
  BY <1>6, <1>7 DEF Receive, event

LEMMA StreamNextIInv == StreamIInv /\ [StreamNext]_streamVars => StreamIInv'
<1> SUFFICES ASSUME StreamIInv, [StreamNext]_streamVars PROVE StreamIInv'
  OBVIOUS
<1>1. CASE Connect
  BY <1>1 DEF Connect, handler, StreamIInv, StreamTypeOK, EventsAreKnown, YieldedOnce, Numbered,
     NumberedWithoutGaps, TerminalIsOfThisStream, Ids, Fits
<1>2. CASE Disconnect
  BY <1>2 DEF Disconnect, handler, StreamIInv, StreamTypeOK, EventsAreKnown, YieldedOnce, Numbered,
     NumberedWithoutGaps, TerminalIsOfThisStream, Ids, Fits
<1>3. CASE ResetSequence
  <2>1. Cardinality({}) = 0 /\ CacheSize \in Nat
    BY FS_EmptySet, StreamAssumption
  <2>2. /\ UNCHANGED <<log, connection, pos, connections>>
        /\ eventIds' = {} /\ received' = {} /\ out' = <<>> /\ sequence' = 0
        /\ terminal' = FALSE
    BY <1>3 DEF ResetSequence
  <2>3. out' \in Seq([index : Nat, seq : Nat]) /\ DOMAIN out' = {} /\ Len(out') = 0
    BY <2>2
  <2>4. Cardinality(eventIds') <= CacheSize
    BY <2>1, <2>2
  <2>5. terminal' \in BOOLEAN
    BY <2>2
  <2>6. \A i \in DOMAIN out' : out'[i].index \in received'
    BY <2>3
  <2>7. StreamTypeOK'
    BY <2>2, <2>3, <2>4, <2>5, <2>6 DEF StreamIInv, StreamTypeOK
  <2>8. IsFiniteSet(Ids')
    BY <2>2 DEF StreamIInv, Ids
  <2>9. EventsAreKnown' /\ YieldedOnce' /\ NumberedWithoutGaps'
    BY <2>2, <2>3 DEF EventsAreKnown, YieldedOnce, NumberedWithoutGaps
  <2>10. TerminalIsOfThisStream'
    BY <2>2 DEF TerminalIsOfThisStream
  <2> QED
    BY <2>2, <2>3, <2>7, <2>8, <2>9, <2>10 DEF StreamIInv, Numbered
<1>4. CASE UNCHANGED streamVars
  BY <1>4 DEF streamVars, handler, StreamIInv, StreamTypeOK, EventsAreKnown, YieldedOnce, Numbered,
     NumberedWithoutGaps, TerminalIsOfThisStream, Ids, Fits
<1> QED
  BY <1>1, <1>2, <1>3, <1>4, SendIInv, ReceiveIInv DEF StreamNext

THEOREM StreamSafety == StreamSpec => []StreamIInv
BY StreamInitIInv, StreamNextIInv, PTL DEF StreamSpec

\* Every reachable state of an event stream is well typed, and the memory for ids
\* never exceeds its size.
THEOREM StreamTypes == StreamSpec => []StreamTypeOK
<1>1. StreamIInv => StreamTypeOK
  BY DEF StreamIInv
<1> QED
  BY <1>1, StreamSafety, PTL

\* However often the connection breaks and events are replayed, none of a message
\* is yielded twice, as long as the ids fit into the memory.
THEOREM NoReplayIsYielded == StreamSpec => []NothingTwice
<1>1. StreamIInv => NothingTwice
  BY DEF StreamIInv, YieldedOnce, Fits, Ids, NothingTwice
<1> QED
  BY <1>1, StreamSafety, PTL

\* Whatever is dropped and replayed, the numbers of what is yielded have no gap.
THEOREM NoGaps == StreamSpec => []NumberedWithoutGaps
<1>1. StreamIInv => NumberedWithoutGaps
  BY DEF StreamIInv, Numbered
<1> QED
  BY <1>1, StreamSafety, PTL

\* The terminal flag is about the events read since the last reset.
THEOREM TerminalOfThisStream == StreamSpec => []TerminalIsOfThisStream
<1>1. StreamIInv => TerminalIsOfThisStream
  BY DEF StreamIInv
<1> QED
  BY <1>1, StreamSafety, PTL
-----------------------------------------------------------------------------
(* Commit adoption.  The branch only grows, so a version that held a change *)
(* once holds it for ever; a call knows where its change is from the moment *)
(* its cherry-pick succeeded or was found unnecessary.                      *)

Entry == [of : Commit \cup {NoCommit}, copy : BOOLEAN]
Place == {"idle", "status", "ancestor", "adopted", "checkout", "head", "pick", "abort",
          "picked", "validate", "verify"}
Result == [success : BOOLEAN, review : BOOLEAN, of : Commit \cup {NoCommit},
           head : Nat, sha : Nat]

AdoptionTypeOK ==
    /\ branch \in Seq(Entry)
    /\ pc \in [Runner -> Place]
    /\ commit \in [Runner -> Commit \cup {NoCommit}]
    /\ before \in [Runner -> Nat]
    /\ sha \in [Runner -> Nat]
    /\ result \in [Runner -> Result]

\* The version is of the branch and, if it stands for one, has the change.
Holds(c, version) == version <= HEAD /\ (version # 0 => HasChange(c, version))

Adopting(r) ==
    /\ pc[r] \in {"adopted", "picked", "validate", "verify"} => HasChange(commit[r], HEAD)
    /\ pc[r] \in {"adopted", "validate", "verify"} => Holds(commit[r], sha[r])
    /\ pc[r] \in {"status", "ancestor", "checkout", "head", "pick", "picked"} => sha[r] = 0

Reported(r) ==
    result[r].success = TRUE =>
        /\ HasChange(result[r].of, HEAD)
        /\ Holds(result[r].of, result[r].sha)
        /\ Holds(result[r].of, result[r].head)

AdoptionIInv ==
    /\ AdoptionTypeOK
    /\ \A r \in Runner : Adopting(r) /\ Reported(r)
    /\ StoppedPicksAreReported

Grows == UNCHANGED branch \/ \E entry \in Entry : branch' = Append(branch, entry)

\* What a step of runner r does to the others: nothing.
OnlyOf(r) ==
    \A q \in Runner \ {r} :
        UNCHANGED <<pc[q], commit[q], sha[q], result[q]>>

LEMMA BranchGrows ==
    ASSUME branch \in Seq(Entry), Grows
    PROVE  /\ branch' \in Seq(Entry)
           /\ HEAD \in Nat /\ HEAD' \in Nat /\ HEAD <= HEAD'
           /\ \A i \in 1..HEAD : branch'[i] = branch[i]
           /\ \A c, v : v \in Nat /\ Holds(c, v) => Holds(c, v)'
           /\ \A c : HasChange(c, HEAD) => HasChange(c, HEAD)'
<1>1. branch' \in Seq(Entry) /\ HEAD \in Nat /\ HEAD' \in Nat /\ HEAD <= HEAD'
  BY DEF Grows, HEAD
<1>2. \A i \in 1..HEAD : branch'[i] = branch[i]
  BY DEF Grows, HEAD
<1>3. ASSUME NEW c, NEW v \in Nat, v <= HEAD, HasChange(c, v)
      PROVE  HasChange(c, v)'
  BY <1>1, <1>2, <1>3 DEF HasChange
<1>4. ASSUME NEW c, NEW v \in Nat, Holds(c, v)
      PROVE  Holds(c, v)'
  BY <1>1, <1>3, <1>4 DEF Holds
<1>5. ASSUME NEW c, HasChange(c, HEAD)
      PROVE  HasChange(c, HEAD)'
  BY <1>1, <1>2, <1>5 DEF HasChange
<1> QED
  BY <1>1, <1>2, <1>4, <1>5

\* A step of r keeps what is known of the others.
LEMMA OthersKeep ==
    ASSUME AdoptionIInv, NEW r \in Runner, Grows, OnlyOf(r)
    PROVE  \A q \in Runner \ {r} : Adopting(q)' /\ Reported(q)'
<1> SUFFICES ASSUME NEW q \in Runner, q # r
             PROVE  Adopting(q)' /\ Reported(q)'
  OBVIOUS
<1>1. UNCHANGED <<pc[q], commit[q], sha[q], result[q]>>
  BY DEF OnlyOf
<1>2. Adopting(q) /\ Reported(q)
  BY DEF AdoptionIInv
<1>3. /\ \A c, v : v \in Nat /\ Holds(c, v) => Holds(c, v)'
      /\ \A c : HasChange(c, HEAD) => HasChange(c, HEAD)'
  BY BranchGrows DEF AdoptionIInv, AdoptionTypeOK
<1>4. sha[q] \in Nat /\ result[q].sha \in Nat /\ result[q].head \in Nat
  BY DEF AdoptionIInv, AdoptionTypeOK, Result
<1>5. Adopting(q)'
  BY <1>1, <1>2, <1>3, <1>4 DEF Adopting
<1>6. Reported(q)'
  BY <1>1, <1>2, <1>3, <1>4 DEF Reported
<1> QED
  BY <1>5, <1>6

\* Going on to another place changes nothing else of the calls.
LEMMA GotoFacts ==
    ASSUME AdoptionTypeOK, NEW r \in Runner, NEW next \in Place, Goto(r, next)
    PROVE  /\ pc' \in [Runner -> Place]
           /\ pc'[r] = next
           /\ \A q \in Runner \ {r} : pc'[q] = pc[q]
BY DEF Goto, AdoptionTypeOK

\* A call that returns leaves its result and nothing of itself.
LEMMA ReturnFacts ==
    ASSUME AdoptionTypeOK, NEW r \in Runner, NEW success \in BOOLEAN, NEW h \in Nat,
           Return(r, success, h)
    PROVE  /\ pc' \in [Runner -> Place] /\ result' \in [Runner -> Result]
           /\ UNCHANGED <<commit, before, sha>>
           /\ pc'[r] = "idle"
           /\ result'[r].success = success /\ result'[r].of = commit[r]
           /\ result'[r].head = h /\ result'[r].sha = sha[r]
           /\ success = FALSE => result'[r].review = TRUE
           /\ OnlyOf(r)
<1>1. /\ Goto(r, "idle")
      /\ UNCHANGED <<commit, before, sha>>
      /\ result' = [result EXCEPT ![r] =
            [success |-> success, review |-> ~success, of |-> commit[r],
             head |-> h, sha |-> sha[r]]]
  BY DEF Return
<1>2. /\ pc' \in [Runner -> Place] /\ pc'[r] = "idle"
      /\ \A q \in Runner \ {r} : pc'[q] = pc[q]
  BY <1>1, GotoFacts DEF Place
<1>3. [success |-> success, review |-> ~success, of |-> commit[r],
       head |-> h, sha |-> sha[r]] \in Result
  <2>1. (~success) \in BOOLEAN
    OBVIOUS
  <2>2. commit[r] \in Commit \cup {NoCommit} /\ sha[r] \in Nat
    BY DEF AdoptionTypeOK
  <2> QED
    BY <2>1, <2>2, Zenon DEF Result
<1>4. /\ result' \in [Runner -> Result]
      /\ result'[r] = [success |-> success, review |-> ~success, of |-> commit[r],
                       head |-> h, sha |-> sha[r]]
      /\ \A q \in Runner \ {r} : result'[q] = result[q]
  BY <1>1, <1>3, Zenon DEF AdoptionTypeOK
<1>5. /\ result'[r].success = success /\ result'[r].of = commit[r]
      /\ result'[r].head = h /\ result'[r].sha = sha[r]
      /\ result'[r].review = ~success
  BY <1>4
<1>6. ASSUME success = FALSE PROVE result'[r].review = TRUE
  <2>1. (~success) = TRUE
    BY <1>6
  <2> QED
    BY <1>5, <2>1
<1> QED
  BY <1>1, <1>2, <1>4, <1>5, <1>6 DEF OnlyOf

\* What is left to show of a step of r.
LEMMA StepOf ==
    ASSUME AdoptionIInv, NEW r \in Runner, Grows, OnlyOf(r), AdoptionTypeOK',
           Adopting(r)', Reported(r)', StoppedPicksAreReported'
    PROVE  AdoptionIInv'
BY OthersKeep DEF AdoptionIInv

LEMMA StepAside ==
    ASSUME AdoptionIInv, NEW r \in Runner, UNCHANGED branch, OnlyOf(r), AdoptionTypeOK',
           Adopting(r)', Reported(r)', StoppedPicksAreReported'
    PROVE  AdoptionIInv'
BY StepOf DEF Grows

\* A call returns: a success has the change in the branch.
LEMMA ReturnIInv ==
    ASSUME AdoptionIInv, NEW r \in Runner, NEW success \in BOOLEAN, NEW h \in Nat,
           Return(r, success, h), UNCHANGED branch,
           success = TRUE =>
              /\ HasChange(commit[r], HEAD)
              /\ Holds(commit[r], sha[r])
              /\ Holds(commit[r], h),
           StoppedPicksAreReported'
    PROVE  AdoptionIInv'
<1>1. AdoptionTypeOK
  BY DEF AdoptionIInv
<1>2. /\ pc' \in [Runner -> Place] /\ result' \in [Runner -> Result]
      /\ UNCHANGED <<commit, before, sha>>
      /\ pc'[r] = "idle"
      /\ result'[r].success = success /\ result'[r].of = commit[r]
      /\ result'[r].head = h /\ result'[r].sha = sha[r]
      /\ OnlyOf(r)
  BY <1>1, ReturnFacts
<1>3. AdoptionTypeOK'
  BY <1>1, <1>2 DEF AdoptionTypeOK
<1>4. Adopting(r)'
  BY <1>2 DEF Adopting
<1>5. \A c, v : Holds(c, v) => Holds(c, v)'
  BY DEF Holds, HasChange, HEAD
<1>6. \A c : HasChange(c, HEAD) => HasChange(c, HEAD)'
  BY DEF HasChange, HEAD
<1>7. Reported(r)'
  BY <1>2, <1>5, <1>6 DEF Reported
<1> QED
  BY <1>2, <1>3, <1>4, <1>7, StepAside

\* A step that only goes on, or notes a version.
LEMMA AdvanceIInv ==
    ASSUME AdoptionIInv, NEW r \in Runner, NEW next \in Place, Goto(r, next),
           UNCHANGED <<branch, commit, result>>,
           before' \in [Runner -> Nat], sha' \in [Runner -> Nat],
           \A q \in Runner \ {r} : sha'[q] = sha[q],
           next \in {"adopted", "picked", "validate", "verify"} => HasChange(commit[r], HEAD),
           next \in {"adopted", "validate", "verify"} => Holds(commit[r], sha'[r]),
           next \in {"status", "ancestor", "checkout", "head", "pick", "picked"} => sha'[r] = 0,
           StoppedPicksAreReported'
    PROVE  AdoptionIInv'
<1>1. AdoptionTypeOK
  BY DEF AdoptionIInv
<1>2. /\ pc' \in [Runner -> Place] /\ pc'[r] = next
      /\ \A q \in Runner \ {r} : pc'[q] = pc[q]
  BY <1>1, GotoFacts
<1>3. AdoptionTypeOK'
  BY <1>1, <1>2 DEF AdoptionTypeOK
<1>4. \A c, v : Holds(c, v) => Holds(c, v)'
  BY DEF Holds, HasChange, HEAD
<1>5. \A c : HasChange(c, HEAD) => HasChange(c, HEAD)'
  BY DEF HasChange, HEAD
<1>6. Adopting(r)'
  <2>1. Holds(commit[r], sha'[r]) => Holds(commit[r], sha[r])'
    BY DEF Holds, HasChange, HEAD
  <2> QED
    BY <1>2, <1>5, <2>1 DEF Adopting
<1>7. Reported(r)'
  BY <1>4, <1>5 DEF Reported, AdoptionIInv
<1>8. OnlyOf(r)
  BY <1>2 DEF OnlyOf
<1> QED
  BY <1>3, <1>6, <1>7, <1>8, StepAside

\* Who has come past the look at the worktree has no cherry-pick in it.
LEMMA NoPickOf ==
    ASSUME AdoptionIInv, NEW r \in Runner, pc[r] \notin {"abort", "idle", "status"}
    PROVE  tree # r
BY DEF AdoptionIInv, StoppedPicksAreReported

\* Whose cherry-pick is stopped does not change, and who has one goes nowhere.
LEMMA TreeIsLeft ==
    ASSUME AdoptionIInv, NEW r \in Runner, tree' = tree,
           \A q \in Runner \ {r} : pc'[q] = pc[q] /\ result'[q] = result[q],
           tree = r => pc'[r] \in {"idle", "status"} /\ result'[r].review
    PROVE  StoppedPicksAreReported'
BY DEF AdoptionIInv, StoppedPicksAreReported

LEMMA AdoptIInv ==
    ASSUME AdoptionIInv, NEW r \in Runner, NEW c \in Commit, Adopt(r, c)
    PROVE  AdoptionIInv'
<1>1. AdoptionTypeOK
  BY DEF AdoptionIInv
<1>2. /\ pc[r] = "idle" /\ Goto(r, "status")
      /\ UNCHANGED <<branch, tree, result>>
      /\ commit' = [commit EXCEPT ![r] = c]
      /\ before' = [before EXCEPT ![r] = 0]
      /\ sha' = [sha EXCEPT ![r] = 0]
  BY DEF Adopt
<1>3. /\ pc' \in [Runner -> Place] /\ pc'[r] = "status"
      /\ \A q \in Runner \ {r} : pc'[q] = pc[q]
  BY <1>1, <1>2, GotoFacts DEF Place
<1>4. /\ commit' \in [Runner -> Commit \cup {NoCommit}]
      /\ before' \in [Runner -> Nat] /\ sha' \in [Runner -> Nat] /\ sha'[r] = 0
      /\ \A q \in Runner \ {r} : commit'[q] = commit[q] /\ sha'[q] = sha[q]
  BY <1>1, <1>2 DEF AdoptionTypeOK
<1>5. AdoptionTypeOK'
  BY <1>1, <1>2, <1>3, <1>4 DEF AdoptionTypeOK
<1>6. Adopting(r)'
  BY <1>3, <1>4 DEF Adopting
<1>7. Reported(r)'
  BY <1>2 DEF AdoptionIInv, Reported, Holds, HasChange, HEAD
<1>8. OnlyOf(r)
  BY <1>2, <1>3, <1>4 DEF OnlyOf
<1>9. StoppedPicksAreReported'
  <2>1. tree = r => result[r].review
    BY <1>2 DEF AdoptionIInv, StoppedPicksAreReported
  <2> QED
    BY <1>2, <1>3, <2>1, TreeIsLeft
<1> QED
  BY <1>2, <1>5, <1>6, <1>7, <1>8, <1>9, StepAside

\* A call that returns without a success, and leaves the worktree as it is.
LEMMA ReviewIInv ==
    ASSUME AdoptionIInv, NEW r \in Runner, Review(r), UNCHANGED <<branch, tree>>
    PROVE  AdoptionIInv'
<1>1. Return(r, FALSE, 0) /\ AdoptionTypeOK
  BY DEF Review, AdoptionIInv
<1>2. /\ pc'[r] = "idle" /\ result'[r].review = TRUE
      /\ \A q \in Runner \ {r} : pc'[q] = pc[q] /\ result'[q] = result[q]
  BY <1>1, ReturnFacts DEF OnlyOf
<1>3. StoppedPicksAreReported'
  BY <1>2, TreeIsLeft
<1> QED
  BY <1>1, <1>3, ReturnIInv

\* What a call that goes on from one place to the next has to show.
LEMMA GoOnIInv ==
    ASSUME AdoptionIInv, NEW r \in Runner, NEW next \in Place, Goto(r, next),
           pc[r] \notin {"abort", "idle"}, pc[r] = "status" => tree # r,
           UNCHANGED <<branch, tree, commit, result>>,
           before' \in [Runner -> Nat], sha' \in [Runner -> Nat],
           \A q \in Runner \ {r} : sha'[q] = sha[q],
           next \in {"adopted", "picked", "validate", "verify"} => HasChange(commit[r], HEAD),
           next \in {"adopted", "validate", "verify"} => Holds(commit[r], sha'[r]),
           next \in {"status", "ancestor", "checkout", "head", "pick", "picked"} => sha'[r] = 0
    PROVE  AdoptionIInv'
<1>1. AdoptionTypeOK
  BY DEF AdoptionIInv
<1>2. /\ \A q \in Runner \ {r} : pc'[q] = pc[q]
      /\ tree # r
  BY <1>1, GotoFacts, NoPickOf
<1>3. StoppedPicksAreReported'
  BY <1>2, TreeIsLeft
<1> QED
  BY <1>3, AdvanceIInv

LEMMA CheckCleanIInv ==
    ASSUME AdoptionIInv, NEW r \in Runner, CheckClean(r)
    PROVE  AdoptionIInv'
<1>1. /\ pc[r] = "status" /\ UNCHANGED <<branch, tree>>
      /\ \/ tree # r /\ Goto(r, "ancestor") /\ UNCHANGED <<commit, before, sha, result>>
         \/ Review(r)
  BY AdoptionAssumption DEF CheckClean
<1>2. AdoptionTypeOK /\ sha[r] = 0 /\ "ancestor" \in Place
  BY <1>1 DEF AdoptionIInv, Adopting, Place
<1>3. CASE tree # r /\ Goto(r, "ancestor") /\ UNCHANGED <<commit, before, sha, result>>
  BY <1>1, <1>2, <1>3, GoOnIInv DEF AdoptionTypeOK
<1> QED
  BY <1>1, <1>3, ReviewIInv

\* The commit itself is in the branch, so its change is.
LEMMA CheckAdoptedIInv ==
    ASSUME AdoptionIInv, NEW r \in Runner, CheckAdopted(r)
    PROVE  AdoptionIInv'
<1>1. /\ pc[r] = "ancestor" /\ UNCHANGED <<branch, tree, commit, before, result>>
      /\ \/ /\ HasOriginal(commit[r])
            /\ Goto(r, "adopted")
            /\ sha' = [sha EXCEPT ![r] = HEAD]
         \/ Goto(r, "checkout") /\ UNCHANGED sha
  BY DEF CheckAdopted, AlreadyAdopted
<1>2. /\ AdoptionTypeOK /\ sha[r] = 0 /\ HEAD \in Nat
      /\ {"adopted", "checkout"} \subseteq Place
  BY <1>1 DEF AdoptionIInv, AdoptionTypeOK, Adopting, Place, HEAD
<1>3. CASE /\ HasOriginal(commit[r])
           /\ Goto(r, "adopted")
           /\ sha' = [sha EXCEPT ![r] = HEAD]
  <2>1. HasChange(commit[r], HEAD)
    BY <1>2, <1>3 DEF HasOriginal, HasChange, Original, HEAD, AdoptionTypeOK
  <2>2. /\ sha' \in [Runner -> Nat] /\ sha'[r] = HEAD
        /\ \A q \in Runner \ {r} : sha'[q] = sha[q]
    BY <1>2, <1>3 DEF AdoptionTypeOK
  <2>3. Holds(commit[r], sha'[r])
    BY <1>2, <2>1, <2>2 DEF Holds
  <2> QED
    BY <1>1, <1>2, <1>3, <2>1, <2>2, <2>3, GoOnIInv DEF AdoptionTypeOK
<1>4. CASE Goto(r, "checkout") /\ UNCHANGED sha
  BY <1>1, <1>2, <1>4, GoOnIInv DEF AdoptionTypeOK
<1> QED
  BY <1>1, <1>3, <1>4

\* A success that names the version the branch has at the end.
LEMMA SucceedsIInv ==
    ASSUME AdoptionIInv, NEW r \in Runner, pc[r] \in {"adopted", "verify"},
           NEW h \in {0, HEAD}, Return(r, TRUE, h), UNCHANGED <<branch, tree>>
    PROVE  AdoptionIInv'
<1>1. /\ HasChange(commit[r], HEAD) /\ Holds(commit[r], sha[r])
      /\ AdoptionTypeOK
  BY DEF AdoptionIInv, Adopting
<1>2. HEAD \in Nat
  BY <1>1 DEF AdoptionTypeOK, HEAD
<1>3. h \in Nat /\ Holds(commit[r], h)
  BY <1>1, <1>2 DEF Holds
<1>4. /\ \A q \in Runner \ {r} : pc'[q] = pc[q] /\ result'[q] = result[q]
      /\ tree # r
  BY <1>1, <1>3, ReturnFacts, NoPickOf DEF OnlyOf
<1>5. StoppedPicksAreReported'
  BY <1>4, TreeIsLeft
<1> QED
  BY <1>1, <1>3, <1>5, ReturnIInv

LEMMA ReturnAdoptedIInv ==
    ASSUME AdoptionIInv, NEW r \in Runner, ReturnAdopted(r)
    PROVE  AdoptionIInv'
BY SucceedsIInv DEF ReturnAdopted

LEMMA VerifyIInv ==
    ASSUME AdoptionIInv, NEW r \in Runner, Verify(r)
    PROVE  AdoptionIInv'
<1>1. /\ pc[r] = "verify" /\ UNCHANGED <<branch, tree>>
      /\ Return(r, TRUE, HEAD) \/ Review(r)
  BY DEF Verify
<1> QED
  BY <1>1, SucceedsIInv, ReviewIInv

LEMMA CheckoutFailsIInv ==
    ASSUME AdoptionIInv, NEW r \in Runner, CheckoutFails(r)
    PROVE  AdoptionIInv'
BY ReviewIInv DEF CheckoutFails

LEMMA PullIInv ==
    ASSUME AdoptionIInv, NEW r \in Runner, pc[r] = "checkout", Goto(r, "head"),
           UNCHANGED <<tree, commit, before, sha, result>>,
           NEW e \in {Other} \cup {Original(c) : c \in Commit},
           branch' = Append(branch, e)
    PROVE  AdoptionIInv'
<1>1. AdoptionTypeOK /\ "head" \in Place
  BY DEF AdoptionIInv, Place
<1>2. e \in Entry
  <2>1. PICK c \in Commit \cup {NoCommit} : e = [of |-> c, copy |-> FALSE]
    BY DEF Other, Original
  <2>2. FALSE \in BOOLEAN
    OBVIOUS
  <2>3. [of |-> c, copy |-> FALSE] \in Entry
    BY <2>2, Zenon DEF Entry
  <2> QED
    BY <2>1, <2>3
<1>3. Grows
  BY <1>2 DEF Grows
<1>4. /\ pc' \in [Runner -> Place] /\ pc'[r] = "head"
      /\ \A q \in Runner \ {r} : pc'[q] = pc[q]
  BY <1>1, GotoFacts
<1>5. /\ branch' \in Seq(Entry)
      /\ \A c, v : v \in Nat /\ Holds(c, v) => Holds(c, v)'
      /\ \A c : HasChange(c, HEAD) => HasChange(c, HEAD)'
  BY <1>1, <1>3, BranchGrows DEF AdoptionTypeOK
<1>6. AdoptionTypeOK'
  BY <1>1, <1>4, <1>5 DEF AdoptionTypeOK
<1>7. Adopting(r)'
  BY <1>4 DEF AdoptionIInv, Adopting
<1>8. result[r].sha \in Nat /\ result[r].head \in Nat
  BY <1>1 DEF AdoptionTypeOK, Result
<1>9. Reported(r)'
  BY <1>5, <1>8 DEF AdoptionIInv, Reported
<1>10. OnlyOf(r)
  BY <1>4 DEF OnlyOf
<1>11. StoppedPicksAreReported'
  BY <1>4, NoPickOf, TreeIsLeft
<1> QED
  BY <1>3, <1>6, <1>7, <1>9, <1>10, <1>11, StepOf

LEMMA CheckoutIInv ==
    ASSUME AdoptionIInv, NEW r \in Runner, Checkout(r)
    PROVE  AdoptionIInv'
<1>1. /\ pc[r] = "checkout" /\ Goto(r, "head") /\ UNCHANGED <<commit, before, sha, result>>
      /\ \/ UNCHANGED <<branch, tree>>
         \/ tree' = "merging" /\ UNCHANGED branch
         \/ /\ \E e \in {Other} \cup {Original(c) : c \in Commit} : branch' = Append(branch, e)
            /\ UNCHANGED tree
  BY DEF Checkout
<1>2. AdoptionTypeOK /\ sha[r] = 0 /\ "head" \in Place
  BY <1>1 DEF AdoptionIInv, Adopting, Place
<1>3. CASE UNCHANGED <<branch, tree>>
  BY <1>1, <1>2, <1>3, GoOnIInv DEF AdoptionTypeOK
<1>4. CASE tree' = "merging" /\ UNCHANGED branch
  <2>1. StoppedPicksAreReported'
    BY <1>4, AdoptionAssumption DEF StoppedPicksAreReported
  <2> QED
    BY <1>1, <1>2, <1>4, <2>1, AdvanceIInv DEF AdoptionTypeOK
<1>5. CASE /\ \E e \in {Other} \cup {Original(c) : c \in Commit} : branch' = Append(branch, e)
           /\ UNCHANGED tree
  BY <1>1, <1>5, PullIInv
<1> QED
  BY <1>1, <1>3, <1>4, <1>5

LEMMA ReadHeadIInv ==
    ASSUME AdoptionIInv, NEW r \in Runner, ReadHead(r)
    PROVE  AdoptionIInv'
<1>1. /\ pc[r] = "head" /\ Goto(r, "pick")
      /\ before' = [before EXCEPT ![r] = HEAD]
      /\ UNCHANGED <<branch, tree, commit, sha, result>>
  BY DEF ReadHead
<1>2. AdoptionTypeOK /\ sha[r] = 0 /\ "pick" \in Place
  BY <1>1 DEF AdoptionIInv, Adopting, Place
<1>3. before' \in [Runner -> Nat]
  BY <1>1, <1>2 DEF AdoptionTypeOK, HEAD
<1> QED
  BY <1>1, <1>2, <1>3, GoOnIInv DEF AdoptionTypeOK

LEMMA CherryPickIInv ==
    ASSUME AdoptionIInv, NEW r \in Runner, CherryPick(r)
    PROVE  AdoptionIInv'
<1> DEFINE entry == Copy(commit[r])
<1>1. /\ pc[r] = "pick" /\ Goto(r, "picked")
      /\ branch' = Append(branch, entry)
      /\ UNCHANGED <<tree, commit, before, sha, result>>
  BY DEF CherryPick
<1>2. AdoptionTypeOK /\ sha[r] = 0 /\ "picked" \in Place
  BY <1>1 DEF AdoptionIInv, Adopting, Place
<1>3. entry \in Entry /\ entry.of = commit[r]
  BY <1>2 DEF Copy, Entry, AdoptionTypeOK
<1>4. Grows
  BY <1>1, <1>3 DEF Grows
<1>5. /\ pc' \in [Runner -> Place] /\ pc'[r] = "picked"
      /\ \A q \in Runner \ {r} : pc'[q] = pc[q]
  BY <1>1, <1>2, GotoFacts
<1>6. /\ branch' \in Seq(Entry)
      /\ \A c, v : v \in Nat /\ Holds(c, v) => Holds(c, v)'
      /\ \A c : HasChange(c, HEAD) => HasChange(c, HEAD)'
  BY <1>2, <1>4, BranchGrows DEF AdoptionTypeOK
<1>7. AdoptionTypeOK'
  BY <1>1, <1>2, <1>5, <1>6 DEF AdoptionTypeOK
<1>8. HasChange(commit[r], HEAD)'
  <2>1. branch \in Seq(Entry) /\ commit' = commit
    BY <1>1, <1>2 DEF AdoptionTypeOK
  <2>2. /\ Len(branch') = Len(branch) + 1 /\ Len(branch) \in Nat
        /\ branch'[Len(branch) + 1] = entry
    BY <1>1, <2>1
  <2> QED
    BY <1>3, <2>1, <2>2 DEF HasChange, HEAD
<1>9. Adopting(r)'
  BY <1>1, <1>2, <1>5, <1>8 DEF Adopting
<1>10. result[r].sha \in Nat /\ result[r].head \in Nat
  BY <1>2 DEF AdoptionTypeOK, Result
<1>11. Reported(r)'
  BY <1>1, <1>6, <1>10 DEF AdoptionIInv, Reported
<1>12. OnlyOf(r)
  BY <1>1, <1>5 DEF OnlyOf
<1>13. StoppedPicksAreReported'
  BY <1>1, <1>5, NoPickOf, TreeIsLeft
<1> QED
  BY <1>4, <1>7, <1>9, <1>11, <1>12, <1>13, StepOf

LEMMA CherryPickFailsIInv ==
    ASSUME AdoptionIInv, NEW r \in Runner, CherryPickFails(r)
    PROVE  AdoptionIInv'
<1>1. /\ pc[r] = "pick" /\ Goto(r, "abort")
      /\ tree' = r \/ tree' = tree
      /\ UNCHANGED <<branch, commit, before, sha, result>>
  BY DEF CherryPickFails
<1>2. AdoptionTypeOK /\ "abort" \in Place
  BY DEF AdoptionIInv, Place
<1>3. /\ pc'[r] = "abort"
      /\ \A q \in Runner \ {r} : pc'[q] = pc[q]
  BY <1>1, <1>2, GotoFacts
<1>4. StoppedPicksAreReported'
  BY <1>1, <1>3 DEF AdoptionIInv, StoppedPicksAreReported
<1> QED
  BY <1>1, <1>2, <1>4, AdvanceIInv DEF AdoptionTypeOK

LEMMA AbortIInv ==
    ASSUME AdoptionIInv, NEW r \in Runner, Abort(r)
    PROVE  AdoptionIInv'
<1>1. /\ Review(r) /\ Return(r, FALSE, 0) /\ UNCHANGED branch
      /\ tree' = "clean" \/ tree' = tree
  BY DEF Abort, Review
<1>2. CASE tree' = "clean"
  <2>1. StoppedPicksAreReported'
    BY <1>2, AdoptionAssumption DEF StoppedPicksAreReported
  <2> QED
    BY <1>1, <2>1, ReturnIInv
<1> QED
  BY <1>1, <1>2, ReviewIInv

LEMMA ReadAdoptedIInv ==
    ASSUME AdoptionIInv, NEW r \in Runner, ReadAdopted(r)
    PROVE  AdoptionIInv'
<1>1. /\ pc[r] = "picked" /\ Goto(r, "validate")
      /\ sha' = [sha EXCEPT ![r] = HEAD]
      /\ UNCHANGED <<branch, tree, commit, before, result>>
  BY DEF ReadAdopted
<1>2. AdoptionTypeOK /\ HasChange(commit[r], HEAD) /\ "validate" \in Place /\ HEAD \in Nat
  BY <1>1 DEF AdoptionIInv, AdoptionTypeOK, Adopting, Place, HEAD
<1>3. /\ sha' \in [Runner -> Nat] /\ sha'[r] = HEAD
      /\ \A q \in Runner \ {r} : sha'[q] = sha[q]
  BY <1>1, <1>2 DEF AdoptionTypeOK
<1>4. Holds(commit[r], sha'[r])
  BY <1>2, <1>3 DEF Holds
<1> QED
  BY <1>1, <1>2, <1>3, <1>4, GoOnIInv DEF AdoptionTypeOK

LEMMA ValidateIInv ==
    ASSUME AdoptionIInv, NEW r \in Runner, Validate(r)
    PROVE  AdoptionIInv'
<1>1. /\ pc[r] = "validate" /\ UNCHANGED <<branch, tree>>
      /\ \/ Goto(r, "verify") /\ UNCHANGED <<commit, before, sha, result>>
         \/ Review(r)
  BY DEF Validate
<1>2. /\ AdoptionTypeOK /\ "verify" \in Place
      /\ HasChange(commit[r], HEAD) /\ Holds(commit[r], sha[r])
  BY <1>1 DEF AdoptionIInv, Adopting, Place
<1>3. CASE Goto(r, "verify") /\ UNCHANGED <<commit, before, sha, result>>
  BY <1>1, <1>2, <1>3, GoOnIInv DEF AdoptionTypeOK
<1> QED
  BY <1>1, <1>3, ReviewIInv

LEMMA CrashIInv ==
    ASSUME AdoptionIInv, NEW r \in Runner, Crash(r)
    PROVE  AdoptionIInv'
<1>1. /\ Goto(r, "idle") /\ UNCHANGED <<branch, commit, before, sha, result>>
      /\ \/ tree' = "left"
         \/ tree' = tree /\ tree # r
  BY DEF Crash
<1>2. AdoptionTypeOK /\ "idle" \in Place
  BY DEF AdoptionIInv, Place
<1>3. \A q \in Runner \ {r} : pc'[q] = pc[q]
  BY <1>1, <1>2, GotoFacts
<1>4. StoppedPicksAreReported'
  BY <1>1, <1>3, AdoptionAssumption DEF AdoptionIInv, StoppedPicksAreReported
<1> QED
  BY <1>1, <1>2, <1>4, AdvanceIInv DEF AdoptionTypeOK

LEMMA TimesOutIInv ==
    ASSUME AdoptionIInv, NEW r \in Runner, TimesOut(r)
    PROVE  AdoptionIInv'
<1>1. UNCHANGED <<branch, tree>>
  BY DEF TimesOut
<1>2. CASE pc[r] \in {"status", "verify"} /\ Review(r)
  BY <1>1, <1>2, ReviewIInv
<1>3. CASE pc[r] = "adopted" /\ Return(r, TRUE, 0)
  BY <1>1, <1>3, SucceedsIInv
<1>4. CASE /\ \/ pc[r] = "ancestor" /\ Goto(r, "checkout")
              \/ pc[r] = "head" /\ Goto(r, "pick")
              \/ pc[r] = "picked" /\ Goto(r, "validate")
           /\ UNCHANGED <<commit, before, sha, result>>
  <2>1. AdoptionTypeOK /\ sha[r] = 0 /\ {"checkout", "pick", "validate"} \subseteq Place
    BY <1>4 DEF AdoptionIInv, Adopting, Place
  <2>2. pc[r] = "picked" => HasChange(commit[r], HEAD)
    BY DEF AdoptionIInv, Adopting
  <2>3. Holds(commit[r], sha[r])
    BY <2>1 DEF Holds, HEAD, AdoptionTypeOK
  <2> QED
    BY <1>1, <1>4, <2>1, <2>2, <2>3, GoOnIInv DEF AdoptionTypeOK
<1> QED
  BY <1>2, <1>3, <1>4 DEF TimesOut

LEMMA StutterIInv ==
    ASSUME AdoptionIInv, UNCHANGED <<branch, call>>, tree' = tree \/ tree' = "clean"
    PROVE  AdoptionIInv'
<1>1. AdoptionTypeOK'
  BY DEF call, AdoptionIInv, AdoptionTypeOK
<1>2. \A r \in Runner : Adopting(r)' /\ Reported(r)'
  BY DEF call, AdoptionIInv, Adopting, Reported, Holds, HasChange, HEAD
<1>3. StoppedPicksAreReported'
  BY AdoptionAssumption DEF call, AdoptionIInv, StoppedPicksAreReported
<1> QED
  BY <1>1, <1>2, <1>3 DEF AdoptionIInv

LEMMA AdoptionInitIInv == AdoptionInit => AdoptionIInv
<1> SUFFICES ASSUME AdoptionInit PROVE AdoptionIInv
  OBVIOUS
<1>1. Other \in Entry /\ NoResult \in Result /\ NoResult.success = FALSE
  BY DEF Other, Entry, NoResult, Result
<1>2. branch = <<Other>> /\ branch \in Seq(Entry) /\ DOMAIN branch = {1}
  BY <1>1 DEF AdoptionInit
<1>3. AdoptionTypeOK
  BY <1>1, <1>2 DEF AdoptionInit, AdoptionTypeOK, Place
<1>4. \A r \in Runner : Adopting(r) /\ Reported(r)
  BY <1>1 DEF AdoptionInit, Adopting, Reported
<1>5. StoppedPicksAreReported
  BY AdoptionAssumption DEF AdoptionInit, StoppedPicksAreReported
<1> QED
  BY <1>3, <1>4, <1>5 DEF AdoptionIInv

LEMMA AdoptionNextIInv == AdoptionIInv /\ [AdoptionNext]_adoptionVars => AdoptionIInv'
<1> SUFFICES ASSUME AdoptionIInv, [AdoptionNext]_adoptionVars PROVE AdoptionIInv'
  OBVIOUS
<1>1. ASSUME NEW r \in Runner, Step(r) PROVE AdoptionIInv'
  BY <1>1, CheckCleanIInv, CheckAdoptedIInv, ReturnAdoptedIInv, CheckoutFailsIInv,
     CheckoutIInv, ReadHeadIInv, CherryPickIInv, CherryPickFailsIInv, AbortIInv,
     ReadAdoptedIInv, ValidateIInv, VerifyIInv DEF Step
<1>2. CASE Resolve
  BY <1>2, StutterIInv DEF Resolve
<1>3. CASE UNCHANGED adoptionVars
  BY <1>3, StutterIInv DEF adoptionVars
<1> QED
  BY <1>1, <1>2, <1>3, AdoptIInv, CrashIInv, TimesOutIInv DEF AdoptionNext

THEOREM AdoptionSafety == AdoptionSpec => []AdoptionIInv
BY AdoptionInitIInv, AdoptionNextIInv, PTL DEF AdoptionSpec

\* Every reachable state of the runners that adopt commits is well typed.
THEOREM AdoptionTypes == AdoptionSpec => []AdoptionTypeOK
<1>1. AdoptionIInv => AdoptionTypeOK
  BY DEF AdoptionIInv
<1> QED
  BY <1>1, AdoptionSafety, PTL

\* A success means the change is in the branch, for any number of runners whose
\* commands interleave.
THEOREM SuccessHoldsTheChange == AdoptionSpec => []SuccessIsInBranch
<1>1. ASSUME AdoptionIInv PROVE SuccessIsInBranch
  <2>1. SUFFICES ASSUME NEW r \in Runner, result[r].success,
                        NEW version \in {HEAD} \cup ({result[r].sha, result[r].head} \ {0})
                 PROVE  version <= HEAD /\ HasChange(result[r].of, version)
    BY DEF SuccessIsInBranch
  <2>2. Reported(r) /\ result[r].success \in BOOLEAN /\ HEAD \in Nat
    BY <1>1 DEF AdoptionIInv, AdoptionTypeOK, Result, HEAD
  <2>3. /\ HasChange(result[r].of, HEAD)
        /\ Holds(result[r].of, result[r].sha)
        /\ Holds(result[r].of, result[r].head)
    BY <2>1, <2>2 DEF Reported
  <2>4. HEAD <= HEAD
    BY <2>2
  <2> QED
    BY <2>1, <2>3, <2>4 DEF Holds
<1> QED
  BY <1>1, AdoptionSafety, PTL

\* Whatever picks of each other the runners abort, and even if an abort is
\* refused, a stopped cherry-pick has an owner that is about to abort it or that
\* has reported it and adopts nothing more.
THEOREM StoppedPicksAreKnown == AdoptionSpec => []StoppedPicksAreReported
<1>1. AdoptionIInv => StoppedPicksAreReported
  BY DEF AdoptionIInv
<1> QED
  BY <1>1, AdoptionSafety, PTL
-----------------------------------------------------------------------------
(* The inspection of a worktree.  It is a function of the three versions of *)
(* the tree, so all that is needed of the agent is that they are trees.     *)

WorktreeTypeOK ==
    /\ head \in [File -> Nat]
    /\ index \in [File -> Nat]
    /\ work \in [File -> Nat]
    /\ commits \in Nat

LEMMA BaselineType == Baseline \in [File -> Nat]
BY DEF Baseline, File

LEMMA WorktreeInitType == WorktreeInit => WorktreeTypeOK
BY BaselineType DEF WorktreeInit, WorktreeTypeOK

LEMMA WorktreeNextType == WorktreeTypeOK /\ [WorktreeNext]_worktree => WorktreeTypeOK'
<1> SUFFICES ASSUME WorktreeTypeOK, [WorktreeNext]_worktree
             PROVE  WorktreeTypeOK'
  OBVIOUS
<1> USE DEF WorktreeTypeOK
<1>1. ASSUME NEW files \in [File -> Nat], Change(files)
      PROVE  WorktreeTypeOK'
  BY <1>1 DEF Change
<1>2. ASSUME NEW f \in File, Edit(f) \/ Revert(f) \/ Remove(f)
      PROVE  WorktreeTypeOK'
  <2>1. Baseline[f] \in Nat /\ FileCount + f \in Nat
    BY BaselineType, InspectionAssumption DEF File
  <2>2. /\ [work EXCEPT ![f] = FileCount + f] \in [File -> Nat]
        /\ [work EXCEPT ![f] = Baseline[f]] \in [File -> Nat]
        /\ [work EXCEPT ![f] = 0] \in [File -> Nat]
    BY <2>1
  <2> QED
    BY <1>1, <1>2, <2>2 DEF Edit, Revert, Remove
<1>3. ASSUME NEW f \in File, NEW g \in File, Move(f, g)
      PROVE  WorktreeTypeOK'
  <2>1. [work EXCEPT ![f] = 0, ![g] = work[f]] \in [File -> Nat]
    OBVIOUS
  <2> QED
    BY <1>1, <1>3, <2>1 DEF Move
<1>4. ASSUME NEW f \in File, Add(f)
      PROVE  WorktreeTypeOK'
  BY <1>4 DEF Add
<1>5. CASE AddAll \/ CommitIndex
  BY <1>5 DEF AddAll, CommitIndex
<1>6. CASE UNCHANGED worktree
  BY <1>6 DEF worktree
<1> QED
  BY <1>2, <1>3, <1>4, <1>5, <1>6 DEF WorktreeNext

\* Whatever an agent does, its worktree stays three trees of files.
LEMMA WorktreeSafety == WorktreeSpec => []WorktreeTypeOK
BY WorktreeInitType, WorktreeNextType, PTL DEF WorktreeSpec

\* A rename hides the old name only: two trees that differ have a name in
\* their diff, the one that differs or the one it was renamed to.
LEMMA DiffNamesIsEmpty ==
    ASSUME NEW from \in [File -> Nat], NEW to \in [File -> Nat]
    PROVE  DiffNames(from, to) = {} <=> from = to
<1>1. CASE from = to
  BY <1>1 DEF DiffNames
<1>2. CASE from # to
  <2>1. PICK f \in File : from[f] # to[f]
    BY <1>2
  <2>2. CASE \E n \in File : Renamed(from, to, f, n)
    <3>1. PICK n \in File : Renamed(from, to, f, n)
      BY <2>2
    <3>2. n \in DiffNames(from, to)
      BY <3>1 DEF Renamed, DiffNames
    <3> QED
      BY <1>2, <3>2
  <2>3. CASE \A n \in File : ~Renamed(from, to, f, n)
    <3>1. f \in DiffNames(from, to)
      BY <2>1, <2>3 DEF DiffNames
    <3> QED
      BY <1>2, <3>1
  <2> QED
    BY <2>2, <2>3
<1> QED
  BY <1>1, <1>2

\* git status prints nothing if and only if there is nothing to commit.
LEMMA StatusIsEmpty ==
    ASSUME WorktreeTypeOK
    PROVE  Lines \cup Untracked = {} <=> index = head /\ work = index
<1>1. DiffNames(head, index) = {} <=> index = head
  BY DiffNamesIsEmpty DEF WorktreeTypeOK
<1>2. CASE work = index
  <2>1. Unstaged = {} /\ Untracked = {}
    BY <1>2 DEF Unstaged, Untracked, WorktreeTypeOK
  <2> QED
    BY <1>1, <1>2, <2>1 DEF Lines
<1>3. CASE work # index
  <2>1. PICK f \in File : work[f] # index[f]
    BY <1>3 DEF WorktreeTypeOK
  <2>2. f \in Unstaged \cup Untracked
    BY <2>1 DEF Unstaged, Untracked, WorktreeTypeOK
  <2> QED
    BY <1>3, <2>2 DEF Lines
<1> QED
  BY <1>2, <1>3

LEMMA StatusNamesIsEmpty ==
    StatusNames = {} <=> Lines \cup Untracked = {}
BY DEF StatusNames

LEMMA ViolationsAreChanges == WorktreeTypeOK => ReadOnlyViolationIsFound
<1> SUFFICES ASSUME WorktreeTypeOK, NEW answered \in SUBSET Command
             PROVE  InspectionStatus("read_only", answered) = "failed"
                        <=> \/ "diff" \in answered /\ head # Baseline
                            \/ /\ {"status", "status again"} \cap answered # {}
                               /\ index # head \/ work # index
  BY DEF ReadOnlyViolationIsFound
<1> DEFINE committed == {[file |-> f, cut |-> FALSE] : f \in DiffNames(Baseline, head)}
<1>1. committed = {} <=> head = Baseline
  <2>1. DiffNames(Baseline, head) = {} <=> head = Baseline
    BY DiffNamesIsEmpty, BaselineType DEF WorktreeTypeOK
  <2> QED
    BY <2>1
<1>2. StatusNames = {} <=> index = head /\ work = index
  BY StatusIsEmpty, StatusNamesIsEmpty
<1>3. ChangedFiles(answered) # {}
         <=> \/ "diff" \in answered /\ committed # {}
             \/ "status" \in answered /\ StatusNames # {}
  BY DEF ChangedFiles, If
<1>4. HasUncommitted(answered)
         <=> "status again" \in answered /\ ~(index = head /\ work = index)
  BY StatusIsEmpty DEF HasUncommitted
<1>5. InspectionStatus("read_only", answered) = "failed"
         <=> ChangedFiles(answered) # {} \/ HasUncommitted(answered)
  BY DEF InspectionStatus
<1> QED
  BY <1>1, <1>2, <1>3, <1>4, <1>5

\* What a read-only task must not do is found by each git command that answers,
\* and what it may do never fails it, for any number of files, of commits and of
\* changes undone on the way: no rename, and no first line that git status loses
\* a letter of, hides a change.
THEOREM ViolationsAreFound == WorktreeSpec => []ReadOnlyViolationIsFound
BY ViolationsAreChanges, WorktreeSafety, PTL

\* A changed file has a line, and its name is the first one there unless it was
\* moved to, or cut.
LEMMA LineIsOutOfScope ==
    ASSUME NEW f \in File \ InScope, f \in Lines, ~Disguised(f)
    PROVE  \E name \in StatusNames : ~IsPathAllowed(name)
<1> DEFINE name == [file |-> FirstName(f), cut |-> IsCut(f)]
<1>1. name \in StatusNames
  BY DEF StatusNames
<1>2. IsCut(f) \in BOOLEAN
  BY DEF IsCut
<1>3. CASE \E d \in File : Renamed(head, index, d, f)
  <2>1. FirstName(f) \in File /\ Renamed(head, index, FirstName(f), f)
    BY <1>3, Zenon DEF FirstName
  <2>2. FirstName(f) \notin InScope
    BY <2>1 DEF Disguised
  <2>3. f \in DiffNames(head, index)
    BY <2>1 DEF DiffNames, Renamed
  <2>4. name.cut = FALSE /\ name.file = FirstName(f)
    BY <2>3 DEF IsCut
  <2> QED
    BY <1>1, <2>2, <2>4 DEF IsPathAllowed
<1>4. CASE ~ \E d \in File : Renamed(head, index, d, f)
  <2>1. FirstName(f) = f
    BY <1>4 DEF FirstName
  <2>2. ~(IsCut(f) /\ f \in CutInScope)
    BY DEF Disguised
  <2>3. CASE IsCut(f)
    BY <1>1, <2>1, <2>2, <2>3 DEF IsPathAllowed
  <2>4. CASE ~IsCut(f)
    BY <1>1, <2>1, <2>4 DEF IsPathAllowed
  <2> QED
    BY <2>3, <2>4
<1> QED
  BY <1>3, <1>4

LEMMA PassedIsInScope == WorktreeTypeOK => PassedChangesAreInScope
<1> SUFFICES ASSUME WorktreeTypeOK, InScope # {}, NEW answered \in SUBSET Command,
                    InspectionStatus("write", answered) = "passed",
                    NEW f \in File \ InScope
             PROVE  /\ "diff" \in answered => head[f] \in {0, Baseline[f]}
                    /\ "status" \in answered /\ ~Disguised(f) =>
                           index[f] \in {0, head[f]} /\ work[f] = index[f]
  BY DEF PassedChangesAreInScope
<1>1. \A name \in ChangedFiles(answered) : IsPathAllowed(name)
  BY DEF InspectionStatus, OutOfScope
<1>2. ASSUME "diff" \in answered, head[f] \notin {0, Baseline[f]}
      PROVE  FALSE
  <2> DEFINE name == [file |-> f, cut |-> FALSE]
  <2>1. f \in DiffNames(Baseline, head)
    BY <1>2 DEF DiffNames, Renamed
  <2>2. name \in ChangedFiles(answered)
    BY <1>2, <2>1 DEF ChangedFiles, If
  <2>3. IsPathAllowed(name)
    BY <1>1, <2>2
  <2> QED
    BY <2>3 DEF IsPathAllowed
<1>3. ASSUME "status" \in answered, ~Disguised(f)
      PROVE  index[f] \in {0, head[f]} /\ work[f] = index[f]
  <2>1. \A name \in StatusNames : IsPathAllowed(name)
    BY <1>1, <1>3 DEF ChangedFiles, If
  <2>2. f \notin Lines
    BY <1>3, <2>1, LineIsOutOfScope
  <2>3. index[f] \in {0, head[f]}
    BY <2>2 DEF Lines, DiffNames, Renamed
  <2>4. index[f] # 0 => work[f] = index[f]
    BY <2>2 DEF Lines, Unstaged
  <2>5. index[f] = 0 => work[f] = 0
    <3>1. SUFFICES ASSUME f \in Untracked PROVE FALSE
      BY DEF Untracked
    <3> DEFINE name == [file |-> f, cut |-> FALSE]
    <3>2. name \in StatusNames
      BY <3>1 DEF StatusNames
    <3> QED
      BY <2>1, <3>2 DEF IsPathAllowed
  <2> QED
    BY <2>3, <2>4, <2>5
<1> QED
  BY <1>2, <1>3

\* A write task that passes has changed nothing out of scope that the commands
\* which answered could show, but deletions and the two kinds of changes whose
\* line the parser misreads, for any scope and any worktree.
THEOREM PassedWritesAreInScope == WorktreeSpec => []PassedChangesAreInScope
BY PassedIsInScope, WorktreeSafety, PTL
-----------------------------------------------------------------------------
(* The retry policy, over all errors and ages.                              *)

\* An execution, and limits, with ages of any size.
AnyExecution == [created : Int, updated : Int, started : Int, heartbeat : Int]
AnyLimit == [heartbeat : Int, update : Int, duration : Int]

LEMMA StaleAgrees ==
    ASSUME NEW x \in AnyExecution, NEW limit \in AnyLimit, x.started # Never
    PROVE  /\ IsStale(x, limit) => FoundStale(x, limit)
           /\ FoundStale(x, limit) =>
                 \/ IsStale(x, limit)
                 \/ x.updated = limit.update
                 \/ x.heartbeat = limit.heartbeat
                 \/ x.started = limit.duration
BY DEF AnyExecution, AnyLimit, IsStale, FoundStale, Never

LEMMA ExecutionsAreTyped ==
    ASSUME MaxAge \in Nat
    PROVE  Executions \subseteq AnyExecution /\ Young \in AnyExecution
BY DEF Executions, Age, AnyExecution, Young, Never

\* The query and the check on the object tell the same started executions
\* stale, but for the moment in which an age equals its limit.
THEOREM StaleIsFound ==
    ASSUME MaxAge \in Nat
    PROVE  Spec => []StartedStaleIsFound
<1>1. Init => execution \in AnyExecution
  BY ExecutionsAreTyped DEF Init, CaseInit
<1>2. execution \in AnyExecution /\ [Next]_serviceVars => (execution \in AnyExecution)'
  BY ExecutionsAreTyped DEF Next, CaseNext, serviceVars, caseVars
<1>3. Limit \in AnyLimit
  BY DEF Limit, AnyLimit
<1>4. execution \in AnyExecution => StartedStaleIsFound
  <2> SUFFICES ASSUME execution \in AnyExecution, execution.started # Never
               PROVE  StartedStaleIsFound
    BY DEF StartedStaleIsFound
  <2> QED
    BY <1>3, StaleAgrees DEF StartedStaleIsFound
<1> QED
  BY <1>1, <1>2, <1>4, PTL DEF Spec

\* The first rule that applies.
LEMMA FirstRuleDecides ==
    ASSUME NEW e, NEW k \in DOMAIN Rules(e), Rules(e)[k][1],
           \A i \in DOMAIN Rules(e) : i < k => ~Rules(e)[i][1],
           DOMAIN Rules(e) \subseteq Nat
    PROVE  Classify(e) = Rules(e)[k][2]
<1> DEFINE S == {i \in DOMAIN Rules(e) : Rules(e)[i][1]}
<1>1. k \in S /\ \A i \in S : k <= i
  OBVIOUS
<1>2. \A x \in S : (\A y \in S : x <= y) => x = k
  <2>1. S \subseteq Nat
    OBVIOUS
  <2> QED
    BY <1>1, <2>1
<1> HIDE DEF S
<1>3. MinOf(S) = k
  BY <1>1, <1>2 DEF MinOf
<1> QED
  BY <1>3 DEF Classify, S

LEMMA RulesDomain ==
    ASSUME NEW e
    PROVE  DOMAIN Rules(e) = 1..14
BY DEF Rules

LEMMA RefusalsOfOpenCode ==
    ASSUME NEW e \in TransportErrors, e.status \in 400..499 \ {408, 429}
    PROVE  /\ e = Error("HTTPStatusError", e.status, ReasonWords[e.status])
           /\ \/ e.status = 409 /\ e.words = {"conflict"}
              \/ e.status \in {404, 422} /\ e.words = {}
<1>1. PICK s \in DOMAIN ReasonWords : e = Error("HTTPStatusError", s, ReasonWords[s])
  BY DEF TransportErrors, Error
<1>2. e.status = s /\ e.words = ReasonWords[s]
  BY <1>1 DEF Error
<1>3. s \in {404, 409, 422}
  <2>1. DOMAIN ReasonWords = {404, 408, 409, 422, 429, 500, 503, 504}
    BY DEF ReasonWords
  <2> QED
    BY <1>1, <1>2, <2>1
<1>4. ReasonWords[404] = {}
  BY DEF ReasonWords
<1>5. ReasonWords[422] = {}
  BY DEF ReasonWords
<1>6. ReasonWords[409] = {"conflict"}
  BY DEF ReasonWords
<1> QED
  BY <1>1, <1>2, <1>3, <1>4, <1>5, <1>6

LEMMA ConflictsStayConflicts ==
    ASSUME NEW e, e.class \in {"HTTPStatusError", "DispatchError"}, e.words = {"conflict"}
    PROVE  Classify(e) = "conflict"
<1>1. /\ Rules(e)[3][1] /\ ~Rules(e)[1][1] /\ ~Rules(e)[2][1]
      /\ Rules(e)[3][2] = "conflict"
  BY DEF Rules, Has
<1>2. 3 \in DOMAIN Rules(e) /\ \A i \in DOMAIN Rules(e) : i < 3 => i = 1 \/ i = 2
  BY RulesDomain
<1> QED
  BY <1>1, <1>2, RulesDomain, FirstRuleDecides

LEMMA RefusalsArePermanent ==
    ASSUME NEW e, e.class \in {"HTTPStatusError", "DispatchError"}, e.words = {},
           e.status \in {0, 404, 422}
    PROVE  Classify(e) \in {"permanent", "validation_failed"}
<1>1. ~Rules(e)[1][1] /\ ~Rules(e)[2][1]
  BY DEF Rules, Has
<1>2. ~Rules(e)[3][1] /\ ~Rules(e)[4][1]
  BY DEF Rules, Has
<1>3. ~Rules(e)[5][1]
  BY DEF Rules
<1>4. Rules(e)[6][1] <=> e.status = 409
  BY DEF Rules
<1>5. Rules(e)[7][1] <=> e.status = 422
  BY DEF Rules
<1>6. Rules(e)[8][1] <=> e.status = 408
  BY DEF Rules
<1>7. Rules(e)[9][1] <=> e.status \in 400..499
  BY DEF Rules
<1>8. Rules(e)[10][1] <=> e.status \in 500..599
  BY DEF Rules
<1>9. ~Rules(e)[11][1] /\ ~Rules(e)[12][1] /\ ~Rules(e)[13][1]
  BY DEF Rules, Has
<1>10. Rules(e)[14][1]
  BY DEF Rules
<1>11. /\ Rules(e)[7][2] = "validation_failed"
       /\ Rules(e)[9][2] = "permanent"
       /\ Rules(e)[14][2] = "permanent"
  BY DEF Rules
<1> USE RulesDomain, FirstRuleDecides
<1>12. CASE e.status = 404
  <2>1. /\ Rules(e)[9][1] /\ 9 \in DOMAIN Rules(e)
        /\ \A i \in DOMAIN Rules(e) : i < 9 => ~Rules(e)[i][1]
    BY <1>1, <1>2, <1>3, <1>4, <1>5, <1>6, <1>7, <1>12
  <2> QED
    BY <1>11, <2>1
<1>13. CASE e.status = 422
  <2>1. /\ Rules(e)[7][1] /\ 7 \in DOMAIN Rules(e)
        /\ \A i \in DOMAIN Rules(e) : i < 7 => ~Rules(e)[i][1]
    BY <1>1, <1>2, <1>3, <1>4, <1>5, <1>13
  <2> QED
    BY <1>11, <2>1
<1>14. CASE e.status = 0
  <2>1. /\ 14 \in DOMAIN Rules(e)
        /\ \A i \in DOMAIN Rules(e) : i < 14 => ~Rules(e)[i][1]
    BY <1>1, <1>2, <1>3, <1>4, <1>5, <1>6, <1>7, <1>8, <1>9, <1>14
  <2> QED
    BY <1>10, <1>11, <2>1
<1> QED
  BY <1>12, <1>13, <1>14

\* Of the responses below 500 only 408 and 429 may be retryable, whether
\* classify_error sees the exception of the transport or what the dispatcher
\* makes of it.
LEMMA RefusalsAreFinal ==
    ASSUME NEW e \in TransportErrors, e.status \in 400..499 \ {408, 429}
    PROVE  {Classify(e), Classify(DispatchError(e))} \cap Retryable = {}
<1> DEFINE d == DispatchError(e)
<1>1. /\ e.class = "HTTPStatusError"
      /\ \/ e.status = 409 /\ e.words = {"conflict"}
         \/ e.status \in {404, 422} /\ e.words = {}
  BY RefusalsOfOpenCode DEF Error
<1>2. d.class = "DispatchError" /\ d.status = 0 /\ d.words = e.words
  BY <1>1 DEF DispatchError, ClientText, Error
<1> HIDE DEF d
<1>3. /\ Classify(e) \in {"conflict", "permanent", "validation_failed"}
      /\ Classify(d) \in {"conflict", "permanent", "validation_failed"}
  <2>1. CASE e.status = 409
    <3>1. Classify(e) = "conflict" /\ Classify(d) = "conflict"
      BY <1>1, <1>2, <2>1, ConflictsStayConflicts
    <3> QED
      BY <3>1
  <2>2. CASE e.status # 409
    <3>1. Classify(e) \in {"permanent", "validation_failed"}
      BY <1>1, <2>2, RefusalsArePermanent
    <3>2. Classify(d) \in {"permanent", "validation_failed"}
      BY <1>1, <1>2, <2>2, RefusalsArePermanent
    <3> QED
      BY <3>1, <3>2
  <2> QED
    BY <2>1, <2>2
<1> QED
  BY <1>3 DEF d, Retryable

\* The delay grows with a power of two.  The provers know nothing of powers,
\* but a set of n elements has 2^n subsets: of more elements, more subsets.
LEMMA PowerIsCardinality ==
    ASSUME NEW n \in Nat
    PROVE  IsFiniteSet(SUBSET (1..n)) /\ Cardinality(SUBSET (1..n)) = 2 ^ n
<1>1. IsFiniteSet(1..n) /\ Cardinality(1..n) = n
  BY FS_Interval, Z3
<1>2. /\ IsFiniteSet(SUBSET (1..n))
      /\ Cardinality(SUBSET (1..n)) = 2 ^ Cardinality(1..n)
  BY <1>1, FS_SUBSET
<1> QED
  BY <1>1, <1>2, Zenon

LEMMA PowersGrow ==
    ASSUME NEW n \in Nat, NEW m \in Nat, n <= m
    PROVE  /\ 2 ^ n \in Nat /\ 2 ^ n # 0
           /\ 2 ^ n <= 2 ^ m
<1> DEFINE N == SUBSET (1..n)
<1>1. IsFiniteSet(N) /\ Cardinality(N) = 2 ^ n
  BY PowerIsCardinality
<1>2. N \in SUBSET (SUBSET (1..m))
  OBVIOUS
<1>3. Cardinality(N) <= Cardinality(SUBSET (1..m))
  BY <1>2, PowerIsCardinality, FS_Subset
<1>4. N # {}
  OBVIOUS
<1> HIDE DEF N
<1>5. Cardinality(N) \in Nat
  BY <1>1, FS_CardinalityType
<1>6. Cardinality(N) # 0
  BY <1>1, <1>4, FS_EmptySet
<1> QED
  BY <1>1, <1>3, <1>5, <1>6, PowerIsCardinality, Zenon

LEMMA MinOfTwo ==
    ASSUME NEW a \in Int, NEW b \in Int
    PROVE  MinOf({a, b}) = IF a <= b THEN a ELSE b
<1> DEFINE S == {a, b}
<1>1. \E x \in S : \A y \in S : x <= y
  OBVIOUS
<1>2. MinOf(S) \in S /\ \A y \in S : MinOf(S) <= y
  <2> HIDE DEF S
  <2> QED
    BY <1>1 DEF MinOf
<1> QED
  BY <1>2

LEMMA BackoffGrows ==
    ASSUME NEW p \in Phases, NEW n \in Nat \ {0}
    PROVE  /\ Backoff(p, n) \in 10..Policy(p).max
           /\ n > 1 => Backoff(p, n) >= Backoff(p, n - 1)
<1> DEFINE base == Policy(p).base
           max == Policy(p).max
<1>1. base \in Nat /\ max \in Nat /\ base >= 10 /\ max >= 10
  BY DEF Phases, Policy
<1>2. \A k \in Nat \ {0} :
         Backoff(p, k) = IF base * 2 ^ (k - 1) <= max THEN base * 2 ^ (k - 1) ELSE max
  <2> SUFFICES ASSUME NEW k \in Nat \ {0}
               PROVE  Backoff(p, k) = IF base * 2 ^ (k - 1) <= max
                                      THEN base * 2 ^ (k - 1) ELSE max
    OBVIOUS
  <2>1. 2 ^ (k - 1) \in Nat
    BY PowersGrow
  <2>2. base * 2 ^ (k - 1) \in Int
    BY <1>1, <2>1
  <2> QED
    BY <1>1, <2>2, MinOfTwo DEF Backoff
<1> HIDE DEF base, max
<1>3. ASSUME NEW x \in Nat, NEW y \in Nat, x # 0, x <= y
      PROVE  base * x \in Nat /\ base * x >= 10 /\ base * x <= base * y
  BY <1>1, <1>3
<1>4. ASSUME NEW k \in Nat
      PROVE  base * 2 ^ k \in Nat /\ base * 2 ^ k >= 10
  <2>1. 2 ^ k \in Nat /\ 2 ^ k # 0 /\ 2 ^ k <= 2 ^ k
    BY PowersGrow
  <2> QED
    BY <1>3, <2>1
<1>5. Backoff(p, n) \in 10..max
  <2>1. n - 1 \in Nat
    OBVIOUS
  <2>2. base * 2 ^ (n - 1) \in Nat /\ base * 2 ^ (n - 1) >= 10
    BY <1>4, <2>1
  <2> QED
    BY <1>1, <1>2, <2>2
<1>6. ASSUME n > 1
      PROVE  Backoff(p, n) >= Backoff(p, n - 1)
  <2>1. n - 1 \in Nat \ {0} /\ n - 2 \in Nat /\ n - 1 - 1 = n - 2 /\ n - 2 <= n - 1
    BY <1>6
  <2>2. /\ 2 ^ (n - 2) \in Nat /\ 2 ^ (n - 2) # 0 /\ 2 ^ (n - 1) \in Nat
        /\ 2 ^ (n - 2) <= 2 ^ (n - 1)
    BY <2>1, PowersGrow
  <2>3. /\ base * 2 ^ (n - 2) \in Nat /\ base * 2 ^ (n - 1) \in Nat
        /\ base * 2 ^ (n - 2) <= base * 2 ^ (n - 1)
    BY <1>3, <1>4, <2>1, <2>2
  <2>4. Backoff(p, n - 1) = IF base * 2 ^ (n - 2) <= max
                            THEN base * 2 ^ (n - 2) ELSE max
    BY <1>2, <2>1, Zenon
  <2>5. Backoff(p, n) = IF base * 2 ^ (n - 1) <= max
                        THEN base * 2 ^ (n - 1) ELSE max
    BY <1>2
  <2> QED
    BY <1>1, <2>3, <2>4, <2>5
<1> QED
  BY <1>5, <1>6 DEF max

LEMMA DelayIsBounded ==
    ASSUME NEW p \in Phases, NEW n \in Nat \ {0}, NEW j \in -1..1
    PROVE  RetryDelay(p, n, j) \in 1..((11 * Policy(p).max) \div 10)
<1> DEFINE b == Backoff(p, n)
<1>1. b \in Int /\ b >= 10 /\ b <= Policy(p).max
  <2>1. Policy(p).max \in Nat
    BY DEF Phases, Policy
  <2> QED
    BY <2>1, BackoffGrows
<1>2. Policy(p).max \in {300, 600, 1200, 3000}
  BY DEF Phases, Policy
<1>3. RetryDelay(p, n, j) = b + (b * j) \div 10
  BY DEF RetryDelay
<1> HIDE DEF b
<1>4. j \in {-1, 0, 1}
  OBVIOUS
<1>5. CASE j = 1
  BY <1>1, <1>2, <1>3, <1>5
<1>6. CASE j = 0
  BY <1>1, <1>2, <1>3, <1>6
<1>7. CASE j = -1
  BY <1>1, <1>2, <1>3, <1>7
<1> QED
  BY <1>4, <1>5, <1>6, <1>7

\* A request that OpenCode refuses is not sent again, and however often another
\* one has failed, the delay before the next attempt is positive, has not shrunk
\* and is no more than a tenth past max_delay_seconds.
THEOREM MeasuredRetries ==
    ASSUME MaxAttempts \in Nat
    PROVE  Spec => []RetriesAreMeasured
<1> DEFINE Typed == /\ error \in TransportErrors
                    /\ phase \in Phases /\ attempt \in Nat \ {0} /\ jitter \in -1..1
<1>1. CaseInit => Typed
  BY DEF CaseInit, Phases, TransportErrors
<1>2. Typed /\ [Next]_serviceVars => Typed'
  BY <1>1 DEF Init, Next, CaseNext, serviceVars, caseVars
<1>3. Typed => RetriesAreMeasured
  <2> SUFFICES ASSUME Typed PROVE RetriesAreMeasured
    OBVIOUS
  <2>1. /\ RetryDelay(phase, attempt, jitter) \in 1..((11 * Policy(phase).max) \div 10)
        /\ attempt > 1 => Backoff(phase, attempt) >= Backoff(phase, attempt - 1)
    BY DelayIsBounded, BackoffGrows
  <2>2. error.status \in 400..499 \ {408, 429}
          => {Classify(error), Classify(DispatchError(error))} \cap Retryable = {}
    BY RefusalsAreFinal
  <2> QED
    BY <2>1, <2>2 DEF RetriesAreMeasured
<1>4. Init => CaseInit
  BY DEF Init
<1> QED
  BY <1>1, <1>2, <1>3, <1>4, PTL DEF Spec
==============================================================================
