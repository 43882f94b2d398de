---------------------------- MODULE EventStream ----------------------------
(***************************************************************************)
(* SSEEventHandler: the events of OpenCode, read from a stream that may    *)
(* break and then replay or skip some, deduplicated and numbered for one   *)
(* execution.  As the fixtures of the contract have it, every event of a   *)
(* message carries the id of the message; heartbeats carry none.           *)
(* The consumer iterates _stream_events_internal: stream_events wraps it   *)
(* in a task, which asyncio refuses for an asynchronous generator.         *)
(***************************************************************************)
EXTENDS Integers, Sequences, FiniteSets

CONSTANTS
    Message,
    NoId,
    CacheSize,      \* 100 in the code
    MaxEvents,      \* bounds, for model checking only
    MaxConnections

ASSUME StreamAssumption ==
    /\ NoId \notin Message
    /\ CacheSize \in Nat \ {0}
    /\ MaxEvents \in Nat
    /\ MaxConnections \in Nat

VARIABLES
    log,       \* the events OpenCode has sent out, as [type, id]
    connection,        \* "closed" or "open"
    pos,       \* how much of log the open connection has read or skipped
    connections,
    eventIds,  \* _last_event_ids
    terminal,  \* _terminal_event_received
    sequence,  \* _sequence
    received,  \* the positions in log read since the last reset
    out        \* what was yielded since then, as [index, seq]

handler == <<eventIds, terminal, sequence>>
streamVars == <<log, connection, pos, connections, handler, received, out>>

Events ==
    [type : {"message.started", "message.delta", "message.completed"}, id : Message]
    \cup {[type |-> "heartbeat", id |-> NoId]}

IsTerminal(event) == event.type = "message.completed"

StreamInit ==
    /\ log = <<>>
    /\ connection = "closed"
    /\ pos = 0
    /\ connections = 0
    /\ eventIds = {}
    /\ terminal = FALSE
    /\ sequence = 0
    /\ received = {}
    /\ out = <<>>
---------------------------------------------------------------------------
\* OpenCode sends an event: started, some deltas, completed for each message.
Send(event) ==
    LET types == {log[i].type : i \in {j \in DOMAIN log : log[j].id = event.id}} IN
    /\ Len(log) < MaxEvents
    /\ event.type # "heartbeat" =>
          /\ event.type = "message.started" <=> types = {}
          /\ "message.completed" \notin types
    /\ log' = Append(log, event)
    /\ UNCHANGED <<connection, pos, connections, handler, received, out>>

\* A connection starts anywhere: OpenCode may replay events or have sent some
\* while nobody listened.
Connect ==
    /\ connection = "closed"
    /\ connections < MaxConnections
    /\ connections' = connections + 1
    /\ pos' \in 0..Len(log)
    /\ connection' = "open"
    /\ UNCHANGED <<log, handler, received, out>>

IsDuplicate(event) == event.id \in eventIds

\* Mutant of Remember: nothing is remembered.
RememberNothing(event) == UNCHANGED eventIds

\* A set that has grown too large is emptied.
Remember(event) ==
    LET ids == eventIds \cup ({event.id} \ {NoId}) IN
    eventIds' = IF Cardinality(ids) > CacheSize THEN {} ELSE ids

Receive ==
    /\ connection = "open"
    /\ pos < Len(log)
    /\ pos' = pos + 1
    /\ received' = received \cup {pos'}
    /\ LET event == log[pos'] IN
        /\ terminal' = (terminal \/ IsTerminal(event))
        /\ \/ /\ IsDuplicate(event)
              /\ UNCHANGED <<eventIds, sequence, out>>
           \/ /\ ~IsDuplicate(event)
              /\ Remember(event)
              /\ out' = Append(out, [index |-> pos', seq |-> sequence])
              /\ sequence' = sequence + 1
    /\ UNCHANGED <<log, connection, connections>>

\* The connection breaks or the consumer stops; the handler keeps its state.
Disconnect ==
    /\ connection = "open"
    /\ connection' = "closed"
    /\ UNCHANGED <<log, pos, connections, handler, received, out>>

\* Mutant of ResetSequence: the flag is forgotten.
ResetCountersOnly ==
    /\ connection = "closed"
    /\ sequence' = 0
    /\ eventIds' = {}
    /\ received' = {}
    /\ out' = <<>>
    /\ UNCHANGED <<log, connection, pos, connections, terminal>>

\* reset_sequence, before a fresh stream.
ResetSequence ==
    /\ connection = "closed"
    /\ sequence' = 0
    /\ eventIds' = {}
    /\ terminal' = FALSE
    /\ received' = {}
    /\ out' = <<>>
    /\ UNCHANGED <<log, connection, pos, connections>>

StreamNext ==
    \/ \E event \in Events : Send(event)
    \/ Connect
    \/ Receive
    \/ Disconnect
    \/ ResetSequence

StreamSpec == StreamInit /\ [][StreamNext]_streamVars
---------------------------------------------------------------------------
(* Properties *)

\* The variables have their types, and the memory for event ids is bounded.
StreamTypeOK ==
    /\ log \in Seq(Events)
    /\ connection \in {"closed", "open"}
    /\ pos \in 0..Len(log)
    /\ connections \in Nat
    /\ eventIds \subseteq Message /\ Cardinality(eventIds) <= CacheSize
    /\ terminal \in BOOLEAN
    /\ sequence \in Nat
    /\ received \subseteq DOMAIN log
    /\ out \in Seq([index : Nat, seq : Nat])
    /\ \A i \in DOMAIN out : out[i].index \in received

\* Whatever is dropped and replayed, the numbers of the events yielded have no
\* gap: they can be the unique sequence of an execution's events.
NumberedWithoutGaps == \A i \in DOMAIN out : out[i].seq = i - 1

\* A replay after a reconnect yields no event of a message again, as long as
\* the ids fit into the memory.
NothingTwice ==
    Cardinality({log[i].id : i \in DOMAIN log} \ {NoId}) <= CacheSize =>
    \A i, j \in DOMAIN out :
        i # j /\ out[i].index = out[j].index => log[out[i].index].id = NoId

\* The handler reports a terminal event exactly when this stream had one.
TerminalIsOfThisStream == terminal <=> \E i \in received : IsTerminal(log[i])
===========================================================================
