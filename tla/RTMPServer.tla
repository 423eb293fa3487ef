----------------------------- MODULE RTMPServer -----------------------------
(***************************************************************************)
(* api::RTMPServer while it runs: the connections and what the callbacks   *)
(* of the event-loop thread do with them.  Composes CommandHandler (and    *)
(* through it StreamRegistry): a command is one of its steps followed, in  *)
(* the same step, by what the server does with the outcome.                *)
(*                                                                         *)
(* One read may hold several messages.  They are handled in a loop that    *)
(* does not look at the connection between two of them, so a batch is a    *)
(* state of the model: busy is the connection whose batch is being         *)
(* processed.  Starting and stopping the server are in ServerControl,      *)
(* the sockets in NetworkPAL, the handshake bytes in Handshake.            *)
(*                                                                         *)
(* A ConnectionContext outlives its connection: the callback that runs has *)
(* it in its hands.  Being in connections_ is the field open.  A context   *)
(* that is closed and that no callback holds is gone, and its session with *)
(* it.  The code never uses a connection id twice (nextConnectionId_ is 64 *)
(* bits wide); here one that left no trace stands for a new one, so that   *)
(* clients may come and go without end.                                    *)
(***************************************************************************)
EXTENDS CommandHandler, FiniteSets

CONSTANTS
  LiveApp,         \* the application name "live" of relay and close
  Limits,          \* connection limits the program configures, 0 for none
  CounterSpace     \* number of values of a counter (2^32 in the code)

ASSUME ServerAssumption ==
  /\ LiveApp \in Apps
  /\ Limits \subseteq Nat
  /\ CounterSpace \in Nat /\ CounterSpace > 1

\* A machine has far fewer sockets than a counter has values.
ASSUME ConnsAssumption == IsFiniteSet(Conns) /\ Cardinality(Conns) < CounterSpace

VARIABLES
  ctx,                \* the ConnectionContext of each connection
  armed,              \* the callback outstanding on each connection's socket
  busy,               \* the connection whose batch is processed, or NoConn
  maxConnections,     \* config_.maxConnections
  activeConnections,  \* activeConnections_
  activeStreams,      \* activeStreams_
  refused,            \* was the last client turned away?
  streamData,         \* streamDataMap_: who supplied the cached headers
  delivered,          \* what the last step sent to subscribers
  habit               \* the worst the clients have done so far

serverVars == <<streams, streamIdIndex, nextStreamId, releasedIds, session,
                reply, ctx, armed, busy, maxConnections, activeConnections,
                activeStreams, refused, streamData, delivered, habit>>

\* Orderly clients use the application live and publish or play once, as
\* their last command.  Others send any commands that decode, or anything.
Habits == {"orderly", "decodable", "any"}

ContextStates == {"None", "Handshaking", "Connected", "Publishing", "Subscribing"}
ConnectionContext == [open      : BOOLEAN,
                      state     : ContextStates,
                      answered  : BOOLEAN,     \* S0, S1 and S2 were sent
                      streamKey : Names \cup {""}]
Delivery == [from : Conns, to : Conns, kind : {"relayed", "cached"}]

ServerTypeOK ==
  /\ TypeOK
  /\ ctx \in [Conns -> ConnectionContext]
  /\ armed \in [Conns -> {"none", "read", "write"}]
  /\ busy \in Conns \cup {NoConn}
  /\ maxConnections \in Limits
  /\ activeConnections \in 0 .. (CounterSpace - 1)
  /\ activeStreams \in 0 .. (CounterSpace - 1)
  /\ refused \in BOOLEAN
  /\ streamData \in [Names -> Conns \cup {NoConn}]
  /\ delivered \in SUBSET Delivery
  /\ habit \in Habits

Open == {c \in Conns : ctx[c].open}
NoContext == [open |-> FALSE, state |-> "None", answered |-> FALSE, streamKey |-> ""]

ServerInit ==
  /\ Init
  /\ ctx = [c \in Conns |-> NoContext]
  /\ armed = [c \in Conns |-> "none"]
  /\ busy = NoConn
  /\ maxConnections \in Limits
  /\ activeConnections = 0
  /\ activeStreams = 0
  /\ refused = FALSE
  /\ streamData = [n \in Names |-> NoConn]
  /\ delivered = {}
  /\ habit = "orderly"

-----------------------------------------------------------------------------

\* Nothing answered to a command in this step, nothing sent to a subscriber
\* and nobody refused.
NoReply == reply' = [conn |-> NoConn, answer |-> "none"]
Quiet == NoReply /\ refused' = FALSE /\ delivered' = {}

\* The end of closeConnection: the socket, connections_ and the counter.  In
\* a batch the context goes on being used.
CloseSocket(c) ==
  /\ ctx' = [ctx EXCEPT ![c] = IF busy = c THEN [@ EXCEPT !.open = FALSE] ELSE NoContext]
  /\ session' = [session EXCEPT ![c] = IF busy = c THEN @ ELSE FreshSession]
  /\ armed' = [armed EXCEPT ![c] = "none"]
  /\ activeConnections' = (activeConnections - 1) % CounterSpace
  /\ Quiet
  /\ UNCHANGED <<nextStreamId, releasedIds, streamData>>

\* Mutants: the stream is not counted down; a subscriber stays registered;
\* a subscriber ends the stream.
closeUncounted(c) ==
  /\ IF ctx[c].state = "Publishing"
     THEN unregisterStream(<<LiveApp, ctx[c].streamKey>>)
     ELSE UNCHANGED <<streams, streamIdIndex>>
  /\ CloseSocket(c)
  /\ UNCHANGED activeStreams

closeKeepsSubscriber(c) ==
  /\ IF ctx[c].state = "Publishing"
     THEN /\ unregisterStream(<<LiveApp, ctx[c].streamKey>>)
          /\ activeStreams' = (activeStreams - 1) % CounterSpace
     ELSE UNCHANGED <<streams, streamIdIndex, activeStreams>>
  /\ CloseSocket(c)

closeEndsStream(c) ==
  /\ IF ctx[c].state \in {"Publishing", "Subscribing"}
     THEN unregisterStream(<<LiveApp, ctx[c].streamKey>>)
     ELSE UNCHANGED <<streams, streamIdIndex>>
  /\ CloseSocket(c)
  /\ UNCHANGED activeStreams

\* closeConnection: the key is built with the application "live", and from
\* the context, which may lag behind the session.  There is no check that
\* the connection is still open.
closeConnection(c) ==
  /\ \/ /\ ctx[c].state = "Publishing"
        /\ unregisterStream(<<LiveApp, ctx[c].streamKey>>)
        /\ activeStreams' = (activeStreams - 1) % CounterSpace
     \/ /\ ctx[c].state = "Subscribing"
        /\ removeSubscriber(<<LiveApp, ctx[c].streamKey>>, c)
        /\ UNCHANGED activeStreams
     \/ /\ ctx[c].state \notin {"Publishing", "Subscribing"}
        /\ UNCHANGED <<streams, streamIdIndex, activeStreams>>
  /\ CloseSocket(c)

\* Mutant: one connection too many.
LimitExceeded == maxConnections > 0 /\ activeConnections > maxConnections

LimitReached == maxConnections > 0 /\ activeConnections >= maxConnections

\* An id that nothing refers to: the id of a new connection.
NewId(c) ==
  /\ ctx[c].state = "None"
  /\ \A k \in Keys : hasStream(k) => c \notin {streams[k].publisherId} \cup streams[k].subscribers
  /\ \A n \in Names : streamData[n] # c

\* Mutant: the client is counted before the limit is checked.
acceptCountsFirst(c) ==
  /\ busy = NoConn
  /\ NewId(c)
  /\ NoReply
  /\ delivered' = {}
  /\ refused' = LimitReached
  /\ activeConnections' = (activeConnections + 1) % CounterSpace
  /\ ctx' = IF LimitReached THEN ctx
            ELSE [ctx EXCEPT ![c].open = TRUE, ![c].state = "Handshaking"]
  /\ armed' = IF LimitReached THEN armed ELSE [armed EXCEPT ![c] = "read"]
  /\ UNCHANGED <<registryVars, session, busy, activeStreams, streamData, habit,
                 maxConnections>>

handleAccept(c) ==
  /\ busy = NoConn
  /\ NewId(c)
  /\ NoReply
  /\ delivered' = {}
  /\ \/ /\ LimitReached
        /\ refused' = TRUE
        /\ UNCHANGED <<ctx, armed, activeConnections>>
     \/ /\ ~LimitReached
        /\ refused' = FALSE
        /\ ctx' = [ctx EXCEPT ![c].open = TRUE, ![c].state = "Handshaking"]
        /\ armed' = [armed EXCEPT ![c] = "read"]
        /\ activeConnections' = (activeConnections + 1) % CounterSpace
  /\ UNCHANGED <<registryVars, session, busy, activeStreams, streamData, habit,
                 maxConnections>>

\* A read during the handshake that makes progress (Handshake has the
\* bytes): C0 and C1 are answered, and the next read is only asked for when
\* the answer is written; C2 ends the handshake, and bytes of the first
\* messages that came with it are processed at once.
processHandshake(c) ==
  /\ busy = NoConn
  /\ armed[c] = "read"
  /\ ctx[c].state = "Handshaking"
  /\ \/ /\ ~ctx[c].answered
        /\ ctx' = [ctx EXCEPT ![c].answered = TRUE]
        /\ armed' = [armed EXCEPT ![c] = "write"]
        /\ UNCHANGED busy
     \/ /\ ctx[c].answered
        /\ ctx' = [ctx EXCEPT ![c].state = "Connected"]
        /\ \/ UNCHANGED <<armed, busy>>
           \/ armed' = [armed EXCEPT ![c] = "none"] /\ busy' = c
  /\ Quiet
  /\ UNCHANGED <<registryVars, session, activeConnections, activeStreams,
                 streamData, habit, maxConnections>>

\* Mutant: the callback of the write does not read on.
writtenNoRead(c) ==
  /\ busy = NoConn
  /\ armed[c] = "write"
  /\ armed' = [armed EXCEPT ![c] = "none"]
  /\ Quiet
  /\ UNCHANGED <<registryVars, session, ctx, busy, activeConnections,
                 activeStreams, streamData, habit, maxConnections>>

\* S0, S1 and S2 are written.  The handshake cannot be complete here: C2
\* echoes S1, which the client has not seen before.
handshakeWritten(c) ==
  /\ busy = NoConn
  /\ armed[c] = "write"
  /\ armed' = [armed EXCEPT ![c] = "read"]
  /\ Quiet
  /\ UNCHANGED <<registryVars, session, ctx, busy, activeConnections,
                 activeStreams, streamData, habit, maxConnections>>

\* The peer closed, a read or a write failed, the handshake or the parsing
\* of what was read did, or the read buffer is full.
connectionLost(c) ==
  /\ busy = NoConn
  /\ armed[c] # "none"
  /\ closeConnection(c)
  /\ UNCHANGED <<busy, habit, maxConnections>>

handleRead(c) ==
  /\ busy = NoConn
  /\ armed[c] = "read"
  /\ ctx[c].state \in {"Connected", "Publishing", "Subscribing"}
  /\ busy' = c
  /\ armed' = [armed EXCEPT ![c] = "none"]
  /\ Quiet
  /\ UNCHANGED <<registryVars, session, ctx, activeConnections, activeStreams,
                 streamData, habit, maxConnections>>

\* What is cached under the stream's name, whoever sent it.
sendInitialStreamData(c, name) ==
  IF streamData[name] = NoConn
  THEN {}
  ELSE {[from |-> streamData[name], to |-> c, kind |-> "cached"]}

\* The command of this step is the first of its kind and for live.
Orderly(c) == ctx[c].state = "Connected" /\ session'[c].appName \in {"", LiveApp}

\* A command that decodes.  A session found Publishing counts as a stream
\* started, and one found Subscribing gets the cached data, whatever the
\* command was.
processCommandMessage(c) ==
  /\ busy = c
  /\ processCommand(c)
  /\ habit' = IF habit = "orderly" /\ ~Orderly(c) THEN "decodable" ELSE habit
  /\ \/ /\ session'[c].state = "Publishing"
        /\ ctx' = [ctx EXCEPT ![c].state = "Publishing",
                              ![c].streamKey = session'[c].streamKey]
        /\ activeStreams' = (activeStreams + 1) % CounterSpace
        /\ delivered' = {}
     \/ /\ session'[c].state = "Subscribing"
        /\ ctx' = [ctx EXCEPT ![c].state = "Subscribing",
                              ![c].streamKey = session'[c].streamKey]
        /\ delivered' = sendInitialStreamData(c, session'[c].streamKey)
        /\ UNCHANGED activeStreams
     \/ /\ session'[c].state = "Connected"
        /\ delivered' = {}
        /\ UNCHANGED <<ctx, activeStreams>>
  /\ refused' = FALSE
  /\ UNCHANGED <<armed, busy, activeConnections, streamData, maxConnections>>

\* A command that does not decode closes the connection, and the rest of
\* the batch is processed all the same.
malformedCommand(c) ==
  /\ busy = c
  /\ closeConnection(c)
  /\ habit' = "any"
  /\ UNCHANGED <<busy, maxConnections>>

\* The subscribers the registry has for live/name, as far as their contexts
\* agree.
relayToSubscribers(c, name) ==
  LET k == <<LiveApp, name>>
      receivers == IF hasStream(k) THEN streams[k].subscribers ELSE {}
  IN  {[from |-> c, to |-> s, kind |-> "relayed"] :
        s \in {r \in receivers : ctx[r].open /\ ctx[r].state = "Subscribing"}}

\* Mutant: a subscriber's data is relayed too.
mediaFromSubscriber(c) ==
  /\ busy = c
  /\ ctx[c].state \in {"Publishing", "Subscribing"}
  /\ delivered' = relayToSubscribers(c, ctx[c].streamKey)
  /\ refused' = FALSE
  /\ NoReply
  /\ UNCHANGED <<registryVars, session, ctx, armed, busy,
                 activeConnections, activeStreams, streamData, habit, maxConnections>>

\* processMediaData and processDataMessage: metadata, sequence headers and
\* keyframes are cached under the stream's name, other frames are not.
processMediaData(c) ==
  /\ busy = c
  /\ ctx[c].state = "Publishing"
  /\ \/ streamData' = [streamData EXCEPT ![ctx[c].streamKey] = c]
     \/ UNCHANGED streamData
  /\ delivered' = relayToSubscribers(c, ctx[c].streamKey)
  /\ refused' = FALSE
  /\ NoReply
  /\ UNCHANGED <<registryVars, session, ctx, armed, busy,
                 activeConnections, activeStreams, habit, maxConnections>>

\* The batch is done: read again.  On a closed socket the read is dropped,
\* and the context with its callback.
startReading(c) ==
  /\ busy = c
  /\ busy' = NoConn
  /\ \/ /\ ctx[c].open
        /\ armed' = [armed EXCEPT ![c] = "read"]
        /\ UNCHANGED <<ctx, session>>
     \/ /\ ~ctx[c].open
        /\ ctx' = [ctx EXCEPT ![c] = NoContext]
        /\ session' = [session EXCEPT ![c] = FreshSession]
        /\ UNCHANGED armed
  /\ Quiet
  /\ UNCHANGED <<registryVars, activeConnections, activeStreams, streamData,
                 habit, maxConnections>>

\* stop and start, the event loop being joined between two callbacks:
\* connections_, the registry and the metrics are cleared, streamDataMap_
\* is not.  (ServerControl has the steps in between.)
restart ==
  /\ busy = NoConn
  /\ ctx' = [c \in Conns |-> NoContext]
  /\ session' = [c \in Conns |-> FreshSession]
  /\ armed' = [c \in Conns |-> "none"]
  /\ activeConnections' = 0
  /\ activeStreams' = 0
  /\ clear
  /\ Quiet
  /\ UNCHANGED <<busy, streamData, habit, maxConnections>>

\* updateConfig, on a thread of the program: a new limit holds for the next
\* accept, and a limit of 0 is not applied.
updateConfig(limit) ==
  /\ limit > 0
  /\ maxConnections' = limit
  /\ Quiet
  /\ UNCHANGED <<registryVars, session, ctx, armed, busy, activeConnections,
                 activeStreams, streamData, habit>>

EventLoop(c) ==
  \/ handleAccept(c)
  \/ processHandshake(c) \/ handshakeWritten(c)
  \/ connectionLost(c)
  \/ handleRead(c) \/ startReading(c)
  \/ processCommandMessage(c) \/ malformedCommand(c) \/ processMediaData(c)

ServerNext ==
  \/ \E c \in Conns : EventLoop(c)
  \/ restart
  \/ \E limit \in Limits : updateConfig(limit)

ServerSpec == ServerInit /\ [][ServerNext]_serverVars

-----------------------------------------------------------------------------

(***************************************************************************)
(* The metric activeConnections is the number of open connections, through *)
(* every way a connection can end, as long as all commands decoded; the    *)
(* state has its type whatever clients send.                               *)
(***************************************************************************)
ConnectionsCounted ==
  /\ ServerTypeOK
  /\ habit # "any" => activeConnections = Cardinality(Open)

(***************************************************************************)
(* The connection limit is honoured both ways, as it is at the moment: no  *)
(* client gets in when there are as many connections as configured, and    *)
(* none is turned away while there is room, as long as all commands        *)
(* decoded.                                                                *)
(***************************************************************************)
ConnectionLimit ==
  [][LET full == maxConnections > 0 /\ Cardinality(Open) >= maxConnections
     IN  habit # "any" => /\ Cardinality(Open') > Cardinality(Open) => ~full
                          /\ refused' => full]_serverVars

(***************************************************************************)
(* The event loop never forgets a connection: one that is open has a read  *)
(* or a write outstanding, or its batch is being processed.                *)
(***************************************************************************)
NeverForgotten == \A c \in Open : busy = c \/ armed[c] # "none"

(***************************************************************************)
(* If the clients have been orderly, the metric activeStreams is the       *)
(* number of connections publishing, and a registered stream belongs to a  *)
(* connection that is open, as do its subscribers: a client that           *)
(* disconnects leaves nothing behind.                                      *)
(***************************************************************************)
StreamsAccounted ==
  habit = "orderly" =>
    /\ activeStreams = Cardinality({c \in Open : ctx[c].state = "Publishing"})
    /\ \A k \in Keys : hasStream(k) =>
         streams[k].publisherId \in Open /\ streams[k].subscribers \subseteq Open

\* A connected publisher that the registry has as the owner of its key.
KeepsStream(c) ==
  session[c].state = "Publishing" =>
    LET k == KeyOf(c, session[c].streamKey)
    IN  hasStream(k) /\ streams[k].publisherId = c

(***************************************************************************)
(* The failure of one client's connection is isolated from the others      *)
(* (requirement 20.1), whatever commands the clients have sent: a          *)
(* connected publisher keeps its stream.                                   *)
(***************************************************************************)
DisconnectIsolated == \A c \in Open : KeepsStream(c)

(***************************************************************************)
(* Among orderly clients a connected publisher keeps its stream until it   *)
(* gives it up itself, whoever disconnects meanwhile, and what a           *)
(* subscriber receives live comes from the client that publishes the       *)
(* stream it plays.                                                        *)
(***************************************************************************)
StreamsOwned ==
  habit = "orderly" =>
    /\ \A c \in Open : KeepsStream(c)
    /\ \A d \in delivered : d.kind = "relayed" =>
         LET k == KeyOf(d.to, session[d.to].streamKey)
         IN  hasStream(k) /\ streams[k].publisherId = d.from
=============================================================================
