-------------------------- MODULE RTMPServerProofs --------------------------
(***************************************************************************)
(* Proofs about RTMPServer, for any finite set of connections and any      *)
(* applications, stream names, limits and counters.                        *)
(***************************************************************************)
EXTENDS RTMPServer, CommandHandlerProofs, FiniteSetTheorems

Active == {"Publishing", "Subscribing"}

(***************************************************************************)
(* What the parts of a connection have to do with each other: a callback   *)
(* is outstanding on an open socket that is not being processed, a batch   *)
(* belongs to a client past the handshake, and a session is fresh until    *)
(* then.                                                                   *)
(***************************************************************************)
ContextInv ==
  \A c \in Conns :
    /\ armed[c] # "none" => ctx[c].open /\ busy # c
    /\ ctx[c].open => busy = c \/ armed[c] # "none"
    /\ busy = c => ctx[c].state \notin {"None", "Handshaking"}
    /\ ctx[c].state \in {"None", "Handshaking"} => session[c] = FreshSession
    /\ ctx[c].state = "None" => ctx[c] = NoContext
    /\ ctx[c].state \in Active => ctx[c].streamKey \in Names

(***************************************************************************)
(* As long as all commands decode, a context is in use exactly while its   *)
(* connection is open, and the open connections are counted.               *)
(***************************************************************************)
CountInv ==
  habit # "any" =>
    /\ \A c \in Conns : ctx[c].open <=> ctx[c].state # "None"
    /\ activeConnections = Cardinality(Open)

\* The key closeConnection and relayToSubscribers build for a connection.
LiveKey(c) == <<LiveApp, ctx[c].streamKey>>
Publishers == {c \in Open : ctx[c].state = "Publishing"}

(***************************************************************************)
(* Among orderly clients the context agrees with the session, and the      *)
(* registry with both: streams are those of the publishing connections     *)
(* under the application live, subscribers play the stream they are        *)
(* registered for, and the publishers are counted.                         *)
(***************************************************************************)
AgreeInv ==
  \A c \in Conns :
    /\ session[c].appName \in {"", LiveApp}
    /\ ctx[c].state \notin Active => session[c].state = "Connected"
    /\ ctx[c].state \in Active => /\ session[c].state = ctx[c].state
                                  /\ session[c].streamKey = ctx[c].streamKey
    /\ ctx[c].state = "Publishing" =>
         hasStream(LiveKey(c)) /\ streams[LiveKey(c)].publisherId = c

RegisteredInv ==
  \A k \in Keys : hasStream(k) =>
    /\ ctx[streams[k].publisherId].state = "Publishing" /\ k = LiveKey(streams[k].publisherId)
    /\ \A s \in streams[k].subscribers : ctx[s].state = "Subscribing" /\ k = LiveKey(s)

\* What subscribers receive live comes from who publishes what they play.
RelayInv ==
  \A d \in delivered : d.kind = "relayed" =>
    hasStream(LiveKey(d.to)) /\ streams[LiveKey(d.to)].publisherId = d.from
      /\ ctx[d.to].state = "Subscribing"

OrderlyInv ==
  habit = "orderly" =>
    AgreeInv /\ RegisteredInv /\ RelayInv /\ activeStreams = Cardinality(Publishers)

ServerInv == ServerTypeOK /\ CoreInv /\ ContextInv /\ CountInv /\ OrderlyInv

(***************************************************************************)
(* A counter that is incremented or decremented keeps its width.           *)
(***************************************************************************)
LEMMA CounterRange ==
  ASSUME NEW a \in 0 .. (CounterSpace - 1)
  PROVE  /\ (a + 1) % CounterSpace \in 0 .. (CounterSpace - 1)
         /\ (a - 1) % CounterSpace \in 0 .. (CounterSpace - 1)
         /\ a + 1 < CounterSpace => (a + 1) % CounterSpace = a + 1
         /\ a > 0 => (a - 1) % CounterSpace = a - 1
BY ServerAssumption, Z3

(***************************************************************************)
(* Adding to or removing from a set of connections, and counting it.       *)
(***************************************************************************)
LEMMA Counting ==
  ASSUME NEW S, S \subseteq Conns, NEW c \in Conns
  PROVE  /\ Cardinality(S) \in 0 .. (CounterSpace - 1)
         /\ c \notin S => /\ Cardinality(S \cup {c}) = Cardinality(S) + 1
                          /\ Cardinality(S) + 1 < CounterSpace
         /\ c \in S => /\ Cardinality(S \ {c}) = Cardinality(S) - 1
                       /\ Cardinality(S) > 0
<1>1. IsFiniteSet(Conns) /\ IsFiniteSet(S) /\ IsFiniteSet(S \cup {c})
  BY ConnsAssumption, FS_Subset, FS_AddElement
<1>2. /\ Cardinality(S) \in Nat /\ Cardinality(S \cup {c}) \in Nat /\ Cardinality(Conns) \in Nat
      /\ Cardinality(S) <= Cardinality(Conns) /\ Cardinality(S \cup {c}) <= Cardinality(Conns)
  BY <1>1, FS_CardinalityType, FS_Subset
<1>3. c \notin S => Cardinality(S \cup {c}) = Cardinality(S) + 1
  BY <1>1, FS_AddElement
<1>4. c \in S => Cardinality(S \ {c}) = Cardinality(S) - 1
  BY <1>1, FS_RemoveElement
<1>5. c \in S => Cardinality(S) # 0
  BY <1>1, FS_EmptySet
<1> QED BY <1>2, <1>3, <1>4, <1>5, ConnsAssumption, ServerAssumption

(***************************************************************************)
(* What the types say of one connection.                                   *)
(***************************************************************************)
LEMMA ContextTypes ==
  ASSUME ServerInv
  PROVE  /\ ctx \in [Conns -> ConnectionContext]
         /\ \A c \in Conns : /\ ctx[c] \in ConnectionContext /\ ctx[c].open \in BOOLEAN
                             /\ ctx[c].state \in ContextStates
                             /\ session[c] \in SessionContext
         /\ armed \in [Conns -> {"none", "read", "write"}]
         /\ session \in [Conns -> SessionContext]
         /\ Open \subseteq Conns /\ Publishers \subseteq Conns
BY DEF ServerInv, ServerTypeOK, ConnectionContext, Open, Publishers, TypeOK, SessionTypeOK

(***************************************************************************)
(* Constants of the model that have their types.                           *)
(***************************************************************************)
LEMMA Blanks ==
  /\ FreshSession \in SessionContext /\ FreshSession.state = "Connected"
  /\ FreshSession.appName = "" /\ FreshSession.streamId = INVALID_STREAM_ID
  /\ NoContext \in ConnectionContext /\ NoContext.open = FALSE /\ NoContext.state = "None"
  /\ [conn |-> NoConn, answer |-> "none"] \in [conn : Conns \cup {NoConn}, answer : Answers]
<1>1. /\ FreshSession \in SessionContext /\ FreshSession.state = "Connected"
      /\ FreshSession.appName = "" /\ FreshSession.streamId = INVALID_STREAM_ID
  BY DEF FreshSession, SessionContext, SessionStates
<1>2. NoContext \in ConnectionContext /\ NoContext.open = FALSE /\ NoContext.state = "None"
  BY DEF NoContext, ConnectionContext, ContextStates
<1> QED BY <1>1, <1>2 DEF Answers

(***************************************************************************)
(* The core holds after a step that leaves the registry alone and at most  *)
(* forgets sessions.                                                       *)
(***************************************************************************)
LEMMA CoreUnmoved ==
  ASSUME CoreInv, UNCHANGED registryVars,
         reply' \in [conn : Conns \cup {NoConn}, answer : Answers],
         session' \in [Conns -> SessionContext],
         \A d \in Conns : session'[d] = session[d] \/ session'[d] = FreshSession
  PROVE  CoreInv'
<1>1. UNCHANGED <<streams, streamIdIndex, nextStreamId, releasedIds>>
  BY DEF registryVars
<1>2. TypeOK' /\ IndexSound'
  BY <1>1 DEF CoreInv, TypeOK, RegistryTypeOK, SessionTypeOK, IndexSound, hasStream
<1>3. SessionWellFormed'
  BY Blanks DEF CoreInv, SessionWellFormed
<1> QED BY <1>2, <1>3 DEF CoreInv

(***************************************************************************)
(* The count holds after a step that opens and closes no connection.       *)
(***************************************************************************)
LEMMA CountUnmoved ==
  ASSUME CountInv, habit' = habit, activeConnections' = activeConnections,
         \A d \in Conns : /\ ctx'[d].open = ctx[d].open
                          /\ ctx'[d].state = "None" <=> ctx[d].state = "None"
  PROVE  CountInv'
<1>1. Open' = Open
  BY DEF Open
<1> QED BY <1>1 DEF CountInv

(***************************************************************************)
(* The registry still agrees with contexts and sessions after a step that  *)
(* leaves the streams and those who publish or play alone.                 *)
(***************************************************************************)
LEMMA OrderlyUnmoved ==
  ASSUME ServerInv, streams' = streams, habit' = habit, activeStreams' = activeStreams,
         \A d \in Conns : session'[d] = session[d],
         \A d \in Conns :
           \/ ctx[d].state \notin Active /\ ctx'[d].state \notin Active
           \/ /\ ctx'[d].state = ctx[d].state /\ ctx'[d].streamKey = ctx[d].streamKey
              /\ ctx'[d].open = ctx[d].open,
         habit = "orderly" => RelayInv'
  PROVE  OrderlyInv'
<1> SUFFICES ASSUME habit = "orderly"
             PROVE  AgreeInv' /\ RegisteredInv' /\ activeStreams = Cardinality(Publishers')
  BY DEF OrderlyInv
<1>1. AgreeInv /\ RegisteredInv /\ activeStreams = Cardinality(Publishers)
  BY DEF ServerInv, OrderlyInv
<1>2. \A d \in Conns :
        /\ ctx'[d].state \in Active <=> ctx[d].state \in Active
        /\ ctx[d].state \in Active => /\ ctx'[d].state = ctx[d].state
                                      /\ ctx'[d].open = ctx[d].open
                                      /\ LiveKey(d)' = LiveKey(d)
                                      /\ ctx'[d].streamKey = ctx[d].streamKey
        /\ ctx'[d].state = "Publishing" <=> ctx[d].state = "Publishing"
        /\ ctx'[d].state = "Subscribing" <=> ctx[d].state = "Subscribing"
  BY DEF LiveKey, Active
<1>3. Publishers' = Publishers
  BY <1>2 DEF Publishers, Open, Active
<1>4. AgreeInv'
  <2>1. \A d \in Conns :
          /\ session'[d].appName \in {"", LiveApp}
          /\ ctx'[d].state \notin Active => session'[d].state = "Connected"
          /\ ctx'[d].state \in Active => /\ session'[d].state = ctx'[d].state
                                         /\ session'[d].streamKey = ctx'[d].streamKey
    <3> SUFFICES ASSUME NEW d \in Conns
                 PROVE  /\ session[d].appName \in {"", LiveApp}
                        /\ ctx'[d].state \notin Active => session[d].state = "Connected"
                        /\ ctx'[d].state \in Active => /\ session[d].state = ctx'[d].state
                                                       /\ session[d].streamKey = ctx'[d].streamKey
      OBVIOUS
    <3>1. /\ session[d].appName \in {"", LiveApp}
          /\ ctx[d].state \notin Active => session[d].state = "Connected"
          /\ ctx[d].state \in Active => /\ session[d].state = ctx[d].state
                                        /\ session[d].streamKey = ctx[d].streamKey
      BY <1>1 DEF AgreeInv
    <3>2. /\ ctx'[d].state \in Active <=> ctx[d].state \in Active
          /\ ctx[d].state \in Active => /\ ctx'[d].state = ctx[d].state
                                        /\ ctx'[d].streamKey = ctx[d].streamKey
      BY <1>2
    <3> QED BY ONLY <3>1, <3>2
  <2>2. \A d \in Conns : ctx'[d].state = "Publishing" =>
          LiveKey(d)' = LiveKey(d) /\ hasStream(LiveKey(d)) /\ streams[LiveKey(d)].publisherId = d
    BY <1>1, <1>2 DEF AgreeInv, Active
  <2>3. \A d \in Conns : ctx'[d].state = "Publishing" =>
          hasStream(LiveKey(d))' /\ (streams[LiveKey(d)].publisherId)' = d
    BY <2>2 DEF hasStream
  <2> QED BY <2>1, <2>3 DEF AgreeInv
<1>5. RegisteredInv'
  <2>1. \A k \in Keys : hasStream(k) => /\ streams[k].publisherId \in Conns
                                        /\ streams[k].subscribers \subseteq Conns
    BY DEF ServerInv, CoreInv, TypeOK, RegistryTypeOK, hasStream, StreamInfo
  <2> QED BY <1>1, <1>2, <2>1 DEF RegisteredInv, hasStream, Active
<1> QED BY <1>1, <1>3, <1>4, <1>5

(***************************************************************************)
(* A client that is accepted gets a context of its own and a read, one     *)
(* that is refused leaves no trace.                                        *)
(***************************************************************************)
LEMMA AcceptStep ==
  ASSUME ServerInv, NEW c \in Conns, handleAccept(c)
  PROVE  ServerInv'
<1>t. ServerTypeOK /\ CoreInv /\ ContextInv /\ CountInv /\ OrderlyInv
  BY DEF ServerInv
<1>u. /\ busy = NoConn /\ busy' = busy /\ ctx[c].state = "None" /\ ctx[c] = NoContext
      /\ delivered' = {} /\ reply' = [conn |-> NoConn, answer |-> "none"]
      /\ UNCHANGED <<registryVars, session, activeStreams, streamData, habit, maxConnections>>
      /\ refused' \in BOOLEAN
  BY <1>t DEF handleAccept, NewId, NoReply, ContextInv
<1>1. CoreInv'
  BY <1>u, <1>t, Blanks, ContextTypes, CoreUnmoved
<1>2. ASSUME ctx' \in [Conns -> ConnectionContext],
             armed' \in [Conns -> {"none", "read", "write"}],
             activeConnections' \in 0 .. (CounterSpace - 1)
      PROVE  ServerTypeOK'
  BY <1>1, <1>2, <1>u, <1>t DEF ServerTypeOK, CoreInv
<1>3. CASE UNCHANGED <<ctx, armed, activeConnections>>
  <2>1. ServerTypeOK'
    BY <1>2, <1>3, <1>t DEF ServerTypeOK
  <2>2. ContextInv'
    BY <1>3, <1>u, <1>t DEF ContextInv
  <2>3. CountInv'
    BY <1>3, <1>u, <1>t, CountUnmoved
  <2>4. OrderlyInv'
    BY <1>3, <1>u, OrderlyUnmoved DEF RelayInv, registryVars
  <2> QED BY <1>1, <2>1, <2>2, <2>3, <2>4 DEF ServerInv
<1>4. CASE /\ ctx' = [ctx EXCEPT ![c].open = TRUE, ![c].state = "Handshaking"]
           /\ armed' = [armed EXCEPT ![c] = "read"]
           /\ activeConnections' = (activeConnections + 1) % CounterSpace
  <2>1. /\ ctx' \in [Conns -> ConnectionContext]
        /\ ctx'[c].open = TRUE /\ ctx'[c].state = "Handshaking"
        /\ \A d \in Conns \ {c} : ctx'[d] = ctx[d]
    BY <1>4, ContextTypes DEF ConnectionContext, ContextStates
  <2>2. /\ armed' \in [Conns -> {"none", "read", "write"}]
        /\ armed'[c] = "read" /\ \A d \in Conns \ {c} : armed'[d] = armed[d]
    BY <1>4, ContextTypes
  <2>3. activeConnections \in 0 .. (CounterSpace - 1)
    BY <1>t DEF ServerTypeOK
  <2>4. ServerTypeOK'
    BY <1>2, <1>4, <2>1, <2>2, <2>3, CounterRange
  <2>5. ContextInv'
    <3>1. busy # c
      BY <1>u, NameAssumption
    <3>2. session'[c] = FreshSession
      BY <1>u, <1>t DEF ContextInv
    <3> QED BY <2>1, <2>2, <3>1, <3>2, <1>u, <1>t DEF ContextInv, Active
  <2>6. CountInv'
    <3> SUFFICES ASSUME habit # "any"
                 PROVE  /\ \A d \in Conns : ctx'[d].open <=> ctx'[d].state # "None"
                        /\ activeConnections' = Cardinality(Open')
      BY <1>u DEF CountInv
    <3>1. Open' = Open \cup {c} /\ c \notin Open
      BY <1>u, <2>1, Blanks, ContextTypes DEF Open
    <3>2. activeConnections = Cardinality(Open)
      BY <1>t DEF CountInv
    <3>3. activeConnections' = Cardinality(Open) + 1
      BY <3>1, <3>2, <2>3, <1>4, ContextTypes, Counting, CounterRange
    <3>4. Cardinality(Open') = Cardinality(Open) + 1
      BY <3>1, ContextTypes, Counting
    <3> QED BY <3>3, <3>4, <2>1, <1>t DEF CountInv
  <2>7. OrderlyInv'
    <3>1. \A d \in Conns : \/ ctx[d].state \notin Active /\ ctx'[d].state \notin Active
                           \/ ctx'[d] = ctx[d]
      BY <2>1, <1>u DEF Active
    <3> QED BY <3>1, <1>u, OrderlyUnmoved DEF RelayInv, registryVars
  <2> QED BY <1>1, <2>4, <2>5, <2>6, <2>7 DEF ServerInv
<1> QED BY <1>3, <1>4 DEF handleAccept
(***************************************************************************)
(* The reads and writes of the handshake, and a read that starts a batch:  *)
(* the callback that ran is replaced by the next one or by the batch.      *)
(***************************************************************************)
LEMMA ReadStep ==
  ASSUME ServerInv, NEW c \in Conns,
         processHandshake(c) \/ handshakeWritten(c) \/ handleRead(c)
  PROVE  ServerInv'
<1>t. ServerTypeOK /\ CoreInv /\ ContextInv /\ CountInv /\ OrderlyInv
  BY DEF ServerInv
<1>u. /\ busy = NoConn /\ armed[c] # "none" /\ ctx[c].open /\ ctx[c].state # "None"
      /\ delivered' = {} /\ reply' = [conn |-> NoConn, answer |-> "none"] /\ refused' = FALSE
      /\ UNCHANGED <<registryVars, session, activeConnections, activeStreams, streamData,
                     habit, maxConnections>>
  <2>1. armed[c] # "none" /\ busy = NoConn
    BY DEF processHandshake, handshakeWritten, handleRead
  <2>2. ctx[c].open /\ ctx[c].state # "None"
    BY <2>1, <1>t, Blanks DEF ContextInv
  <2> QED BY <2>1, <2>2 DEF processHandshake, handshakeWritten, handleRead, Quiet, NoReply
<1>1. CoreInv'
  BY <1>u, <1>t, Blanks, ContextTypes, CoreUnmoved
<1>2. /\ ctx' \in [Conns -> ConnectionContext]
      /\ \A d \in Conns \ {c} : ctx'[d] = ctx[d]
      /\ ctx'[c].open = ctx[c].open
      /\ \/ ctx'[c].state = ctx[c].state /\ ctx'[c].streamKey = ctx[c].streamKey
         \/ ctx[c].state = "Handshaking" /\ ctx'[c].state = "Connected"
  <2>1. CASE ctx' = ctx
    BY <2>1, ContextTypes
  <2>2. CASE ctx' = [ctx EXCEPT ![c].answered = TRUE]
    BY <2>2, ContextTypes DEF ConnectionContext
  <2>3. CASE ctx' = [ctx EXCEPT ![c].state = "Connected"] /\ ctx[c].state = "Handshaking"
    BY <2>3, ContextTypes DEF ConnectionContext, ContextStates
  <2> QED BY <2>1, <2>2, <2>3 DEF processHandshake, handshakeWritten, handleRead
<1>3. /\ armed' \in [Conns -> {"none", "read", "write"}]
      /\ \A d \in Conns \ {c} : armed'[d] = armed[d]
      /\ \/ armed'[c] # "none" /\ busy' = NoConn
         \/ armed'[c] = "none" /\ busy' = c /\ ctx'[c].state \notin {"None", "Handshaking"}
  <2>1. CASE processHandshake(c)
    <3>1. CASE armed' = [armed EXCEPT ![c] = "write"] /\ busy' = busy
      BY <3>1, <1>u, ContextTypes
    <3>2. CASE armed' = armed /\ busy' = busy
      BY <3>2, <1>u, ContextTypes
    <3>3. CASE /\ armed' = [armed EXCEPT ![c] = "none"] /\ busy' = c
               /\ ctx' = [ctx EXCEPT ![c].state = "Connected"]
      BY <3>3, <1>u, ContextTypes DEF ConnectionContext
    <3> QED BY <2>1, <3>1, <3>2, <3>3 DEF processHandshake
  <2>2. CASE handshakeWritten(c)
    BY <2>2, <1>u, ContextTypes DEF handshakeWritten
  <2>3. CASE handleRead(c)
    BY <2>3, <1>u, ContextTypes DEF handleRead
  <2> QED BY <2>1, <2>2, <2>3
<1>4. ServerTypeOK'
  BY <1>1, <1>2, <1>3, <1>u, <1>t DEF ServerTypeOK, CoreInv
<1>5. ContextInv'
  <2> SUFFICES ASSUME NEW d \in Conns
               PROVE  /\ armed'[d] # "none" => ctx'[d].open /\ busy' # d
                      /\ ctx'[d].open => busy' = d \/ armed'[d] # "none"
                      /\ busy' = d => ctx'[d].state \notin {"None", "Handshaking"}
                      /\ ctx'[d].state \in {"None", "Handshaking"} => session'[d] = FreshSession
                      /\ ctx'[d].state = "None" => ctx'[d] = NoContext
                      /\ ctx'[d].state \in Active => ctx'[d].streamKey \in Names
    BY DEF ContextInv
  <2>1. CASE d = c
    BY <2>1, <1>2, <1>3, <1>u, <1>t, NameAssumption DEF ContextInv, Active
  <2>2. CASE d # c
    BY <2>2, <1>2, <1>3, <1>u, <1>t, NameAssumption DEF ContextInv
  <2> QED BY <2>1, <2>2
<1>6. CountInv'
  BY <1>2, <1>u, <1>t, CountUnmoved
<1>7. OrderlyInv'
  <2>1. \A d \in Conns :
           \/ ctx[d].state \notin Active /\ ctx'[d].state \notin Active
           \/ /\ ctx'[d].state = ctx[d].state /\ ctx'[d].streamKey = ctx[d].streamKey
              /\ ctx'[d].open = ctx[d].open
    BY <1>2 DEF Active
  <2> QED BY <2>1, <1>u, OrderlyUnmoved DEF RelayInv, registryVars
<1> QED BY <1>1, <1>4, <1>5, <1>6, <1>7 DEF ServerInv

(***************************************************************************)
(* The end of a batch: the connection is read from again, or is gone with  *)
(* its session because a command closed it.                                *)
(***************************************************************************)
LEMMA ReadAgainStep ==
  ASSUME ServerInv, NEW c \in Conns, startReading(c)
  PROVE  ServerInv'
<1>t. ServerTypeOK /\ CoreInv /\ ContextInv /\ CountInv /\ OrderlyInv
  BY DEF ServerInv
<1>u. /\ busy = c /\ busy' = NoConn /\ ctx[c].state \notin {"None", "Handshaking"}
      /\ armed[c] = "none"
      /\ delivered' = {} /\ reply' = [conn |-> NoConn, answer |-> "none"] /\ refused' = FALSE
      /\ UNCHANGED <<registryVars, activeConnections, activeStreams, streamData,
                     habit, maxConnections>>
  BY <1>t DEF startReading, Quiet, NoReply, ContextInv
<1>n. \A d \in Conns : busy' # d
  BY <1>u, NameAssumption
<1>1. CASE /\ ctx[c].open
           /\ armed' = [armed EXCEPT ![c] = "read"]
           /\ UNCHANGED <<ctx, session>>
  <2>1. CoreInv'
    BY <1>1, <1>u, <1>t, Blanks, ContextTypes, CoreUnmoved
  <2>2. /\ armed' \in [Conns -> {"none", "read", "write"}]
        /\ armed'[c] = "read" /\ \A d \in Conns \ {c} : armed'[d] = armed[d]
    BY <1>1, ContextTypes
  <2>3. ServerTypeOK'
    BY <1>1, <2>1, <2>2, <1>u, <1>t DEF ServerTypeOK, CoreInv
  <2>4. ContextInv'
    BY <1>1, <1>n, <2>2, <1>u, <1>t DEF ContextInv
  <2>5. CountInv'
    BY <1>1, <1>u, <1>t, CountUnmoved
  <2>6. OrderlyInv'
    BY <1>1, <1>u, OrderlyUnmoved DEF RelayInv, registryVars
  <2> QED BY <2>1, <2>3, <2>4, <2>5, <2>6 DEF ServerInv
<1>2. CASE /\ ~ctx[c].open
           /\ ctx' = [ctx EXCEPT ![c] = NoContext]
           /\ session' = [session EXCEPT ![c] = FreshSession]
           /\ UNCHANGED armed
  <2>1. habit = "any"
    BY <1>2, <1>u, <1>t DEF CountInv
  <2>2. /\ session' \in [Conns -> SessionContext] /\ session'[c] = FreshSession
        /\ \A d \in Conns \ {c} : session'[d] = session[d]
        /\ ctx' \in [Conns -> ConnectionContext] /\ ctx'[c] = NoContext
        /\ \A d \in Conns \ {c} : ctx'[d] = ctx[d]
    BY <1>2, ContextTypes, Blanks
  <2>3. CoreInv'
    BY <2>2, <1>u, <1>t, Blanks, CoreUnmoved
  <2>4. ServerTypeOK'
    BY <1>2, <2>2, <2>3, <1>u, <1>t DEF ServerTypeOK, CoreInv
  <2>5. ContextInv'
    <3> SUFFICES ASSUME NEW d \in Conns
                 PROVE  /\ armed'[d] # "none" => ctx'[d].open
                        /\ ctx'[d].open => armed'[d] # "none"
                        /\ ctx'[d].state \in {"None", "Handshaking"} => session'[d] = FreshSession
                        /\ ctx'[d].state = "None" => ctx'[d] = NoContext
                        /\ ctx'[d].state \in Active => ctx'[d].streamKey \in Names
      BY <1>n DEF ContextInv
    <3>1. CASE d = c
      BY <3>1, <2>2, <1>2, <1>u, Blanks DEF Active
    <3>2. CASE d # c
      BY <3>2, <2>2, <1>2, <1>u, <1>t DEF ContextInv
    <3> QED BY <3>1, <3>2
  <2> QED BY <2>1, <2>3, <2>4, <2>5, <1>u DEF ServerInv, CountInv, OrderlyInv
<1> QED BY <1>1, <1>2 DEF startReading

(***************************************************************************)
(* Audio, video and metadata of a publisher: among orderly clients they    *)
(* reach those who play its stream.                                        *)
(***************************************************************************)
LEMMA MediaStep ==
  ASSUME ServerInv, NEW c \in Conns, processMediaData(c)
  PROVE  ServerInv'
<1>t. ServerTypeOK /\ CoreInv /\ ContextInv /\ CountInv /\ OrderlyInv
  BY DEF ServerInv
<1>u. /\ ctx[c].state = "Publishing" /\ ctx[c].streamKey \in Names
      /\ delivered' = relayToSubscribers(c, ctx[c].streamKey)
      /\ reply' = [conn |-> NoConn, answer |-> "none"] /\ refused' = FALSE
      /\ UNCHANGED <<registryVars, session, ctx, armed, busy, activeConnections,
                     activeStreams, habit, maxConnections>>
  BY <1>t DEF processMediaData, NoReply, ContextInv, Active
<1>1. CoreInv'
  BY <1>u, <1>t, Blanks, ContextTypes, CoreUnmoved
<1>2. streamData' \in [Names -> Conns \cup {NoConn}]
  BY <1>u, <1>t DEF processMediaData, ServerTypeOK
<1>k. LiveKey(c) \in Keys
  BY <1>u, ServerAssumption DEF LiveKey, Keys
<1>3. \A d \in delivered' :
        /\ d.from = c /\ d.to \in Conns /\ d.kind = "relayed" /\ d \in Delivery
        /\ hasStream(LiveKey(c)) /\ d.to \in streams[LiveKey(c)].subscribers
        /\ ctx[d.to].state = "Subscribing"
  <2>1. hasStream(LiveKey(c)) => streams[LiveKey(c)].subscribers \subseteq Conns
    BY <1>k, <1>t DEF CoreInv, TypeOK, RegistryTypeOK, hasStream, StreamInfo
  <2> QED BY <2>1, <1>u DEF relayToSubscribers, LiveKey, Delivery
<1>4. ServerTypeOK'
  BY <1>1, <1>2, <1>3, <1>u, <1>t DEF ServerTypeOK, CoreInv
<1>5. ContextInv'
  BY <1>u, <1>t DEF ContextInv
<1>6. CountInv'
  BY <1>u, <1>t, CountUnmoved
<1>7. habit = "orderly" => RelayInv'
  <2> SUFFICES ASSUME habit = "orderly", NEW d \in delivered'
               PROVE  /\ hasStream(LiveKey(d.to)) /\ streams[LiveKey(d.to)].publisherId = d.from
                      /\ ctx[d.to].state = "Subscribing"
    BY <1>u DEF RelayInv, hasStream, LiveKey, registryVars
  <2>1. AgreeInv /\ RegisteredInv
    BY <1>t DEF OrderlyInv
  <2>2. LiveKey(d.to) = LiveKey(c)
    BY <1>3, <1>k, <2>1 DEF RegisteredInv
  <2> QED BY <1>3, <1>u, <2>1, <2>2 DEF AgreeInv
<1>8. OrderlyInv'
  BY <1>7, <1>u, OrderlyUnmoved DEF registryVars
<1> QED BY <1>1, <1>4, <1>5, <1>6, <1>8 DEF ServerInv

(***************************************************************************)
(* A restart clears the connections, the registry and the counters; a new  *)
(* limit and a stuttering step touch none of them.                         *)
(***************************************************************************)
LEMMA ControlStep ==
  ASSUME ServerInv,
         restart \/ (\E limit \in Limits : updateConfig(limit)) \/ UNCHANGED serverVars
  PROVE  ServerInv'
<1>t. ServerTypeOK /\ CoreInv /\ ContextInv /\ CountInv /\ OrderlyInv
  BY DEF ServerInv
<1>1. CASE restart
  <2>u. /\ ctx' = [c \in Conns |-> NoContext] /\ session' = [c \in Conns |-> FreshSession]
        /\ armed' = [c \in Conns |-> "none"] /\ activeConnections' = 0 /\ activeStreams' = 0
        /\ streams' = [k \in Keys |-> NoStream] /\ streamIdIndex' = [i \in StreamIds |-> NoKey]
        /\ nextStreamId' = 1 /\ releasedIds' = << >> /\ busy = NoConn /\ busy' = busy
        /\ delivered' = {} /\ reply' = [conn |-> NoConn, answer |-> "none"] /\ refused' = FALSE
        /\ UNCHANGED <<streamData, habit, maxConnections>>
    BY <1>1 DEF restart, clear, Quiet, NoReply
  <2>1. CoreInv'
    <3>1. RegistryTypeOK' /\ IndexSound'
      BY <2>u, IdSpaceAssumption DEF RegistryTypeOK, IndexSound
    <3>2. SessionTypeOK' /\ SessionWellFormed'
      BY <2>u, Blanks DEF SessionTypeOK, SessionWellFormed
    <3> QED BY <3>1, <3>2 DEF CoreInv, TypeOK
  <2>2. 0 \in 0 .. (CounterSpace - 1)
    BY ServerAssumption
  <2>3. ServerTypeOK'
    BY <2>1, <2>2, <2>u, <1>t, Blanks DEF ServerTypeOK, CoreInv
  <2>4. ContextInv'
    BY <2>u, Blanks, NameAssumption DEF ContextInv, Active
  <2>5. Open' = {} /\ Publishers' = {}
    BY <2>u, Blanks DEF Open, Publishers
  <2>6. CountInv'
    BY <2>5, <2>u, Blanks, FS_EmptySet DEF CountInv
  <2>7. OrderlyInv'
    <3>1. AgreeInv'
      BY <2>u, Blanks DEF AgreeInv, Active
    <3>2. RegisteredInv' /\ RelayInv'
      BY <2>u DEF RegisteredInv, RelayInv, hasStream
    <3> QED BY <3>1, <3>2, <2>5, <2>u, FS_EmptySet DEF OrderlyInv
  <2> QED BY <2>1, <2>3, <2>4, <2>6, <2>7 DEF ServerInv
<1>2. CASE (\E limit \in Limits : updateConfig(limit)) \/ UNCHANGED serverVars
  <2>u. /\ UNCHANGED <<registryVars, session, ctx, armed, busy, activeConnections,
                       activeStreams, streamData, habit>>
        /\ maxConnections' \in Limits /\ refused' \in BOOLEAN
        /\ delivered' = {} \/ delivered' = delivered
        /\ reply' = [conn |-> NoConn, answer |-> "none"] \/ reply' = reply
    BY <1>2, <1>t DEF updateConfig, serverVars, registryVars, Quiet, NoReply, ServerTypeOK
  <2>1. reply' \in [conn : Conns \cup {NoConn}, answer : Answers]
    BY <2>u, <1>t, Blanks DEF CoreInv, TypeOK, SessionTypeOK
  <2>2. CoreInv'
    BY <2>1, <2>u, <1>t, ContextTypes, CoreUnmoved
  <2>3. ServerTypeOK'
    BY <2>2, <2>u, <1>t DEF ServerTypeOK, CoreInv
  <2>4. ContextInv'
    BY <2>u, <1>t DEF ContextInv
  <2>5. CountInv'
    BY <2>u, <1>t, CountUnmoved
  <2>6. habit = "orderly" => RelayInv'
    BY <2>u, <1>t DEF OrderlyInv, RelayInv, hasStream, LiveKey, registryVars
  <2>7. OrderlyInv'
    BY <2>6, <2>u, OrderlyUnmoved DEF registryVars
  <2> QED BY <2>2, <2>3, <2>4, <2>5, <2>7 DEF ServerInv
<1> QED BY <1>1, <1>2
(***************************************************************************)
(* closeConnection, whatever the habits of the clients: registry, types    *)
(* and contexts stay sound, and the session is kept only for the batch     *)
(* that is being processed.                                                *)
(***************************************************************************)
LEMMA CloseSound ==
  ASSUME ServerInv, NEW c \in Conns, closeConnection(c),
         UNCHANGED <<busy, maxConnections>>, habit' \in Habits
  PROVE  /\ ServerTypeOK' /\ CoreInv' /\ ContextInv'
         /\ ctx'[c].open = FALSE /\ \A d \in Conns \ {c} : ctx'[d] = ctx[d]
         /\ busy # c => ctx'[c] = NoContext /\ session'[c] = FreshSession
         /\ \A d \in Conns \ {c} : session'[d] = session[d]
<1>t. ServerTypeOK /\ CoreInv /\ ContextInv
  BY DEF ServerInv
<1>u. /\ delivered' = {} /\ reply' = [conn |-> NoConn, answer |-> "none"] /\ refused' = FALSE
      /\ ctx' = [ctx EXCEPT ![c] = IF busy = c THEN [ctx[c] EXCEPT !.open = FALSE] ELSE NoContext]
      /\ session' = [session EXCEPT ![c] = IF busy = c THEN session[c] ELSE FreshSession]
      /\ armed' = [armed EXCEPT ![c] = "none"]
      /\ activeConnections' = (activeConnections - 1) % CounterSpace
      /\ UNCHANGED <<nextStreamId, releasedIds, streamData>>
  BY ContextTypes DEF closeConnection, CloseSocket, Quiet, NoReply
<1>1. /\ session' \in [Conns -> SessionContext]
      /\ session'[c] \in {session[c], FreshSession}
      /\ busy = c => session'[c] = session[c]
      /\ busy # c => session'[c] = FreshSession
      /\ \A d \in Conns \ {c} : session'[d] = session[d]
  BY <1>u, ContextTypes, Blanks
<1>2. /\ ctx' \in [Conns -> ConnectionContext]
      /\ ctx'[c].open = FALSE
      /\ busy = c => ctx'[c].state = ctx[c].state /\ ctx'[c].streamKey = ctx[c].streamKey
      /\ busy # c => ctx'[c] = NoContext
      /\ \A d \in Conns \ {c} : ctx'[d] = ctx[d]
  <2>1. CASE busy = c
    <3>1. ctx' = [ctx EXCEPT ![c] = [ctx[c] EXCEPT !.open = FALSE]]
      BY <2>1, <1>u
    <3> QED BY <2>1, <3>1, ContextTypes DEF ConnectionContext
  <2>2. CASE busy # c
    BY <2>2, <1>u, ContextTypes, Blanks
  <2> QED BY <2>1, <2>2
<1>3. /\ streams' \in [Keys -> StreamInfo \cup {NoStream}]
      /\ streamIdIndex' \in [StreamIds -> Keys \cup {NoKey}]
      /\ IndexSound'
      /\ activeStreams' \in 0 .. (CounterSpace - 1)
  <2>t. RegistryTypeOK /\ IndexSound /\ activeStreams \in 0 .. (CounterSpace - 1)
    BY <1>t DEF CoreInv, TypeOK, ServerTypeOK
  <2>k. ctx[c].state \in Active => LiveKey(c) \in Keys
    BY <1>t, ServerAssumption DEF ContextInv, LiveKey, Keys
  <2>1. CASE ctx[c].state = "Publishing"
    <3>1. unregisterStream(LiveKey(c)) /\ activeStreams' = (activeStreams - 1) % CounterSpace
      BY <2>1 DEF closeConnection, LiveKey
    <3> QED BY <2>t, <2>k, <2>1, <3>1, UnregisterSound, CounterRange DEF Active
  <2>2. CASE ctx[c].state = "Subscribing"
    <3>1. removeSubscriber(LiveKey(c), c) /\ activeStreams' = activeStreams
      BY <2>2 DEF closeConnection, LiveKey
    <3> QED BY <2>t, <2>k, <2>2, <3>1, LeaveSound DEF Active, RegistryTypeOK
  <2>3. CASE ctx[c].state \notin Active
    <3>1. streams' = streams /\ streamIdIndex' = streamIdIndex /\ activeStreams' = activeStreams
      BY <2>3 DEF closeConnection, Active
    <3> QED BY <2>t, <3>1 DEF RegistryTypeOK, IndexSound, hasStream
  <2> QED BY <2>1, <2>2, <2>3 DEF Active
<1>4. CoreInv'
  <2>1. SessionWellFormed'
    BY ZenonT(60), <1>1, <1>t, Blanks DEF CoreInv, SessionWellFormed
  <2>2. TypeOK'
    BY <1>1, <1>3, <1>u, <1>t, Blanks DEF CoreInv, TypeOK, RegistryTypeOK, SessionTypeOK
  <2> QED BY <2>1, <2>2, <1>3 DEF CoreInv
<1>5. /\ armed' \in [Conns -> {"none", "read", "write"}]
      /\ armed'[c] = "none" /\ \A d \in Conns \ {c} : armed'[d] = armed[d]
  BY <1>u, ContextTypes
<1>6. ServerTypeOK'
  <2>1. activeConnections' \in 0 .. (CounterSpace - 1)
    BY <1>u, <1>t, CounterRange DEF ServerTypeOK
  <2> QED BY <2>1, <1>2, <1>3, <1>4, <1>5, <1>u, <1>t DEF ServerTypeOK, CoreInv
<1>7. ContextInv'
  <2> SUFFICES ASSUME NEW d \in Conns
               PROVE  /\ armed'[d] # "none" => ctx'[d].open /\ busy # d
                      /\ ctx'[d].open => busy = d \/ armed'[d] # "none"
                      /\ busy = d => ctx'[d].state \notin {"None", "Handshaking"}
                      /\ ctx'[d].state \in {"None", "Handshaking"} => session'[d] = FreshSession
                      /\ ctx'[d].state = "None" => ctx'[d] = NoContext
                      /\ ctx'[d].state \in Active => ctx'[d].streamKey \in Names
    BY DEF ContextInv
  <2>1. CASE d = c /\ busy = c
    BY <2>1, <1>1, <1>2, <1>5, <1>t DEF ContextInv
  <2>2. CASE d = c /\ busy # c
    BY <2>2, <1>1, <1>2, <1>5, Blanks DEF Active
  <2>3. CASE d # c
    BY <2>3, <1>1, <1>2, <1>5, <1>t DEF ContextInv
  <2> QED BY <2>1, <2>2, <2>3
<1> QED BY <1>1, <1>2, <1>4, <1>6, <1>7

(***************************************************************************)
(* A connection that is lost: it is counted down once, and among orderly   *)
(* clients its stream or its subscription goes with it, and no other.      *)
(***************************************************************************)
LEMMA LostStep ==
  ASSUME ServerInv, NEW c \in Conns, connectionLost(c)
  PROVE  ServerInv'
<1>t. ServerTypeOK /\ CoreInv /\ ContextInv /\ CountInv /\ OrderlyInv
  BY DEF ServerInv
<1>u. /\ busy # c /\ ctx[c].open /\ closeConnection(c)
      /\ UNCHANGED <<busy, habit, maxConnections>>
  BY <1>t DEF connectionLost, ContextInv
<1>1. /\ ServerTypeOK' /\ CoreInv' /\ ContextInv'
      /\ ctx'[c].open = FALSE /\ ctx'[c].state = "None" /\ session'[c] = FreshSession
      /\ \A d \in Conns \ {c} : ctx'[d] = ctx[d] /\ session'[d] = session[d]
  <2>1. habit' \in Habits
    BY <1>u, <1>t DEF ServerTypeOK
  <2> QED BY <1>u, <2>1, CloseSound, Blanks
<1>2. CountInv'
  <2> SUFFICES ASSUME habit # "any"
               PROVE  /\ \A d \in Conns : ctx'[d].open <=> ctx'[d].state # "None"
                      /\ activeConnections' = Cardinality(Open')
    BY <1>u DEF CountInv
  <2>1. Open' = Open \ {c} /\ c \in Open
    BY <1>u, <1>1 DEF Open
  <2>2. activeConnections = Cardinality(Open) /\ activeConnections \in 0 .. (CounterSpace - 1)
    BY <1>t DEF CountInv, ServerTypeOK
  <2>3. activeConnections' = (activeConnections - 1) % CounterSpace
    BY <1>u DEF closeConnection, CloseSocket
  <2>4. activeConnections' = Cardinality(Open) - 1
    BY <2>1, <2>2, <2>3, ContextTypes, Counting, CounterRange
  <2>5. Cardinality(Open') = Cardinality(Open) - 1
    BY <2>1, ContextTypes, Counting
  <2> QED BY <2>4, <2>5, <1>1, <1>t DEF CountInv
<1>3. OrderlyInv'
  <2> SUFFICES ASSUME habit = "orderly"
               PROVE  AgreeInv' /\ RegisteredInv' /\ RelayInv'
                      /\ activeStreams' = Cardinality(Publishers')
    BY <1>u DEF OrderlyInv
  <2>t. /\ AgreeInv /\ RegisteredInv /\ activeStreams = Cardinality(Publishers)
        /\ activeStreams \in 0 .. (CounterSpace - 1)
    BY <1>t DEF OrderlyInv, ServerTypeOK
  <2>r. RelayInv'
    BY <1>u DEF closeConnection, CloseSocket, Quiet, RelayInv
  <2>k. ctx[c].state \in Active => LiveKey(c) \in Keys
    BY <1>t, ServerAssumption DEF ContextInv, LiveKey, Keys
  <2>l. \A d \in Conns \ {c} : LiveKey(d)' = LiveKey(d)
    BY <1>1 DEF LiveKey
  <2>m. \A k \in Keys : hasStream(k) => /\ streams[k].publisherId \in Conns
                                        /\ streams[k].subscribers \subseteq Conns
    BY <1>t DEF CoreInv, TypeOK, RegistryTypeOK, hasStream, StreamInfo
  <2>s. ASSUME \A d \in Conns \ {c} : ctx[d].state = "Publishing" =>
                 streams'[LiveKey(d)] # NoStream /\ streams'[LiveKey(d)].publisherId = d
        PROVE  AgreeInv'
    <3> SUFFICES ASSUME NEW d \in Conns
                 PROVE  /\ session'[d].appName \in {"", LiveApp}
                        /\ ctx'[d].state \notin Active => session'[d].state = "Connected"
                        /\ ctx'[d].state \in Active => /\ session'[d].state = ctx'[d].state
                                                       /\ session'[d].streamKey = ctx'[d].streamKey
                        /\ ctx'[d].state = "Publishing" =>
                             hasStream(LiveKey(d))' /\ (streams[LiveKey(d)].publisherId)' = d
      BY DEF AgreeInv
    <3>1. CASE d = c
      BY <3>1, <1>1, Blanks DEF Active
    <3>2. CASE d # c
      <4>1. ctx'[d] = ctx[d] /\ session'[d] = session[d] /\ LiveKey(d)' = LiveKey(d)
        BY <3>2, <1>1, <2>l
      <4>2. ctx[d].state = "Publishing" =>
              hasStream(LiveKey(d))' /\ (streams[LiveKey(d)].publisherId)' = d
        BY <2>s, <3>2, <4>1 DEF hasStream
      <4> QED BY <4>1, <4>2, <2>t DEF AgreeInv
    <3> QED BY <3>1, <3>2
  <2>q. ASSUME \A k \in Keys : streams'[k] # NoStream =>
                 /\ hasStream(k) /\ streams'[k].publisherId = streams[k].publisherId
                 /\ streams[k].publisherId # c
                 /\ \A e \in streams'[k].subscribers : e \in streams[k].subscribers /\ e # c
        PROVE  RegisteredInv'
    <3> SUFFICES ASSUME NEW k \in Keys, streams'[k] # NoStream
                 PROVE  /\ ctx'[streams'[k].publisherId].state = "Publishing"
                        /\ k = <<LiveApp, ctx'[streams'[k].publisherId].streamKey>>
                        /\ \A e \in streams'[k].subscribers :
                             ctx'[e].state = "Subscribing" /\ k = <<LiveApp, ctx'[e].streamKey>>
      BY DEF RegisteredInv, hasStream, LiveKey
    <3>1. /\ ctx[streams[k].publisherId].state = "Publishing"
          /\ k = <<LiveApp, ctx[streams[k].publisherId].streamKey>>
          /\ \A e \in streams[k].subscribers :
               ctx[e].state = "Subscribing" /\ k = <<LiveApp, ctx[e].streamKey>>
      BY <2>q, <2>t DEF RegisteredInv, LiveKey
    <3> QED BY <3>1, <2>q, <2>m, <1>1
  <2>1. CASE ctx[c].state = "Publishing"
    <3>1. unregisterStream(LiveKey(c)) /\ activeStreams' = (activeStreams - 1) % CounterSpace
      BY <2>1, <1>u DEF closeConnection, LiveKey
    <3>2. /\ streams'[LiveKey(c)] = NoStream /\ LiveKey(c) \in Keys
          /\ \A k \in Keys \ {LiveKey(c)} : streams'[k] = streams[k]
      BY <2>1, <2>k, <3>1, <1>t, UnregisterSound DEF Active, CoreInv, TypeOK
    <3>3. AgreeInv'
      <4>1. ASSUME NEW d \in Conns \ {c}, ctx[d].state = "Publishing"
            PROVE  streams'[LiveKey(d)] # NoStream /\ streams'[LiveKey(d)].publisherId = d
        <5>1. hasStream(LiveKey(d)) /\ streams[LiveKey(d)].publisherId = d
          BY <4>1, <2>t DEF AgreeInv
        <5>2. streams[LiveKey(c)].publisherId = c
          BY <2>1, <2>t DEF AgreeInv
        <5>3. LiveKey(d) \in Keys \ {LiveKey(c)}
          BY <4>1, <5>1, <5>2, <1>t, ServerAssumption DEF ContextInv, LiveKey, Keys, Active
        <5> QED BY <5>1, <5>3, <3>2 DEF hasStream
      <4> QED BY <4>1, <2>s
    <3>4. RegisteredInv'
      <4>1. ASSUME NEW k \in Keys, streams'[k] # NoStream
            PROVE  /\ hasStream(k) /\ streams'[k] = streams[k]
                   /\ streams[k].publisherId # c /\ c \notin streams[k].subscribers
        <5>1. k # LiveKey(c) /\ streams'[k] = streams[k] /\ hasStream(k)
          BY <4>1, <3>2 DEF hasStream
        <5> QED BY <5>1, <2>1, <2>t DEF RegisteredInv
      <4> QED BY <4>1, <2>q
    <3>5. activeStreams' = Cardinality(Publishers')
      <4>1. Publishers' = Publishers \ {c} /\ c \in Publishers
        BY <2>1, <1>1, <1>u DEF Publishers, Open
      <4> QED BY <4>1, <3>1, <2>t, ContextTypes, Counting, CounterRange
    <3> QED BY <3>3, <3>4, <3>5, <2>r
  <2>2. CASE ctx[c].state # "Publishing"
    <3>1. /\ \A k \in Keys : hasStream(k) <=> streams'[k] # NoStream
          /\ \A k \in Keys : hasStream(k) =>
               /\ streams'[k].publisherId = streams[k].publisherId
               /\ streams'[k].subscribers \subseteq streams[k].subscribers
               /\ c \notin streams'[k].subscribers
          /\ activeStreams' = activeStreams
      <4>1. CASE ctx[c].state = "Subscribing"
        <5>1. removeSubscriber(LiveKey(c), c) /\ activeStreams' = activeStreams
          BY <4>1, <1>u DEF closeConnection, LiveKey
        <5>2. /\ \A k \in Keys : hasStream(k) <=> hasStream(k)'
              /\ \A k \in Keys : hasStream(k) =>
                   /\ streams'[k].publisherId = streams[k].publisherId
                   /\ streams'[k].subscribers = IF k = LiveKey(c) THEN streams[k].subscribers \ {c}
                                                ELSE streams[k].subscribers
          BY <4>1, <2>k, <5>1, <1>t, LeaveSound DEF Active, CoreInv, TypeOK
        <5>3. \A k \in Keys : hasStream(k) /\ k # LiveKey(c) => c \notin streams[k].subscribers
          BY <2>t DEF RegisteredInv
        <5> QED BY <5>1, <5>2, <5>3 DEF hasStream
      <4>2. CASE ctx[c].state # "Subscribing"
        <5>1. streams' = streams /\ activeStreams' = activeStreams
          BY <4>2, <2>2, <1>u DEF closeConnection
        <5>2. \A k \in Keys : hasStream(k) => c \notin streams[k].subscribers
          BY <4>2, <2>t DEF RegisteredInv
        <5> QED BY <5>1, <5>2 DEF hasStream
      <4> QED BY <4>1, <4>2
    <3>2. AgreeInv'
      <4>1. ASSUME NEW d \in Conns \ {c}, ctx[d].state = "Publishing"
            PROVE  streams'[LiveKey(d)] # NoStream /\ streams'[LiveKey(d)].publisherId = d
        <5>1. hasStream(LiveKey(d)) /\ streams[LiveKey(d)].publisherId = d
          BY <4>1, <2>t DEF AgreeInv
        <5>2. LiveKey(d) \in Keys
          BY <4>1, <1>t, ServerAssumption DEF ContextInv, LiveKey, Keys, Active
        <5> QED BY <5>1, <5>2, <3>1
      <4> QED BY <4>1, <2>s
    <3>3. RegisteredInv'
      <4>1. \A k \in Keys : hasStream(k) => streams[k].publisherId # c
        BY <2>2, <2>t DEF RegisteredInv
      <4> QED BY <4>1, <3>1, <2>q
    <3>4. Publishers' = Publishers
      BY <2>2, <1>1, <1>u DEF Publishers, Open
    <3> QED BY <3>1, <3>2, <3>3, <3>4, <2>t, <2>r
  <2> QED BY <2>1, <2>2
<1> QED BY <1>1, <1>2, <1>3 DEF ServerInv

(***************************************************************************)
(* A command that does not decode closes its connection within the batch.  *)
(***************************************************************************)
LEMMA MalformedStep ==
  ASSUME ServerInv, NEW c \in Conns, malformedCommand(c)
  PROVE  ServerInv'
<1>1. closeConnection(c) /\ UNCHANGED <<busy, maxConnections>> /\ habit' = "any" /\ habit' \in Habits
  BY DEF malformedCommand, Habits
<1> QED BY <1>1, CloseSound DEF ServerInv, CountInv, OrderlyInv
(***************************************************************************)
(* A command, whatever the habits of the clients: the context follows the  *)
(* session of its own connection.                                          *)
(***************************************************************************)
LEMMA CommandSound ==
  ASSUME ServerInv, NEW c \in Conns, processCommandMessage(c)
  PROVE  /\ ServerTypeOK' /\ CoreInv' /\ ContextInv' /\ CountInv'
         /\ ctx'[c].open = ctx[c].open /\ ctx[c].state \notin {"None", "Handshaking"}
         /\ \A d \in Conns \ {c} : ctx'[d] = ctx[d] /\ session'[d] = session[d]
         /\ session'[c].state \in Active =>
              ctx'[c].state = session'[c].state /\ ctx'[c].streamKey = session'[c].streamKey
         /\ \A d \in delivered' : d.kind = "cached"
<1>t. ServerTypeOK /\ CoreInv /\ ContextInv /\ CountInv
  BY DEF ServerInv
<1>u. /\ busy = c /\ processCommand(c) /\ refused' = FALSE
      /\ ctx[c].state \notin {"None", "Handshaking"}
      /\ UNCHANGED <<armed, busy, activeConnections, streamData, maxConnections>>
  BY <1>t DEF processCommandMessage, ContextInv
<1>1. CoreInv'
  BY <1>u, <1>t, CommandKeeps DEF StepKeeps
<1>2. /\ \A d \in Conns \ {c} : session'[d] = session[d]
      /\ session'[c] \in SessionContext
      /\ session'[c].state \in Active => session'[c].streamKey \in Names
      /\ session'[c].state \in {"Connected", "Publishing", "Subscribing"}
  <2>1. session'[c] \in SessionContext
    BY <1>1 DEF CoreInv, TypeOK, SessionTypeOK
  <2>2. session'[c].state # "Connected" => session'[c].streamKey # ""
    BY <1>1 DEF CoreInv, SessionWellFormed
  <2>3. \A d \in Conns \ {c} : session'[d] = session[d]
    BY <1>u, <1>t, CommandLocal
  <2> QED BY <2>1, <2>2, <2>3 DEF SessionContext, SessionStates, Active
<1>3. /\ habit' \in Habits /\ (habit' # "any" => habit # "any")
  BY <1>t DEF processCommandMessage, ServerTypeOK, Habits
<1>4. /\ ctx' \in [Conns -> ConnectionContext]
      /\ \A d \in Conns \ {c} : ctx'[d] = ctx[d]
      /\ ctx'[c].open = ctx[c].open
      /\ session'[c].state \in Active =>
           ctx'[c].state = session'[c].state /\ ctx'[c].streamKey = session'[c].streamKey
      /\ session'[c].state \notin Active => ctx' = ctx
  <2>1. CASE session'[c].state \in Active
    <3>1. ctx' = [ctx EXCEPT ![c].state = session'[c].state, ![c].streamKey = session'[c].streamKey]
      BY <2>1 DEF processCommandMessage, Active
    <3> QED BY ZenonT(60), <2>1, <3>1, <1>2, ContextTypes DEF ConnectionContext, ContextStates, Active
  <2>2. CASE session'[c].state \notin Active
    BY <2>2, <1>2, ContextTypes DEF processCommandMessage, Active
  <2> QED BY <2>1, <2>2
<1>5. /\ activeStreams' \in 0 .. (CounterSpace - 1)
      /\ delivered' \in SUBSET Delivery
      /\ \A d \in delivered' : d.kind = "cached"
  <2>1. activeStreams \in 0 .. (CounterSpace - 1) /\ streamData \in [Names -> Conns \cup {NoConn}]
    BY <1>t DEF ServerTypeOK
  <2>2. activeStreams' \in 0 .. (CounterSpace - 1)
    BY <2>1, CounterRange DEF processCommandMessage
  <2>3. CASE session'[c].state = "Subscribing"
    <3>1. delivered' = sendInitialStreamData(c, session'[c].streamKey)
      BY <2>3 DEF processCommandMessage
    <3> QED BY <2>1, <2>2, <2>3, <3>1, <1>2 DEF sendInitialStreamData, Delivery, Active
  <2>4. CASE session'[c].state # "Subscribing"
    BY <2>2, <2>4 DEF processCommandMessage
  <2> QED BY <2>3, <2>4
<1>6. ServerTypeOK'
  BY <1>1, <1>3, <1>4, <1>5, <1>u, <1>t DEF ServerTypeOK, CoreInv
<1>7. ctx'[c].state \notin {"None", "Handshaking"}
  BY <1>2, <1>4, <1>u DEF Active
<1>8. ContextInv'
  <2> SUFFICES ASSUME NEW d \in Conns
               PROVE  /\ armed[d] # "none" => ctx'[d].open /\ busy # d
                      /\ ctx'[d].open => busy = d \/ armed[d] # "none"
                      /\ busy = d => ctx'[d].state \notin {"None", "Handshaking"}
                      /\ ctx'[d].state \in {"None", "Handshaking"} => session'[d] = FreshSession
                      /\ ctx'[d].state = "None" => ctx'[d] = NoContext
                      /\ ctx'[d].state \in Active => ctx'[d].streamKey \in Names
    BY <1>u DEF ContextInv
  <2>1. CASE d = c
    BY <2>1, <1>2, <1>4, <1>7, <1>u, <1>t DEF ContextInv
  <2>2. CASE d # c
    BY <2>2, <1>2, <1>4, <1>u, <1>t DEF ContextInv
  <2> QED BY <2>1, <2>2
<1>9. CountInv'
  <2>1. Open' = Open
    BY <1>4 DEF Open
  <2>2. \A d \in Conns : /\ ctx'[d].open = ctx[d].open
                         /\ ctx'[d].state = "None" <=> ctx[d].state = "None"
    BY <1>4, <1>7, <1>u
  <2> QED BY <2>1, <2>2, <1>3, <1>u, <1>t DEF CountInv
<1> QED BY <1>1, <1>2, <1>4, <1>5, <1>6, <1>8, <1>9, <1>u

(***************************************************************************)
(* A command of an orderly client: it starts a stream under a free key of  *)
(* live or joins one, and is counted as a publisher when it starts one.    *)
(***************************************************************************)
LEMMA CommandStep ==
  ASSUME ServerInv, NEW c \in Conns, processCommandMessage(c)
  PROVE  ServerInv'
<1>t. ServerTypeOK /\ CoreInv /\ ContextInv /\ CountInv /\ OrderlyInv
  BY DEF ServerInv
<1>1. /\ ServerTypeOK' /\ CoreInv' /\ ContextInv' /\ CountInv'
      /\ ctx'[c].open = ctx[c].open /\ ctx[c].state # "None"
      /\ \A d \in Conns \ {c} : ctx'[d] = ctx[d] /\ session'[d] = session[d]
      /\ session'[c].state \in Active =>
           ctx'[c].state = session'[c].state /\ ctx'[c].streamKey = session'[c].streamKey
      /\ \A d \in delivered' : d.kind = "cached"
  BY CommandSound
<1>2. OrderlyInv'
  <2> SUFFICES ASSUME habit' = "orderly"
               PROVE  AgreeInv' /\ RegisteredInv' /\ RelayInv'
                      /\ activeStreams' = Cardinality(Publishers')
    BY DEF OrderlyInv
  <2>o. /\ habit = "orderly" /\ ctx[c].state = "Connected"
        /\ session'[c].appName \in {"", LiveApp} /\ processCommand(c)
    BY DEF processCommandMessage, Orderly
  <2>t. /\ AgreeInv /\ RegisteredInv /\ activeStreams = Cardinality(Publishers)
        /\ activeStreams \in 0 .. (CounterSpace - 1)
    BY <2>o, <1>t DEF OrderlyInv, ServerTypeOK
  <2>c. session[c].state = "Connected" /\ ctx[c].open
    BY <2>o, <2>t, <1>t DEF AgreeInv, Active, CountInv
  <2>r. RelayInv'
    BY <1>1 DEF RelayInv
  <2>l. \A d \in Conns \ {c} : LiveKey(d)' = LiveKey(d)
    BY <1>1 DEF LiveKey
  <2>m. \A k \in Keys : hasStream(k) =>
          /\ streams[k] \in StreamInfo
          /\ streams[k].publisherId \in Conns /\ streams[k].subscribers \subseteq Conns
          /\ streams[k].publisherId # c /\ c \notin streams[k].subscribers
    <3>1. \A k \in Keys : hasStream(k) => streams[k] \in StreamInfo
      BY <1>t DEF CoreInv, TypeOK, RegistryTypeOK, hasStream
    <3>2. \A k \in Keys : hasStream(k) =>
            streams[k].publisherId # c /\ c \notin streams[k].subscribers
      BY <2>o, <2>t DEF RegisteredInv
    <3> QED BY <3>1, <3>2 DEF StreamInfo
  <2>k. \A d \in Conns : ctx[d].state = "Publishing" => LiveKey(d) \in Keys
    BY <1>t, ServerAssumption DEF ContextInv, LiveKey, Keys, Active
  <2>s. ASSUME \A d \in Conns \ {c} : ctx[d].state = "Publishing" =>
                 streams'[LiveKey(d)] # NoStream /\ streams'[LiveKey(d)].publisherId = d,
               ctx'[c].state \notin Active => session'[c].state = "Connected",
               ctx'[c].state \in Active => session'[c].state \in Active,
               ctx'[c].state = "Publishing" =>
                 /\ streams'[<<LiveApp, session'[c].streamKey>>] # NoStream
                 /\ streams'[<<LiveApp, session'[c].streamKey>>].publisherId = c
        PROVE  AgreeInv'
    <3> SUFFICES ASSUME NEW d \in Conns
                 PROVE  /\ session'[d].appName \in {"", LiveApp}
                        /\ ctx'[d].state \notin Active => session'[d].state = "Connected"
                        /\ ctx'[d].state \in Active => /\ session'[d].state = ctx'[d].state
                                                       /\ session'[d].streamKey = ctx'[d].streamKey
                        /\ ctx'[d].state = "Publishing" =>
                             hasStream(LiveKey(d))' /\ (streams[LiveKey(d)].publisherId)' = d
      BY DEF AgreeInv
    <3>1. CASE d = c
      <4>1. ctx'[c].state \in Active => LiveKey(c)' = <<LiveApp, session'[c].streamKey>>
        BY <2>s, <1>1 DEF LiveKey
      <4> QED BY <3>1, <4>1, <2>o, <2>s, <1>1 DEF hasStream, Active
    <3>2. CASE d # c
      <4>1. ctx'[d] = ctx[d] /\ session'[d] = session[d] /\ LiveKey(d)' = LiveKey(d)
        BY <3>2, <1>1, <2>l
      <4>2. ctx[d].state = "Publishing" =>
              hasStream(LiveKey(d))' /\ (streams[LiveKey(d)].publisherId)' = d
        BY <2>s, <3>2, <4>1 DEF hasStream
      <4> QED BY <4>1, <4>2, <2>t DEF AgreeInv
    <3> QED BY <3>1, <3>2
  <2>1. CASE session'[c].state = "Connected" /\ streams' = streams
    <3>1. ctx' = ctx /\ activeStreams' = activeStreams
      BY <2>1 DEF processCommandMessage
    <3>2. AgreeInv'
      <4>1. \A d \in Conns : ctx[d].state = "Publishing" =>
               streams'[LiveKey(d)] # NoStream /\ streams'[LiveKey(d)].publisherId = d
        BY <2>1, <2>t DEF AgreeInv, hasStream
      <4> QED BY <4>1, <3>1, <2>1, <2>o, <2>s DEF Active
    <3>3. RegisteredInv'
      BY <2>1, <2>t, <3>1 DEF RegisteredInv, hasStream, LiveKey
    <3>4. Publishers' = Publishers
      BY <3>1 DEF Publishers, Open
    <3> QED BY <3>1, <3>2, <3>3, <3>4, <2>t, <2>r
  <2>2. ASSUME NEW name \in Names, NEW info \in StreamInfo, NEW key \in Keys,
               key = KeyOf(c, name), session[c].appName # "",
               session'[c].appName = session[c].appName,
               session'[c].state = "Publishing", session'[c].streamKey = name,
               ~hasStream(key), streams' = [streams EXCEPT ![key] = info],
               info.publisherId = c, info.subscribers = {}
        PROVE  /\ AgreeInv' /\ RegisteredInv' /\ activeStreams' = Cardinality(Publishers')
    <3>1. key = <<LiveApp, name>>
      BY <2>2, <2>o DEF KeyOf
    <3>2. ctx'[c].state = "Publishing" /\ ctx'[c].streamKey = name
      BY <2>2, <1>1 DEF Active
    <3>3. /\ streams'[key] = info /\ info # NoStream
          /\ \A k \in Keys \ {key} : streams'[k] = streams[k]
      BY <2>2, <1>t, NoEntryAssumption DEF CoreInv, TypeOK, RegistryTypeOK
    <3>4. AgreeInv'
      <4>1. ASSUME NEW d \in Conns \ {c}, ctx[d].state = "Publishing"
            PROVE  streams'[LiveKey(d)] # NoStream /\ streams'[LiveKey(d)].publisherId = d
        <5>1. LiveKey(d) \in Keys /\ hasStream(LiveKey(d)) /\ streams[LiveKey(d)].publisherId = d
          BY <4>1, <2>k, <2>t DEF AgreeInv
        <5> QED BY <5>1, <2>2, <3>3 DEF hasStream
      <4> QED BY <4>1, <3>1, <3>2, <3>3, <2>2, <2>s DEF Active
    <3>5. RegisteredInv'
      <4> SUFFICES ASSUME NEW k \in Keys, streams'[k] # NoStream
                   PROVE  /\ ctx'[streams'[k].publisherId].state = "Publishing"
                          /\ k = <<LiveApp, ctx'[streams'[k].publisherId].streamKey>>
                          /\ \A e \in streams'[k].subscribers :
                               ctx'[e].state = "Subscribing" /\ k = <<LiveApp, ctx'[e].streamKey>>
        BY DEF RegisteredInv, hasStream, LiveKey
      <4>1. CASE k = key
        BY <4>1, <3>1, <3>2, <3>3, <2>2
      <4>2. CASE k # key
        <5>1. streams'[k] = streams[k] /\ hasStream(k)
          BY <4>2, <3>3 DEF hasStream
        <5>2. /\ ctx[streams[k].publisherId].state = "Publishing"
              /\ k = <<LiveApp, ctx[streams[k].publisherId].streamKey>>
              /\ \A e \in streams[k].subscribers :
                   ctx[e].state = "Subscribing" /\ k = <<LiveApp, ctx[e].streamKey>>
          BY <5>1, <2>t DEF RegisteredInv, LiveKey
        <5> QED BY <5>1, <5>2, <2>m, <1>1
      <4> QED BY <4>1, <4>2
    <3>6. activeStreams' = Cardinality(Publishers')
      <4>1. Publishers' = Publishers \cup {c} /\ c \notin Publishers
        BY <3>2, <2>o, <2>c, <1>1 DEF Publishers, Open
      <4>2. activeStreams' = (activeStreams + 1) % CounterSpace
        BY <2>2 DEF processCommandMessage
      <4> QED BY <4>1, <4>2, <2>t, ContextTypes, Counting, CounterRange
    <3> QED BY <3>4, <3>5, <3>6
  <2>3. ASSUME NEW name \in Names, NEW key \in Keys,
               key = KeyOf(c, name), session[c].appName # "",
               session'[c].appName = session[c].appName,
               session'[c].state = "Subscribing", session'[c].streamKey = name,
               hasStream(key), streams' = [streams EXCEPT ![key].subscribers = @ \cup {c}]
        PROVE  /\ AgreeInv' /\ RegisteredInv' /\ activeStreams' = Cardinality(Publishers')
    <3>1. key = <<LiveApp, name>>
      BY <2>3, <2>o DEF KeyOf
    <3>2. ctx'[c].state = "Subscribing" /\ ctx'[c].streamKey = name
      BY <2>3, <1>1 DEF Active
    <3> DEFINE info == [streams[key] EXCEPT !.subscribers = @ \cup {c}]
    <3>i. /\ info \in StreamInfo /\ info.publisherId = streams[key].publisherId
          /\ info.subscribers = streams[key].subscribers \cup {c}
      BY <2>3, <2>m DEF StreamInfo
    <3>e. streams' = [streams EXCEPT ![key] = info]
      BY <2>3
    <3> HIDE DEF info
    <3>3. /\ streams'[key] = info /\ info # NoStream
          /\ \A k \in Keys \ {key} : streams'[k] = streams[k]
      BY <3>i, <3>e, <1>t, NoEntryAssumption DEF CoreInv, TypeOK, RegistryTypeOK
    <3>4. AgreeInv'
      <4>1. ASSUME NEW d \in Conns \ {c}, ctx[d].state = "Publishing"
            PROVE  streams'[LiveKey(d)] # NoStream /\ streams'[LiveKey(d)].publisherId = d
        <5>1. LiveKey(d) \in Keys /\ hasStream(LiveKey(d)) /\ streams[LiveKey(d)].publisherId = d
          BY <4>1, <2>k, <2>t DEF AgreeInv
        <5>2. CASE LiveKey(d) = key
          BY <5>1, <5>2, <3>i, <3>3
        <5>3. CASE LiveKey(d) # key
          BY <5>1, <5>3, <3>3 DEF hasStream
        <5> QED BY <5>2, <5>3
      <4> QED BY <4>1, <3>2, <2>3, <2>s DEF Active
    <3>5. RegisteredInv'
      <4> SUFFICES ASSUME NEW k \in Keys, streams'[k] # NoStream
                   PROVE  /\ ctx'[streams'[k].publisherId].state = "Publishing"
                          /\ k = <<LiveApp, ctx'[streams'[k].publisherId].streamKey>>
                          /\ \A e \in streams'[k].subscribers :
                               ctx'[e].state = "Subscribing" /\ k = <<LiveApp, ctx'[e].streamKey>>
        BY DEF RegisteredInv, hasStream, LiveKey
      <4>1. hasStream(k)
        BY <2>3, <3>3 DEF hasStream
      <4>2. /\ ctx[streams[k].publisherId].state = "Publishing"
            /\ k = <<LiveApp, ctx[streams[k].publisherId].streamKey>>
            /\ \A e \in streams[k].subscribers :
                 ctx[e].state = "Subscribing" /\ k = <<LiveApp, ctx[e].streamKey>>
        BY <4>1, <2>t DEF RegisteredInv, LiveKey
      <4>3. /\ streams'[k].publisherId = streams[k].publisherId
            /\ \A e \in streams'[k].subscribers : e \in streams[k].subscribers \/ (e = c /\ k = key)
        BY <3>i, <3>3
      <4> QED BY <4>1, <4>2, <4>3, <3>1, <3>2, <2>m, <1>1
    <3>6. Publishers' = Publishers
      BY <3>2, <2>o, <1>1 DEF Publishers, Open
    <3>7. activeStreams' = activeStreams
      BY <2>3 DEF processCommandMessage
    <3> QED BY <3>4, <3>5, <3>6, <3>7, <2>t
  <2>4. \/ session'[c].state = "Connected" /\ streams' = streams
        \/ \E name \in Names :
             /\ KeyOf(c, name) \in Keys /\ session[c].appName # ""
             /\ session'[c].appName = session[c].appName
             /\ session'[c].state = "Publishing" /\ session'[c].streamKey = name
             /\ ~hasStream(KeyOf(c, name))
             /\ streams' = [streams EXCEPT ![KeyOf(c, name)] =
                  [streamId |-> session[c].streamId, publisherId |-> c, subscribers |-> {}]]
             /\ [streamId |-> session[c].streamId, publisherId |-> c, subscribers |-> {}]
                  \in StreamInfo
        \/ \E name \in Names :
             /\ KeyOf(c, name) \in Keys /\ session[c].appName # ""
             /\ session'[c].appName = session[c].appName
             /\ session'[c].state = "Subscribing" /\ session'[c].streamKey = name
             /\ hasStream(KeyOf(c, name))
             /\ streams' = [streams EXCEPT ![KeyOf(c, name)].subscribers = @ \cup {c}]
    BY <2>o, <2>c, <1>t, CommandFromConnected
  <2> QED BY <2>1, <2>2, <2>3, <2>4, <2>r
<1> QED BY <1>1, <1>2 DEF ServerInv

-----------------------------------------------------------------------------

(***************************************************************************)
(* ServerInv is an invariant of the running server.                        *)
(***************************************************************************)
THEOREM ServerInvariance == ServerSpec => []ServerInv
<1>1. ServerInit => ServerInv
  <2> SUFFICES ASSUME ServerInit PROVE ServerInv
    OBVIOUS
  <2>u. /\ Init /\ ctx = [c \in Conns |-> NoContext] /\ armed = [c \in Conns |-> "none"]
        /\ busy = NoConn /\ maxConnections \in Limits /\ activeConnections = 0
        /\ activeStreams = 0 /\ refused = FALSE /\ streamData = [n \in Names |-> NoConn]
        /\ delivered = {} /\ habit = "orderly"
    BY DEF ServerInit
  <2>1. CoreInv /\ session = [c \in Conns |-> FreshSession] /\ streams = [k \in Keys |-> NoStream]
    BY <2>u, InitialIInv DEF IInv, Init, RegistryInit
  <2>2. ServerTypeOK
    <3>1. ctx \in [Conns -> ConnectionContext]
      BY <2>u, Blanks
    <3>2. armed \in [Conns -> {"none", "read", "write"}]
      BY <2>u
    <3>3. 0 \in 0 .. (CounterSpace - 1)
      BY ServerAssumption
    <3>4. streamData \in [Names -> Conns \cup {NoConn}]
      BY <2>u
    <3>5. TypeOK
      BY <2>1 DEF CoreInv
    <3>6. delivered \in SUBSET Delivery /\ habit \in Habits /\ refused \in BOOLEAN
      BY <2>u DEF Habits
    <3> QED BY <3>1, <3>2, <3>3, <3>4, <3>5, <3>6, <2>u DEF ServerTypeOK
  <2>3. ContextInv
    BY <2>u, <2>1, Blanks, NameAssumption DEF ContextInv, Active
  <2>4. Open = {} /\ Publishers = {}
    BY <2>u, Blanks DEF Open, Publishers
  <2>5. CountInv
    BY <2>4, <2>u, Blanks, FS_EmptySet DEF CountInv
  <2>6. AgreeInv
    BY <2>u, <2>1, Blanks DEF AgreeInv, Active
  <2>7. RegisteredInv /\ RelayInv
    BY <2>u, <2>1 DEF RegisteredInv, RelayInv, hasStream
  <2>8. OrderlyInv
    BY <2>4, <2>6, <2>7, <2>u, FS_EmptySet DEF OrderlyInv
  <2> QED BY <2>1, <2>2, <2>3, <2>5, <2>8 DEF ServerInv
<1>2. ServerInv /\ [ServerNext]_serverVars => ServerInv'
  <2> SUFFICES ASSUME ServerInv, [ServerNext]_serverVars PROVE ServerInv'
    OBVIOUS
  <2>1. ASSUME NEW c \in Conns, EventLoop(c) PROVE ServerInv'
    BY <2>1, AcceptStep, ReadStep, LostStep, ReadAgainStep, CommandStep, MalformedStep, MediaStep
    DEF EventLoop
  <2> QED BY <2>1, ControlStep DEF ServerNext
<1> QED BY <1>1, <1>2, PTL DEF ServerSpec

(***************************************************************************)
(* The metric activeConnections is the number of open connections, however *)
(* they come and go, as long as all commands decode.                       *)
(***************************************************************************)
THEOREM ConnectionsAreCounted == ServerSpec => []ConnectionsCounted
<1>1. ServerInv => ConnectionsCounted
  BY DEF ServerInv, CountInv, ConnectionsCounted
<1> QED BY <1>1, ServerInvariance, PTL

(***************************************************************************)
(* The event loop never forgets an open connection, whatever clients send. *)
(***************************************************************************)
THEOREM NoneForgotten == ServerSpec => []NeverForgotten
<1>1. ServerInv => NeverForgotten
  BY DEF ServerInv, ContextInv, NeverForgotten, Open
<1> QED BY <1>1, ServerInvariance, PTL

(***************************************************************************)
(* The server counts the publishers among orderly clients, and a client    *)
(* that disconnects leaves nothing behind in the registry.                 *)
(***************************************************************************)
THEOREM StreamsAreAccounted == ServerSpec => []StreamsAccounted
<1>1. ServerInv => StreamsAccounted
  <2> SUFFICES ASSUME ServerInv, habit = "orderly"
               PROVE  /\ activeStreams = Cardinality(Publishers)
                      /\ \A k \in Keys : hasStream(k) =>
                           streams[k].publisherId \in Open /\ streams[k].subscribers \subseteq Open
    BY DEF StreamsAccounted, Publishers
  <2>1. /\ RegisteredInv /\ activeStreams = Cardinality(Publishers)
        /\ \A c \in Conns : ctx[c].open <=> ctx[c].state # "None"
    BY DEF ServerInv, OrderlyInv, CountInv
  <2>2. \A k \in Keys : hasStream(k) => /\ streams[k].publisherId \in Conns
                                        /\ streams[k].subscribers \subseteq Conns
    BY DEF ServerInv, CoreInv, TypeOK, RegistryTypeOK, hasStream, StreamInfo
  <2> QED BY <2>1, <2>2 DEF RegisteredInv, Open
<1> QED BY <1>1, ServerInvariance, PTL

(***************************************************************************)
(* Among orderly clients a connected publisher keeps its stream, and what  *)
(* is relayed comes from the publisher of the stream that is played.       *)
(***************************************************************************)
THEOREM StreamsAreOwned == ServerSpec => []StreamsOwned
<1>1. ServerInv => StreamsOwned
  <2> SUFFICES ASSUME ServerInv, habit = "orderly"
               PROVE  /\ \A c \in Open : KeepsStream(c)
                      /\ \A d \in delivered : d.kind = "relayed" =>
                           LET k == KeyOf(d.to, session[d.to].streamKey)
                           IN  hasStream(k) /\ streams[k].publisherId = d.from
    BY DEF StreamsOwned
  <2>1. AgreeInv /\ RelayInv /\ SessionWellFormed
    BY DEF ServerInv, OrderlyInv, CoreInv
  <2>2. \A c \in Conns : ctx[c].state \in Active =>
          KeyOf(c, session[c].streamKey) = LiveKey(c)
    BY <2>1 DEF AgreeInv, SessionWellFormed, KeyOf, LiveKey, Active
  <2>3. ASSUME NEW c \in Open PROVE KeepsStream(c)
    <3>1. c \in Conns
      BY DEF Open
    <3>2. session[c].state = "Publishing" => ctx[c].state = "Publishing"
      BY <3>1, <2>1 DEF AgreeInv, Active
    <3> QED BY <3>1, <3>2, <2>1, <2>2 DEF KeepsStream, AgreeInv, Active
  <2>4. ASSUME NEW d \in delivered, d.kind = "relayed"
        PROVE  LET k == KeyOf(d.to, session[d.to].streamKey)
               IN  hasStream(k) /\ streams[k].publisherId = d.from
    <3>1. d.to \in Conns
      BY DEF ServerInv, ServerTypeOK, Delivery
    <3> QED BY <3>1, <2>1, <2>2, <2>4 DEF RelayInv, Active
  <2> QED BY <2>3, <2>4
<1> QED BY <1>1, ServerInvariance, PTL

(***************************************************************************)
(* The connection limit is honoured both ways by handleAccept, at the      *)
(* value it has at that moment.                                            *)
(***************************************************************************)
THEOREM LimitHonoured == ServerSpec => ConnectionLimit
<1> DEFINE full == maxConnections > 0 /\ Cardinality(Open) >= maxConnections
           Honoured == habit # "any" => /\ Cardinality(Open') > Cardinality(Open) => ~full
                                        /\ refused' => full
<1>1. ServerInv /\ ServerInv' /\ [ServerNext]_serverVars => [Honoured]_serverVars
  <2> SUFFICES ASSUME ServerInv, ServerInv', ServerNext, habit # "any"
               PROVE  /\ Cardinality(Open') > Cardinality(Open) => ~full
                      /\ refused' => full
    OBVIOUS
  <2>c. activeConnections = Cardinality(Open) /\ (LimitReached <=> full)
    BY DEF ServerInv, CountInv, LimitReached
  <2>s. ASSUME \A d \in Conns : ctx'[d].open => ctx[d].open
        PROVE  ~(Cardinality(Open') > Cardinality(Open))
    <3>1. IsFiniteSet(Open) /\ Open' \subseteq Open
      BY <2>s, ConnsAssumption, ContextTypes, FS_Subset DEF Open
    <3>2. Cardinality(Open') <= Cardinality(Open) /\ IsFiniteSet(Open')
      BY <3>1, FS_Subset
    <3> QED BY <3>1, <3>2, FS_CardinalityType
  <2>1. ASSUME NEW c \in Conns, handleAccept(c)
        PROVE  /\ Cardinality(Open') > Cardinality(Open) => ~full
               /\ refused' => full
    <3>1. CASE LimitReached
      <4>1. ctx' = ctx
        BY <2>1, <3>1 DEF handleAccept
      <4> QED BY <4>1, <3>1, <2>c, <2>s
    <3>2. CASE ~LimitReached
      BY <2>1, <3>2, <2>c DEF handleAccept
    <3> QED BY <3>1, <3>2
  <2>2. ASSUME NEW c \in Conns, processHandshake(c) \/ handshakeWritten(c) \/ handleRead(c)
        PROVE  refused' = FALSE /\ \A d \in Conns : ctx'[d].open => ctx[d].open
    <3>1. refused' = FALSE
      BY <2>2 DEF processHandshake, handshakeWritten, handleRead, Quiet
    <3>2. CASE ctx' = ctx
      BY <3>1, <3>2
    <3>3. CASE ctx' = [ctx EXCEPT ![c].answered = TRUE]
      BY <3>1, <3>3, ContextTypes DEF ConnectionContext
    <3>4. CASE ctx' = [ctx EXCEPT ![c].state = "Connected"]
      BY <3>1, <3>4, ContextTypes DEF ConnectionContext
    <3> QED BY <2>2, <3>2, <3>3, <3>4 DEF processHandshake, handshakeWritten, handleRead
  <2>3. ASSUME NEW c \in Conns, connectionLost(c) \/ malformedCommand(c)
        PROVE  refused' = FALSE /\ \A d \in Conns : ctx'[d].open => ctx[d].open
    <3>1. /\ closeConnection(c) /\ UNCHANGED <<busy, maxConnections>> /\ habit' \in Habits
      BY <2>3 DEF connectionLost, malformedCommand, Habits, ServerInv, ServerTypeOK
    <3>2. ctx'[c].open = FALSE /\ \A d \in Conns \ {c} : ctx'[d] = ctx[d]
      BY <3>1, CloseSound
    <3> QED BY <3>1, <3>2 DEF closeConnection, CloseSocket, Quiet
  <2>4. ASSUME NEW c \in Conns, startReading(c)
        PROVE  refused' = FALSE /\ \A d \in Conns : ctx'[d].open => ctx[d].open
    BY <2>4, ContextTypes, Blanks DEF startReading, Quiet
  <2>5. ASSUME NEW c \in Conns, processCommandMessage(c)
        PROVE  refused' = FALSE /\ \A d \in Conns : ctx'[d].open => ctx[d].open
    <3>1. refused' = FALSE
      BY <2>5 DEF processCommandMessage
    <3> QED BY <3>1, <2>5, CommandSound
  <2>6. ASSUME NEW c \in Conns, processMediaData(c)
        PROVE  refused' = FALSE /\ \A d \in Conns : ctx'[d].open => ctx[d].open
    BY <2>6 DEF processMediaData
  <2>7. ASSUME restart \/ \E limit \in Limits : updateConfig(limit)
        PROVE  refused' = FALSE /\ \A d \in Conns : ctx'[d].open => ctx[d].open
    BY <2>7, Blanks DEF restart, updateConfig, Quiet
  <2> QED BY <2>1, <2>2, <2>3, <2>4, <2>5, <2>6, <2>7, <2>s DEF ServerNext, EventLoop
<1> QED BY <1>1, ServerInvariance, PTL DEF ServerSpec, ConnectionLimit
=============================================================================
