--------------------------- MODULE CommandHandler ---------------------------
(***************************************************************************)
(* protocol::CommandHandler: what the RTMP commands of the connected       *)
(* clients do to their sessions and to the shared stream registry.  The    *)
(* commands of all clients run one at a time on the event-loop thread, in  *)
(* any order; a handler runs to its end before the next command.           *)
(*                                                                         *)
(* A response is abstracted to what it tells the client: success (_result, *)
(* onStatus "status"), failure (_error, onStatus "error") or nothing.      *)
(* An empty string of the code (no application, no stream key, an argument *)
(* that is missing or has the wrong type) is "".                           *)
(***************************************************************************)
EXTENDS StreamRegistry, TLC

CONSTANTS
  MaxStreamId,    \* bound: largest id handed out fresh
  MaxReleased,    \* bound: length of the stack of released ids
  ForeignDelete,  \* may deleteStream name an id the session does not hold?
  NoConn          \* no connection

ASSUME BoundAssumption ==
  /\ MaxStreamId \in Nat
  /\ MaxReleased \in Nat
  /\ ForeignDelete \in BOOLEAN
ASSUME NameAssumption == "" \notin Apps /\ "" \notin Names /\ NoConn \notin Conns

VARIABLES
  session,   \* the SessionContext of each connection
  reply      \* connection and answer of the last command processed

sessionVars == <<session, reply>>
vars == <<streams, streamIdIndex, nextStreamId, releasedIds, session, reply>>

SessionStates == {"Connected", "Publishing", "Subscribing"}
SessionContext == [state     : SessionStates,
                   appName   : Apps \cup {""},
                   streamId  : StreamIds \cup {INVALID_STREAM_ID},
                   streamKey : Names \cup {""}]
Answers == {"success", "failure", "none"}

SessionTypeOK ==
  /\ session \in [Conns -> SessionContext]
  /\ reply \in [conn : Conns \cup {NoConn}, answer : Answers]

TypeOK == RegistryTypeOK /\ SessionTypeOK

\* A session as the server hands it over once the handshake is complete.
FreshSession == [state     |-> "Connected",
                 appName   |-> "",
                 streamId  |-> INVALID_STREAM_ID,
                 streamKey |-> ""]

Init ==
  /\ RegistryInit
  /\ session = [c \in Conns |-> FreshSession]
  /\ reply = [conn |-> NoConn, answer |-> "none"]

-----------------------------------------------------------------------------

Answer(c, a) == reply' = [conn |-> c, answer |-> a]

\* A command that leaves the session and the registry alone.
NoEffect(c, a) == Answer(c, a) /\ UNCHANGED <<registryVars, session>>

KeyOf(c, name) == <<session[c].appName, name>>

\* connect: an already connected session keeps its application.
handleConnect(c, app) ==
  \/ /\ session[c].appName # ""
     /\ NoEffect(c, "failure")    \* NetConnection.Connect.Rejected
  \/ /\ session[c].appName = ""
     /\ app = ""
     /\ NoEffect(c, "failure")    \* NetConnection.Connect.InvalidApp
  \/ /\ session[c].appName = ""
     /\ app # ""
     /\ session' = [session EXCEPT ![c].appName = app, ![c].state = "Connected"]
     /\ Answer(c, "success")
     /\ UNCHANGED registryVars

\* createStream: a second one forgets the first id without releasing it.
handleCreateStream(c) ==
  \/ /\ session[c].appName = ""
     /\ NoEffect(c, "failure")    \* NetStream.Failed
  \/ /\ session[c].appName # ""
     /\ releasedIds # << >> \/ nextStreamId <= MaxStreamId
     /\ session' = [session EXCEPT ![c].streamId = AllocatedId]
     /\ allocateStreamId
     /\ Answer(c, "success")
     /\ UNCHANGED <<streams, streamIdIndex>>

\* Mutants: an empty name is not refused; the name is not looked up first.
publishUnnamed(c, name) ==
  /\ session[c].streamId # INVALID_STREAM_ID
  /\ name # "" => ~hasStream(KeyOf(c, name))
  /\ registerStream(KeyOf(c, name), session[c].streamId, c)
  /\ session' = [session EXCEPT ![c].state = "Publishing", ![c].streamKey = name]
  /\ Answer(c, "success")
  /\ UNCHANGED <<nextStreamId, releasedIds>>

publishTaken(c, name) ==
  \/ /\ session[c].streamId = INVALID_STREAM_ID \/ name = ""
     /\ NoEffect(c, "failure")
  \/ /\ session[c].streamId # INVALID_STREAM_ID /\ name # ""
     /\ registerStream(KeyOf(c, name), session[c].streamId, c)
     /\ session' = [session EXCEPT ![c].state = "Publishing", ![c].streamKey = name]
     /\ Answer(c, "success")
     /\ UNCHANGED <<nextStreamId, releasedIds>>

\* publish: no check that the session is not publishing or playing already.
handlePublish(c, name) ==
  \/ /\ session[c].streamId = INVALID_STREAM_ID
     /\ NoEffect(c, "failure")    \* NetStream.Publish.Failed
  \/ /\ session[c].streamId # INVALID_STREAM_ID
     /\ name = "" \/ (name # "" /\ hasStream(KeyOf(c, name)))
     /\ NoEffect(c, "failure")    \* NetStream.Publish.BadName
  \/ /\ session[c].streamId # INVALID_STREAM_ID
     /\ name # ""
     /\ ~hasStream(KeyOf(c, name))
     /\ registerStream(KeyOf(c, name), session[c].streamId, c)
     /\ session' = [session EXCEPT ![c].state = "Publishing", ![c].streamKey = name]
     /\ Answer(c, "success")
     /\ UNCHANGED <<nextStreamId, releasedIds>>

\* play: fails for a connection that already subscribes to the stream.
handlePlay(c, name) ==
  \/ /\ session[c].streamId = INVALID_STREAM_ID \/ name = ""
     /\ NoEffect(c, "failure")    \* NetStream.Play.Failed
  \/ /\ session[c].streamId # INVALID_STREAM_ID
     /\ name # ""
     /\ ~hasStream(KeyOf(c, name))
     /\ NoEffect(c, "failure")    \* NetStream.Play.StreamNotFound
  \/ /\ session[c].streamId # INVALID_STREAM_ID
     /\ name # ""
     /\ hasStream(KeyOf(c, name))
     /\ c \in streams[KeyOf(c, name)].subscribers
     /\ NoEffect(c, "failure")    \* NetStream.Play.Failed
  \/ /\ session[c].streamId # INVALID_STREAM_ID
     /\ name # ""
     /\ hasStream(KeyOf(c, name))
     /\ c \notin streams[KeyOf(c, name)].subscribers
     /\ addSubscriber(KeyOf(c, name), c)
     /\ session' = [session EXCEPT ![c].state = "Subscribing", ![c].streamKey = name]
     /\ Answer(c, "success")
     /\ UNCHANGED <<nextStreamId, releasedIds>>

\* Mutant: a subscriber ends the stream it leaves.
detachEndsStream(c) ==
  \/ /\ session[c].state # "Connected"
     /\ unregisterStream(KeyOf(c, session[c].streamKey))
  \/ /\ session[c].state = "Connected"
     /\ UNCHANGED <<streams, streamIdIndex>>

\* The part deleteStream and closeStream share: give up the current stream.
DetachStream(c) ==
  \/ /\ session[c].state = "Publishing"
     /\ unregisterStream(KeyOf(c, session[c].streamKey))
  \/ /\ session[c].state = "Subscribing"
     /\ removeSubscriber(KeyOf(c, session[c].streamKey), c)
  \/ /\ session[c].state = "Connected"
     /\ UNCHANGED <<streams, streamIdIndex>>

\* Mutant: the session's state is not reset.
deleteKeepsState(c, arg) ==
  LET target == IF arg = INVALID_STREAM_ID THEN session[c].streamId ELSE arg
  IN  /\ target # INVALID_STREAM_ID
      /\ Len(releasedIds) < MaxReleased
      /\ DetachStream(c)
      /\ releaseStreamId(target)
      /\ session' = [session EXCEPT ![c].streamId = INVALID_STREAM_ID]
      /\ Answer(c, "none")
      /\ UNCHANGED nextStreamId

\* deleteStream: the id of the argument is released, not the session's own,
\* and the session gives up its stream whatever the argument says.
handleDeleteStream(c, arg) ==
  LET target == IF arg = INVALID_STREAM_ID THEN session[c].streamId ELSE arg
  IN
  \/ /\ target = INVALID_STREAM_ID
     /\ NoEffect(c, "none")
  \/ /\ target # INVALID_STREAM_ID
     /\ Len(releasedIds) < MaxReleased
     /\ DetachStream(c)
     /\ releaseStreamId(target)
     /\ session' = [session EXCEPT ![c].state = "Connected",
                                   ![c].streamId = INVALID_STREAM_ID,
                                   ![c].streamKey = ""]
     /\ Answer(c, "none")
     /\ UNCHANGED nextStreamId

\* closeStream: the stream id stays with the session.
handleCloseStream(c) ==
  /\ DetachStream(c)
  /\ session' = [session EXCEPT ![c].state = "Connected", ![c].streamKey = ""]
  /\ Answer(c, "none")
  /\ UNCHANGED <<nextStreamId, releasedIds>>

\* releaseStream, FCPublish and FCUnpublish are acknowledged, data commands
\* and unknown commands are ignored.
OtherCommand(c, a) == NoEffect(c, a)

DeleteArgs(c) == IF ForeignDelete THEN StreamIds \cup {INVALID_STREAM_ID}
                                  ELSE {INVALID_STREAM_ID, session[c].streamId}

processCommand(c) ==
  \/ \E app \in Apps \cup {""} : handleConnect(c, app)
  \/ handleCreateStream(c)
  \/ \E name \in Names \cup {""} : handlePublish(c, name) \/ handlePlay(c, name)
  \/ \E arg \in DeleteArgs(c) : handleDeleteStream(c, arg)
  \/ handleCloseStream(c)
  \/ \E a \in {"success", "none"} : OtherCommand(c, a)

Next == \E c \in Conns : processCommand(c)

Spec == Init /\ [][Next]_vars

\* No action or property tells two connections or two stream names apart.
Symmetry == Permutations(Conns) \cup Permutations(Names)

-----------------------------------------------------------------------------

(***************************************************************************)
(* A session that publishes or plays has been through connect and          *)
(* createStream and knows its key, and only a connected session holds a    *)
(* stream id: no order of commands skips a stage of the protocol.          *)
(***************************************************************************)
SessionWellFormed ==
  \A c \in Conns :
    /\ session[c].state # "Connected" =>
         session[c].streamId # INVALID_STREAM_ID /\ session[c].streamKey # ""
    /\ session[c].streamId # INVALID_STREAM_ID => session[c].appName # ""

(***************************************************************************)
(* A session that believes it is publishing is the publisher the registry  *)
(* has for its key: no command of another client takes the stream away,    *)
(* and two sessions never publish the same key (requirement 3.7).          *)
(***************************************************************************)
PublisherOwnsStream ==
  \A c \in Conns : session[c].state = "Publishing" =>
    LET k == KeyOf(c, session[c].streamKey)
    IN  hasStream(k) /\ streams[k].publisherId = c

(***************************************************************************)
(* allocateStreamId promises unique ids: two sessions never hold the same  *)
(* id, and an id that is held is not waiting to be handed out again.       *)
(***************************************************************************)
UniqueStreamIds ==
  \A c \in Conns : session[c].streamId # INVALID_STREAM_ID =>
    /\ \A d \in Conns \ {c} : session[d].streamId # session[c].streamId
    /\ \A i \in 1 .. Len(releasedIds) : releasedIds[i] # session[c].streamId

(***************************************************************************)
(* Key ownership as the registry records it implements StreamDirectory: a  *)
(* key is only ever acquired when free, and released by its publisher.     *)
(***************************************************************************)
Directory == INSTANCE StreamDirectory WITH
  owner <- [k \in Keys |-> IF hasStream(k) THEN streams[k].publisherId ELSE NoConn],
  actor <- reply.conn

ImplementsDirectory == Directory!Spec

=============================================================================
