------------------------------- MODULE Session -------------------------------
(***************************************************************************)
(* streaming::Session.  Each method runs under mutex_, so it is one step.  *)
(* A session may be moved into another one; the moved-from object keeps    *)
(* its state and loses its stream key and its callback.                    *)
(***************************************************************************)
EXTENDS Naturals, Sequences

CONSTANTS
  Sessions,
  SessionKeys,        \* the keys of streams; the default StreamKey() names none
  MaxTransitions      \* bound: state changes a session goes through
ASSUME SessionAssumption == MaxTransitions \in Nat /\ "" \notin SessionKeys

VARIABLES
  sessions,     \* state_, streamKey_, streamId_, allocatedStreamId_, callback
  moved,        \* history: sessions that were moved from
  recompleted,  \* history: completeHandshake succeeded while a stream was active
  told          \* history: per session object, the <<old, new>> pairs its callback got
sessionVars == <<sessions, moved, recompleted, told>>

SessionStates == {"Connecting", "Handshaking", "Connected", "Publishing", "Subscribing", "Disconnected"}
NoKey == ""
NewSession == [state |-> "Connecting", key |-> NoKey, sid |-> 0, allocated |-> 0, watched |-> FALSE]

SessionInit ==
  /\ sessions = [s \in Sessions |-> NewSession]
  /\ moved = {} /\ recompleted = FALSE /\ told = [s \in Sessions |-> <<>>]

isValidTransition(from, to) ==
  to \in CASE from = "Connecting"  -> {"Handshaking", "Disconnected"}
           [] from = "Handshaking" -> {"Connected", "Disconnected"}
           [] from = "Connected"   -> {"Publishing", "Subscribing", "Disconnected"}
           [] from \in {"Publishing", "Subscribing"} -> {"Connected", "Disconnected"}
           [] OTHER -> {}

\* The new state and stream, then emitStateChange.
emitStateChange(s, to, key, sid) ==
  /\ Len(told[s]) < MaxTransitions
  /\ sessions' = [sessions EXCEPT ![s].state = to, ![s].key = key, ![s].sid = sid]
  /\ told' = IF sessions[s].watched THEN [told EXCEPT ![s] = Append(@, <<sessions[s].state, to>>)] ELSE told
  /\ UNCHANGED moved

startHandshake(s) ==
  /\ isValidTransition(sessions[s].state, "Handshaking")
  /\ emitStateChange(s, "Handshaking", sessions[s].key, sessions[s].sid)
  /\ UNCHANGED recompleted

\* The transition table also lets it through while a stream is active: the
\* session is then Connected and still names the stream.
completeHandshake(s) ==
  /\ isValidTransition(sessions[s].state, "Connected")
  /\ emitStateChange(s, "Connected", sessions[s].key, sessions[s].sid)
  /\ recompleted' = (recompleted \/ sessions[s].state # "Handshaking")

startPublishing(s, key) ==
  /\ isValidTransition(sessions[s].state, "Publishing")
  /\ emitStateChange(s, "Publishing", key, sessions[s].allocated)
  /\ UNCHANGED recompleted

stopPublishing(s) ==
  /\ sessions[s].state = "Publishing"
  /\ emitStateChange(s, "Connected", NoKey, 0)
  /\ UNCHANGED recompleted

startSubscribing(s, key) ==
  /\ isValidTransition(sessions[s].state, "Subscribing")
  /\ emitStateChange(s, "Subscribing", key, sessions[s].allocated)
  /\ UNCHANGED recompleted

stopSubscribing(s) ==
  /\ sessions[s].state = "Subscribing"
  /\ emitStateChange(s, "Connected", NoKey, 0)
  /\ UNCHANGED recompleted

\* Mutant: disconnect without performDisconnectCleanup.
disconnectKeepsStream(s) ==
  /\ sessions[s].state # "Disconnected"
  /\ emitStateChange(s, "Disconnected", sessions[s].key, sessions[s].sid)
  /\ UNCHANGED recompleted

\* performDisconnectCleanup clears the stream; the allocated id stays.
disconnect(s) ==
  /\ sessions[s].state # "Disconnected"
  /\ emitStateChange(s, "Disconnected", NoKey, 0)
  /\ UNCHANGED recompleted

setAllocatedStreamId(s) ==
  /\ sessions' = [sessions EXCEPT ![s].allocated = 1]
  /\ UNCHANGED <<moved, recompleted, told>>

releaseAllocatedStreamId(s) ==
  /\ sessions' = [sessions EXCEPT ![s].allocated = 0]
  /\ UNCHANGED <<moved, recompleted, told>>

setStateChangeCallback(s) ==
  /\ ~sessions[s].watched /\ told[s] = <<>>
  /\ sessions' = [sessions EXCEPT ![s].watched = TRUE]
  /\ UNCHANGED <<moved, recompleted, told>>

\* Move assignment: the callback moves with the session it reports on.
moveSession(to, from) ==
  /\ to # from /\ from \notin moved
  /\ sessions' = [sessions EXCEPT ![to] = sessions[from], ![from].key = NoKey, ![from].watched = FALSE]
  /\ moved' = (moved \union {from}) \ {to}
  /\ told' = [told EXCEPT ![to] = told[from], ![from] = <<>>]
  /\ UNCHANGED recompleted

SessionNext ==
  \E s \in Sessions :
    \/ startHandshake(s) \/ completeHandshake(s) \/ stopPublishing(s) \/ stopSubscribing(s)
    \/ disconnect(s) \/ setAllocatedStreamId(s) \/ releaseAllocatedStreamId(s)
    \/ setStateChangeCallback(s)
    \/ \E key \in SessionKeys : startPublishing(s, key) \/ startSubscribing(s, key)
    \/ \E from \in Sessions : moveSession(s, from)

-----------------------------------------------------------------------------

(***************************************************************************)
(* Unless the handshake was completed a second time, a session names a     *)
(* stream exactly while it publishes or subscribes, through moves and      *)
(* disconnects in any state (a moved-from session has lost its key).  What *)
(* the state-change callback was told is a connected path of the session's *)
(* states that ends in the state it is in, with nothing after Disconnected.*)
(***************************************************************************)
SessionSound ==
  \A s \in Sessions :
    /\ sessions[s].state \in SessionStates
    /\ ~recompleted => /\ sessions[s].key # NoKey => sessions[s].state \in {"Publishing", "Subscribing"}
                       /\ s \notin moved /\ sessions[s].state \in {"Publishing", "Subscribing"}
                            => sessions[s].key # NoKey
    /\ \A i \in 1..(Len(told[s]) - 1) : told[s][i][2] = told[s][i + 1][1] /\ told[s][i][2] # "Disconnected"
    /\ told[s] # <<>> => told[s][Len(told[s])][2] = sessions[s].state
=============================================================================
