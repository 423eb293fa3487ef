--------------------------- MODULE ServerControl ---------------------------
(***************************************************************************)
(* Starting and stopping api::RTMPServer: the threads that call            *)
(* initialize, start, stop and forceStop, and the event-loop thread that   *)
(* start creates and the stops join.  What that thread does with a         *)
(* connection is in RTMPServer; here it accepts clients, loses them, and   *)
(* runs the program's event callback.                                      *)
(*                                                                         *)
(* The step of a thread goes from one lock, unlock, join or write another  *)
(* thread can see to the next.  state_ is read by the event loop without   *)
(* mutex_.  A call that finds it has nothing to do (start while Running,   *)
(* stop while Stopped, any call in a wrong state) changes nothing and is   *)
(* not a step.  The getters only matter where a callback calls one.        *)
(***************************************************************************)
EXTENDS Naturals, FiniteSets

CONSTANTS
  Threads,   \* threads of the program that call the API
  Clients,   \* clients that connect
  Nobody,    \* no thread: the value of a free mutex
  Loop,      \* the event-loop thread as the holder of a mutex
  MaxCalls   \* bound on the calls a thread makes

ASSUME ControlAssumption ==
  /\ IsFiniteSet(Threads) /\ IsFiniteSet(Clients)
  /\ Nobody \notin Threads /\ Loop \notin Threads /\ Nobody # Loop
  /\ MaxCalls \in Nat

VARIABLES
  state,          \* state_
  mutex,          \* holder of mutex_
  callbackMutex,  \* holder of callbackMutex_
  pc,             \* where each thread of the program is
  forced,         \* is the stop it executes forceStop?
  calls,          \* calls each thread has made
  loop,           \* where the event-loop thread is
  stopRequested,  \* the network PAL's stopRequested_
  joinable,       \* eventLoopThread_.joinable()
  listening,      \* is there a server socket?
  accepting,      \* is an accept outstanding on it?
  rearm,          \* does the callback that runs re-arm the accept at its end?
  client,         \* what the server has of each client
  failure,        \* "none", or how the thread library was misused
  used            \* what has happened so far, of Uses

\* What needs more than the locks: a client connects before start has
\* returned, the program stops before the event loop runs its first turn,
\* calls forceStop while another thread is in stop, and calls the API from
\* the event callback.
Uses == {"early client", "early stop", "force during stop", "reentrant"}

apiVars == <<state, mutex, pc, forced, calls>>
loopVars == <<loop, stopRequested, joinable>>
acceptVars == <<listening, accepting, rearm, client>>
vars == <<state, mutex, callbackMutex, pc, forced, calls, loop, stopRequested,
          joinable, listening, accepting, rearm, client, failure, used>>

\* Where a thread is with mutex_ in its hands, and where without.
Holding == {"bind", "run", "signal", "close", "emit", "callback", "getter"}
Waiting == {"idle", "grace", "relock"}
\* stop joins without mutex_, forceStop with it.
Joining == {"join", "joining"}

Owns(t) == pc[t] \in Holding \/ (pc[t] \in Joining /\ forced[t])

TypeOK ==
  /\ state \in {"Uninitialized", "Initialized", "Starting", "Running",
                "Stopping", "Stopped"}
  /\ mutex \in Threads \cup {Nobody}
  /\ callbackMutex \in Threads \cup {Nobody, Loop}
  /\ pc \in [Threads -> Holding \cup Waiting \cup Joining]
  /\ forced \in [Threads -> BOOLEAN]
  /\ calls \in [Threads -> 0 .. MaxCalls]
  /\ loop \in {"none", "born", "turning", "emit", "callback", "getter", "ended"}
  /\ stopRequested \in BOOLEAN /\ joinable \in BOOLEAN
  /\ listening \in BOOLEAN /\ accepting \in BOOLEAN /\ rearm \in BOOLEAN
  /\ client \in [Clients -> {"away", "queued", "held", "dropped"}]
  /\ failure \in {"none", "join", "terminate"}
  /\ used \subseteq Uses

Init ==
  /\ state = "Uninitialized"
  /\ mutex = Nobody /\ callbackMutex = Nobody
  /\ pc = [t \in Threads |-> "idle"]
  /\ forced = [t \in Threads |-> FALSE]
  /\ calls = [t \in Threads |-> 0]
  /\ loop = "none" /\ stopRequested = FALSE /\ joinable = FALSE
  /\ listening = FALSE /\ accepting = FALSE /\ rearm = FALSE
  /\ client = [k \in Clients |-> "away"]
  /\ failure = "none"
  /\ used = {}

-----------------------------------------------------------------------------

Go(t, where) == pc' = [pc EXCEPT ![t] = where]
Lock(t) == mutex = Nobody /\ mutex' = t
Unlock(t) == mutex' = Nobody

\* A thread makes a new call and has taken mutex_.
Call(t) ==
  /\ pc[t] = "idle"
  /\ calls[t] < MaxCalls
  /\ mutex = Nobody
  /\ calls' = [calls EXCEPT ![t] = @ + 1]

\* The call that gets as far as changing the state.
initialize(t) ==
  /\ Call(t)
  /\ state = "Uninitialized"
  /\ state' = "Initialized"
  /\ UNCHANGED <<mutex, callbackMutex, pc, forced, loopVars, acceptVars, failure, used>>

start(t) ==
  /\ Call(t)
  /\ state \in {"Initialized", "Stopped"}
  /\ state' = "Starting"
  /\ Lock(t)
  /\ Go(t, "bind")
  /\ UNCHANGED <<callbackMutex, forced, loopVars, acceptVars, failure, used>>

\* createServer fails, or a socket listens, an accept is queued and the
\* thread is created: assigning to a joinable std::thread terminates.
startBind(t) ==
  /\ pc[t] = "bind"
  /\ \/ /\ state' = "Initialized"
        /\ Unlock(t)
        /\ Go(t, "idle")
        /\ UNCHANGED <<loopVars, acceptVars, failure, used>>
     \/ /\ listening' = TRUE
        /\ accepting' = TRUE
        /\ loop' = IF joinable THEN loop ELSE "born"
        /\ joinable' = TRUE
        /\ failure' = IF joinable THEN "terminate" ELSE failure
        /\ Go(t, "run")
        /\ UNCHANGED <<state, mutex, stopRequested, rearm, client>>
  /\ UNCHANGED <<callbackMutex, forced, calls, used>>

startRun(t) ==
  /\ pc[t] = "run"
  /\ state' = "Running"
  /\ forced' = [forced EXCEPT ![t] = FALSE]
  /\ Go(t, "emit")
  /\ UNCHANGED <<mutex, callbackMutex, calls, loopVars, acceptVars, failure, used>>

\* What the program does is recorded.
Note(cond, use) == IF cond THEN {use} ELSE {}

\* A graceful stop sleeps for the grace period without mutex_.
stop(t) ==
  /\ Call(t)
  /\ state = "Running"
  /\ state' = "Stopping"
  /\ forced' = [forced EXCEPT ![t] = FALSE]
  /\ \/ Go(t, "grace") /\ UNCHANGED mutex
     \/ Go(t, "signal") /\ Lock(t)
  /\ used' = used \cup Note(loop = "born", "early stop")
  /\ UNCHANGED <<callbackMutex, loopVars, acceptVars, failure>>

\* The grace period is over.  state_ is not looked at again.
stopAfterGrace(t) ==
  /\ pc[t] = "grace"
  /\ Lock(t)
  /\ Go(t, "signal")
  /\ UNCHANGED <<state, callbackMutex, forced, calls, loopVars, acceptVars, failure, used>>

forceStop(t) ==
  /\ Call(t)
  /\ state \notin {"Stopped", "Uninitialized"}
  /\ Lock(t)
  /\ forced' = [forced EXCEPT ![t] = TRUE]
  /\ Go(t, "signal")
  /\ used' = used \cup Note(loop = "born", "early stop")
                  \cup Note(state = "Stopping", "force during stop")
  /\ UNCHANGED <<state, callbackMutex, loopVars, acceptVars, failure>>

\* Mutants: the event loop is not told to stop; forceStop does not join.
signalForgotten(t) ==
  /\ pc[t] = "signal"
  /\ Go(t, IF joinable THEN "join" ELSE "close")
  /\ mutex' = IF joinable /\ ~forced[t] THEN Nobody ELSE mutex
  /\ UNCHANGED <<state, callbackMutex, forced, calls, loopVars, acceptVars, failure, used>>

signalNoJoin(t) ==
  /\ pc[t] = "signal"
  /\ stopRequested' = TRUE
  /\ Go(t, IF joinable /\ ~forced[t] THEN "join" ELSE "close")
  /\ mutex' = IF joinable /\ ~forced[t] THEN Nobody ELSE mutex
  /\ UNCHANGED <<state, callbackMutex, forced, calls, loop, joinable, acceptVars, failure, used>>

\* stopEventLoop, then the test of joinable; stop gives up mutex_ to join.
stopSignal(t) ==
  /\ pc[t] = "signal"
  /\ stopRequested' = TRUE
  /\ \/ /\ joinable
        /\ Go(t, "join")
        /\ IF forced[t] THEN UNCHANGED mutex ELSE Unlock(t)
     \/ /\ ~joinable
        /\ Go(t, "close")
        /\ UNCHANGED mutex
  /\ UNCHANGED <<state, callbackMutex, forced, calls, loop, joinable, acceptVars, failure, used>>

\* Joining a thread that is joined already, or that another thread is
\* joining, throws std::system_error out of the stop.
stopJoin(t) ==
  /\ pc[t] = "join"
  /\ \/ /\ joinable /\ \A u \in Threads : pc[u] # "joining"
        /\ Go(t, "joining")
        /\ UNCHANGED <<mutex, failure, used>>
     \/ /\ ~joinable \/ \E u \in Threads : pc[u] = "joining"
        /\ failure' = "join"
        /\ mutex' = IF forced[t] THEN Nobody ELSE mutex
        /\ Go(t, "idle")
  /\ UNCHANGED <<state, callbackMutex, forced, calls, loopVars, acceptVars, used>>

stopJoined(t) ==
  /\ pc[t] = "joining"
  /\ loop = "ended"
  /\ loop' = "none"
  /\ joinable' = FALSE
  /\ Go(t, IF forced[t] THEN "close" ELSE "relock")
  /\ UNCHANGED <<state, mutex, callbackMutex, forced, calls, stopRequested, acceptVars, failure, used>>

\* Mutant: mutex_ is not taken again after the join.
relockForgotten(t) ==
  /\ pc[t] = "relock"
  /\ Go(t, "close")
  /\ UNCHANGED <<state, mutex, callbackMutex, forced, calls, loopVars, acceptVars, failure, used>>

stopRelock(t) ==
  /\ pc[t] = "relock"
  /\ Lock(t)
  /\ Go(t, "close")
  /\ UNCHANGED <<state, callbackMutex, forced, calls, loopVars, acceptVars, failure, used>>

\* Mutant: the server socket stays open.
closeKeepsListening(t) ==
  /\ pc[t] = "close"
  /\ client' = [k \in Clients |-> IF client[k] = "held" THEN "away" ELSE client[k]]
  /\ state' = "Stopped"
  /\ Go(t, "emit")
  /\ UNCHANGED <<mutex, callbackMutex, forced, calls, loopVars, listening,
                 accepting, rearm, failure, used>>

\* closeAllConnections closes what connections_ holds; the server socket is
\* closed with its backlog.
stopClose(t) ==
  /\ pc[t] = "close"
  /\ client' = [k \in Clients |-> IF client[k] = "dropped" THEN "dropped" ELSE "away"]
  /\ listening' = FALSE
  /\ accepting' = FALSE
  /\ state' = "Stopped"
  /\ Go(t, "emit")
  /\ UNCHANGED <<mutex, callbackMutex, forced, calls, loopVars, rearm, failure, used>>

\* emitEvent takes callbackMutex_, forceStop calls emitEventNoLock.  The
\* callback runs with mutex_ held, so a getter it calls never returns.
emitEvent(t) ==
  /\ pc[t] = "emit"
  /\ \/ forced[t] /\ UNCHANGED callbackMutex
     \/ ~forced[t] /\ callbackMutex = Nobody /\ callbackMutex' = t
  /\ \/ Go(t, "callback") /\ UNCHANGED used
     \/ Go(t, "getter") /\ used' = used \cup {"reentrant"}
  /\ UNCHANGED <<state, mutex, forced, calls, loopVars, acceptVars, failure>>

callReturns(t) ==
  /\ pc[t] = "callback"
  /\ callbackMutex' = IF forced[t] THEN callbackMutex ELSE Nobody
  /\ Unlock(t)
  /\ Go(t, "idle")
  /\ UNCHANGED <<state, forced, calls, loopVars, acceptVars, failure, used>>

-----------------------------------------------------------------------------

\* The event loop forgets a stop requested before it begins.
runEventLoop ==
  /\ loop = "born"
  /\ stopRequested' = FALSE
  /\ loop' = "turning"
  /\ UNCHANGED <<apiVars, callbackMutex, joinable, acceptVars, failure, used>>

\* Mutant: a client over the limit is closed and the accept not renewed.
acceptNotRenewed(k) ==
  /\ loop = "turning"
  /\ accepting
  /\ client[k] = "queued"
  /\ accepting' = FALSE
  /\ state = "Running"
  /\ \/ /\ client' = [client EXCEPT ![k] = "held"]
        /\ rearm' = TRUE
     \/ /\ client' = [client EXCEPT ![k] = "away"]
        /\ UNCHANGED rearm
  /\ loop' = "emit"
  /\ UNCHANGED <<apiVars, callbackMutex, stopRequested, joinable, listening, failure, used>>

\* The accept is consumed; it is asked for again at the end of the callback
\* only when the server is Running.  Otherwise the client's socket is left
\* as it is: open, with nobody to read it.
handleAccept(k) ==
  /\ loop = "turning"
  /\ accepting
  /\ client[k] = "queued"
  /\ accepting' = FALSE
  /\ \/ /\ state # "Running"
        /\ client' = [client EXCEPT ![k] = "dropped"]
        /\ UNCHANGED <<loop, rearm>>
     \/ /\ state = "Running"
        /\ \/ client' = [client EXCEPT ![k] = "held"]
           \/ client' = [client EXCEPT ![k] = "away"]    \* over the limit
        /\ loop' = "emit"
        /\ rearm' = TRUE
  /\ UNCHANGED <<apiVars, callbackMutex, stopRequested, joinable, listening, failure, used>>

closeConnection(k) ==
  /\ loop = "turning"
  /\ client[k] = "held"
  /\ client' = [client EXCEPT ![k] = "away"]
  /\ loop' = "emit"
  /\ UNCHANGED <<apiVars, callbackMutex, stopRequested, joinable, listening,
                 accepting, rearm, failure, used>>

\* The callback runs under callbackMutex_, and may call a getter.
loopEmitEvent ==
  /\ loop = "emit"
  /\ callbackMutex = Nobody
  /\ callbackMutex' = Loop
  /\ \/ loop' = "callback" /\ UNCHANGED used
     \/ loop' = "getter" /\ used' = used \cup {"reentrant"}
  /\ UNCHANGED <<apiVars, stopRequested, joinable, acceptVars, failure>>

loopGetter ==
  /\ loop = "getter"
  /\ mutex = Nobody
  /\ loop' = "callback"
  /\ UNCHANGED <<apiVars, callbackMutex, stopRequested, joinable, acceptVars, failure, used>>

loopCallbackReturns ==
  /\ loop = "callback"
  /\ callbackMutex' = Nobody
  /\ loop' = "turning"
  /\ accepting' = IF rearm THEN listening ELSE accepting
  /\ rearm' = FALSE
  /\ UNCHANGED <<apiVars, stopRequested, joinable, listening, client, failure, used>>

loopEnd ==
  /\ loop = "turning"
  /\ stopRequested
  /\ loop' = "ended"
  /\ UNCHANGED <<apiVars, callbackMutex, stopRequested, joinable, acceptVars, failure, used>>

\* A client connects: the kernel queues it in the backlog.
connect(k) ==
  /\ listening
  /\ client[k] = "away"
  /\ client' = [client EXCEPT ![k] = "queued"]
  /\ used' = used \cup Note(state = "Starting", "early client")
  /\ UNCHANGED <<apiVars, callbackMutex, loopVars, listening, accepting, rearm, failure>>

-----------------------------------------------------------------------------

ThreadStep(t) ==
  \/ startBind(t) \/ startRun(t)
  \/ stopAfterGrace(t) \/ stopSignal(t) \/ stopJoin(t) \/ stopJoined(t)
  \/ stopRelock(t) \/ stopClose(t)
  \/ emitEvent(t) \/ callReturns(t)

LoopStep ==
  \/ runEventLoop \/ loopEmitEvent \/ loopGetter \/ loopCallbackReturns \/ loopEnd
  \/ \E k \in Clients : handleAccept(k)

NewCall(t) == initialize(t) \/ start(t) \/ stop(t) \/ forceStop(t)

\* failure is a history variable: where std::terminate would end the
\* process the model goes on.
Next ==
  \/ \E t \in Threads : NewCall(t) \/ ThreadStep(t)
  \/ LoopStep
  \/ \E k \in Clients : connect(k) \/ closeConnection(k)

Spec == Init /\ [][Next]_vars

\* The scheduler runs every thread that can run; the event loop comes back
\* to the test of stopRequested_ after every 64 events or 100 ms, however
\* many clients connect; and a thread that waits for callbackMutex_ gets it
\* in the end, although the event loop takes it again for every event.
FairSpec ==
  /\ Spec
  /\ \A t \in Threads : WF_vars(ThreadStep(t))
  /\ WF_vars(LoopStep)
  /\ SF_vars(loopEnd)
  /\ \A t \in Threads : SF_vars(emitEvent(t))

-----------------------------------------------------------------------------

(***************************************************************************)
(* mutex_ is held by exactly the thread that is between taking and         *)
(* releasing it, on every path through start, stop and forceStop, the ones *)
(* that fail and throw included.                                           *)
(***************************************************************************)
LockDiscipline == TypeOK /\ \A t \in Threads : Owns(t) <=> mutex = t

(***************************************************************************)
(* A server that is Stopped has no event loop, no listening socket and no  *)
(* connections: a start from there begins from nothing.  It needs that     *)
(* forceStop does not overlap a stop.                                      *)
(***************************************************************************)
StoppedIsClean ==
  state = "Stopped" /\ "force during stop" \notin used =>
    /\ loop = "none" /\ ~joinable
    /\ ~listening /\ ~accepting
    /\ \A k \in Clients : client[k] \in {"away", "dropped"}

(***************************************************************************)
(* No call joins a thread it may not join, and none overwrites a thread    *)
(* that was not joined: neither an exception nor std::terminate, if        *)
(* forceStop does not overlap a stop.                                      *)
(***************************************************************************)
ThreadsUsedWell == "force during stop" \notin used => failure = "none"

\* An accept is outstanding, or the callback that consumed it will ask for
\* the next.
Accepts == accepting \/ rearm

(***************************************************************************)
(* A server that is Running accepts, whatever the threads of the program   *)
(* do, if no client connects before start has set Running.                 *)
(***************************************************************************)
AcceptsWhileRunning == state = "Running" /\ "early client" \notin used => Accepts

(***************************************************************************)
(* Threads and locks: mutex_ is held where start, stop and forceStop       *)
(* assume it and no thread is joined twice or overwritten unjoined.        *)
(***************************************************************************)
ThreadsSafe == LockDiscipline /\ ThreadsUsedWell

(***************************************************************************)
(* The server is up or down, never half: stopped it is clean, running it   *)
(* accepts, whichever calls overlap.                                       *)
(***************************************************************************)
RunningOrClean == StoppedIsClean /\ AcceptsWhileRunning

(***************************************************************************)
(* Every call of the API returns, whichever threads are in the others and  *)
(* whatever the event loop is doing, if the program does not stop the      *)
(* server before its event loop runs, does not overlap stops and does not  *)
(* call the API from its event callback.                                   *)
(***************************************************************************)
CallsReturn ==
  \A t \in Threads : pc[t] # "idle" ~> pc[t] = "idle" \/ used \ {"early client"} # {}
=============================================================================
