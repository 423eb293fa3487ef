------------------------- MODULE ShutdownCoordinator -------------------------
(***************************************************************************)
(* core::ShutdownCoordinator: the phases of a shutdown, the registered     *)
(* publishers, connections and streams, and the thread of the grace        *)
(* period.  Any thread of the server may call any operation.  The          *)
(* callbacks run under callbackMutex_ and do not call back.                *)
(***************************************************************************)
EXTENDS Naturals, FiniteSets

CONSTANTS
  ShutThreads,       \* the threads that call the coordinator
  ShutPublishers, ShutConnections, ShutStreams,
  MaxRecorded        \* bound: terminations and interruptions recorded
ASSUME ShutAssumption == IsFiniteSet(ShutThreads) /\ MaxRecorded \in Nat

VARIABLES
  shutState,     \* state_
  shutSets,      \* publishers_, connections_ and activeStreams_
  shutRunning,   \* gracePeriodTimerRunning_
  shutTimer,     \* gracePeriodThread_: none (not joinable) or where it is
  shutPc,        \* where each thread is: step, and what comes after a stop
  shutStats,     \* stats_
  shutHeard,     \* the publishers notified and the connections terminated by callback
  shutMissed,    \* streams ended for good in shutdown, not yet announced
  shutRaced      \* did a stop of the timer, or a store of state_, overlap another?

shutVars == <<shutState, shutSets, shutRunning, shutTimer, shutPc, shutStats,
              shutHeard, shutMissed, shutRaced>>

ShutdownStates == <<"Running", "StoppingNewConnections", "NotifyingPublishers",
                    "GracePeriod", "ForceTerminating", "Complete">>
Phase(s) == CHOOSE i \in 1..6 : ShutdownStates[i] = s

ShutIdle == [step |-> "idle", after |-> "none"]

ShutInit ==
  /\ shutState = "Running"
  /\ shutSets = [publishers |-> {}, connections |-> {}, streams |-> {}]
  /\ shutRunning = FALSE /\ shutTimer = "none"
  /\ shutPc = [t \in ShutThreads |-> ShutIdle]
  /\ shutStats = [terminated |-> 0, graceful |-> 0, forced |-> 0, interrupted |-> 0]
  /\ shutHeard = [publishers |-> {}, connections |-> {}]
  /\ shutMissed = FALSE /\ shutRaced = FALSE

-----------------------------------------------------------------------------

At(t, s) == shutPc[t].step = s
Goto(t, s, a) == shutPc' = [shutPc EXCEPT ![t] = [step |-> s, after |-> a]]
Stopping == \E t \in ShutThreads : shutPc[t].step \in {"join", "force", "announce"}

\* Only the first caller leaves Running; it then notifies the publishers it finds.
initiateShutdown(t) ==
  /\ At(t, "idle")
  /\ shutState = "Running"
  /\ shutState' = "StoppingNewConnections"
  /\ Goto(t, "notify", "none")
  /\ UNCHANGED <<shutSets, shutRunning, shutTimer, shutStats, shutHeard, shutMissed, shutRaced>>

notifyAllPublishers(t) ==
  /\ At(t, "notify")
  /\ shutHeard' = [shutHeard EXCEPT !.publishers = @ \union shutSets.publishers]
  /\ shutPc' = [shutPc EXCEPT ![t] = ShutIdle]
  /\ UNCHANGED <<shutState, shutSets, shutRunning, shutTimer, shutStats, shutMissed, shutRaced>>

\* stopGracePeriodTimer begins: the flag, then the wait for the thread.
BeginStop(t, a) ==
  /\ shutRunning' = FALSE
  /\ Goto(t, "join", a)
  /\ shutRaced' = (shutRaced \/ Stopping)

\* The state is read here and stored at the end, without a compare.
forceShutdown(t) ==
  /\ At(t, "idle")
  /\ shutState \notin {"ForceTerminating", "Complete"}
  /\ BeginStop(t, "force")
  /\ UNCHANGED <<shutState, shutSets, shutTimer, shutStats, shutHeard, shutMissed>>

\* Mutant: the thread is left running.
stopDetached(t) ==
  /\ At(t, "join")
  /\ shutPc' = [shutPc EXCEPT ![t] =
       IF @.after = "none" THEN ShutIdle ELSE [step |-> @.after, after |-> "none"]]
  /\ UNCHANGED <<shutState, shutSets, shutRunning, shutTimer, shutStats, shutHeard, shutMissed, shutRaced>>

\* gracePeriodMutex_ is free once the thread waits or is done; join waits for the end.
stopGracePeriodTimer(t) ==
  /\ At(t, "join")
  /\ shutTimer \in {"none", "done"}
  /\ shutTimer' = "none"
  /\ shutPc' = [shutPc EXCEPT ![t] =
       IF @.after = "none" THEN ShutIdle ELSE [step |-> @.after, after |-> "none"]]
  /\ UNCHANGED <<shutState, shutSets, shutRunning, shutStats, shutHeard, shutMissed, shutRaced>>

finishForce(t) ==
  /\ At(t, "force")
  /\ shutState' = "ForceTerminating"
  /\ shutPc' = [shutPc EXCEPT ![t] = ShutIdle]
  /\ UNCHANGED <<shutSets, shutRunning, shutTimer, shutStats, shutHeard, shutMissed, shutRaced>>

\* Not while a finished thread is still joinable: that ends the process.
startGracePeriod(t) ==
  /\ At(t, "idle")
  /\ ~shutRunning /\ shutTimer = "none"
  /\ shutRunning' = TRUE /\ shutTimer' = "waiting"
  /\ shutRaced' = (shutRaced \/ Stopping)
  /\ UNCHANGED <<shutState, shutSets, shutPc, shutStats, shutHeard, shutMissed>>

\* The wait ends by the time or because the flag was taken back; the mutex
\* stays held while the callback runs.
gracePeriodTimerThread ==
  /\ \/ /\ shutTimer = "waiting" /\ shutRunning
        /\ shutRunning' = FALSE /\ shutTimer' = "expiring"
     \/ /\ shutTimer = "waiting" /\ ~shutRunning
        /\ shutTimer' = "done"
        /\ UNCHANGED shutRunning
     \/ /\ shutTimer = "expiring"
        /\ shutTimer' = "done"
        /\ UNCHANGED shutRunning
  /\ UNCHANGED <<shutState, shutSets, shutPc, shutStats, shutHeard, shutMissed, shutRaced>>

terminateAllConnections(t) ==
  /\ At(t, "idle")
  /\ shutHeard' = [shutHeard EXCEPT !.connections = @ \union shutSets.connections]
  /\ UNCHANGED <<shutState, shutSets, shutRunning, shutTimer, shutPc, shutStats, shutMissed, shutRaced>>

\* Mutant: the phase is stored whatever it was.
advanceUnchecked(t, from, to) ==
  /\ At(t, "idle")
  /\ shutState # "Running"
  /\ shutState' = to
  /\ UNCHANGED <<shutSets, shutRunning, shutTimer, shutPc, shutStats, shutHeard, shutMissed, shutRaced>>

\* notifyPublishersComplete, gracePeriodComplete, forceTerminationComplete.
advance(t, from, to) ==
  /\ At(t, "idle")
  /\ shutState = from
  /\ shutState' = to
  /\ UNCHANGED <<shutSets, shutRunning, shutTimer, shutPc, shutStats, shutHeard, shutMissed, shutRaced>>

shutdownComplete(t) ==
  /\ At(t, "idle")
  /\ shutState' = "Complete"
  /\ shutRaced' = (shutRaced \/ \E u \in ShutThreads :
                     At(u, "force") \/ (At(u, "join") /\ shutPc[u].after = "force"))
  /\ UNCHANGED <<shutSets, shutRunning, shutTimer, shutPc, shutStats, shutHeard, shutMissed>>

\* registerPublisher, registerConnection, registerActiveStream: in any phase.
register(t, kind, x) ==
  /\ At(t, "idle")
  /\ shutSets' = [shutSets EXCEPT ![kind] = @ \union {x}]
  /\ shutMissed' = (shutMissed /\ kind # "streams")
  /\ UNCHANGED <<shutState, shutRunning, shutTimer, shutPc, shutStats, shutHeard, shutRaced>>

unregister(t, kind, x) ==
  /\ At(t, "idle")
  /\ kind # "streams"
  /\ shutSets' = [shutSets EXCEPT ![kind] = @ \ {x}]
  /\ UNCHANGED <<shutState, shutRunning, shutTimer, shutPc, shutStats, shutHeard, shutMissed, shutRaced>>

unregisterActiveStream(t, s) ==
  /\ At(t, "idle")
  /\ s \in shutSets.streams
  /\ shutSets' = [shutSets EXCEPT !.streams = @ \ {s}]
  /\ Goto(t, "ended", "none")
  /\ shutMissed' = (shutMissed \/ (shutState # "Running" /\ shutSets.streams = {s}))
  /\ UNCHANGED <<shutState, shutRunning, shutTimer, shutStats, shutHeard, shutRaced>>

\* Every thread that finds no stream left stops the timer and announces it.
checkAllStreamsEnded(t) ==
  /\ At(t, "ended")
  /\ IF shutState # "Running" /\ shutSets.streams = {}
     THEN BeginStop(t, "announce")
     ELSE /\ shutPc' = [shutPc EXCEPT ![t] = ShutIdle]
          /\ UNCHANGED <<shutRunning, shutRaced>>
  /\ UNCHANGED <<shutState, shutSets, shutTimer, shutStats, shutHeard, shutMissed>>

announceEnded(t) ==
  /\ At(t, "announce")
  /\ shutMissed' = FALSE
  /\ shutPc' = [shutPc EXCEPT ![t] = ShutIdle]
  /\ UNCHANGED <<shutState, shutSets, shutRunning, shutTimer, shutStats, shutHeard, shutRaced>>

record(t, what) ==
  /\ At(t, "idle")
  /\ shutStats.terminated + shutStats.interrupted < MaxRecorded
  /\ shutStats' = [shutStats EXCEPT ![what] = @ + 1,
       !.terminated = @ + IF what = "interrupted" THEN 0 ELSE 1]
  /\ UNCHANGED <<shutState, shutSets, shutRunning, shutTimer, shutPc, shutHeard, shutMissed, shutRaced>>

ShutCall(t) ==
  \/ initiateShutdown(t) \/ forceShutdown(t) \/ startGracePeriod(t)
  \/ terminateAllConnections(t) \/ shutdownComplete(t)
  \/ advance(t, "StoppingNewConnections", "NotifyingPublishers")
  \/ advance(t, "NotifyingPublishers", "GracePeriod")
  \/ advance(t, "GracePeriod", "ForceTerminating")
  \/ \E p \in ShutPublishers : register(t, "publishers", p) \/ unregister(t, "publishers", p)
  \/ \E c \in ShutConnections : register(t, "connections", c) \/ unregister(t, "connections", c)
  \/ \E s \in ShutStreams : register(t, "streams", s) \/ unregisterActiveStream(t, s)
  \/ \E w \in {"graceful", "forced", "interrupted"} : record(t, w)

\* What a call still has to do once it has begun.
ShutGoOn(t) ==
  \/ notifyAllPublishers(t) \/ stopGracePeriodTimer(t) \/ finishForce(t)
  \/ checkAllStreamsEnded(t) \/ announceEnded(t)

ShutNext ==
  \/ \E t \in ShutThreads : ShutCall(t) \/ ShutGoOn(t)
  \/ gracePeriodTimerThread

-----------------------------------------------------------------------------

(***************************************************************************)
(* The phases of a shutdown are never undone: a server that stopped taking *)
(* connections does not take them again and a completed shutdown stays     *)
(* completed, unless forceShutdown ran beside shutdownComplete.            *)
(***************************************************************************)
ShutdownForward ==
  [][~shutRaced => Phase(shutState) <= Phase(shutState')]_shutVars

(***************************************************************************)
(* When stopGracePeriodTimer has returned, to forceShutdown or to the      *)
(* announcement that the streams ended, the grace period is over: no       *)
(* thread is left that could still report its expiry.                      *)
(***************************************************************************)
StoppedTimerSilent ==
  ~shutRaced => \A t \in ShutThreads :
    shutPc[t].step \in {"force", "announce"} => shutTimer = "none" /\ ~shutRunning
=============================================================================
