--------------------------- MODULE MCSupervision ----------------------------
(***************************************************************************)
(* The parts that wait for something, each by itself: they share no state, *)
(* so a behaviour has the steps of one component, the one focus names. A   *)
(* condition of fairness then serves the threads of all of them: their     *)
(* sets of threads are given the same elements.                            *)
(***************************************************************************)
EXTENDS ShutdownCoordinator, ErrorIsolation, ExternalAuth, Handshake,
        HandshakeTimeout, ThreadPAL, TimerPAL

VARIABLE focus

Threads == ShutThreads

\* The choices of a component not in focus are fixed.
Fixed ==
  /\ focus # "auth" => fallback = "Deny"
  /\ focus # "handshake" => peer = "honest"
  /\ focus # "timeout" => timer = [h \in Handlers |-> "none"]
  /\ focus # "work" => wpPlatform = "linux"
  /\ focus # "timers" => tmPlatform = "linux"
  /\ focus # "threads" => thrPlatform = "linux"

SupervisionInit ==
  /\ focus \in {"shutdown", "isolation", "auth", "handshake", "timeout",
                "work", "timers", "threads"}
  /\ ShutInit /\ IsoInit /\ ExtInit /\ HandshakeInit /\ TimeoutInit
  /\ WorkInit /\ TimersInit /\ ThreadsInit
  /\ Fixed

\* What the other components do meanwhile: nothing.
Elsewhere ==
  /\ UNCHANGED focus
  /\ IF focus = "shutdown" THEN TRUE ELSE UNCHANGED shutVars
  /\ IF focus = "isolation" THEN TRUE ELSE UNCHANGED isoVars
  /\ IF focus = "auth" THEN TRUE ELSE UNCHANGED extVars
  /\ IF focus = "handshake" THEN TRUE ELSE UNCHANGED handshakeVars
  /\ IF focus = "timeout" THEN TRUE ELSE UNCHANGED timeoutVars
  /\ IF focus = "work" THEN TRUE ELSE UNCHANGED workVars
  /\ IF focus = "timers" THEN TRUE ELSE UNCHANGED timerVars
  /\ IF focus = "threads" THEN TRUE ELSE UNCHANGED threadVars

SupervisionNext ==
  \/ focus = "shutdown" /\ ShutNext /\ Elsewhere
  \/ focus = "isolation" /\ IsoNext /\ Elsewhere
  \/ focus = "auth" /\ ExtNext /\ Elsewhere
  \/ focus = "handshake" /\ HandshakeNext /\ Elsewhere
  \/ focus = "timeout" /\ TimeoutNext /\ Elsewhere
  \/ focus = "work" /\ WorkNext /\ Elsewhere
  \/ focus = "timers" /\ TimersNext /\ Elsewhere
  \/ focus = "threads" /\ ThreadsNext /\ Elsewhere

supervisionVars ==
  <<focus, shutVars, isoVars, extVars, handshakeVars, timeoutVars,
    workVars, timerVars, threadVars>>

\* A call of thread t goes on: it waits for nothing, or for a mutex that is
\* free or a thread that has ended; an expired timer is worked off.
GoOn(t) ==
  /\ \/ focus = "shutdown" /\ ShutGoOn(t)
     \/ focus = "isolation" /\ (joinRestart(t) \/ attemptComponentRestart(t))
     \/ focus = "auth" /\ ExtGoOn(t)
     \/ focus = "timeout" /\ TimerStep(t)
     \/ /\ focus = "work"
        /\ \/ leave(t) \/ takeWork(t) \/ checkPredicate(t) \/ block(t)
           \/ runWork(t) \/ systemRuns(t)
     \/ focus = "timers" /\ TimerThreadStep(t)
  /\ Elsewhere

\* A caller of the pool or of the timers runs.
Call(t) ==
  /\ \/ /\ focus = "work"
        /\ \/ testShutdown(t) \/ pushWork(t) \/ notifyWorker(t)
           \/ dispatchWork(t) \/ submitThreadpoolWork(t)
     \/ focus = "timers" /\ (listTimer(t) \/ deleteQueueTimer(t))
  /\ Elsewhere

\* The event loop serves a socket that is ready, the grace timer runs, and the
\* call that destroys the pool goes on.
Serve ==
  /\ \/ focus = "handshake" /\ ServerStep
     \/ focus = "shutdown" /\ gracePeriodTimerThread
     \/ focus = "isolation" /\ restartThread
     \/ focus = "work" /\ (\/ flagShutdown \/ notifyAllWorkers \/ joinWorkers
                           \/ drainDispatchQueue \/ closeCleanupGroup)
  /\ Elsewhere

\* The scheduler runs every thread, a mutex that keeps being freed is obtained,
\* armed timers expire and work items return.  Nothing makes a client send:
\* that it does is an assumption on the client.
SupervisionFair ==
  /\ \A t \in Threads : WF_supervisionVars(GoOn(t)) /\ WF_supervisionVars(Call(t))
  /\ WF_supervisionVars(Serve)
  /\ WF_supervisionVars(focus = "handshake" /\ PeerSends /\ Elsewhere)
  /\ \A h \in Timers : WF_supervisionVars(focus = "timers" /\ expire(h) /\ Elsewhere)

SupervisionSpec == SupervisionInit /\ [][SupervisionNext]_supervisionVars /\ SupervisionFair
-----------------------------------------------------------------------------

\* HandshakeHandler, and with a timer: only an echo of S1 completes, the chunk
\* parser gets every byte behind C2 once however the reads cut them, and the
\* owner hears of one outcome unless it overlaps or outlives the timeout.
HandshakeExact ==
  /\ focus = "handshake" => OnlyEchoCompletes /\ DataIntact
  /\ focus = "timeout" => OneOutcome

\* ErrorIsolation, ExternalAuthCallback, ShutdownCoordinator: crash reports end
\* the process only where calls overlapped, a breaker opens for failures that
\* reach its threshold, and a stopped grace timer reports nothing any more.
FailuresContained ==
  /\ focus = "isolation" => IsolationSound
  /\ focus = "auth" => CircuitJustified
  /\ focus = "shutdown" => StoppedTimerSilent

\* The thread and timer PALs: a work item is run once and, when the pool is
\* destroyed, not forgotten; a thread is joined or detached once; a one-shot
\* timer calls back once and a cancelled one only if it was picked up before.
DoneOnce ==
  /\ focus = "work" => WorkRunOnce
  /\ focus = "threads" => ThreadsReapedOnce
  /\ focus = "timers" => CancelStopsTimer

-----------------------------------------------------------------------------

\* A call of thread t is under way, or the handshake t has a timer.
Calling(t) ==
  \/ focus = "shutdown" /\ shutPc[t].step # "idle"
  \/ focus = "auth" /\ extPc[t].step # "idle"
  \/ focus = "timeout" /\ timer[t] = "set"

\* It has returned, unless two stops of the grace timer overlap and join its
\* thread twice; a handshake has completed, failed, timed out or was given up.
\* An authenticate hangs if a timed-out request has to trip the breaker:
\* it waits for the statsMutex_ it holds itself.  (The bound on requests ends
\* that model early.)
Returned(t) ==
  \/ focus = "shutdown" /\ (shutPc[t].step = "idle" \/ shutRaced)
  \/ focus = "auth" /\ (\/ extPc[t].step = "idle" \/ served.sent = MaxRequests
                        \/ \E u \in statsHolder : extPc[u].step = "fail")
  \/ focus = "timeout" /\ (base[t] \in {"Complete", "Failed"} \/ timedOut[t] \/ ~alive[t])

\* Every call of ShutdownCoordinator and ExternalAuthCallback returns, joins
\* and waits for mutexes included, and every handshake with a timer ends.
CallsEnd == \A t \in Threads : Calling(t) ~> Returned(t)

\* What was begun: the shutdown whose last stream has ended, the restart of a
\* component, the handshake of an honest client, the n-th work item, the n-th
\* timer.
Begun(n) ==
  \/ focus = "shutdown" /\ shutMissed
  \/ focus = "isolation" /\ component.state = "Restarting"
  \/ focus = "handshake" /\ peer = "honest"
  \/ focus = "work" /\ n \in wpAccepted /\ ~wpRaced
  \/ focus = "timers" /\ n \in DOMAIN tmTable

\* The shutdown is announced (or a stream came back); the component runs again
\* or has failed; the handshake completed, unless the connection was lost or a
\* read ended inside a packet; the item was run, unless a submitWork was under
\* way as the pool was taken down; the timer called back, unless it is gone,
\* cancelled or was read from its descriptor before it was listed.
Finished(n) ==
  \/ focus = "shutdown" /\ (~shutMissed \/ shutRaced)
  \/ focus = "isolation" /\ (component.state # "Restarting" \/ aborted)
  \/ focus = "handshake" /\ (hsState = "Complete" \/ armed = "none" \/ cut)
  \/ focus = "work" /\ (wpRuns[n] = 1 \/ wpRaced)
  \/ focus = "timers" /\ (\/ tmCalls[n] > 0 \/ n \notin DOMAIN tmTable
                          \/ tmTable[n].cancelled \/ n \in tmLost)

\* What was begun is finished, whatever the other threads and clients do.
BegunIsFinished == \A n \in WorkItems : Begun(n) ~> Finished(n)
=============================================================================
