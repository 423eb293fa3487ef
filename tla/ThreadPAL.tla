------------------------------- MODULE ThreadPAL -------------------------------
(***************************************************************************)
(* The thread pools of the three thread PALs: one pool, threads that       *)
(* submit work and one that destroys the pool.  The Linux pool has its own *)
(* workers, which wait on a condition variable; Darwin and Windows hand    *)
(* the work to a pool of the system (external).                            *)
(***************************************************************************)
EXTENDS Integers, Sequences, FiniteSets

CONSTANTS
  PoolWorkers,   \* the minThreads workers that createThreadPool starts
  Submitters,    \* threads that submit work
  MaxWork        \* bound: work items
\* createThreadPool refuses a pool without threads.
ASSUME WorkAssumption == PoolWorkers # {} /\ MaxWork \in Nat \ {0}

VARIABLES
  wpPlatform,  \* which of the three PALs is built
  wpQueue,     \* workQueue, or the items the system has not started
  wpShutdown,  \* shutdown
  wpListed,    \* the handle is in pools_
  wpFreed,     \* the pool's data is gone
  wpWorker,    \* where each worker is; "blocking" holds queueMutex
  wpItem,      \* the item each worker runs, 0 for none
  wpSubmit,    \* where each submitter is, with its item
  wpDestroy,   \* where destroyThreadPool is
  wpAccepted,  \* items whose submitWork queued them
  wpRuns,      \* how often each item was run
  wpRaced      \* a submitWork was under way when the pool was taken down

workVars == <<wpPlatform, wpQueue, wpShutdown, wpListed, wpFreed, wpWorker, wpItem,
              wpSubmit, wpDestroy, wpAccepted, wpRuns, wpRaced>>

WorkItems == 1..MaxWork
NoSubmit == [step |-> "idle", item |-> 0]
QueueUnlocked == \A w \in PoolWorkers : wpWorker[w] # "blocking"

WorkInit ==
  /\ wpPlatform \in {"linux", "darwin", "windows"}
  /\ wpQueue = <<>>
  /\ wpShutdown = FALSE
  /\ wpListed = TRUE
  /\ wpFreed = FALSE
  /\ wpWorker = [w \in PoolWorkers |-> "ready"]
  /\ wpItem = [w \in PoolWorkers |-> 0]
  /\ wpSubmit = [s \in Submitters |-> NoSubmit]
  /\ wpDestroy = "none"
  /\ wpAccepted = {}
  /\ wpRuns = [i \in WorkItems |-> 0]
  /\ wpRaced = FALSE

-----------------------------------------------------------------------------
(* The workers of the Linux pool.                                           *)

Workers(w, step, item) ==
  /\ wpWorker' = [wpWorker EXCEPT ![w] = step]
  /\ wpItem' = [wpItem EXCEPT ![w] = item]
  /\ UNCHANGED <<wpPlatform, wpShutdown, wpListed, wpFreed, wpSubmit, wpDestroy,
                 wpAccepted, wpRaced>>

\* Mutant: a worker leaves at shutdown with work still queued.
leaveEarly(w) ==
  /\ wpPlatform = "linux" /\ wpWorker[w] = "ready" /\ QueueUnlocked
  /\ wpShutdown
  /\ Workers(w, "exited", 0) /\ UNCHANGED <<wpQueue, wpRuns>>

leave(w) ==
  /\ wpPlatform = "linux" /\ wpWorker[w] = "ready" /\ QueueUnlocked
  /\ wpShutdown /\ wpQueue = <<>>
  /\ Workers(w, "exited", 0) /\ UNCHANGED <<wpQueue, wpRuns>>

takeWork(w) ==
  /\ wpPlatform = "linux" /\ wpWorker[w] = "ready" /\ QueueUnlocked
  /\ wpQueue # <<>>
  /\ wpQueue' = Tail(wpQueue)
  /\ Workers(w, "running", Head(wpQueue)) /\ UNCHANGED wpRuns

\* The predicate of the wait is false: the worker goes to sleep, and until it
\* does it holds the mutex.
checkPredicate(w) ==
  /\ wpPlatform = "linux" /\ wpWorker[w] = "ready" /\ QueueUnlocked
  /\ ~wpShutdown /\ wpQueue = <<>>
  /\ Workers(w, "blocking", 0) /\ UNCHANGED <<wpQueue, wpRuns>>

block(w) ==
  /\ wpWorker[w] = "blocking"
  /\ Workers(w, "waiting", 0) /\ UNCHANGED <<wpQueue, wpRuns>>

runWork(w) ==
  /\ wpWorker[w] = "running"
  /\ wpRuns' = [wpRuns EXCEPT ![wpItem[w]] = @ + 1]
  /\ Workers(w, "ready", 0) /\ UNCHANGED wpQueue

-----------------------------------------------------------------------------
(* submitWork: the lookup, the test of shutdown, the push, the notification. *)

Submitting(s, step, item) ==
  /\ wpSubmit' = [wpSubmit EXCEPT ![s] = [step |-> step, item |-> item]]
  /\ UNCHANGED <<wpPlatform, wpShutdown, wpListed, wpFreed, wpItem, wpDestroy, wpRuns>>

\* The pool is found and not shut down.  Linux reads shutdown after the lock
\* on pools_, with the pool already looked up.
findPool(s) ==
  /\ wpSubmit[s].step = "idle"
  /\ wpListed /\ (wpPlatform = "linux" \/ ~wpShutdown)
  /\ \E i \in WorkItems :
       /\ i \notin wpAccepted /\ \A u \in Submitters : wpSubmit[u].item # i
       /\ Submitting(s, "found", i)
  /\ UNCHANGED <<wpQueue, wpWorker, wpAccepted, wpRaced>>

\* Undefined once the pool is freed: the flag reads either way.
testShutdown(s) ==
  /\ wpPlatform = "linux" /\ wpSubmit[s].step = "found"
  /\ \/ (wpShutdown \/ wpFreed) /\ Submitting(s, "idle", 0)
     \/ (~wpShutdown \/ wpFreed) /\ Submitting(s, "tested", wpSubmit[s].item)
  /\ wpRaced' = (wpRaced \/ wpFreed)
  /\ UNCHANGED <<wpQueue, wpWorker, wpAccepted>>

pushWork(s) ==
  /\ wpSubmit[s].step = "tested" /\ QueueUnlocked
  /\ wpQueue' = Append(wpQueue, wpSubmit[s].item)
  /\ wpAccepted' = wpAccepted \union {wpSubmit[s].item}
  /\ wpRaced' = (wpRaced \/ wpShutdown)
  /\ Submitting(s, "pushed", wpSubmit[s].item) /\ UNCHANGED wpWorker

\* Mutant: the push is not announced.
notifyNobody(s) ==
  /\ wpSubmit[s].step = "pushed" /\ UNCHANGED wpWorker
  /\ Submitting(s, "idle", 0) /\ UNCHANGED <<wpQueue, wpAccepted, wpRaced>>

notifyWorker(s) ==
  /\ wpSubmit[s].step = "pushed"
  /\ \/ \E w \in PoolWorkers : wpWorker[w] = "waiting"
                               /\ wpWorker' = [wpWorker EXCEPT ![w] = "ready"]
     \/ (\A w \in PoolWorkers : wpWorker[w] # "waiting") /\ UNCHANGED wpWorker
  /\ Submitting(s, "idle", 0) /\ UNCHANGED <<wpQueue, wpAccepted, wpRaced>>

\* Darwin: the queue of the pool is used without the lock that found it.
dispatchWork(s) ==
  /\ wpPlatform = "darwin" /\ wpSubmit[s].step = "found"
  /\ wpQueue' = Append(wpQueue, wpSubmit[s].item)
  /\ wpAccepted' = wpAccepted \union {wpSubmit[s].item}
  /\ wpRaced' = (wpRaced \/ wpShutdown)
  /\ Submitting(s, "idle", 0) /\ UNCHANGED wpWorker

\* Windows: so is the callback environment.
submitThreadpoolWork(s) ==
  /\ wpPlatform = "windows" /\ wpSubmit[s].step = "found"
  /\ wpQueue' = Append(wpQueue, wpSubmit[s].item)
  /\ wpAccepted' = wpAccepted \union {wpSubmit[s].item}
  /\ wpRaced' = (wpRaced \/ wpShutdown)
  /\ Submitting(s, "idle", 0) /\ UNCHANGED wpWorker

\* The system's pool starts an item in any of its threads.
systemRuns(w) ==
  /\ wpPlatform # "linux" /\ wpWorker[w] = "ready" /\ wpQueue # <<>>
  /\ wpQueue' = Tail(wpQueue)
  /\ Workers(w, "running", Head(wpQueue)) /\ UNCHANGED wpRuns

-----------------------------------------------------------------------------
(* destroyThreadPool                                                        *)

Destroying(from, to) ==
  /\ wpDestroy = from /\ wpDestroy' = to
  /\ UNCHANGED <<wpPlatform, wpQueue, wpItem, wpSubmit, wpAccepted, wpRuns, wpRaced>>

\* Linux takes the pool out of pools_ first, the others leave it there.
destroyThreadPool ==
  /\ wpListed' = (wpPlatform # "linux")
  /\ wpShutdown' = (wpPlatform # "linux")
  /\ Destroying("none", IF wpPlatform = "linux" THEN "taken" ELSE "draining")
  /\ UNCHANGED <<wpFreed, wpWorker>>

\* shutdown is set and the workers are notified without queueMutex.
flagShutdown ==
  /\ wpShutdown' = TRUE
  /\ Destroying("taken", "flagged") /\ UNCHANGED <<wpListed, wpFreed, wpWorker>>

notifyAllWorkers ==
  /\ wpWorker' = [w \in PoolWorkers |->
       IF wpWorker[w] = "waiting" THEN "ready" ELSE wpWorker[w]]
  /\ Destroying("flagged", "joining") /\ UNCHANGED <<wpListed, wpFreed, wpShutdown>>

joinWorkers ==
  /\ \A w \in PoolWorkers : wpWorker[w] = "exited"
  /\ wpFreed' = TRUE
  /\ Destroying("joining", "done") /\ UNCHANGED <<wpListed, wpShutdown, wpWorker>>

Drained == wpQueue = <<>> /\ \A w \in PoolWorkers : wpWorker[w] # "running"

\* dispatch_barrier_sync returns when the items before it have run.
drainDispatchQueue ==
  /\ wpPlatform = "darwin" /\ Drained
  /\ wpFreed' = TRUE /\ wpListed' = FALSE
  /\ Destroying("draining", "done") /\ UNCHANGED <<wpShutdown, wpWorker>>

\* CloseThreadpoolCleanupGroupMembers does not cancel what is queued.
closeCleanupGroup ==
  /\ wpPlatform = "windows" /\ Drained
  /\ wpFreed' = TRUE /\ wpListed' = FALSE
  /\ Destroying("draining", "done") /\ UNCHANGED <<wpShutdown, wpWorker>>

WorkNext ==
  \/ \E w \in PoolWorkers : leave(w) \/ takeWork(w) \/ checkPredicate(w) \/ block(w)
                            \/ runWork(w) \/ systemRuns(w)
  \/ \E s \in Submitters : findPool(s) \/ testShutdown(s) \/ pushWork(s) \/ notifyWorker(s)
                           \/ dispatchWork(s) \/ submitThreadpoolWork(s)
  \/ destroyThreadPool \/ flagShutdown \/ notifyAllWorkers \/ joinWorkers
  \/ drainDispatchQueue \/ closeCleanupGroup

-----------------------------------------------------------------------------

\* No item is run twice, and when destroyThreadPool has returned every item
\* that submitWork accepted has been run, unless a submitWork was past its
\* test of shutdown when the pool was taken down.
WorkRunOnce ==
  /\ \A i \in WorkItems : wpRuns[i] <= 1
  /\ wpDestroy = "done" /\ ~wpRaced => \A i \in wpAccepted : wpRuns[i] = 1

-----------------------------------------------------------------------------
(***************************************************************************)
(* createThread, joinThread and detachThread of the three thread PALs.     *)
(* Each looks its handle up under threadsMutex_ and calls the system       *)
(* without it.  Linux marks a joined thread before it waits, Darwin and    *)
(* Windows after; Linux and Windows mark a detached one before the system  *)
(* call, Darwin after.                                                     *)
(***************************************************************************)
CONSTANTS
  Joiners,      \* threads that call the PAL
  MaxThreads    \* bound: threads created
ASSUME ThreadsAssumption == MaxThreads \in Nat \ {0}

VARIABLES
  thrPlatform,  \* which of the three PALs is built
  thrTable,     \* threads_: the joined and detached marks of each handle
  thrRunning,   \* the system's threads that have not ended
  thrReaped,    \* how often the system was told to release each thread
  thrPc,        \* the system call each caller is in, and for which handle
  thrJoined,    \* handles for which some joinThread returned success
  thrMisused    \* handles with calls that overlapped where the PAL has no guard

threadVars == <<thrPlatform, thrTable, thrRunning, thrReaped, thrPc, thrJoined, thrMisused>>

ThreadHandleSet == 1..MaxThreads
NotCalling == [call |-> "none", handle |-> 0]
InCall(c, h) == \E j \in Joiners : thrPc[j] = [call |-> c, handle |-> h]

ThreadsInit ==
  /\ thrPlatform \in {"linux", "darwin", "windows"}
  /\ thrTable = <<>>
  /\ thrRunning = {}
  /\ thrReaped = [h \in ThreadHandleSet |-> 0]
  /\ thrPc = [j \in Joiners |-> NotCalling]
  /\ thrJoined = {}
  /\ thrMisused = {}

NextHandle == Cardinality({h \in ThreadHandleSet : h \in thrRunning \/ thrReaped[h] > 0
                                                   \/ h \in DOMAIN thrTable}) + 1

Started(detached) ==
  /\ NextHandle <= MaxThreads
  /\ thrTable' = [h \in DOMAIN thrTable \union {NextHandle} |->
       IF h = NextHandle THEN [joined |-> FALSE, detached |-> detached] ELSE thrTable[h]]
  /\ thrRunning' = thrRunning \union {NextHandle}
  /\ thrReaped' = [thrReaped EXCEPT ![NextHandle] = IF detached THEN 1 ELSE 0]
  /\ UNCHANGED <<thrPlatform, thrPc, thrJoined, thrMisused>>

\* A thread created detached is the system's to release from the start.
createThreadLinux == thrPlatform = "linux" /\ \E d \in BOOLEAN : Started(d)
createThreadDarwin == thrPlatform = "darwin" /\ \E d \in BOOLEAN : Started(d)
\* options.detached is not looked at.
createThreadWindows == thrPlatform = "windows" /\ Started(FALSE)

threadEnds(h) ==
  /\ h \in thrRunning
  /\ thrRunning' = thrRunning \ {h}
  /\ UNCHANGED <<thrPlatform, thrTable, thrReaped, thrPc, thrJoined, thrMisused>>

\* A caller enters a system call for h; `unguarded' are the calls that may be
\* in progress for h because the marks of the PAL do not refuse this one.
Enter(j, c, h, unguarded) ==
  /\ thrPc' = [thrPc EXCEPT ![j] = [call |-> c, handle |-> h]]
  /\ thrMisused' = IF \E u \in unguarded : InCall(u, h)
                   THEN thrMisused \union {h} ELSE thrMisused
  /\ UNCHANGED <<thrPlatform, thrRunning, thrReaped, thrJoined>>

\* Mutant: the thread is not marked before the wait.
joinThreadUnmarked(j, h) ==
  /\ thrPlatform = "linux" /\ thrPc[j] = NotCalling
  /\ h \in DOMAIN thrTable /\ ~thrTable[h].joined /\ ~thrTable[h].detached
  /\ UNCHANGED thrTable
  /\ Enter(j, "join", h, {})

\* A second join is refused as soon as the first has begun.
joinThreadLinux(j, h) ==
  /\ thrPlatform = "linux" /\ thrPc[j] = NotCalling
  /\ h \in DOMAIN thrTable /\ ~thrTable[h].joined /\ ~thrTable[h].detached
  /\ thrTable' = [thrTable EXCEPT ![h].joined = TRUE]
  /\ Enter(j, "join", h, {})

joinThreadDarwin(j, h) ==
  /\ thrPlatform = "darwin" /\ thrPc[j] = NotCalling
  /\ h \in DOMAIN thrTable /\ ~thrTable[h].joined /\ ~thrTable[h].detached
  /\ UNCHANGED thrTable
  /\ Enter(j, "join", h, {"join", "joined", "detach", "detached"})

joinThreadWindows(j, h) ==
  /\ thrPlatform = "windows" /\ thrPc[j] = NotCalling
  /\ h \in DOMAIN thrTable /\ ~thrTable[h].joined /\ ~thrTable[h].detached
  /\ UNCHANGED thrTable
  /\ Enter(j, "join", h, {"join", "joined"})

\* The system call returns once the thread has ended.
reapJoined(j) ==
  LET h == thrPc[j].handle IN
  /\ thrPc[j].call = "join" /\ h \notin thrRunning
  /\ thrReaped' = [thrReaped EXCEPT ![h] = @ + 1]
  /\ thrPc' = [thrPc EXCEPT ![j].call = "joined"]
  /\ UNCHANGED <<thrPlatform, thrTable, thrRunning, thrJoined, thrMisused>>

Without1(h) == [k \in DOMAIN thrTable \ {h} |-> thrTable[k]]

\* Linux erases the entry, the others mark it if it is still there.
finishJoin(j) ==
  LET h == thrPc[j].handle IN
  /\ thrPc[j].call = "joined"
  /\ thrTable' = IF thrPlatform = "linux" THEN Without1(h)
                 ELSE [thrTable EXCEPT ![h].joined = TRUE]
  /\ thrPc' = [thrPc EXCEPT ![j] = NotCalling]
  /\ thrJoined' = thrJoined \union {h}
  /\ UNCHANGED <<thrPlatform, thrRunning, thrReaped, thrMisused>>

\* Only the detached mark is looked at, not a join in progress.
detachThreadLinux(j, h) ==
  /\ thrPlatform = "linux" /\ thrPc[j] = NotCalling
  /\ h \in DOMAIN thrTable /\ ~thrTable[h].detached
  /\ thrTable' = [thrTable EXCEPT ![h].detached = TRUE]
  /\ Enter(j, "detach", h, {"join", "joined"})

\* A thread that was joined keeps its entry and is not refused.
detachThreadDarwin(j, h) ==
  /\ thrPlatform = "darwin" /\ thrPc[j] = NotCalling
  /\ h \in DOMAIN thrTable /\ ~thrTable[h].detached
  /\ UNCHANGED thrTable
  /\ Enter(j, "detach", h, {"join", "joined", "detach", "detached"})

detachThreadWindows(j, h) ==
  /\ thrPlatform = "windows" /\ thrPc[j] = NotCalling
  /\ h \in DOMAIN thrTable /\ ~thrTable[h].joined /\ ~thrTable[h].detached
  /\ thrTable' = [thrTable EXCEPT ![h].detached = TRUE]
  /\ Enter(j, "detach", h, {"join", "joined"})

reapDetached(j) ==
  LET h == thrPc[j].handle IN
  /\ thrPc[j].call = "detach"
  /\ thrReaped' = [thrReaped EXCEPT ![h] = @ + 1]
  /\ thrPc' = [thrPc EXCEPT ![j].call = "detached"]
  /\ UNCHANGED <<thrPlatform, thrTable, thrRunning, thrJoined, thrMisused>>

finishDetach(j) ==
  LET h == thrPc[j].handle IN
  /\ thrPc[j].call = "detached"
  /\ thrTable' = CASE thrPlatform = "linux" -> Without1(h)
                   [] thrPlatform = "darwin" -> [thrTable EXCEPT ![h].detached = TRUE]
                   [] OTHER -> thrTable
  /\ thrPc' = [thrPc EXCEPT ![j] = NotCalling]
  /\ UNCHANGED <<thrPlatform, thrRunning, thrReaped, thrJoined, thrMisused>>

ThreadsNext ==
  \/ createThreadLinux \/ createThreadDarwin \/ createThreadWindows
  \/ \E h \in ThreadHandleSet : threadEnds(h)
  \/ \E j \in Joiners : reapJoined(j) \/ finishJoin(j) \/ reapDetached(j) \/ finishDetach(j)
  \/ \E j \in Joiners, h \in ThreadHandleSet :
       \/ joinThreadLinux(j, h) \/ joinThreadDarwin(j, h) \/ joinThreadWindows(j, h)
       \/ detachThreadLinux(j, h) \/ detachThreadDarwin(j, h) \/ detachThreadWindows(j, h)

-----------------------------------------------------------------------------

\* No two calls make the system release the same thread, and a join that
\* succeeded saw the thread end.  The marks of joinThread and detachThread
\* guarantee it for calls that do not overlap, on Linux also for joins that
\* do.  A thread that Darwin joined can still be detached.
ThreadsReapedOnce ==
  \A h \in ThreadHandleSet \ thrMisused :
    /\ thrReaped[h] <= 1 \/ (thrPlatform = "darwin" /\ thrReaped[h] = 2 /\ thrTable[h].joined)
    /\ h \in thrJoined => h \notin thrRunning /\ thrReaped[h] > 0
=============================================================================
