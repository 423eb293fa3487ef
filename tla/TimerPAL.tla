------------------------------- MODULE TimerPAL -------------------------------
(***************************************************************************)
(* The timer PALs.  Linux: a timerfd per timer and one thread that reads   *)
(* them; Darwin: dispatch sources on a serial queue; Windows: a timer      *)
(* queue whose callbacks run in any thread of the system's pool.           *)
(***************************************************************************)
EXTENDS Naturals, FiniteSets

CONSTANTS
  TimerUsers,     \* threads that schedule and cancel timers
  TimerThreads,   \* threads callbacks run in; only Windows uses more than one
  MaxTimers,      \* bound: timers created
  MaxExpirations  \* bound: expirations of a repeating timer
ASSUME TimerAssumption ==
  /\ IsFiniteSet(TimerThreads)
  /\ MaxTimers \in Nat \ {0} /\ MaxExpirations \in Nat \ {0}

VARIABLES
  tmPlatform,   \* which of the three PALs is built
  tmTable,      \* timers_: whether each timer repeats and is cancelled
  tmArmed,      \* the timers the system has armed, with the expirations left
  tmExpired,    \* timers with an expiration no thread has looked at
  tmThread,     \* what each timer thread does, and for which timer
  tmUser,       \* the timer a user is creating or cancelling
  tmCalls,      \* callbacks begun for each timer
  tmLate,       \* those that began after cancelTimer had returned
  tmCancelled,  \* timers for which cancelTimer returned success
  tmLost        \* expirations read before the timer was in the table

timerVars == <<tmPlatform, tmTable, tmArmed, tmExpired, tmThread, tmUser, tmCalls,
               tmLate, tmCancelled, tmLost>>

Timers == 1..MaxTimers
NotBusy == [step |-> "idle", timer |-> 0]
IdleTimerThreads == {t \in TimerThreads : tmThread[t] = NotBusy}
Dropped(f, h) == [k \in DOMAIN f \ {h} |-> f[k]]
Added(f, h, v) == [k \in DOMAIN f \union {h} |-> IF k = h THEN v ELSE f[k]]

TimersInit ==
  /\ tmPlatform \in {"linux", "darwin", "windows"}
  /\ tmTable = <<>>
  /\ tmArmed = <<>>
  /\ tmExpired = {}
  /\ tmThread = [t \in TimerThreads |-> NotBusy]
  /\ tmUser = [u \in TimerUsers |-> NotBusy]
  /\ tmCalls = [h \in Timers |-> 0]
  /\ tmLate = [h \in Timers |-> 0]
  /\ tmCancelled = {}
  /\ tmLost = {}

NextTimer == Cardinality({h \in Timers : \/ h \in DOMAIN tmArmed \union DOMAIN tmTable
                                         \/ tmCalls[h] > 0 \/ h \in tmCancelled \union tmLost
                                         \/ \E u \in TimerUsers : tmUser[u].timer = h}) + 1

\* An expiration; a one-shot timer has one.
expire(h) ==
  /\ h \in DOMAIN tmArmed /\ tmArmed[h].left > 0
  /\ tmArmed' = [tmArmed EXCEPT ![h].left = @ - 1]
  /\ tmExpired' = tmExpired \union {h}
  /\ UNCHANGED <<tmPlatform, tmTable, tmThread, tmUser, tmCalls, tmLate, tmCancelled, tmLost>>

Armed(repeating) == [repeating |-> repeating, left |-> IF repeating THEN MaxExpirations ELSE 1]
Entry(repeating) == [repeating |-> repeating, cancelled |-> FALSE]

\* Mutant: a delay of zero, which would disarm the timerfd, is passed on.
armTimerZero(u, repeating) ==
  /\ tmPlatform = "linux" /\ tmUser[u] = NotBusy /\ NextTimer <= MaxTimers
  /\ tmArmed' = Added(tmArmed, NextTimer, [Armed(repeating) EXCEPT !.left = 0])
  /\ tmUser' = [tmUser EXCEPT ![u] = [step |-> "armed", timer |-> NextTimer]]
  /\ UNCHANGED <<tmPlatform, tmTable, tmExpired, tmThread, tmCalls, tmLate, tmCancelled, tmLost>>

\* Linux: the timer runs and is watched before it is in the table.
armTimer(u, repeating) ==
  /\ tmPlatform = "linux" /\ tmUser[u] = NotBusy /\ NextTimer <= MaxTimers
  /\ tmArmed' = Added(tmArmed, NextTimer, Armed(repeating))
  /\ tmUser' = [tmUser EXCEPT ![u] = [step |-> "armed", timer |-> NextTimer]]
  /\ UNCHANGED <<tmPlatform, tmTable, tmExpired, tmThread, tmCalls, tmLate, tmCancelled, tmLost>>

listTimer(u) ==
  LET h == tmUser[u].timer IN
  /\ tmPlatform = "linux" /\ tmUser[u].step = "armed"
  /\ tmTable' = Added(tmTable, h, Entry(tmArmed[h].repeating))
  /\ tmUser' = [tmUser EXCEPT ![u] = NotBusy]
  /\ UNCHANGED <<tmPlatform, tmArmed, tmExpired, tmThread, tmCalls, tmLate, tmCancelled, tmLost>>

\* Darwin and Windows list it first, so that creation is one step here.
createTimerDarwin(u, repeating) ==
  /\ tmPlatform = "darwin" /\ tmUser[u] = NotBusy /\ NextTimer <= MaxTimers
  /\ tmArmed' = Added(tmArmed, NextTimer, Armed(repeating))
  /\ tmTable' = Added(tmTable, NextTimer, Entry(repeating))
  /\ UNCHANGED <<tmPlatform, tmExpired, tmThread, tmUser, tmCalls, tmLate, tmCancelled, tmLost>>

createTimerWindows(u, repeating) ==
  /\ tmPlatform = "windows" /\ tmUser[u] = NotBusy /\ NextTimer <= MaxTimers
  /\ tmArmed' = Added(tmArmed, NextTimer, Armed(repeating))
  /\ tmTable' = Added(tmTable, NextTimer, Entry(repeating))
  /\ UNCHANGED <<tmPlatform, tmExpired, tmThread, tmUser, tmCalls, tmLate, tmCancelled, tmLost>>

-----------------------------------------------------------------------------
(* The timer threads.                                                       *)

\* Linux reads the expiration first and looks the timer up afterwards.
readExpiration(t, h) ==
  /\ tmPlatform = "linux" /\ IdleTimerThreads = TimerThreads /\ h \in tmExpired
  /\ tmExpired' = tmExpired \ {h}
  /\ tmThread' = [tmThread EXCEPT ![t] = [step |-> "read", timer |-> h]]
  /\ UNCHANGED <<tmPlatform, tmTable, tmArmed, tmUser, tmCalls, tmLate, tmCancelled, tmLost>>

\* A timer that is not in the table (yet) is passed over.
lookupTimer(t) ==
  LET h == tmThread[t].timer
      listed == h \in DOMAIN tmTable
  IN
  /\ tmThread[t].step = "read"
  /\ tmThread' = [tmThread EXCEPT ![t] = IF listed THEN [@ EXCEPT !.step = "picked"] ELSE NotBusy]
  /\ tmLost' = IF listed \/ h \in tmCancelled THEN tmLost ELSE tmLost \union {h}
  /\ UNCHANGED <<tmPlatform, tmTable, tmArmed, tmExpired, tmUser, tmCalls, tmLate, tmCancelled>>

\* Darwin: the serial queue starts the event handler.
startHandler(t, h) ==
  /\ tmPlatform = "darwin" /\ IdleTimerThreads = TimerThreads /\ h \in tmExpired
  /\ tmExpired' = tmExpired \ {h}
  /\ tmThread' = [tmThread EXCEPT ![t] = [step |-> "picked", timer |-> h]]
  /\ UNCHANGED <<tmPlatform, tmTable, tmArmed, tmUser, tmCalls, tmLate, tmCancelled, tmLost>>

\* Windows: timerCallback tests `cancelled' of an entry that a cancelTimer may
\* have freed, and then either outcome is possible.
timerCallback(t, h) ==
  /\ tmPlatform = "windows" /\ t \in IdleTimerThreads /\ h \in tmExpired
  /\ tmExpired' = tmExpired \ {h}
  /\ \/ (h \in DOMAIN tmTable => ~tmTable[h].cancelled)
        /\ tmThread' = [tmThread EXCEPT ![t] = [step |-> "picked", timer |-> h]]
     \/ (h \in DOMAIN tmTable => tmTable[h].cancelled) /\ UNCHANGED tmThread
  /\ UNCHANGED <<tmPlatform, tmTable, tmArmed, tmUser, tmCalls, tmLate, tmCancelled, tmLost>>

\* The callback is called without the lock.
callBack(t) ==
  LET h == tmThread[t].timer IN
  /\ tmThread[t].step = "picked"
  /\ tmCalls' = [tmCalls EXCEPT ![h] = @ + 1]
  /\ tmLate' = [tmLate EXCEPT ![h] = IF h \in tmCancelled THEN @ + 1 ELSE @]
  /\ tmThread' = [tmThread EXCEPT ![t].step = "called"]
  /\ UNCHANGED <<tmPlatform, tmTable, tmArmed, tmExpired, tmUser, tmCancelled, tmLost>>

\* Linux closes and forgets a one-shot timer, Darwin marks it, Windows keeps it.
afterCall(t) ==
  LET h == tmThread[t].timer
      spent == h \in DOMAIN tmTable /\ ~tmTable[h].repeating
  IN
  /\ tmThread[t].step = "called"
  /\ tmThread' = [tmThread EXCEPT ![t] = NotBusy]
  /\ CASE spent /\ tmPlatform = "linux" ->
            /\ tmTable' = Dropped(tmTable, h) /\ tmArmed' = Dropped(tmArmed, h)
            /\ tmExpired' = tmExpired \ {h}
       [] spent /\ tmPlatform = "darwin" ->
            /\ tmTable' = [tmTable EXCEPT ![h].cancelled = TRUE]
            /\ UNCHANGED <<tmArmed, tmExpired>>
       [] OTHER -> UNCHANGED <<tmTable, tmArmed, tmExpired>>
  /\ UNCHANGED <<tmPlatform, tmUser, tmCalls, tmLate, tmCancelled, tmLost>>

-----------------------------------------------------------------------------
(* cancelTimer.  No platform waits for a callback that is running.          *)

\* Mutant: the descriptor stays open and watched, the entry listed.
cancelTimerKeeps(u, h) ==
  /\ tmPlatform = "linux" /\ tmUser[u] = NotBusy /\ h \in DOMAIN tmTable
  /\ tmCancelled' = tmCancelled \union {h}
  /\ UNCHANGED <<tmTable, tmArmed, tmExpired, tmPlatform, tmThread, tmUser, tmCalls, tmLate, tmLost>>

cancelTimerLinux(u, h) ==
  /\ tmPlatform = "linux" /\ tmUser[u] = NotBusy /\ h \in DOMAIN tmTable
  /\ tmTable' = Dropped(tmTable, h) /\ tmArmed' = Dropped(tmArmed, h)
  /\ tmExpired' = tmExpired \ {h}
  /\ tmCancelled' = tmCancelled \union {h}
  /\ UNCHANGED <<tmPlatform, tmThread, tmUser, tmCalls, tmLate, tmLost>>

\* A one-shot timer whose handler has ended is refused and never released.
cancelTimerDarwin(u, h) ==
  /\ tmPlatform = "darwin" /\ tmUser[u] = NotBusy
  /\ h \in DOMAIN tmTable /\ ~tmTable[h].cancelled
  /\ tmTable' = [tmTable EXCEPT ![h].cancelled = TRUE]
  /\ tmArmed' = Dropped(tmArmed, h) /\ tmExpired' = tmExpired \ {h}
  /\ tmCancelled' = tmCancelled \union {h}
  /\ UNCHANGED <<tmPlatform, tmThread, tmUser, tmCalls, tmLate, tmLost>>

\* Windows marks the timer under the lock and deletes it from the queue after.
markCancelled(u, h) ==
  /\ tmPlatform = "windows" /\ tmUser[u] = NotBusy
  /\ h \in DOMAIN tmTable /\ ~tmTable[h].cancelled
  /\ tmTable' = [tmTable EXCEPT ![h].cancelled = TRUE]
  /\ tmUser' = [tmUser EXCEPT ![u] = [step |-> "marked", timer |-> h]]
  /\ UNCHANGED <<tmPlatform, tmArmed, tmExpired, tmThread, tmCalls, tmLate, tmCancelled, tmLost>>

deleteQueueTimer(u) ==
  LET h == tmUser[u].timer IN
  /\ tmUser[u].step = "marked"
  /\ tmTable' = Dropped(tmTable, h) /\ tmArmed' = Dropped(tmArmed, h)
  /\ tmUser' = [tmUser EXCEPT ![u] = NotBusy]
  /\ tmCancelled' = tmCancelled \union {h}
  /\ UNCHANGED <<tmPlatform, tmExpired, tmThread, tmCalls, tmLate, tmLost>>

TimerThreadStep(t) ==
  \/ lookupTimer(t) \/ callBack(t) \/ afterCall(t)
  \/ \E h \in Timers : readExpiration(t, h) \/ startHandler(t, h) \/ timerCallback(t, h)

TimersNext ==
  \/ \E h \in Timers : expire(h)
  \/ \E t \in TimerThreads : TimerThreadStep(t)
  \/ \E u \in TimerUsers : listTimer(u) \/ deleteQueueTimer(u)
  \/ \E u \in TimerUsers, repeating \in BOOLEAN :
       armTimer(u, repeating) \/ createTimerDarwin(u, repeating) \/ createTimerWindows(u, repeating)
  \/ \E u \in TimerUsers, h \in Timers :
       cancelTimerLinux(u, h) \/ cancelTimerDarwin(u, h) \/ markCancelled(u, h)

-----------------------------------------------------------------------------

\* A one-shot timer calls back at most once, and after cancelTimer returned at
\* most the callbacks begin that the timer threads had already picked up, on
\* Windows also one of an expiration that was still waiting for a thread.
CancelStopsTimer ==
  \A h \in Timers :
    /\ tmLate[h] <= IF tmPlatform = "windows" THEN Cardinality(TimerThreads) + 1 ELSE 1
    /\ h \in DOMAIN tmTable /\ ~tmTable[h].repeating => tmCalls[h] <= 1
===============================================================================
