-------------------------- MODULE HandshakeTimeout --------------------------
(***************************************************************************)
(* protocol::HandshakeHandlerWithTimeout and the timer thread of the timer *)
(* PAL that serves all handlers: data arrives on one thread, the timeout   *)
(* runs on another, and the owner destroys a handler when it is done with  *)
(* it.  Only the PAL's table of timers is locked.                          *)
(***************************************************************************)
EXTENDS FiniteSets

CONSTANTS
  Handlers  \* the handshakes in progress

ASSUME TimeoutAssumption == IsFiniteSet(Handlers)

VARIABLES
  base,        \* state of baseHandler_
  feeder,      \* where the data thread is in processData
  timer,       \* the timer in the PAL's table
  thread,      \* where the timer thread is with the handler's callback
  timerFired,  \* timerFired_
  completed,   \* was onComplete_ called?
  timedOut,    \* was onTimeout_ called?
  alive,       \* does the handler exist?
  overlap,     \* did the timeout callback run beside processData?
  fedLate      \* did the owner pass data on after the timeout?

timeoutVars == <<base, feeder, timer, thread, timerFired, completed, timedOut, alive,
          overlap, fedLate>>

\* scheduleOnce succeeds, or fails and there is no timer.
TimeoutInit ==
  /\ base = [h \in Handlers |-> "WaitingC0"]
  /\ feeder = [h \in Handlers |-> "idle"]
  /\ timer \in [Handlers -> {"set", "none"}]
  /\ thread = [h \in Handlers |-> "idle"]
  /\ timerFired = [h \in Handlers |-> FALSE]
  /\ completed = [h \in Handlers |-> FALSE]
  /\ timedOut = [h \in Handlers |-> FALSE]
  /\ alive = [h \in Handlers |-> TRUE]
  /\ overlap = [h \in Handlers |-> FALSE]
  /\ fedLate = [h \in Handlers |-> FALSE]

-----------------------------------------------------------------------------

\* The timer thread is inside the callback of h.
Running(h) == thread[h] \in {"taken", "check", "notify"}

\* A step of the data thread.
Feeds(h) == alive[h] /\ overlap' = [overlap EXCEPT ![h] = @ \/ Running(h)]

Following(s) == CASE s = "WaitingC0" -> "WaitingC1"
                  [] s = "WaitingC1" -> "WaitingC2"
                  [] OTHER -> "Complete"

\* Mutant: every packet that is taken is reported as completion.
successCompletes(h) ==
  /\ Feeds(h)
  /\ feeder[h] = "idle"
  /\ base[h] \notin {"Complete", "Failed"}
  /\ fedLate' = [fedLate EXCEPT ![h] = @ \/ timedOut[h]]
  /\ \E s \in {"Failed", Following(base[h])} :
       /\ base' = [base EXCEPT ![h] = s]
       /\ feeder' = [feeder EXCEPT ![h] = IF s = "Failed" THEN "cancel" ELSE "notify"]
  /\ UNCHANGED <<timer, thread, timerFired, completed, timedOut, alive>>

\* The base handler takes a packet: timerFired_ is not looked at.
processDataTimed(h) ==
  /\ Feeds(h)
  /\ feeder[h] = "idle"
  /\ base[h] \notin {"Complete", "Failed"}
  /\ fedLate' = [fedLate EXCEPT ![h] = @ \/ timedOut[h]]
  /\ \E s \in {"Failed", Following(base[h])} :
       /\ base' = [base EXCEPT ![h] = s]
       /\ feeder' = [feeder EXCEPT ![h] =
            IF s \in {"Complete", "Failed"} THEN "cancel" ELSE "idle"]
  /\ UNCHANGED <<timer, thread, timerFired, completed, timedOut, alive>>

\* A callback the timer thread has taken is not stopped by cancelTimer.
cancelTimeoutTimer(h) ==
  /\ Feeds(h)
  /\ feeder[h] = "cancel"
  /\ timer' = [timer EXCEPT ![h] = "none"]
  /\ feeder' = [feeder EXCEPT ![h] = IF base[h] = "Complete" THEN "notify" ELSE "idle"]
  /\ UNCHANGED <<base, thread, timerFired, completed, timedOut, alive, fedLate>>

notifyComplete(h) ==
  /\ Feeds(h)
  /\ feeder[h] = "notify"
  /\ completed' = [completed EXCEPT ![h] = TRUE]
  /\ feeder' = [feeder EXCEPT ![h] = "idle"]
  /\ UNCHANGED <<base, timer, thread, timerFired, timedOut, alive, fedLate>>

\* The owner is done: the destructor cancels the timer.  A callback that was
\* taken runs on, on the memory of the handler (undefined behaviour; here it
\* finds the last values).
destroy(h) ==
  /\ alive[h]
  /\ feeder[h] = "idle"
  /\ alive' = [alive EXCEPT ![h] = FALSE]
  /\ timer' = [timer EXCEPT ![h] = "none"]
  /\ UNCHANGED <<base, feeder, thread, timerFired, completed, timedOut, overlap, fedLate>>

-----------------------------------------------------------------------------

\* The timer expires: the timer thread copies the callback under the lock of
\* the table and calls it without, one callback after the other.
takeCallback(h) ==
  /\ thread[h] = "idle"
  /\ timer[h] = "set"
  /\ \A g \in Handlers : ~Running(g)
  /\ overlap' = [overlap EXCEPT ![h] = @ \/ feeder[h] # "idle"]
  /\ thread' = [thread EXCEPT ![h] = "taken"]
  /\ UNCHANGED <<base, feeder, timer, timerFired, completed, timedOut, alive, fedLate>>

handleTimeout(h) ==
  /\ thread[h] = "taken"
  /\ timerFired' = [timerFired EXCEPT ![h] = TRUE]
  /\ thread' = [thread EXCEPT ![h] = "check"]
  /\ UNCHANGED <<base, feeder, timer, completed, timedOut, alive, overlap, fedLate>>

\* Mutant: the test of the state is reversed.
timeoutReversed(h) ==
  /\ thread[h] = "check"
  /\ thread' = [thread EXCEPT ![h] = IF base[h] = "Complete" THEN "notify" ELSE "done"]
  /\ UNCHANGED <<base, feeder, timer, timerFired, completed, timedOut, alive,
                 overlap, fedLate>>

checkTimeout(h) ==
  /\ thread[h] = "check"
  /\ thread' = [thread EXCEPT ![h] = IF base[h] = "Complete" THEN "done" ELSE "notify"]
  /\ UNCHANGED <<base, feeder, timer, timerFired, completed, timedOut, alive,
                 overlap, fedLate>>

notifyTimeout(h) ==
  /\ thread[h] = "notify"
  /\ timedOut' = [timedOut EXCEPT ![h] = TRUE]
  /\ thread' = [thread EXCEPT ![h] = "done"]
  /\ UNCHANGED <<base, feeder, timer, timerFired, completed, alive, overlap, fedLate>>

\* A one-shot timer is taken out of the table after its callback.
timerDone(h) ==
  /\ thread[h] = "done"
  /\ timer[h] = "set"
  /\ timer' = [timer EXCEPT ![h] = "none"]
  /\ UNCHANGED <<base, feeder, thread, timerFired, completed, timedOut, alive,
                 overlap, fedLate>>

TimerStep(h) ==
  \/ takeCallback(h) \/ handleTimeout(h) \/ checkTimeout(h)
  \/ notifyTimeout(h) \/ timerDone(h)

TimeoutNext ==
  \E h \in Handlers :
    \/ processDataTimed(h) \/ cancelTimeoutTimer(h) \/ notifyComplete(h) \/ destroy(h)
    \/ TimerStep(h)

-----------------------------------------------------------------------------

(***************************************************************************)
(* The owner hears of one outcome, the handshake completed or it timed out *)
(* before it did, if the callback of the timer does not run beside         *)
(* processData and the owner passes no data on after the timeout.          *)
(***************************************************************************)
OneOutcome ==
  \A h \in Handlers : ~overlap[h] /\ ~fedLate[h] => ~(completed[h] /\ timedOut[h])
=============================================================================
