---------------------------- MODULE ErrorIsolation ----------------------------
(***************************************************************************)
(* core::ErrorIsolation: failed connections, memory pressure, restarts of  *)
(* crashed components on a thread of their own, and circuit breakers for   *)
(* external services.  attemptComponentRestart lets componentsMutex_ go    *)
(* while it joins the thread of an earlier restart.  Statistics are left   *)
(* out.                                                                    *)
(***************************************************************************)
EXTENDS Naturals, FiniteSets

CONSTANTS
  IsoConnections,
  Reporters,            \* threads that report crashes of the component
  RestartAttempts,      \* componentRestartMaxAttempts
  BreakerThreshold,     \* circuitBreakerThreshold
  MemoryThreshold,      \* memoryThresholdPercent
  MaxLateFailures       \* bound: failures counted by the ghost
ASSUME IsoAssumption ==
  {RestartAttempts, BreakerThreshold, MemoryThreshold, MaxLateFailures} \subseteq Nat

VARIABLES
  isoConnections,  \* connections_: id -> failed
  isoPressure,     \* underMemoryPressure_
  component,       \* the component's entry: state, restartAttempts
  restarter,       \* its restartThread: where it is and its attempts so far
  reporter,        \* where each reporter is
  shuttingDown,    \* shuttingDown_
  aborted,         \* the process ended: a joinable thread was overwritten or joined twice
  isoOverlap,      \* did two calls for the component overlap?
  breaker,         \* the service's circuit breaker: state, failureCount, aged
  inARow           \* failures reported since the last success in a closed breaker

isoVars == <<isoConnections, isoPressure, component, restarter, reporter,
             shuttingDown, aborted, isoOverlap, breaker, inARow>>

NoThread == [at |-> "none", attempts |-> 0]

IsoInit ==
  /\ isoConnections = <<>> /\ isoPressure = FALSE
  /\ component = [state |-> "absent", attempts |-> 0]
  /\ restarter = NoThread
  /\ reporter = [r \in Reporters |-> "idle"]
  /\ shuttingDown = FALSE /\ aborted = FALSE /\ isoOverlap = FALSE
  /\ breaker = [state |-> "absent", failureCount |-> 0, aged |-> FALSE]
  /\ inARow = 0

partsConnection == <<isoConnections, isoPressure>>
partsComponent == <<component, restarter, reporter, shuttingDown, aborted, isoOverlap>>
partsBreaker == <<breaker, inARow>>

-----------------------------------------------------------------------------
\* Connections and memory

registerIsoConnection(c) ==
  /\ isoConnections' = [d \in DOMAIN isoConnections \union {c} |->
       IF d = c THEN FALSE ELSE isoConnections[d]]
  /\ UNCHANGED <<isoPressure, partsComponent, partsBreaker>>

\* An unknown connection only reaches the callback.
handleConnectionError(c) ==
  /\ c \in DOMAIN isoConnections
  /\ isoConnections' = [isoConnections EXCEPT ![c] = TRUE]
  /\ UNCHANGED <<isoPressure, partsComponent, partsBreaker>>

\* unregisterConnection and cleanupConnection.
cleanupConnection(c) ==
  /\ isoConnections' = [d \in DOMAIN isoConnections \ {c} |-> isoConnections[d]]
  /\ UNCHANGED <<isoPressure, partsComponent, partsBreaker>>

calculateMemoryPercent(used, total) == IF total = 0 THEN 0 ELSE (used * 100) \div total

reportMemoryUsage(used, total) ==
  /\ isoPressure' = (calculateMemoryPercent(used, total) >= MemoryThreshold)
  /\ UNCHANGED <<isoConnections, partsComponent, partsBreaker>>

-----------------------------------------------------------------------------
\* Components

Busy == \E r \in Reporters : reporter[r] # "idle"
IsoUp == ~aborted /\ ~shuttingDown

\* The entry is replaced; a restart thread that still is joinable ends the process.
registerComponent ==
  /\ IsoUp
  /\ component' = [state |-> "Running", attempts |-> 0]
  /\ aborted' = (restarter.at # "none")
  /\ isoOverlap' = (isoOverlap \/ restarter.at # "none" \/ Busy)
  /\ UNCHANGED <<restarter, reporter, shuttingDown, partsConnection, partsBreaker>>

\* The join comes before the entry goes.
unregisterComponent ==
  /\ IsoUp
  /\ component.state # "absent"
  /\ restarter.at \in {"none", "done"}
  /\ component' = [state |-> "absent", attempts |-> 0]
  /\ restarter' = NoThread
  /\ isoOverlap' = (isoOverlap \/ Busy)
  /\ UNCHANGED <<reporter, shuttingDown, aborted, partsConnection, partsBreaker>>

\* A new restart thread; overwriting a joinable one ends the process.
Launch ==
  /\ component' = [component EXCEPT !.state = "Restarting"]
  /\ restarter' = [at |-> "sleep", attempts |-> 0]
  /\ aborted' = (restarter.at # "none")

\* An unknown component is only counted.
reportComponentCrash(r) ==
  /\ IsoUp /\ reporter[r] = "idle"
  /\ component.state # "absent"
  /\ IF restarter.at = "none"
     THEN Launch /\ UNCHANGED reporter
     ELSE reporter' = [reporter EXCEPT ![r] = "join"] /\ UNCHANGED <<component, restarter, aborted>>
  /\ isoOverlap' = (isoOverlap \/ Busy)
  /\ UNCHANGED <<shuttingDown, partsConnection, partsBreaker>>

\* Without the lock: two reporters may be here for the same thread.
joinRestart(r) ==
  /\ IsoUp /\ reporter[r] = "join"
  /\ restarter.at \in {"done", "none"}
  /\ aborted' = (restarter.at = "none")
  /\ restarter' = NoThread
  /\ reporter' = [reporter EXCEPT ![r] = "relock"]
  /\ UNCHANGED <<component, shuttingDown, isoOverlap, partsConnection, partsBreaker>>

\* Mutant: the restart is not started after the join.
relockOnly(r) ==
  /\ IsoUp /\ reporter[r] = "relock"
  /\ component' = [component EXCEPT !.state = IF @ = "absent" THEN @ ELSE "Restarting"]
  /\ reporter' = [reporter EXCEPT ![r] = "idle"]
  /\ UNCHANGED <<restarter, aborted, shuttingDown, isoOverlap, partsConnection, partsBreaker>>

attemptComponentRestart(r) ==
  /\ IsoUp /\ reporter[r] = "relock"
  /\ IF component.state = "absent"
     THEN UNCHANGED <<component, restarter, aborted>>
     ELSE Launch
  /\ reporter' = [reporter EXCEPT ![r] = "idle"]
  /\ UNCHANGED <<shuttingDown, isoOverlap, partsConnection, partsBreaker>>

\* Attempts, each after a pause, until one succeeds or they are used up, or
\* the server shuts down; then the outcome under the lock.
restartThread ==
  /\ ~aborted
  /\ \/ /\ restarter.at = "sleep"
        /\ restarter.attempts < RestartAttempts /\ ~shuttingDown
        /\ \E ok \in BOOLEAN :
             restarter' = [at |-> IF ok THEN "ok" ELSE "sleep", attempts |-> restarter.attempts + 1]
        /\ UNCHANGED component
     \/ /\ restarter.at = "sleep"
        /\ restarter.attempts >= RestartAttempts \/ shuttingDown
        /\ restarter' = [restarter EXCEPT !.at = "failed"]
        /\ UNCHANGED component
     \/ /\ restarter.at \in {"ok", "failed"}
        /\ component' = IF component.state = "absent" THEN component
             ELSE [state |-> IF restarter.at = "ok" THEN "Running" ELSE "Failed",
                   attempts |-> restarter.attempts]
        /\ restarter' = [restarter EXCEPT !.at = "done"]
  /\ UNCHANGED <<reporter, shuttingDown, aborted, isoOverlap, partsConnection, partsBreaker>>

\* The destructor: no call runs any more, the restart thread is joined.
destroyIsolation ==
  /\ IsoUp /\ ~Busy
  /\ shuttingDown' = TRUE
  /\ UNCHANGED <<component, restarter, reporter, aborted, isoOverlap, partsConnection, partsBreaker>>

-----------------------------------------------------------------------------
\* Circuit breakers

registerExternalService ==
  /\ breaker' = [state |-> "Closed", failureCount |-> 0, aged |-> FALSE]
  /\ inARow' = 0
  /\ UNCHANGED <<partsConnection, partsComponent>>

unregisterExternalService ==
  /\ breaker' = [state |-> "absent", failureCount |-> 0, aged |-> FALSE]
  /\ inARow' = 0
  /\ UNCHANGED <<partsConnection, partsComponent>>

\* Mutant: the count starts again with every failure while half open.
failureOffByOne ==
  /\ breaker.state # "absent" /\ inARow < MaxLateFailures
  /\ inARow' = inARow + 1
  /\ breaker' = IF breaker.failureCount + 1 > BreakerThreshold
                THEN [breaker EXCEPT !.state = "Open"]
                ELSE [breaker EXCEPT !.failureCount = @ + 1]
  /\ UNCHANGED <<partsConnection, partsComponent>>

\* A failure reported while the breaker is open (a late answer) changes nothing.
recordExternalServiceFailure ==
  /\ breaker.state # "absent" /\ inARow < MaxLateFailures
  /\ inARow' = inARow + 1
  /\ breaker' =
       CASE breaker.state = "HalfOpen" -> [breaker EXCEPT !.state = "Open", !.aged = FALSE]
         [] breaker.state = "Closed" ->
              IF breaker.failureCount + 1 >= BreakerThreshold
              THEN [state |-> "Open", failureCount |-> breaker.failureCount + 1, aged |-> FALSE]
              ELSE [breaker EXCEPT !.failureCount = @ + 1]
         [] OTHER -> breaker
  /\ UNCHANGED <<partsConnection, partsComponent>>

recordExternalServiceSuccess ==
  /\ breaker.state \in {"HalfOpen", "Closed"}
  /\ breaker' = [breaker EXCEPT !.state = "Closed", !.failureCount = 0]
  /\ inARow' = 0
  /\ UNCHANGED <<partsConnection, partsComponent>>

\* circuitBreakerResetMs pass.
breakerAges ==
  /\ breaker.state = "Open" /\ ~breaker.aged
  /\ breaker' = [breaker EXCEPT !.aged = TRUE]
  /\ UNCHANGED <<inARow, partsConnection, partsComponent>>

\* The first question after the pause lets this and all other callers through.
isExternalServiceAvailable ==
  /\ breaker.state = "Open" /\ breaker.aged
  /\ breaker' = [breaker EXCEPT !.state = "HalfOpen"]
  /\ UNCHANGED <<inARow, partsConnection, partsComponent>>

IsoNext ==
  \/ \E c \in IsoConnections :
       registerIsoConnection(c) \/ handleConnectionError(c) \/ cleanupConnection(c)
  \/ \E used \in 0..2, total \in {0, 2} : reportMemoryUsage(used, total)
  \/ registerComponent \/ unregisterComponent \/ restartThread \/ destroyIsolation
  \/ \E r \in Reporters :
       reportComponentCrash(r) \/ joinRestart(r) \/ attemptComponentRestart(r)
  \/ registerExternalService \/ unregisterExternalService
  \/ recordExternalServiceFailure \/ recordExternalServiceSuccess
  \/ breakerAges \/ isExternalServiceAvailable

-----------------------------------------------------------------------------

(***************************************************************************)
(* Crash reports bring the process down only if calls for the component    *)
(* overlapped (two reports, or a registration beside a restart), a         *)
(* component said to be restarting has a thread that restarts it, and a    *)
(* breaker is closed only below the threshold of failures in a row (after  *)
(* none at all, should the threshold be zero).                             *)
(***************************************************************************)
IsolationSound ==
  /\ aborted => isoOverlap
  /\ component.state = "Restarting" /\ ~aborted => restarter.at \in {"sleep", "ok", "failed"}
  /\ breaker.state = "Closed" => inARow = 0 \/ inARow < BreakerThreshold
=============================================================================
