----------------------------- MODULE ExternalAuth -----------------------------
(***************************************************************************)
(* core::ExternalAuthCallback: authentication by an HTTP service, with a   *)
(* cache of grants and a circuit breaker.  The atomics of the breaker are  *)
(* read first and changed later; a timed-out request holds statsMutex_     *)
(* while it records its failure, which takes statsMutex_ again when the    *)
(* breaker trips.                                                          *)
(***************************************************************************)
EXTENDS Naturals, FiniteSets

CONSTANTS
  AuthThreads, AuthKeys,   \* callers; application, key, address and action
  CircuitThreshold,        \* circuitBreakerThreshold
  MaxRequests              \* bound: requests that reach the service
ASSUME ExtAssumption ==
  /\ IsFiniteSet(AuthThreads)
  /\ CircuitThreshold \in Nat \ {0} /\ MaxRequests \in Nat

VARIABLES
  circuit,        \* circuitState_
  circuitFails,   \* failureCount_
  circuitAged,    \* circuitBreakerResetMs passed since lastFailureTime_?
  grants,         \* cache_: no entry, a valid or an expired one
  fallback,       \* config_.fallbackOnTimeout
  extPc,          \* where each call is, its key, its result, the state it read
  statsHolder,    \* the thread that keeps statsMutex_ across recordFailure
  served          \* requests sent; failed, denied in words with "service" (history)

extVars == <<circuit, circuitFails, circuitAged, grants, fallback, extPc, statsHolder, served>>

ExtIdle == [step |-> "idle", key |-> "none", result |-> "none", seen |-> "none"]

ExtInit ==
  /\ circuit = "Closed" /\ circuitFails = 0 /\ circuitAged = FALSE
  /\ grants = [k \in AuthKeys |-> "none"]
  /\ fallback \in {"Allow", "Deny"}
  /\ extPc = [t \in AuthThreads |-> ExtIdle]
  /\ statsHolder = {}
  /\ served = [sent |-> 0, failed |-> 0, denied |-> 0]

-----------------------------------------------------------------------------

Move(t, step) == extPc' = [extPc EXCEPT ![t].step = step]
Return(t) == extPc' = [extPc EXCEPT ![t] = ExtIdle]

\* checkCache: a valid entry answers at once, an expired one is erased.
authenticate(t, k) ==
  /\ extPc[t].step = "idle" /\ statsHolder = {}
  /\ grants[k] # "valid"
  /\ grants' = [grants EXCEPT ![k] = "none"]
  /\ extPc' = [extPc EXCEPT ![t] = [ExtIdle EXCEPT !.step = "circuit", !.key = k]]
  /\ UNCHANGED <<circuit, circuitFails, circuitAged, fallback, statsHolder, served>>

\* An open circuit is tested under circuitMutex_, after the state was read.
circuitAllowsRequest(t) ==
  /\ \/ /\ extPc[t].step = "circuit"
        /\ extPc' = [extPc EXCEPT ![t].step = IF circuit = "Open" THEN "open" ELSE "request"]
        /\ UNCHANGED circuit
     \/ /\ extPc[t].step = "open" /\ circuitAged
        /\ circuit' = "HalfOpen"
        /\ Move(t, "request")
     \/ /\ extPc[t].step = "open" /\ ~circuitAged /\ statsHolder = {}
        /\ Return(t)
        /\ UNCHANGED circuit
  /\ UNCHANGED <<circuitFails, circuitAged, grants, fallback, statsHolder, served>>

\* The service answers, answers with an error, or does not answer in time.
\* "refused" is a denial whose reason holds the word "service" (the default
\* reason does); an answer without body counts like it.
makeRequest(t) ==
  /\ extPc[t].step = "request" /\ statsHolder = {}
  /\ served.sent < MaxRequests
  /\ \E answer \in {"allow", "deny", "refused", "error", "timeout"} :
       /\ extPc' = [extPc EXCEPT
            ![t].step = IF answer = "error" \/ (answer = "timeout" /\ fallback = "Deny")
                        THEN "readFail" ELSE "result",
            ![t].result = IF answer = "timeout" /\ fallback = "Allow" THEN "allow" ELSE answer]
       /\ statsHolder' = IF answer = "timeout" /\ fallback = "Deny" THEN {t} ELSE {}
       /\ served' = [served EXCEPT !.sent = @ + 1,
            !.failed = @ + IF answer \in {"error", "timeout"} THEN 1 ELSE 0,
            !.denied = @ + IF answer = "refused" THEN 1 ELSE 0]
  /\ UNCHANGED <<circuit, circuitFails, circuitAged, grants, fallback>>

\* What authenticate does with the result: a reason with "service" in it is
\* recorded as a failure, for errors a second time.
Result(t) ==
  /\ extPc[t].step = "result"
  /\ CASE extPc[t].result = "allow" -> Move(t, "readGood")
       [] extPc[t].result = "deny" -> Return(t)
       [] OTHER -> extPc' = [extPc EXCEPT ![t].step = "readFail", ![t].result = "last"]
  /\ UNCHANGED <<circuit, circuitFails, circuitAged, grants, fallback, statsHolder, served>>

\* recordFailure and recordSuccess read the state ...
readCircuit(t) ==
  /\ extPc[t].step \in {"readFail", "readGood"}
  /\ extPc' = [extPc EXCEPT ![t].seen = circuit,
       ![t].step = IF @ = "readFail" THEN "fail" ELSE "good"]
  /\ UNCHANGED <<circuit, circuitFails, circuitAged, grants, fallback, statsHolder, served>>

\* Mutant: a failure that is recorded counts double.
failTwice(t) ==
  LET seen == extPc[t].seen
      trips == seen = "HalfOpen" \/ (seen = "Closed" /\ circuitFails + 2 >= CircuitThreshold)
  IN
  /\ extPc[t].step = "fail"
  /\ trips => statsHolder = {}
  /\ circuit' = IF trips THEN "Open" ELSE circuit
  /\ circuitAged' = (circuitAged /\ ~trips)
  /\ circuitFails' = circuitFails + IF seen = "Closed" THEN 2 ELSE 0
  /\ IF extPc[t].result = "last" THEN Return(t) ELSE Move(t, "result")
  /\ statsHolder' = statsHolder \ {t}
  /\ UNCHANGED <<grants, fallback, served>>

\* ... and act on what they read.  A trip counts under statsMutex_: with a
\* holder, even the thread itself, it waits.
recordFailure(t) ==
  LET seen == extPc[t].seen
      trips == seen = "HalfOpen" \/ (seen = "Closed" /\ circuitFails + 1 >= CircuitThreshold)
  IN
  /\ extPc[t].step = "fail"
  /\ trips => statsHolder = {}
  /\ circuit' = IF trips THEN "Open" ELSE circuit
  /\ circuitAged' = (circuitAged /\ ~trips)
  /\ circuitFails' = circuitFails + IF seen = "Closed" THEN 1 ELSE 0
  /\ IF extPc[t].result = "last" THEN Return(t) ELSE Move(t, "result")
  /\ statsHolder' = statsHolder \ {t}
  /\ UNCHANGED <<grants, fallback, served>>

\* Then the grant goes into the cache, the one after a timeout too.
recordSuccess(t) ==
  /\ extPc[t].step = "good" /\ statsHolder = {}
  /\ circuit' = IF extPc[t].seen = "HalfOpen" THEN "Closed" ELSE circuit
  /\ circuitFails' = IF extPc[t].seen = "Open" THEN circuitFails ELSE 0
  /\ Move(t, "store")
  /\ UNCHANGED <<circuitAged, grants, fallback, statsHolder, served>>

storeInCache(t) ==
  /\ extPc[t].step = "store"
  /\ grants' = [grants EXCEPT ![extPc[t].key] = "valid"]
  /\ Return(t)
  /\ UNCHANGED <<circuit, circuitFails, circuitAged, fallback, statsHolder, served>>

clearCache ==
  /\ grants' = [k \in AuthKeys |-> "none"]
  /\ UNCHANGED <<circuit, circuitFails, circuitAged, fallback, extPc, statsHolder, served>>

updateConfig(f) ==
  /\ fallback' = f
  /\ UNCHANGED <<circuit, circuitFails, circuitAged, grants, extPc, statsHolder, served>>

\* Time passes: an entry reaches its expireTime, the open circuit its reset.
extTime ==
  /\ \/ /\ circuit = "Open" /\ ~circuitAged
        /\ circuitAged' = TRUE /\ UNCHANGED grants
     \/ \E k \in AuthKeys : grants[k] = "valid" /\ grants' = [grants EXCEPT ![k] = "expired"]
                            /\ UNCHANGED circuitAged
  /\ UNCHANGED <<circuit, circuitFails, fallback, extPc, statsHolder, served>>

ExtGoOn(t) ==
  \/ circuitAllowsRequest(t) \/ makeRequest(t) \/ Result(t) \/ readCircuit(t)
  \/ recordFailure(t) \/ recordSuccess(t) \/ storeInCache(t)

ExtNext ==
  \/ \E t \in AuthThreads : ExtGoOn(t) \/ \E k \in AuthKeys : authenticate(t, k)
  \/ clearCache \/ extTime
  \/ \E f \in {"Allow", "Deny"} : updateConfig(f)

-----------------------------------------------------------------------------

(***************************************************************************)
(* The breaker leaves Closed only for a reason: a request the service did  *)
(* not answer counts at most twice and a denial at most once, and they     *)
(* reach circuitBreakerThreshold, however the threads interleave.          *)
(***************************************************************************)
CircuitJustified ==
  /\ circuit # "Closed" => 2 * served.failed + served.denied >= CircuitThreshold
  /\ circuitFails <= 2 * served.failed + served.denied
=============================================================================
