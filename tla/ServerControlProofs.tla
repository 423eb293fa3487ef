------------------------ MODULE ServerControlProofs ------------------------
(***************************************************************************)
(* Proofs about ServerControl, for any number of threads of the program,   *)
(* of clients and of calls.                                                *)
(***************************************************************************)
EXTENDS ServerControl, TLAPS

\* In stop or forceStop, before the server is Stopped.
InStop(t) == pc[t] \in {"grace", "signal", "join", "joining", "relock", "close"}

Overlapped == "force during stop" \in used

\* The paths of stop that run without mutex_ are never forceStop's, and the
\* handle of the event-loop thread is joinable while there is a thread.
HandleInv ==
  /\ \A t \in Threads : pc[t] \in {"grace", "relock"} => ~forced[t]
  /\ joinable <=> loop # "none"

(***************************************************************************)
(* What holds of the start-up whichever calls overlap: state_ changes only *)
(* under mutex_, a socket listens from startBind to stopClose, and without *)
(* an early client the accept of startBind is still there at startRun.     *)
(***************************************************************************)
StartInv ==
  /\ \A t \in Threads : pc[t] \in {"bind", "run"} => state = "Starting"
  /\ listening => state \in {"Running", "Stopping"} \/ \E t \in Threads : pc[t] = "run"
  /\ state = "Running" => listening
  /\ \A k \in Clients : client[k] = "queued" => listening
  /\ \A t \in Threads : pc[t] = "run" =>
       /\ listening
       /\ "early client" \notin used =>
            accepting /\ \A k \in Clients : client[k] # "queued"
  /\ AcceptsWhileRunning

(***************************************************************************)
(* What needs that forceStop does not overlap a stop: one thread at a time *)
(* stops the server, the thread it is about to join is joinable, and it is *)
(* not once it was joined.                                                 *)
(***************************************************************************)
StopInv ==
  /\ failure = "none"
  /\ \A t, u \in Threads : InStop(t) /\ InStop(u) => t = u
  /\ \A t \in Threads : InStop(t) /\ ~forced[t] => state = "Stopping"
  /\ joinable => state \in {"Running", "Stopping"} \/ \E t \in Threads : pc[t] = "run"
  /\ \A t \in Threads : pc[t] \in Joining => joinable
  /\ \A t \in Threads : pc[t] \in {"relock", "close"} => ~joinable
  /\ StoppedIsClean

(***************************************************************************)
(* The inductive invariant.                                                *)
(***************************************************************************)
ControlInv ==
  /\ LockDiscipline
  /\ HandleInv
  /\ StartInv
  /\ ~Overlapped => StopInv

(***************************************************************************)
(* Every step keeps the types.                                             *)
(***************************************************************************)
LEMMA TypeStep ==
  ASSUME TypeOK, [Next]_vars
  PROVE  TypeOK'
<1>p. {"idle", "bind", "run", "grace", "signal", "join", "joining", "relock", "close",
        "emit", "callback", "getter"} \subseteq Holding \cup Waiting \cup Joining
  BY DEF Holding, Waiting, Joining
<1>v. {"early client", "early stop", "force during stop", "reentrant"} \subseteq Uses
  BY DEF Uses
<1>c. ASSUME NEW t \in Threads, Call(t) PROVE calls' \in [Threads -> 0 .. MaxCalls]
  <2>1. calls[t] + 1 \in 0 .. MaxCalls
    BY <1>c, ControlAssumption DEF Call, TypeOK
  <2> QED BY <2>1, <1>c DEF Call, TypeOK
<1> USE <1>p DEF TypeOK, Lock, Unlock, Go, apiVars, loopVars, acceptVars, vars
<1>1. ASSUME NEW t \in Threads, initialize(t) PROVE TypeOK'
  BY ZenonT(60), <1>1, <1>c, <1>v DEF initialize
<1>2. ASSUME NEW t \in Threads, start(t) PROVE TypeOK'
  BY ZenonT(60), <1>2, <1>c, <1>v DEF start
<1>3. ASSUME NEW t \in Threads, startBind(t) PROVE TypeOK'
  <2>1. CASE state' = "Initialized" /\ UNCHANGED <<loopVars, acceptVars, failure, used>>
    BY <1>3, <2>1 DEF startBind
  <2>2. CASE /\ listening' = TRUE /\ accepting' = TRUE /\ joinable' = TRUE
             /\ loop' = IF joinable THEN loop ELSE "born"
             /\ failure' = IF joinable THEN "terminate" ELSE failure
             /\ Go(t, "run")
             /\ UNCHANGED <<state, mutex, stopRequested, rearm, client>>
    <3>1. UNCHANGED <<callbackMutex, forced, calls, used>>
      BY <1>3 DEF startBind
    <3>2. loop' \in {"none", "born", "turning", "emit", "callback", "getter", "ended"}
      BY <2>2
    <3>3. failure' \in {"none", "join", "terminate"}
      BY <2>2
    <3>4. pc' \in [Threads -> Holding \cup Waiting \cup Joining]
      BY <2>2
    <3> QED BY <2>2, <3>1, <3>2, <3>3, <3>4
  <2> QED BY <1>3, <2>1, <2>2 DEF startBind
<1>4. ASSUME NEW t \in Threads, startRun(t) PROVE TypeOK'
  BY <1>4 DEF startRun
<1>5. ASSUME NEW t \in Threads, stop(t) PROVE TypeOK'
  BY ZenonT(60), <1>5, <1>c, <1>v DEF stop, Note
<1>6. ASSUME NEW t \in Threads, stopAfterGrace(t) PROVE TypeOK'
  BY <1>6 DEF stopAfterGrace
<1>7. ASSUME NEW t \in Threads, forceStop(t) PROVE TypeOK'
  <2>1. used' \subseteq Uses
    BY <1>7, <1>v DEF forceStop, Note
  <2>2. pc' = [pc EXCEPT ![t] = "signal"] /\ forced' = [forced EXCEPT ![t] = TRUE] /\ mutex' = t
        /\ UNCHANGED <<state, callbackMutex, loopVars, acceptVars, failure>>
    BY <1>7 DEF forceStop, Note
  <2>3. calls' \in [Threads -> 0 .. MaxCalls]
    BY <1>7, <1>c DEF forceStop, Note
  <2>4. /\ pc' \in [Threads -> Holding \cup Waiting \cup Joining]
        /\ forced' \in [Threads -> BOOLEAN]
    BY <2>2
  <2>5. mutex' \in Threads \cup {Nobody}
    BY <2>2
  <2> QED BY <2>1, <2>2, <2>3, <2>4, <2>5
<1>8. ASSUME NEW t \in Threads, stopSignal(t) PROVE TypeOK'
  BY <1>8 DEF stopSignal
<1>9. ASSUME NEW t \in Threads, stopJoin(t) PROVE TypeOK'
  BY <1>9 DEF stopJoin
<1>10. ASSUME NEW t \in Threads, stopJoined(t) PROVE TypeOK'
  BY ZenonT(60), <1>10 DEF stopJoined
<1>11. ASSUME NEW t \in Threads, stopRelock(t) PROVE TypeOK'
  BY <1>11 DEF stopRelock
<1>12. ASSUME NEW t \in Threads, stopClose(t) PROVE TypeOK'
  BY ZenonT(60), <1>12 DEF stopClose
<1>13. ASSUME NEW t \in Threads, emitEvent(t) PROVE TypeOK'
  <2>1. used' \subseteq Uses
    BY <1>13 DEF emitEvent, Note, Uses
  <2> QED BY <1>13, <2>1 DEF emitEvent
<1>14. ASSUME NEW t \in Threads, callReturns(t) PROVE TypeOK'
  BY <1>14 DEF callReturns
<1>15. CASE runEventLoop
  BY ZenonT(60), <1>15 DEF runEventLoop
<1>16. CASE loopEmitEvent
  BY ZenonT(60), <1>16, <1>v DEF loopEmitEvent
<1>17. CASE loopGetter
  BY <1>17 DEF loopGetter
<1>18. CASE loopCallbackReturns
  BY <1>18 DEF loopCallbackReturns
<1>19. CASE loopEnd
  BY <1>19 DEF loopEnd
<1>20. ASSUME NEW k \in Clients, handleAccept(k) PROVE TypeOK'
  BY ZenonT(60), <1>20 DEF handleAccept
<1>21. ASSUME NEW k \in Clients, connect(k) PROVE TypeOK'
  <2>1. used' \subseteq Uses
    BY <1>21, <1>v DEF connect, Note
  <2>2. client' = [client EXCEPT ![k] = "queued"]
        /\ UNCHANGED <<apiVars, callbackMutex, loopVars, listening, accepting, rearm, failure>>
    BY <1>21 DEF connect, Note
  <2> QED BY <2>1, <2>2
<1>22. ASSUME NEW k \in Clients, closeConnection(k) PROVE TypeOK'
  BY <1>22 DEF closeConnection
<1>23. CASE UNCHANGED vars
  BY <1>23
<1> QED BY <1>1, <1>2, <1>3, <1>4, <1>5, <1>6, <1>7, <1>8, <1>9, <1>10, <1>11, <1>12,
  <1>13, <1>14, <1>15, <1>16, <1>17, <1>18, <1>19, <1>20, <1>21, <1>22, <1>23
  DEF Next, NewCall, ThreadStep, LoopStep

(***************************************************************************)
(* Every step keeps mutex_ where the code of that point assumes it.        *)
(***************************************************************************)
LEMMA LockStep ==
  ASSUME LockDiscipline, [Next]_vars
  PROVE  \A t \in Threads : Owns(t)' <=> mutex' = t
<1> USE ControlAssumption DEF LockDiscipline, TypeOK, Owns, Holding, Waiting, Joining, Lock, Unlock, Go, Call, apiVars, loopVars, acceptVars, vars
<1>1. ASSUME NEW u \in Threads, initialize(u) PROVE \A t \in Threads : Owns(t)' <=> mutex' = t
  BY <1>1 DEF initialize
<1>2. ASSUME NEW u \in Threads, start(u) PROVE \A t \in Threads : Owns(t)' <=> mutex' = t
  BY <1>2 DEF start
<1>3. ASSUME NEW u \in Threads, startBind(u) PROVE \A t \in Threads : Owns(t)' <=> mutex' = t
  BY <1>3 DEF startBind
<1>4. ASSUME NEW u \in Threads, startRun(u) PROVE \A t \in Threads : Owns(t)' <=> mutex' = t
  BY <1>4 DEF startRun
<1>5. ASSUME NEW u \in Threads, stop(u) PROVE \A t \in Threads : Owns(t)' <=> mutex' = t
  <2>1. mutex = Nobody /\ pc[u] = "idle"
    BY <1>5 DEF stop
  <2>2. CASE pc' = [pc EXCEPT ![u] = "grace"] /\ mutex' = mutex
    BY <1>5, <2>1, <2>2 DEF stop
  <2>3. CASE pc' = [pc EXCEPT ![u] = "signal"] /\ mutex' = u
    BY <1>5, <2>1, <2>3 DEF stop
  <2> QED BY <1>5, <2>2, <2>3 DEF stop
<1>6. ASSUME NEW u \in Threads, stopAfterGrace(u) PROVE \A t \in Threads : Owns(t)' <=> mutex' = t
  BY <1>6 DEF stopAfterGrace
<1>7. ASSUME NEW u \in Threads, forceStop(u) PROVE \A t \in Threads : Owns(t)' <=> mutex' = t
  BY <1>7 DEF forceStop
<1>8. ASSUME NEW u \in Threads, stopSignal(u) PROVE \A t \in Threads : Owns(t)' <=> mutex' = t
  BY <1>8 DEF stopSignal
<1>9. ASSUME NEW u \in Threads, stopJoin(u) PROVE \A t \in Threads : Owns(t)' <=> mutex' = t
  BY <1>9 DEF stopJoin
<1>10. ASSUME NEW u \in Threads, stopJoined(u) PROVE \A t \in Threads : Owns(t)' <=> mutex' = t
  BY <1>10 DEF stopJoined
<1>11. ASSUME NEW u \in Threads, stopRelock(u) PROVE \A t \in Threads : Owns(t)' <=> mutex' = t
  BY <1>11 DEF stopRelock
<1>12. ASSUME NEW u \in Threads, stopClose(u) PROVE \A t \in Threads : Owns(t)' <=> mutex' = t
  BY <1>12 DEF stopClose
<1>13. ASSUME NEW u \in Threads, emitEvent(u) PROVE \A t \in Threads : Owns(t)' <=> mutex' = t
  BY <1>13 DEF emitEvent
<1>14. ASSUME NEW u \in Threads, callReturns(u) PROVE \A t \in Threads : Owns(t)' <=> mutex' = t
  BY <1>14 DEF callReturns
<1>15. CASE runEventLoop
  BY <1>15 DEF runEventLoop
<1>16. CASE loopEmitEvent
  BY <1>16 DEF loopEmitEvent
<1>17. CASE loopGetter
  BY <1>17 DEF loopGetter
<1>18. CASE loopCallbackReturns
  BY <1>18 DEF loopCallbackReturns
<1>19. CASE loopEnd
  BY <1>19 DEF loopEnd
<1>20. ASSUME NEW k \in Clients, handleAccept(k) PROVE \A t \in Threads : Owns(t)' <=> mutex' = t
  BY <1>20 DEF handleAccept
<1>21. ASSUME NEW k \in Clients, connect(k) PROVE \A t \in Threads : Owns(t)' <=> mutex' = t
  BY <1>21 DEF connect
<1>22. ASSUME NEW k \in Clients, closeConnection(k) PROVE \A t \in Threads : Owns(t)' <=> mutex' = t
  BY <1>22 DEF closeConnection
<1>23. CASE UNCHANGED vars
  BY <1>23
<1> QED BY <1>1, <1>2, <1>3, <1>4, <1>5, <1>6, <1>7, <1>8, <1>9, <1>10, <1>11, <1>12,
  <1>13, <1>14, <1>15, <1>16, <1>17, <1>18, <1>19, <1>20, <1>21, <1>22, <1>23
  DEF Next, NewCall, ThreadStep, LoopStep

(***************************************************************************)
(* The grace period belongs to stop, and joinable() follows the thread.    *)
(***************************************************************************)
LEMMA HandleStep ==
  ASSUME TypeOK, HandleInv, [Next]_vars
  PROVE  HandleInv'
<1> USE ControlAssumption DEF TypeOK, HandleInv, Lock, Unlock, Go, Call, apiVars, loopVars, acceptVars, vars
<1>1. ASSUME NEW u \in Threads, initialize(u) PROVE HandleInv'
  BY <1>1 DEF initialize
<1>2. ASSUME NEW u \in Threads, start(u) PROVE HandleInv'
  BY <1>2 DEF start
<1>3. ASSUME NEW u \in Threads, startBind(u) PROVE HandleInv'
  BY <1>3 DEF startBind
<1>4. ASSUME NEW u \in Threads, startRun(u) PROVE HandleInv'
  BY <1>4 DEF startRun
<1>5. ASSUME NEW u \in Threads, stop(u) PROVE HandleInv'
  BY <1>5 DEF stop
<1>6. ASSUME NEW u \in Threads, stopAfterGrace(u) PROVE HandleInv'
  BY <1>6 DEF stopAfterGrace
<1>7. ASSUME NEW u \in Threads, forceStop(u) PROVE HandleInv'
  BY <1>7 DEF forceStop
<1>8. ASSUME NEW u \in Threads, stopSignal(u) PROVE HandleInv'
  BY <1>8 DEF stopSignal
<1>9. ASSUME NEW u \in Threads, stopJoin(u) PROVE HandleInv'
  BY <1>9 DEF stopJoin
<1>10. ASSUME NEW u \in Threads, stopJoined(u) PROVE HandleInv'
  BY <1>10 DEF stopJoined
<1>11. ASSUME NEW u \in Threads, stopRelock(u) PROVE HandleInv'
  BY <1>11 DEF stopRelock
<1>12. ASSUME NEW u \in Threads, stopClose(u) PROVE HandleInv'
  BY <1>12 DEF stopClose
<1>13. ASSUME NEW u \in Threads, emitEvent(u) PROVE HandleInv'
  BY <1>13 DEF emitEvent
<1>14. ASSUME NEW u \in Threads, callReturns(u) PROVE HandleInv'
  BY <1>14 DEF callReturns
<1>15. CASE runEventLoop
  BY <1>15 DEF runEventLoop
<1>16. CASE loopEmitEvent
  BY <1>16 DEF loopEmitEvent
<1>17. CASE loopGetter
  BY <1>17 DEF loopGetter
<1>18. CASE loopCallbackReturns
  BY <1>18 DEF loopCallbackReturns
<1>19. CASE loopEnd
  BY <1>19 DEF loopEnd
<1>20. ASSUME NEW k \in Clients, handleAccept(k) PROVE HandleInv'
  BY <1>20 DEF handleAccept
<1>21. ASSUME NEW k \in Clients, connect(k) PROVE HandleInv'
  BY <1>21 DEF connect
<1>22. ASSUME NEW k \in Clients, closeConnection(k) PROVE HandleInv'
  BY <1>22 DEF closeConnection
<1>23. ASSUME UNCHANGED vars PROVE HandleInv'
  BY <1>23
<1> QED BY <1>1, <1>2, <1>3, <1>4, <1>5, <1>6, <1>7, <1>8, <1>9, <1>10, <1>11, <1>12,
  <1>13, <1>14, <1>15, <1>16, <1>17, <1>18, <1>19, <1>20, <1>21, <1>22, <1>23
  DEF Next, NewCall, ThreadStep, LoopStep

(***************************************************************************)
(* Every step keeps what is known of the start-up.                         *)
(***************************************************************************)
LEMMA StartStep ==
  ASSUME LockDiscipline, StartInv, [Next]_vars
  PROVE  StartInv'
<1> USE ControlAssumption DEF LockDiscipline, TypeOK, Owns, Holding, Waiting, Joining, Note, StartInv, AcceptsWhileRunning, Accepts, Lock, Unlock, Go, Call, apiVars, loopVars, acceptVars, vars
<1>1. ASSUME NEW t \in Threads, initialize(t) PROVE StartInv'
  BY <1>1 DEF initialize
<1>2. ASSUME NEW t \in Threads, start(t) PROVE StartInv'
  BY <1>2 DEF start
<1>3. ASSUME NEW t \in Threads, startBind(t) PROVE StartInv'
  <2>0. pc[t] = "bind" /\ mutex = t
    BY <1>3 DEF startBind
  <2>1. state = "Starting" /\ ~listening
    BY <2>0
  <2>4. \A k \in Clients : client[k] # "queued"
    BY <2>1
  <2>2. CASE state' = "Initialized"
    <3>1. /\ pc' = [pc EXCEPT ![t] = "idle"]
          /\ listening' = listening /\ client' = client
      BY <1>3, <2>1, <2>2 DEF startBind
    <3> QED BY <2>0, <2>1, <2>2, <2>4, <3>1
  <2>3. CASE listening' = TRUE
    BY <1>3, <2>0, <2>1, <2>3, <2>4 DEF startBind
  <2> QED BY <1>3, <2>2, <2>3 DEF startBind
<1>4. ASSUME NEW t \in Threads, startRun(t) PROVE StartInv'
  BY <1>4 DEF startRun
<1>5. ASSUME NEW t \in Threads, stop(t) PROVE StartInv'
  BY ZenonT(60), <1>5 DEF stop
<1>6. ASSUME NEW t \in Threads, stopAfterGrace(t) PROVE StartInv'
  BY <1>6 DEF stopAfterGrace
<1>7. ASSUME NEW t \in Threads, forceStop(t) PROVE StartInv'
  BY <1>7 DEF forceStop
<1>8. ASSUME NEW t \in Threads, stopSignal(t) PROVE StartInv'
  BY ZenonT(60), <1>8 DEF stopSignal
<1>9. ASSUME NEW t \in Threads, stopJoin(t) PROVE StartInv'
  BY ZenonT(60), <1>9 DEF stopJoin
<1>10. ASSUME NEW t \in Threads, stopJoined(t) PROVE StartInv'
  BY <1>10 DEF stopJoined
<1>11. ASSUME NEW t \in Threads, stopRelock(t) PROVE StartInv'
  BY <1>11 DEF stopRelock
<1>12. ASSUME NEW t \in Threads, stopClose(t) PROVE StartInv'
  BY <1>12 DEF stopClose
<1>13. ASSUME NEW t \in Threads, emitEvent(t) PROVE StartInv'
  BY ZenonT(60), <1>13 DEF emitEvent
<1>14. ASSUME NEW t \in Threads, callReturns(t) PROVE StartInv'
  BY <1>14 DEF callReturns
<1>15. CASE runEventLoop
  BY <1>15 DEF runEventLoop
<1>16. CASE loopEmitEvent
  BY <1>16 DEF loopEmitEvent
<1>17. CASE loopGetter
  BY <1>17 DEF loopGetter
<1>18. CASE loopCallbackReturns
  BY <1>18 DEF loopCallbackReturns
<1>19. CASE loopEnd
  BY <1>19 DEF loopEnd
<1>20. ASSUME NEW k \in Clients, handleAccept(k) PROVE StartInv'
  BY <1>20 DEF handleAccept
<1>21. ASSUME NEW k \in Clients, connect(k) PROVE StartInv'
  BY <1>21 DEF connect
<1>22. ASSUME NEW k \in Clients, closeConnection(k) PROVE StartInv'
  BY <1>22 DEF closeConnection
<1>23. CASE UNCHANGED vars
  BY <1>23
<1> QED BY <1>1, <1>2, <1>3, <1>4, <1>5, <1>6, <1>7, <1>8, <1>9, <1>10, <1>11, <1>12,
  <1>13, <1>14, <1>15, <1>16, <1>17, <1>18, <1>19, <1>20, <1>21, <1>22, <1>23
  DEF Next, NewCall, ThreadStep, LoopStep

(***************************************************************************)
(* A thread that stops the server has either set Stopping or holds mutex_. *)
(***************************************************************************)
LEMMA StopperKnown ==
  ASSUME ControlInv, ~Overlapped, NEW u \in Threads, InStop(u)
  PROVE  state = "Stopping" \/ mutex = u
<1>1. CASE forced[u]
  <2>1. Owns(u)
    BY <1>1 DEF ControlInv, HandleInv, LockDiscipline, TypeOK, Owns, Holding, Joining, InStop
  <2> QED BY <2>1 DEF ControlInv, LockDiscipline
<1>2. CASE ~forced[u]
  BY <1>2 DEF ControlInv, StopInv
<1> QED BY <1>1, <1>2

(***************************************************************************)
(* As long as forceStop does not overlap a stop, the stops stay in order.  *)
(***************************************************************************)
LEMMA StopStep ==
  ASSUME ControlInv, ~Overlapped', [Next]_vars
  PROVE  StopInv'
<1> USE ControlAssumption DEF Lock, Unlock, Go, Call, apiVars, loopVars, acceptVars, vars
<1>o. ~Overlapped /\ StopInv
  <2>1. used \subseteq used'
    BY DEF Next, NewCall, ThreadStep, LoopStep, initialize, start, startBind, startRun,
      stop, stopAfterGrace, forceStop, stopSignal, stopJoin, stopJoined, stopRelock,
      stopClose, emitEvent, callReturns, runEventLoop, loopEmitEvent, loopGetter,
      loopCallbackReturns, loopEnd, handleAccept, connect, closeConnection, Note
  <2> QED BY <2>1 DEF Overlapped, ControlInv
<1>m. /\ TypeOK
      /\ \A u \in Threads : Owns(u) <=> mutex = u
      /\ joinable <=> loop # "none"
      /\ \A u \in Threads : pc[u] \in {"bind", "run"} => state = "Starting"
      /\ \A u \in Threads : pc[u] \in {"grace", "relock"} => ~forced[u]
  BY DEF ControlInv, HandleInv, LockDiscipline, StartInv
<1>s. \A u \in Threads : InStop(u) => state = "Stopping" \/ mutex = u
  BY <1>o, StopperKnown
<1>f. ASSUME UNCHANGED <<state, pc, forced, joinable, failure>>,
             loop = "none" => UNCHANGED <<loop, accepting>>,
             loop' = "none" => loop = "none",
             listening' = listening,
             \A k \in Clients : client'[k] = client[k] \/ loop # "none" \/ listening
      PROVE  StopInv'
  <2>1. state = "Stopped" => /\ loop = "none" /\ ~joinable /\ ~listening /\ ~accepting
                             /\ \A k \in Clients : client[k] \in {"away", "dropped"}
    BY <1>o DEF StopInv, StoppedIsClean, Overlapped
  <2>2. StoppedIsClean'
    BY <1>f, <2>1 DEF StoppedIsClean
  <2> QED BY <1>f, <1>o, <2>2 DEF StopInv, InStop
<1> USE DEF StopInv, InStop, Joining, TypeOK, Owns, Holding
<1>1. ASSUME NEW t \in Threads, initialize(t) PROVE StopInv'
  BY <1>1, <1>m, <1>o, <1>s DEF initialize, StoppedIsClean
<1>2. ASSUME NEW t \in Threads, start(t) PROVE StopInv'
  BY ZenonT(60), <1>2, <1>m, <1>o, <1>s DEF start, StoppedIsClean
<1>3. ASSUME NEW t \in Threads, startBind(t) PROVE StopInv'
  <2>1. pc[t] = "bind" /\ mutex = t /\ state = "Starting"
    BY <1>3, <1>m DEF startBind
  <2>2. \A u \in Threads : ~InStop(u)
    BY <2>1, <1>s
  <2>3. ~joinable
    BY <2>1, <1>m, <1>o
  <2>4. /\ \/ pc' = [pc EXCEPT ![t] = "idle"] /\ state' = "Initialized" /\ joinable' = joinable
           \/ pc' = [pc EXCEPT ![t] = "run"] /\ state' = state /\ joinable' = TRUE
        /\ failure' = failure
    BY <1>3, <2>3 DEF startBind
  <2>5. \A u \in Threads : ~InStop(u)'
    BY <2>2, <2>4, <1>m
  <2>6. pc' = [pc EXCEPT ![t] = "run"] => \E u \in Threads : pc'[u] = "run"
    BY <1>m
  <2>7. state' # "Stopped"
    BY <2>1, <2>4
  <2>8. joinable' => \E u \in Threads : pc'[u] = "run"
    BY <2>3, <2>4, <2>6
  <2>9. StoppedIsClean' /\ failure' = "none"
    BY <2>4, <2>7, <1>o DEF StoppedIsClean
  <2> QED BY <2>5, <2>8, <2>9
<1>4. ASSUME NEW t \in Threads, startRun(t) PROVE StopInv'
  <2>1. pc[t] = "run" /\ mutex = t /\ state = "Starting"
    BY <1>4, <1>m DEF startRun
  <2>2. \A u \in Threads : ~InStop(u)
    BY <2>1, <1>s
  <2>3. \A u \in Threads : ~InStop(u)'
    BY <2>2, <1>4, <1>m DEF startRun
  <2> QED BY <2>3, <1>4, <1>o DEF startRun, StoppedIsClean
<1>5. ASSUME NEW t \in Threads, stop(t) PROVE StopInv'
  <2>1. pc[t] = "idle" /\ mutex = Nobody /\ state = "Running" /\ state' = "Stopping"
    BY <1>5 DEF stop
  <2>2. \A u \in Threads : ~InStop(u)
    BY <2>1, <1>s
  <2>3. /\ pc' = [pc EXCEPT ![t] = "grace"] \/ pc' = [pc EXCEPT ![t] = "signal"]
        /\ UNCHANGED <<joinable, failure>>
    BY <1>5 DEF stop
  <2>4. \A u \in Threads : InStop(u)' => u = t
    BY <2>2, <2>3, <1>m
  <2>5. pc'[t] \in {"grace", "signal"}
    BY <2>3, <1>m
  <2> QED BY <2>1, <2>3, <2>4, <2>5, <1>o DEF StoppedIsClean
<1>6. ASSUME NEW t \in Threads, stopAfterGrace(t) PROVE StopInv'
  <2>1. /\ pc[t] = "grace" /\ pc' = [pc EXCEPT ![t] = "signal"]
        /\ UNCHANGED <<state, forced, joinable, failure>>
    BY <1>6 DEF stopAfterGrace
  <2>2. \A u \in Threads : InStop(u)' => InStop(u)
    BY <2>1, <1>m
  <2>3. \A u \in Threads : pc[u] = "run" => pc'[u] = "run"
    BY <2>1, <1>m
  <2>4. \A u \in Threads : /\ pc'[u] \in Joining => joinable
                           /\ pc'[u] \in {"relock", "close"} => ~joinable
    BY <2>1, <1>m, <1>o
  <2>5. StoppedIsClean'
    BY <1>6, <1>o DEF StoppedIsClean, stopAfterGrace
  <2> QED BY <2>1, <2>2, <2>3, <2>4, <2>5, <1>o
<1>7. ASSUME NEW t \in Threads, forceStop(t) PROVE StopInv'
  <2>1. /\ pc[t] = "idle" /\ mutex = Nobody
        /\ pc' = [pc EXCEPT ![t] = "signal"]
        /\ forced' = [forced EXCEPT ![t] = TRUE]
        /\ UNCHANGED <<state, joinable, failure>>
    BY <1>7 DEF forceStop
  <2>2. state # "Stopping" /\ state # "Stopped"
    BY <1>7 DEF forceStop, Note, Overlapped
  <2>3. \A u \in Threads : ~InStop(u)
    BY <2>1, <2>2, <1>s
  <2>4. \A u \in Threads : InStop(u)' => u = t
    BY <2>1, <2>3, <1>m
  <2>5. forced'[t] /\ pc'[t] = "signal"
    BY <2>1, <1>m
  <2>6. \A u \in Threads : pc[u] = "run" => pc'[u] = "run"
    BY <2>1, <1>m
  <2> QED BY <2>1, <2>2, <2>4, <2>5, <2>6, <1>o DEF StoppedIsClean
<1>8. ASSUME NEW t \in Threads, stopSignal(t) PROVE StopInv'
  <2>1. /\ pc[t] = "signal"
        /\ \/ joinable /\ pc' = [pc EXCEPT ![t] = "join"]
           \/ ~joinable /\ pc' = [pc EXCEPT ![t] = "close"]
        /\ UNCHANGED <<state, forced, joinable, failure>>
    BY <1>8 DEF stopSignal
  <2>2. \A u \in Threads : InStop(u)' => InStop(u)
    BY <2>1, <1>m
  <2>3. \A u \in Threads : pc[u] = "run" => pc'[u] = "run"
    BY <2>1, <1>m
  <2>4. \A u \in Threads : /\ pc'[u] \in Joining => joinable
                           /\ pc'[u] \in {"relock", "close"} => ~joinable
    BY <2>1, <1>m, <1>o
  <2>5. StoppedIsClean'
    BY <1>8, <1>o DEF StoppedIsClean, stopSignal
  <2> QED BY <2>1, <2>2, <2>3, <2>4, <2>5, <1>o
<1>9. ASSUME NEW t \in Threads, stopJoin(t) PROVE StopInv'
  <2>1. pc[t] = "join" /\ joinable /\ \A u \in Threads : pc[u] # "joining"
    BY <1>9, <1>m, <1>o DEF stopJoin
  <2>2. /\ pc' = [pc EXCEPT ![t] = "joining"]
        /\ UNCHANGED <<state, forced, joinable, failure>>
    BY <1>9, <2>1 DEF stopJoin
  <2>3. \A u \in Threads : InStop(u)' => InStop(u)
    BY <2>1, <2>2, <1>m
  <2>4. \A u \in Threads : pc[u] = "run" => pc'[u] = "run"
    BY <2>1, <2>2, <1>m
  <2>5. \A u \in Threads : pc'[u] \in {"relock", "close"} => ~joinable
    BY <2>2, <1>m, <1>o
  <2>6. StoppedIsClean'
    BY <1>9, <1>o DEF StoppedIsClean, stopJoin
  <2> QED BY <2>1, <2>2, <2>3, <2>4, <2>5, <2>6, <1>o
<1>10. ASSUME NEW t \in Threads, stopJoined(t) PROVE StopInv'
  BY ZenonT(60), <1>10, <1>m, <1>o, <1>s DEF stopJoined, StoppedIsClean
<1>11. ASSUME NEW t \in Threads, stopRelock(t) PROVE StopInv'
  <2>1. /\ pc[t] = "relock" /\ pc' = [pc EXCEPT ![t] = "close"]
        /\ UNCHANGED <<state, forced, joinable, failure>>
    BY <1>11 DEF stopRelock
  <2>2. \A u \in Threads : InStop(u)' => InStop(u)
    BY <2>1, <1>m
  <2>3. \A u \in Threads : pc[u] = "run" => pc'[u] = "run"
    BY <2>1, <1>m
  <2>4. \A u \in Threads : /\ pc'[u] \in Joining => joinable
                           /\ pc'[u] \in {"relock", "close"} => ~joinable
    BY <2>1, <1>m, <1>o
  <2>5. StoppedIsClean'
    BY <1>11, <1>o DEF StoppedIsClean, stopRelock
  <2> QED BY <2>1, <2>2, <2>3, <2>4, <2>5, <1>o
<1>12. ASSUME NEW t \in Threads, stopClose(t) PROVE StopInv'
  BY ZenonT(60), <1>12, <1>m, <1>o, <1>s DEF stopClose, StoppedIsClean
<1>q. ASSUME NEW t \in Threads, pc[t] \notin {"bind", "run"}, ~InStop(t),
             NEW where \in {"callback", "getter", "idle"},
             pc' = [pc EXCEPT ![t] = where],
             UNCHANGED <<state, forced, failure, loopVars, acceptVars>>
      PROVE  StopInv'
  <2>1. \A u \in Threads : InStop(u)' => InStop(u)
    BY <1>q, <1>m
  <2>2. \A u \in Threads : pc[u] = "run" => pc'[u] = "run"
    BY <1>q, <1>m
  <2>3. \A u \in Threads : /\ pc'[u] \in Joining => joinable
                           /\ pc'[u] \in {"relock", "close"} => ~joinable
    BY <1>q, <1>m, <1>o
  <2>4. StoppedIsClean'
    BY <1>q, <1>o DEF StoppedIsClean, Overlapped
  <2> QED BY <1>q, <2>1, <2>2, <2>3, <2>4, <1>o
<1>13. ASSUME NEW t \in Threads, emitEvent(t) PROVE StopInv'
  BY <1>13, <1>q DEF emitEvent
<1>14. ASSUME NEW t \in Threads, callReturns(t) PROVE StopInv'
  BY <1>14, <1>q DEF callReturns
<1>15. CASE runEventLoop
  BY <1>15, <1>f DEF runEventLoop
<1>16. CASE loopEmitEvent
  BY <1>16, <1>f DEF loopEmitEvent
<1>17. CASE loopGetter
  BY <1>17, <1>f DEF loopGetter
<1>18. CASE loopCallbackReturns
  BY <1>18, <1>f DEF loopCallbackReturns
<1>19. CASE loopEnd
  BY <1>19, <1>f DEF loopEnd
<1>20. ASSUME NEW k \in Clients, handleAccept(k) PROVE StopInv'
  BY <1>20, <1>f DEF handleAccept
<1>21. ASSUME NEW k \in Clients, connect(k) PROVE StopInv'
  BY <1>21, <1>f DEF connect
<1>22. ASSUME NEW k \in Clients, closeConnection(k) PROVE StopInv'
  BY <1>22, <1>f DEF closeConnection
<1>23. CASE UNCHANGED vars
  BY <1>23, <1>f
<1> QED BY <1>1, <1>2, <1>3, <1>4, <1>5, <1>6, <1>7, <1>8, <1>9, <1>10, <1>11, <1>12,
  <1>13, <1>14, <1>15, <1>16, <1>17, <1>18, <1>19, <1>20, <1>21, <1>22, <1>23
  DEF Next, NewCall, ThreadStep, LoopStep

(***************************************************************************)
(* The invariant is inductive: it holds at first and every step of a       *)
(* thread, of the event loop or of a client keeps it.                      *)
(***************************************************************************)
THEOREM ControlInvariance == Spec => []ControlInv
<1>1. Init => ControlInv
  <2> SUFFICES ASSUME Init PROVE ControlInv
    OBVIOUS
  <2> USE ControlAssumption DEF Init
  <2>1. TypeOK
    <3>1. 0 \in 0 .. MaxCalls /\ "idle" \in Waiting
      BY DEF Waiting
    <3> QED BY <3>1 DEF TypeOK
  <2>2. LockDiscipline
    BY <2>1 DEF LockDiscipline, Owns, Holding, Joining
  <2>3. StartInv
    BY DEF StartInv, AcceptsWhileRunning
  <2>4. StopInv
    BY DEF StopInv, InStop, Joining, StoppedIsClean
  <2>5. HandleInv
    BY DEF HandleInv
  <2> QED BY <2>2, <2>3, <2>4, <2>5 DEF ControlInv
<1>2. ControlInv /\ [Next]_vars => ControlInv'
  <2> SUFFICES ASSUME ControlInv, [Next]_vars PROVE ControlInv'
    OBVIOUS
  <2>1. LockDiscipline'
    BY TypeStep, LockStep DEF ControlInv, LockDiscipline
  <2>2. StartInv'
    BY StartStep DEF ControlInv
  <2>3. ~Overlapped' => StopInv'
    BY StopStep
  <2>4. HandleInv'
    BY HandleStep DEF ControlInv, LockDiscipline
  <2> QED BY <2>1, <2>2, <2>3, <2>4 DEF ControlInv, Overlapped
<1> QED BY <1>1, <1>2, PTL DEF Spec

(***************************************************************************)
(* mutex_ is held by exactly the thread that is between taking and         *)
(* releasing it, and no thread is joined twice or overwritten unjoined     *)
(* (start, stop, forceStop), however many threads call the API.            *)
(***************************************************************************)
THEOREM ThreadsAreSafe == Spec => []ThreadsSafe
<1>1. ControlInv => ThreadsSafe
  BY DEF ControlInv, ThreadsSafe, ThreadsUsedWell, StopInv, Overlapped
<1> QED BY <1>1, ControlInvariance, PTL

(***************************************************************************)
(* A stopped server is clean and a running one accepts, however many       *)
(* threads start and stop it and however many clients connect.             *)
(***************************************************************************)
THEOREM NeverHalfUp == Spec => []RunningOrClean
<1>1. ControlInv => RunningOrClean
  BY DEF ControlInv, RunningOrClean, StartInv, StopInv, Overlapped, StoppedIsClean
<1> QED BY <1>1, ControlInvariance, PTL
=============================================================================
