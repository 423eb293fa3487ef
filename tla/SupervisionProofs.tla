--------------------------- MODULE SupervisionProofs ---------------------------
(***************************************************************************)
(* Proofs about the parts that wait for something.  The components share   *)
(* no state, so a step of the whole is, for each of them, one of its own   *)
(* steps or none: each has an inductive invariant over its own variables.  *)
(***************************************************************************)
EXTENDS MCSupervision, FiniteSetTheorems, TLAPS

(***************************************************************************)
(* Every component sees its own steps only.                                *)
(***************************************************************************)
LEMMA OneAtATime ==
  ASSUME [SupervisionNext]_supervisionVars
  PROVE  /\ [ShutNext]_shutVars /\ [IsoNext]_isoVars /\ [ExtNext]_extVars
         /\ [HandshakeNext]_handshakeVars /\ [TimeoutNext]_timeoutVars
         /\ [WorkNext]_workVars /\ [TimersNext]_timerVars /\ [ThreadsNext]_threadVars
<1>1. CASE UNCHANGED supervisionVars
  BY <1>1 DEF supervisionVars
<1>2. CASE SupervisionNext
  BY <1>2 DEF SupervisionNext, Elsewhere
<1> QED BY <1>1, <1>2

-----------------------------------------------------------------------------
(* HandshakeHandler                                                         *)

HandshakeStates == {"WaitingC0", "WaitingC1", "WaitingC2", "Complete", "Failed"}

HandlerProgress == [hsState : HandshakeStates, pos : Nat, c1 : Nat, c2 : Nat]

(***************************************************************************)
(* What holds of the handler at any point of a call of processData: C1     *)
(* begins behind C0, and whatever is taken for C2 begins behind C1.        *)
(***************************************************************************)
ProgressSound(h) ==
  /\ h \in HandlerProgress
  /\ h.pos <= sent
  /\ h.hsState \in {"WaitingC1", "WaitingC2", "Complete"} => peer # "badVersion" /\ h.pos >= 1
  /\ h.hsState = "WaitingC2" => h.c1 >= 1 /\ h.pos >= h.c1 + P
  /\ h.hsState = "Complete" =>
       peer = "honest" /\ h.c1 = 1 /\ h.c2 = P + 1 /\ h.pos = 2 * P + 1

HandshakeTypeOK ==
  /\ peer \in {"honest", "badVersion", "badEcho"}
  /\ sent \in Nat /\ got \in Nat /\ got <= sent
  /\ hsState \in HandshakeStates /\ c1 \in Nat /\ c2 \in Nat
  /\ parsed \in Seq(Nat)

\* Between two reads the position is that of the next byte to be read.
HandshakeInv ==
  /\ HandshakeTypeOK
  /\ hsState \in {"WaitingC1", "WaitingC2", "Complete"} => peer # "badVersion" /\ got >= 1
  /\ hsState = "WaitingC2" => c1 >= 1 /\ got >= c1 + P
  /\ hsState # "Complete" => parsed = <<>>
  /\ OnlyEchoCompletes /\ DataIntact

(***************************************************************************)
(* A packet that is processed leaves the handler sound.                    *)
(***************************************************************************)
LEMMA PacketSound ==
  ASSUME HandshakeTypeOK, NEW h, ProgressSound(h)
  PROVE  ProgressSound(processPacket(h))
<1> USE HandshakeAssumption
<1>h. /\ h \in HandlerProgress
      /\ h.hsState \in HandshakeStates /\ h.pos \in Nat /\ h.c1 \in Nat /\ h.c2 \in Nat
      /\ sent \in Nat /\ h.pos <= sent /\ peer \in {"honest", "badVersion", "badEcho"}
  BY DEF ProgressSound, HandshakeTypeOK, HandlerProgress
<1>1. CASE h.pos = sent \/ h.hsState \in {"Complete", "Failed"}
  <2>1. processPacket(h) = h
    BY <1>1 DEF processPacket
  <2> QED BY <2>1
<1>f. ASSUME NEW g, g = [h EXCEPT !.hsState = "Failed"] PROVE ProgressSound(g)
  <2>1. "Failed" \in HandshakeStates
    BY DEF HandshakeStates
  <2>2. g \in HandlerProgress /\ g.hsState = "Failed" /\ g.pos = h.pos
    BY ONLY <1>h, <1>f, <2>1 DEF HandlerProgress
  <2> QED BY <2>2, <1>h DEF ProgressSound
<1>2. CASE h.pos # sent /\ h.hsState = "WaitingC0"
  <2>1. processPacket(h) = processC0(h)
    BY <1>2 DEF processPacket
  <2>2. CASE peer = "badVersion"
    <3>1. processC0(h) = [h EXCEPT !.hsState = "Failed"]
      BY <2>2 DEF processC0
    <3> QED BY <3>1, <2>1, <1>f
  <2>3. CASE peer # "badVersion"
    <3>0. PICK p \in Nat : p = h.pos + 1
      BY <1>h
    <3>1. PICK g : g = [h EXCEPT !.hsState = "WaitingC1", !.pos = p]
      OBVIOUS
    <3>2. processC0(h) = g
      BY <2>3, <3>0, <3>1 DEF processC0
    <3>3. /\ "WaitingC1" \in HandshakeStates
          /\ h.pos + 1 \in Nat /\ h.pos + 1 <= sent /\ h.pos + 1 >= 1
      <4>1. h.pos \in Nat /\ sent \in Nat /\ h.pos <= sent /\ h.pos # sent
        BY <1>h, <1>2
      <4> QED BY ONLY <4>1 DEF HandshakeStates
    <3>4. g \in HandlerProgress /\ g.hsState = "WaitingC1" /\ g.pos = p
      BY ONLY <1>h, <3>1, <3>3, p \in Nat DEF HandlerProgress
    <3>5. ProgressSound(g)
      BY ONLY <3>0, <3>3, <3>4, <2>3, <1>h DEF ProgressSound
    <3> QED BY <3>2, <3>5, <2>1
  <2> QED BY <2>2, <2>3
<1>3. CASE h.pos # sent /\ h.hsState = "WaitingC1"
  <2>1. processPacket(h) = processC1(h)
    BY <1>3 DEF processPacket
  <2>2. CASE sent - h.pos < P
    <3>1. processC1(h) = h
      BY <2>2 DEF processC1
    <3> QED BY <3>1, <2>1
  <2>3. CASE ~(sent - h.pos < P)
    <3>0. PICK p \in Nat : p = h.pos + P
      BY <1>h
    <3>1. PICK g : g = [h EXCEPT !.hsState = "WaitingC2", !.pos = p, !.c1 = h.pos]
      OBVIOUS
    <3>2. processC1(h) = g
      BY <2>3, <3>0, <3>1 DEF processC1
    <3>3. /\ "WaitingC2" \in HandshakeStates
          /\ h.pos + P \in Nat /\ h.pos + P <= sent /\ h.pos + P >= 1
      <4>1. h.pos \in Nat /\ sent \in Nat /\ ~(sent - h.pos < P)
        BY <1>h, <2>3
      <4> QED BY ONLY <4>1, HandshakeAssumption DEF HandshakeStates
    <3>4. g \in HandlerProgress /\ g.hsState = "WaitingC2" /\ g.pos = p /\ g.c1 = h.pos
      BY ONLY <1>h, <3>1, <3>3, p \in Nat DEF HandlerProgress
    <3>5. peer # "badVersion" /\ h.pos >= 1
      BY <1>3 DEF ProgressSound
    <3>6. g.pos <= sent /\ g.pos >= 1 /\ g.c1 >= 1 /\ g.pos >= g.c1 + P
      BY ONLY <3>0, <3>3, <3>4, <3>5, <1>h, HandshakeAssumption
    <3>7. ProgressSound(g)
      BY ONLY <3>4, <3>5, <3>6 DEF ProgressSound
    <3> QED BY <3>2, <3>7, <2>1
  <2> QED BY <2>2, <2>3
<1>4. CASE h.pos # sent /\ h.hsState = "WaitingC2"
  <2>1. processPacket(h) = processC2(h)
    BY <1>4 DEF processPacket
  <2>2. CASE sent - h.pos < P
    <3>1. processC2(h) = h
      BY <2>2 DEF processC2
    <3> QED BY <3>1, <2>1
  <2>3. CASE ~(sent - h.pos < P) /\ ~validateC2Echo(h)
    <3>1. processC2(h) = [h EXCEPT !.hsState = "Failed"]
      BY <2>3 DEF processC2
    <3> QED BY <3>1, <2>1, <1>f
  <2>4. CASE ~(sent - h.pos < P) /\ validateC2Echo(h)
    <3>0. PICK p \in Nat : p = h.pos + P
      BY <1>h
    <3>1. PICK g : g = [h EXCEPT !.hsState = "Complete", !.pos = p, !.c2 = h.pos]
      OBVIOUS
    <3>2. processC2(h) = g
      BY <2>4, <3>0, <3>1 DEF processC2
    <3>3. peer # "badVersion" /\ h.c1 >= 1 /\ h.pos >= h.c1 + P
      BY <1>4 DEF ProgressSound
    <3>4. peer = "honest" /\ h.pos = P + 1
      BY <2>4, <3>3, <1>h DEF validateC2Echo
    <3>5. /\ "Complete" \in HandshakeStates /\ h.pos + P \in Nat /\ h.pos + P <= sent
          /\ h.c1 = 1 /\ h.pos + P = 2 * P + 1 /\ h.pos + P >= 1
      BY <1>h, <2>4, <3>3, <3>4 DEF HandshakeStates
    <3>6. /\ g \in HandlerProgress /\ g.hsState = "Complete" /\ g.pos = p
          /\ g.c1 = h.c1 /\ g.c2 = h.pos
      BY ONLY <1>h, <3>1, <3>5, p \in Nat DEF HandlerProgress
    <3>7. ProgressSound(g)
      BY <3>0, <3>4, <3>5, <3>6, <1>h DEF ProgressSound
    <3> QED BY <3>2, <3>7, <2>1
  <2> QED BY <2>2, <2>3, <2>4
<1> QED
  <2>1. h.hsState \in {"Complete", "Failed"} \/ h.hsState \in {"WaitingC0", "WaitingC1", "WaitingC2"}
    BY <1>h DEF HandshakeStates
  <2> QED BY <2>1, <1>1, <1>2, <1>3, <1>4

(***************************************************************************)
(* The bytes from one position to another are as many as lie between them. *)
(***************************************************************************)
LEMMA BytesBetween ==
  ASSUME NEW from \in Nat, NEW to \in Nat, from <= to
  PROVE  /\ Bytes(from, to) \in Seq(Nat) /\ Len(Bytes(from, to)) = to - from
         /\ \A i \in 1 .. (to - from) : Bytes(from, to)[i] = from + i - 1
BY DEF Bytes

(***************************************************************************)
(* The handler's invariant is kept.                                        *)
(***************************************************************************)
LEMMA HandshakeStep ==
  ASSUME HandshakeInv, [HandshakeNext]_handshakeVars
  PROVE  HandshakeInv'
<1> USE HandshakeAssumption
<1>t. HandshakeTypeOK
  BY DEF HandshakeInv
<1>1. CASE processHandshake
  <2> DEFINE h == processData
  <2>1. ProgressSound(Progress)
    <3>1. PICK g : g = Progress
      OBVIOUS
    <3>2. /\ g \in HandlerProgress /\ g.hsState = hsState /\ g.pos = got
          /\ g.c1 = c1 /\ g.c2 = c2
      BY <3>1, <1>t DEF Progress, HandlerProgress, HandshakeTypeOK
    <3>3. hsState # "Complete" /\ got <= sent
      BY <1>1, <1>t DEF processHandshake, HandshakeTypeOK
    <3>4. ProgressSound(g)
      BY <3>2, <3>3 DEF ProgressSound, HandshakeInv
    <3> QED BY <3>1, <3>4
  <2>2. ProgressSound(h)
    BY <2>1, <1>t, PacketSound DEF processData
  <2>3. /\ hsState' = h.hsState /\ c1' = h.c1 /\ c2' = h.c2 /\ got' = sent
        /\ parsed' = IF h.hsState = "Complete" THEN Bytes(h.pos, sent) ELSE parsed
        /\ peer' = peer /\ sent' = sent /\ hsState # "Complete"
    BY <1>1 DEF processHandshake
  <2> HIDE DEF h
  <2>4. parsed = <<>>
    BY <2>3 DEF HandshakeInv
  <2>h. /\ h.hsState \in HandshakeStates /\ h.pos \in Nat /\ h.c1 \in Nat /\ h.c2 \in Nat
        /\ h.pos <= sent
    BY <2>2 DEF ProgressSound, HandlerProgress
  <2>5. HandshakeTypeOK'
    <3>1. parsed' \in Seq(Nat)
      <4>1. CASE h.hsState = "Complete"
        BY <4>1, <2>3, <2>h, <1>t, BytesBetween DEF HandshakeTypeOK
      <4>2. CASE h.hsState # "Complete"
        BY <4>2, <2>3, <2>4
      <4> QED BY <4>1, <4>2
    <3>2. /\ peer' \in {"honest", "badVersion", "badEcho"} /\ sent' \in Nat /\ got' \in Nat
          /\ got' <= sent'
      BY <2>3, <1>t DEF HandshakeTypeOK
    <3> QED BY <3>1, <3>2, <2>3, <2>h DEF HandshakeTypeOK
  <2>6. DataIntact'
    <3>1. CASE h.hsState = "Complete"
      <4>1. h.pos = 2 * P + 1 /\ h.pos <= sent /\ h.pos \in Nat /\ sent \in Nat
        BY <2>2, <3>1, <1>t DEF ProgressSound, HandshakeTypeOK
      <4>2. /\ Len(parsed') = sent - h.pos
            /\ \A i \in 1 .. (sent - h.pos) : parsed'[i] = h.pos + i - 1
        BY <4>1, <2>3, <3>1, BytesBetween
      <4>3. ASSUME NEW i \in 1 .. Len(parsed') PROVE parsed'[i] = 2 * P + i
        <5>1. parsed'[i] = h.pos + i - 1 /\ i \in Int
          BY <4>2
        <5> QED BY ONLY <5>1, <4>1, HandshakeAssumption
      <4>4. got' = 1 + 2 * P + Len(parsed')
        BY ONLY <4>1, <4>2, <2>3, HandshakeAssumption
      <4> QED BY <4>3, <4>4 DEF DataIntact
    <3>2. CASE h.hsState # "Complete"
      BY <3>2, <2>3, <2>4 DEF DataIntact
    <3> QED BY <3>1, <3>2
  <2>7. OnlyEchoCompletes'
    BY <2>2, <2>3 DEF ProgressSound, OnlyEchoCompletes
  <2>8. /\ hsState' \in {"WaitingC1", "WaitingC2", "Complete"} => peer' # "badVersion" /\ got' >= 1
        /\ hsState' = "WaitingC2" => c1' >= 1 /\ got' >= c1' + P
    <3>1. sent \in Nat
      BY <1>t DEF HandshakeTypeOK
    <3>2. CASE h.hsState = "WaitingC2"
      <4>1. peer # "badVersion" /\ h.pos >= 1 /\ h.c1 >= 1 /\ h.pos >= h.c1 + P
        BY <2>2, <3>2 DEF ProgressSound
      <4>2. sent >= 1 /\ sent >= h.c1 + P
        BY ONLY <4>1, <2>h, <3>1, HandshakeAssumption
      <4> QED BY <4>1, <4>2, <2>3, <3>2
    <3>3. CASE h.hsState \in {"WaitingC1", "Complete"}
      <4>1. peer # "badVersion" /\ h.pos >= 1
        BY <2>2, <3>3 DEF ProgressSound
      <4>2. sent >= 1
        BY ONLY <4>1, <2>h, <3>1
      <4> QED BY <4>1, <4>2, <2>3, <3>3
    <3> QED BY <3>2, <3>3, <2>3
  <2>9. hsState' # "Complete" => parsed' = <<>>
    BY <2>3, <2>4
  <2> QED BY <2>5, <2>6, <2>7, <2>8, <2>9 DEF HandshakeInv
<1>2. CASE handleRead
  <2>1. /\ parsed' = parsed \o Bytes(got, sent) /\ got' = sent /\ hsState = "Complete"
        /\ UNCHANGED <<peer, sent, hsState, c1, c2>>
    BY <1>2 DEF handleRead
  <2>2. /\ Bytes(got, sent) \in Seq(Nat) /\ Len(Bytes(got, sent)) = sent - got
        /\ \A i \in 1 .. (sent - got) : Bytes(got, sent)[i] = got + i - 1
    BY <1>t, BytesBetween DEF HandshakeTypeOK
  <2>3. parsed \in Seq(Nat) /\ got = 1 + 2 * P + Len(parsed)
        /\ \A i \in 1 .. Len(parsed) : parsed[i] = 2 * P + i
    BY <1>t, <2>1 DEF HandshakeInv, DataIntact, HandshakeTypeOK
  <2>4. parsed' \in Seq(Nat) /\ Len(parsed') = Len(parsed) + (sent - got)
    BY <2>1, <2>2, <2>3
  <2>5. ASSUME NEW i \in 1 .. Len(parsed') PROVE parsed'[i] = 2 * P + i
    <3>1. CASE i <= Len(parsed)
      BY <3>1, <2>1, <2>2, <2>3
    <3>2. CASE i > Len(parsed)
      <4>0. got \in Nat /\ sent \in Nat /\ got <= sent /\ i \in Nat /\ Len(parsed) \in Nat
        BY <1>t, <2>3 DEF HandshakeTypeOK
      <4>1. i - Len(parsed) \in 1 .. (sent - got)
        BY ONLY <4>0, <3>2, <2>4, i \in 1 .. Len(parsed')
      <4>2. parsed'[i] = Bytes(got, sent)[i - Len(parsed)]
        BY ONLY <4>0, <3>2, <2>1, <2>2, <2>3, <2>4, i \in 1 .. Len(parsed')
      <4>3. Bytes(got, sent)[i - Len(parsed)] = got + (i - Len(parsed)) - 1
        BY ONLY <4>1, <2>2
      <4>4. got + (i - Len(parsed)) - 1 = 2 * P + i
        BY ONLY <4>0, <2>3, HandshakeAssumption
      <4> QED BY <4>2, <4>3, <4>4
    <3> QED BY <3>1, <3>2, <2>3
  <2>6. DataIntact'
    <3>1. got \in Nat /\ sent \in Nat /\ Len(parsed) \in Nat
      BY <1>t, <2>3 DEF HandshakeTypeOK
    <3>2. got' = 1 + 2 * P + Len(parsed')
      BY ONLY <3>1, <2>1, <2>3, <2>4, HandshakeAssumption
    <3> QED BY <3>2, <2>5 DEF DataIntact
  <2> QED BY <2>1, <2>4, <2>6, <1>t DEF HandshakeInv, HandshakeTypeOK, OnlyEchoCompletes
<1>3. CASE PeerSends
  <2>1. /\ UNCHANGED <<peer, got, hsState, c1, c2, parsed>>
        /\ \E m : sent' \in (sent + 1) .. m
    BY <1>3 DEF PeerSends
  <2>2. sent' \in Nat /\ got <= sent'
    BY <2>1, <1>t DEF HandshakeTypeOK
  <2> QED BY <2>1, <2>2, <1>t DEF HandshakeInv, HandshakeTypeOK, OnlyEchoCompletes, DataIntact
<1>4. CASE handshakeWritten \/ connectionLost \/ UNCHANGED handshakeVars
  BY <1>4 DEF handshakeWritten, connectionLost, handshakeVars, HandshakeInv, HandshakeTypeOK,
              OnlyEchoCompletes, DataIntact
<1> QED BY <1>1, <1>2, <1>3, <1>4 DEF HandshakeNext, ServerStep
-----------------------------------------------------------------------------
(* HandshakeHandlerWithTimeout                                              *)

TimeoutTypeOK ==
  /\ base \in [Handlers -> {"WaitingC0", "WaitingC1", "WaitingC2", "Complete", "Failed"}]
  /\ feeder \in [Handlers -> {"idle", "cancel", "notify"}]
  /\ thread \in [Handlers -> {"idle", "taken", "check", "notify", "done"}]
  /\ completed \in [Handlers -> BOOLEAN] /\ timedOut \in [Handlers -> BOOLEAN]
  /\ overlap \in [Handlers -> BOOLEAN] /\ fedLate \in [Handlers -> BOOLEAN]

(***************************************************************************)
(* onComplete_ is called in a completed handshake, and a handshake that    *)
(* times out is not complete: its state was read before the call of        *)
(* onTimeout_, and only a step of the data thread could change it.         *)
(***************************************************************************)
TimeoutInv ==
  /\ TimeoutTypeOK
  /\ \A h \in Handlers :
       /\ completed[h] \/ feeder[h] = "notify" => base[h] = "Complete"
       /\ feeder[h] = "cancel" => base[h] \in {"Complete", "Failed"}
       /\ ~overlap[h] /\ ~fedLate[h] /\ (timedOut[h] \/ thread[h] = "notify")
            => base[h] # "Complete"

(***************************************************************************)
(* The invariant of the handshakes with a timer is kept.                   *)
(***************************************************************************)
LEMMA TimeoutStep ==
  ASSUME TimeoutInv, [TimeoutNext]_timeoutVars
  PROVE  TimeoutInv'
<1> USE DEF TimeoutInv, TimeoutTypeOK
<1>1. ASSUME NEW h \in Handlers, processDataTimed(h) PROVE TimeoutInv'
  <2>1. PICK s \in {"WaitingC1", "WaitingC2", "Complete", "Failed"} :
          /\ base' = [base EXCEPT ![h] = s]
          /\ feeder' = [feeder EXCEPT ![h] = IF s \in {"Complete", "Failed"} THEN "cancel" ELSE "idle"]
    BY <1>1 DEF processDataTimed, Following
  <2>2. /\ feeder[h] = "idle" /\ base[h] \notin {"Complete", "Failed"}
        /\ overlap' = [overlap EXCEPT ![h] = @ \/ Running(h)]
        /\ fedLate' = [fedLate EXCEPT ![h] = @ \/ timedOut[h]]
        /\ UNCHANGED <<thread, completed, timedOut>>
    BY <1>1 DEF processDataTimed, Feeds
  <2>3. overlap' \in [Handlers -> BOOLEAN] /\ fedLate' \in [Handlers -> BOOLEAN]
    BY <2>2 DEF Running
  <2>4. /\ base' \in [Handlers -> {"WaitingC0", "WaitingC1", "WaitingC2", "Complete", "Failed"}]
        /\ feeder' \in [Handlers -> {"idle", "cancel", "notify"}]
    BY <2>1
  <2>5. ~overlap'[h] /\ ~fedLate'[h] => ~timedOut[h] /\ thread[h] # "notify"
    BY <2>2 DEF Running
  <2>6. ~completed[h]
    BY <2>2
  <2>7. ASSUME NEW g \in Handlers, g # h
        PROVE  /\ base'[g] = base[g] /\ feeder'[g] = feeder[g]
               /\ overlap'[g] = overlap[g] /\ fedLate'[g] = fedLate[g]
    BY <2>1, <2>2, <2>7
  <2>8. /\ base'[h] = s /\ feeder'[h] # "notify"
        /\ feeder'[h] = "cancel" => s \in {"Complete", "Failed"}
    BY <2>1
  <2> QED BY <2>2, <2>3, <2>4, <2>5, <2>6, <2>7, <2>8
<1>2. ASSUME NEW h \in Handlers, cancelTimeoutTimer(h) PROVE TimeoutInv'
  BY <1>2 DEF cancelTimeoutTimer, Feeds, Running
<1>3. ASSUME NEW h \in Handlers, notifyComplete(h) PROVE TimeoutInv'
  BY <1>3 DEF notifyComplete, Feeds, Running
<1>4. ASSUME NEW h \in Handlers, destroy(h) PROVE TimeoutInv'
  BY <1>4 DEF destroy
<1>5. ASSUME NEW h \in Handlers, takeCallback(h) PROVE TimeoutInv'
  BY <1>5 DEF takeCallback
<1>6. ASSUME NEW h \in Handlers, handleTimeout(h) PROVE TimeoutInv'
  BY <1>6 DEF handleTimeout
<1>7. ASSUME NEW h \in Handlers, checkTimeout(h) PROVE TimeoutInv'
  BY <1>7 DEF checkTimeout
<1>8. ASSUME NEW h \in Handlers, notifyTimeout(h) PROVE TimeoutInv'
  BY <1>8 DEF notifyTimeout
<1>9. ASSUME NEW h \in Handlers, timerDone(h) PROVE TimeoutInv'
  BY <1>9 DEF timerDone
<1>10. CASE UNCHANGED timeoutVars
  BY <1>10 DEF timeoutVars
<1> QED BY <1>1, <1>2, <1>3, <1>4, <1>5, <1>6, <1>7, <1>8, <1>9, <1>10 DEF TimeoutNext, TimerStep

-----------------------------------------------------------------------------
(* ShutdownCoordinator                                                      *)

ShutTypeOK ==
  /\ shutState \in {"Running", "StoppingNewConnections", "NotifyingPublishers",
                    "GracePeriod", "ForceTerminating", "Complete"}
  /\ shutPc \in [ShutThreads ->
       [step : {"idle", "notify", "join", "force", "ended", "announce"},
        after : {"none", "force", "announce"}]]
  /\ shutRunning \in BOOLEAN /\ shutRaced \in BOOLEAN
  /\ shutTimer \in {"none", "waiting", "expiring", "done"}

\* A forceShutdown that is still going to store its phase.
Forcing(t) == shutPc[t].step = "force" \/ (shutPc[t].step = "join" /\ shutPc[t].after = "force")

(***************************************************************************)
(* Unless calls overlapped where the coordinator has no guard, a forced    *)
(* shutdown under way finds the shutdown not completed, a grace period     *)
(* that is being stopped does not run, and its thread is gone afterwards.  *)
(***************************************************************************)
ShutInv ==
  /\ ShutTypeOK
  /\ ~shutRaced => \A t \in ShutThreads :
       /\ Forcing(t) => shutState # "Complete"
       /\ shutPc[t].step \in {"join", "force", "announce"} => ~shutRunning
       /\ shutPc[t].step \in {"force", "announce"} => shutTimer = "none"

(***************************************************************************)
(* The phases are numbered in the order of ShutdownStates.                 *)
(***************************************************************************)
LEMMA Phases ==
  /\ Phase("Running") = 1 /\ Phase("StoppingNewConnections") = 2
  /\ Phase("NotifyingPublishers") = 3 /\ Phase("GracePeriod") = 4
  /\ Phase("ForceTerminating") = 5 /\ Phase("Complete") = 6
<1>1. Phase("Running") = 1
  BY DEF Phase, ShutdownStates
<1>2. Phase("StoppingNewConnections") = 2
  BY DEF Phase, ShutdownStates
<1>3. Phase("NotifyingPublishers") = 3
  BY DEF Phase, ShutdownStates
<1>4. Phase("GracePeriod") = 4
  BY DEF Phase, ShutdownStates
<1>5. Phase("ForceTerminating") = 5
  BY DEF Phase, ShutdownStates
<1>6. Phase("Complete") = 6
  BY DEF Phase, ShutdownStates
<1> QED BY <1>1, <1>2, <1>3, <1>4, <1>5, <1>6

(***************************************************************************)
(* The coordinator's invariant is kept, and the phase does not go back.    *)
(***************************************************************************)
LEMMA ShutStep ==
  ASSUME ShutInv, [ShutNext]_shutVars
  PROVE  ShutInv' /\ (~shutRaced => Phase(shutState) <= Phase(shutState'))
<1> USE DEF ShutInv, ShutTypeOK, Forcing
<1>s. shutState' = shutState => Phase(shutState) <= Phase(shutState')
  BY Phases
<1>1. ASSUME NEW t \in ShutThreads, initiateShutdown(t)
      PROVE  ShutInv' /\ (~shutRaced => Phase(shutState) <= Phase(shutState'))
  BY <1>1, Phases DEF initiateShutdown, At, Goto
<1>2. ASSUME NEW t \in ShutThreads, notifyAllPublishers(t) PROVE ShutInv' /\ shutState' = shutState
  BY <1>2 DEF notifyAllPublishers, At, ShutIdle
<1>3. ASSUME NEW t \in ShutThreads, forceShutdown(t) PROVE ShutInv' /\ shutState' = shutState
  BY <1>3 DEF forceShutdown, At, BeginStop, Goto, Stopping
<1>4. ASSUME NEW t \in ShutThreads, stopGracePeriodTimer(t) PROVE ShutInv' /\ shutState' = shutState
  BY <1>4 DEF stopGracePeriodTimer, At, ShutIdle
<1>5. ASSUME NEW t \in ShutThreads, finishForce(t)
      PROVE  ShutInv' /\ (~shutRaced => Phase(shutState) <= Phase(shutState'))
  BY <1>5, Phases DEF finishForce, At, ShutIdle
<1>6. ASSUME NEW t \in ShutThreads, startGracePeriod(t) PROVE ShutInv' /\ shutState' = shutState
  BY <1>6 DEF startGracePeriod, At, Stopping
<1>7. CASE gracePeriodTimerThread
  <2>1. /\ UNCHANGED <<shutState, shutPc, shutRaced>>
        /\ shutTimer # "none" /\ shutTimer' \in {"expiring", "done"}
        /\ shutRunning' = FALSE \/ shutRunning' = shutRunning
    BY <1>7 DEF gracePeriodTimerThread
  <2>2. ShutTypeOK'
    BY <2>1
  <2>3. ~shutRaced => \A t \in ShutThreads : shutPc[t].step \notin {"force", "announce"}
    BY <2>1
  <2> QED BY <2>1, <2>2, <2>3, <1>s
<1>8. ASSUME NEW t \in ShutThreads, shutdownComplete(t)
      PROVE  ShutInv' /\ Phase(shutState) <= Phase(shutState')
  <2>1. /\ shutState' = "Complete" /\ UNCHANGED <<shutPc, shutRunning, shutTimer>>
        /\ shutRaced' = (shutRaced \/ \E u \in ShutThreads : Forcing(u))
    BY <1>8 DEF shutdownComplete, At
  <2>2. shutRaced' \in BOOLEAN
    BY <2>1
  <2>3. ~shutRaced' => ~shutRaced /\ \A u \in ShutThreads : ~Forcing(u)
    BY <2>1
  <2> QED BY <2>1, <2>2, <2>3, Phases
<1>9. ASSUME NEW t \in ShutThreads,
             NEW from \in {"StoppingNewConnections", "NotifyingPublishers", "GracePeriod"},
             NEW to, <<from, to>> \in {<<"StoppingNewConnections", "NotifyingPublishers">>,
                        <<"NotifyingPublishers", "GracePeriod">>,
                        <<"GracePeriod", "ForceTerminating">>},
             advance(t, from, to)
      PROVE  ShutInv' /\ Phase(shutState) <= Phase(shutState')
  BY <1>9, Phases DEF advance, At
<1>10. ASSUME NEW t \in ShutThreads, checkAllStreamsEnded(t) PROVE ShutInv' /\ shutState' = shutState
  <2>1. UNCHANGED <<shutState, shutTimer>> /\ shutPc[t].step = "ended"
    BY <1>10 DEF checkAllStreamsEnded, At
  <2>2. CASE BeginStop(t, "announce")
    BY <2>1, <2>2 DEF BeginStop, Goto, Stopping
  <2>3. CASE shutPc' = [shutPc EXCEPT ![t] = ShutIdle] /\ UNCHANGED <<shutRunning, shutRaced>>
    BY <2>1, <2>3 DEF ShutIdle
  <2> QED BY <1>10, <2>2, <2>3 DEF checkAllStreamsEnded
<1>11. ASSUME NEW t \in ShutThreads, announceEnded(t) PROVE ShutInv' /\ shutState' = shutState
  BY <1>11 DEF announceEnded, At, ShutIdle
<1>12. ASSUME NEW t \in ShutThreads, NEW x, unregisterActiveStream(t, x)
       PROVE  ShutInv' /\ shutState' = shutState
  BY <1>12 DEF unregisterActiveStream, At, Goto
<1>13. ASSUME NEW t \in ShutThreads, NEW kind, NEW x,
              register(t, kind, x) \/ unregister(t, kind, x) \/ record(t, kind)
                \/ terminateAllConnections(t)
       PROVE  ShutInv' /\ shutState' = shutState
  <2>1. UNCHANGED <<shutState, shutPc, shutRunning, shutTimer, shutRaced>>
    BY <1>13 DEF register, unregister, record, terminateAllConnections
  <2> QED BY <2>1
<1>14. CASE UNCHANGED shutVars
  BY <1>14, <1>s DEF shutVars
<1>15. ASSUME NEW t \in ShutThreads, ShutCall(t)
       PROVE  ShutInv' /\ (~shutRaced => Phase(shutState) <= Phase(shutState'))
  BY <1>15, <1>1, <1>3, <1>6, <1>8, <1>9, <1>12, <1>13, <1>s DEF ShutCall
<1>16. ASSUME NEW t \in ShutThreads, ShutGoOn(t)
       PROVE  ShutInv' /\ (~shutRaced => Phase(shutState) <= Phase(shutState'))
  BY <1>16, <1>2, <1>4, <1>5, <1>10, <1>11, <1>s DEF ShutGoOn
<1> QED BY <1>7, <1>14, <1>15, <1>16 DEF ShutNext
-----------------------------------------------------------------------------
(* ErrorIsolation                                                           *)

IsoTypeOK ==
  /\ component \in [state : {"absent", "Running", "Restarting", "Failed"}, attempts : Nat]
  /\ restarter \in [at : {"none", "sleep", "ok", "failed", "done"}, attempts : Nat]
  /\ reporter \in [Reporters -> {"idle", "join", "relock"}]
  /\ aborted \in BOOLEAN /\ isoOverlap \in BOOLEAN
  /\ breaker \in [state : {"absent", "Closed", "Open", "HalfOpen"}, failureCount : Nat,
                  aged : BOOLEAN]
  /\ inARow \in Nat

(***************************************************************************)
(* As long as no calls overlapped, at most one report is under way, and it *)
(* has a thread to join before it joins and none after.  A closed breaker  *)
(* has counted every failure since the last success.                       *)
(***************************************************************************)
IsoInv ==
  /\ IsoTypeOK
  /\ ~isoOverlap => \A r \in Reporters :
       /\ reporter[r] = "join" => restarter.at # "none"
       /\ reporter[r] = "relock" => restarter.at = "none"
       /\ \A q \in Reporters : reporter[r] # "idle" /\ reporter[q] # "idle" => r = q
  /\ breaker.state = "Closed" => breaker.failureCount = inARow
  /\ IsolationSound

(***************************************************************************)
(* The invariant of the isolation layer is kept.                           *)
(***************************************************************************)
LEMMA IsoStep ==
  ASSUME IsoInv, [IsoNext]_isoVars
  PROVE  IsoInv'
<1> USE DEF IsoInv, IsoTypeOK, IsolationSound
<1>u. UNCHANGED <<partsComponent, partsBreaker>> => IsoInv'
  BY DEF partsComponent, partsBreaker
<1>c. ASSUME UNCHANGED partsComponent,
             breaker' \in [state : {"absent", "Closed", "Open", "HalfOpen"},
                           failureCount : Nat, aged : BOOLEAN],
             inARow' \in Nat,
             breaker'.state = "Closed" => /\ breaker'.failureCount = inARow'
                                          /\ inARow' = 0 \/ inARow' < BreakerThreshold
      PROVE  IsoInv'
  BY <1>c DEF partsComponent
<1>b. ASSUME UNCHANGED partsBreaker,
             component' \in [state : {"absent", "Running", "Restarting", "Failed"}, attempts : Nat],
             restarter' \in [at : {"none", "sleep", "ok", "failed", "done"}, attempts : Nat],
             reporter' \in [Reporters -> {"idle", "join", "relock"}],
             aborted' \in BOOLEAN, isoOverlap' \in BOOLEAN,
             aborted' => isoOverlap',
             component'.state = "Restarting" /\ ~aborted' =>
               restarter'.at \in {"sleep", "ok", "failed"},
             ~isoOverlap' => \A r \in Reporters :
               /\ reporter'[r] = "join" => restarter'.at # "none"
               /\ reporter'[r] = "relock" => restarter'.at = "none"
               /\ \A q \in Reporters : reporter'[r] # "idle" /\ reporter'[q] # "idle" => r = q
      PROVE  IsoInv'
  BY <1>b DEF partsBreaker
<1>1. ASSUME NEW x \in IsoConnections,
             registerIsoConnection(x) \/ handleConnectionError(x) \/ cleanupConnection(x)
      PROVE  IsoInv'
  BY <1>1, <1>u DEF registerIsoConnection, handleConnectionError, cleanupConnection
<1>2. ASSUME NEW used, NEW total, reportMemoryUsage(used, total) PROVE IsoInv'
  BY <1>2, <1>u DEF reportMemoryUsage
<1>3. CASE registerComponent
  <2>1. /\ UNCHANGED <<restarter, reporter, partsBreaker>>
        /\ component' = [state |-> "Running", attempts |-> 0]
        /\ aborted' = (restarter.at # "none")
        /\ isoOverlap' = (isoOverlap \/ restarter.at # "none" \/ Busy)
    BY <1>3 DEF registerComponent
  <2>2. ~isoOverlap' => ~isoOverlap /\ restarter.at = "none"
    BY <2>1
  <2>3. isoOverlap' \in BOOLEAN /\ aborted' \in BOOLEAN /\ (aborted' => isoOverlap')
    BY <2>1 DEF Busy
  <2>4. /\ component' \in [state : {"absent", "Running", "Restarting", "Failed"}, attempts : Nat]
        /\ component'.state = "Running"
    BY <2>1
  <2> QED BY <2>1, <2>2, <2>3, <2>4, <1>b
<1>4. CASE unregisterComponent
  <2>1. /\ UNCHANGED <<reporter, aborted, partsBreaker>> /\ ~aborted
        /\ component' = [state |-> "absent", attempts |-> 0]
        /\ restarter' = [at |-> "none", attempts |-> 0]
        /\ isoOverlap' = (isoOverlap \/ Busy)
    BY <1>4 DEF unregisterComponent, NoThread, IsoUp
  <2>2. ~isoOverlap' => \A r \in Reporters : reporter'[r] = "idle"
    BY <2>1 DEF Busy
  <2>3. isoOverlap' \in BOOLEAN
    BY <2>1 DEF Busy
  <2>4. /\ component' \in [state : {"absent", "Running", "Restarting", "Failed"}, attempts : Nat]
        /\ component'.state = "absent"
        /\ restarter' \in [at : {"none", "sleep", "ok", "failed", "done"}, attempts : Nat]
    BY <2>1
  <2> QED BY <2>1, <2>2, <2>3, <2>4, <1>b
<1>l. ASSUME Launch
      PROVE  /\ component' \in [state : {"absent", "Running", "Restarting", "Failed"}, attempts : Nat]
             /\ restarter' \in [at : {"none", "sleep", "ok", "failed", "done"}, attempts : Nat]
             /\ restarter'.at = "sleep" /\ aborted' = (restarter.at # "none")
  BY <1>l DEF Launch
<1>5. ASSUME NEW r \in Reporters, reportComponentCrash(r) PROVE IsoInv'
  <2>1. /\ UNCHANGED partsBreaker /\ ~aborted /\ reporter[r] = "idle"
        /\ isoOverlap' = (isoOverlap \/ Busy)
    BY <1>5 DEF reportComponentCrash, IsoUp
  <2>2. ~isoOverlap' => ~isoOverlap /\ \A q \in Reporters : reporter[q] = "idle"
    BY <2>1 DEF Busy
  <2>3. isoOverlap' \in BOOLEAN
    BY <2>1 DEF Busy
  <2>4. CASE restarter.at = "none" /\ Launch /\ UNCHANGED reporter
    BY <2>1, <2>2, <2>3, <2>4, <1>b, <1>l
  <2>5. CASE /\ restarter.at # "none" /\ reporter' = [reporter EXCEPT ![r] = "join"]
             /\ UNCHANGED <<component, restarter, aborted>>
    <3>1. reporter' \in [Reporters -> {"idle", "join", "relock"}]
      BY <2>5
    <3>2. reporter'[r] = "join" /\ \A q \in Reporters : q # r => reporter'[q] = reporter[q]
      BY <2>5
    <3>3. ~isoOverlap' => \A p \in Reporters :
               /\ reporter'[p] = "join" => restarter'.at # "none"
               /\ reporter'[p] = "relock" => restarter'.at = "none"
               /\ \A q \in Reporters : reporter'[p] # "idle" /\ reporter'[q] # "idle" => p = q
      BY <2>2, <2>5, <3>2
    <3> QED BY <2>1, <2>3, <2>5, <3>1, <3>3, <1>b
  <2> QED BY <1>5, <2>4, <2>5 DEF reportComponentCrash
<1>6. ASSUME NEW r \in Reporters, joinRestart(r) PROVE IsoInv'
  <2>1. /\ UNCHANGED <<component, isoOverlap, partsBreaker>> /\ ~aborted /\ reporter[r] = "join"
        /\ restarter.at \in {"done", "none"} /\ aborted' = (restarter.at = "none")
        /\ restarter' = [at |-> "none", attempts |-> 0]
        /\ reporter' = [reporter EXCEPT ![r] = "relock"]
    BY <1>6 DEF joinRestart, IsoUp, NoThread
  <2>2. /\ reporter' \in [Reporters -> {"idle", "join", "relock"}]
        /\ reporter'[r] = "relock" /\ \A q \in Reporters : q # r => reporter'[q] = reporter[q]
        /\ restarter' \in [at : {"none", "sleep", "ok", "failed", "done"}, attempts : Nat]
        /\ restarter'.at = "none"
    BY <2>1
  <2>3. component.state # "Restarting"
    BY <2>1
  <2>4. ~isoOverlap => restarter.at # "none" /\ \A q \in Reporters : q # r => reporter[q] = "idle"
    BY <2>1
  <2>5. aborted' \in BOOLEAN /\ (aborted' => isoOverlap')
    BY <2>1, <2>4
  <2>6. ~isoOverlap' => \A p \in Reporters :
               /\ reporter'[p] = "join" => restarter'.at # "none"
               /\ reporter'[p] = "relock" => restarter'.at = "none"
               /\ \A q \in Reporters : reporter'[p] # "idle" /\ reporter'[q] # "idle" => p = q
    BY <2>1, <2>2, <2>4
  <2> QED BY <2>1, <2>2, <2>3, <2>5, <2>6, <1>b
<1>7. ASSUME NEW r \in Reporters, attemptComponentRestart(r) PROVE IsoInv'
  <2>1. /\ UNCHANGED <<isoOverlap, partsBreaker>> /\ ~aborted /\ reporter[r] = "relock"
        /\ reporter' = [reporter EXCEPT ![r] = "idle"]
    BY <1>7 DEF attemptComponentRestart, IsoUp
  <2>2. /\ reporter' \in [Reporters -> {"idle", "join", "relock"}]
        /\ reporter'[r] = "idle" /\ \A q \in Reporters : q # r => reporter'[q] = reporter[q]
    BY <2>1
  <2>3. ~isoOverlap => restarter.at = "none" /\ \A q \in Reporters : reporter'[q] = "idle"
    BY <2>1, <2>2
  <2>4. CASE UNCHANGED <<component, restarter, aborted>>
    BY <2>1, <2>2, <2>3, <2>4, <1>b
  <2>5. CASE Launch
    <3>1. aborted' \in BOOLEAN /\ (aborted' => isoOverlap')
      BY <2>1, <2>3, <2>5, <1>l
    <3> QED BY <2>1, <2>2, <2>3, <2>5, <3>1, <1>b, <1>l
  <2> QED BY <1>7, <2>4, <2>5 DEF attemptComponentRestart
<1>8. CASE restartThread
  <2>1. UNCHANGED <<reporter, aborted, isoOverlap, partsBreaker>>
    BY <1>8 DEF restartThread
  <2>2. restarter.at \in {"sleep", "ok", "failed"} /\ restarter'.at # "none"
        /\ restarter' \in [at : {"none", "sleep", "ok", "failed", "done"}, attempts : Nat]
    BY <1>8 DEF restartThread
  <2>3. /\ component' \in [state : {"absent", "Running", "Restarting", "Failed"}, attempts : Nat]
        /\ component'.state = "Restarting" => restarter'.at \in {"sleep", "ok", "failed"}
    BY <1>8, <2>2 DEF restartThread
  <2> QED BY <2>1, <2>2, <2>3, <1>b
<1>9. CASE destroyIsolation
  BY <1>9, <1>b DEF destroyIsolation
<1>10. CASE registerExternalService \/ unregisterExternalService
  <2>1. PICK s \in {"absent", "Closed"} :
          /\ UNCHANGED partsComponent /\ inARow' = 0
          /\ breaker' = [state |-> s, failureCount |-> 0, aged |-> FALSE]
    BY <1>10 DEF registerExternalService, unregisterExternalService
  <2>2. /\ breaker' \in [state : {"absent", "Closed", "Open", "HalfOpen"},
                         failureCount : Nat, aged : BOOLEAN]
        /\ breaker'.failureCount = 0
    BY <2>1
  <2> QED BY <2>1, <2>2, <1>c
<1>11. CASE recordExternalServiceFailure
  <2>1. UNCHANGED partsComponent /\ inARow' = inARow + 1 /\ breaker.state # "absent"
    BY <1>11 DEF recordExternalServiceFailure
  <2>2. CASE breaker.state = "HalfOpen"
    <3>1. breaker' = [breaker EXCEPT !.state = "Open", !.aged = FALSE]
      BY <1>11, <2>2 DEF recordExternalServiceFailure
    <3>2. /\ breaker' \in [state : {"absent", "Closed", "Open", "HalfOpen"},
                           failureCount : Nat, aged : BOOLEAN]
          /\ breaker'.state = "Open"
      BY <3>1
    <3> QED BY <2>1, <3>2, <1>c
  <2>3. CASE breaker.state = "Closed" /\ breaker.failureCount + 1 >= BreakerThreshold
    <3>1. breaker' = [state |-> "Open", failureCount |-> breaker.failureCount + 1, aged |-> FALSE]
      BY <1>11, <2>3 DEF recordExternalServiceFailure
    <3> QED BY <2>1, <3>1, <1>c
  <2>4. CASE breaker.state = "Closed" /\ ~(breaker.failureCount + 1 >= BreakerThreshold)
    <3>1. breaker' = [breaker EXCEPT !.failureCount = @ + 1]
      BY <1>11, <2>4 DEF recordExternalServiceFailure
    <3>2. breaker.failureCount = inARow /\ BreakerThreshold \in Nat
      BY <2>4, IsoAssumption
    <3>3. inARow' < BreakerThreshold
      BY <3>2, <2>1, <2>4
    <3>4. breaker'.failureCount = inARow'
      BY <3>1, <3>2, <2>1
    <3>5. breaker' \in [state : {"absent", "Closed", "Open", "HalfOpen"},
                        failureCount : Nat, aged : BOOLEAN]
      BY <3>1
    <3> QED BY <2>1, <3>3, <3>4, <3>5, <1>c
  <2>5. CASE breaker.state = "Open"
    <3>1. breaker' = breaker
      BY <1>11, <2>5 DEF recordExternalServiceFailure
    <3> QED BY <2>1, <2>5, <3>1, <1>c
  <2> QED BY <2>1, <2>2, <2>3, <2>4, <2>5
<1>12. CASE recordExternalServiceSuccess
  BY <1>12, <1>c DEF recordExternalServiceSuccess
<1>13. CASE breakerAges \/ isExternalServiceAvailable
  BY <1>13, <1>c DEF breakerAges, isExternalServiceAvailable
<1>14. CASE UNCHANGED isoVars
  BY <1>14, <1>u DEF isoVars, partsComponent, partsBreaker
<1> QED BY <1>1, <1>2, <1>3, <1>4, <1>5, <1>6, <1>7, <1>8, <1>9, <1>10, <1>11, <1>12, <1>13, <1>14
    DEF IsoNext

-----------------------------------------------------------------------------
(* ExternalAuthCallback                                                     *)

ExtTypeOK ==
  /\ circuit \in {"Closed", "Open", "HalfOpen"}
  /\ circuitFails \in Nat
  /\ extPc \in [AuthThreads ->
       [step : {"idle", "circuit", "open", "request", "result", "readFail", "readGood",
                "fail", "good", "store"},
        key : AuthKeys \cup {"none"},
        result : {"none", "allow", "deny", "refused", "error", "timeout", "last"},
        seen : {"none", "Closed", "Open", "HalfOpen"}]]
  /\ served \in [sent : Nat, failed : Nat, denied : Nat]

\* Calls that are going to record a failure, and those that will record two.
Due == {t \in AuthThreads : \/ extPc[t].step \in {"readFail", "fail"}
                            \/ extPc[t].step = "result" /\ extPc[t].result \notin {"allow", "deny"}}
Owing == {t \in AuthThreads : extPc[t].step \in {"readFail", "fail"} /\ extPc[t].result # "last"}

Justified == 2 * served.failed + served.denied >= CircuitThreshold

(***************************************************************************)
(* The failures counted and those still to be counted are no more than the *)
(* answers of the service account for; and a thread that found the breaker *)
(* open, now or earlier, had a reason to.                                  *)
(***************************************************************************)
ExtInv ==
  /\ ExtTypeOK
  /\ circuitFails + Cardinality(Due) + Cardinality(Owing) <= 2 * served.failed + served.denied
  /\ \A t \in AuthThreads :
       extPc[t].seen \in {"Open", "HalfOpen"} \/ extPc[t].step = "open" => Justified
  /\ circuit # "Closed" => Justified
(***************************************************************************)
(* Counting a set of threads before and after one of them moved.           *)
(***************************************************************************)
LEMMA Tally ==
  ASSUME NEW A, A \subseteq AuthThreads, NEW B, B \subseteq AuthThreads, NEW t \in AuthThreads,
         \A u \in AuthThreads \ {t} : u \in A <=> u \in B
  PROVE  /\ Cardinality(A) \in Nat /\ Cardinality(B) \in Nat
         /\ t \in A => Cardinality(A) >= 1
         /\ t \in A /\ t \notin B => Cardinality(B) = Cardinality(A) - 1
         /\ t \notin A /\ t \in B => Cardinality(B) = Cardinality(A) + 1
         /\ (t \in A <=> t \in B) => Cardinality(B) = Cardinality(A)
<1>1. IsFiniteSet(A) /\ IsFiniteSet(B)
  BY ExtAssumption, FS_Subset
<1>2. Cardinality(A) \in Nat /\ Cardinality(B) \in Nat
  BY <1>1, FS_CardinalityType
<1>3. t \in A => Cardinality(A) # 0
  BY <1>1, FS_EmptySet
<1>4. ASSUME t \in A, t \notin B PROVE Cardinality(B) = Cardinality(A) - 1
  <2>1. B = A \ {t}
    BY <1>4
  <2> QED BY <2>1, <1>1, <1>4, FS_RemoveElement
<1>5. ASSUME t \notin A, t \in B PROVE Cardinality(B) = Cardinality(A) + 1
  <2>1. B = A \cup {t}
    BY <1>5
  <2> QED BY <2>1, <1>1, <1>5, FS_AddElement
<1>6. ASSUME t \in A <=> t \in B PROVE Cardinality(B) = Cardinality(A)
  <2>1. A = B
    BY <1>6
  <2> QED BY <2>1
<1> QED BY <1>2, <1>3, <1>4, <1>5, <1>6

\* What is left to count for one thread, from its place in the code.
DueIn(pc) == pc.step \in {"readFail", "fail"} \/ (pc.step = "result" /\ pc.result \notin {"allow", "deny"})
OwingIn(pc) == pc.step \in {"readFail", "fail"} /\ pc.result # "last"

(***************************************************************************)
(* A step that moves thread t keeps the invariant if what it adds to the   *)
(* count and what it leaves to be counted are covered by what the service  *)
(* answered, and what it has seen is justified.                            *)
(***************************************************************************)
LEMMA ThreadMoves ==
  ASSUME ExtInv, NEW t \in AuthThreads, NEW pc,
         extPc' = [extPc EXCEPT ![t] = pc], ExtTypeOK',
         NEW a \in Nat, NEW b \in Nat, NEW c \in Nat, NEW d \in Nat,
         a = IF DueIn(extPc[t]) THEN 1 ELSE 0, b = IF OwingIn(extPc[t]) THEN 1 ELSE 0,
         c = IF DueIn(pc) THEN 1 ELSE 0, d = IF OwingIn(pc) THEN 1 ELSE 0,
         circuitFails' + c + d + (2 * served.failed + served.denied)
           <= circuitFails + a + b + (2 * served'.failed + served'.denied),
         2 * served.failed + served.denied <= 2 * served'.failed + served'.denied,
         pc.seen \in {"Open", "HalfOpen"} \/ pc.step = "open" => Justified',
         circuit' # "Closed" => Justified'
  PROVE  ExtInv'
<1>p. pc = extPc'[t] /\ \A u \in AuthThreads \ {t} : extPc'[u] = extPc[u]
  BY DEF ExtInv, ExtTypeOK
<1>1. /\ Due \subseteq AuthThreads /\ Due' \subseteq AuthThreads
      /\ \A u \in AuthThreads \ {t} : u \in Due <=> u \in Due'
      /\ t \in Due <=> DueIn(extPc[t])
      /\ t \in Due' <=> DueIn(pc)
  BY <1>p DEF Due, DueIn
<1>2. /\ Owing \subseteq AuthThreads /\ Owing' \subseteq AuthThreads
      /\ \A u \in AuthThreads \ {t} : u \in Owing <=> u \in Owing'
      /\ t \in Owing <=> OwingIn(extPc[t])
      /\ t \in Owing' <=> OwingIn(pc)
  BY <1>p DEF Owing, OwingIn
<1>3. /\ Cardinality(Due) \in Nat /\ Cardinality(Due') \in Nat
      /\ Cardinality(Due') + a = Cardinality(Due) + c
  BY <1>1, Tally
<1>4. /\ Cardinality(Owing) \in Nat /\ Cardinality(Owing') \in Nat
      /\ Cardinality(Owing') + b = Cardinality(Owing) + d
  BY <1>2, Tally
<1>5. /\ circuitFails \in Nat /\ served.failed \in Nat /\ served.denied \in Nat
      /\ circuitFails' \in Nat /\ served'.failed \in Nat /\ served'.denied \in Nat
      /\ circuitFails + Cardinality(Due) + Cardinality(Owing) <= 2 * served.failed + served.denied
  BY DEF ExtInv, ExtTypeOK
<1>6. circuitFails' + Cardinality(Due') + Cardinality(Owing') <= 2 * served'.failed + served'.denied
  BY ONLY <1>3, <1>4, <1>5, a \in Nat, b \in Nat, c \in Nat, d \in Nat,
     circuitFails' + c + d + (2 * served.failed + served.denied)
       <= circuitFails + a + b + (2 * served'.failed + served'.denied)
<1>7. Justified => Justified'
  BY <1>5, ExtAssumption DEF Justified
<1>8. \A u \in AuthThreads :
        extPc'[u].seen \in {"Open", "HalfOpen"} \/ extPc'[u].step = "open" => Justified'
  BY <1>p, <1>7 DEF ExtInv
<1> QED BY <1>6, <1>8 DEF ExtInv
\* A thread's place in a call of authenticate.
Places == [step : {"idle", "circuit", "open", "request", "result", "readFail", "readGood",
                   "fail", "good", "store"},
           key : AuthKeys \cup {"none"},
           result : {"none", "allow", "deny", "refused", "error", "timeout", "last"},
           seen : {"none", "Closed", "Open", "HalfOpen"}]

(***************************************************************************)
(* The same for a step after which the thread is at a known place, with    *)
(* the count and the service's answers as they were.                       *)
(***************************************************************************)
LEMMA ThreadGoesOn ==
  ASSUME ExtInv, NEW t \in AuthThreads, NEW pc \in Places,
         extPc' = [extPc EXCEPT ![t] = pc],
         UNCHANGED <<circuitFails, served>>,
         circuit' \in {"Closed", "Open", "HalfOpen"},
         DueIn(pc) => DueIn(extPc[t]), OwingIn(pc) => OwingIn(extPc[t]),
         pc.seen \in {"Open", "HalfOpen"} \/ pc.step = "open" => Justified,
         circuit' # "Closed" => Justified
  PROVE  ExtInv'
<1>1. ExtTypeOK'
  BY DEF ExtInv, ExtTypeOK, Places
<1>2. PICK a \in Nat : a = IF DueIn(extPc[t]) THEN 1 ELSE 0
  OBVIOUS
<1>3. PICK b \in Nat : b = IF OwingIn(extPc[t]) THEN 1 ELSE 0
  OBVIOUS
<1>4. PICK c \in Nat : c = IF DueIn(pc) THEN 1 ELSE 0
  OBVIOUS
<1>5. PICK d \in Nat : d = IF OwingIn(pc) THEN 1 ELSE 0
  OBVIOUS
<1>6. c <= a /\ d <= b
  BY <1>2, <1>3, <1>4, <1>5
<1>7. circuitFails \in Nat /\ served.failed \in Nat /\ served.denied \in Nat
  BY DEF ExtInv, ExtTypeOK
<1>8. /\ circuitFails' + c + d + (2 * served.failed + served.denied)
           <= circuitFails + a + b + (2 * served'.failed + served'.denied)
      /\ 2 * served.failed + served.denied <= 2 * served'.failed + served'.denied
  BY <1>6, <1>7
<1>9. Justified' = Justified
  BY DEF Justified
<1> QED BY <1>1, <1>2, <1>3, <1>4, <1>5, <1>8, <1>9, ThreadMoves

(***************************************************************************)
(* Steps that move no thread.                                              *)
(***************************************************************************)
LEMMA NoThreadMoves ==
  ASSUME ExtInv, UNCHANGED <<circuit, circuitFails, extPc, served>>
  PROVE  ExtInv'
BY DEF ExtInv, ExtTypeOK, Due, Owing, Justified

(***************************************************************************)
(* The invariant of the external authentication is kept.                   *)
(***************************************************************************)
LEMMA ExtStep ==
  ASSUME ExtInv, [ExtNext]_extVars
  PROVE  ExtInv'
<1>t. /\ circuit \in {"Closed", "Open", "HalfOpen"} /\ circuitFails \in Nat
      /\ extPc \in [AuthThreads -> Places] /\ served \in [sent : Nat, failed : Nat, denied : Nat]
      /\ served.failed \in Nat /\ served.denied \in Nat
      /\ circuit # "Closed" => Justified
  BY DEF ExtInv, ExtTypeOK, Places
<1>j. \A t \in AuthThreads :
        /\ extPc[t] \in Places
        /\ extPc[t].seen \in {"Open", "HalfOpen"} \/ extPc[t].step = "open" => Justified
  BY <1>t DEF ExtInv
<1>i. ExtIdle \in Places /\ ExtIdle.step = "idle" /\ ExtIdle.seen = "none"
      /\ ~DueIn(ExtIdle) /\ ~OwingIn(ExtIdle)
  BY DEF ExtIdle, Places, DueIn, OwingIn
<1>r. ASSUME NEW t \in AuthThreads, Return(t), UNCHANGED <<circuit, circuitFails, served>>
      PROVE  ExtInv'
  BY <1>r, <1>t, <1>i, ThreadGoesOn DEF Return
<1>1. ASSUME NEW t \in AuthThreads, NEW k \in AuthKeys, authenticate(t, k) PROVE ExtInv'
  <2>1. PICK pc : pc = [ExtIdle EXCEPT !.step = "circuit", !.key = k]
    OBVIOUS
  <2>2. pc \in Places /\ pc.step = "circuit" /\ pc.seen = "none"
    BY <2>1, <1>i DEF Places
  <2>3. ~DueIn(pc) /\ ~OwingIn(pc)
    BY <2>2 DEF DueIn, OwingIn
  <2>4. extPc' = [extPc EXCEPT ![t] = pc] /\ UNCHANGED <<circuit, circuitFails, served>>
    BY <1>1, <2>1 DEF authenticate
  <2> QED BY <2>2, <2>3, <2>4, <1>t, ThreadGoesOn
<1>2. ASSUME NEW t \in AuthThreads, circuitAllowsRequest(t) PROVE ExtInv'
  <2>0. UNCHANGED <<circuitFails, served>>
    BY <1>2 DEF circuitAllowsRequest
  <2>1. ASSUME NEW s \in {"open", "request"}, s = "open" => Justified,
               extPc' = [extPc EXCEPT ![t].step = s],
               circuit' \in {"Closed", "Open", "HalfOpen"}, circuit' # "Closed" => Justified
        PROVE  ExtInv'
    <3>1. PICK pc : pc = [extPc[t] EXCEPT !.step = s]
      OBVIOUS
    <3>2. pc \in Places /\ pc.step = s /\ pc.seen = extPc[t].seen
      BY <3>1, <1>j DEF Places
    <3>3. ~DueIn(pc) /\ ~OwingIn(pc)
      BY <3>2 DEF DueIn, OwingIn
    <3>4. extPc' = [extPc EXCEPT ![t] = pc]
      BY <2>1, <3>1
    <3>5. pc.seen \in {"Open", "HalfOpen"} \/ pc.step = "open" => Justified
      BY <3>2, <2>1, <1>j
    <3> QED BY <2>0, <2>1, <3>2, <3>3, <3>4, <3>5, ThreadGoesOn
  <2>2. CASE /\ extPc[t].step = "circuit" /\ UNCHANGED circuit
             /\ extPc' = [extPc EXCEPT ![t].step = IF circuit = "Open" THEN "open" ELSE "request"]
    <3>1. CASE circuit = "Open"
      BY <3>1, <2>2, <2>1, <1>t
    <3>2. CASE circuit # "Open"
      BY <3>2, <2>2, <2>1, <1>t
    <3> QED BY <3>1, <3>2
  <2>3. CASE extPc[t].step = "open" /\ circuit' = "HalfOpen" /\ Move(t, "request")
    BY <2>3, <2>1, <1>j DEF Move
  <2>4. CASE Return(t) /\ UNCHANGED circuit
    BY <2>4, <2>0, <1>r
  <2> QED BY <1>2, <2>2, <2>3, <2>4 DEF circuitAllowsRequest
<1>3. ASSUME NEW t \in AuthThreads, makeRequest(t) PROVE ExtInv'
  <2>1. PICK answer \in {"allow", "deny", "refused", "error", "timeout"} :
          /\ extPc' = [extPc EXCEPT
               ![t].step = IF answer = "error" \/ (answer = "timeout" /\ fallback = "Deny")
                           THEN "readFail" ELSE "result",
               ![t].result = IF answer = "timeout" /\ fallback = "Allow" THEN "allow" ELSE answer]
          /\ served' = [served EXCEPT !.sent = @ + 1,
               !.failed = @ + IF answer \in {"error", "timeout"} THEN 1 ELSE 0,
               !.denied = @ + IF answer = "refused" THEN 1 ELSE 0]
    BY <1>3 DEF makeRequest
  <2>2. extPc[t].step = "request" /\ UNCHANGED <<circuit, circuitFails>>
    BY <1>3 DEF makeRequest
  <2>3. PICK s \in {"readFail", "result"} :
          s = IF answer = "error" \/ (answer = "timeout" /\ fallback = "Deny")
              THEN "readFail" ELSE "result"
    OBVIOUS
  <2>4. PICK r \in {"allow", "deny", "refused", "error", "timeout"} :
          r = IF answer = "timeout" /\ fallback = "Allow" THEN "allow" ELSE answer
    OBVIOUS
  <2>5. PICK pc : pc = [extPc[t] EXCEPT !.step = s, !.result = r]
    OBVIOUS
  <2>6. extPc' = [extPc EXCEPT ![t] = pc]
    BY <2>1, <2>3, <2>4, <2>5
  <2>7. pc \in Places /\ pc.step = s /\ pc.result = r /\ pc.seen = extPc[t].seen
    BY <2>5, <1>j DEF Places
  <2>8. PICK f \in Nat : f = IF answer \in {"error", "timeout"} THEN 1 ELSE 0
    OBVIOUS
  <2>9. PICK n \in Nat : n = IF answer = "refused" THEN 1 ELSE 0
    OBVIOUS
  <2>10. /\ served' \in [sent : Nat, failed : Nat, denied : Nat]
         /\ served'.failed = served.failed + f /\ served'.denied = served.denied + n
    <3>1. PICK m \in Nat, x \in Nat, y \in Nat :
            m = served.sent + 1 /\ x = served.failed + f /\ y = served.denied + n
      BY <1>t
    <3>2. served' = [served EXCEPT !.sent = m, !.failed = x, !.denied = y]
      BY <2>1, <2>8, <2>9, <3>1
    <3> QED BY <3>1, <3>2, <1>t
  <2>11. ExtTypeOK'
    BY <2>2, <2>6, <2>7, <2>10, <1>t DEF ExtTypeOK, Places
  <2>12. ~DueIn(extPc[t]) /\ ~OwingIn(extPc[t])
    BY <2>2 DEF DueIn, OwingIn
  <2>13. PICK c \in Nat : c = IF DueIn(pc) THEN 1 ELSE 0
    OBVIOUS
  <2>14. PICK d \in Nat : d = IF OwingIn(pc) THEN 1 ELSE 0
    OBVIOUS
  <2>15. c + d <= 2 * f + n
    <3>1. CASE answer \in {"error", "timeout"}
      BY <3>1, <2>8, <2>9, <2>13, <2>14
    <3>2. CASE answer = "refused"
      BY <3>2, <2>3, <2>4, <2>7, <2>8, <2>9, <2>13, <2>14 DEF OwingIn
    <3>3. CASE answer \in {"allow", "deny"}
      BY <3>3, <2>3, <2>4, <2>7, <2>8, <2>9, <2>13, <2>14 DEF OwingIn, DueIn
    <3> QED BY <3>1, <3>2, <3>3
  <2>16. /\ circuitFails' + c + d + (2 * served.failed + served.denied)
              <= circuitFails + 0 + 0 + (2 * served'.failed + served'.denied)
         /\ 2 * served.failed + served.denied <= 2 * served'.failed + served'.denied
    BY <2>2, <2>10, <2>15, <1>t
  <2>17. Justified => Justified'
    BY <2>10, <1>t, ExtAssumption DEF Justified
  <2>18. pc.seen \in {"Open", "HalfOpen"} \/ pc.step = "open" => Justified'
    BY <2>7, <2>17, <1>j
  <2>19. circuit' # "Closed" => Justified'
    BY <2>2, <2>17, <1>t
  <2>20. 0 \in Nat /\ 0 = IF DueIn(extPc[t]) THEN 1 ELSE 0
    BY <2>12
  <2>21. 0 = IF OwingIn(extPc[t]) THEN 1 ELSE 0
    BY <2>12
  <2> QED BY <2>6, <2>11, <2>13, <2>14, <2>16, <2>18, <2>19, <2>20, <2>21, ThreadMoves
<1>4. ASSUME NEW t \in AuthThreads, Result(t) PROVE ExtInv'
  <2>1. extPc[t].step = "result" /\ UNCHANGED <<circuit, circuitFails, served>>
    BY <1>4 DEF Result
  <2>2. CASE extPc[t].result = "allow"
    <3>1. PICK pc : pc = [extPc[t] EXCEPT !.step = "readGood"]
      OBVIOUS
    <3>2. pc \in Places /\ pc.step = "readGood" /\ pc.seen = extPc[t].seen
      BY <3>1, <1>j DEF Places
    <3>3. extPc' = [extPc EXCEPT ![t] = pc]
      BY <1>4, <2>2, <3>1 DEF Result, Move
    <3>4. ~DueIn(pc) /\ ~OwingIn(pc)
      BY <3>2 DEF DueIn, OwingIn
    <3> QED BY <2>1, <3>2, <3>3, <3>4, <1>t, <1>j, ThreadGoesOn
  <2>3. CASE extPc[t].result = "deny"
    BY <1>4, <2>1, <2>3, <1>r DEF Result
  <2>4. CASE extPc[t].result \notin {"allow", "deny"}
    <3>1. PICK pc : pc = [extPc[t] EXCEPT !.step = "readFail", !.result = "last"]
      OBVIOUS
    <3>2. pc \in Places /\ pc.step = "readFail" /\ pc.result = "last" /\ pc.seen = extPc[t].seen
      BY <3>1, <1>j DEF Places
    <3>3. extPc' = [extPc EXCEPT ![t] = pc]
      BY <1>4, <2>4, <3>1 DEF Result
    <3>4. DueIn(extPc[t]) /\ ~OwingIn(pc)
      BY <3>2, <2>1, <2>4 DEF DueIn, OwingIn
    <3> QED BY <2>1, <3>2, <3>3, <3>4, <1>t, <1>j, ThreadGoesOn
  <2> QED BY <2>2, <2>3, <2>4
<1>5. ASSUME NEW t \in AuthThreads, readCircuit(t) PROVE ExtInv'
  <2>1. extPc[t].step \in {"readFail", "readGood"} /\ UNCHANGED <<circuit, circuitFails, served>>
    BY <1>5 DEF readCircuit
  <2>2. PICK s \in {"fail", "good"} : s = IF extPc[t].step = "readFail" THEN "fail" ELSE "good"
    OBVIOUS
  <2>3. PICK pc : pc = [extPc[t] EXCEPT !.seen = circuit, !.step = s]
    OBVIOUS
  <2>4. extPc' = [extPc EXCEPT ![t] = pc]
    BY <1>5, <2>2, <2>3 DEF readCircuit
  <2>5. pc \in Places /\ pc.step = s /\ pc.result = extPc[t].result /\ pc.seen = circuit
    BY <2>3, <1>j, <1>t DEF Places
  <2>6. (DueIn(pc) => DueIn(extPc[t])) /\ (OwingIn(pc) => OwingIn(extPc[t]))
    BY <2>1, <2>2, <2>5 DEF DueIn, OwingIn
  <2> QED BY <2>1, <2>4, <2>5, <2>6, <1>t, ThreadGoesOn
<1>6. ASSUME NEW t \in AuthThreads, recordFailure(t) PROVE ExtInv'
  <2> DEFINE trips == \/ extPc[t].seen = "HalfOpen"
                      \/ extPc[t].seen = "Closed" /\ circuitFails + 1 >= CircuitThreshold
  <2>1. /\ extPc[t].step = "fail" /\ UNCHANGED served
        /\ circuit' = IF trips THEN "Open" ELSE circuit
        /\ circuitFails' = circuitFails + IF extPc[t].seen = "Closed" THEN 1 ELSE 0
        /\ extPc' = [extPc EXCEPT ![t] = IF extPc[t].result = "last" THEN ExtIdle
                                         ELSE [extPc[t] EXCEPT !.step = "result"]]
    BY <1>6 DEF recordFailure, Return, Move
  <2>2. PICK pc : pc = IF extPc[t].result = "last" THEN ExtIdle
                       ELSE [extPc[t] EXCEPT !.step = "result"]
    OBVIOUS
  <2>4. /\ pc \in Places
        /\ pc.seen \in {"Open", "HalfOpen"} \/ pc.step = "open" => Justified
        /\ ~OwingIn(pc)
        /\ DueIn(pc) => extPc[t].result # "last"
    <3>1. CASE extPc[t].result = "last"
      BY <3>1, <2>2, <1>i
    <3>2. CASE extPc[t].result # "last"
      <4>1. pc = [extPc[t] EXCEPT !.step = "result"]
        BY <2>2, <3>2
      <4>2. pc \in Places /\ pc.step = "result" /\ pc.seen = extPc[t].seen
        BY <4>1, <1>j DEF Places
      <4> QED BY <4>2, <3>2, <1>j DEF OwingIn
    <3> QED BY <3>1, <3>2
  <2>5. extPc' = [extPc EXCEPT ![t] = pc]
    BY <2>1, <2>2
  <2>6. DueIn(extPc[t]) /\ (OwingIn(extPc[t]) <=> extPc[t].result # "last")
    BY <2>1 DEF DueIn, OwingIn
  <2>7. PICK b \in Nat : b = IF OwingIn(extPc[t]) THEN 1 ELSE 0
    OBVIOUS
  <2>8. PICK c \in Nat : c = IF DueIn(pc) THEN 1 ELSE 0
    OBVIOUS
  <2>9. circuitFails' \in Nat /\ circuitFails' <= circuitFails + 1 /\ c <= b
    BY <2>1, <2>4, <2>6, <2>7, <2>8, <1>t
  <2>10. /\ circuitFails' + c + 0 + (2 * served.failed + served.denied)
              <= circuitFails + 1 + b + (2 * served'.failed + served'.denied)
         /\ 2 * served.failed + served.denied <= 2 * served'.failed + served'.denied
    BY <2>1, <2>9, <1>t
  <2>11. Justified' = Justified
    BY <2>1 DEF Justified
  <2>12. circuitFails + 1 <= 2 * served.failed + served.denied
    <3>1. t \in Due
      BY <2>1 DEF Due
    <3>2. /\ Cardinality(Due) \in Nat /\ Cardinality(Due) >= 1
      BY <3>1, Tally DEF Due
    <3>3. Cardinality(Owing) \in Nat
      <4>1. Owing \subseteq AuthThreads
        BY DEF Owing
      <4> QED BY <4>1, Tally
    <3> QED BY <3>2, <3>3, <1>t DEF ExtInv
  <2>13. trips => Justified
    BY <2>12, <1>j, <1>t, ExtAssumption DEF Justified
  <2>14. circuit' \in {"Closed", "Open", "HalfOpen"} /\ (circuit' # "Closed" => Justified')
    BY <2>1, <2>11, <2>13, <1>t
  <2>15. ExtTypeOK'
    BY <2>1, <2>4, <2>5, <2>9, <2>14, <1>t DEF ExtTypeOK, Places
  <2>16. 1 \in Nat /\ 1 = IF DueIn(extPc[t]) THEN 1 ELSE 0
    BY <2>6
  <2>17. 0 \in Nat /\ 0 = IF OwingIn(pc) THEN 1 ELSE 0
    BY <2>4
  <2> QED BY <2>4, <2>5, <2>7, <2>8, <2>10, <2>11, <2>14, <2>15, <2>16, <2>17, ThreadMoves
<1>7. ASSUME NEW t \in AuthThreads, recordSuccess(t) PROVE ExtInv'
  <2>1. /\ extPc[t].step = "good" /\ UNCHANGED served
        /\ circuit' = IF extPc[t].seen = "HalfOpen" THEN "Closed" ELSE circuit
        /\ circuitFails' \in Nat /\ circuitFails' <= circuitFails
    BY <1>7, <1>t DEF recordSuccess
  <2>2. PICK pc : pc = [extPc[t] EXCEPT !.step = "store"]
    OBVIOUS
  <2>3. extPc' = [extPc EXCEPT ![t] = pc]
    BY <1>7, <2>2 DEF recordSuccess, Move
  <2>4. pc \in Places /\ pc.step = "store" /\ pc.seen = extPc[t].seen
    BY <2>2, <1>j DEF Places
  <2>5. ~DueIn(pc) /\ ~OwingIn(pc) /\ ~DueIn(extPc[t]) /\ ~OwingIn(extPc[t])
    BY <2>1, <2>4 DEF DueIn, OwingIn
  <2>6. Justified' = Justified
    BY <2>1 DEF Justified
  <2>7. circuit' \in {"Closed", "Open", "HalfOpen"} /\ (circuit' # "Closed" => Justified')
    BY <2>1, <2>6, <1>t
  <2>8. ExtTypeOK'
    BY <2>1, <2>3, <2>4, <2>7, <1>t DEF ExtTypeOK, Places
  <2>9. /\ circuitFails' + 0 + 0 + (2 * served.failed + served.denied)
             <= circuitFails + 0 + 0 + (2 * served'.failed + served'.denied)
        /\ 2 * served.failed + served.denied <= 2 * served'.failed + served'.denied
    BY <2>1, <1>t
  <2>10. 0 \in Nat /\ 0 = IF DueIn(extPc[t]) THEN 1 ELSE 0
    BY <2>5
  <2>11. 0 = IF OwingIn(extPc[t]) THEN 1 ELSE 0
    BY <2>5
  <2>12. 0 = IF DueIn(pc) THEN 1 ELSE 0
    BY <2>5
  <2>13. 0 = IF OwingIn(pc) THEN 1 ELSE 0
    BY <2>5
  <2>14. pc.seen \in {"Open", "HalfOpen"} \/ pc.step = "open" => Justified'
    BY <2>4, <2>6, <1>j
  <2> QED BY <2>3, <2>7, <2>8, <2>9, <2>10, <2>11, <2>12, <2>13, <2>14, ThreadMoves
<1>8. ASSUME NEW t \in AuthThreads, storeInCache(t) PROVE ExtInv'
  BY <1>8, <1>r DEF storeInCache
<1>9. CASE clearCache \/ extTime \/ \E f \in {"Allow", "Deny"} : updateConfig(f)
  BY <1>9, NoThreadMoves DEF clearCache, extTime, updateConfig
<1>10. CASE UNCHANGED extVars
  BY <1>10, NoThreadMoves DEF extVars
<1> QED BY <1>1, <1>2, <1>3, <1>4, <1>5, <1>6, <1>7, <1>8, <1>9, <1>10 DEF ExtNext, ExtGoOn
-----------------------------------------------------------------------------
(* The thread pools                                                         *)

WorkerSteps == {"ready", "blocking", "waiting", "running", "exited"}
SubmitSteps == {"idle", "found", "tested", "pushed"}

WorkTypeOK ==
  /\ wpQueue \in Seq(WorkItems)
  /\ wpShutdown \in BOOLEAN /\ wpRaced \in BOOLEAN
  /\ wpWorker \in [PoolWorkers -> WorkerSteps]
  /\ wpItem \in [PoolWorkers -> WorkItems \union {0}]
  /\ wpSubmit \in [Submitters -> [step : SubmitSteps, item : WorkItems \union {0}]]
  /\ wpAccepted \subseteq WorkItems
  /\ wpRuns \in [WorkItems -> Nat]

InQueue == 1 .. Len(wpQueue)
Works(w) == wpWorker[w] = "running"

\* Submitter s holds an item it has not queued yet.
Holding(s) == wpSubmit[s].step \in {"found", "tested"}

(***************************************************************************)
(* An item is held by one submitter, queued at one place, with one worker  *)
(* or run, and in one of these states only.                                *)
(***************************************************************************)
ItemsApart ==
  /\ \A s \in Submitters : Holding(s) =>
       /\ wpSubmit[s].item \in WorkItems \ wpAccepted
       /\ \A u \in Submitters : Holding(u) /\ wpSubmit[u].item = wpSubmit[s].item => u = s
  /\ \A i \in InQueue :
       /\ wpQueue[i] \in wpAccepted /\ wpRuns[wpQueue[i]] = 0
       /\ \A j \in InQueue : wpQueue[j] = wpQueue[i] => j = i
       /\ \A w \in PoolWorkers : Works(w) => wpItem[w] # wpQueue[i]
  /\ \A w \in PoolWorkers : Works(w) =>
       /\ wpItem[w] \in wpAccepted /\ wpRuns[wpItem[w]] = 0
       /\ \A v \in PoolWorkers : Works(v) /\ wpItem[v] = wpItem[w] => v = w
  /\ \A i \in WorkItems : wpRuns[i] <= 1 /\ (wpRuns[i] = 1 => i \in wpAccepted)

\* An item that was accepted is somewhere.
ItemsKept ==
  \A i \in wpAccepted : \/ wpRuns[i] = 1
                        \/ \E j \in InQueue : wpQueue[j] = i
                        \/ \E w \in PoolWorkers : Works(w) /\ wpItem[w] = i

\* Shutdown is set once destroyThreadPool has begun to wait; from then on
\* nothing is queued without a race, so what was empty stays empty.
PoolEmptied ==
  /\ wpShutdown <=> wpDestroy \notin {"none", "taken"}
  /\ ~wpRaced /\ (\E w \in PoolWorkers : wpWorker[w] = "exited") => wpShutdown /\ wpQueue = <<>>
  /\ ~wpRaced /\ wpDestroy = "done" => Drained

WorkInv == WorkTypeOK /\ ItemsApart /\ ItemsKept /\ PoolEmptied

(***************************************************************************)
(* Steps that move no item: at most a submitter gets one nobody has.       *)
(***************************************************************************)
LEMMA NoItemMoves ==
  ASSUME WorkInv, UNCHANGED <<wpQueue, wpAccepted, wpRuns>>,
         \A w \in PoolWorkers : /\ Works(w)' <=> Works(w)
                                /\ Works(w) => wpItem'[w] = wpItem[w],
         \A s \in Submitters : Holding(s)' =>
           \/ Holding(s) /\ wpSubmit'[s].item = wpSubmit[s].item
           \/ /\ wpSubmit'[s].item \in WorkItems \ wpAccepted
              /\ \A u \in Submitters : wpSubmit'[u].item = wpSubmit'[s].item => u = s
  PROVE  ItemsApart' /\ ItemsKept'
<1>1. ItemsApart /\ ItemsKept
  BY DEF WorkInv
<1>2. ASSUME NEW s \in Submitters, Holding(s)'
      PROVE  /\ wpSubmit'[s].item \in WorkItems \ wpAccepted'
             /\ \A u \in Submitters : Holding(u)' /\ wpSubmit'[u].item = wpSubmit'[s].item => u = s
  BY <1>1, <1>2 DEF ItemsApart
<1>3. ASSUME NEW i \in InQueue'
      PROVE  /\ wpQueue'[i] \in wpAccepted' /\ wpRuns'[wpQueue'[i]] = 0
             /\ \A j \in InQueue' : wpQueue'[j] = wpQueue'[i] => j = i
             /\ \A w \in PoolWorkers : Works(w)' => wpItem'[w] # wpQueue'[i]
  BY <1>1, <1>3 DEF ItemsApart, InQueue
<1>4. ASSUME NEW w \in PoolWorkers, Works(w)'
      PROVE  /\ wpItem'[w] \in wpAccepted' /\ wpRuns'[wpItem'[w]] = 0
             /\ \A v \in PoolWorkers : Works(v)' /\ wpItem'[v] = wpItem'[w] => v = w
  BY <1>1, <1>4 DEF ItemsApart
<1>5. \A i \in WorkItems : wpRuns'[i] <= 1 /\ (wpRuns'[i] = 1 => i \in wpAccepted')
  BY <1>1 DEF ItemsApart
<1>6. ItemsKept'
  BY <1>1 DEF ItemsKept, InQueue
<1> QED BY <1>2, <1>3, <1>4, <1>5, <1>6 DEF ItemsApart

(***************************************************************************)
(* A worker takes the first item of the queue.                             *)
(***************************************************************************)
LEMMA ItemTaken ==
  ASSUME WorkInv, NEW w \in PoolWorkers, ~Works(w), wpQueue # <<>>, wpQueue' = Tail(wpQueue),
         wpWorker' = [wpWorker EXCEPT ![w] = "running"],
         wpItem' = [wpItem EXCEPT ![w] = Head(wpQueue)],
         UNCHANGED <<wpSubmit, wpAccepted, wpRuns>>
  PROVE  ItemsApart' /\ ItemsKept' /\ wpQueue' \in Seq(WorkItems) /\ wpItem'[w] \in WorkItems
<1>1. ItemsApart /\ ItemsKept /\ WorkTypeOK
  BY DEF WorkInv
<1>n. PICK n \in Nat : n = Len(wpQueue)
  BY <1>1 DEF WorkTypeOK
<1>2. /\ wpQueue' \in Seq(WorkItems) /\ n >= 1 /\ Len(wpQueue') = n - 1
      /\ Head(wpQueue) = wpQueue[1] /\ wpQueue[1] \in WorkItems
      /\ \A i \in 1 .. (n - 1) : wpQueue'[i] = wpQueue[i + 1]
  <2>1. wpQueue \in Seq(WorkItems)
    BY <1>1 DEF WorkTypeOK
  <2> QED BY ONLY <2>1, <1>n, wpQueue # <<>>, wpQueue' = Tail(wpQueue)
<1>3. /\ InQueue = 1 .. n /\ InQueue' = 1 .. (n - 1) /\ 1 \in InQueue
      /\ \A i \in InQueue' : i + 1 \in InQueue /\ i + 1 # 1
      /\ \A i, j \in InQueue' : i + 1 = j + 1 => i = j
      /\ \A i \in InQueue : i # 1 => i - 1 \in InQueue' /\ wpQueue'[i - 1] = wpQueue[i]
  BY <1>n, <1>2 DEF InQueue
<1>4. PICK x : x = wpQueue[1]
  OBVIOUS
<1>5. /\ Works(w)' /\ wpItem'[w] = x
      /\ \A v \in PoolWorkers : v # w => /\ Works(v)' <=> Works(v)
                                         /\ wpItem'[v] = wpItem[v]
  BY <1>1, <1>2, <1>4 DEF WorkTypeOK, Works
<1>6. /\ x \in wpAccepted /\ wpRuns[x] = 0 /\ x \in WorkItems
      /\ \A i \in InQueue : wpQueue[i] = x => i = 1
      /\ \A v \in PoolWorkers : Works(v) => wpItem[v] # x
  BY <1>1, <1>2, <1>3, <1>4 DEF ItemsApart
<1>d. /\ \A i, j \in InQueue : wpQueue[i] = wpQueue[j] => i = j
      /\ \A i \in InQueue : wpQueue[i] \in wpAccepted /\ wpRuns[wpQueue[i]] = 0
      /\ \A i \in InQueue : \A v \in PoolWorkers : Works(v) => wpItem[v] # wpQueue[i]
  BY <1>1 DEF ItemsApart
<1>7. ASSUME NEW i \in InQueue'
      PROVE  /\ wpQueue'[i] \in wpAccepted' /\ wpRuns'[wpQueue'[i]] = 0
             /\ \A j \in InQueue' : wpQueue'[j] = wpQueue'[i] => j = i
             /\ \A v \in PoolWorkers : Works(v)' => wpItem'[v] # wpQueue'[i]
  <2>1. PICK k \in InQueue : k = i + 1 /\ k # 1 /\ wpQueue'[i] = wpQueue[k]
    BY <1>2, <1>3
  <2>2. ASSUME NEW j \in InQueue', wpQueue'[j] = wpQueue'[i] PROVE j = i
    <3>1. PICK m \in InQueue : m = j + 1 /\ wpQueue'[j] = wpQueue[m]
      BY <1>2, <1>3
    <3>2. m = k
      BY <3>1, <2>1, <2>2, <1>d
    <3> QED BY <3>1, <3>2, <2>1, <1>3
  <2>3. wpQueue[k] # x
    BY <2>1, <1>6
  <2>4. ASSUME NEW v \in PoolWorkers, Works(v)' PROVE wpItem'[v] # wpQueue'[i]
    <3>1. CASE v = w
      BY <3>1, <2>1, <2>3, <1>5
    <3>2. CASE v # w
      BY <3>2, <2>1, <2>4, <1>5, <1>d
    <3> QED BY <3>1, <3>2
  <2> QED BY <2>1, <2>2, <2>4, <1>d
<1>8. ASSUME NEW v \in PoolWorkers, Works(v)'
      PROVE  /\ wpItem'[v] \in wpAccepted' /\ wpRuns'[wpItem'[v]] = 0
             /\ \A u \in PoolWorkers : Works(u)' /\ wpItem'[u] = wpItem'[v] => u = v
  BY <1>8, <1>1, <1>5, <1>6 DEF ItemsApart
<1>9. ItemsKept'
  <2> SUFFICES ASSUME NEW i \in wpAccepted
               PROVE  \/ wpRuns[i] = 1
                      \/ \E j \in InQueue' : wpQueue'[j] = i
                      \/ \E v \in PoolWorkers : Works(v)' /\ wpItem'[v] = i
    BY DEF ItemsKept
  <2>1. CASE \E j \in InQueue : wpQueue[j] = i
    <3>1. PICK j \in InQueue : wpQueue[j] = i
      BY <2>1
    <3>2. CASE j = 1
      BY <3>1, <3>2, <1>4, <1>5
    <3>3. CASE j # 1
      BY <3>1, <3>3, <1>3
    <3> QED BY <3>2, <3>3
  <2>2. CASE \E v \in PoolWorkers : Works(v) /\ wpItem[v] = i
    BY <2>2, <1>5
  <2> QED BY <2>1, <2>2, <1>1 DEF ItemsKept
<1>10. \A s \in Submitters : Holding(s)' <=> Holding(s)
  BY DEF Holding
<1> QED BY <1>1, <1>2, <1>4, <1>5, <1>6, <1>7, <1>8, <1>9, <1>10 DEF ItemsApart

(***************************************************************************)
(* A submitter's item is queued behind the others.                         *)
(***************************************************************************)
LEMMA ItemQueued ==
  ASSUME WorkInv, NEW s \in Submitters, Holding(s), NEW step \in {"pushed", "idle"}, NEW y,
         wpQueue' = Append(wpQueue, wpSubmit[s].item),
         wpAccepted' = wpAccepted \union {wpSubmit[s].item},
         wpSubmit' = [wpSubmit EXCEPT ![s] = [step |-> step, item |-> y]],
         UNCHANGED <<wpWorker, wpItem, wpRuns>>
  PROVE  ItemsApart' /\ ItemsKept' /\ wpQueue' \in Seq(WorkItems) /\ wpAccepted' \subseteq WorkItems
<1>1. ItemsApart /\ ItemsKept /\ WorkTypeOK
  BY DEF WorkInv
<1>2. PICK x \in WorkItems : /\ x = wpSubmit[s].item /\ x \notin wpAccepted
                             /\ \A u \in Submitters : Holding(u) /\ wpSubmit[u].item = x => u = s
  BY <1>1 DEF ItemsApart
<1>n. PICK n \in Nat : n = Len(wpQueue)
  BY <1>1 DEF WorkTypeOK
<1>3. /\ wpQueue' \in Seq(WorkItems) /\ Len(wpQueue') = n + 1 /\ wpQueue'[n + 1] = x
      /\ \A i \in 1 .. n : wpQueue'[i] = wpQueue[i]
  <2>1. wpQueue \in Seq(WorkItems) /\ wpQueue' = Append(wpQueue, x)
    BY <1>1, <1>2 DEF WorkTypeOK
  <2> QED BY ONLY <2>1, <1>n, x \in WorkItems
<1>4. /\ InQueue = 1 .. n /\ InQueue' = 1 .. (n + 1)
      /\ \A i \in InQueue' : i \in InQueue \/ i = n + 1
      /\ \A i \in InQueue : i \in InQueue' /\ i # n + 1
      /\ n + 1 \in InQueue'
  BY <1>n, <1>3 DEF InQueue
<1>5. /\ ~Holding(s)' /\ \A u \in Submitters : u # s => wpSubmit'[u] = wpSubmit[u]
  BY <1>1 DEF WorkTypeOK, Holding
<1>6. \A v \in PoolWorkers : Works(v)' <=> Works(v)
  BY DEF Works
<1>7. wpRuns[x] = 0 /\ (\A i \in InQueue : wpQueue[i] # x) /\ \A v \in PoolWorkers : Works(v) => wpItem[v] # x
  <2>1. wpRuns[x] \in Nat /\ wpRuns[x] <= 1 /\ wpRuns[x] # 1
    BY <1>1, <1>2 DEF ItemsApart, WorkTypeOK
  <2> QED BY <2>1, <1>1, <1>2 DEF ItemsApart
<1>8. ASSUME NEW u \in Submitters, Holding(u)'
      PROVE  /\ wpSubmit'[u].item \in WorkItems \ wpAccepted'
             /\ \A v \in Submitters : Holding(v)' /\ wpSubmit'[v].item = wpSubmit'[u].item => v = u
  <2>1. \A v \in Submitters : Holding(v)' => v # s /\ wpSubmit'[v] = wpSubmit[v] /\ Holding(v)
    BY <1>5 DEF Holding
  <2> QED BY <2>1, <1>8, <1>1, <1>2 DEF ItemsApart
<1>9. ASSUME NEW i \in InQueue'
      PROVE  /\ wpQueue'[i] \in wpAccepted' /\ wpRuns'[wpQueue'[i]] = 0
             /\ \A j \in InQueue' : wpQueue'[j] = wpQueue'[i] => j = i
             /\ \A v \in PoolWorkers : Works(v)' => wpItem'[v] # wpQueue'[i]
  <2>1. CASE i = n + 1
    BY <2>1, <1>2, <1>3, <1>4, <1>6, <1>7
  <2>2. CASE i \in InQueue
    <3>1. wpQueue'[i] = wpQueue[i] /\ wpQueue[i] # x
      BY <2>2, <1>3, <1>4, <1>7
    <3>2. \A j \in InQueue' : wpQueue'[j] = wpQueue[i] => j \in InQueue /\ wpQueue[j] = wpQueue[i]
      BY <3>1, <1>3, <1>4
    <3>3. /\ wpQueue[i] \in wpAccepted /\ wpRuns[wpQueue[i]] = 0
          /\ \A j \in InQueue : wpQueue[j] = wpQueue[i] => j = i
          /\ \A v \in PoolWorkers : Works(v) => wpItem[v] # wpQueue[i]
      BY <2>2, <1>1 DEF ItemsApart
    <3> QED BY <3>1, <3>2, <3>3, <1>6
  <2> QED BY <2>1, <2>2, <1>4
<1>10. \A v \in PoolWorkers : Works(v)' =>
         /\ wpItem'[v] \in wpAccepted' /\ wpRuns'[wpItem'[v]] = 0
         /\ \A u \in PoolWorkers : Works(u)' /\ wpItem'[u] = wpItem'[v] => u = v
  BY <1>1, <1>6 DEF ItemsApart
<1>11. ItemsKept'
  <2> SUFFICES ASSUME NEW i \in wpAccepted'
               PROVE  \/ wpRuns'[i] = 1
                      \/ \E j \in InQueue' : wpQueue'[j] = i
                      \/ \E v \in PoolWorkers : Works(v)' /\ wpItem'[v] = i
    BY DEF ItemsKept
  <2>1. CASE i = x
    BY <2>1, <1>3, <1>4
  <2>2. CASE i \in wpAccepted
    <3>1. CASE \E j \in InQueue : wpQueue[j] = i
      BY <3>1, <1>3, <1>4
    <3> QED BY <2>2, <3>1, <1>1, <1>6 DEF ItemsKept
  <2> QED BY <2>1, <2>2, <1>2
<1>12. \A i \in WorkItems : wpRuns'[i] <= 1 /\ (wpRuns'[i] = 1 => i \in wpAccepted')
  BY <1>1 DEF ItemsApart
<1>13. wpAccepted' \subseteq WorkItems
  BY <1>1, <1>2 DEF WorkTypeOK
<1> QED BY <1>3, <1>8, <1>9, <1>10, <1>11, <1>12, <1>13 DEF ItemsApart

(***************************************************************************)
(* A worker has run its item.                                              *)
(***************************************************************************)
LEMMA ItemRun ==
  ASSUME WorkInv, NEW w \in PoolWorkers, runWork(w)
  PROVE  ItemsApart' /\ ItemsKept' /\ wpRuns' \in [WorkItems -> Nat]
<1>1. ItemsApart /\ ItemsKept /\ WorkTypeOK
  BY DEF WorkInv
<1>u. /\ Works(w) /\ wpWorker' = [wpWorker EXCEPT ![w] = "ready"]
      /\ wpItem' = [wpItem EXCEPT ![w] = 0]
      /\ wpRuns' = [wpRuns EXCEPT ![wpItem[w]] = @ + 1]
      /\ UNCHANGED <<wpQueue, wpSubmit, wpAccepted>>
  BY DEF runWork, Workers, Works
<1>2. PICK x \in WorkItems : /\ x = wpItem[w] /\ x \in wpAccepted /\ wpRuns[x] = 0
                             /\ \A v \in PoolWorkers : Works(v) /\ wpItem[v] = x => v = w
                             /\ \A i \in InQueue : wpQueue[i] # x
  BY <1>1, <1>u DEF ItemsApart, WorkTypeOK
<1>3. /\ ~Works(w)'
      /\ \A v \in PoolWorkers : v # w => /\ Works(v)' <=> Works(v)
                                         /\ wpItem'[v] = wpItem[v]
  BY <1>1, <1>u DEF WorkTypeOK, Works
<1>4. /\ wpRuns' \in [WorkItems -> Nat] /\ wpRuns'[x] = 1
      /\ \A i \in WorkItems : i # x => wpRuns'[i] = wpRuns[i]
  <2>1. wpRuns \in [WorkItems -> Nat] /\ wpRuns[x] + 1 = 1
    BY <1>1, <1>2 DEF WorkTypeOK
  <2> QED BY <2>1, <1>u, <1>2
<1>5. InQueue' = InQueue /\ \A s \in Submitters : Holding(s)' <=> Holding(s)
  BY <1>u DEF InQueue, Holding
<1>6. ASSUME NEW i \in InQueue
      PROVE  /\ wpQueue[i] \in wpAccepted' /\ wpRuns'[wpQueue[i]] = 0
             /\ \A j \in InQueue : wpQueue[j] = wpQueue[i] => j = i
             /\ \A v \in PoolWorkers : Works(v)' => wpItem'[v] # wpQueue[i]
  <2>1. wpQueue[i] \in WorkItems /\ wpQueue[i] # x
    BY <1>1, <1>2 DEF ItemsApart, WorkTypeOK
  <2> QED BY <2>1, <1>1, <1>u, <1>3, <1>4 DEF ItemsApart
<1>7. ASSUME NEW v \in PoolWorkers, Works(v)'
      PROVE  /\ wpItem'[v] \in wpAccepted' /\ wpRuns'[wpItem'[v]] = 0
             /\ \A u \in PoolWorkers : Works(u)' /\ wpItem'[u] = wpItem'[v] => u = v
  <2>1. v # w /\ Works(v) /\ wpItem'[v] = wpItem[v] /\ wpItem[v] # x /\ wpItem[v] \in wpAccepted
    BY <1>7, <1>1, <1>2, <1>3 DEF ItemsApart
  <2>2. wpItem[v] \in WorkItems
    BY <2>1, <1>1 DEF WorkTypeOK
  <2> QED BY <2>1, <2>2, <1>1, <1>u, <1>3, <1>4 DEF ItemsApart
<1>8. ItemsKept'
  <2> SUFFICES ASSUME NEW i \in wpAccepted
               PROVE  \/ wpRuns'[i] = 1
                      \/ \E j \in InQueue : wpQueue[j] = i
                      \/ \E v \in PoolWorkers : Works(v)' /\ wpItem'[v] = i
    BY <1>u, <1>5 DEF ItemsKept
  <2>1. i \in WorkItems
    BY <1>1 DEF WorkTypeOK
  <2>2. CASE \E v \in PoolWorkers : Works(v) /\ wpItem[v] = i
    BY <2>2, <1>2, <1>3, <1>4
  <2> QED BY <2>1, <2>2, <1>1, <1>4 DEF ItemsKept
<1>9. \A i \in WorkItems : wpRuns'[i] <= 1 /\ (wpRuns'[i] = 1 => i \in wpAccepted')
  BY <1>1, <1>u, <1>2, <1>4 DEF ItemsApart
<1> QED BY <1>1, <1>4, <1>5, <1>6, <1>7, <1>8, <1>9, <1>u DEF ItemsApart

(***************************************************************************)
(* Every step of a worker, a submitter or destroyThreadPool keeps WorkInv. *)
(***************************************************************************)
LEMMA WorkStep == WorkInv /\ [WorkNext]_workVars => WorkInv'
<1> SUFFICES ASSUME WorkInv, [WorkNext]_workVars PROVE WorkInv'
  OBVIOUS
<1>t. WorkTypeOK /\ PoolEmptied
  BY DEF WorkInv
<1>p. PICK p \in PoolWorkers : TRUE
  BY WorkAssumption
<1>a. ASSUME NEW w \in PoolWorkers, NEW step \in WorkerSteps \ {"running"}, ~Works(w), Workers(w, step, 0)
      PROVE  /\ wpWorker' \in [PoolWorkers -> WorkerSteps]
             /\ wpItem' \in [PoolWorkers -> WorkItems \union {0}]
             /\ \A v \in PoolWorkers : Works(v)' <=> Works(v)
             /\ \A v \in PoolWorkers : Works(v) => wpItem'[v] = wpItem[v]
             /\ \A s \in Submitters : Holding(s)' => Holding(s) /\ wpSubmit'[s].item = wpSubmit[s].item
  BY <1>a, <1>t DEF Workers, WorkTypeOK, Works, Holding
<1>1. ASSUME NEW w \in PoolWorkers, leave(w) PROVE WorkInv'
  <2>1. /\ Workers(w, "exited", 0) /\ ~Works(w) /\ UNCHANGED <<wpQueue, wpRuns>>
        /\ wpShutdown /\ wpQueue = <<>>
        /\ UNCHANGED <<wpPlatform, wpShutdown, wpListed, wpFreed, wpSubmit, wpDestroy, wpAccepted, wpRaced>>
    BY <1>1 DEF leave, Works, Workers
  <2>2. ItemsApart' /\ ItemsKept'
    BY <2>1, <1>a, NoItemMoves DEF WorkerSteps
  <2>3. WorkTypeOK'
    BY <2>1, <1>a, <1>t DEF WorkTypeOK, WorkerSteps
  <2>4. PoolEmptied'
    BY <2>1, <1>a, <1>t DEF PoolEmptied, Drained, Works, WorkerSteps
  <2> QED BY <2>2, <2>3, <2>4 DEF WorkInv
<1>2. ASSUME NEW w \in PoolWorkers, checkPredicate(w) \/ block(w) PROVE WorkInv'
  <2>1. PICK step \in {"blocking", "waiting"} :
          /\ Workers(w, step, 0) /\ ~Works(w) /\ UNCHANGED <<wpQueue, wpRuns>>
          /\ wpWorker' = [wpWorker EXCEPT ![w] = step]
          /\ UNCHANGED <<wpPlatform, wpShutdown, wpListed, wpFreed, wpSubmit, wpDestroy, wpAccepted, wpRaced>>
    BY <1>2 DEF checkPredicate, block, Works, Workers
  <2>2. ItemsApart' /\ ItemsKept'
    BY <2>1, <1>a, NoItemMoves DEF WorkerSteps
  <2>3. WorkTypeOK'
    BY <2>1, <1>a, <1>t DEF WorkTypeOK, WorkerSteps
  <2>4. \A v \in PoolWorkers : wpWorker'[v] = "exited" => wpWorker[v] = "exited"
    BY <2>1, <1>t DEF WorkTypeOK
  <2>5. PoolEmptied'
    BY <2>1, <2>4, <1>a, <1>t DEF PoolEmptied, Drained, Works, WorkerSteps
  <2> QED BY <2>2, <2>3, <2>5 DEF WorkInv
<1>3. ASSUME NEW w \in PoolWorkers, takeWork(w) \/ systemRuns(w) PROVE WorkInv'
  <2>1. /\ ~Works(w) /\ wpQueue # <<>> /\ wpQueue' = Tail(wpQueue)
        /\ wpWorker' = [wpWorker EXCEPT ![w] = "running"]
        /\ wpItem' = [wpItem EXCEPT ![w] = Head(wpQueue)]
        /\ UNCHANGED <<wpPlatform, wpShutdown, wpListed, wpFreed, wpSubmit, wpDestroy, wpAccepted, wpRaced, wpRuns>>
    BY <1>3 DEF takeWork, systemRuns, Works, Workers
  <2>2. ItemsApart' /\ ItemsKept' /\ wpQueue' \in Seq(WorkItems) /\ wpItem'[w] \in WorkItems
    BY <2>1, ItemTaken
  <2>3. /\ wpWorker' \in [PoolWorkers -> WorkerSteps]
        /\ wpItem' \in [PoolWorkers -> WorkItems \union {0}]
    <3>1. Head(wpQueue) \in WorkItems
      BY <2>1, <2>2, <1>t DEF WorkTypeOK
    <3> QED BY <2>1, <3>1, <1>t DEF WorkTypeOK, WorkerSteps
  <2>4. WorkTypeOK'
    BY <2>1, <2>2, <2>3, <1>t DEF WorkTypeOK
  <2>5. \A v \in PoolWorkers : wpWorker'[v] = "exited" => wpWorker[v] = "exited"
    BY <2>1, <1>t DEF WorkTypeOK
  <2>6. PoolEmptied'
    BY <2>1, <2>5, <1>t DEF PoolEmptied, Drained
  <2> QED BY <2>2, <2>4, <2>6 DEF WorkInv
<1>4. ASSUME NEW w \in PoolWorkers, runWork(w) PROVE WorkInv'
  <2>1. /\ wpWorker' = [wpWorker EXCEPT ![w] = "ready"]
        /\ wpItem' = [wpItem EXCEPT ![w] = 0]
        /\ UNCHANGED <<wpPlatform, wpQueue, wpShutdown, wpListed, wpFreed, wpSubmit, wpDestroy, wpAccepted, wpRaced>>
    BY <1>4 DEF runWork, Workers
  <2>2. ItemsApart' /\ ItemsKept' /\ wpRuns' \in [WorkItems -> Nat]
    BY <1>4, ItemRun
  <2>3. WorkTypeOK'
    BY <2>1, <2>2, <1>t DEF WorkTypeOK, WorkerSteps
  <2>4. \A v \in PoolWorkers : /\ wpWorker'[v] = "exited" => wpWorker[v] = "exited"
                               /\ wpWorker'[v] = "running" => wpWorker[v] = "running"
    BY <2>1, <1>t DEF WorkTypeOK
  <2>5. PoolEmptied'
    BY <2>1, <2>4, <1>t DEF PoolEmptied, Drained
  <2> QED BY <2>2, <2>3, <2>5 DEF WorkInv
<1>5. ASSUME NEW s \in Submitters, findPool(s) \/ testShutdown(s) PROVE WorkInv'
  <2>0. UNCHANGED <<wpQueue, wpShutdown, wpWorker, wpItem, wpDestroy, wpAccepted, wpRuns>>
    BY <1>5 DEF findPool, testShutdown, Submitting
  <2>1. CASE findPool(s)
    <3>1. PICK i \in WorkItems :
            /\ i \notin wpAccepted /\ \A u \in Submitters : wpSubmit[u].item # i
            /\ wpSubmit' = [wpSubmit EXCEPT ![s] = [step |-> "found", item |-> i]]
            /\ wpRaced' = wpRaced
      BY <2>1 DEF findPool, Submitting
    <3>2. /\ wpSubmit' \in [Submitters -> [step : SubmitSteps, item : WorkItems \union {0}]]
          /\ wpSubmit'[s].item = i /\ \A u \in Submitters : u # s => wpSubmit'[u] = wpSubmit[u]
      BY <3>1, <1>t DEF WorkTypeOK, SubmitSteps
    <3>3. \A u \in Submitters : Holding(u)' =>
             \/ Holding(u) /\ wpSubmit'[u].item = wpSubmit[u].item
             \/ /\ wpSubmit'[u].item \in WorkItems \ wpAccepted
                /\ \A v \in Submitters : wpSubmit'[v].item = wpSubmit'[u].item => v = u
      BY <3>1, <3>2 DEF Holding
    <3>4. ItemsApart' /\ ItemsKept'
      BY <2>0, <3>3, NoItemMoves DEF Works
    <3>5. WorkTypeOK' /\ PoolEmptied'
      BY <2>0, <3>1, <3>2, <1>t DEF WorkTypeOK, PoolEmptied, Drained
    <3> QED BY <3>4, <3>5 DEF WorkInv
  <2>2. CASE testShutdown(s)
    <3>1. PICK new \in {[step |-> "idle", item |-> 0], [step |-> "tested", item |-> wpSubmit[s].item]} :
            wpSubmit' = [wpSubmit EXCEPT ![s] = new]
      BY <2>2 DEF testShutdown, Submitting
    <3>2. Holding(s) /\ wpRaced' \in BOOLEAN /\ (~wpRaced' => ~wpRaced)
      <4>1. wpRaced' = (wpRaced \/ wpFreed)
        BY <2>2 DEF testShutdown
      <4>2. Holding(s)
        BY <2>2 DEF testShutdown, Holding
      <4> QED BY <4>1, <4>2
    <3>3. wpSubmit[s].item \in WorkItems
      BY <3>2 DEF WorkInv, ItemsApart
    <3>4. /\ wpSubmit' \in [Submitters -> [step : SubmitSteps, item : WorkItems \union {0}]]
          /\ wpSubmit'[s] = new /\ \A u \in Submitters : u # s => wpSubmit'[u] = wpSubmit[u]
      BY <3>1, <3>3, <1>t DEF WorkTypeOK, SubmitSteps
    <3>5. \A u \in Submitters : Holding(u)' => Holding(u) /\ wpSubmit'[u].item = wpSubmit[u].item
      BY <3>1, <3>2, <3>4 DEF Holding
    <3>6. ItemsApart' /\ ItemsKept'
      BY <2>0, <3>5, NoItemMoves DEF Works
    <3>7. WorkTypeOK' /\ PoolEmptied'
      BY <2>0, <3>2, <3>4, <1>t DEF WorkTypeOK, PoolEmptied, Drained
    <3> QED BY <3>6, <3>7 DEF WorkInv
  <2> QED BY <1>5, <2>1, <2>2
<1>6. ASSUME NEW s \in Submitters, notifyWorker(s) PROVE WorkInv'
  <2>1. /\ UNCHANGED <<wpQueue, wpShutdown, wpItem, wpDestroy, wpAccepted, wpRuns, wpRaced>>
        /\ wpSubmit' = [wpSubmit EXCEPT ![s] = [step |-> "idle", item |-> 0]]
    BY <1>6 DEF notifyWorker, Submitting
  <2>2. /\ wpSubmit' \in [Submitters -> [step : SubmitSteps, item : WorkItems \union {0}]]
        /\ \A u \in Submitters : Holding(u)' => Holding(u) /\ wpSubmit'[u].item = wpSubmit[u].item
    BY <2>1, <1>t DEF WorkTypeOK, SubmitSteps, Holding
  <2>3. /\ wpWorker' \in [PoolWorkers -> WorkerSteps]
        /\ \A v \in PoolWorkers : wpWorker'[v] = wpWorker[v] \/ (wpWorker[v] = "waiting" /\ wpWorker'[v] = "ready")
    BY <1>6, <1>t DEF notifyWorker, WorkTypeOK, WorkerSteps
  <2>4. \A v \in PoolWorkers : Works(v)' <=> Works(v)
    BY <2>3 DEF Works
  <2>5. ItemsApart' /\ ItemsKept'
    BY <2>1, <2>2, <2>4, NoItemMoves
  <2>6. WorkTypeOK'
    BY <2>1, <2>2, <2>3, <1>t DEF WorkTypeOK
  <2>7. PoolEmptied'
    BY <2>1, <2>3, <1>t DEF PoolEmptied, Drained
  <2> QED BY <2>5, <2>6, <2>7 DEF WorkInv
<1>7. ASSUME NEW s \in Submitters, pushWork(s) \/ dispatchWork(s) \/ submitThreadpoolWork(s)
      PROVE  WorkInv'
  <2>1. /\ Holding(s) /\ UNCHANGED <<wpShutdown, wpWorker, wpItem, wpDestroy, wpRuns>>
        /\ wpQueue' = Append(wpQueue, wpSubmit[s].item)
        /\ wpAccepted' = wpAccepted \union {wpSubmit[s].item}
    BY <1>7 DEF pushWork, dispatchWork, submitThreadpoolWork, Submitting, Holding
  <2>r. wpRaced' = (wpRaced \/ wpShutdown)
    BY <1>7 DEF pushWork, dispatchWork, submitThreadpoolWork
  <2>2. PICK step \in {"pushed", "idle"}, y \in {wpSubmit[s].item, 0} :
          wpSubmit' = [wpSubmit EXCEPT ![s] = [step |-> step, item |-> y]]
    BY <1>7 DEF pushWork, dispatchWork, submitThreadpoolWork, Submitting
  <2>3. ItemsApart' /\ ItemsKept' /\ wpQueue' \in Seq(WorkItems) /\ wpAccepted' \subseteq WorkItems
    BY <2>1, <2>2, ItemQueued
  <2>4. wpSubmit' \in [Submitters -> [step : SubmitSteps, item : WorkItems \union {0}]]
    <3>1. y \in WorkItems \union {0} /\ step \in SubmitSteps
      BY <2>2, <1>t DEF WorkTypeOK, SubmitSteps
    <3> QED BY <2>2, <3>1, <1>t DEF WorkTypeOK
  <2>5. wpRaced' \in BOOLEAN /\ (~wpRaced' => ~wpRaced /\ ~wpShutdown)
    BY <2>r
  <2>6. WorkTypeOK'
    BY <2>1, <2>3, <2>4, <2>5, <1>t DEF WorkTypeOK
  <2>7. PoolEmptied'
    BY <2>1, <2>5, <1>t DEF PoolEmptied, Drained
  <2> QED BY <2>3, <2>6, <2>7 DEF WorkInv
<1>d. ASSUME UNCHANGED <<wpQueue, wpItem, wpSubmit, wpAccepted, wpRuns>>,
             \A v \in PoolWorkers : Works(v)' <=> Works(v)
      PROVE  ItemsApart' /\ ItemsKept'
  BY <1>d, NoItemMoves DEF Holding
<1>8. CASE destroyThreadPool \/ flagShutdown \/ joinWorkers \/ drainDispatchQueue \/ closeCleanupGroup
  <2>1. UNCHANGED <<wpQueue, wpItem, wpSubmit, wpAccepted, wpRuns, wpRaced, wpWorker>>
    BY <1>8 DEF destroyThreadPool, flagShutdown, joinWorkers, drainDispatchQueue, closeCleanupGroup, Destroying
  <2>2. ItemsApart' /\ ItemsKept'
    BY <2>1, <1>d DEF Works
  <2>3. wpShutdown' \in BOOLEAN
    BY <1>8, <1>t DEF WorkTypeOK, destroyThreadPool, flagShutdown, joinWorkers, drainDispatchQueue, closeCleanupGroup
  <2>4. WorkTypeOK'
    BY <2>1, <2>3, <1>t DEF WorkTypeOK
  <2>5. PoolEmptied'
    <3>1. CASE destroyThreadPool
      <4>1. wpDestroy = "none" /\ wpShutdown' = (wpPlatform # "linux")
            /\ wpDestroy' = IF wpPlatform = "linux" THEN "taken" ELSE "draining"
        BY <3>1 DEF destroyThreadPool, Destroying
      <4>2. ~wpShutdown /\ (wpShutdown' <=> wpDestroy' \notin {"none", "taken"}) /\ wpDestroy' # "done"
        BY <4>1, <1>t DEF PoolEmptied
      <4>3. ~wpRaced => ~(\E w \in PoolWorkers : wpWorker[w] = "exited")
        BY <4>2, <1>t DEF PoolEmptied
      <4> QED BY <2>1, <4>2, <4>3 DEF PoolEmptied
    <3>2. CASE flagShutdown
      <4>1. wpDestroy' = "flagged" /\ wpShutdown'
        BY <3>2 DEF flagShutdown, Destroying
      <4> QED BY <2>1, <4>1, <1>t DEF PoolEmptied
    <3>3. CASE joinWorkers
      <4>1. /\ wpDestroy = "joining" /\ wpDestroy' = "done" /\ wpShutdown' = wpShutdown
            /\ \A w \in PoolWorkers : wpWorker[w] = "exited"
        BY <3>3 DEF joinWorkers, Destroying
      <4>2. ~wpRaced => wpQueue = <<>> /\ Drained'
        BY <4>1, <2>1, <1>p, <1>t DEF PoolEmptied, Drained
      <4> QED BY <2>1, <4>1, <4>2, <1>t DEF PoolEmptied
    <3>4. CASE drainDispatchQueue \/ closeCleanupGroup
      <4>1. /\ wpDestroy = "draining" /\ wpDestroy' = "done" /\ wpShutdown' = wpShutdown
            /\ Drained /\ Drained'
        BY <3>4, <2>1 DEF drainDispatchQueue, closeCleanupGroup, Destroying, Drained
      <4> QED BY <2>1, <4>1, <1>t DEF PoolEmptied
    <3> QED BY <1>8, <3>1, <3>2, <3>3, <3>4
  <2> QED BY <2>2, <2>4, <2>5 DEF WorkInv
<1>9. CASE notifyAllWorkers
  <2>1. /\ UNCHANGED <<wpQueue, wpItem, wpSubmit, wpAccepted, wpRuns, wpRaced, wpShutdown>>
        /\ wpDestroy = "flagged" /\ wpDestroy' = "joining"
    BY <1>9 DEF notifyAllWorkers, Destroying
  <2>2. /\ wpWorker' \in [PoolWorkers -> WorkerSteps]
        /\ \A v \in PoolWorkers : wpWorker'[v] = wpWorker[v] \/ (wpWorker[v] = "waiting" /\ wpWorker'[v] = "ready")
    BY <1>9, <1>t DEF notifyAllWorkers, WorkTypeOK, WorkerSteps
  <2>3. ItemsApart' /\ ItemsKept'
    BY <2>1, <2>2, <1>d DEF Works
  <2>4. WorkTypeOK'
    BY <2>1, <2>2, <1>t DEF WorkTypeOK
  <2>5. PoolEmptied'
    BY <2>1, <2>2, <1>t DEF PoolEmptied
  <2> QED BY <2>3, <2>4, <2>5 DEF WorkInv
<1>10. CASE UNCHANGED workVars
  <2>1. UNCHANGED <<wpQueue, wpItem, wpSubmit, wpAccepted, wpRuns, wpRaced, wpShutdown, wpWorker, wpDestroy>>
    BY <1>10 DEF workVars
  <2>2. ItemsApart' /\ ItemsKept'
    BY <2>1, <1>d DEF Works
  <2>3. WorkTypeOK' /\ PoolEmptied'
    BY <2>1, <1>t DEF WorkTypeOK, PoolEmptied, Drained
  <2> QED BY <2>2, <2>3 DEF WorkInv
<1> QED BY <1>1, <1>2, <1>3, <1>4, <1>5, <1>6, <1>7, <1>8, <1>9, <1>10 DEF WorkNext
-----------------------------------------------------------------------------
(* The threads                                                              *)

ThreadCalls == {"none", "join", "joined", "detach", "detached"}

ThreadsTypeOK ==
  /\ thrPlatform \in {"linux", "darwin", "windows"}
  /\ DOMAIN thrTable \subseteq ThreadHandleSet
  /\ thrTable \in [DOMAIN thrTable -> [joined : BOOLEAN, detached : BOOLEAN]]
  /\ thrRunning \subseteq ThreadHandleSet
  /\ thrReaped \in [ThreadHandleSet -> Nat]
  /\ thrPc \in [Joiners -> [call : ThreadCalls, handle : ThreadHandleSet \union {0}]]
  /\ thrJoined \subseteq ThreadHandleSet

InTable(h) == h \in DOMAIN thrTable
ForHandle(j, h) == thrPc[j].call # "none" /\ thrPc[j].handle = h

\* The handles given out so far are 1 .. n: an entry leaves the table only
\* after its thread was released.
HandlesGiven ==
  /\ \E n \in 0 .. MaxThreads : \A h \in ThreadHandleSet :
       (InTable(h) \/ thrReaped[h] > 0) <=> h <= n
  /\ \A h \in thrRunning : InTable(h) \/ thrReaped[h] > 0
  /\ \A j \in Joiners : thrPc[j].call # "none" =>
       /\ thrPc[j].handle \in ThreadHandleSet
       /\ InTable(thrPc[j].handle) \/ thrReaped[thrPc[j].handle] > 0
       /\ thrPlatform # "linux" => InTable(thrPc[j].handle)
  /\ \A j \in Joiners : thrPc[j].call \in {"joined", "detached"} => thrReaped[thrPc[j].handle] > 0
  /\ \A j \in Joiners : thrPc[j].call = "joined" => thrPc[j].handle \notin thrRunning
  /\ \A h \in thrJoined : h \notin thrRunning /\ thrReaped[h] > 0

(***************************************************************************)
(* What the marks and the call in progress say of the releases so far, if  *)
(* no calls for h overlapped.  A join is marked before the system call on  *)
(* Linux and after it elsewhere, a detach after it on Darwin only.         *)
(***************************************************************************)
Releases(h) ==
  /\ \A i, j \in Joiners : ForHandle(i, h) /\ ForHandle(j, h) => i = j
  /\ \A j \in Joiners : ForHandle(j, h) => InTable(h)
  /\ \A j \in Joiners : ForHandle(j, h) /\ thrPc[j].call \in {"join", "joined"} =>
       ~thrTable[h].detached /\ (thrTable[h].joined <=> thrPlatform = "linux")
  /\ \A j \in Joiners : ForHandle(j, h) /\ thrPc[j].call \in {"detach", "detached"} =>
       /\ thrTable[h].detached <=> thrPlatform # "darwin"
       /\ thrTable[h].joined => thrPlatform = "darwin"
  /\ \A j \in Joiners : ForHandle(j, h) /\ thrPc[j].call \in {"join", "detach"} =>
       thrReaped[h] = 0 \/ (thrTable[h].joined /\ thrReaped[h] = 1 /\ thrPlatform = "darwin")
  /\ InTable(h) /\ ~thrTable[h].joined /\ ~thrTable[h].detached =>
       thrReaped[h] = 0 \/ \E j \in Joiners : ForHandle(j, h)
  /\ InTable(h) /\ thrTable[h].joined =>
       thrPlatform # "linux" \/ \E j \in Joiners : ForHandle(j, h)
  /\ InTable(h) /\ thrTable[h].joined /\ ~thrTable[h].detached =>
       \/ thrReaped[h] <= 1 \/ \E j \in Joiners : ForHandle(j, h) /\ thrPc[j].call = "detached"
  /\ \/ thrReaped[h] <= 1
     \/ thrPlatform = "darwin" /\ thrReaped[h] = 2 /\ InTable(h) /\ thrTable[h].joined

ThreadsInv == ThreadsTypeOK /\ HandlesGiven /\ \A h \in ThreadHandleSet \ thrMisused : Releases(h)

(***************************************************************************)
(* createThread gives out the first handle that was never given out.       *)
(***************************************************************************)
LEMMA FreshHandle ==
  ASSUME ThreadsInv, NextHandle <= MaxThreads
  PROVE  /\ NextHandle \in ThreadHandleSet
         /\ ~InTable(NextHandle) /\ thrReaped[NextHandle] = 0 /\ NextHandle \notin thrRunning
         /\ NextHandle \notin thrJoined
         /\ \A j \in Joiners : ~ForHandle(j, NextHandle)
         /\ \A h \in ThreadHandleSet : InTable(h) \/ thrReaped[h] > 0 <=> h < NextHandle
<1>1. PICK n \in 0 .. MaxThreads : \A h \in ThreadHandleSet : (InTable(h) \/ thrReaped[h] > 0) <=> h <= n
  BY DEF ThreadsInv, HandlesGiven
<1>2. {h \in ThreadHandleSet : h \in thrRunning \/ thrReaped[h] > 0 \/ h \in DOMAIN thrTable} = 1 .. n
  <2>1. \A h \in ThreadHandleSet : h \in thrRunning => InTable(h) \/ thrReaped[h] > 0
    BY DEF ThreadsInv, HandlesGiven
  <2>2. \A h : h \in 1 .. n <=> h \in ThreadHandleSet /\ h <= n
    BY ThreadsAssumption DEF ThreadHandleSet
  <2> QED BY <1>1, <2>1, <2>2 DEF InTable
<1>3. NextHandle = n + 1
  <2>1. Cardinality(1 .. n) = n
    BY FS_Interval
  <2> QED BY <2>1, <1>2 DEF NextHandle
<1>4. /\ NextHandle \in ThreadHandleSet /\ ~(NextHandle <= n)
      /\ \A h \in ThreadHandleSet : h <= n <=> h < NextHandle
  BY <1>3, ThreadsAssumption DEF ThreadHandleSet
<1>5. ~InTable(NextHandle) /\ ~(thrReaped[NextHandle] > 0)
  BY <1>1, <1>4
<1>6. thrReaped[NextHandle] = 0
  BY <1>4, <1>5 DEF ThreadsInv, ThreadsTypeOK
<1>7. /\ NextHandle \notin thrRunning /\ NextHandle \notin thrJoined
      /\ \A j \in Joiners : ~ForHandle(j, NextHandle)
  BY <1>5 DEF ThreadsInv, HandlesGiven, ForHandle
<1> QED BY <1>1, <1>4, <1>5, <1>6, <1>7

(***************************************************************************)
(* What concerns other handles does not change what is said of g.          *)
(***************************************************************************)
LEMMA OtherHandle ==
  ASSUME NEW g, Releases(g), thrPlatform' = thrPlatform, thrReaped'[g] = thrReaped[g],
         InTable(g)' <=> InTable(g), InTable(g) => thrTable'[g] = thrTable[g],
         \A j \in Joiners : ForHandle(j, g)' <=> ForHandle(j, g),
         \A j \in Joiners : ForHandle(j, g) => thrPc'[j].call = thrPc[j].call
  PROVE  Releases(g)'
<1>1. \A i, j \in Joiners : ForHandle(i, g)' /\ ForHandle(j, g)' => i = j
  BY DEF Releases
<1>2. \A j \in Joiners : ForHandle(j, g)' => InTable(g)'
  BY DEF Releases
<1>3. /\ \A j \in Joiners : ForHandle(j, g)' /\ thrPc'[j].call \in {"join", "joined"} =>
           ~thrTable'[g].detached /\ (thrTable'[g].joined <=> thrPlatform' = "linux")
      /\ \A j \in Joiners : ForHandle(j, g)' /\ thrPc'[j].call \in {"detach", "detached"} =>
           /\ thrTable'[g].detached <=> thrPlatform' # "darwin"
           /\ thrTable'[g].joined => thrPlatform' = "darwin"
      /\ \A j \in Joiners : ForHandle(j, g)' /\ thrPc'[j].call \in {"join", "detach"} =>
           thrReaped'[g] = 0 \/ (thrTable'[g].joined /\ thrReaped'[g] = 1 /\ thrPlatform' = "darwin")
  BY DEF Releases
<1>4. /\ InTable(g)' /\ ~thrTable'[g].joined /\ ~thrTable'[g].detached =>
           thrReaped'[g] = 0 \/ \E j \in Joiners : ForHandle(j, g)'
      /\ InTable(g)' /\ thrTable'[g].joined =>
           thrPlatform' # "linux" \/ \E j \in Joiners : ForHandle(j, g)'
      /\ InTable(g)' /\ thrTable'[g].joined /\ ~thrTable'[g].detached =>
           \/ thrReaped'[g] <= 1 \/ \E j \in Joiners : ForHandle(j, g)' /\ thrPc'[j].call = "detached"
      /\ \/ thrReaped'[g] <= 1
         \/ thrPlatform' = "darwin" /\ thrReaped'[g] = 2 /\ InTable(g)' /\ thrTable'[g].joined
  BY DEF Releases
<1> QED BY <1>1, <1>2, <1>3, <1>4 DEF Releases

(***************************************************************************)
(* A thread is created.                                                    *)
(***************************************************************************)
LEMMA ThreadStarted ==
  ASSUME ThreadsInv, NEW d \in BOOLEAN, Started(d)
  PROVE  ThreadsInv'
<1>t. ThreadsTypeOK /\ HandlesGiven
  BY DEF ThreadsInv
<1>1. PICK k \in ThreadHandleSet :
        /\ k = NextHandle
        /\ ~InTable(k) /\ thrReaped[k] = 0 /\ k \notin thrRunning /\ k \notin thrJoined
        /\ \A j \in Joiners : ~ForHandle(j, k)
        /\ \A h \in ThreadHandleSet : InTable(h) \/ thrReaped[h] > 0 <=> h < k
  BY FreshHandle DEF Started
<1>2. /\ thrTable' = [h \in DOMAIN thrTable \union {k} |->
           IF h = k THEN [joined |-> FALSE, detached |-> d] ELSE thrTable[h]]
      /\ thrRunning' = thrRunning \union {k}
      /\ thrReaped' = [thrReaped EXCEPT ![k] = IF d THEN 1 ELSE 0]
      /\ UNCHANGED <<thrPlatform, thrPc, thrJoined, thrMisused>>
  BY <1>1 DEF Started
<1>3. /\ DOMAIN thrTable' = DOMAIN thrTable \union {k}
      /\ \A h \in DOMAIN thrTable : thrTable'[h] = thrTable[h]
      /\ thrTable'[k] = [joined |-> FALSE, detached |-> d]
  BY <1>1, <1>2 DEF InTable
<1>4. /\ thrReaped' \in [ThreadHandleSet -> Nat]
      /\ thrReaped'[k] = (IF d THEN 1 ELSE 0)
      /\ \A h \in ThreadHandleSet : h # k => thrReaped'[h] = thrReaped[h]
  BY <1>2, <1>t DEF ThreadsTypeOK
<1>5. thrTable' \in [DOMAIN thrTable' -> [joined : BOOLEAN, detached : BOOLEAN]]
  <2>1. \A h \in DOMAIN thrTable : thrTable[h] \in [joined : BOOLEAN, detached : BOOLEAN]
    BY <1>t DEF ThreadsTypeOK
  <2>2. [joined |-> FALSE, detached |-> d] \in [joined : BOOLEAN, detached : BOOLEAN]
    OBVIOUS
  <2> QED BY <2>1, <2>2, <1>2
<1>6. ThreadsTypeOK'
  BY <1>1, <1>2, <1>3, <1>4, <1>5, <1>t DEF ThreadsTypeOK
<1>7. \A h \in ThreadHandleSet : /\ InTable(h)' <=> InTable(h) \/ h = k
                                 /\ (InTable(h) \/ thrReaped[h] > 0) => (InTable(h)' \/ thrReaped'[h] > 0)
                                 /\ thrReaped[h] > 0 => thrReaped'[h] > 0
  BY <1>1, <1>3, <1>4 DEF InTable
<1>8. HandlesGiven'
  <2>1. \A h \in ThreadHandleSet : (InTable(h)' \/ thrReaped'[h] > 0) <=> h <= k
    <3>1. ASSUME NEW h \in ThreadHandleSet PROVE (InTable(h)' \/ thrReaped'[h] > 0) <=> h <= k
      <4>1. CASE h = k
        BY <4>1, <1>7 DEF ThreadHandleSet
      <4>2. CASE h # k
        <5>1. h < k <=> h <= k
          BY <4>2 DEF ThreadHandleSet
        <5> QED BY <5>1, <4>2, <1>1, <1>4, <1>7
      <4> QED BY <4>1, <4>2
    <3> QED BY <3>1
  <2>2. k \in 0 .. MaxThreads
    BY ThreadsAssumption DEF ThreadHandleSet
  <2>3. \A h \in thrRunning' : InTable(h)' \/ thrReaped'[h] > 0
    BY <1>2, <1>7, <1>t DEF HandlesGiven, ThreadsTypeOK
  <2>4. \A j \in Joiners : thrPc'[j].call # "none" =>
          /\ thrPc'[j].handle \in ThreadHandleSet /\ thrPc'[j].handle # k
          /\ InTable(thrPc[j].handle)' \/ thrReaped'[thrPc[j].handle] > 0
          /\ thrPlatform' # "linux" => InTable(thrPc[j].handle)'
    BY <1>1, <1>2, <1>7, <1>t DEF HandlesGiven, ForHandle
  <2>5. \A j \in Joiners : thrPc'[j].call \in {"joined", "detached"} => thrReaped'[thrPc'[j].handle] > 0
    BY <2>4, <1>2, <1>7, <1>t DEF HandlesGiven
  <2>6. \A j \in Joiners : thrPc'[j].call = "joined" => thrPc'[j].handle \notin thrRunning'
    BY <2>4, <1>2, <1>t DEF HandlesGiven
  <2>7. \A h \in thrJoined' : h \notin thrRunning' /\ thrReaped'[h] > 0
    BY <1>1, <1>2, <1>7, <1>t DEF HandlesGiven, ThreadsTypeOK
  <2> QED BY <2>1, <2>2, <2>3, <2>4, <2>5, <2>6, <2>7, <1>2 DEF HandlesGiven, InTable
<1>9. ASSUME NEW h \in ThreadHandleSet \ thrMisused PROVE Releases(h)'
  <2>1. CASE h # k
    <3>1. Releases(h) /\ (InTable(h)' <=> InTable(h)) /\ (InTable(h) => thrTable'[h] = thrTable[h])
      BY <2>1, <1>3, <1>9 DEF InTable, ThreadsInv
    <3>2. \A j \in Joiners : ForHandle(j, h)' <=> ForHandle(j, h)
      BY <1>2 DEF ForHandle
    <3> QED BY <3>1, <3>2, <2>1, <1>2, <1>4, OtherHandle
  <2>2. CASE h = k
    <3>1. \A j \in Joiners : ~ForHandle(j, k)'
      BY <1>1, <1>2 DEF ForHandle
    <3>2. ~thrTable'[k].joined /\ (thrTable'[k].detached <=> d) /\ thrReaped'[k] <= 1
          /\ (~d => thrReaped'[k] = 0)
      BY <1>3, <1>4
    <3> QED BY <3>1, <3>2, <2>2 DEF Releases
  <2> QED BY <2>1, <2>2
<1> QED BY <1>2, <1>6, <1>8, <1>9 DEF ThreadsInv

(***************************************************************************)
(* A call for h begins while no other call for h is in progress: the state *)
(* after it says of the releases what it has to, given the marks that the  *)
(* platform sets before the system call.                                   *)
(***************************************************************************)
LEMMA CallIsAlone ==
  ASSUME ThreadsTypeOK, NEW j \in Joiners, NEW h \in ThreadHandleSet, NEW c \in {"join", "detach"},
         Releases(h), InTable(h), InTable(h)', ~thrTable[h].detached,
         \A i \in Joiners : ~ForHandle(i, h),
         thrPc' = [thrPc EXCEPT ![j] = [call |-> c, handle |-> h]],
         UNCHANGED <<thrPlatform, thrReaped>>,
         c = "join" => ~thrTable[h].joined /\ ~thrTable'[h].detached
                       /\ (thrTable'[h].joined <=> thrPlatform = "linux"),
         c = "detach" => /\ thrTable'[h].detached <=> thrPlatform # "darwin"
                         /\ thrTable'[h].joined <=> thrTable[h].joined
                         /\ thrTable[h].joined => thrPlatform = "darwin"
  PROVE  Releases(h)'
<1>1. /\ thrPc'[j].call = c /\ thrPc'[j].handle = h
      /\ \A i \in Joiners : i # j => thrPc'[i] = thrPc[i]
  BY DEF ThreadsTypeOK
<1>2. \A i \in Joiners : ForHandle(i, h)' <=> i = j
  BY <1>1 DEF ForHandle
<1>3. thrReaped'[h] \in Nat /\ thrReaped'[h] <= 1 /\ (~thrTable[h].joined => thrReaped'[h] = 0)
  <2>1. thrReaped[h] \in Nat
    BY DEF ThreadsTypeOK
  <2>2. ~thrTable[h].joined => thrReaped[h] = 0
    BY DEF Releases
  <2>3. thrTable[h].joined => thrReaped[h] <= 1
    BY DEF Releases
  <2> QED BY <2>1, <2>2, <2>3
<1>4. /\ \A i, k \in Joiners : ForHandle(i, h)' /\ ForHandle(k, h)' => i = k
      /\ \A i \in Joiners : ForHandle(i, h)' => InTable(h)'
  BY <1>2
<1>5. \A i \in Joiners : ForHandle(i, h)' /\ thrPc'[i].call \in {"join", "joined"} =>
        ~thrTable'[h].detached /\ (thrTable'[h].joined <=> thrPlatform' = "linux")
  BY <1>1, <1>2
<1>6. \A i \in Joiners : ForHandle(i, h)' /\ thrPc'[i].call \in {"detach", "detached"} =>
        /\ thrTable'[h].detached <=> thrPlatform' # "darwin"
        /\ thrTable'[h].joined => thrPlatform' = "darwin"
  BY <1>1, <1>2
<1>7. \A i \in Joiners : ForHandle(i, h)' /\ thrPc'[i].call \in {"join", "detach"} =>
        thrReaped'[h] = 0 \/ (thrTable'[h].joined /\ thrReaped'[h] = 1 /\ thrPlatform' = "darwin")
  <2>1. CASE c = "join"
    BY <2>1, <1>3
  <2>2. CASE c = "detach"
    BY <2>2, <1>3
  <2> QED BY <2>1, <2>2
<1>8. \E i \in Joiners : ForHandle(i, h)'
  BY <1>2
<1> QED BY <1>3, <1>4, <1>5, <1>6, <1>7, <1>8 DEF Releases

(***************************************************************************)
(* What the beginning of a call leaves alone.                              *)
(***************************************************************************)
LEMMA CallBegins ==
  ASSUME ThreadsInv, NEW j \in Joiners, NEW h \in ThreadHandleSet, NEW c \in {"join", "detach"},
         thrPc[j] = NotCalling, InTable(h),
         thrPc' = [thrPc EXCEPT ![j] = [call |-> c, handle |-> h]],
         thrMisused \subseteq thrMisused',
         UNCHANGED <<thrPlatform, thrRunning, thrReaped, thrJoined>>,
         DOMAIN thrTable' = DOMAIN thrTable,
         thrTable' \in [DOMAIN thrTable -> [joined : BOOLEAN, detached : BOOLEAN]],
         \A g \in DOMAIN thrTable : g # h => thrTable'[g] = thrTable[g],
         h \notin thrMisused' => Releases(h)'
  PROVE  ThreadsInv'
<1>t. ThreadsTypeOK /\ HandlesGiven
  BY DEF ThreadsInv
<1>1. /\ thrPc'[j].call = c /\ thrPc'[j].handle = h /\ thrPc[j].call = "none"
      /\ \A i \in Joiners : i # j => thrPc'[i] = thrPc[i]
  BY <1>t DEF ThreadsTypeOK, NotCalling
<1>2. thrPc' \in [Joiners -> [call : ThreadCalls, handle : ThreadHandleSet \union {0}]]
  <2>1. [call |-> c, handle |-> h] \in [call : ThreadCalls, handle : ThreadHandleSet \union {0}]
    BY DEF ThreadCalls
  <2> QED BY <2>1, <1>t DEF ThreadsTypeOK
<1>3. ThreadsTypeOK'
  BY <1>2, <1>t DEF ThreadsTypeOK
<1>4. \A g : InTable(g)' <=> InTable(g)
  BY DEF InTable
<1>5. HandlesGiven'
  <2>1. \E n \in 0 .. MaxThreads : \A g \in ThreadHandleSet : (InTable(g)' \/ thrReaped'[g] > 0) <=> g <= n
    BY <1>4, <1>t DEF HandlesGiven
  <2>2. \A g \in thrRunning' : InTable(g)' \/ thrReaped'[g] > 0
    BY <1>4, <1>t DEF HandlesGiven
  <2>3. \A i \in Joiners : thrPc'[i].call # "none" =>
          /\ thrPc'[i].handle \in ThreadHandleSet
          /\ InTable(thrPc'[i].handle) \/ thrReaped[thrPc'[i].handle] > 0
          /\ thrPlatform # "linux" => InTable(thrPc'[i].handle)
    BY <1>1, <1>t DEF HandlesGiven
  <2>4. \A i \in Joiners : thrPc'[i].call \in {"joined", "detached"} => thrReaped'[thrPc'[i].handle] > 0
    BY <1>1, <1>t DEF HandlesGiven
  <2>5. \A i \in Joiners : thrPc'[i].call = "joined" => thrPc'[i].handle \notin thrRunning'
    BY <1>1, <1>t DEF HandlesGiven
  <2>6. \A g \in thrJoined' : g \notin thrRunning' /\ thrReaped'[g] > 0
    BY <1>t DEF HandlesGiven
  <2> QED BY <2>1, <2>2, <2>3, <2>4, <2>5, <2>6, <1>4 DEF HandlesGiven, InTable
<1>6. ASSUME NEW g \in ThreadHandleSet \ thrMisused' PROVE Releases(g)'
  <2>1. CASE g = h
    BY <2>1
  <2>2. CASE g # h
    <3>1. Releases(g) /\ (InTable(g) => thrTable'[g] = thrTable[g])
      BY <2>2, <1>6 DEF InTable, ThreadsInv
    <3>2. /\ \A i \in Joiners : ForHandle(i, g)' <=> ForHandle(i, g)
          /\ \A i \in Joiners : ForHandle(i, g) => thrPc'[i].call = thrPc[i].call
      BY <1>1, <2>2 DEF ForHandle
    <3> QED BY <3>1, <3>2, <1>4, OtherHandle
  <2> QED BY <2>1, <2>2
<1> QED BY <1>3, <1>5, <1>6 DEF ThreadsInv

(***************************************************************************)
(* joinThread and detachThread, up to the system call.  The marks and the  *)
(* calls that count as misuse leave no other call for h in progress.       *)
(***************************************************************************)
LEMMA BeginKeeps ==
  ASSUME ThreadsInv, NEW j \in Joiners, NEW h \in ThreadHandleSet,
         \/ joinThreadLinux(j, h) \/ joinThreadDarwin(j, h) \/ joinThreadWindows(j, h)
         \/ detachThreadLinux(j, h) \/ detachThreadDarwin(j, h) \/ detachThreadWindows(j, h)
  PROVE  ThreadsInv'
<1>t. ThreadsTypeOK /\ HandlesGiven
  BY DEF ThreadsInv
<1>0. InTable(h) /\ ~thrTable[h].detached /\ thrPc[j] = NotCalling
  BY DEF joinThreadLinux, joinThreadDarwin, joinThreadWindows,
         detachThreadLinux, detachThreadDarwin, detachThreadWindows, InTable
<1>1. PICK c \in {"join", "detach"}, un \in SUBSET ThreadCalls : Enter(j, c, h, un)
            /\ (c = "join" => ~thrTable[h].joined)
            /\ (c = "join" /\ thrPlatform = "linux" => thrTable' = [thrTable EXCEPT ![h].joined = TRUE])
            /\ (c = "join" /\ thrPlatform # "linux" => thrTable' = thrTable)
            /\ (c = "detach" /\ thrPlatform = "darwin" => thrTable' = thrTable)
            /\ (c = "detach" /\ thrPlatform # "darwin" => thrTable' = [thrTable EXCEPT ![h].detached = TRUE])
            /\ (c = "detach" /\ thrPlatform = "windows" => ~thrTable[h].joined)
            /\ (thrPlatform = "darwin" => {"join", "joined", "detach", "detached"} \subseteq un)
            /\ (thrPlatform = "windows" \/ c = "detach" => {"join", "joined"} \subseteq un)
  <2>1. CASE joinThreadLinux(j, h)
    BY <2>1 DEF joinThreadLinux, ThreadCalls
  <2>2. CASE joinThreadDarwin(j, h)
    BY <2>2 DEF joinThreadDarwin, ThreadCalls
  <2>3. CASE joinThreadWindows(j, h)
    BY <2>3 DEF joinThreadWindows, ThreadCalls
  <2>4. CASE detachThreadLinux(j, h)
    BY <2>4 DEF detachThreadLinux, ThreadCalls
  <2>5. CASE detachThreadDarwin(j, h)
    BY <2>5 DEF detachThreadDarwin, ThreadCalls
  <2>6. CASE detachThreadWindows(j, h)
    BY <2>6 DEF detachThreadWindows, ThreadCalls
  <2> QED BY <2>1, <2>2, <2>3, <2>4, <2>5, <2>6
<1>2. /\ thrPc' = [thrPc EXCEPT ![j] = [call |-> c, handle |-> h]]
      /\ thrMisused \subseteq thrMisused'
      /\ (h \notin thrMisused' => \A u \in un : ~InCall(u, h))
      /\ UNCHANGED <<thrPlatform, thrRunning, thrReaped, thrJoined>>
  BY <1>1 DEF Enter
<1>3. /\ DOMAIN thrTable' = DOMAIN thrTable
      /\ thrTable' \in [DOMAIN thrTable -> [joined : BOOLEAN, detached : BOOLEAN]]
      /\ \A g \in DOMAIN thrTable : g # h => thrTable'[g] = thrTable[g]
      /\ c = "join" => ~thrTable'[h].detached /\ (thrTable'[h].joined <=> thrPlatform = "linux")
      /\ c = "detach" => (thrTable'[h].detached <=> thrPlatform # "darwin")
                         /\ (thrTable'[h].joined <=> thrTable[h].joined)
  <2>1. thrTable \in [DOMAIN thrTable -> [joined : BOOLEAN, detached : BOOLEAN]] /\ h \in DOMAIN thrTable
    BY <1>t, <1>0 DEF ThreadsTypeOK, InTable
  <2>2. CASE thrTable' = thrTable
    BY <2>1, <2>2, <1>0, <1>1
  <2>3. CASE c = "join" /\ thrPlatform = "linux"
    BY <2>1, <2>3, <1>0, <1>1
  <2>4. CASE c = "detach" /\ thrPlatform # "darwin"
    BY <2>1, <2>4, <1>0, <1>1
  <2> QED BY <2>2, <2>3, <2>4, <1>1
<1>4. ASSUME h \notin thrMisused' PROVE Releases(h)'
  <2>1. Releases(h)
    BY <1>2, <1>4 DEF ThreadsInv
  <2>2. ASSUME NEW i \in Joiners, ForHandle(i, h) PROVE FALSE
    <3>1. thrPc[i].call \in {"join", "joined", "detach", "detached"} /\ InCall(thrPc[i].call, h)
      <4>1. PICK cc \in ThreadCalls, hh \in ThreadHandleSet \union {0} : thrPc[i] = [call |-> cc, handle |-> hh]
        BY <1>t DEF ThreadsTypeOK
      <4>2. cc # "none" /\ hh = h /\ thrPc[i].call = cc
        BY <4>1, <2>2 DEF ForHandle
      <4> QED BY <4>1, <4>2 DEF InCall, ThreadCalls
    <3>2. thrPc[i].call \notin un
      BY <3>1, <1>2, <1>4
    <3>3. thrPlatform \in {"linux", "darwin", "windows"}
      BY <1>t DEF ThreadsTypeOK
    <3>4. thrPc[i].call \in {"join", "joined"} => (thrTable[h].joined <=> thrPlatform = "linux")
      BY <2>1, <2>2 DEF Releases
    <3>5. thrPc[i].call \in {"detach", "detached"} => (thrTable[h].detached <=> thrPlatform # "darwin")
      BY <2>1, <2>2 DEF Releases
    <3> QED BY <3>1, <3>2, <3>3, <3>4, <3>5, <1>0, <1>1
  <2>3. c = "detach" /\ thrTable[h].joined => thrPlatform = "darwin"
    BY <2>1, <2>2, <1>0, <1>1, <1>t DEF Releases, ThreadsTypeOK
  <2>4. InTable(h)'
    BY <1>0, <1>3 DEF InTable
  <2> QED BY <1>t, <1>0, <1>1, <1>2, <1>3, <2>1, <2>2, <2>3, <2>4, CallIsAlone
<1> QED BY <1>0, <1>2, <1>3, <1>4, CallBegins

(***************************************************************************)
(* The thread behind h ends.                                               *)
(***************************************************************************)
LEMMA EndKeeps ==
  ASSUME ThreadsInv, NEW h \in ThreadHandleSet, threadEnds(h)
  PROVE  ThreadsInv'
<1>1. /\ thrRunning' = thrRunning \ {h}
      /\ UNCHANGED <<thrPlatform, thrTable, thrReaped, thrPc, thrJoined, thrMisused>>
  BY DEF threadEnds
<1>2. ThreadsTypeOK'
  BY <1>1 DEF ThreadsInv, ThreadsTypeOK
<1>3. HandlesGiven'
  BY <1>1 DEF ThreadsInv, HandlesGiven, InTable
<1>4. \A g \in ThreadHandleSet \ thrMisused' : Releases(g)'
  <2>1. ASSUME NEW g \in ThreadHandleSet \ thrMisused' PROVE Releases(g)'
    <3>1. Releases(g)
      BY <1>1, <2>1 DEF ThreadsInv
    <3> QED BY <3>1, <1>1, OtherHandle DEF InTable, ForHandle
  <2> QED BY <2>1
<1> QED BY <1>2, <1>3, <1>4 DEF ThreadsInv

(***************************************************************************)
(* The system call of a join or a detach returns: the thread is released.  *)
(***************************************************************************)
LEMMA ReapKeeps ==
  ASSUME ThreadsInv, NEW j \in Joiners, reapJoined(j) \/ reapDetached(j)
  PROVE  ThreadsInv'
<1>t. ThreadsTypeOK /\ HandlesGiven
  BY DEF ThreadsInv
<1>1. PICK h \in ThreadHandleSet, c \in {"join", "detach"}, e \in {"joined", "detached"} :
        /\ thrPc[j].handle = h /\ thrPc[j].call = c
        /\ c = "join" <=> e = "joined"
        /\ c = "join" => h \notin thrRunning
        /\ thrReaped' = [thrReaped EXCEPT ![h] = @ + 1]
        /\ thrPc' = [thrPc EXCEPT ![j].call = e]
        /\ UNCHANGED <<thrPlatform, thrTable, thrRunning, thrJoined, thrMisused>>
  <2>1. CASE reapJoined(j)
    BY <2>1, <1>t DEF reapJoined, HandlesGiven
  <2>2. CASE reapDetached(j)
    BY <2>2, <1>t DEF reapDetached, HandlesGiven
  <2> QED BY <2>1, <2>2
<1>2. /\ thrPc' \in [Joiners -> [call : ThreadCalls, handle : ThreadHandleSet \union {0}]]
      /\ thrPc'[j].call = e /\ thrPc'[j].handle = h
      /\ \A i \in Joiners : i # j => thrPc'[i] = thrPc[i]
  BY <1>1, <1>t DEF ThreadsTypeOK, ThreadCalls
<1>3. /\ thrReaped' \in [ThreadHandleSet -> Nat]
      /\ thrReaped'[h] = thrReaped[h] + 1
      /\ \A g \in ThreadHandleSet : g # h => thrReaped'[g] = thrReaped[g]
      /\ \A g \in ThreadHandleSet : thrReaped[g] > 0 => thrReaped'[g] > 0
      /\ thrReaped'[h] > 0
  BY <1>1, <1>t DEF ThreadsTypeOK
<1>4. ThreadsTypeOK'
  BY <1>1, <1>2, <1>3, <1>t DEF ThreadsTypeOK
<1>5. \A g : InTable(g)' <=> InTable(g)
  BY <1>1 DEF InTable
<1>6. \A g \in ThreadHandleSet : (InTable(g)' \/ thrReaped'[g] > 0) <=> (InTable(g) \/ thrReaped[g] > 0)
  BY <1>1, <1>3, <1>5, <1>t DEF HandlesGiven
<1>7. HandlesGiven'
  <2>1. \E n \in 0 .. MaxThreads : \A g \in ThreadHandleSet : (InTable(g)' \/ thrReaped'[g] > 0) <=> g <= n
    BY <1>6, <1>t DEF HandlesGiven
  <2>2. \A g \in thrRunning' : InTable(g)' \/ thrReaped'[g] > 0
    BY <1>1, <1>6, <1>t DEF HandlesGiven, ThreadsTypeOK
  <2>3. \A i \in Joiners : thrPc'[i].call # "none" =>
          /\ thrPc'[i].handle \in ThreadHandleSet
          /\ InTable(thrPc'[i].handle) \/ thrReaped'[thrPc'[i].handle] > 0
          /\ thrPlatform # "linux" => InTable(thrPc'[i].handle)
    <3>1. ASSUME NEW i \in Joiners, thrPc'[i].call # "none"
          PROVE /\ thrPc'[i].handle \in ThreadHandleSet
                /\ InTable(thrPc'[i].handle) \/ thrReaped'[thrPc'[i].handle] > 0
                /\ thrPlatform # "linux" => InTable(thrPc'[i].handle)
      <4>1. CASE i = j
        BY <4>1, <1>1, <1>2, <1>3, <1>t DEF HandlesGiven
      <4>2. CASE i # j
        BY <3>1, <4>2, <1>2, <1>3, <1>t DEF HandlesGiven
      <4> QED BY <4>1, <4>2
    <3> QED BY <3>1
  <2>4. \A i \in Joiners : thrPc'[i].call \in {"joined", "detached"} => thrReaped'[thrPc'[i].handle] > 0
    BY <1>2, <1>3, <1>t DEF HandlesGiven
  <2>5. \A i \in Joiners : thrPc'[i].call = "joined" => thrPc'[i].handle \notin thrRunning'
    BY <1>1, <1>2, <1>t DEF HandlesGiven
  <2>6. \A g \in thrJoined' : g \notin thrRunning' /\ thrReaped'[g] > 0
    BY <1>1, <1>3, <1>t DEF HandlesGiven, ThreadsTypeOK
  <2> QED BY <2>1, <2>2, <2>3, <2>4, <2>5, <2>6, <1>1, <1>5 DEF HandlesGiven, InTable
<1>8. ASSUME NEW g \in ThreadHandleSet \ thrMisused' PROVE Releases(g)'
  <2>0. Releases(g)
    BY <1>1, <1>8 DEF ThreadsInv
  <2>1. CASE g # h
    <3>1. /\ \A i \in Joiners : ForHandle(i, g)' <=> ForHandle(i, g)
          /\ \A i \in Joiners : ForHandle(i, g) => thrPc'[i].call = thrPc[i].call
      BY <1>1, <1>2, <2>1 DEF ForHandle
    <3> QED BY <3>1, <2>0, <2>1, <1>1, <1>3, <1>5, OtherHandle
  <2>2. CASE g = h
    <3>1. ForHandle(j, h) /\ \A i \in Joiners : ForHandle(i, h)' <=> i = j
      BY <1>1, <1>2, <2>0, <2>2 DEF ForHandle, Releases
    <3>2. InTable(h)' /\ thrTable' = thrTable /\ thrPlatform' = thrPlatform
      BY <3>1, <2>0, <2>2, <1>1, <1>5 DEF Releases
    <3>3. /\ thrReaped[h] \in Nat
          /\ thrReaped[h] = 0 \/ (thrTable[h].joined /\ thrReaped[h] = 1 /\ thrPlatform = "darwin")
      BY <3>1, <2>0, <2>2, <1>1, <1>t DEF Releases, ThreadsTypeOK
    <3>4. c = "join" => ~thrTable[h].detached /\ (thrTable[h].joined <=> thrPlatform = "linux")
      BY <3>1, <2>0, <2>2, <1>1 DEF Releases
    <3>5. c = "detach" => /\ thrTable[h].detached <=> thrPlatform # "darwin"
                          /\ thrTable[h].joined => thrPlatform = "darwin"
      BY <3>1, <2>0, <2>2, <1>1 DEF Releases
    <3>6. \/ thrReaped'[h] <= 1
          \/ /\ thrPlatform' = "darwin" /\ thrReaped'[h] = 2 /\ thrTable'[h].joined
             /\ thrPc'[j].call = "detached"
      BY <3>2, <3>3, <3>4, <1>1, <1>2, <1>3
    <3>7. /\ \A i \in Joiners : ForHandle(i, h)' /\ thrPc'[i].call \in {"join", "joined"} =>
               ~thrTable'[h].detached /\ (thrTable'[h].joined <=> thrPlatform' = "linux")
          /\ \A i \in Joiners : ForHandle(i, h)' /\ thrPc'[i].call \in {"detach", "detached"} =>
               /\ thrTable'[h].detached <=> thrPlatform' # "darwin"
               /\ thrTable'[h].joined => thrPlatform' = "darwin"
          /\ \A i \in Joiners : ForHandle(i, h)' => thrPc'[i].call \notin {"join", "detach"}
      BY <3>1, <3>2, <3>4, <3>5, <1>1, <1>2
    <3> QED BY <3>1, <3>2, <3>6, <3>7, <2>2 DEF Releases
  <2> QED BY <2>1, <2>2
<1> QED BY <1>4, <1>7, <1>8 DEF ThreadsInv

(***************************************************************************)
(* joinThread and detachThread after the system call.                      *)
(***************************************************************************)
LEMMA FinishKeeps ==
  ASSUME ThreadsInv, NEW j \in Joiners, finishJoin(j) \/ finishDetach(j)
  PROVE  ThreadsInv'
<1>t. ThreadsTypeOK /\ HandlesGiven
  BY DEF ThreadsInv
<1>1. PICK h \in ThreadHandleSet, e \in {"joined", "detached"} :
        /\ thrPc[j].handle = h /\ thrPc[j].call = e
        /\ thrPlatform = "linux" => thrTable' = Without1(h)
        /\ thrPlatform # "linux" /\ e = "joined" => thrTable' = [thrTable EXCEPT ![h].joined = TRUE]
        /\ thrPlatform = "darwin" /\ e = "detached" => thrTable' = [thrTable EXCEPT ![h].detached = TRUE]
        /\ thrPlatform = "windows" /\ e = "detached" => thrTable' = thrTable
        /\ thrPc' = [thrPc EXCEPT ![j] = NotCalling]
        /\ thrJoined' = IF e = "joined" THEN thrJoined \union {h} ELSE thrJoined
        /\ UNCHANGED <<thrPlatform, thrRunning, thrReaped, thrMisused>>
  <2>1. CASE finishJoin(j)
    BY <2>1, <1>t DEF finishJoin, HandlesGiven
  <2>2. CASE finishDetach(j)
    BY <2>2, <1>t DEF finishDetach, HandlesGiven
  <2> QED BY <2>1, <2>2
<1>2. /\ thrPc' \in [Joiners -> [call : ThreadCalls, handle : ThreadHandleSet \union {0}]]
      /\ thrPc'[j].call = "none"
      /\ \A i \in Joiners : i # j => thrPc'[i] = thrPc[i]
  <2>1. NotCalling \in [call : ThreadCalls, handle : ThreadHandleSet \union {0}] /\ NotCalling.call = "none"
    BY DEF NotCalling, ThreadCalls
  <2> QED BY <2>1, <1>1, <1>t DEF ThreadsTypeOK
<1>3. thrReaped[h] > 0 /\ (e = "joined" => h \notin thrRunning) /\ (thrPlatform # "linux" => InTable(h))
  BY <1>1, <1>t DEF HandlesGiven
<1>4. /\ thrTable' \in [DOMAIN thrTable' -> [joined : BOOLEAN, detached : BOOLEAN]]
      /\ DOMAIN thrTable' = IF thrPlatform = "linux" THEN DOMAIN thrTable \ {h} ELSE DOMAIN thrTable
      /\ \A g \in DOMAIN thrTable : g # h => thrTable'[g] = thrTable[g]
  <2>1. thrTable \in [DOMAIN thrTable -> [joined : BOOLEAN, detached : BOOLEAN]]
    BY <1>t DEF ThreadsTypeOK
  <2>2. CASE thrPlatform = "linux"
    BY <2>1, <2>2, <1>1 DEF Without1
  <2>3. CASE thrPlatform # "linux" /\ e = "joined"
    <3>1. h \in DOMAIN thrTable /\ thrTable' = [thrTable EXCEPT ![h].joined = TRUE]
      BY <2>3, <1>1, <1>3 DEF InTable
    <3>2. /\ thrTable' \in [DOMAIN thrTable -> [joined : BOOLEAN, detached : BOOLEAN]]
          /\ \A g \in DOMAIN thrTable : g # h => thrTable'[g] = thrTable[g]
      BY ONLY <2>1, <3>1
    <3>3. DOMAIN thrTable' = DOMAIN thrTable
      BY ONLY <3>1
    <3> QED BY <3>2, <3>3, <2>3
  <2>4. CASE thrPlatform = "darwin" /\ e = "detached"
    <3>1. h \in DOMAIN thrTable /\ thrTable' = [thrTable EXCEPT ![h].detached = TRUE]
      BY <2>4, <1>1, <1>3 DEF InTable
    <3>2. /\ thrTable' \in [DOMAIN thrTable -> [joined : BOOLEAN, detached : BOOLEAN]]
          /\ \A g \in DOMAIN thrTable : g # h => thrTable'[g] = thrTable[g]
      BY ONLY <2>1, <3>1
    <3>3. DOMAIN thrTable' = DOMAIN thrTable
      BY ONLY <3>1
    <3> QED BY <3>2, <3>3, <2>4
  <2>5. CASE thrPlatform = "windows" /\ e = "detached"
    BY <2>1, <2>5, <1>1
  <2> QED BY <2>2, <2>3, <2>4, <2>5, <1>t DEF ThreadsTypeOK
<1>5. ThreadsTypeOK'
  <2>1. thrJoined' \subseteq ThreadHandleSet /\ DOMAIN thrTable' \subseteq ThreadHandleSet
    BY <1>1, <1>4, <1>t DEF ThreadsTypeOK
  <2> QED BY <2>1, <1>1, <1>2, <1>4, <1>t DEF ThreadsTypeOK
<1>6. \A g : /\ InTable(g)' <=> InTable(g) /\ (thrPlatform # "linux" \/ g # h)
             /\ (InTable(g)' \/ thrReaped[g] > 0) <=> (InTable(g) \/ thrReaped[g] > 0)
  BY <1>3, <1>4 DEF InTable
<1>7. HandlesGiven'
  <2>1. \E n \in 0 .. MaxThreads : \A g \in ThreadHandleSet : (InTable(g)' \/ thrReaped'[g] > 0) <=> g <= n
    BY <1>1, <1>6, <1>t DEF HandlesGiven
  <2>2. \A g \in thrRunning' : InTable(g)' \/ thrReaped'[g] > 0
    BY <1>1, <1>6, <1>t DEF HandlesGiven
  <2>3. \A i \in Joiners : thrPc'[i].call # "none" => i # j /\ thrPc'[i] = thrPc[i]
    BY <1>2
  <2>4. \A i \in Joiners : thrPc'[i].call # "none" =>
          /\ thrPc'[i].handle \in ThreadHandleSet
          /\ InTable(thrPc[i].handle)' \/ thrReaped'[thrPc[i].handle] > 0
          /\ thrPlatform' # "linux" => InTable(thrPc[i].handle)'
    BY <2>3, <1>1, <1>6, <1>t DEF HandlesGiven
  <2>5. /\ \A i \in Joiners : thrPc'[i].call \in {"joined", "detached"} => thrReaped'[thrPc'[i].handle] > 0
        /\ \A i \in Joiners : thrPc'[i].call = "joined" => thrPc'[i].handle \notin thrRunning'
    BY <2>3, <1>1, <1>t DEF HandlesGiven
  <2>6. \A g \in thrJoined' : g \notin thrRunning' /\ thrReaped'[g] > 0
    BY <1>1, <1>3, <1>t DEF HandlesGiven
  <2>7. \A i \in Joiners : thrPc'[i].call # "none" =>
          /\ thrPc'[i].handle \in ThreadHandleSet
          /\ thrPc'[i].handle \in DOMAIN thrTable' \/ thrReaped'[thrPc'[i].handle] > 0
          /\ thrPlatform' # "linux" => thrPc'[i].handle \in DOMAIN thrTable'
    BY <2>3, <2>4 DEF InTable
  <2> QED BY <2>1, <2>2, <2>5, <2>6, <2>7 DEF HandlesGiven, InTable
<1>8. ASSUME NEW g \in ThreadHandleSet \ thrMisused' PROVE Releases(g)'
  <2>0. Releases(g)
    BY <1>1, <1>8 DEF ThreadsInv
  <2>1. CASE g # h
    <3>1. /\ \A i \in Joiners : ForHandle(i, g)' <=> ForHandle(i, g)
          /\ \A i \in Joiners : ForHandle(i, g) => thrPc'[i].call = thrPc[i].call
      BY <1>1, <1>2, <2>1 DEF ForHandle
    <3>2. (InTable(g)' <=> InTable(g)) /\ (InTable(g) => thrTable'[g] = thrTable[g])
      BY <2>1, <1>4, <1>6 DEF InTable
    <3> QED BY <3>1, <3>2, <2>0, <2>1, <1>1, OtherHandle
  <2>2. CASE g = h
    <3>1. ForHandle(j, h)
      BY <1>1 DEF ForHandle
    <3>2. \A i \in Joiners : ~ForHandle(i, h)'
      BY <3>1, <1>1, <1>2, <2>0, <2>2 DEF ForHandle, Releases
    <3>3. /\ thrReaped[h] <= 1 \/ (thrPlatform = "darwin" /\ thrReaped[h] = 2 /\ thrTable[h].joined)
          /\ e = "joined" => (thrTable[h].joined <=> thrPlatform = "linux")
          /\ e = "detached" => (thrTable[h].detached <=> thrPlatform # "darwin")
                               /\ (thrTable[h].joined => thrPlatform = "darwin")
      BY <3>1, <2>0, <2>2, <1>1 DEF Releases
    <3>4. CASE thrPlatform = "linux"
      <4>1. ~InTable(h)' /\ thrReaped'[h] <= 1
        BY <3>3, <3>4, <1>1, <1>6
      <4> QED BY <4>1, <3>2, <2>2 DEF Releases
    <3>5. CASE thrPlatform # "linux" /\ e = "joined"
      <4>1. InTable(h)' /\ thrTable'[h].joined /\ thrReaped'[h] <= 1 /\ thrPlatform' # "linux"
        BY <3>3, <3>5, <1>1, <1>3, <1>6, <1>t DEF ThreadsTypeOK, InTable
      <4> QED BY <4>1, <3>2, <2>2 DEF Releases
    <3>6. CASE thrPlatform # "linux" /\ e = "detached"
      <4>1. InTable(h)' /\ thrTable'[h].detached /\ (thrTable'[h].joined <=> thrTable[h].joined)
        <5>1. CASE thrPlatform = "darwin"
          BY <5>1, <3>6, <1>1, <1>3, <1>6, <1>t DEF ThreadsTypeOK, InTable
        <5>2. CASE thrPlatform = "windows"
          BY <5>2, <3>3, <3>6, <1>1, <1>3, <1>6
        <5> QED BY <5>1, <5>2, <3>6, <1>t DEF ThreadsTypeOK
      <4>2. thrReaped'[h] <= 1 \/ (thrPlatform' = "darwin" /\ thrReaped'[h] = 2 /\ thrTable'[h].joined)
        BY <4>1, <3>3, <1>1
      <4>3. thrPlatform' # "linux"
        BY <3>6, <1>1
      <4> QED BY <4>1, <4>2, <4>3, <3>2, <2>2 DEF Releases
    <3> QED BY <3>4, <3>5, <3>6
  <2> QED BY <2>1, <2>2
<1> QED BY <1>5, <1>7, <1>8 DEF ThreadsInv

(***************************************************************************)
(* Every step of the thread PALs keeps the invariant.                      *)
(***************************************************************************)
LEMMA ThreadsStep == ThreadsInv /\ [ThreadsNext]_threadVars => ThreadsInv'
<1> SUFFICES ASSUME ThreadsInv, [ThreadsNext]_threadVars PROVE ThreadsInv'
  OBVIOUS
<1>1. CASE UNCHANGED threadVars
  <2>1. /\ UNCHANGED <<thrPlatform, thrTable, thrRunning, thrReaped, thrPc, thrJoined, thrMisused>>
    BY <1>1 DEF threadVars
  <2> QED BY <2>1 DEF ThreadsInv, ThreadsTypeOK, HandlesGiven, Releases, InTable, ForHandle
<1>2. CASE createThreadLinux \/ createThreadDarwin \/ createThreadWindows
  <2>1. PICK d \in BOOLEAN : Started(d)
    BY <1>2 DEF createThreadLinux, createThreadDarwin, createThreadWindows
  <2> QED BY <2>1, ThreadStarted
<1>3. CASE \E h \in ThreadHandleSet : threadEnds(h)
  BY <1>3, EndKeeps
<1>4. CASE \E j \in Joiners : reapJoined(j) \/ finishJoin(j) \/ reapDetached(j) \/ finishDetach(j)
  BY <1>4, ReapKeeps, FinishKeeps
<1>5. CASE \E j \in Joiners, h \in ThreadHandleSet :
             \/ joinThreadLinux(j, h) \/ joinThreadDarwin(j, h) \/ joinThreadWindows(j, h)
             \/ detachThreadLinux(j, h) \/ detachThreadDarwin(j, h) \/ detachThreadWindows(j, h)
  BY <1>5, BeginKeeps
<1> QED BY <1>1, <1>2, <1>3, <1>4, <1>5 DEF ThreadsNext
-----------------------------------------------------------------------------
(* The timers                                                               *)

ThreadSteps == {"idle", "read", "picked", "called"}
UserSteps == {"idle", "armed", "marked"}

TimersTypeOK ==
  /\ tmPlatform \in {"linux", "darwin", "windows"}
  /\ DOMAIN tmTable \subseteq Timers /\ DOMAIN tmArmed \subseteq Timers
  /\ tmTable \in [DOMAIN tmTable -> [repeating : BOOLEAN, cancelled : BOOLEAN]]
  /\ tmArmed \in [DOMAIN tmArmed -> [repeating : BOOLEAN, left : Nat]]
  /\ tmExpired \subseteq Timers
  /\ tmThread \in [TimerThreads -> [step : ThreadSteps, timer : Timers \union {0}]]
  /\ tmUser \in [TimerUsers -> [step : UserSteps, timer : Timers \union {0}]]
  /\ tmCalls \in [Timers -> Nat] /\ tmLate \in [Timers -> Nat]
  /\ tmCancelled \subseteq Timers /\ tmLost \subseteq Timers

Listed(h) == h \in DOMAIN tmTable
HasArmed(h) == h \in DOMAIN tmArmed
Given(h) == \/ HasArmed(h) \/ Listed(h) \/ tmCalls[h] > 0 \/ h \in tmCancelled \union tmLost
            \/ \E u \in TimerUsers : tmUser[u].timer = h

\* Timers are numbered as they are created, and none is forgotten.
Numbered == \E n \in 0 .. MaxTimers : \A h \in Timers : Given(h) <=> h <= n

ThreadFine(t) ==
  \/ tmThread[t] = NotBusy
  \/ /\ tmThread[t].step # "idle" /\ tmThread[t].timer \in Timers /\ Given(tmThread[t].timer)
     /\ tmThread[t].step = "called" => tmCalls[tmThread[t].timer] > 0
     /\ tmThread[t].step = "read" => tmPlatform = "linux"

UserFine(u) ==
  \/ tmUser[u] = NotBusy
  \/ tmUser[u].step = "marked" /\ tmUser[u].timer \in Timers /\ tmPlatform = "windows"
  \/ /\ tmUser[u].step = "armed" /\ tmUser[u].timer \in Timers
     /\ HasArmed(tmUser[u].timer) /\ ~Listed(tmUser[u].timer)
     /\ tmUser[u].timer \notin tmCancelled
     /\ \A v \in TimerUsers : tmUser[v].timer = tmUser[u].timer => v = u

AllFine ==
  /\ \A t \in TimerThreads : ThreadFine(t)
  /\ \A u \in TimerUsers : UserFine(u)
  /\ \A h \in tmExpired : Given(h)
  /\ tmPlatform # "windows" =>
       \A t, v \in TimerThreads : tmThread[t].step # "idle" /\ tmThread[v].step # "idle" => t = v

TakenUp(t, h) == tmThread[t].step \in {"read", "picked"} /\ tmThread[t].timer = h
Picked(t, h) == tmThread[t].step = "picked" /\ tmThread[t].timer = h
PickedUp(h) == {t \in TimerThreads : Picked(t, h)}
OneShot(h) == \/ Listed(h) /\ ~tmTable[h].repeating
              \/ HasArmed(h) /\ ~tmArmed[h].repeating

\* A one-shot timer expires once: its expiration is to come, waits, is with a
\* thread, or has been called back.
OnceFor(h) ==
  /\ Listed(h) /\ HasArmed(h) => (tmTable[h].repeating <=> tmArmed[h].repeating)
  /\ OneShot(h) =>
       /\ tmCalls[h] <= 1
       /\ HasArmed(h) /\ tmArmed[h].left > 0 => tmArmed[h].left = 1 /\ h \notin tmExpired
       /\ (HasArmed(h) /\ tmArmed[h].left > 0) \/ h \in tmExpired =>
            tmCalls[h] = 0 /\ \A t \in TimerThreads : ~TakenUp(t, h)
       /\ \A t \in TimerThreads : TakenUp(t, h) => tmCalls[h] = 0
       /\ \A t, v \in TimerThreads : TakenUp(t, h) /\ TakenUp(v, h) => t = v

\* After a cancel nothing expires any more; what a serial queue has picked
\* up is one callback.
StopsFor(h) ==
  /\ h \notin tmCancelled => tmLate[h] = 0
  /\ h \in tmCancelled =>
       /\ ~HasArmed(h)
       /\ tmPlatform = "linux" => ~Listed(h)
       /\ tmPlatform # "windows" =>
            /\ h \notin tmExpired
            /\ tmLate[h] <= 1
            /\ tmLate[h] = 1 => \A t \in TimerThreads : ~Picked(t, h)
       /\ tmPlatform = "windows" =>
            tmLate[h] + Cardinality(PickedUp(h)) + (IF h \in tmExpired THEN 1 ELSE 0)
              <= Cardinality(TimerThreads) + 1

TimersInv == TimersTypeOK /\ Numbered /\ AllFine /\ \A h \in Timers : OnceFor(h) /\ StopsFor(h)

(***************************************************************************)
(* A timer that is created is given the first number never given out.      *)
(***************************************************************************)
LEMMA FreshTimer ==
  ASSUME TimersInv, NextTimer <= MaxTimers
  PROVE  /\ NextTimer \in Timers /\ ~Given(NextTimer)
         /\ \A h \in Timers : Given(h) <=> h < NextTimer
<1>1. PICK n \in 0 .. MaxTimers : \A h \in Timers : Given(h) <=> h <= n
  BY DEF TimersInv, Numbered
<1>2. {h \in Timers : \/ h \in DOMAIN tmArmed \union DOMAIN tmTable
                      \/ tmCalls[h] > 0 \/ h \in tmCancelled \union tmLost
                      \/ \E u \in TimerUsers : tmUser[u].timer = h} = {h \in Timers : h <= n}
  BY <1>1 DEF Given, HasArmed, Listed
<1>3. {h \in Timers : h <= n} = 1 .. n
  BY TimerAssumption DEF Timers
<1>4. NextTimer = n + 1
  <2>1. Cardinality(1 .. n) = n
    BY FS_Interval
  <2> QED BY <2>1, <1>2, <1>3 DEF NextTimer
<1>5. NextTimer \in Timers /\ \A h \in Timers : h <= n <=> h < NextTimer
  BY <1>4, TimerAssumption DEF Timers
<1>6. ~(NextTimer <= n)
  BY <1>4
<1> QED BY <1>1, <1>5, <1>6

(***************************************************************************)
(* What concerns other timers does not change what is said of g.           *)
(***************************************************************************)
LEMMA OtherTimer ==
  ASSUME NEW g, OnceFor(g), StopsFor(g), tmPlatform' = tmPlatform,
         Listed(g)' <=> Listed(g), Listed(g) => (tmTable'[g].repeating <=> tmTable[g].repeating),
         HasArmed(g)' <=> HasArmed(g), HasArmed(g) => tmArmed'[g] = tmArmed[g],
         g \in tmExpired' <=> g \in tmExpired, g \in tmCancelled' <=> g \in tmCancelled,
         tmCalls'[g] = tmCalls[g], tmLate'[g] = tmLate[g],
         \A t \in TimerThreads : TakenUp(t, g)' <=> TakenUp(t, g),
         \A t \in TimerThreads : Picked(t, g)' <=> Picked(t, g)
  PROVE  OnceFor(g)' /\ StopsFor(g)'
<1>1. OneShot(g)' <=> OneShot(g)
  BY DEF OneShot
<1>2. OnceFor(g)'
  BY <1>1 DEF OnceFor
<1>3. PickedUp(g)' = PickedUp(g)
  BY DEF PickedUp
<1>4. StopsFor(g)'
  BY <1>3 DEF StopsFor
<1> QED BY <1>2, <1>4

(***************************************************************************)
(* A timer thread that does nothing stays as it should be.                 *)
(***************************************************************************)
LEMMA ThreadStays ==
  ASSUME NEW t \in TimerThreads, ThreadFine(t), tmThread'[t] = tmThread[t], tmPlatform' = tmPlatform,
         \A h \in Timers : Given(h) => Given(h)',
         \A h \in Timers : tmCalls[h] > 0 => tmCalls'[h] > 0
  PROVE  ThreadFine(t)'
<1>1. CASE tmThread[t] = NotBusy
  BY <1>1 DEF ThreadFine
<1>2. CASE tmThread[t] # NotBusy
  <2>1. PICK h \in Timers : h = tmThread[t].timer
    BY <1>2 DEF ThreadFine
  <2>2. Given(h)' /\ tmThread'[t].timer = h
    BY <1>2, <2>1 DEF ThreadFine
  <2>3. tmThread'[t].step = "called" => tmCalls'[h] > 0
    BY <1>2, <2>1 DEF ThreadFine
  <2>4. Given(tmThread[t].timer)'
    BY <2>1, <2>2 DEF Given, HasArmed, Listed
  <2> QED BY <2>1, <2>2, <2>3, <2>4, <1>2 DEF ThreadFine, Given, HasArmed, Listed
<1> QED BY <1>1, <1>2

(***************************************************************************)
(* So does a user, if nothing happens to the timer it is creating.         *)
(***************************************************************************)
LEMMA UserStays ==
  ASSUME NEW u \in TimerUsers, UserFine(u), tmUser'[u] = tmUser[u], tmPlatform' = tmPlatform,
         tmUser[u].step = "armed" =>
           /\ tmUser[u].timer \in DOMAIN tmArmed' /\ tmUser[u].timer \notin DOMAIN tmTable'
           /\ tmUser[u].timer \notin tmCancelled'
           /\ \A v \in TimerUsers : tmUser'[v].timer = tmUser[u].timer => v = u
  PROVE  UserFine(u)'
BY DEF UserFine, HasArmed, Listed

(***************************************************************************)
(* A timer is created: armed by Linux, armed and listed by the others.     *)
(***************************************************************************)
LEMMA CreateKeeps ==
  ASSUME TimersInv, NEW u \in TimerUsers, NEW r \in BOOLEAN,
         armTimer(u, r) \/ createTimerDarwin(u, r) \/ createTimerWindows(u, r)
  PROVE  TimersInv'
<1>t. TimersTypeOK /\ Numbered /\ AllFine
  BY DEF TimersInv
<1>1. PICK k \in Timers : k = NextTimer /\ ~Given(k) /\ \A h \in Timers : Given(h) <=> h < k
  BY FreshTimer DEF armTimer, createTimerDarwin, createTimerWindows
<1>2. /\ ~HasArmed(k) /\ ~Listed(k) /\ tmCalls[k] = 0 /\ k \notin tmCancelled /\ k \notin tmLost
      /\ \A v \in TimerUsers : tmUser[v].timer # k
      /\ k \notin tmExpired
      /\ \A t \in TimerThreads : ~TakenUp(t, k) /\ ~Picked(t, k)
  <2>1. tmCalls[k] \in Nat
    BY <1>t DEF TimersTypeOK
  <2>2. \A t \in TimerThreads : tmThread[t].timer # k
    <3>1. NotBusy.timer # k
      BY DEF NotBusy, Timers
    <3> QED BY <3>1, <1>1, <1>t DEF AllFine, ThreadFine
  <2> QED BY <2>1, <2>2, <1>1, <1>t DEF Given, AllFine, TakenUp, Picked
<1>3. /\ tmArmed' = Added(tmArmed, k, Armed(r))
      /\ tmPlatform # "linux" => tmTable' = Added(tmTable, k, Entry(r)) /\ UNCHANGED tmUser
      /\ tmPlatform = "linux" => /\ tmUser' = [tmUser EXCEPT ![u] = [step |-> "armed", timer |-> k]]
                                 /\ UNCHANGED tmTable
      /\ UNCHANGED <<tmPlatform, tmExpired, tmThread, tmCalls, tmLate, tmCancelled, tmLost>>
      /\ tmUser[u] = NotBusy
  BY <1>1 DEF armTimer, createTimerDarwin, createTimerWindows
<1>4. /\ DOMAIN tmArmed' = DOMAIN tmArmed \union {k}
      /\ tmArmed'[k] = Armed(r)
      /\ \A h \in DOMAIN tmArmed : tmArmed'[h] = tmArmed[h]
      /\ tmArmed' \in [DOMAIN tmArmed' -> [repeating : BOOLEAN, left : Nat]]
  <2>1. Armed(r) \in [repeating : BOOLEAN, left : Nat]
    BY TimerAssumption DEF Armed
  <2>2. \A h \in DOMAIN tmArmed : tmArmed[h] \in [repeating : BOOLEAN, left : Nat]
    BY <1>t DEF TimersTypeOK
  <2> QED BY <2>1, <2>2, <1>2, <1>3 DEF Added, HasArmed
<1>5. /\ DOMAIN tmTable' = IF tmPlatform = "linux" THEN DOMAIN tmTable ELSE DOMAIN tmTable \union {k}
      /\ tmPlatform # "linux" => tmTable'[k] = Entry(r)
      /\ \A h \in DOMAIN tmTable : tmTable'[h] = tmTable[h]
      /\ tmTable' \in [DOMAIN tmTable' -> [repeating : BOOLEAN, cancelled : BOOLEAN]]
  <2>1. Entry(r) \in [repeating : BOOLEAN, cancelled : BOOLEAN]
    BY DEF Entry
  <2>2. /\ \A h \in DOMAIN tmTable : tmTable[h] \in [repeating : BOOLEAN, cancelled : BOOLEAN]
        /\ tmTable \in [DOMAIN tmTable -> [repeating : BOOLEAN, cancelled : BOOLEAN]]
    BY <1>t DEF TimersTypeOK
  <2>3. CASE tmPlatform = "linux"
    BY <2>2, <2>3, <1>3
  <2>4. CASE tmPlatform # "linux"
    BY <2>1, <2>2, <2>4, <1>2, <1>3 DEF Added, Listed
  <2> QED BY <2>3, <2>4
<1>6. /\ tmUser' \in [TimerUsers -> [step : UserSteps, timer : Timers \union {0}]]
      /\ \A v \in TimerUsers : v # u => tmUser'[v] = tmUser[v]
      /\ tmUser'[u] = IF tmPlatform = "linux" THEN [step |-> "armed", timer |-> k] ELSE NotBusy
  <2>1. [step |-> "armed", timer |-> k] \in [step : UserSteps, timer : Timers \union {0}]
    BY DEF UserSteps
  <2> QED BY ZenonT(60), <2>1, <1>3, <1>t DEF TimersTypeOK
<1>7. TimersTypeOK'
  BY <1>3, <1>4, <1>5, <1>6, <1>t DEF TimersTypeOK
<1>8. \A h \in Timers : /\ HasArmed(h)' <=> HasArmed(h) \/ h = k
                        /\ Listed(h)' <=> Listed(h) \/ (h = k /\ tmPlatform # "linux")
                        /\ Given(h)' <=> Given(h) \/ h = k
  <2>1. \A h \in Timers : /\ HasArmed(h)' <=> HasArmed(h) \/ h = k
                          /\ Listed(h)' <=> Listed(h) \/ (h = k /\ tmPlatform # "linux")
    BY <1>4, <1>5 DEF HasArmed, Listed
  <2>2. \A h \in Timers : (\E v \in TimerUsers : tmUser[v].timer = h) =>
                            h = k \/ \E v \in TimerUsers : tmUser'[v].timer = h
    BY <1>3, <1>6 DEF NotBusy, Timers
  <2>3. \A h \in Timers : (\E v \in TimerUsers : tmUser'[v].timer = h) =>
                            h = k \/ \E v \in TimerUsers : tmUser[v].timer = h
    BY <1>3, <1>6 DEF NotBusy, Timers
  <2> QED BY <2>1, <2>2, <2>3, <1>3 DEF Given
<1>9. Numbered'
  <2>1. \A h \in Timers : Given(h)' <=> h <= k
    BY <1>1, <1>8 DEF Timers
  <2>2. k \in 0 .. MaxTimers
    BY TimerAssumption DEF Timers
  <2> QED BY <2>1, <2>2 DEF Numbered
<1>10. AllFine'
  <2>1. \A t \in TimerThreads : ThreadFine(t)'
    BY <1>3, <1>8, <1>t, ThreadStays DEF AllFine
  <2>2. ASSUME NEW v \in TimerUsers PROVE UserFine(v)'
    <3>1. CASE v = u /\ tmPlatform = "linux"
      <4>1. tmUser'[u].step = "armed" /\ tmUser'[u].timer = k
        BY <3>1, <1>6
      <4>2. k \in DOMAIN tmArmed' /\ k \notin DOMAIN tmTable' /\ k \notin tmCancelled'
        BY <3>1, <1>2, <1>3, <1>4, <1>5 DEF Listed
      <4>3. \A w \in TimerUsers : tmUser'[w].timer = k => w = u
        BY <1>2, <1>6
      <4> QED BY <3>1, <4>1, <4>2, <4>3 DEF UserFine, HasArmed, Listed
    <3>2. CASE v = u /\ tmPlatform # "linux"
      BY <3>2, <1>6 DEF UserFine
    <3>3. CASE v # u
      <4>1. UserFine(v) /\ tmUser'[v] = tmUser[v] /\ tmUser[v].timer # k
        BY <3>3, <1>2, <1>6, <1>t DEF AllFine
      <4>2. ASSUME tmUser[v].step = "armed"
            PROVE  /\ tmUser[v].timer \in DOMAIN tmArmed' /\ tmUser[v].timer \notin DOMAIN tmTable'
                   /\ tmUser[v].timer \notin tmCancelled'
                   /\ \A w \in TimerUsers : tmUser'[w].timer = tmUser[v].timer => w = v
        <5>1. /\ HasArmed(tmUser[v].timer) /\ ~Listed(tmUser[v].timer) /\ tmUser[v].timer \notin tmCancelled
              /\ tmUser[v].timer \in Timers
              /\ \A w \in TimerUsers : tmUser[w].timer = tmUser[v].timer => w = v
          BY <4>1, <4>2 DEF UserFine, NotBusy
        <5>2. \A w \in TimerUsers : tmUser'[w].timer = tmUser[v].timer => w = v
          <6>1. tmUser'[u].timer # tmUser[v].timer
            BY <4>1, <5>1, <1>6 DEF NotBusy, Timers
          <6> QED BY <5>1, <6>1, <1>6
        <5> QED BY <4>1, <5>1, <5>2, <1>3, <1>4, <1>5 DEF HasArmed, Listed
      <4> QED BY <4>1, <4>2, <1>3, UserStays
    <3> QED BY <3>1, <3>2, <3>3
  <2>3. \A h \in tmExpired' : Given(h)'
    BY <1>3, <1>8, <1>t DEF AllFine, TimersTypeOK
  <2> QED BY <2>1, <2>2, <2>3, <1>3, <1>t DEF AllFine
<1>11. ASSUME NEW h \in Timers PROVE OnceFor(h)' /\ StopsFor(h)'
  <2>0. OnceFor(h) /\ StopsFor(h)
    BY DEF TimersInv
  <2>1. \A t \in TimerThreads : (TakenUp(t, h)' <=> TakenUp(t, h)) /\ (Picked(t, h)' <=> Picked(t, h))
    BY <1>3 DEF TakenUp, Picked
  <2>2. CASE h # k
    <3>1. (HasArmed(h) => tmArmed'[h] = tmArmed[h]) /\ (Listed(h) => tmTable'[h] = tmTable[h])
      BY <1>4, <1>5 DEF HasArmed, Listed
    <3> QED BY <3>1, <2>0, <2>1, <2>2, <1>3, <1>8, OtherTimer
  <2>3. CASE h = k
    <3>1. /\ HasArmed(k)' /\ tmArmed'[k].repeating = r /\ (~r => tmArmed'[k].left = 1)
          /\ Listed(k)' => (tmTable'[k].repeating <=> r)
      BY <1>4, <1>5, <1>2, <1>8 DEF Armed, Entry
    <3>2. /\ tmCalls'[k] = 0 /\ k \notin tmExpired' /\ k \notin tmCancelled' /\ tmLate'[k] = 0
          /\ \A t \in TimerThreads : ~TakenUp(t, k)'
      BY <1>2, <1>3, <2>0, <2>1, <2>3 DEF StopsFor
    <3>3. OnceFor(k)'
      BY <3>1, <3>2 DEF OnceFor, OneShot
    <3>4. StopsFor(k)'
      BY <3>2 DEF StopsFor
    <3> QED BY <3>3, <3>4, <2>3
  <2> QED BY <2>2, <2>3
<1> QED BY <1>7, <1>9, <1>10, <1>11 DEF TimersInv

(***************************************************************************)
(* A step of thread t, or of none, that lets every timer keep its number   *)
(* and does not touch a timer that is armed and not listed.                *)
(***************************************************************************)
LEMMA FineStays ==
  ASSUME TimersInv, NEW t, tmPlatform' = tmPlatform, tmUser' = tmUser,
         \A h \in Timers : Given(h)' <=> Given(h),
         \A h \in Timers : tmCalls[h] > 0 => tmCalls'[h] > 0,
         \A h \in tmExpired' : h \in Timers /\ Given(h),
         \A h \in Timers : HasArmed(h) /\ ~Listed(h) /\ h \notin tmCancelled =>
                             HasArmed(h)' /\ ~Listed(h)' /\ h \notin tmCancelled',
         \A v \in TimerThreads : v # t => tmThread'[v] = tmThread[v],
         t \in TimerThreads => ThreadFine(t)',
         tmPlatform # "windows" /\ t \in TimerThreads /\ tmThread'[t].step # "idle" =>
           \A v \in TimerThreads : v # t => tmThread[v].step = "idle"
  PROVE  Numbered' /\ AllFine'
<1>t. Numbered /\ AllFine
  BY DEF TimersInv
<1>1. Numbered'
  BY <1>t DEF Numbered
<1>2. ASSUME NEW v \in TimerThreads PROVE ThreadFine(v)'
  <2>1. CASE v = t
    BY <2>1
  <2>2. CASE v # t
    BY <2>2, <1>t, ThreadStays DEF AllFine
  <2> QED BY <2>1, <2>2
<1>3. ASSUME NEW u \in TimerUsers PROVE UserFine(u)'
  <2>1. UserFine(u)
    BY <1>t DEF AllFine
  <2>2. ASSUME tmUser[u].step = "armed"
        PROVE  /\ tmUser[u].timer \in DOMAIN tmArmed' /\ tmUser[u].timer \notin DOMAIN tmTable'
               /\ tmUser[u].timer \notin tmCancelled'
               /\ \A v \in TimerUsers : tmUser'[v].timer = tmUser[u].timer => v = u
    <3>1. /\ HasArmed(tmUser[u].timer) /\ ~Listed(tmUser[u].timer) /\ tmUser[u].timer \notin tmCancelled
          /\ tmUser[u].timer \in Timers
          /\ \A w \in TimerUsers : tmUser[w].timer = tmUser[u].timer => w = u
      BY <2>1, <2>2 DEF UserFine, NotBusy
    <3>2. PICK h \in Timers : h = tmUser[u].timer
      BY <3>1
    <3>3. HasArmed(h)' /\ ~Listed(h)' /\ h \notin tmCancelled'
      BY <3>1, <3>2
    <3> QED BY <3>1, <3>2, <3>3 DEF HasArmed, Listed
  <2> QED BY <2>1, <2>2, UserStays
<1>4. \A h \in tmExpired' : Given(h)'
  OBVIOUS
<1>5. tmPlatform' # "windows" =>
        \A v, w \in TimerThreads : tmThread'[v].step # "idle" /\ tmThread'[w].step # "idle" => v = w
  BY <1>t DEF AllFine
<1> QED BY <1>1, <1>2, <1>3, <1>4, <1>5 DEF AllFine

(***************************************************************************)
(* The system lets an armed timer expire.                                  *)
(***************************************************************************)
LEMMA ExpireKeeps ==
  ASSUME TimersInv, NEW k \in Timers, expire(k)
  PROVE  TimersInv'
<1>t. TimersTypeOK /\ Numbered /\ AllFine
  BY DEF TimersInv
<1>1. /\ HasArmed(k) /\ tmArmed[k].left > 0
      /\ tmArmed' = [tmArmed EXCEPT ![k].left = @ - 1]
      /\ tmExpired' = tmExpired \union {k}
      /\ UNCHANGED <<tmPlatform, tmTable, tmThread, tmUser, tmCalls, tmLate, tmCancelled, tmLost>>
  BY DEF expire, HasArmed
<1>2. PICK r \in BOOLEAN, n \in Nat : tmArmed[k] = [repeating |-> r, left |-> n]
  BY <1>1, <1>t DEF TimersTypeOK, HasArmed
<1>3. /\ DOMAIN tmArmed' = DOMAIN tmArmed
      /\ tmArmed'[k].repeating = r /\ tmArmed'[k].left = n - 1
      /\ \A h \in DOMAIN tmArmed : h # k => tmArmed'[h] = tmArmed[h]
      /\ tmArmed' \in [DOMAIN tmArmed -> [repeating : BOOLEAN, left : Nat]]
  <2>1. tmArmed \in [DOMAIN tmArmed -> [repeating : BOOLEAN, left : Nat]] /\ k \in DOMAIN tmArmed
    BY <1>1, <1>t DEF TimersTypeOK, HasArmed
  <2>2. n > 0 /\ n - 1 \in Nat
    BY <1>1, <1>2
  <2>3. tmArmed[k].left = n
    BY <1>2
  <2>4. PICK m \in Nat : m = n - 1
    BY <2>2
  <2>5. tmArmed' = [tmArmed EXCEPT ![k].left = m]
    BY <1>1, <2>3, <2>4
  <2>6. /\ DOMAIN tmArmed' = DOMAIN tmArmed
        /\ \A h \in DOMAIN tmArmed : h # k => tmArmed'[h] = tmArmed[h]
        /\ tmArmed' \in [DOMAIN tmArmed -> [repeating : BOOLEAN, left : Nat]]
    BY <2>1, <2>5
  <2>7. tmArmed'[k].repeating = tmArmed[k].repeating /\ tmArmed'[k].left = m
    BY <2>1, <2>5
  <2> QED BY <2>4, <2>6, <2>7, <1>2
<1>4. TimersTypeOK'
  BY <1>1, <1>3, <1>t DEF TimersTypeOK
<1>5. \A h : (HasArmed(h)' <=> HasArmed(h)) /\ (Listed(h)' <=> Listed(h)) /\ (Given(h)' <=> Given(h))
  BY <1>1, <1>3 DEF HasArmed, Listed, Given
<1>6. Numbered' /\ AllFine'
  <2>1. PICK none : none \notin TimerThreads
    BY NoSetContainsEverything
  <2>2. \A h \in tmExpired' : h \in Timers /\ Given(h)
    BY <1>1, <1>t DEF AllFine, TimersTypeOK, Given
  <2> QED BY <2>1, <2>2, <1>1, <1>5, FineStays
<1>7. ASSUME NEW h \in Timers PROVE OnceFor(h)' /\ StopsFor(h)'
  <2>0. OnceFor(h) /\ StopsFor(h)
    BY DEF TimersInv
  <2>1. \A t \in TimerThreads : (TakenUp(t, h)' <=> TakenUp(t, h)) /\ (Picked(t, h)' <=> Picked(t, h))
    BY <1>1 DEF TakenUp, Picked
  <2>2. CASE h # k
    <3>1. HasArmed(h) => tmArmed'[h] = tmArmed[h]
      BY <2>2, <1>3 DEF HasArmed
    <3> QED BY <3>1, <2>0, <2>1, <2>2, <1>1, <1>5, OtherTimer
  <2>3. CASE h = k
    <3>1. k \notin tmCancelled /\ tmLate[k] = 0
      BY <2>0, <2>3, <1>1 DEF StopsFor
    <3>2. StopsFor(k)'
      BY <3>1, <1>1 DEF StopsFor
    <3>3. tmArmed[k].repeating = r /\ tmArmed[k].left = n
      BY <1>2
    <3>4. OneShot(k)' <=> OneShot(k)
      BY <3>3, <1>1, <1>3, <1>5 DEF OneShot
    <3>5. OneShot(k) => /\ n = 1 /\ tmCalls[k] = 0
                        /\ \A t \in TimerThreads : ~TakenUp(t, k)
      BY <3>3, <2>0, <2>3, <1>1 DEF OnceFor
    <3>6. OnceFor(k)'
      BY <3>3, <3>4, <3>5, <2>0, <2>1, <2>3, <1>1, <1>3, <1>5 DEF OnceFor
    <3> QED BY <3>2, <3>6, <2>3
  <2> QED BY <2>2, <2>3
<1> QED BY <1>4, <1>6, <1>7 DEF TimersInv

(***************************************************************************)
(* A thread picks an expiration up, or on Windows drops it.                *)
(***************************************************************************)
LEMMA PickUpKeeps ==
  ASSUME TimersInv, NEW t \in TimerThreads, NEW k \in Timers,
         readExpiration(t, k) \/ startHandler(t, k) \/ timerCallback(t, k)
  PROVE  TimersInv'
<1>t. TimersTypeOK /\ Numbered /\ AllFine
  BY DEF TimersInv
<1>1. /\ k \in tmExpired /\ tmExpired' = tmExpired \ {k}
      /\ tmThread[t] = NotBusy
      /\ tmPlatform # "windows" => \A v \in TimerThreads : tmThread[v] = NotBusy
      /\ UNCHANGED <<tmPlatform, tmTable, tmArmed, tmUser, tmCalls, tmLate, tmCancelled, tmLost>>
  BY DEF readExpiration, startHandler, timerCallback, IdleTimerThreads
<1>2. \/ UNCHANGED tmThread
      \/ \E s \in {"read", "picked"} : /\ tmThread' = [tmThread EXCEPT ![t] = [step |-> s, timer |-> k]]
                                       /\ s = "read" => tmPlatform = "linux"
  BY DEF readExpiration, startHandler, timerCallback
<1>3. NotBusy.step = "idle" /\ Given(k)
  BY <1>1, <1>t DEF NotBusy, AllFine
<1>4. \A h : (HasArmed(h)' <=> HasArmed(h)) /\ (Listed(h)' <=> Listed(h)) /\ (Given(h)' <=> Given(h))
             /\ (OneShot(h)' <=> OneShot(h))
  BY <1>1 DEF HasArmed, Listed, Given, OneShot
<1>5. /\ tmThread' \in [TimerThreads -> [step : ThreadSteps, timer : Timers \union {0}]]
      /\ \A v \in TimerThreads : v # t => tmThread'[v] = tmThread[v]
      /\ ThreadFine(t)'
      /\ tmThread'[t] = NotBusy \/ (tmThread'[t].step \in {"read", "picked"} /\ tmThread'[t].timer = k)
  <2>1. CASE UNCHANGED tmThread
    BY <2>1, <1>1, <1>t DEF ThreadFine, TimersTypeOK
  <2>2. ASSUME NEW s \in {"read", "picked"}, tmThread' = [tmThread EXCEPT ![t] = [step |-> s, timer |-> k]],
               s = "read" => tmPlatform = "linux"
        PROVE  /\ tmThread' \in [TimerThreads -> [step : ThreadSteps, timer : Timers \union {0}]]
               /\ \A v \in TimerThreads : v # t => tmThread'[v] = tmThread[v]
               /\ ThreadFine(t)'
               /\ tmThread'[t].step \in {"read", "picked"} /\ tmThread'[t].timer = k
    <3>1. [step |-> s, timer |-> k] \in [step : ThreadSteps, timer : Timers \union {0}]
      BY DEF ThreadSteps
    <3>2. /\ tmThread' \in [TimerThreads -> [step : ThreadSteps, timer : Timers \union {0}]]
          /\ \A v \in TimerThreads : v # t => tmThread'[v] = tmThread[v]
          /\ tmThread'[t] = [step |-> s, timer |-> k]
      BY <2>2, <3>1, <1>t DEF TimersTypeOK
    <3>3. tmThread'[t].step = s /\ tmThread'[t].timer = k
      BY <3>2
    <3>4. Given(k)'
      BY <1>3, <1>4
    <3>5. Given(tmThread[t].timer)'
      BY <3>3, <3>4 DEF Given, HasArmed, Listed
    <3>6. ThreadFine(t)'
      BY <3>3, <3>5, <2>2, <1>1 DEF ThreadFine
    <3> QED BY <3>2, <3>3, <3>6
  <2> QED BY <2>1, <2>2, <1>2
<1>6. TimersTypeOK'
  BY <1>1, <1>5, <1>t DEF TimersTypeOK
<1>7. Numbered' /\ AllFine'
  <2>1. \A h \in tmExpired' : h \in Timers /\ Given(h)
    BY <1>1, <1>t DEF AllFine, TimersTypeOK
  <2>2. tmPlatform # "windows" => \A v \in TimerThreads : tmThread[v].step = "idle"
    BY <1>1, <1>3
  <2> QED BY <2>1, <2>2, <1>1, <1>4, <1>5, FineStays
<1>8. ASSUME NEW h \in Timers PROVE OnceFor(h)' /\ StopsFor(h)'
  <2>0. OnceFor(h) /\ StopsFor(h)
    BY DEF TimersInv
  <2>1. ~TakenUp(t, h) /\ ~Picked(t, h)
    BY <1>1, <1>3 DEF TakenUp, Picked
  <2>2. \A v \in TimerThreads : v # t => (TakenUp(v, h)' <=> TakenUp(v, h)) /\ (Picked(v, h)' <=> Picked(v, h))
    BY <1>5 DEF TakenUp, Picked
  <2>3. CASE h # k
    <3>1. ~TakenUp(t, h)' /\ ~Picked(t, h)'
      BY <2>3, <1>3, <1>5 DEF TakenUp, Picked
    <3> QED BY <3>1, <2>0, <2>1, <2>2, <2>3, <1>1, <1>4, OtherTimer
  <2>4. CASE h = k
    <3>1. OnceFor(k)'
      <4>1. OneShot(k) => /\ tmCalls[k] = 0 /\ \A v \in TimerThreads : ~TakenUp(v, k)
                          /\ ~(HasArmed(k) /\ tmArmed[k].left > 0)
        BY <2>0, <2>4, <1>1 DEF OnceFor
      <4>2. OneShot(k)' => \A v \in TimerThreads : TakenUp(v, k)' => v = t
        BY <4>1, <2>2, <2>4, <1>4
      <4>3. k \notin tmExpired'
        BY <1>1
      <4> QED BY <4>1, <4>2, <4>3, <2>0, <2>4, <1>1, <1>4 DEF OnceFor
    <3>2. CASE k \notin tmCancelled
      BY <3>1, <3>2, <2>0, <2>4, <1>1 DEF StopsFor
    <3>3. CASE k \in tmCancelled
      <4>1. /\ tmPlatform = "windows" /\ ~HasArmed(k)
            /\ tmLate[k] + Cardinality(PickedUp(k)) + 1 <= Cardinality(TimerThreads) + 1
        BY <3>3, <2>0, <2>4, <1>1 DEF StopsFor
      <4>2. IsFiniteSet(PickedUp(k)) /\ Cardinality(PickedUp(k)) \in Nat /\ Cardinality(TimerThreads) \in Nat
        <5>1. PickedUp(k) \subseteq TimerThreads
          BY DEF PickedUp
        <5> QED BY <5>1, TimerAssumption, FS_Subset, FS_CardinalityType
      <4>3. t \notin PickedUp(k)
        BY <2>1, <2>4 DEF PickedUp
      <4>4. PickedUp(k)' = PickedUp(k) \/ PickedUp(k)' = PickedUp(k) \union {t}
        BY <2>1, <2>2, <2>4 DEF PickedUp
      <4>5. Cardinality(PickedUp(k) \union {t}) = Cardinality(PickedUp(k)) + 1
        BY <4>2, <4>3, FS_AddElement
      <4>6. /\ Cardinality(PickedUp(k)') \in Nat
            /\ Cardinality(PickedUp(k)') <= Cardinality(PickedUp(k)) + 1
        BY <4>2, <4>4, <4>5
      <4>7. tmLate[k] \in Nat
        BY <1>t DEF TimersTypeOK
      <4>8. tmLate'[k] + Cardinality(PickedUp(k)') + 0 <= Cardinality(TimerThreads) + 1
        BY <4>1, <4>2, <4>6, <4>7, <1>1
      <4>9. k \notin tmExpired' /\ ~HasArmed(k)' /\ tmPlatform' = "windows" /\ k \in tmCancelled'
        BY <4>1, <3>3, <1>1, <1>4
      <4>10. StopsFor(k)'
        BY <4>8, <4>9 DEF StopsFor
      <4> QED BY <4>10, <3>1, <2>4
    <3> QED BY <3>2, <3>3
  <2> QED BY <2>3, <2>4
<1> QED BY <1>6, <1>7, <1>8 DEF TimersInv

(***************************************************************************)
(* Linux looks the timer of an expiration up.                              *)
(***************************************************************************)
LEMMA LookupKeeps ==
  ASSUME TimersInv, NEW t \in TimerThreads, lookupTimer(t)
  PROVE  TimersInv'
<1>t. TimersTypeOK /\ Numbered /\ AllFine
  BY DEF TimersInv
<1>0. NotBusy.step = "idle" /\ NotBusy \in [step : ThreadSteps, timer : Timers \union {0}]
  BY DEF NotBusy, ThreadSteps
<1>1. PICK k \in Timers : tmThread[t] = [step |-> "read", timer |-> k] /\ Given(k) /\ tmPlatform = "linux"
  <2>1. tmThread[t].step = "read"
    BY DEF lookupTimer
  <2>2. tmThread[t].timer \in Timers /\ Given(tmThread[t].timer) /\ tmPlatform = "linux"
    BY <2>1, <1>0, <1>t DEF AllFine, ThreadFine
  <2>3. tmThread[t] = [step |-> "read", timer |-> tmThread[t].timer]
    BY <2>1, <1>t DEF TimersTypeOK
  <2> QED BY <2>2, <2>3
<1>2. tmThread[t].step = "read" /\ tmThread[t].timer = k
  BY <1>1
<1>3. /\ tmThread' = [tmThread EXCEPT ![t] = IF Listed(k) THEN [step |-> "picked", timer |-> k] ELSE NotBusy]
      /\ tmLost' = IF Listed(k) \/ k \in tmCancelled THEN tmLost ELSE tmLost \union {k}
      /\ UNCHANGED <<tmPlatform, tmTable, tmArmed, tmExpired, tmUser, tmCalls, tmLate, tmCancelled>>
  <2>1. [tmThread[t] EXCEPT !.step = "picked"] = [step |-> "picked", timer |-> k]
    BY <1>1
  <2> QED BY <2>1, <1>2 DEF lookupTimer, Listed
<1>4. \A h \in Timers : /\ HasArmed(h)' <=> HasArmed(h)
                        /\ Listed(h)' <=> Listed(h)
                        /\ OneShot(h)' <=> OneShot(h)
                        /\ Given(h)' <=> Given(h)
  <2>1. \A h \in Timers : /\ HasArmed(h)' <=> HasArmed(h)
                          /\ Listed(h)' <=> Listed(h)
                          /\ OneShot(h)' <=> OneShot(h)
    BY <1>3 DEF HasArmed, Listed, OneShot
  <2>2. \A h \in Timers : h \in tmLost' => h \in tmLost \/ h = k
    BY <1>3
  <2>3. \A h \in Timers : h \in tmLost => h \in tmLost'
    BY <1>3
  <2> QED BY <2>1, <2>2, <2>3, <1>1, <1>3 DEF Given
<1>5. /\ tmThread' \in [TimerThreads -> [step : ThreadSteps, timer : Timers \union {0}]]
      /\ \A v \in TimerThreads : v # t => tmThread'[v] = tmThread[v]
      /\ Listed(k) => tmThread'[t].step = "picked" /\ tmThread'[t].timer = k
      /\ ~Listed(k) => tmThread'[t] = NotBusy
  <2>1. [step |-> "picked", timer |-> k] \in [step : ThreadSteps, timer : Timers \union {0}]
    BY DEF ThreadSteps
  <2> QED BY <2>1, <1>0, <1>3, <1>t DEF TimersTypeOK
<1>6. TimersTypeOK'
  BY <1>3, <1>5, <1>t DEF TimersTypeOK
<1>7. Numbered' /\ AllFine'
  <2>1. ThreadFine(t)'
    <3>1. CASE ~Listed(k)
      BY <3>1, <1>5 DEF ThreadFine
    <3>2. CASE Listed(k)
      <4>1. Given(k)'
        BY <1>1, <1>4
      <4>2. Given(tmThread[t].timer)'
        BY <3>2, <4>1, <1>5 DEF Given, HasArmed, Listed
      <4> QED BY <4>2, <3>2, <1>5 DEF ThreadFine
    <3> QED BY <3>1, <3>2
  <2>2. tmPlatform # "windows" => \A v \in TimerThreads : v # t => tmThread[v].step = "idle"
    BY <1>2, <1>t DEF AllFine
  <2>3. \A h \in tmExpired' : h \in Timers /\ Given(h)
    BY <1>3, <1>t DEF AllFine, TimersTypeOK
  <2> QED BY <2>1, <2>2, <2>3, <1>3, <1>4, <1>5, FineStays
<1>8. ASSUME NEW h \in Timers PROVE OnceFor(h)' /\ StopsFor(h)'
  <2>0. OnceFor(h) /\ StopsFor(h)
    BY DEF TimersInv
  <2>1. \A v \in TimerThreads : v # t => (TakenUp(v, h)' <=> TakenUp(v, h)) /\ (Picked(v, h)' <=> Picked(v, h))
    BY <1>5 DEF TakenUp, Picked
  <2>2. CASE h # k
    <3>1. ~TakenUp(t, h)' /\ ~Picked(t, h)' /\ ~TakenUp(t, h) /\ ~Picked(t, h)
      BY <2>2, <1>0, <1>2, <1>5 DEF TakenUp, Picked
    <3> QED BY <3>1, <2>0, <2>1, <1>3, <1>4, OtherTimer
  <2>3. CASE h = k
    <3>1. TakenUp(t, k) /\ ~Picked(t, k)
      BY <1>2 DEF TakenUp, Picked
    <3>2. OnceFor(k)'
      BY <3>1, <2>0, <2>1, <2>3, <1>3, <1>4 DEF OnceFor
    <3>3. StopsFor(k)'
      <4>1. CASE k \notin tmCancelled
        BY <4>1, <2>0, <2>3, <1>3 DEF StopsFor
      <4>2. CASE k \in tmCancelled
        <5>1. ~Listed(k)
          BY <4>2, <2>0, <2>3, <1>1 DEF StopsFor
        <5>2. ~Picked(t, k)'
          BY <5>1, <1>0, <1>5 DEF Picked
        <5> QED BY <5>1, <5>2, <4>2, <2>0, <2>1, <2>3, <1>1, <1>3, <1>4 DEF StopsFor
      <4> QED BY <4>1, <4>2
    <3> QED BY <3>2, <3>3, <2>3
  <2> QED BY <2>2, <2>3
<1> QED BY <1>6, <1>7, <1>8 DEF TimersInv

(***************************************************************************)
(* The callback of a timer that was picked up is called.                   *)
(***************************************************************************)
LEMMA CallBackKeeps ==
  ASSUME TimersInv, NEW t \in TimerThreads, callBack(t)
  PROVE  TimersInv'
<1>t. TimersTypeOK /\ Numbered /\ AllFine
  BY DEF TimersInv
<1>0. NotBusy.step = "idle"
  BY DEF NotBusy
<1>1. PICK k \in Timers : tmThread[t].step = "picked" /\ tmThread[t].timer = k /\ Given(k)
  BY <1>0, <1>t DEF callBack, AllFine, ThreadFine
<1>2. /\ tmCalls' = [tmCalls EXCEPT ![k] = @ + 1]
      /\ tmLate' = [tmLate EXCEPT ![k] = IF k \in tmCancelled THEN @ + 1 ELSE @]
      /\ tmThread' = [tmThread EXCEPT ![t].step = "called"]
      /\ UNCHANGED <<tmPlatform, tmTable, tmArmed, tmExpired, tmUser, tmCancelled, tmLost>>
  BY <1>1 DEF callBack
<1>3. /\ tmCalls' \in [Timers -> Nat] /\ tmLate' \in [Timers -> Nat]
      /\ tmCalls'[k] = tmCalls[k] + 1 /\ tmCalls'[k] > 0
      /\ tmLate'[k] = IF k \in tmCancelled THEN tmLate[k] + 1 ELSE tmLate[k]
      /\ \A h \in Timers : h # k => tmCalls'[h] = tmCalls[h] /\ tmLate'[h] = tmLate[h]
      /\ \A h \in Timers : tmCalls[h] > 0 => tmCalls'[h] > 0
  <2>1. tmCalls \in [Timers -> Nat] /\ tmLate \in [Timers -> Nat]
    BY <1>t DEF TimersTypeOK
  <2> QED BY <2>1, <1>2
<1>4. /\ tmThread' \in [TimerThreads -> [step : ThreadSteps, timer : Timers \union {0}]]
      /\ \A v \in TimerThreads : v # t => tmThread'[v] = tmThread[v]
      /\ tmThread'[t].step = "called" /\ tmThread'[t].timer = k
  BY <1>1, <1>2, <1>t DEF TimersTypeOK, ThreadSteps
<1>5. \A h \in Timers : /\ HasArmed(h)' <=> HasArmed(h)
                        /\ Listed(h)' <=> Listed(h)
                        /\ OneShot(h)' <=> OneShot(h)
                        /\ Given(h)' <=> Given(h)
  <2>1. \A h \in Timers : /\ HasArmed(h)' <=> HasArmed(h)
                          /\ Listed(h)' <=> Listed(h)
                          /\ OneShot(h)' <=> OneShot(h)
    BY <1>2 DEF HasArmed, Listed, OneShot
  <2> QED BY <2>1, <1>1, <1>2, <1>3 DEF Given
<1>6. TimersTypeOK'
  BY <1>2, <1>3, <1>4, <1>t DEF TimersTypeOK
<1>7. Numbered' /\ AllFine'
  <2>1. ThreadFine(t)'
    <3>1. Given(k)'
      BY <1>1, <1>5
    <3>2. Given(tmThread[t].timer)'
      BY <3>1, <1>4 DEF Given, HasArmed, Listed
    <3>3. tmCalls'[tmThread'[t].timer] > 0
      BY <1>3, <1>4
    <3> QED BY <3>2, <3>3, <1>4 DEF ThreadFine
  <2>2. tmPlatform # "windows" => \A v \in TimerThreads : v # t => tmThread[v].step = "idle"
    BY <1>1, <1>t DEF AllFine
  <2>3. \A h \in tmExpired' : h \in Timers /\ Given(h)
    BY <1>2, <1>t DEF AllFine, TimersTypeOK
  <2> QED BY <2>1, <2>2, <2>3, <1>2, <1>3, <1>4, <1>5, FineStays
<1>8. ASSUME NEW h \in Timers PROVE OnceFor(h)' /\ StopsFor(h)'
  <2>0. OnceFor(h) /\ StopsFor(h)
    BY DEF TimersInv
  <2>1. \A v \in TimerThreads : v # t => (TakenUp(v, h)' <=> TakenUp(v, h)) /\ (Picked(v, h)' <=> Picked(v, h))
    BY <1>4 DEF TakenUp, Picked
  <2>2. ~TakenUp(t, h)' /\ ~Picked(t, h)'
    BY <1>4 DEF TakenUp, Picked
  <2>3. CASE h # k
    <3>1. ~TakenUp(t, h) /\ ~Picked(t, h)
      BY <2>3, <1>1 DEF TakenUp, Picked
    <3> QED BY <3>1, <2>0, <2>1, <2>2, <2>3, <1>2, <1>3, <1>5, OtherTimer
  <2>4. CASE h = k
    <3>1. TakenUp(t, k) /\ Picked(t, k)
      BY <1>1 DEF TakenUp, Picked
    <3>2. OnceFor(k)'
      <4>1. OneShot(k) => /\ tmCalls[k] = 0 /\ k \notin tmExpired /\ ~(HasArmed(k) /\ tmArmed[k].left > 0)
                          /\ \A v \in TimerThreads : TakenUp(v, k) => v = t
        BY <3>1, <2>0, <2>4 DEF OnceFor
      <4>2. OneShot(k) => tmCalls'[k] <= 1 /\ \A v \in TimerThreads : ~TakenUp(v, k)'
        BY <4>1, <2>1, <2>2, <2>4, <1>3
      <4> QED BY <4>1, <4>2, <2>0, <2>4, <1>2, <1>5 DEF OnceFor
    <3>3. StopsFor(k)'
      <4>0. tmLate[k] \in Nat
        BY <1>t DEF TimersTypeOK
      <4>1. CASE k \notin tmCancelled
        BY <4>1, <2>0, <2>4, <1>2, <1>3 DEF StopsFor
      <4>2. CASE k \in tmCancelled /\ tmPlatform # "windows"
        <5>1. tmLate[k] = 0
          BY <4>0, <4>2, <3>1, <2>0, <2>4 DEF StopsFor
        <5>2. tmLate'[k] = 1
          BY <5>1, <4>2, <1>3
        <5>3. \A v \in TimerThreads : ~Picked(v, k)'
          <6>1. \A v \in TimerThreads : v # t => tmThread[v].step = "idle"
            BY <4>2, <1>1, <1>t DEF AllFine
          <6> QED BY <6>1, <2>2, <2>4, <1>4 DEF Picked
        <5> QED BY <5>2, <5>3, <4>2, <2>0, <2>4, <1>2, <1>5 DEF StopsFor
      <4>3. CASE k \in tmCancelled /\ tmPlatform = "windows"
        <5> DEFINE e == IF k \in tmExpired THEN 1 ELSE 0
        <5>1. /\ ~HasArmed(k) /\ e \in {0, 1}
              /\ tmLate[k] + Cardinality(PickedUp(k)) + e <= Cardinality(TimerThreads) + 1
          BY <4>3, <2>0, <2>4 DEF StopsFor
        <5>2. IsFiniteSet(PickedUp(k)) /\ Cardinality(PickedUp(k)) \in Nat /\ Cardinality(TimerThreads) \in Nat
          <6>1. PickedUp(k) \subseteq TimerThreads
            BY DEF PickedUp
          <6> QED BY <6>1, TimerAssumption, FS_Subset, FS_CardinalityType
        <5>3. PickedUp(k)' = PickedUp(k) \ {t} /\ t \in PickedUp(k)
          BY <3>1, <2>1, <2>2, <2>4 DEF PickedUp
        <5>4. Cardinality(PickedUp(k) \ {t}) = Cardinality(PickedUp(k)) - 1
          BY <5>2, <5>3, FS_RemoveElement
        <5>5. tmLate'[k] + Cardinality(PickedUp(k)') + e <= Cardinality(TimerThreads) + 1
          <6>1. tmLate'[k] = tmLate[k] + 1 /\ Cardinality(PickedUp(k)') = Cardinality(PickedUp(k)) - 1
            BY <5>3, <5>4, <4>3, <1>3
          <6> HIDE DEF e
          <6> QED BY <6>1, <5>1, <5>2, <4>0
        <5>6. (IF k \in tmExpired' THEN 1 ELSE 0) = e
          BY <1>2
        <5> HIDE DEF e
        <5>7. /\ tmLate'[k] + Cardinality(PickedUp(k)') + (IF k \in tmExpired' THEN 1 ELSE 0)
                   <= Cardinality(TimerThreads) + 1
              /\ k \in tmCancelled' /\ tmPlatform' = "windows" /\ ~HasArmed(k)'
          BY <5>1, <5>5, <5>6, <4>3, <1>2, <1>5
        <5> QED BY <5>7 DEF StopsFor
      <4> QED BY <4>1, <4>2, <4>3
    <3> QED BY <3>2, <3>3, <2>4
  <2> QED BY <2>3, <2>4
<1> QED BY <1>6, <1>7, <1>8 DEF TimersInv

(***************************************************************************)
(* After the callback: a one-shot timer is forgotten or marked.            *)
(***************************************************************************)
LEMMA AfterCallKeeps ==
  ASSUME TimersInv, NEW t \in TimerThreads, afterCall(t)
  PROVE  TimersInv'
<1>t. TimersTypeOK /\ Numbered /\ AllFine
  BY DEF TimersInv
<1>0. NotBusy.step = "idle" /\ NotBusy \in [step : ThreadSteps, timer : Timers \union {0}]
  BY DEF NotBusy, ThreadSteps
<1>1. PICK k \in Timers : tmThread[t].step = "called" /\ tmThread[t].timer = k /\ Given(k) /\ tmCalls[k] > 0
  BY <1>0, <1>t DEF afterCall, AllFine, ThreadFine
<1>2. /\ tmThread' = [tmThread EXCEPT ![t] = NotBusy]
      /\ UNCHANGED <<tmPlatform, tmUser, tmCalls, tmLate, tmCancelled, tmLost>>
      /\ \/ /\ Listed(k) /\ ~tmTable[k].repeating /\ tmPlatform = "linux"
            /\ tmTable' = Dropped(tmTable, k) /\ tmArmed' = Dropped(tmArmed, k)
            /\ tmExpired' = tmExpired \ {k}
         \/ /\ Listed(k) /\ tmTable' = [tmTable EXCEPT ![k].cancelled = TRUE]
            /\ UNCHANGED <<tmArmed, tmExpired>>
         \/ UNCHANGED <<tmTable, tmArmed, tmExpired>>
  BY <1>1 DEF afterCall, Listed
<1>3. /\ tmThread' \in [TimerThreads -> [step : ThreadSteps, timer : Timers \union {0}]]
      /\ \A v \in TimerThreads : v # t => tmThread'[v] = tmThread[v]
      /\ tmThread'[t] = NotBusy
  BY <1>0, <1>2, <1>t DEF TimersTypeOK
<1>4. /\ tmTable \in [DOMAIN tmTable -> [repeating : BOOLEAN, cancelled : BOOLEAN]]
      /\ tmArmed \in [DOMAIN tmArmed -> [repeating : BOOLEAN, left : Nat]]
      /\ DOMAIN tmTable \subseteq Timers /\ DOMAIN tmArmed \subseteq Timers /\ tmExpired \subseteq Timers
  BY <1>t DEF TimersTypeOK
<1> DEFINE gone == Listed(k) /\ ~tmTable[k].repeating /\ tmPlatform = "linux"
                   /\ DOMAIN tmTable' = DOMAIN tmTable \ {k} /\ DOMAIN tmArmed' = DOMAIN tmArmed \ {k}
                   /\ tmExpired' = tmExpired \ {k}
           kept == DOMAIN tmTable' = DOMAIN tmTable /\ tmArmed' = tmArmed /\ tmExpired' = tmExpired
                   /\ (Listed(k) => (tmTable'[k].repeating <=> tmTable[k].repeating))
<1>5. /\ gone \/ kept
      /\ tmTable' \in [DOMAIN tmTable' -> [repeating : BOOLEAN, cancelled : BOOLEAN]]
      /\ tmArmed' \in [DOMAIN tmArmed' -> [repeating : BOOLEAN, left : Nat]]
      /\ \A h \in DOMAIN tmTable : h # k => tmTable'[h] = tmTable[h]
      /\ \A h \in DOMAIN tmArmed : h # k => tmArmed'[h] = tmArmed[h]
  <2>1. CASE /\ Listed(k) /\ ~tmTable[k].repeating /\ tmPlatform = "linux"
             /\ tmTable' = Dropped(tmTable, k) /\ tmArmed' = Dropped(tmArmed, k)
             /\ tmExpired' = tmExpired \ {k}
    BY <2>1, <1>4 DEF Dropped
  <2>2. CASE /\ Listed(k) /\ tmTable' = [tmTable EXCEPT ![k].cancelled = TRUE]
             /\ UNCHANGED <<tmArmed, tmExpired>>
    BY <2>2, <1>4 DEF Listed
  <2>3. CASE UNCHANGED <<tmTable, tmArmed, tmExpired>>
    BY <2>3, <1>4
  <2> QED BY <2>1, <2>2, <2>3, <1>2
<1>6. /\ DOMAIN tmTable' \subseteq Timers /\ DOMAIN tmArmed' \subseteq Timers /\ tmExpired' \subseteq tmExpired
      /\ \A h : h # k => /\ HasArmed(h)' <=> HasArmed(h)
                         /\ Listed(h)' <=> Listed(h)
                         /\ h \in tmExpired' <=> h \in tmExpired
      /\ Listed(k)' => Listed(k)
      /\ HasArmed(k)' => HasArmed(k)
  BY <1>4, <1>5 DEF HasArmed, Listed
<1> HIDE DEF gone, kept
<1>7. TimersTypeOK'
  BY <1>2, <1>3, <1>5, <1>6, <1>t DEF TimersTypeOK
<1>8. \A h \in Timers : Given(h)' <=> Given(h)
  BY <1>1, <1>2, <1>6 DEF Given
<1>9. Numbered' /\ AllFine'
  <2>1. ThreadFine(t)' /\ tmThread'[t].step = "idle"
    BY <1>0, <1>3 DEF ThreadFine
  <2>2. \A h \in tmExpired' : h \in Timers /\ Given(h)
    BY <1>4, <1>6, <1>t DEF AllFine
  <2>3. \A h \in Timers : HasArmed(h) /\ ~Listed(h) /\ h \notin tmCancelled =>
                            HasArmed(h)' /\ ~Listed(h)' /\ h \notin tmCancelled'
    BY <1>2, <1>5, <1>6 DEF gone, kept, HasArmed
  <2> QED BY <2>1, <2>2, <2>3, <1>2, <1>3, <1>8, FineStays
<1>10. ASSUME NEW h \in Timers PROVE OnceFor(h)' /\ StopsFor(h)'
  <2>0. OnceFor(h) /\ StopsFor(h)
    BY DEF TimersInv
  <2>1. \A v \in TimerThreads : (TakenUp(v, h)' <=> TakenUp(v, h)) /\ (Picked(v, h)' <=> Picked(v, h))
    BY <1>0, <1>1, <1>3 DEF TakenUp, Picked
  <2>2. CASE h # k
    <3>1. (HasArmed(h) => tmArmed'[h] = tmArmed[h]) /\ (Listed(h) => tmTable'[h] = tmTable[h])
      BY <2>2, <1>5 DEF HasArmed, Listed
    <3> QED BY <3>1, <2>0, <2>1, <2>2, <1>2, <1>6, OtherTimer
  <2>3. CASE h = k /\ kept
    <3>1. /\ HasArmed(h)' <=> HasArmed(h)
          /\ Listed(h)' <=> Listed(h)
          /\ h \in tmExpired' <=> h \in tmExpired
          /\ HasArmed(h) => tmArmed'[h] = tmArmed[h]
          /\ Listed(h) => (tmTable'[h].repeating <=> tmTable[h].repeating)
      BY <2>3 DEF kept, HasArmed, Listed
    <3> QED BY <3>1, <2>0, <2>1, <1>2, OtherTimer
  <2>4. CASE h = k /\ gone
    <3>1. ~Listed(h)' /\ ~HasArmed(h)' /\ Listed(h) /\ tmPlatform = "linux"
      BY <2>4 DEF gone, Listed, HasArmed
    <3>2. h \notin tmCancelled' /\ tmLate'[h] = 0
      BY <3>1, <2>0, <1>2 DEF StopsFor
    <3> QED BY <3>1, <3>2 DEF OnceFor, OneShot, StopsFor
  <2> QED BY <2>2, <2>3, <2>4, <1>5
<1> QED BY <1>7, <1>9, <1>10 DEF TimersInv

(***************************************************************************)
(* cancelTimer of Linux and of Darwin.                                     *)
(***************************************************************************)
LEMMA CancelKeeps ==
  ASSUME TimersInv, NEW u \in TimerUsers, NEW k \in Timers,
         cancelTimerLinux(u, k) \/ cancelTimerDarwin(u, k)
  PROVE  TimersInv'
<1>t. TimersTypeOK /\ Numbered /\ AllFine
  BY DEF TimersInv
<1>1. /\ Listed(k) /\ tmArmed' = Dropped(tmArmed, k) /\ tmExpired' = tmExpired \ {k}
      /\ tmCancelled' = tmCancelled \union {k}
      /\ UNCHANGED <<tmPlatform, tmThread, tmUser, tmCalls, tmLate, tmLost>>
      /\ \/ tmPlatform = "linux" /\ tmTable' = Dropped(tmTable, k)
         \/ tmPlatform = "darwin" /\ tmTable' = [tmTable EXCEPT ![k].cancelled = TRUE]
  BY DEF cancelTimerLinux, cancelTimerDarwin, Listed
<1>2. /\ tmTable \in [DOMAIN tmTable -> [repeating : BOOLEAN, cancelled : BOOLEAN]]
      /\ tmArmed \in [DOMAIN tmArmed -> [repeating : BOOLEAN, left : Nat]]
      /\ DOMAIN tmTable \subseteq Timers /\ DOMAIN tmArmed \subseteq Timers /\ tmExpired \subseteq Timers
  BY <1>t DEF TimersTypeOK
<1>3. /\ tmArmed' \in [DOMAIN tmArmed' -> [repeating : BOOLEAN, left : Nat]]
      /\ DOMAIN tmArmed' = DOMAIN tmArmed \ {k}
      /\ \A h \in DOMAIN tmArmed : h # k => tmArmed'[h] = tmArmed[h]
  BY <1>1, <1>2 DEF Dropped
<1>4. /\ tmTable' \in [DOMAIN tmTable' -> [repeating : BOOLEAN, cancelled : BOOLEAN]]
      /\ \A h \in DOMAIN tmTable : h # k => tmTable'[h] = tmTable[h]
      /\ \/ tmPlatform = "linux" /\ DOMAIN tmTable' = DOMAIN tmTable \ {k}
         \/ /\ tmPlatform = "darwin" /\ DOMAIN tmTable' = DOMAIN tmTable
            /\ tmTable'[k].repeating <=> tmTable[k].repeating
  <2>1. CASE tmPlatform = "linux" /\ tmTable' = Dropped(tmTable, k)
    BY <2>1, <1>2 DEF Dropped
  <2>2. CASE tmPlatform = "darwin" /\ tmTable' = [tmTable EXCEPT ![k].cancelled = TRUE]
    BY <2>2, <1>1, <1>2 DEF Listed
  <2> QED BY <2>1, <2>2, <1>1
<1>5. TimersTypeOK'
  <2>1. DOMAIN tmTable' \subseteq Timers /\ DOMAIN tmArmed' \subseteq Timers /\ tmExpired' \subseteq Timers
        /\ tmCancelled' \subseteq Timers
    BY <1>1, <1>2, <1>3, <1>4, <1>t DEF TimersTypeOK
  <2> QED BY <2>1, <1>1, <1>3, <1>4, <1>t DEF TimersTypeOK
<1>6. /\ \A h : h # k => /\ HasArmed(h)' <=> HasArmed(h)
                         /\ Listed(h)' <=> Listed(h)
                         /\ h \in tmExpired' <=> h \in tmExpired
                         /\ h \in tmCancelled' <=> h \in tmCancelled
      /\ ~HasArmed(k)' /\ k \notin tmExpired' /\ k \in tmCancelled'
      /\ tmPlatform = "linux" => ~Listed(k)'
      /\ Given(k) /\ Given(k)'
  BY <1>1, <1>3, <1>4 DEF HasArmed, Listed, Given
<1>7. \A h \in Timers : Given(h)' <=> Given(h)
  BY <1>1, <1>6 DEF Given
<1>8. Numbered' /\ AllFine'
  <2>1. PICK none : none \notin TimerThreads
    BY NoSetContainsEverything
  <2>2. \A h \in tmExpired' : h \in Timers /\ Given(h)
    BY <1>1, <1>2, <1>t DEF AllFine
  <2>3. \A h \in Timers : HasArmed(h) /\ ~Listed(h) /\ h \notin tmCancelled =>
                            HasArmed(h)' /\ ~Listed(h)' /\ h \notin tmCancelled'
    BY <1>1, <1>6
  <2> QED BY <2>1, <2>2, <2>3, <1>1, <1>7, FineStays
<1>9. ASSUME NEW h \in Timers PROVE OnceFor(h)' /\ StopsFor(h)'
  <2>0. OnceFor(h) /\ StopsFor(h)
    BY DEF TimersInv
  <2>1. \A v \in TimerThreads : (TakenUp(v, h)' <=> TakenUp(v, h)) /\ (Picked(v, h)' <=> Picked(v, h))
    BY <1>1 DEF TakenUp, Picked
  <2>2. CASE h # k
    <3>1. (HasArmed(h) => tmArmed'[h] = tmArmed[h]) /\ (Listed(h) => tmTable'[h] = tmTable[h])
      BY <2>2, <1>3, <1>4 DEF HasArmed, Listed
    <3> QED BY <3>1, <2>0, <2>1, <2>2, <1>1, <1>6, OtherTimer
  <2>3. CASE h = k
    <3>1. OneShot(k)' => OneShot(k)
      BY <1>1, <1>4, <1>6 DEF OneShot, Listed
    <3>2. OnceFor(k)'
      BY <3>1, <2>0, <2>1, <2>3, <1>1, <1>6 DEF OnceFor
    <3>3. tmLate[k] <= 1 /\ (tmLate[k] = 1 => \A v \in TimerThreads : ~Picked(v, k))
      BY <2>0, <2>3, <1>1 DEF StopsFor
    <3>4. StopsFor(k)'
      BY <3>3, <2>1, <2>3, <1>1, <1>6 DEF StopsFor
    <3> QED BY <3>2, <3>4, <2>3
  <2> QED BY <2>2, <2>3
<1> QED BY <1>5, <1>8, <1>9 DEF TimersInv

(***************************************************************************)
(* A step of user u that lets every timer keep its number and does not     *)
(* touch a timer that another user is creating.                            *)
(***************************************************************************)
LEMMA UserMoves ==
  ASSUME TimersInv, NEW u \in TimerUsers, UNCHANGED <<tmPlatform, tmThread, tmCalls, tmExpired>>,
         \A h \in Timers : Given(h)' <=> Given(h),
         \A v \in TimerUsers : v # u => tmUser'[v] = tmUser[v],
         UserFine(u)',
         \A v \in TimerUsers : v # u /\ tmUser[v].step = "armed" =>
           /\ tmUser[v].timer \in DOMAIN tmArmed' /\ tmUser[v].timer \notin DOMAIN tmTable'
           /\ tmUser[v].timer \notin tmCancelled' /\ tmUser'[u].timer # tmUser[v].timer
  PROVE  Numbered' /\ AllFine'
<1>t. TimersTypeOK /\ Numbered /\ AllFine
  BY DEF TimersInv
<1>1. Numbered'
  BY <1>t DEF Numbered
<1>2. \A t \in TimerThreads : ThreadFine(t)'
  BY <1>t, ThreadStays DEF AllFine
<1>3. ASSUME NEW v \in TimerUsers PROVE UserFine(v)'
  <2>1. CASE v = u
    BY <2>1
  <2>2. CASE v # u
    <3>1. UserFine(v) /\ tmUser'[v] = tmUser[v]
      BY <2>2, <1>t DEF AllFine
    <3>2. tmUser[v].step = "armed" => \A w \in TimerUsers : tmUser[w].timer = tmUser[v].timer => w = v
      BY <3>1 DEF UserFine, NotBusy
    <3>3. tmUser[v].step = "armed" => \A w \in TimerUsers : tmUser'[w].timer = tmUser[v].timer => w = v
      BY <3>2, <2>2
    <3> QED BY <3>1, <3>3, <2>2, UserStays
  <2> QED BY <2>1, <2>2
<1>4. \A h \in tmExpired' : Given(h)'
  BY <1>t DEF AllFine, TimersTypeOK
<1> QED BY <1>1, <1>2, <1>3, <1>4, <1>t DEF AllFine

(***************************************************************************)
(* What an armed user says of its timer.                                   *)
(***************************************************************************)
LEMMA ArmedUser ==
  ASSUME TimersInv, NEW v \in TimerUsers, tmUser[v].step = "armed"
  PROVE  /\ tmUser[v].timer \in Timers /\ HasArmed(tmUser[v].timer) /\ ~Listed(tmUser[v].timer)
         /\ tmUser[v].timer \notin tmCancelled
         /\ \A w \in TimerUsers : tmUser[w].timer = tmUser[v].timer => w = v
<1>1. UserFine(v)
  BY DEF TimersInv, AllFine
<1> QED BY <1>1 DEF UserFine, NotBusy

(***************************************************************************)
(* Linux lists the timer that a user has armed.                            *)
(***************************************************************************)
LEMMA ListKeeps ==
  ASSUME TimersInv, NEW u \in TimerUsers, listTimer(u)
  PROVE  TimersInv'
<1>t. TimersTypeOK /\ Numbered /\ AllFine
  BY DEF TimersInv
<1>0. NotBusy \in [step : UserSteps, timer : Timers \union {0}] /\ NotBusy.timer = 0 /\ 0 \notin Timers
  BY DEF NotBusy, UserSteps, Timers
<1>1. PICK k \in Timers : /\ tmUser[u].timer = k /\ HasArmed(k) /\ ~Listed(k) /\ k \notin tmCancelled
                          /\ \A w \in TimerUsers : tmUser[w].timer = k => w = u
  BY ArmedUser DEF listTimer
<1>2. /\ tmTable' = Added(tmTable, k, Entry(tmArmed[k].repeating))
      /\ tmUser' = [tmUser EXCEPT ![u] = NotBusy]
      /\ UNCHANGED <<tmPlatform, tmArmed, tmExpired, tmThread, tmCalls, tmLate, tmCancelled, tmLost>>
  BY <1>1 DEF listTimer
<1>3. PICK r \in BOOLEAN : (tmArmed[k].repeating <=> r) /\ Entry(tmArmed[k].repeating) = Entry(r)
  BY <1>1, <1>t DEF TimersTypeOK, HasArmed
<1>4. /\ DOMAIN tmTable' = DOMAIN tmTable \union {k}
      /\ tmTable'[k].repeating <=> r
      /\ \A h \in DOMAIN tmTable : tmTable'[h] = tmTable[h]
      /\ tmTable' \in [DOMAIN tmTable' -> [repeating : BOOLEAN, cancelled : BOOLEAN]]
  <2>1. Entry(r) \in [repeating : BOOLEAN, cancelled : BOOLEAN] /\ (Entry(r).repeating <=> r)
    BY DEF Entry
  <2>2. \A h \in DOMAIN tmTable : tmTable[h] \in [repeating : BOOLEAN, cancelled : BOOLEAN]
    BY <1>t DEF TimersTypeOK
  <2> QED BY <2>1, <2>2, <1>1, <1>2, <1>3 DEF Added, Listed
<1>5. /\ tmUser' \in [TimerUsers -> [step : UserSteps, timer : Timers \union {0}]]
      /\ tmUser'[u] = NotBusy
      /\ \A v \in TimerUsers : v # u => tmUser'[v] = tmUser[v]
  BY <1>0, <1>2, <1>t DEF TimersTypeOK
<1>6. TimersTypeOK'
  BY <1>2, <1>4, <1>5, <1>t DEF TimersTypeOK
<1>7. \A h \in Timers : /\ HasArmed(h)' <=> HasArmed(h)
                        /\ Listed(h)' <=> Listed(h) \/ h = k
                        /\ Given(h)' <=> Given(h)
  <2>1. \A h \in Timers : /\ HasArmed(h)' <=> HasArmed(h)
                          /\ Listed(h)' <=> Listed(h) \/ h = k
    BY <1>2, <1>4 DEF HasArmed, Listed
  <2>2. \A h \in Timers : h # k => ((\E v \in TimerUsers : tmUser'[v].timer = h)
                                      <=> (\E v \in TimerUsers : tmUser[v].timer = h))
    BY <1>0, <1>1, <1>5
  <2> QED BY <2>1, <2>2, <1>1, <1>2 DEF Given
<1>8. Numbered' /\ AllFine'
  <2>1. \A v \in TimerUsers : v # u /\ tmUser[v].step = "armed" =>
          /\ tmUser[v].timer \in DOMAIN tmArmed' /\ tmUser[v].timer \notin DOMAIN tmTable'
          /\ tmUser[v].timer \notin tmCancelled' /\ tmUser'[u].timer # tmUser[v].timer
    BY <1>0, <1>1, <1>2, <1>4, <1>5, ArmedUser DEF HasArmed, Listed
  <2>2. UserFine(u)'
    BY <1>5 DEF UserFine
  <2> QED BY <2>1, <2>2, <1>2, <1>5, <1>7, UserMoves
<1>9. ASSUME NEW h \in Timers PROVE OnceFor(h)' /\ StopsFor(h)'
  <2>0. OnceFor(h) /\ StopsFor(h)
    BY DEF TimersInv
  <2>1. \A v \in TimerThreads : (TakenUp(v, h)' <=> TakenUp(v, h)) /\ (Picked(v, h)' <=> Picked(v, h))
    BY <1>2 DEF TakenUp, Picked
  <2>2. CASE h # k
    <3>1. Listed(h) => tmTable'[h] = tmTable[h]
      BY <1>4 DEF Listed
    <3> QED BY <3>1, <2>0, <2>1, <2>2, <1>2, <1>7, OtherTimer
  <2>3. CASE h = k
    <3>1. OneShot(k)' <=> OneShot(k)
      BY <1>1, <1>2, <1>3, <1>4, <1>7 DEF OneShot
    <3>2. OnceFor(k)'
      BY <3>1, <2>0, <2>1, <2>3, <1>2, <1>3, <1>4, <1>7 DEF OnceFor
    <3>3. StopsFor(k)'
      BY <2>0, <2>3, <1>1, <1>2 DEF StopsFor
    <3> QED BY <3>2, <3>3, <2>3
  <2> QED BY <2>2, <2>3
<1> QED BY <1>6, <1>8, <1>9 DEF TimersInv

(***************************************************************************)
(* Windows marks a timer as cancelled.                                     *)
(***************************************************************************)
LEMMA MarkKeeps ==
  ASSUME TimersInv, NEW u \in TimerUsers, NEW k \in Timers, markCancelled(u, k)
  PROVE  TimersInv'
<1>t. TimersTypeOK /\ Numbered /\ AllFine
  BY DEF TimersInv
<1>1. /\ tmPlatform = "windows" /\ Listed(k) /\ tmUser[u] = NotBusy
      /\ tmTable' = [tmTable EXCEPT ![k].cancelled = TRUE]
      /\ tmUser' = [tmUser EXCEPT ![u] = [step |-> "marked", timer |-> k]]
      /\ UNCHANGED <<tmPlatform, tmArmed, tmExpired, tmThread, tmCalls, tmLate, tmCancelled, tmLost>>
  BY DEF markCancelled, Listed
<1>2. /\ DOMAIN tmTable' = DOMAIN tmTable
      /\ \A h \in DOMAIN tmTable : (tmTable'[h].repeating <=> tmTable[h].repeating)
      /\ tmTable' \in [DOMAIN tmTable -> [repeating : BOOLEAN, cancelled : BOOLEAN]]
  <2>1. tmTable \in [DOMAIN tmTable -> [repeating : BOOLEAN, cancelled : BOOLEAN]] /\ k \in DOMAIN tmTable
    BY <1>1, <1>t DEF TimersTypeOK, Listed
  <2> QED BY <2>1, <1>1
<1>3. /\ tmUser' \in [TimerUsers -> [step : UserSteps, timer : Timers \union {0}]]
      /\ tmUser'[u].step = "marked" /\ tmUser'[u].timer = k
      /\ \A v \in TimerUsers : v # u => tmUser'[v] = tmUser[v]
  <2>1. [step |-> "marked", timer |-> k] \in [step : UserSteps, timer : Timers \union {0}]
    BY DEF UserSteps
  <2> QED BY <2>1, <1>1, <1>t DEF TimersTypeOK
<1>4. TimersTypeOK'
  BY <1>1, <1>2, <1>3, <1>t DEF TimersTypeOK
<1>5. \A h \in Timers : /\ HasArmed(h)' <=> HasArmed(h)
                        /\ Listed(h)' <=> Listed(h)
                        /\ Given(h)' <=> Given(h)
  <2>1. \A h \in Timers : /\ HasArmed(h)' <=> HasArmed(h)
                          /\ Listed(h)' <=> Listed(h)
    BY <1>1, <1>2 DEF HasArmed, Listed
  <2>2. NotBusy.timer \notin Timers
    BY DEF NotBusy, Timers
  <2>3. \A h \in Timers : h # k => ((\E v \in TimerUsers : tmUser'[v].timer = h)
                                      <=> (\E v \in TimerUsers : tmUser[v].timer = h))
    BY <2>2, <1>1, <1>3
  <2> QED BY <2>1, <2>3, <1>1 DEF Given
<1>6. Numbered' /\ AllFine'
  <2>1. \A v \in TimerUsers : v # u /\ tmUser[v].step = "armed" =>
          /\ tmUser[v].timer \in DOMAIN tmArmed' /\ tmUser[v].timer \notin DOMAIN tmTable'
          /\ tmUser[v].timer \notin tmCancelled' /\ tmUser'[u].timer # tmUser[v].timer
    BY <1>1, <1>2, <1>3, ArmedUser DEF HasArmed, Listed
  <2>2. UserFine(u)'
    BY <1>1, <1>3 DEF UserFine
  <2> QED BY <2>1, <2>2, <1>1, <1>3, <1>5, UserMoves
<1>7. ASSUME NEW h \in Timers PROVE OnceFor(h)' /\ StopsFor(h)'
  <2>0. OnceFor(h) /\ StopsFor(h)
    BY DEF TimersInv
  <2>1. \A v \in TimerThreads : (TakenUp(v, h)' <=> TakenUp(v, h)) /\ (Picked(v, h)' <=> Picked(v, h))
    BY <1>1 DEF TakenUp, Picked
  <2>2. Listed(h) => (tmTable'[h].repeating <=> tmTable[h].repeating)
    BY <1>2 DEF Listed
  <2> QED BY <2>0, <2>1, <2>2, <1>1, <1>5, OtherTimer
<1> QED BY <1>4, <1>6, <1>7 DEF TimersInv

(***************************************************************************)
(* Windows deletes it from the queue: each thread may have one callback    *)
(* picked up and one expiration may wait.                                  *)
(***************************************************************************)
LEMMA DeleteKeeps ==
  ASSUME TimersInv, NEW u \in TimerUsers, deleteQueueTimer(u)
  PROVE  TimersInv'
<1>t. TimersTypeOK /\ Numbered /\ AllFine
  BY DEF TimersInv
<1>0. /\ NotBusy \in [step : UserSteps, timer : Timers \union {0}] /\ NotBusy.timer = 0 /\ 0 \notin Timers
      /\ NotBusy.step = "idle"
  BY DEF NotBusy, UserSteps, Timers
<1>1. PICK k \in Timers : tmUser[u].timer = k /\ tmPlatform = "windows" /\ tmUser[u].step = "marked"
  <2>1. tmUser[u].step = "marked" /\ UserFine(u)
    BY <1>t DEF deleteQueueTimer, AllFine
  <2> QED BY <2>1, <1>0 DEF UserFine
<1>2. /\ tmTable' = Dropped(tmTable, k) /\ tmArmed' = Dropped(tmArmed, k)
      /\ tmUser' = [tmUser EXCEPT ![u] = NotBusy]
      /\ tmCancelled' = tmCancelled \union {k}
      /\ UNCHANGED <<tmPlatform, tmExpired, tmThread, tmCalls, tmLate, tmLost>>
  BY <1>1 DEF deleteQueueTimer
<1>3. /\ tmTable' \in [DOMAIN tmTable' -> [repeating : BOOLEAN, cancelled : BOOLEAN]]
      /\ tmArmed' \in [DOMAIN tmArmed' -> [repeating : BOOLEAN, left : Nat]]
      /\ DOMAIN tmTable' = DOMAIN tmTable \ {k} /\ DOMAIN tmArmed' = DOMAIN tmArmed \ {k}
      /\ \A h \in DOMAIN tmTable : h # k => tmTable'[h] = tmTable[h]
      /\ \A h \in DOMAIN tmArmed : h # k => tmArmed'[h] = tmArmed[h]
  BY <1>2, <1>t DEF Dropped, TimersTypeOK
<1>4. /\ tmUser' \in [TimerUsers -> [step : UserSteps, timer : Timers \union {0}]]
      /\ tmUser'[u] = NotBusy
      /\ \A v \in TimerUsers : v # u => tmUser'[v] = tmUser[v]
  BY <1>0, <1>2, <1>t DEF TimersTypeOK
<1>5. TimersTypeOK'
  <2>1. DOMAIN tmTable' \subseteq Timers /\ DOMAIN tmArmed' \subseteq Timers /\ tmCancelled' \subseteq Timers
    BY <1>2, <1>3, <1>t DEF TimersTypeOK
  <2> QED BY <2>1, <1>2, <1>3, <1>4, <1>t DEF TimersTypeOK
<1>6. /\ \A h \in Timers : h # k => /\ HasArmed(h)' <=> HasArmed(h)
                                    /\ Listed(h)' <=> Listed(h)
                                    /\ h \in tmCancelled' <=> h \in tmCancelled
      /\ ~HasArmed(k)' /\ ~Listed(k)' /\ k \in tmCancelled'
  BY <1>2, <1>3 DEF HasArmed, Listed
<1>7. \A h \in Timers : Given(h)' <=> Given(h)
  <2>1. \A h \in Timers : h # k => ((\E v \in TimerUsers : tmUser'[v].timer = h)
                                      <=> (\E v \in TimerUsers : tmUser[v].timer = h))
    BY <1>0, <1>1, <1>4
  <2>2. Given(k)' /\ Given(k)
    BY <1>1, <1>6 DEF Given
  <2> QED BY <2>1, <2>2, <1>2, <1>6 DEF Given
<1>8. Numbered' /\ AllFine'
  <2>1. ASSUME NEW v \in TimerUsers, v # u, tmUser[v].step = "armed"
        PROVE  /\ tmUser[v].timer \in DOMAIN tmArmed' /\ tmUser[v].timer \notin DOMAIN tmTable'
               /\ tmUser[v].timer \notin tmCancelled' /\ tmUser'[u].timer # tmUser[v].timer
    <3>1. tmUser[v].timer \in Timers /\ tmUser[v].timer # k
      BY <2>1, <1>1, ArmedUser
    <3> QED BY <2>1, <3>1, <1>0, <1>2, <1>3, <1>4, ArmedUser DEF HasArmed, Listed
  <2>2. UserFine(u)'
    BY <1>4 DEF UserFine
  <2> QED BY <2>1, <2>2, <1>2, <1>4, <1>7, UserMoves
<1>9. ASSUME NEW h \in Timers PROVE OnceFor(h)' /\ StopsFor(h)'
  <2>0. OnceFor(h) /\ StopsFor(h)
    BY DEF TimersInv
  <2>1. \A v \in TimerThreads : (TakenUp(v, h)' <=> TakenUp(v, h)) /\ (Picked(v, h)' <=> Picked(v, h))
    BY <1>2 DEF TakenUp, Picked
  <2>2. CASE h # k
    <3>1. (HasArmed(h) => tmArmed'[h] = tmArmed[h]) /\ (Listed(h) => tmTable'[h] = tmTable[h])
      BY <2>2, <1>3 DEF HasArmed, Listed
    <3> QED BY <3>1, <2>0, <2>1, <2>2, <1>2, <1>6, OtherTimer
  <2>3. CASE h = k
    <3>1. OnceFor(k)'
      BY <1>6 DEF OnceFor, OneShot
    <3>2. PickedUp(k)' = PickedUp(k)
      BY <2>1, <2>3 DEF PickedUp
    <3>3. tmLate'[k] + Cardinality(PickedUp(k)) + (IF k \in tmExpired' THEN 1 ELSE 0)
            <= Cardinality(TimerThreads) + 1
      <4>1. CASE k \in tmCancelled
        BY <4>1, <2>0, <2>3, <1>1, <1>2 DEF StopsFor
      <4>2. CASE k \notin tmCancelled
        <5>1. tmLate'[k] = 0
          BY <4>2, <2>0, <2>3, <1>2 DEF StopsFor
        <5>2. /\ Cardinality(PickedUp(k)) \in Nat /\ Cardinality(TimerThreads) \in Nat
              /\ Cardinality(PickedUp(k)) <= Cardinality(TimerThreads)
          <6>1. PickedUp(k) \subseteq TimerThreads
            BY DEF PickedUp
          <6> QED BY <6>1, TimerAssumption, FS_Subset, FS_CardinalityType
        <5> QED BY <5>1, <5>2
      <4> QED BY <4>1, <4>2
    <3>4. StopsFor(k)'
      BY <3>2, <3>3, <1>1, <1>2, <1>6 DEF StopsFor
    <3> QED BY <3>1, <3>4, <2>3
  <2> QED BY <2>2, <2>3
<1> QED BY <1>5, <1>8, <1>9 DEF TimersInv

(***************************************************************************)
(* Every step of the timer PALs keeps the invariant.                       *)
(***************************************************************************)
LEMMA TimersStep == TimersInv /\ [TimersNext]_timerVars => TimersInv'
<1> SUFFICES ASSUME TimersInv, [TimersNext]_timerVars PROVE TimersInv'
  OBVIOUS
<1>1. CASE UNCHANGED timerVars
  <2>1. UNCHANGED <<tmPlatform, tmTable, tmArmed, tmExpired, tmThread, tmUser, tmCalls,
                    tmLate, tmCancelled, tmLost>>
    BY <1>1 DEF timerVars
  <2>2. TimersTypeOK' /\ Numbered' /\ AllFine'
    BY <2>1 DEF TimersInv, TimersTypeOK, Numbered, AllFine, ThreadFine, UserFine, Given, HasArmed, Listed
  <2>3. \A h \in Timers : OnceFor(h)' /\ StopsFor(h)'
    BY <2>1, OtherTimer DEF TimersInv, TakenUp, Picked, HasArmed, Listed
  <2> QED BY <2>2, <2>3 DEF TimersInv
<1>2. CASE \E h \in Timers : expire(h)
  BY <1>2, ExpireKeeps
<1>3. CASE \E t \in TimerThreads : TimerThreadStep(t)
  BY <1>3, LookupKeeps, CallBackKeeps, AfterCallKeeps, PickUpKeeps DEF TimerThreadStep
<1>4. CASE \E u \in TimerUsers : listTimer(u) \/ deleteQueueTimer(u)
  BY <1>4, ListKeeps, DeleteKeeps
<1>5. CASE \E u \in TimerUsers, r \in BOOLEAN :
             armTimer(u, r) \/ createTimerDarwin(u, r) \/ createTimerWindows(u, r)
  BY <1>5, CreateKeeps
<1>6. CASE \E u \in TimerUsers, h \in Timers :
             cancelTimerLinux(u, h) \/ cancelTimerDarwin(u, h) \/ markCancelled(u, h)
  BY <1>6, CancelKeeps, MarkKeeps
<1> QED BY <1>1, <1>2, <1>3, <1>4, <1>5, <1>6 DEF TimersNext

-----------------------------------------------------------------------------
(* What holds of the components.                                            *)

(***************************************************************************)
(* The handshakes: only an echo of S1 completes one, the chunk parser gets *)
(* the bytes behind C2 once and in order however TCP cuts them, and a      *)
(* handshake with a timer has one outcome unless the timeout overlaps.     *)
(***************************************************************************)
THEOREM HandshakesAreExact == SupervisionSpec => []HandshakeExact
<1>1. SupervisionInit => HandshakeInv /\ TimeoutInv
  <2> SUFFICES ASSUME HandshakeInit, TimeoutInit PROVE HandshakeInv /\ TimeoutInv
    BY DEF SupervisionInit
  <2>1. HandshakeInv
    <3>1. NoByte \in Nat
      BY HandshakeAssumption DEF NoByte, Total
    <3> QED BY <3>1 DEF HandshakeInit, HandshakeInv, HandshakeTypeOK, HandshakeStates,
              OnlyEchoCompletes, DataIntact
  <2>2. TimeoutInv
    BY DEF TimeoutInit, TimeoutInv, TimeoutTypeOK
  <2> QED BY <2>1, <2>2
<1>2. HandshakeInv /\ TimeoutInv /\ [SupervisionNext]_supervisionVars => (HandshakeInv /\ TimeoutInv)'
  BY OneAtATime, HandshakeStep, TimeoutStep
<1>3. HandshakeInv /\ TimeoutInv => HandshakeExact
  BY DEF HandshakeInv, TimeoutInv, HandshakeExact, OneOutcome, TimeoutTypeOK
<1> QED BY <1>1, <1>2, <1>3, PTL DEF SupervisionSpec

(***************************************************************************)
(* The coordinator's invariant holds throughout.                           *)
(***************************************************************************)
THEOREM ShutInvariance == SupervisionSpec => []ShutInv
<1>1. SupervisionInit => ShutInv
  <2> SUFFICES ASSUME ShutInit PROVE ShutInv
    BY DEF SupervisionInit
  <2>1. ShutTypeOK
    BY DEF ShutInit, ShutTypeOK, ShutIdle
  <2>2. \A t \in ShutThreads : shutPc[t].step = "idle"
    BY DEF ShutInit, ShutIdle
  <2> QED BY <2>1, <2>2 DEF ShutInit, ShutInv, Forcing
<1>2. ShutInv /\ [SupervisionNext]_supervisionVars => ShutInv'
  BY OneAtATime, ShutStep
<1> QED BY <1>1, <1>2, PTL DEF SupervisionSpec

(***************************************************************************)
(* The phases of a shutdown are not undone, unless forceShutdown ran       *)
(* beside shutdownComplete.                                                *)
(***************************************************************************)
THEOREM ShutdownGoesForward == SupervisionSpec => ShutdownForward
<1>1. ShutInv /\ [SupervisionNext]_supervisionVars
        => [~shutRaced => Phase(shutState) <= Phase(shutState')]_shutVars
  BY OneAtATime, ShutStep
<1> QED BY <1>1, ShutInvariance, PTL DEF SupervisionSpec, ShutdownForward

(***************************************************************************)
(* Crash reports end the process only where calls overlapped, a circuit    *)
(* breaker opens only for failures that reach its threshold, and a grace   *)
(* period that was stopped reports nothing any more.                       *)
(***************************************************************************)
THEOREM FailuresAreContained == SupervisionSpec => []FailuresContained
<1>1. SupervisionInit => IsoInv /\ ExtInv
  <2> SUFFICES ASSUME IsoInit, ExtInit PROVE IsoInv /\ ExtInv
    BY DEF SupervisionInit
  <2>1. IsoInv
    BY DEF IsoInit, IsoInv, IsoTypeOK, IsolationSound, NoThread
  <2>2. ExtInv
    <3>1. Due = {} /\ Owing = {}
      BY DEF ExtInit, ExtIdle, Due, Owing
    <3>2. Cardinality(Due) = 0 /\ Cardinality(Owing) = 0
      BY <3>1, FS_EmptySet
    <3>3. ExtTypeOK
      BY DEF ExtInit, ExtIdle, ExtTypeOK
    <3> QED BY <3>2, <3>3 DEF ExtInit, ExtIdle, ExtInv
  <2> QED BY <2>1, <2>2
<1>2. IsoInv /\ ExtInv /\ [SupervisionNext]_supervisionVars => (IsoInv /\ ExtInv)'
  BY OneAtATime, IsoStep, ExtStep
<1>3. IsoInv /\ ExtInv /\ ShutInv => FailuresContained
  <2> SUFFICES ASSUME IsoInv, ExtInv, ShutInv PROVE FailuresContained
    OBVIOUS
  <2>1. IsolationSound
    BY DEF IsoInv
  <2>2. StoppedTimerSilent
    BY DEF ShutInv, StoppedTimerSilent
  <2>3. CircuitJustified
    <3>1. Cardinality(Due) \in Nat /\ Cardinality(Owing) \in Nat
      BY ExtAssumption, FS_Subset, FS_CardinalityType DEF Due, Owing
    <3> QED BY <3>1 DEF ExtInv, ExtTypeOK, CircuitJustified, Justified
  <2> QED BY <2>1, <2>2, <2>3 DEF FailuresContained
<1> QED BY <1>1, <1>2, <1>3, ShutInvariance, PTL DEF SupervisionSpec

(***************************************************************************)
(* The thread and timer PALs: a work item is run once and none that was    *)
(* accepted is forgotten when the pool is destroyed, a thread is released  *)
(* once, a one-shot timer calls back once and after cancelTimer only what  *)
(* was picked up before still calls back.                                  *)
(***************************************************************************)
THEOREM EachIsDoneOnce == SupervisionSpec => []DoneOnce
<1>1. SupervisionInit => WorkInv /\ ThreadsInv /\ TimersInv
  <2> SUFFICES ASSUME WorkInit, ThreadsInit, TimersInit PROVE WorkInv /\ ThreadsInv /\ TimersInv
    BY DEF SupervisionInit
  <2>1. WorkInv
    <3>1. WorkTypeOK /\ InQueue = {}
      <4>1. wpQueue \in Seq(WorkItems) /\ InQueue = {}
        BY DEF WorkInit, InQueue
      <4>2. NoSubmit \in [step : SubmitSteps, item : WorkItems \union {0}]
        BY DEF NoSubmit, SubmitSteps
      <4>3. "ready" \in WorkerSteps
        BY DEF WorkerSteps
      <4> QED BY <4>1, <4>2, <4>3 DEF WorkInit, WorkTypeOK
    <3>2. (\A w \in PoolWorkers : ~Works(w)) /\ (\A s \in Submitters : ~Holding(s))
      BY DEF WorkInit, Works, Holding, NoSubmit
    <3>3. ItemsApart /\ ItemsKept
      BY <3>1, <3>2 DEF WorkInit, ItemsApart, ItemsKept
    <3>4. PoolEmptied
      BY DEF WorkInit, PoolEmptied
    <3> QED BY <3>1, <3>3, <3>4 DEF WorkInv
  <2>2. ThreadsInv
    <3>1. DOMAIN thrTable = {} /\ (\A j \in Joiners : thrPc[j].call = "none")
      BY DEF ThreadsInit, NotCalling
    <3>2. ThreadsTypeOK
      <4>1. thrTable \in [DOMAIN thrTable -> [joined : BOOLEAN, detached : BOOLEAN]]
        BY DEF ThreadsInit
      <4>2. NotCalling \in [call : ThreadCalls, handle : ThreadHandleSet \union {0}]
        BY DEF NotCalling, ThreadCalls
      <4> QED BY <3>1, <4>1, <4>2 DEF ThreadsInit, ThreadsTypeOK
    <3>3. \A h \in ThreadHandleSet : ~InTable(h) /\ thrReaped[h] = 0
      BY <3>1 DEF ThreadsInit, InTable
    <3>4. HandlesGiven
      <4>1. 0 \in 0 .. MaxThreads /\ \A h \in ThreadHandleSet : ~(h <= 0)
        BY ThreadsAssumption DEF ThreadHandleSet
      <4>2. \E n \in 0 .. MaxThreads : \A h \in ThreadHandleSet : (InTable(h) \/ thrReaped[h] > 0) <=> h <= n
        BY <4>1, <3>3
      <4> QED BY <4>2, <3>1 DEF ThreadsInit, HandlesGiven
    <3>5. \A h \in ThreadHandleSet : Releases(h)
      BY <3>1, <3>3 DEF Releases, ForHandle
    <3> QED BY <3>2, <3>4, <3>5 DEF ThreadsInv
  <2>3. TimersInv
    <3>1. /\ DOMAIN tmTable = {} /\ DOMAIN tmArmed = {} /\ NotBusy.step = "idle" /\ NotBusy.timer = 0
          /\ \A h \in Timers : ~Listed(h) /\ ~HasArmed(h) /\ h # 0
      BY DEF TimersInit, NotBusy, Listed, HasArmed, Timers
    <3>2. TimersTypeOK
      <4>1. /\ tmTable \in [DOMAIN tmTable -> [repeating : BOOLEAN, cancelled : BOOLEAN]]
            /\ tmArmed \in [DOMAIN tmArmed -> [repeating : BOOLEAN, left : Nat]]
        BY DEF TimersInit
      <4>2. /\ NotBusy \in [step : ThreadSteps, timer : Timers \union {0}]
            /\ NotBusy \in [step : UserSteps, timer : Timers \union {0}]
        BY DEF NotBusy, ThreadSteps, UserSteps
      <4> QED BY <3>1, <4>1, <4>2 DEF TimersInit, TimersTypeOK
    <3>3. \A h \in Timers : ~Given(h)
      BY <3>1 DEF TimersInit, Given
    <3>4. Numbered
      <4>1. 0 \in 0 .. MaxTimers /\ \A h \in Timers : ~(h <= 0)
        BY TimerAssumption DEF Timers
      <4> QED BY <4>1, <3>3 DEF Numbered
    <3>5. AllFine
      BY <3>1 DEF TimersInit, AllFine, ThreadFine, UserFine
    <3>6. \A h \in Timers : OnceFor(h) /\ StopsFor(h)
      BY <3>1 DEF TimersInit, OnceFor, OneShot, StopsFor
    <3> QED BY <3>2, <3>4, <3>5, <3>6 DEF TimersInv
  <2> QED BY <2>1, <2>2, <2>3
<1>2. WorkInv /\ ThreadsInv /\ TimersInv /\ [SupervisionNext]_supervisionVars
        => (WorkInv /\ ThreadsInv /\ TimersInv)'
  BY OneAtATime, WorkStep, ThreadsStep, TimersStep
<1>3. WorkInv /\ ThreadsInv /\ TimersInv => DoneOnce
  <2> SUFFICES ASSUME WorkInv, ThreadsInv, TimersInv PROVE DoneOnce
    OBVIOUS
  <2>1. WorkRunOnce
    <3>1. \A i \in WorkItems : wpRuns[i] <= 1
      BY DEF WorkInv, ItemsApart
    <3>2. ASSUME wpDestroy = "done", ~wpRaced PROVE \A i \in wpAccepted : wpRuns[i] = 1
      <4>1. wpQueue = <<>> /\ \A w \in PoolWorkers : ~Works(w)
        BY <3>2 DEF WorkInv, PoolEmptied, Drained, Works
      <4>2. InQueue = {}
        BY <4>1 DEF InQueue
      <4> QED BY <4>1, <4>2 DEF WorkInv, ItemsKept
    <3> QED BY <3>1, <3>2 DEF WorkRunOnce
  <2>2. ThreadsReapedOnce
    <3>1. \A h \in ThreadHandleSet \ thrMisused :
            thrReaped[h] <= 1 \/ (thrPlatform = "darwin" /\ thrReaped[h] = 2 /\ thrTable[h].joined)
      BY DEF ThreadsInv, Releases
    <3>2. \A h \in thrJoined : h \notin thrRunning /\ thrReaped[h] > 0
      BY DEF ThreadsInv, HandlesGiven
    <3> QED BY <3>1, <3>2 DEF ThreadsReapedOnce
  <2>3. CancelStopsTimer
    <3> SUFFICES ASSUME NEW h \in Timers
                 PROVE /\ tmLate[h] <= IF tmPlatform = "windows" THEN Cardinality(TimerThreads) + 1 ELSE 1
                       /\ Listed(h) /\ ~tmTable[h].repeating => tmCalls[h] <= 1
      BY DEF CancelStopsTimer, Listed
    <3>0. OnceFor(h) /\ StopsFor(h) /\ tmLate[h] \in Nat
      BY DEF TimersInv, TimersTypeOK
    <3>1. Listed(h) /\ ~tmTable[h].repeating => tmCalls[h] <= 1
      BY <3>0 DEF OnceFor, OneShot
    <3>2. CASE h \notin tmCancelled
      <4>1. Cardinality(TimerThreads) \in Nat /\ tmLate[h] = 0
        BY <3>0, <3>2, TimerAssumption, FS_CardinalityType DEF StopsFor
      <4> QED BY <3>1, <4>1
    <3>3. CASE h \in tmCancelled /\ tmPlatform # "windows"
      BY <3>0, <3>1, <3>3 DEF StopsFor
    <3>4. CASE h \in tmCancelled /\ tmPlatform = "windows"
      <4>1. PickedUp(h) \subseteq TimerThreads
        BY DEF PickedUp
      <4>2. Cardinality(PickedUp(h)) \in Nat /\ Cardinality(TimerThreads) \in Nat
        BY <4>1, TimerAssumption, FS_Subset, FS_CardinalityType
      <4>3. tmLate[h] + Cardinality(PickedUp(h)) + (IF h \in tmExpired THEN 1 ELSE 0)
              <= Cardinality(TimerThreads) + 1
        BY <3>0, <3>4 DEF StopsFor
      <4>4. tmLate[h] <= Cardinality(TimerThreads) + 1
        BY ONLY <4>2, <4>3, <3>0
      <4> QED BY <4>4, <3>1, <3>4
    <3> QED BY <3>2, <3>3, <3>4
  <2> QED BY <2>1, <2>2, <2>3 DEF DoneOnce
<1> QED BY <1>1, <1>2, <1>3, PTL DEF SupervisionSpec
================================================================================
