---------------------------- MODULE ServicesProofs ----------------------------
(***************************************************************************)
(* Proofs about the services around the server.  They share no state, so a *)
(* step of the whole is, for each of them, one of its own steps or none:   *)
(* each has an inductive invariant over its own variables.                 *)
(***************************************************************************)
EXTENDS MCServices, FiniteSetTheorems, SequenceTheorems, TLAPS

(***************************************************************************)
(* Every service sees its own steps only.                                  *)
(***************************************************************************)
LEMMA OneService ==
  ASSUME [ServicesNext]_servicesVars
  PROVE  /\ [PoolNext]_poolVars /\ [SlotNext]_slotVars /\ [LifeNext]_lifeVars
         /\ [SessionNext]_sessionVars /\ [PubNext]_pubVars
         /\ [TLSNext]_tlsVars /\ [LinuxNext]_linuxVars /\ [MonitorNext]_monitorVars
         /\ [AuthNext]_authVars /\ [AclNext]_aclVars /\ [ConfigNext]_configVars
         /\ [CounterNext \/ SampleNext]_metricVars /\ [LogNext]_logVars
<1>1. CASE UNCHANGED servicesVars
  BY <1>1 DEF servicesVars
<1>2. CASE ServicesNext
  BY <1>2 DEF ServicesNext, Elsewhere
<1> QED BY <1>1, <1>2

-----------------------------------------------------------------------------
(* ServerLifecycleManager                                                   *)

LifeStates == {"Uninitialized", "Initialized", "Starting", "Running", "Stopping", "Stopped"}
LifeSteps == {"idle", "create", "starting", "components", "accept", "run", "stopping", "stop"}

LifeParts == Components \union {"Logger"}

LifeTypeOK ==
  /\ lifeState \in LifeStates
  /\ accepting \in BOOLEAN /\ tlsLoaded \in BOOLEAN
  /\ lifeRaced \in BOOLEAN /\ lifeRestarted \in BOOLEAN
  /\ components \subseteq Components
  /\ lifePc \in [LifeThreads -> [step : LifeSteps, left : Seq(LifeParts)]]

\* What a call that is alone may rely on, at each of its steps.
StepSound(step, left) ==
  /\ step = "create" => lifeState = "Uninitialized" /\ ~accepting
  /\ step = "starting" => lifeState \in {"Initialized", "Stopped"}
  /\ step \in {"starting", "components", "accept"} => ~accepting
  /\ step = "run" => accepting
  /\ step \in {"starting", "components", "accept", "run"} /\ ~lifeRestarted =>
       components = Components
  /\ step = "stop" => /\ ~accepting
                      /\ \A c \in components : \E i \in DOMAIN left : left[i] = c
                      /\ tlsLoaded => \E i \in DOMAIN left : left[i] = "TLSService"

\* Calls that did not overlap ran one at a time, each from a consistent state.
LifeInv ==
  /\ LifeTypeOK
  /\ ~lifeRaced =>
       /\ \A t, u \in LifeThreads : t # u => "idle" \in {lifePc[t].step, lifePc[u].step}
       /\ \A t \in LifeThreads : StepSound(lifePc[t].step, lifePc[t].left)
  /\ LifecycleConsistent

LifePcs == [step : LifeSteps, left : Seq(LifeParts)]

\* What LifecycleConsistent says of a state in which no call is under way.
AtRest ==
  /\ accepting <=> lifeState = "Running"
  /\ lifeState \in {"Initialized", "Running"} /\ ~lifeRestarted => components = Components
  /\ lifeState = "Stopped" => components = {} /\ ~tlsLoaded

(***************************************************************************)
(* A step of one thread keeps the invariant if, when no call overlapped    *)
(* it, it leaves what its next step relies on, or a consistent state.      *)
(***************************************************************************)
LEMMA LifeMove ==
  ASSUME LifeInv, NEW t \in LifeThreads, NEW p \in LifePcs,
         lifePc' = [lifePc EXCEPT ![t] = p], LifeTypeOK',
         ~lifeRaced' => /\ ~lifeRaced
                        /\ \A u \in LifeThreads \ {t} : lifePc[u].step = "idle"
                        /\ StepSound(p.step, p.left)'
                        /\ p.step = "idle" => AtRest'
  PROVE  LifeInv'
<1> USE DEF LifeTypeOK
<1>1. lifePc'[t] = p /\ \A u \in LifeThreads \ {t} : lifePc'[u] = lifePc[u]
  BY DEF LifeInv
<1>2. ASSUME ~lifeRaced' PROVE /\ \A u, v \in LifeThreads : u # v => "idle" \in {lifePc'[u].step, lifePc'[v].step}
                               /\ \A u \in LifeThreads : StepSound(lifePc[u].step, lifePc[u].left)'
  BY <1>1, <1>2 DEF StepSound
<1>3. LifecycleConsistent'
  BY <1>1 DEF LifecycleConsistent, AtRest
<1> QED BY <1>2, <1>3 DEF LifeInv

(***************************************************************************)
(* Every call of ServerLifecycleManager keeps the invariant.               *)
(***************************************************************************)
LEMMA LifeStep ==
  ASSUME LifeInv, [LifeNext]_lifeVars
  PROVE  LifeInv'
<1> USE DEF LifeTypeOK
<1>u. CASE UNCHANGED lifeVars
  BY <1>u DEF lifeVars, LifeInv, StepSound, LifecycleConsistent
<1>t. LifeTypeOK
  BY DEF LifeInv
<1>a. ASSUME NEW t \in LifeThreads, lifePc[t].step # "idle", ~lifeRaced
      PROVE  /\ \A u \in LifeThreads \ {t} : lifePc[u].step = "idle"
             /\ StepSound(lifePc[t].step, lifePc[t].left)
  BY <1>a DEF LifeInv
<1>p. ASSUME NEW t \in LifeThreads, NEW s \in LifeSteps
      PROVE  /\ [lifePc[t] EXCEPT !.step = s] = [step |-> s, left |-> lifePc[t].left]
             /\ [step |-> s, left |-> lifePc[t].left] \in LifePcs
  BY <1>t DEF LifePcs
<1>r. LifeResting \in LifePcs /\ LifeResting.step = "idle"
  BY DEF LifePcs, LifeResting, LifeSteps
<1>b. ASSUME NEW t \in LifeThreads, NEW s \in LifeSteps, Begin(t, s), s # "idle",
             lifeState' = lifeState, accepting' = accepting, components' = components,
             tlsLoaded' = tlsLoaded, lifeRestarted' \in BOOLEAN,
             (~lifeRaced /\ AtRest) => StepSound(s, lifePc[t].left)'
      PROVE  LifeInv'
  <2>1. lifePc' = [lifePc EXCEPT ![t] = [step |-> s, left |-> lifePc[t].left]]
    BY <1>b, <1>p, <1>t DEF Begin
  <2>2. LifeTypeOK'
    BY <1>b, <1>t, <1>p, <2>1 DEF Begin, LifePcs
  <2>3. ASSUME ~lifeRaced'
        PROVE ~lifeRaced /\ \A u \in LifeThreads : lifePc[u].step = "idle"
    BY <2>3, <1>b DEF Begin
  <2>4. ~lifeRaced' => AtRest
    BY <2>3 DEF LifeInv, LifecycleConsistent, AtRest
  <2> QED BY <2>1, <2>2, <2>3, <2>4, <1>b, <1>p, LifeMove
<1>n. CASE LifeNext
  <2>1. ASSUME NEW t \in LifeThreads, NEW c \in LifecycleConfigs, rejectConfig(t, c)
        PROVE  LifeInv'
    BY <2>1 DEF rejectConfig, LifeInv, StepSound, LifecycleConsistent
  <2>2. ASSUME NEW t \in LifeThreads, NEW c \in LifecycleConfigs, initialize(t, c)
        PROVE  LifeInv'
    <3>1. "create" \in LifeSteps
      BY DEF LifeSteps
    <3> QED BY <2>2, <3>1, <1>b, <1>t DEF initialize, StepSound, AtRest
  <2>3. ASSUME NEW t \in LifeThreads, startLifecycle(t) PROVE LifeInv'
    <3>1. "starting" \in LifeSteps
      BY DEF LifeSteps
    <3> QED BY <2>3, <3>1, <1>b, <1>t DEF startLifecycle, StepSound, AtRest
  <2>4. ASSUME NEW t \in LifeThreads, shutdownLifecycle(t) PROVE LifeInv'
    <3>1. "stopping" \in LifeSteps
      BY DEF LifeSteps
    <3> QED BY <2>4, <3>1, <1>b, <1>t DEF shutdownLifecycle, StepSound, AtRest
  <2>5. ASSUME NEW t \in LifeThreads, initializeComponents(t) PROVE LifeInv'
    <3>1. LifeTypeOK'
      BY <2>5, <1>t, <1>r DEF initializeComponents, LifePcs, LifeStates
    <3>2. ~lifeRaced' => AtRest'
      BY <2>5, <1>a DEF initializeComponents, AtRest, StepSound
    <3> QED BY <2>5, <3>1, <3>2, <1>a, <1>r, LifeMove DEF initializeComponents, StepSound
  <2>6. ASSUME NEW t \in LifeThreads, storeStarting(t) PROVE LifeInv'
    <3>0. "components" \in LifeSteps
      BY DEF LifeSteps
    <3>1. LifeTypeOK'
      BY <2>6, <1>t, <1>p, <3>0 DEF storeStarting, LifePcs, LifeStates
    <3>2. lifePc' = [lifePc EXCEPT ![t] = [step |-> "components", left |-> lifePc[t].left]]
      BY <2>6, <1>p, <3>0, <1>t DEF storeStarting
    <3>3. ~lifeRaced' => StepSound("components", lifePc[t].left)'
      BY <2>6, <1>a DEF storeStarting, StepSound
    <3> QED BY <2>6, <3>0, <3>1, <3>2, <3>3, <1>a, <1>p, LifeMove DEF storeStarting
  <2>7. ASSUME NEW t \in LifeThreads, startComponents(t) PROVE LifeInv'
    <3>0. "accept" \in LifeSteps
      BY DEF LifeSteps
    <3>t. tlsLoaded' \in BOOLEAN
      BY <2>7, <1>t DEF startComponents
    <3>1. LifeTypeOK'
      BY <2>7, <1>t, <1>p, <3>0, <3>t DEF startComponents, LifePcs
    <3>2. lifePc' = [lifePc EXCEPT ![t] = [step |-> "accept", left |-> lifePc[t].left]]
      BY <2>7, <1>p, <3>0, <1>t DEF startComponents
    <3>3. ~lifeRaced' => StepSound("accept", lifePc[t].left)'
      BY <2>7, <1>a DEF startComponents, StepSound
    <3> QED BY <2>7, <3>0, <3>1, <3>2, <3>3, <1>a, <1>p, LifeMove DEF startComponents
  <2>8. ASSUME NEW t \in LifeThreads, finishStart(t), lifePc[t].step = "accept" PROVE LifeInv'
    <3>0. "run" \in LifeSteps
      BY DEF LifeSteps
    <3>1. LifeTypeOK'
      BY SMTT(60), <2>8, <1>t, <1>p, <3>0 DEF finishStart, LifePcs
    <3>2. lifePc' = [lifePc EXCEPT ![t] = [step |-> "run", left |-> lifePc[t].left]]
      BY <2>8, <1>p, <3>0, <1>t DEF finishStart
    <3>3. ~lifeRaced' => StepSound("run", lifePc[t].left)'
      BY <2>8, <1>a DEF finishStart, StepSound
    <3> QED BY <2>8, <3>0, <3>1, <3>2, <3>3, <1>a, <1>p, LifeMove DEF finishStart
  <2>9. ASSUME NEW t \in LifeThreads, finishStart(t), lifePc[t].step # "accept" PROVE LifeInv'
    <3>1. LifeTypeOK'
      BY <2>9, <1>t, <1>r DEF finishStart, LifePcs, LifeStates
    <3>2. ~lifeRaced' => AtRest'
      BY <2>9, <1>a DEF finishStart, AtRest, StepSound
    <3> QED BY <2>9, <3>1, <3>2, <1>a, <1>r, LifeMove DEF finishStart, StepSound
  <2>10. ASSUME NEW t \in LifeThreads, storeStopping(t) PROVE LifeInv'
    <3> DEFINE p == [step |-> "stop", left |-> ShutdownOrder]
    <3>o. ShutdownOrder \in Seq(LifeParts)
      <4>1. /\ "ConnectionPool" \in LifeParts /\ "AuthService" \in LifeParts /\ "TLSService" \in LifeParts
            /\ "StreamRegistry" \in LifeParts /\ "ShutdownCoordinator" \in LifeParts
            /\ "ErrorIsolation" \in LifeParts /\ "MetricsCollector" \in LifeParts
            /\ "ConfigManager" \in LifeParts /\ "Logger" \in LifeParts
        BY DEF LifeParts, Components
      <4> QED BY <4>1 DEF ShutdownOrder
    <3>0. p \in LifePcs
      BY <3>o DEF LifeSteps, LifePcs
    <3>1. LifeTypeOK'
      BY <2>10, <1>t, <3>0 DEF storeStopping, LifePcs, LifeStates
    <3>2. \A c \in Components : \E i \in DOMAIN ShutdownOrder : ShutdownOrder[i] = c
      <4>1. /\ DOMAIN ShutdownOrder = 1..9
            /\ ShutdownOrder[1] = "ConnectionPool" /\ ShutdownOrder[2] = "AuthService"
            /\ ShutdownOrder[3] = "TLSService" /\ ShutdownOrder[4] = "StreamRegistry"
            /\ ShutdownOrder[5] = "ShutdownCoordinator" /\ ShutdownOrder[6] = "ErrorIsolation"
            /\ ShutdownOrder[7] = "MetricsCollector" /\ ShutdownOrder[8] = "ConfigManager"
        BY DEF ShutdownOrder
      <4> QED BY <4>1 DEF Components
    <3>3. ~lifeRaced' => StepSound(p.step, p.left)'
      BY <2>10, <1>t, <1>a, <3>2 DEF storeStopping, StepSound, Components
    <3> QED BY <2>10, <3>0, <3>1, <3>3, <1>a, LifeMove DEF storeStopping
  <2>11. ASSUME NEW t \in LifeThreads, shutdownComponents(t) PROVE LifeInv'
    <3>0. PICK q \in Seq(LifeParts) : q = lifePc[t].left
      BY <1>t
    <3>s. /\ q # <<>> /\ lifePc[t].step = "stop" /\ "stop" \in LifeSteps
          /\ lifePc[t] = [step |-> "stop", left |-> q]
      BY <2>11, <1>t, <3>0 DEF shutdownComponents, LifeSteps
    <3> DEFINE r == Tail(q)
    <3>l. r \in Seq(LifeParts) /\ Len(r) = Len(q) - 1 /\ \A i \in 1..Len(r) : r[i] = q[i + 1]
      BY <3>s
    <3>q. \A i \in DOMAIN q : i = 1 \/ \E j \in DOMAIN r : r[j] = q[i]
      <4>1. ASSUME NEW i \in 1..Len(q), i # 1 PROVE \E j \in 1..Len(r) : r[j] = q[i]
        <5>1. i - 1 \in 1..Len(r) /\ (i - 1) + 1 = i
          BY <4>1, <3>l
        <5> QED BY <5>1, <3>l
      <4>2. DOMAIN q = 1..Len(q) /\ DOMAIN r = 1..Len(r)
        BY <3>l
      <4> QED BY <4>1, <4>2
    <3> HIDE DEF r
    <3>p. PICK p \in LifePcs : p = [step |-> "stop", left |-> r]
      BY <3>l, <3>s DEF LifePcs
    <3>2. lifePc' = [lifePc EXCEPT ![t] = p]
      <4>1. [[step |-> "stop", left |-> q] EXCEPT !.left = r] = p
        BY <3>p
      <4>2. lifePc[t].left = q
        BY <3>0
      <4>3. [lifePc[t] EXCEPT !.left = Tail(@)] = p
        BY <4>1, <4>2, <3>s DEF r
      <4> QED BY <2>11, <4>3 DEF shutdownComponents
    <3>1. LifeTypeOK'
      BY ZenonT(60), <2>11, <1>t, <3>2, <3>p DEF shutdownComponents, LifePcs
    <3>h. components' = components \ {q[1]} /\ tlsLoaded' = (tlsLoaded /\ q[1] # "TLSService")
          /\ UNCHANGED <<accepting, lifeRaced, lifeRestarted>>
      BY <2>11, <3>0, <3>s DEF shutdownComponents
    <3>3. ASSUME ~lifeRaced' PROVE /\ ~accepting'
                                   /\ \A c \in components' : \E i \in DOMAIN r : r[i] = c
                                   /\ tlsLoaded' => \E i \in DOMAIN r : r[i] = "TLSService"
      <4>1. /\ ~accepting
            /\ \A c \in components : \E i \in DOMAIN q : q[i] = c
            /\ tlsLoaded => \E i \in DOMAIN q : q[i] = "TLSService"
        BY <3>3, <3>h, <1>a, <3>0, <3>s DEF StepSound
      <4>2. \A c \in components : c # q[1] => \E i \in DOMAIN r : r[i] = c
        BY <4>1, <3>q
      <4>3. tlsLoaded /\ q[1] # "TLSService" => \E i \in DOMAIN r : r[i] = "TLSService"
        BY <4>1, <3>q
      <4> QED BY <4>1, <4>2, <4>3, <3>h
    <3>4. ~lifeRaced' => StepSound(p.step, p.left)' /\ p.step = "stop"
      BY <3>3, <3>p DEF StepSound
    <3> QED BY <3>s, <3>h, <3>1, <3>2, <3>4, <1>a, LifeMove
  <2>12. ASSUME NEW t \in LifeThreads, finishStop(t) PROVE LifeInv'
    <3>1. LifeTypeOK'
      BY <2>12, <1>t, <1>r DEF finishStop, LifePcs, LifeStates
    <3>2. ~lifeRaced' => AtRest'
      BY <2>12, <1>a, <1>t DEF finishStop, AtRest, StepSound
    <3> QED BY <2>12, <3>1, <3>2, <1>a, <1>r, LifeMove DEF finishStop, StepSound
  <2> QED BY <1>n, <2>1, <2>2, <2>3, <2>4, <2>5, <2>6, <2>7, <2>8, <2>9, <2>10, <2>11, <2>12
          DEF LifeNext, LifeGoOn
<1> QED BY <1>u, <1>n

(***************************************************************************)
(* Between calls of ServerLifecycleManager that did not overlap the server *)
(* admits connections exactly while it runs, has all its components while  *)
(* it has not been restarted, and none once it is stopped.                 *)
(***************************************************************************)
THEOREM LifecycleIsConsistent == ServicesSpec => []LifecycleConsistent
<1>1. ServicesInit => LifeInv
  <2> SUFFICES ASSUME LifeInit PROVE LifeInv
    BY DEF ServicesInit
  <2>0. LifeResting \in [step : LifeSteps, left : Seq(LifeParts)] /\ LifeResting.step = "idle"
    BY DEF LifeResting, LifeSteps
  <2>1. LifeTypeOK /\ \A t \in LifeThreads : lifePc[t].step = "idle"
    BY ZenonT(60), <2>0 DEF LifeInit, LifeTypeOK, LifeStates
  <2> QED BY <2>1 DEF LifeInit, LifeInv, StepSound, LifecycleConsistent
<1>2. LifeInv /\ [ServicesNext]_servicesVars => LifeInv'
  BY OneService, LifeStep
<1>3. LifeInv => LifecycleConsistent
  BY DEF LifeInv
<1> QED BY <1>1, <1>2, <1>3, PTL DEF ServicesSpec
-----------------------------------------------------------------------------
(* LinuxNetworkPAL and the network monitor                                  *)

LinuxTypeOK ==
  /\ lnOps \in Seq(OpTypes) /\ lnBatch \in Seq(OpTypes)
  /\ lnCallback \in [OpTypes -> BOOLEAN]
  /\ lnInterest \in [{"server", "client"} -> SUBSET {"in", "out"}]
  /\ lnEdge \in [{"server", "client"} -> SUBSET {"in", "out"}]
  /\ lnEvents \in [{"server", "client"} -> SUBSET {"in", "out"}]
  /\ lnWaiting \in [{"server", "client"} -> Nat]
  /\ lnListed \in BOOLEAN /\ lnPeerOpen \in BOOLEAN /\ lnStuck \in BOOLEAN

\* Both sockets are watched for input for as long as they are open, and nobody
\* waits for a client that is gone.
LinuxInv ==
  /\ LinuxTypeOK
  /\ "in" \in lnInterest["server"]
  /\ lnListed => "in" \in lnInterest["client"]
  /\ ~lnListed => ~lnCallback["read"]
  /\ EdgesNotLost

MonitorTypeOK ==
  /\ nmType \in NetworkTypes /\ nmAddress \in NetworkTypes /\ nmConnected \in BOOLEAN
  /\ nmGone \in Nat /\ nmClock \in Nat
  /\ nmPc \in [Rebinders -> [step : {"idle", "allowed"}, type : NetworkTypes]]
  /\ nmCallback \in [step : {"none", "connected", "typed"}, up : BOOLEAN, type : NetworkTypes]

\* The system's callback is remembered while it runs, and the time of a
\* disconnection has passed.
MonitorInv ==
  /\ MonitorTypeOK
  /\ nmGone <= nmClock
  /\ nmCallback.step # "none" => "network" \in nmSince
  /\ \A r \in Rebinders : nmPc[r].step = "allowed" => nmPc[r].type # "None"
  /\ NetworkStateAgrees

(***************************************************************************)
(* Every step of the Linux event loop, its callers and its peers keeps the *)
(* invariant.                                                              *)
(***************************************************************************)
LEMMA LinuxStep ==
  ASSUME LinuxInv, [LinuxNext]_linuxVars
  PROVE  LinuxInv'
<1> DEFINE Ends == {"server", "client"}
           Sets == SUBSET {"in", "out"}
<1>t. LinuxTypeOK
  BY DEF LinuxInv
<1>e. /\ lnCallback["accept"] /\ lnWaiting["server"] > 0 => "in" \in lnEdge["server"] \union lnEvents["server"]
      /\ lnCallback["read"] /\ lnListed /\ Readable("client") =>
           "in" \in lnEdge["client"] \union lnEvents["client"] \/ lnStuck
  BY DEF LinuxInv, EdgesNotLost
<1>o. OpTypes = {"accept", "read", "write"}
  BY DEF OpTypes
<1>u. CASE UNCHANGED linuxVars
  BY <1>u, <1>t, <1>e DEF linuxVars, LinuxInv, LinuxTypeOK, EdgesNotLost, Readable
<1>1. ASSUME NEW s \in Ends, arrive(s) PROVE LinuxInv'
  <2>1. LinuxTypeOK'
    BY <1>1, <1>t DEF arrive, LinuxTypeOK
  <2>2. CASE s = "server"
    BY <2>1, <2>2, <1>1, <1>t, <1>e DEF arrive, LinuxInv, LinuxTypeOK, EdgesNotLost, Readable
  <2>3. CASE s = "client"
    BY <2>1, <2>3, <1>1, <1>t, <1>e DEF arrive, LinuxInv, LinuxTypeOK, EdgesNotLost, Readable
  <2> QED BY <2>2, <2>3
<1>2. CASE takeSent
  <2>1. LinuxTypeOK'
    BY <1>2, <1>t DEF takeSent, LinuxTypeOK
  <2> QED BY <2>1, <1>2, <1>t, <1>e DEF takeSent, LinuxInv, LinuxTypeOK, EdgesNotLost, Readable
<1>3. CASE peerCloses
  <2>1. LinuxTypeOK'
    BY <1>3, <1>t DEF peerCloses, LinuxTypeOK
  <2> QED BY <2>1, <1>3, <1>t, <1>e DEF peerCloses, LinuxInv, LinuxTypeOK, EdgesNotLost, Readable
<1>4. ASSUME NEW type \in OpTypes, async(type) PROVE LinuxInv'
  <2>1. LinuxTypeOK'
    BY <1>4, <1>t DEF async, LinuxTypeOK
  <2> QED BY <2>1, <1>4, <1>t, <1>e DEF async, LinuxInv, LinuxTypeOK, EdgesNotLost, Readable
<1>5. CASE closeClient
  <2>1. LinuxTypeOK'
    BY <1>5, <1>t DEF closeClient, LinuxTypeOK
  <2> QED BY <2>1, <1>5, <1>t, <1>e, <1>o DEF closeClient, LinuxInv, LinuxTypeOK, EdgesNotLost, Readable
<1>6. CASE takeOps
  <2>1. LinuxTypeOK'
    BY <1>6, <1>t DEF takeOps, LinuxTypeOK
  <2> QED BY <2>1, <1>6, <1>t, <1>e DEF takeOps, LinuxInv, LinuxTypeOK, EdgesNotLost, Readable
<1>7. CASE processPendingOps
  <2> DEFINE type == Head(lnBatch)
  <2>0. type \in OpTypes /\ Tail(lnBatch) \in Seq(OpTypes)
    BY <1>7, <1>t DEF processPendingOps, LinuxTypeOK
  <2>1. CASE install /\ (type = "accept" \/ lnListed)
    <3>1. PICK interest \in Sets : /\ "in" \in interest
                                   /\ Register(SocketOf(type), interest)
      BY <2>1 DEF install
    <3>2. /\ lnCallback' = [lnCallback EXCEPT ![type] = TRUE]
          /\ lnBatch' = Tail(lnBatch)
          /\ UNCHANGED <<lnOps, lnEvents, lnWaiting, lnListed, lnPeerOpen, lnStuck>>
      BY <1>7, <2>1 DEF processPendingOps, install
    <3>3. SocketOf(type) \in Ends
      BY DEF SocketOf
    <3>4. ReadyEvents(SocketOf(type), interest) \in Sets
      BY DEF ReadyEvents
    <3>5. LinuxTypeOK'
      BY <3>1, <3>2, <3>3, <3>4, <2>0, <1>t DEF Register, LinuxTypeOK
    <3>6. Readable(SocketOf(type)) => "in" \in ReadyEvents(SocketOf(type), interest)
      BY <3>1 DEF ReadyEvents
    <3>7. CASE type = "accept"
      BY <3>1, <3>2, <3>3, <3>5, <3>6, <3>7, <1>t, <1>e, <1>o
         DEF Register, LinuxInv, LinuxTypeOK, EdgesNotLost, Readable, SocketOf
    <3>8. CASE type # "accept"
      BY <3>1, <3>2, <3>3, <3>5, <3>6, <3>8, <2>0, <2>1, <1>t, <1>e, <1>o
         DEF Register, LinuxInv, LinuxTypeOK, EdgesNotLost, Readable, SocketOf
    <3> QED BY <3>7, <3>8
  <2>2. CASE UNCHANGED <<lnCallback, lnInterest, lnEdge>>
    BY <1>7, <2>0, <2>2, <1>t, <1>e DEF processPendingOps, LinuxInv, LinuxTypeOK, EdgesNotLost, Readable
  <2> QED BY <2>1, <2>2, <1>7 DEF processPendingOps
<1>8. CASE processEvents
  <2>1. /\ lnEvents' = lnEdge /\ lnEdge'["server"] = {} /\ lnEdge'["client"] = {}
        /\ lnEdge' = [s \in Ends |-> {}]
        /\ lnEvents["server"] = {} /\ lnEvents["client"] = {}
        /\ UNCHANGED <<lnOps, lnBatch, lnCallback, lnInterest, lnWaiting, lnListed, lnPeerOpen, lnStuck>>
    <3>1. lnEdge' = [server |-> {}, client |-> {}] /\ lnEvents = [server |-> {}, client |-> {}]
      BY <1>8 DEF processEvents, BetweenTurns
    <3>2. lnEdge' = [s \in Ends |-> {}]
      BY <3>1
    <3> QED BY <1>8, <3>1, <3>2 DEF processEvents
  <2>2. LinuxTypeOK'
    BY <2>1, <1>t DEF LinuxTypeOK
  <2> QED BY <2>1, <2>2, <1>e DEF LinuxInv, EdgesNotLost, Readable
<1>9. CASE handleAccept
  <2>1. LinuxTypeOK'
    <3>1. lnWaiting["server"] > 0 => lnWaiting["server"] - 1 \in Nat
      BY <1>t DEF LinuxTypeOK
    <3>2. lnWaiting' \in [Ends -> Nat] /\ lnCallback' \in [OpTypes -> BOOLEAN]
      BY <1>9, <3>1, <1>t DEF handleAccept, LinuxTypeOK
    <3>3. /\ lnListed' \in BOOLEAN /\ lnPeerOpen' \in BOOLEAN
          /\ lnInterest' \in [Ends -> Sets]
      <4>1. lnInterest' = lnInterest \/ lnInterest' = [lnInterest EXCEPT !.client = {"in"}]
        BY <1>9 DEF handleAccept
      <4>2. lnInterest' \in [Ends -> Sets]
        BY <4>1, <1>t DEF LinuxTypeOK
      <4>3. \/ lnListed' = lnListed /\ lnPeerOpen' = lnPeerOpen
            \/ lnListed' = TRUE /\ lnPeerOpen' = TRUE
        BY <1>9 DEF handleAccept
      <4> QED BY <4>2, <4>3, <1>t DEF LinuxTypeOK
    <3>4. lnEvents' \in [Ends -> Sets]
      BY <1>9, <1>t DEF handleAccept, Handled, LinuxTypeOK
    <3> QED BY <1>9, <3>2, <3>3, <3>4, <1>t DEF handleAccept, LinuxTypeOK
  <2>2. /\ lnEvents'["client"] = lnEvents["client"] /\ lnWaiting'["client"] = lnWaiting["client"]
        /\ lnEdge' = lnEdge /\ lnStuck' = lnStuck /\ lnCallback'["read"] = lnCallback["read"]
        /\ lnInterest'["server"] = lnInterest["server"]
    BY <1>9, <1>t, <1>o DEF handleAccept, Handled, LinuxTypeOK
  <2>3. lnCallback'["accept"] => lnWaiting'["server"] = 0
    BY <1>9, <1>t, <1>o DEF handleAccept, LinuxTypeOK
  <2>4. \/ lnListed /\ UNCHANGED <<lnListed, lnPeerOpen, lnInterest>>
        \/ ~lnListed /\ UNCHANGED <<lnListed, lnPeerOpen, lnInterest>>
        \/ ~lnListed /\ lnListed' /\ "in" \in lnInterest'["client"]
    BY <1>9, <1>t DEF handleAccept, LinuxTypeOK
  <2> QED BY <2>1, <2>2, <2>3, <2>4, <1>e DEF LinuxInv, EdgesNotLost, Readable
<1>10. CASE handleRead
  <2>1. LinuxTypeOK'
    <3>1. lnWaiting["client"] # 0 => lnWaiting["client"] - 1 \in Nat
      BY <1>t DEF LinuxTypeOK
    <3>2. lnWaiting' \in [Ends -> Nat]
      BY <1>10, <3>1, <1>t DEF handleRead, LinuxTypeOK
    <3> QED BY <1>10, <3>2, <1>t DEF handleRead, Handled, CallUnderLock, LinuxTypeOK
  <2> QED BY <2>1, <1>10, <1>t, <1>e, <1>o DEF handleRead, Handled, LinuxInv, LinuxTypeOK, EdgesNotLost, Readable
<1>11. CASE passOverRead
  <2>1. LinuxTypeOK'
    BY <1>11, <1>t DEF passOverRead, Handled, LinuxTypeOK
  <2> QED BY <2>1, <1>11, <1>t, <1>e, <1>o DEF passOverRead, Handled, LinuxInv, LinuxTypeOK, EdgesNotLost, Readable
<1>12. CASE handleWritable
  <2>0. ReadyEvents("client", {"in"}) \in Sets
        /\ (Readable("client") => "in" \in ReadyEvents("client", {"in"}))
    BY DEF ReadyEvents
  <2>1. LinuxTypeOK'
    BY <1>12, <2>0, <1>t DEF handleWritable, Handled, Register, CallUnderLock, LinuxTypeOK
  <2> QED BY <2>0, <2>1, <1>12, <1>t, <1>e, <1>o
          DEF handleWritable, Handled, Register, LinuxInv, LinuxTypeOK, EdgesNotLost, Readable
<1>13. CASE writePart
  <2>1. LinuxTypeOK'
    BY <1>13, <1>t DEF writePart, Handled, LinuxTypeOK
  <2> QED BY <2>1, <1>13, <1>t, <1>e, <1>o DEF writePart, Handled, LinuxInv, LinuxTypeOK, EdgesNotLost, Readable
<1> QED BY <1>u, <1>1, <1>2, <1>3, <1>4, <1>5, <1>6, <1>7, <1>8, <1>9, <1>10, <1>11, <1>12, <1>13
        DEF LinuxNext, LinuxLoop

(***************************************************************************)
(* Every step of the rebinders and of the system's callback keeps the      *)
(* monitor's invariant.                                                    *)
(***************************************************************************)
LEMMA MonitorStep ==
  ASSUME MonitorInv, [MonitorNext]_monitorVars
  PROVE  MonitorInv'
<1> USE MonitorAssumption DEF MonitorInv, MonitorTypeOK
<1>g. ASSUME nmGone' \in Nat, nmClock' \in Nat, nmGone' <= nmClock', nmConnected' \in BOOLEAN
      PROVE  /\ getRemainingGracePeriod' \in 0..GracePeriod
             /\ getRemainingGracePeriod' > 0 => ~nmConnected'
  <2>1. CASE isInGracePeriod'
    <3>1. getRemainingGracePeriod' = GracePeriod - (nmClock' - nmGone') /\ ~nmConnected'
          /\ nmClock' - nmGone' < GracePeriod
      BY <2>1 DEF getRemainingGracePeriod, isInGracePeriod
    <3>2. PICK d \in Nat : d = nmClock' - nmGone'
      <4>1. ASSUME NEW a \in Nat, NEW b \in Nat, b <= a PROVE a - b \in Nat
        BY ONLY <4>1
      <4> QED BY ONLY <4>1, <1>g
    <3>3. getRemainingGracePeriod' = GracePeriod - d /\ d < GracePeriod
      BY <3>1, <3>2
    <3>4. GracePeriod - d \in 0..GracePeriod
      BY ONLY <3>2, <3>3, MonitorAssumption
    <3> QED BY <3>1, <3>3, <3>4
  <2>2. CASE ~isInGracePeriod'
    <3>1. getRemainingGracePeriod' = 0
      BY <2>2 DEF getRemainingGracePeriod
    <3> QED BY <3>1
  <2> QED BY <2>1, <2>2
<1> DEFINE Agrees == /\ "network" \notin nmSince => nmConnected /\ nmAddress = nmType /\ nmType # "None"
                     /\ nmSince = {} => isNetworkTypeAllowed(nmType)
<1>h. Agrees
  BY DEF NetworkStateAgrees
<1>i. ASSUME MonitorTypeOK', nmGone' <= nmClock',
             nmCallback'.step # "none" => "network" \in nmSince',
             \A r \in Rebinders : nmPc'[r].step = "allowed" => nmPc'[r].type # "None",
             Agrees'
      PROVE  MonitorInv'
  BY <1>g, <1>i DEF NetworkStateAgrees
<1>u. CASE UNCHANGED monitorVars
  BY <1>u, <1>i, <1>h DEF monitorVars, isNetworkTypeAllowed
<1>c. ASSUME NEW r \in Rebinders, NEW type \in Networks, checkAllowed(r, type) PROVE MonitorInv'
  <2>1. MonitorTypeOK'
    BY <1>c DEF checkAllowed, NetworkTypes
  <2>2. \A q \in Rebinders : nmPc'[q].step = "allowed" => nmPc'[q].type # "None"
    BY <1>c DEF checkAllowed, Networks
  <2> QED BY <1>c, <1>h, <1>i, <2>1, <2>2 DEF checkAllowed, isNetworkTypeAllowed
<1>1. ASSUME NEW allowed, setAllowedNetworks(allowed) PROVE MonitorInv'
  BY <1>1, <1>h, <1>i DEF setAllowedNetworks, isNetworkTypeAllowed
<1>2. CASE resetDataUsageWarning
  BY <1>2, <1>h, <1>i DEF resetDataUsageWarning, isNetworkTypeAllowed
<1>3. ASSUME NEW b \in BOOLEAN, enableCellularDataWarning(b) PROVE MonitorInv'
  BY <1>3, <1>h, <1>i DEF enableCellularDataWarning, isNetworkTypeAllowed
<1>4. ASSUME NEW r \in Rebinders, attemptAutomaticRebind(r) PROVE MonitorInv'
  <2>1. "WiFi" \in Networks /\ "Cellular" \in Networks /\ "Ethernet" \in Networks
    BY DEF Networks
  <2> QED BY <1>4, <1>c, <2>1 DEF attemptAutomaticRebind
<1>5. ASSUME NEW r \in Rebinders, rebindToInterface(r) PROVE MonitorInv'
  <2>1. MonitorTypeOK'
    BY <1>5 DEF rebindToInterface, NoRebind, NetworkTypes
  <2>2. \A q \in Rebinders : nmPc'[q].step = "allowed" => nmPc'[q].type # "None"
    BY <1>5 DEF rebindToInterface, NoRebind
  <2>3. nmCallback'.step # "none" => "network" \in nmSince'
    BY <1>5 DEF rebindToInterface
  <2>4. Agrees'
    BY <1>5 DEF rebindToInterface, isNetworkTypeAllowed
  <2> QED BY <1>5, <1>i, <2>1, <2>2, <2>3, <2>4 DEF rebindToInterface
<1>6. ASSUME NEW up \in BOOLEAN, NEW type \in NetworkTypes, onNetworkCallback(up, type)
      PROVE  MonitorInv'
  BY <1>6, <1>h, <1>i DEF onNetworkCallback
<1>7. CASE writeType
  <2>1. MonitorTypeOK' /\ nmGone' <= nmClock'
    BY <1>7 DEF writeType
  <2> QED BY <1>7, <1>h, <1>i, <2>1 DEF writeType
<1>8. CASE tellChange
  <2>1. NoReport \in [step : {"none", "connected", "typed"}, up : BOOLEAN, type : NetworkTypes]
    BY DEF NoReport, NetworkTypes
  <2> QED BY <1>8, <1>h, <1>i, <2>1 DEF tellChange, NoReport, isNetworkTypeAllowed
<1>9. CASE passTime
  BY <1>9, <1>h, <1>i DEF passTime, isNetworkTypeAllowed
<1> QED BY <1>u, <1>c, <1>1, <1>2, <1>3, <1>4, <1>5, <1>6, <1>7, <1>8, <1>9 DEF MonitorNext

(***************************************************************************)
(* No edge that epoll reports is lost to a callback that waits for it, and *)
(* after a rebind the network, the connection and the address belong       *)
(* together until the system reports a change.                             *)
(***************************************************************************)
THEOREM PlatformStateIsKept == ServicesSpec => []PlatformStateKept
<1>1. ServicesInit => LinuxInv /\ MonitorInv
  <2> SUFFICES ASSUME LinuxInit, MonitorInit PROVE LinuxInv /\ MonitorInv
    BY DEF ServicesInit
  <2>1. LinuxTypeOK
    <3>1. /\ lnInterest = [s \in {"server", "client"} |-> IF s = "server" THEN {"in"} ELSE {}]
          /\ lnEdge = [s \in {"server", "client"} |-> {}]
          /\ lnEvents = [s \in {"server", "client"} |-> {}]
          /\ lnWaiting = [s \in {"server", "client"} |-> 0]
      <4>0. /\ lnInterest = [server |-> {"in"}, client |-> {}]
            /\ lnEdge = [server |-> {}, client |-> {}] /\ lnEvents = [server |-> {}, client |-> {}]
            /\ lnWaiting = [server |-> 0, client |-> 0]
        BY DEF LinuxInit
      <4>1. lnInterest = [s \in {"server", "client"} |-> IF s = "server" THEN {"in"} ELSE {}]
        BY <4>0
      <4>2. lnEdge = [s \in {"server", "client"} |-> {}]
        BY <4>0
      <4>3. lnEvents = [s \in {"server", "client"} |-> {}]
        BY <4>0
      <4>4. lnWaiting = [s \in {"server", "client"} |-> 0]
        BY <4>0
      <4> QED BY <4>1, <4>2, <4>3, <4>4
    <3>2. /\ lnInterest \in [{"server", "client"} -> SUBSET {"in", "out"}]
          /\ lnEdge \in [{"server", "client"} -> SUBSET {"in", "out"}]
          /\ lnEvents \in [{"server", "client"} -> SUBSET {"in", "out"}]
          /\ lnWaiting \in [{"server", "client"} -> Nat]
      BY <3>1
    <3>3. /\ lnCallback \in [OpTypes -> BOOLEAN] /\ lnListed \in BOOLEAN /\ lnPeerOpen \in BOOLEAN
          /\ lnStuck \in BOOLEAN
      BY DEF LinuxInit
    <3>4. lnOps \in Seq(OpTypes) /\ lnBatch \in Seq(OpTypes)
      BY DEF LinuxInit
    <3> QED BY <3>2, <3>3, <3>4 DEF LinuxTypeOK
  <2>2. LinuxInv
    BY <2>1 DEF LinuxInit, LinuxInv, EdgesNotLost, OpTypes
  <2>3. MonitorInv
    BY MonitorAssumption DEF MonitorInit, MonitorInv, MonitorTypeOK, NetworkStateAgrees, Networks,
       NetworkTypes, NoRebind, NoReport, isNetworkTypeAllowed, getRemainingGracePeriod, isInGracePeriod
  <2> QED BY <2>2, <2>3
<1>2. LinuxInv /\ MonitorInv /\ [ServicesNext]_servicesVars => (LinuxInv /\ MonitorInv)'
  BY OneService, LinuxStep, MonitorStep
<1>3. LinuxInv /\ MonitorInv => PlatformStateKept
  BY DEF LinuxInv, MonitorInv, PlatformStateKept
<1> QED BY <1>1, <1>2, <1>3, PTL DEF ServicesSpec
-----------------------------------------------------------------------------
(* TLSService                                                               *)

TLSKinds == {"context", "connection"}
TLSHandles == TLSKinds \X Nat \X Nat

TLSTypeOK ==
  /\ tlsInitialized \in BOOLEAN /\ hasCertificate \in BOOLEAN
  /\ nextContextId \in Nat /\ nextConnectionId \in Nat /\ epoch \in Nat
  /\ contexts \subseteq Nat
  /\ connectionsTLS \subseteq Nat \X Nat \X Nat
  /\ issued \in Seq(TLSHandles)
  /\ pins \in Seq([hash : PinHashes, isPrimary : BOOLEAN])

NextTLSId(kind) == IF kind = "context" THEN nextContextId ELSE nextConnectionId

\* The handle of this kind and number was handed out since the last shutdown.
IssuedNow(kind, n) == \E i \in DOMAIN issued : issued[i] = <<kind, n, epoch>>

\* No number is handed out twice.
NumbersUsedOnce ==
  /\ \A i \in DOMAIN issued : issued[i][2] < NextTLSId(issued[i][1])
  /\ \A i, j \in DOMAIN issued :
       issued[i][1] = issued[j][1] /\ issued[i][2] = issued[j][2] => i = j

\* What there is was handed out since the last shutdown.
TLSInv ==
  /\ TLSTypeOK
  /\ NumbersUsedOnce
  /\ \A c \in contexts : IssuedNow("context", c)
  /\ \A x \in connectionsTLS :
       IssuedNow("connection", x[1]) /\ IssuedNow("context", x[2]) /\ x[3] = epoch
  /\ ~tlsInitialized => contexts = {} /\ connectionsTLS = {} /\ ~hasCertificate
  /\ \A i \in DOMAIN pins : pins[i].isPrimary => i = 1

(***************************************************************************)
(* Steps that hand out nothing and end no epoch keep the invariant if they *)
(* only take connections and contexts away.                                *)
(***************************************************************************)
LEMMA TLSKeeps ==
  ASSUME TLSInv, TLSTypeOK',
         UNCHANGED <<nextContextId, nextConnectionId, epoch, issued>>,
         contexts' \subseteq contexts,
         connectionsTLS' \subseteq connectionsTLS,
         ~tlsInitialized' => contexts' = {} /\ connectionsTLS' = {} /\ ~hasCertificate',
         \A i \in DOMAIN pins' : pins'[i].isPrimary => i = 1
  PROVE  TLSInv'
<1>1. \A k, n : IssuedNow(k, n)' <=> IssuedNow(k, n)
  BY DEF IssuedNow
<1>2. \A k : NextTLSId(k)' = NextTLSId(k)
  BY DEF NextTLSId
<1>3. \A x \in connectionsTLS' :
        IssuedNow("connection", x[1])' /\ IssuedNow("context", x[2])' /\ x[3] = epoch'
  BY <1>1 DEF TLSInv
<1>4. \A c \in contexts' : IssuedNow("context", c)'
  BY <1>1 DEF TLSInv
<1>5. NumbersUsedOnce'
  BY <1>2 DEF TLSInv, NumbersUsedOnce
<1> QED BY <1>3, <1>4, <1>5 DEF TLSInv

(***************************************************************************)
(* A handle that is handed out has a number of its own.                    *)
(***************************************************************************)
LEMMA TLSIssues ==
  ASSUME TLSInv, NEW kind \in TLSKinds,
         issued' = Append(issued, <<kind, NextTLSId(kind), epoch>>), epoch' = epoch,
         NextTLSId(kind)' = NextTLSId(kind) + 1,
         \A k \in TLSKinds \ {kind} : NextTLSId(k)' = NextTLSId(k)
  PROVE  /\ issued' \in Seq(TLSHandles)
         /\ NumbersUsedOnce'
         /\ \A k, n : IssuedNow(k, n) => IssuedNow(k, n)'
<1>n. PICK n \in Nat : n = NextTLSId(kind)
  BY DEF TLSInv, TLSTypeOK, NextTLSId
<1>h. PICK h : h = <<kind, n, epoch>>
  OBVIOUS
<1>1. h \in TLSHandles /\ h[1] = kind /\ h[2] = n /\ h[3] = epoch
  BY <1>h, <1>n DEF TLSHandles, TLSInv, TLSTypeOK
<1>2. PICK s \in Seq(TLSHandles) : s = issued
  BY DEF TLSInv, TLSTypeOK
<1>3. /\ issued' = Append(s, h) /\ issued' \in Seq(TLSHandles)
      /\ DOMAIN issued' = 1..(Len(s) + 1) /\ DOMAIN s = 1..Len(s)
      /\ issued'[Len(s) + 1] = h /\ \A i \in 1..Len(s) : issued'[i] = s[i]
  BY <1>1, <1>2, <1>h, <1>n
<1>4. \A i \in DOMAIN issued' : i \in DOMAIN s \/ i = Len(s) + 1
  BY <1>3
<1>5. \A i \in DOMAIN s : s[i] \in TLSHandles /\ s[i][1] \in TLSKinds /\ s[i][2] \in Nat
  BY <1>2 DEF TLSHandles
<1>6. \A i \in DOMAIN s : s[i][2] < NextTLSId(s[i][1])
  BY <1>2 DEF TLSInv, NumbersUsedOnce
<1>7. \A i \in DOMAIN s : s[i][1] = kind => s[i][2] < n
  BY <1>6, <1>n
<1>8. \A i \in DOMAIN s : s[i][2] < NextTLSId(s[i][1])'
  <2>1. ASSUME NEW i \in DOMAIN s, s[i][1] = kind PROVE s[i][2] < NextTLSId(s[i][1])'
    <3>1. NextTLSId(s[i][1])' = n + 1 /\ s[i][2] \in Nat /\ s[i][2] < n
      BY <2>1, <1>5, <1>7, <1>n
    <3> QED BY <3>1, <1>n
  <2>2. ASSUME NEW i \in DOMAIN s, s[i][1] # kind PROVE s[i][2] < NextTLSId(s[i][1])'
    BY <2>2, <1>5, <1>6
  <2> QED BY <2>1, <2>2
<1>9. ASSUME NEW i \in DOMAIN issued' PROVE (issued[i][2] < NextTLSId(issued[i][1]))'
  <2>1. CASE i \in DOMAIN s
    BY <2>1, <1>3, <1>8
  <2>2. CASE i = Len(s) + 1
    <3>1. issued'[i] = h /\ h[1] = kind /\ h[2] = n
      BY <2>2, <1>3, <1>1
    <3>2. NextTLSId(kind)' = n + 1 /\ n < n + 1
      BY <1>n
    <3> QED BY <3>1, <3>2
  <2> QED BY <2>1, <2>2, <1>4
<1>10. \A i, j \in DOMAIN issued' :
         issued'[i][1] = issued'[j][1] /\ issued'[i][2] = issued'[j][2] => i = j
  <2>1. \A i, j \in DOMAIN s : s[i][1] = s[j][1] /\ s[i][2] = s[j][2] => i = j
    BY <1>2 DEF TLSInv, NumbersUsedOnce
  <2>2. \A i \in DOMAIN s : ~(s[i][1] = h[1] /\ s[i][2] = h[2])
    BY <1>7, <1>1, <1>5
  <2> QED BY SMTT(60), <2>1, <2>2, <1>3, <1>4
<1>11. ASSUME NEW k, NEW m, IssuedNow(k, m) PROVE IssuedNow(k, m)'
  BY <1>11, <1>2, <1>3 DEF IssuedNow
<1>13. NumbersUsedOnce'
  BY <1>9, <1>10 DEF NumbersUsedOnce
<1> QED BY <1>3, <1>11, <1>13, <1>n

(***************************************************************************)
(* Every operation of TLSService keeps the invariant.                      *)
(***************************************************************************)
LEMMA TLSStep ==
  ASSUME TLSInv, [TLSNext]_tlsVars
  PROVE  TLSInv'
<1>t. TLSTypeOK
  BY DEF TLSInv
<1>s. /\ \A i \in DOMAIN pins : pins[i].isPrimary => i = 1
      /\ ~tlsInitialized => contexts = {} /\ connectionsTLS = {} /\ ~hasCertificate
  BY DEF TLSInv
<1>u. CASE UNCHANGED tlsVars
  <2>1. TLSTypeOK'
    BY <1>u, <1>t DEF tlsVars, TLSTypeOK
  <2> QED BY <1>u, <1>s, <2>1, TLSKeeps DEF tlsVars
<1>1. CASE initializeTLS
  <2>1. TLSTypeOK'
    BY <1>1, <1>t DEF initializeTLS, handleVars, settingVars, TLSTypeOK
  <2> QED BY <1>1, <1>s, <2>1, TLSKeeps DEF initializeTLS, handleVars, settingVars
<1>2. CASE shutdownTLS
  <2>1. TLSTypeOK'
    <3>1. epoch + 1 \in Nat
      BY <1>t DEF TLSTypeOK
    <3> QED BY <1>2, <1>t, <3>1 DEF shutdownTLS, settingVars, TLSTypeOK
  <2>2. NumbersUsedOnce'
    BY <1>2 DEF shutdownTLS, NextTLSId, TLSInv, NumbersUsedOnce
  <2> QED BY <1>2, <1>s, <2>1, <2>2 DEF shutdownTLS, settingVars, TLSInv
<1>3. ASSUME NEW v, createContext(v) PROVE TLSInv'
  <2>0. /\ issued' = Append(issued, <<"context", NextTLSId("context"), epoch>>) /\ epoch' = epoch
        /\ NextTLSId("context")' = NextTLSId("context") + 1
        /\ \A k \in TLSKinds \ {"context"} : NextTLSId(k)' = NextTLSId(k)
        /\ "context" \in TLSKinds /\ NextTLSId("context") = nextContextId
    BY <1>3 DEF createContext, NextTLSId, TLSKinds
  <2>1. /\ issued' \in Seq(TLSHandles)
        /\ NumbersUsedOnce'
        /\ \A k, n : IssuedNow(k, n) => IssuedNow(k, n)'
    BY <2>0, TLSIssues
  <2>2. TLSTypeOK'
    BY <1>3, <1>t, <2>1 DEF createContext, settingVars, TLSTypeOK
  <2>n. PICK n \in Nat : n = nextContextId
    BY <1>t DEF TLSTypeOK
  <2>3. \A c \in contexts' : IssuedNow("context", c)'
    <3>1. IssuedNow("context", n)'
      <4>1. PICK s \in Seq(TLSHandles) : s = issued
        BY <1>t DEF TLSTypeOK
      <4>2. Len(s) + 1 \in DOMAIN issued' /\ issued'[Len(s) + 1] = <<"context", n, epoch'>>
        BY <4>1, <2>0, <2>n
      <4> QED BY <4>2 DEF IssuedNow
    <3>2. contexts' = contexts \union {n}
      BY <1>3, <2>n DEF createContext
    <3>3. \A c \in contexts : IssuedNow("context", c)'
      BY <2>1 DEF TLSInv
    <3> QED BY <3>1, <3>2, <3>3
  <2>4. UNCHANGED <<connectionsTLS, epoch, pins, tlsInitialized>> /\ tlsInitialized
    BY <1>3 DEF createContext, settingVars
  <2>5. \A x \in connectionsTLS' :
          IssuedNow("connection", x[1])' /\ IssuedNow("context", x[2])' /\ x[3] = epoch'
    BY <2>1, <2>4 DEF TLSInv
  <2>6. \A i \in DOMAIN pins' : pins'[i].isPrimary => i = 1
    BY <2>4, <1>s
  <2> QED BY <2>1, <2>2, <2>3, <2>4, <2>5, <2>6 DEF TLSInv
<1>4. ASSUME NEW c, destroyContext(c) PROVE TLSInv'
  <2>1. TLSTypeOK'
    BY <1>4, <1>t DEF destroyContext, settingVars, TLSTypeOK
  <2> QED BY <1>4, <1>s, <2>1, TLSKeeps DEF destroyContext, settingVars
<1>5. ASSUME NEW c, wrapConnection(c) PROVE TLSInv'
  <2>0. /\ issued' = Append(issued, <<"connection", NextTLSId("connection"), epoch>>) /\ epoch' = epoch
        /\ NextTLSId("connection")' = NextTLSId("connection") + 1
        /\ \A k \in TLSKinds \ {"connection"} : NextTLSId(k)' = NextTLSId(k)
        /\ "connection" \in TLSKinds /\ NextTLSId("connection") = nextConnectionId
    BY <1>5 DEF wrapConnection, NextTLSId, TLSKinds
  <2>1. /\ issued' \in Seq(TLSHandles)
        /\ NumbersUsedOnce'
        /\ \A k, n : IssuedNow(k, n) => IssuedNow(k, n)'
    BY <2>0, TLSIssues
  <2>n. PICK n \in Nat : n = nextConnectionId
    BY <1>t DEF TLSTypeOK
  <2>x. PICK x : x = <<n, c, epoch>>
    OBVIOUS
  <2>c. c \in contexts /\ c \in Nat /\ tlsInitialized /\ x \in Nat \X Nat \X Nat
        /\ x[1] = n /\ x[2] = c /\ x[3] = epoch
    BY <1>5, <1>s, <1>t, <2>n, <2>x DEF wrapConnection, TLSTypeOK
  <2>3. IssuedNow("connection", n)'
    <3>1. PICK s \in Seq(TLSHandles) : s = issued
      BY <1>t DEF TLSTypeOK
    <3>2. Len(s) + 1 \in DOMAIN issued' /\ issued'[Len(s) + 1] = <<"connection", n, epoch'>>
      BY <3>1, <2>0, <2>n
    <3> QED BY <3>2 DEF IssuedNow
  <2>5. connectionsTLS' = connectionsTLS \union {x}
    BY <1>5, <2>n, <2>x DEF wrapConnection
  <2>6. /\ UNCHANGED <<tlsInitialized, hasCertificate, contexts, nextContextId, pins>>
        /\ nextConnectionId' = n + 1
    BY <1>5, <2>n DEF wrapConnection, settingVars
  <2>7. TLSTypeOK'
    BY <1>t, <2>0, <2>1, <2>5, <2>6, <2>n, <2>c DEF TLSTypeOK
  <2>8. \A d \in contexts' : IssuedNow("context", d)'
    BY <2>1, <2>6 DEF TLSInv
  <2>9. ASSUME NEW y \in connectionsTLS'
        PROVE  IssuedNow("connection", y[1])' /\ IssuedNow("context", y[2])' /\ y[3] = epoch'
    <3>1. CASE y = x
      BY <3>1, <2>3, <2>8, <2>6, <2>c, <2>0
    <3>2. CASE y \in connectionsTLS
      <4>1. IssuedNow("connection", y[1]) /\ IssuedNow("context", y[2]) /\ y[3] = epoch
        BY <3>2 DEF TLSInv
      <4> QED BY <4>1, <2>1, <2>0
    <3> QED BY <3>1, <3>2, <2>5
  <2>10. \A i \in DOMAIN pins' : pins'[i].isPrimary => i = 1
    BY <2>6, <1>s
  <2> QED BY <2>1, <2>6, <2>7, <2>8, <2>9, <2>c, <2>10 DEF TLSInv
<1>6. ASSUME NEW n, closeTLSConnection(n) PROVE TLSInv'
  <2>1. connectionsTLS' \subseteq connectionsTLS
    BY <1>6 DEF closeTLSConnection
  <2>2. UNCHANGED <<tlsInitialized, hasCertificate, contexts, nextContextId, nextConnectionId,
                    epoch, issued, pins>> /\ tlsInitialized
    BY <1>6, <1>s DEF closeTLSConnection, settingVars
  <2>3. TLSTypeOK'
    BY <1>t, <2>1, <2>2 DEF TLSTypeOK
  <2> QED BY <1>s, <2>1, <2>2, <2>3, TLSKeeps
<1>7. ASSUME NEW b, loadCertificate(b) PROVE TLSInv'
  <2>1. TLSTypeOK'
    BY <1>7, <1>t DEF loadCertificate, handleVars, settingVars, TLSTypeOK
  <2> QED BY <1>7, <1>s, <2>1, TLSKeeps DEF loadCertificate, handleVars, settingVars
<1>p. ASSUME NEW p \in Seq([hash : PinHashes, isPrimary : BOOLEAN]), NEW m, NEW a, NEW b,
             \A i \in DOMAIN p : p[i].isPrimary => i = 1, Setting(p, m, a, b)
      PROVE  TLSInv'
  <2>1. TLSTypeOK'
    BY <1>p, <1>t DEF Setting, handleVars, TLSTypeOK
  <2> QED BY <1>p, <1>s, <2>1, TLSKeeps DEF Setting, handleVars
<1>q. pins \in Seq([hash : PinHashes, isPrimary : BOOLEAN])
  BY <1>t DEF TLSTypeOK
<1>8. requestACMECertificate \/ clearCertificatePins
      \/ (\E b \in BOOLEAN : configureMTLS(b))
      \/ (\E m \in {"Enforce", "ReportOnly"} : setPinEnforcementMode(m)) => TLSInv'
  <2>1. <<>> \in Seq([hash : PinHashes, isPrimary : BOOLEAN]) /\ DOMAIN <<>> = {}
    OBVIOUS
  <2> QED BY <1>p, <1>q, <1>s, <2>1
          DEF requestACMECertificate, clearCertificatePins, configureMTLS, setPinEnforcementMode
<1>9. ASSUME NEW h \in PinHashes, addCertificatePin(h) PROVE TLSInv'
  <2>0. PICK q \in Seq([hash : PinHashes, isPrimary : BOOLEAN]) : q = pins
    BY <1>q
  <2>1. PICK x \in [hash : PinHashes, isPrimary : BOOLEAN] :
          x = [hash |-> h, isPrimary |-> pins = <<>>]
    <3>1. (pins = <<>>) \in BOOLEAN
      OBVIOUS
    <3> QED BY <3>1
  <2>2. x.isPrimary => Len(q) = 0
    BY <2>0, <2>1
  <2>3. /\ Append(q, x) \in Seq([hash : PinHashes, isPrimary : BOOLEAN])
        /\ DOMAIN Append(q, x) = 1..(Len(q) + 1) /\ DOMAIN q = 1..Len(q)
        /\ Append(q, x)[Len(q) + 1] = x /\ \A i \in 1..Len(q) : Append(q, x)[i] = q[i]
    BY <2>0, <2>1
  <2>4. \A i \in DOMAIN Append(q, x) : Append(q, x)[i].isPrimary => i = 1
    BY <2>0, <2>2, <2>3, <1>s
  <2> QED BY <1>9, <1>p, <2>0, <2>1, <2>3, <2>4 DEF addCertificatePin
<1>10. ASSUME NEW h \in PinHashes, removeCertificatePin(h) PROVE TLSInv'
  <2>0. PICK q \in Seq([hash : PinHashes, isPrimary : BOOLEAN]) : q = pins
    BY <1>q
  <2>1. PICK i \in 1..Len(q) :
          Setting(SubSeq(q, 1, i - 1) \o SubSeq(q, i + 1, Len(q)), pinEnforcementMode, acmeConfigured, mtlsEnabled)
    BY <1>10, <2>0 DEF removeCertificatePin
  <2> DEFINE PinSet == [hash : PinHashes, isPrimary : BOOLEAN]
  <2>2. PICK r \in Seq(PinSet) : r = SubSeq(q, 1, i - 1) /\ Len(r) = i - 1
                               /\ \A k \in 1..(i - 1) : r[k] = q[k]
    <3> HIDE DEF PinSet
    <3>1. q \in Seq(PinSet) /\ i \in 1..Len(q)
      BY <2>0, <2>1 DEF PinSet
    <3>2. PICK n \in Nat : n = i - 1
      BY <3>1
    <3>3. \A k \in 1..n : q[k] \in PinSet
      BY <3>1, <3>2
    <3>4. /\ SubSeq(q, 1, n) \in Seq(PinSet)
          /\ Len(SubSeq(q, 1, n)) = IF 1 <= n THEN n - 1 + 1 ELSE 0
          /\ \A k \in 1..(n - 1 + 1) : SubSeq(q, 1, n)[k] = q[1 + k - 1]
      BY <3>2, <3>3, SubSeqProperties
    <3>5. (IF 1 <= n THEN n - 1 + 1 ELSE 0) = n /\ n - 1 + 1 = n /\ \A k \in 1..n : 1 + k - 1 = k
      BY <3>2
    <3> QED BY <3>2, <3>4, <3>5
  <2>3. PICK s \in Seq(PinSet) : s = SubSeq(q, i + 1, Len(q)) /\ Len(s) = Len(q) - i
                               /\ \A k \in 1..(Len(q) - i) : s[k] = q[i + k]
    <3> HIDE DEF PinSet
    <3>1. q \in Seq(PinSet) /\ i \in 1..Len(q)
      BY <2>0, <2>1 DEF PinSet
    <3>2. PICK n \in Nat : n = Len(q)
      BY <3>1
    <3>3. \A k \in (i + 1)..n : q[k] \in PinSet
      BY <3>1, <3>2
    <3>4. /\ SubSeq(q, i + 1, n) \in Seq(PinSet)
          /\ Len(SubSeq(q, i + 1, n)) = IF i + 1 <= n THEN n - (i + 1) + 1 ELSE 0
          /\ \A k \in 1..(n - (i + 1) + 1) : SubSeq(q, i + 1, n)[k] = q[(i + 1) + k - 1]
      BY <3>1, <3>2, <3>3, SubSeqProperties
    <3>5. /\ (IF i + 1 <= n THEN n - (i + 1) + 1 ELSE 0) = n - i /\ n - (i + 1) + 1 = n - i
          /\ \A k \in 1..(n - i) : (i + 1) + k - 1 = i + k
      BY <3>1, <3>2
    <3> QED BY ZenonT(60), <3>2, <3>4, <3>5
  <2>4. r \o s \in Seq([hash : PinHashes, isPrimary : BOOLEAN])
    BY <2>2, <2>3
  <2>5. ASSUME NEW k \in DOMAIN (r \o s), (r \o s)[k].isPrimary PROVE k = 1
    <3>r. r \in Seq(PinSet) /\ s \in Seq(PinSet)
      BY <2>2, <2>3
    <3> HIDE DEF PinSet
    <3>a. PICK a \in Nat : a = Len(r)
      BY <3>r
    <3>b. PICK b \in Nat : b = Len(s)
      BY <3>r
    <3>0. a = Len(r) /\ b = Len(s)
      BY <3>a, <3>b
    <3>1. k \in Nat \ {0} /\ k <= a + b
      <4>1. r \o s \in Seq(PinSet) /\ Len(r \o s) = a + b
        BY <3>r, <3>0, ConcatProperties
      <4>2. k \in 1..Len(r \o s)
        BY <2>5, <4>1
      <4> QED BY <4>1, <4>2, <3>a, <3>b
    <3>2. CASE k <= Len(r)
      <4>1. (r \o s)[k] = r[k] /\ r[k] = q[k] /\ k \in DOMAIN q
        BY <3>1, <3>2, <2>2, <2>3
      <4> QED BY <4>1, <2>5, <2>0, <1>s
    <3>3. CASE k > Len(r)
      <4>2. PICK n \in 1..Len(s) : n = k - Len(r)
        <5>1. k - a \in 1..b
          BY ONLY <3>0, <3>1, <3>3
        <5> QED BY <5>1, <3>0
      <4>1. (r \o s)[k] = s[n]
        BY <3>1, <3>3, <2>2, <2>3, <4>2, ConcatProperties
      <4>3. s[n] = q[i + n] /\ i + n \in DOMAIN q /\ i + n # 1
        BY SMTT(60), <4>2, <2>3, <2>0
      <4> QED BY <4>1, <4>2, <4>3, <2>5, <2>0, <1>s
    <3> QED BY <3>1, <3>2, <3>3, <3>a
  <2> QED BY <2>1, <2>2, <2>3, <2>4, <2>5, <1>p
<1> QED BY <1>u, <1>1, <1>2, <1>3, <1>4, <1>5, <1>6, <1>7, <1>8, <1>9, <1>10 DEF TLSNext

(***************************************************************************)
(* A handle kept over a shutdown never reaches what was created since, a   *)
(* connection does not outlive the service it was made in, and only the    *)
(* first pin is primary.                                                   *)
(***************************************************************************)
THEOREM HandlesAreNotReused == ServicesSpec => []HandlesNotReused
<1>1. ServicesInit => TLSInv
  <2> SUFFICES ASSUME TLSInit PROVE TLSInv
    BY DEF ServicesInit
  <2>1. TLSTypeOK
    <3>1. issued \in Seq(TLSHandles) /\ pins \in Seq([hash : PinHashes, isPrimary : BOOLEAN])
      BY DEF TLSInit
    <3>2. contexts \subseteq Nat /\ connectionsTLS \subseteq Nat \X Nat \X Nat
      BY DEF TLSInit
    <3> QED BY <3>1, <3>2 DEF TLSInit, TLSTypeOK
  <2> QED BY <2>1 DEF TLSInit, TLSInv, NumbersUsedOnce
<1>2. TLSInv /\ [ServicesNext]_servicesVars => TLSInv'
  BY OneService, TLSStep
<1>3. TLSInv => HandlesNotReused
  <2> SUFFICES ASSUME TLSInv PROVE HandlesNotReused
    OBVIOUS
  <2>0. ASSUME NEW kind, NEW n, IssuedNow(kind, n), NEW i \in DOMAIN issued,
               issued[i][1] = kind, issued[i][2] = n
        PROVE  issued[i][3] = epoch
    <3>1. PICK j \in DOMAIN issued : issued[j] = <<kind, n, epoch>>
      BY <2>0 DEF IssuedNow
    <3>2. j = i
      <4>1. issued[i][1] = issued[j][1] /\ issued[i][2] = issued[j][2]
        BY <3>1, <2>0
      <4> QED BY <4>1, <2>0 DEF TLSInv, NumbersUsedOnce
    <3> QED BY <3>1, <3>2
  <2>1. ASSUME NEW i \in DOMAIN issued, Resolves(issued[i]) PROVE issued[i][3] = epoch
    <3>1. CASE issued[i][1] = "context" /\ issued[i][2] \in contexts
      BY <3>1, <2>0 DEF TLSInv
    <3>2. CASE issued[i][1] = "connection"
               /\ \E x \in connectionsTLS : x[1] = issued[i][2]
      BY <3>2, <2>0 DEF TLSInv
    <3> QED BY <2>1, <3>1, <3>2 DEF Resolves
  <2>2. ASSUME NEW x \in connectionsTLS
        PROVE  /\ x[3] = epoch
               /\ <<"context", x[2], epoch>> \in {issued[j] : j \in DOMAIN issued}
    BY DEF TLSInv, IssuedNow
  <2> QED BY <2>1, <2>2 DEF HandlesNotReused, TLSInv
<1> QED BY <1>1, <1>2, <1>3, PTL DEF ServicesSpec
-----------------------------------------------------------------------------
(* PublisherLimit                                                           *)

SlotStats == [peak : Nat, acquires : Nat, releases : Nat, rejected : Nat]
SlotPcs == [step : {"idle", "check"}, prev : Nat, cur : Nat]

SlotTypeOK ==
  /\ slots \subseteq LimitPublishers
  /\ slotStats \in SlotStats
  /\ slotHigh \in BOOLEAN /\ slotRaced \in BOOLEAN
  /\ slotPc \in [LimitThreads -> SlotPcs]
  /\ slotCleared \in Nat /\ slotBase \in Nat

\* The flag is the one the count asks for.
FlagFollows(count) ==
  SlotHigh > SlotLow => /\ count >= SlotHigh => slotHigh
                        /\ count <= SlotLow => ~slotHigh

\* A check that is the only one pending knows the count, and the flag follows
\* the count before it.
SlotInv ==
  /\ SlotTypeOK
  /\ SlotsAccounted
  /\ ~slotRaced =>
       /\ (\A t \in LimitThreads : SlotIdle(t)) => FlagFollows(Cardinality(slots))
       /\ \A t \in LimitThreads :
            ~SlotIdle(t) /\ (\A u \in LimitThreads \ {t} : SlotIdle(u)) =>
              slotPc[t].cur = Cardinality(slots) /\ FlagFollows(slotPc[t].prev)

(***************************************************************************)
(* A call of thread t that changes the set of slots leaves one more check  *)
(* pending; one that changes neither set nor flag leaves the checks alone. *)
(***************************************************************************)
LEMMA SlotChecks ==
  ASSUME SlotInv, SlotTypeOK', SlotsAccounted', NEW t \in LimitThreads, SlotIdle(t),
         UNCHANGED <<slotHigh, slotRaced>>,
         \/ slotPc' = slotPc /\ slots' = slots
         \/ SlotUnlock(t, Cardinality(slots), Cardinality(slots'))
  PROVE  SlotInv'
<1>1. CASE slotPc' = slotPc /\ slots' = slots
  BY <1>1 DEF SlotInv, SlotIdle, FlagFollows
<1>2. CASE SlotUnlock(t, Cardinality(slots), Cardinality(slots'))
  <2>1. /\ slotPc'[t] = [step |-> "check", prev |-> Cardinality(slots), cur |-> Cardinality(slots')]
        /\ \A u \in LimitThreads \ {t} : slotPc'[u] = slotPc[u]
    BY <1>2 DEF SlotUnlock, SlotInv, SlotTypeOK
  <2>2. ASSUME ~slotRaced', NEW v \in LimitThreads, ~SlotIdle(v)',
               \A u \in LimitThreads \ {v} : SlotIdle(u)'
        PROVE  slotPc'[v].cur = Cardinality(slots') /\ FlagFollows(slotPc[v].prev)'
    <3>1. v = t
      BY <2>1, <2>2 DEF SlotIdle
    <3>2. \A u \in LimitThreads : SlotIdle(u)
      BY <2>1, <2>2, <3>1 DEF SlotIdle
    <3>3. FlagFollows(Cardinality(slots))
      BY <3>2, <2>2 DEF SlotInv
    <3>4. slotPc'[v].cur = Cardinality(slots') /\ slotPc'[v].prev = Cardinality(slots)
      BY <3>1, <2>1
    <3> QED BY <3>3, <3>4 DEF FlagFollows
  <2>3. ~(\A u \in LimitThreads : SlotIdle(u)')
    BY <2>1 DEF SlotIdle
  <2> QED BY <2>2, <2>3 DEF SlotInv
<1> QED BY <1>1, <1>2

(***************************************************************************)
(* Every call of PublisherLimit keeps the invariant.                       *)
(***************************************************************************)
LEMMA SlotStep ==
  ASSUME SlotInv, [SlotNext]_slotVars
  PROVE  SlotInv'
<1> USE LimitAssumption
<1>t. SlotTypeOK /\ SlotsAccounted
  BY DEF SlotInv
<1>f. /\ IsFiniteSet(slots) /\ Cardinality(slots) \in Nat
      /\ slotStats.peak \in Nat /\ slotStats.acquires \in Nat /\ slotStats.releases \in Nat
      /\ slotStats.rejected \in Nat /\ SlotLimit \in Nat
  BY <1>t, FS_Subset, FS_CardinalityType DEF SlotTypeOK, SlotStats, SlotLimit
<1>k. PICK n \in Nat : n = Cardinality(slots)
  BY <1>f
<1>u. CASE UNCHANGED slotVars
  BY <1>u DEF slotVars, SlotInv, SlotTypeOK, SlotsAccounted, SlotIdle, FlagFollows
<1>p. ASSUME NEW t \in LimitThreads, NEW a \in Nat, NEW b \in Nat, SlotUnlock(t, a, b)
      PROVE  slotPc' \in [LimitThreads -> SlotPcs]
  BY <1>p, <1>t DEF SlotUnlock, SlotTypeOK, SlotPcs
<1>1. ASSUME NEW t \in LimitThreads, NEW p \in LimitPublishers, acquirePublisherSlot(t, p)
      PROVE  SlotInv'
  <2>1. Cardinality(slots') = n + 1 /\ n < SlotLimit
    BY <1>1, <1>f, <1>k, FS_AddElement DEF acquirePublisherSlot
  <2>2. PICK m \in Nat : m = IF n + 1 > slotStats.peak THEN n + 1 ELSE slotStats.peak
    BY <1>f
  <2>3. slotStats' = [slotStats EXCEPT !.acquires = @ + 1, !.peak = m]
    BY <1>1, <1>k, <2>2 DEF acquirePublisherSlot
  <2>4. /\ slotStats' \in SlotStats /\ slotStats'.peak = m /\ slotStats'.releases = slotStats.releases
        /\ slotStats'.acquires = slotStats.acquires + 1
    <3>1. PICK a \in Nat : a = slotStats.acquires + 1
      BY <1>f
    <3>2. slotStats' = [slotStats EXCEPT !.acquires = a, !.peak = m]
      BY <2>3, <3>1
    <3>3. slotStats \in SlotStats
      BY <1>t DEF SlotTypeOK
    <3> QED BY <3>1, <3>2, <3>3, <2>2 DEF SlotStats
  <2>5. SlotUnlock(t, n, n + 1) /\ SlotIdle(t) /\ slots' \subseteq LimitPublishers
        /\ UNCHANGED <<slotHigh, slotCleared, slotBase, slotRaced>>
    BY <1>1, <1>k, <1>t DEF acquirePublisherSlot, SlotTypeOK
  <2>6. SlotTypeOK'
    BY <2>4, <2>5, <1>p, <1>t DEF SlotTypeOK
  <2>7. SlotsAccounted'
    <3>1. slotBase + slotStats.acquires = slotStats.releases + slotCleared + n
          /\ slotBase \in Nat /\ slotCleared \in Nat
      BY <1>t, <1>k DEF SlotsAccounted, SlotTypeOK
    <3>2. slotBase + (slotStats.acquires + 1) = slotStats.releases + slotCleared + (n + 1)
      BY <3>1, <1>f
    <3>3. m >= n + 1 /\ n + 1 <= SlotLimit
      BY <2>2, <2>1, <1>f
    <3> QED BY <3>2, <3>3, <2>1, <2>4, <2>5 DEF SlotsAccounted, SlotLimit
  <2> QED BY <2>1, <2>5, <2>6, <2>7, <1>k, SlotChecks
<1>2. ASSUME NEW t \in LimitThreads, NEW p \in LimitPublishers, rejectPublisher(t, p)
      PROVE  SlotInv'
  <2>1. /\ slotStats' \in SlotStats /\ slotStats'.peak = slotStats.peak
        /\ slotStats'.releases = slotStats.releases /\ slotStats'.acquires = slotStats.acquires
    BY <1>2, <1>f, <1>t DEF rejectPublisher, SlotTypeOK, SlotStats
  <2>2. SlotIdle(t) /\ UNCHANGED <<slots, slotHigh, slotPc, slotCleared, slotBase, slotRaced>>
    BY <1>2 DEF rejectPublisher
  <2>3. SlotTypeOK' /\ SlotsAccounted'
    BY <2>1, <2>2, <1>t DEF SlotTypeOK, SlotsAccounted, SlotLimit
  <2> QED BY <2>2, <2>3, SlotChecks
<1>3. ASSUME NEW t \in LimitThreads, NEW p \in LimitPublishers, releasePublisherSlot(t, p)
      PROVE  SlotInv'
  <2>1. PICK m \in Nat : m = Cardinality(slots') /\ n = m + 1
    <3>1. p \in slots /\ slots' = slots \ {p}
      BY <1>3 DEF releasePublisherSlot
    <3>2. Cardinality(slots') = n - 1 /\ IsFiniteSet(slots') /\ Cardinality(slots') \in Nat
      BY <3>1, <1>f, <1>k, FS_RemoveElement, FS_CardinalityType
    <3> QED BY <3>2, <1>k
  <2>2. /\ slotStats' \in SlotStats /\ slotStats'.peak = slotStats.peak
        /\ slotStats'.releases = slotStats.releases + 1 /\ slotStats'.acquires = slotStats.acquires
    BY <1>3, <1>f, <1>t DEF releasePublisherSlot, SlotTypeOK, SlotStats
  <2>3. SlotUnlock(t, n, m) /\ SlotIdle(t) /\ slots' \subseteq LimitPublishers
        /\ UNCHANGED <<slotHigh, slotCleared, slotBase, slotRaced>>
    <3>1. n - 1 = m
      BY <2>1
    <3> QED BY <3>1, <1>3, <1>k, <1>t DEF releasePublisherSlot, SlotTypeOK
  <2>4. SlotTypeOK'
    BY <2>2, <2>3, <1>p, <1>t DEF SlotTypeOK
  <2>5. SlotsAccounted'
    <3>1. slotBase + slotStats.acquires = slotStats.releases + slotCleared + n
          /\ slotBase \in Nat /\ slotCleared \in Nat /\ n <= SlotLimit /\ slotStats.peak >= n
      BY <1>t, <1>k DEF SlotsAccounted, SlotTypeOK
    <3>2. slotBase + slotStats.acquires = (slotStats.releases + 1) + slotCleared + m
      BY <3>1, <2>1, <1>f
    <3>3. slotStats.peak >= m /\ m <= SlotLimit
      BY <3>1, <2>1, <1>f
    <3> QED BY <3>2, <3>3, <2>1, <2>2, <2>3 DEF SlotsAccounted, SlotLimit
  <2> QED BY <2>1, <2>3, <2>4, <2>5, <1>k, SlotChecks
<1>4. ASSUME NEW t \in LimitThreads, checkSlotWatermarks(t) PROVE SlotInv'
  <2>1. /\ slotPc[t].step = "check" /\ slotPc' = [slotPc EXCEPT ![t] = SlotResting]
        /\ slotRaced' = (slotRaced \/ \E u \in LimitThreads \ {t} : ~SlotIdle(u))
        /\ UNCHANGED <<slots, slotStats, slotCleared, slotBase>>
    BY <1>4 DEF checkSlotWatermarks
  <2>2. slotPc[t].prev \in Nat /\ slotPc[t].cur \in Nat
    BY <1>t DEF SlotTypeOK, SlotPcs
  <2>3. SlotTypeOK'
    <3>1. slotHigh' \in BOOLEAN
      BY <1>4 DEF checkSlotWatermarks
    <3>2. slotRaced' \in BOOLEAN
      BY <2>1, <1>t DEF SlotTypeOK
    <3>3. slotPc' \in [LimitThreads -> SlotPcs]
      BY <2>1, <1>t DEF SlotTypeOK, SlotResting, SlotPcs
    <3> QED BY <3>1, <3>2, <3>3, <2>1, <1>t DEF SlotTypeOK
  <2>4. SlotsAccounted'
    BY <2>1, <1>t DEF SlotsAccounted, SlotLimit
  <2>5. \A u \in LimitThreads : u # t => (SlotIdle(u)' <=> SlotIdle(u))
    BY <2>1, <1>t DEF SlotTypeOK, SlotIdle
  <2>6. SlotIdle(t)' /\ ~SlotIdle(t)
    BY <2>1, <1>t DEF SlotTypeOK, SlotIdle, SlotResting
  <2>7. ASSUME ~slotRaced' PROVE /\ \A u \in LimitThreads : SlotIdle(u)'
                                 /\ FlagFollows(Cardinality(slots))'
    <3>1. ~slotRaced /\ \A u \in LimitThreads \ {t} : SlotIdle(u)
      BY <2>7, <2>1
    <3>2. slotPc[t].cur = n /\ FlagFollows(slotPc[t].prev)
      BY <3>1, <2>6, <1>k DEF SlotInv
    <3>3. PICK q \in Nat : q = slotPc[t].prev
      BY <2>2
    <3>4. SlotHigh \in Nat /\ SlotLow \in Nat
      BY <1>f DEF SlotHigh, SlotLow
    <3>6. slotHigh' <=> LET high == slotHigh \/ (~slotHigh /\ n >= SlotHigh /\ q < SlotHigh)
                        IN  high /\ ~(high /\ n <= SlotLow /\ q > SlotLow)
      BY <1>4, <3>2, <3>3 DEF checkSlotWatermarks
    <3>7. SlotHigh > SlotLow => /\ q >= SlotHigh => slotHigh
                                /\ q <= SlotLow => ~slotHigh
      BY <3>2, <3>3 DEF FlagFollows
    <3>8. SlotHigh > SlotLow => (n >= SlotHigh => slotHigh')
      BY <3>3, <3>4, <3>6, <3>7
    <3>9. SlotHigh > SlotLow => (n <= SlotLow => ~slotHigh')
      BY <3>3, <3>4, <3>6, <3>7
    <3>10. FlagFollows(Cardinality(slots))'
      BY <3>8, <3>9, <1>k, <2>1 DEF FlagFollows, SlotHigh, SlotLow, SlotLimit
    <3> QED BY <3>1, <3>10, <2>5, <2>6
  <2> QED BY <2>3, <2>4, <2>7 DEF SlotInv
<1>5. ASSUME NEW t \in LimitThreads, resetSlotStatistics(t) PROVE SlotInv'
  <2>1. slotStats' = [peak |-> n, acquires |-> 0, releases |-> 0, rejected |-> 0]
        /\ slotBase' = n /\ slotCleared' = 0 /\ SlotIdle(t)
        /\ UNCHANGED <<slots, slotHigh, slotPc, slotRaced>>
    BY <1>5, <1>k DEF resetSlotStatistics, SlotCounters
  <2>2. SlotTypeOK'
    BY <2>1, <1>t DEF SlotTypeOK, SlotStats
  <2>3. SlotsAccounted'
    BY <2>1, <1>t, <1>k DEF SlotsAccounted, SlotLimit
  <2> QED BY <2>1, <2>2, <2>3, SlotChecks
<1>6. ASSUME NEW t \in LimitThreads, clearSlots(t) PROVE SlotInv'
  <2>1. /\ slots' = {} /\ slotHigh' = FALSE /\ slotCleared' = slotCleared + n
        /\ slotRaced' = (slotRaced \/ \E u \in LimitThreads : ~SlotIdle(u))
        /\ UNCHANGED <<slotStats, slotPc, slotBase>> /\ Cardinality({}) = 0
    BY <1>6, <1>k, FS_EmptySet DEF clearSlots
  <2>2. SlotTypeOK'
    <3>1. slotHigh' \in BOOLEAN
      BY <2>1
    <3>2. slotRaced' \in BOOLEAN
      BY <2>1, <1>t DEF SlotTypeOK
    <3>3. slotCleared' \in Nat /\ slots' \subseteq LimitPublishers
      BY <2>1, <1>t DEF SlotTypeOK
    <3> QED BY <3>1, <3>2, <3>3, <2>1, <1>t DEF SlotTypeOK
  <2>3. SlotsAccounted'
    <3>1. slotBase + slotStats.acquires = slotStats.releases + slotCleared + n
          /\ slotBase \in Nat /\ slotCleared \in Nat
      BY <1>t, <1>k DEF SlotsAccounted, SlotTypeOK
    <3>2. slotBase + slotStats.acquires = slotStats.releases + (slotCleared + n) + 0
      BY <3>1, <1>f
    <3> QED BY <3>2, <2>1, <1>f DEF SlotsAccounted, SlotLimit
  <2>4. ASSUME ~slotRaced' PROVE /\ \A u \in LimitThreads : SlotIdle(u)'
                                 /\ FlagFollows(Cardinality(slots))'
    <3>1. SlotHigh' = SlotHigh /\ SlotLow' = SlotLow /\ SlotHigh \in Nat /\ SlotLow \in Nat
      BY <1>f DEF SlotHigh, SlotLow, SlotLimit
    <3>2. Cardinality(slots') = 0 /\ ~slotHigh'
      BY <2>1
    <3>3. FlagFollows(Cardinality(slots))'
      BY <3>1, <3>2 DEF FlagFollows
    <3>4. \A u \in LimitThreads : SlotIdle(u)'
      BY <2>1, <2>4 DEF SlotIdle
    <3> QED BY <3>3, <3>4
  <2> QED BY <2>2, <2>3, <2>4 DEF SlotInv
<1> QED BY <1>u, <1>1, <1>2, <1>3, <1>4, <1>5, <1>6 DEF SlotNext
-----------------------------------------------------------------------------
(* ConnectionPool                                                           *)

PoolEntry == [handle : Nat, inUse : BOOLEAN]
PoolStats == [inUse : Nat, available : Nat, peak : Nat, allocated : Nat, rejected : Nat,
              acquires : Nat, releases : Nat]
PoolPcs == [step : {"idle", "check", "return"}, count : Nat, entry : Nat]

UsedEntries == {i \in DOMAIN poolEntries : poolEntries[i].inUse}

PoolTypeOK ==
  /\ poolEntries \in Seq(PoolEntry)
  /\ poolAvailable \in Seq(Nat)
  /\ \A h \in DOMAIN poolIndex : poolIndex[h] \in DOMAIN poolEntries
  /\ poolStats \in PoolStats
  /\ poolAbove \in BOOLEAN
  /\ poolNext \in Nat \ {0} /\ DOMAIN poolIndex \subseteq 1..(poolNext - 1)
  /\ poolPc \in [PoolThreads -> PoolPcs]
  /\ \A t \in PoolThreads : poolPc[t].entry \in 0..Len(poolEntries)
  /\ poolOwned \in [PoolThreads -> SUBSET Nat]

\* The entry that thread t acquired and has yet to return, 0 for none.
PendingEntry(t) == IF poolPc[t].step = "idle" THEN 0 ELSE poolPc[t].entry

\* An entry that an acquire has yet to return is in use, under a handle nobody
\* owns, and another thread's acquire does not return it.
PendingSound ==
  "clear" \notin poolRaced =>
    \A t \in PoolThreads : PendingEntry(t) # 0 =>
      /\ PendingEntry(t) \in UsedEntries
      /\ \A u \in PoolThreads : poolEntries[PendingEntry(t)].handle \notin poolOwned[u]
      /\ \A u \in PoolThreads \ {t} : PendingEntry(u) # PendingEntry(t)

\* The only check that is pending knows the count.
CheckSound ==
  "watermark" \notin poolRaced =>
    \A t \in PoolThreads :
      poolPc[t].step = "check" /\ (\A u \in PoolThreads \ {t} : poolPc[u].step # "check") =>
        poolPc[t].count = poolStats.inUse

PoolInv ==
  /\ PoolTypeOK
  /\ \A t \in PoolThreads : poolPc[t].step = "return" => poolPc[t].entry # 0
  /\ PoolConsistent /\ HandlesExclusive /\ WatermarkTracks
  /\ PendingSound /\ CheckSound

(***************************************************************************)
(* The tables, spelled out: what PoolConsistent says of them, and that no  *)
(* two handles map to the same entry.                                      *)
(***************************************************************************)
LEMMA PoolTables ==
  ASSUME PoolInv
  PROVE  /\ UsedEntries \subseteq DOMAIN poolEntries
         /\ IsFiniteSet(UsedEntries) /\ Cardinality(UsedEntries) \in Nat
         /\ Len(poolEntries) \in Nat /\ DOMAIN poolEntries = 1..Len(poolEntries)
         /\ Len(poolEntries) <= PoolLimit
         /\ \A i \in DOMAIN poolEntries : poolEntries[i] \in PoolEntry
         /\ IsInjective(poolAvailable) /\ poolAvailable \in Seq(Nat)
         /\ Range(poolAvailable) = DOMAIN poolEntries \ UsedEntries
         /\ \A h \in DOMAIN poolIndex : poolIndex[h] \in UsedEntries
         /\ \A i \in UsedEntries : poolEntries[i].handle \in DOMAIN poolIndex
                                   /\ poolIndex[poolEntries[i].handle] = i
         /\ \A h \in DOMAIN poolIndex : poolEntries[poolIndex[h]].handle = h
         /\ poolStats \in PoolStats
         /\ poolStats.inUse = Cardinality(UsedEntries)
         /\ poolStats.available = Len(poolAvailable)
         /\ poolStats.allocated = Len(poolEntries)
         /\ poolStats.peak >= poolStats.inUse
<1>1. UsedEntries \subseteq DOMAIN poolEntries
  BY DEF UsedEntries
<1>2. Len(poolEntries) \in Nat /\ DOMAIN poolEntries = 1..Len(poolEntries)
      /\ \A i \in DOMAIN poolEntries : poolEntries[i] \in PoolEntry
  BY DEF PoolInv, PoolTypeOK
<1>3. IsFiniteSet(UsedEntries) /\ Cardinality(UsedEntries) \in Nat
  <2>1. IsFiniteSet(1..Len(poolEntries))
    BY <1>2, FS_Interval
  <2> QED BY <1>1, <1>2, <2>1, FS_Subset, FS_CardinalityType
<1>4. /\ Len(poolEntries) <= PoolLimit /\ IsInjective(poolAvailable)
      /\ Range(poolAvailable) = DOMAIN poolEntries \ UsedEntries
      /\ {poolIndex[h] : h \in DOMAIN poolIndex} = UsedEntries
      /\ \A h \in DOMAIN poolIndex : poolEntries[poolIndex[h]].handle = h
      /\ poolStats.inUse = Cardinality(UsedEntries)
      /\ poolStats.available = Len(poolAvailable)
      /\ poolStats.allocated = Len(poolEntries)
      /\ poolStats.peak >= poolStats.inUse
  BY DEF PoolInv, PoolConsistent, UsedEntries
<1>5. \A h \in DOMAIN poolIndex : poolIndex[h] \in UsedEntries
  BY <1>4
<1>6. \A i \in UsedEntries : \E h \in DOMAIN poolIndex : poolIndex[h] = i
  BY <1>4
<1>7. \A i \in UsedEntries : poolEntries[i].handle \in DOMAIN poolIndex
                             /\ poolIndex[poolEntries[i].handle] = i
  BY <1>4, <1>6
<1> QED BY <1>1, <1>2, <1>3, <1>4, <1>5, <1>7 DEF PoolInv, PoolTypeOK

(***************************************************************************)
(* An acquire takes an entry that is not in use, the front one of the      *)
(* available ones or one that it appends.                                  *)
(***************************************************************************)
LEMMA EntryTaken ==
  ASSUME PoolInv, NEW t \in PoolThreads, acquire(t)
  PROVE  \E i \in Nat \ {0} :
           /\ i \notin UsedEntries
           /\ poolEntries' \in Seq(PoolEntry) /\ Len(poolEntries') \in Nat
           /\ DOMAIN poolEntries' = 1..Len(poolEntries')
           /\ DOMAIN poolEntries' = DOMAIN poolEntries \union {i}
           /\ Len(poolEntries) <= Len(poolEntries') /\ Len(poolEntries') <= PoolLimit
           /\ poolEntries'[i] = [handle |-> poolNext, inUse |-> TRUE]
           /\ \A k \in DOMAIN poolEntries \ {i} : poolEntries'[k] = poolEntries[k]
           /\ poolIndex' = [h \in DOMAIN poolIndex \union {poolNext} |->
                              IF h = poolNext THEN i ELSE poolIndex[h]]
           /\ poolAvailable' \in Seq(Nat) /\ Len(poolAvailable') \in Nat
           /\ IsInjective(poolAvailable')
           /\ Range(poolAvailable') = Range(poolAvailable) \ {i}
           /\ poolPc' = [poolPc EXCEPT ![t] =
                           [step |-> "check", count |-> poolStats.inUse + 1, entry |-> i]]
<1>e. PICK e : e = [handle |-> poolNext, inUse |-> TRUE]
  OBVIOUS
<1>t. e \in PoolEntry /\ poolEntries \in Seq(PoolEntry) /\ poolAvailable \in Seq(Nat)
  BY <1>e DEF PoolInv, PoolTypeOK, PoolEntry
<1>n. PICK n \in Nat : n = Len(poolEntries) /\ DOMAIN poolEntries = 1..n
  BY <1>t
<1>l. PoolLimit \in Nat
  BY PoolAssumption DEF PoolLimit
<1>1. CASE poolAvailable = <<>>
  <2>1. /\ poolEntries' = Append(poolEntries, e)
        /\ poolIndex' = [h \in DOMAIN poolIndex \union {poolNext} |->
                           IF h = poolNext THEN n + 1 ELSE poolIndex[h]]
        /\ poolAvailable' = <<>> /\ n < PoolLimit
        /\ poolPc' = [poolPc EXCEPT ![t] =
                        [step |-> "check", count |-> poolStats.inUse + 1, entry |-> n + 1]]
    BY <1>1, <1>e, <1>n DEF acquire
  <2>2. /\ poolEntries' \in Seq(PoolEntry) /\ Len(poolEntries') = n + 1
        /\ DOMAIN poolEntries' = 1..(n + 1) /\ poolEntries'[n + 1] = e
        /\ \A k \in 1..n : poolEntries'[k] = poolEntries[k]
    BY <2>1, <1>t, <1>n
  <2>3. /\ 1..(n + 1) = 1..n \union {n + 1} /\ n + 1 \notin 1..n /\ n + 1 \in Nat \ {0}
        /\ n <= n + 1 /\ n + 1 <= PoolLimit
    BY <2>1, <1>n, <1>l
  <2>4. n + 1 \notin UsedEntries
    BY <2>3, <1>n DEF UsedEntries
  <2>5. /\ poolAvailable' \in Seq(Nat) /\ Len(poolAvailable') \in Nat
        /\ IsInjective(poolAvailable') /\ Range(poolAvailable') = {} /\ Range(poolAvailable) = {}
    BY <2>1, <1>1 DEF IsInjective, Range
  <2>6. PICK i \in Nat \ {0} : i = n + 1
    BY <2>3
  <2> QED BY <2>1, <2>2, <2>3, <2>4, <2>5, <2>6, <1>e, <1>n
<1>2. CASE poolAvailable # <<>>
  <2>1. PICK i : i = Head(poolAvailable)
    OBVIOUS
  <2>2. /\ poolEntries' = [poolEntries EXCEPT ![i] = e]
        /\ poolIndex' = [h \in DOMAIN poolIndex \union {poolNext} |->
                           IF h = poolNext THEN i ELSE poolIndex[h]]
        /\ poolAvailable' = Tail(poolAvailable)
        /\ poolPc' = [poolPc EXCEPT ![t] =
                        [step |-> "check", count |-> poolStats.inUse + 1, entry |-> i]]
    BY <1>2, <1>e, <2>1 DEF acquire
  <2>3. PICK m \in Nat \ {0} : m = Len(poolAvailable)
    BY <1>2, <1>t
  <2>4. /\ i = poolAvailable[1] /\ Tail(poolAvailable) \in Seq(Nat)
        /\ Len(Tail(poolAvailable)) = m - 1 /\ DOMAIN poolAvailable = 1..m
        /\ \A k \in 1..(m - 1) : Tail(poolAvailable)[k] = poolAvailable[k + 1]
    BY <1>2, <1>t, <2>1, <2>3
  <2>5. DOMAIN Tail(poolAvailable) = 1..(m - 1) /\ m - 1 \in Nat
    BY <2>3, <2>4
  <2>6. \A a, b \in 1..m : poolAvailable[a] = poolAvailable[b] => a = b
    BY <2>4, PoolTables DEF IsInjective
  <2>7. IsInjective(Tail(poolAvailable))
    <3>1. ASSUME NEW a \in 1..(m - 1), NEW b \in 1..(m - 1),
                 Tail(poolAvailable)[a] = Tail(poolAvailable)[b]
          PROVE  a = b
      <4>1. poolAvailable[a + 1] = poolAvailable[b + 1] /\ a + 1 \in 1..m /\ b + 1 \in 1..m
        BY <3>1, <2>3, <2>4
      <4>2. a + 1 = b + 1
        BY <4>1, <2>6
      <4> QED BY <4>2
    <3> QED BY <3>1, <2>5 DEF IsInjective
  <2>8. Range(Tail(poolAvailable)) = Range(poolAvailable) \ {i}
    <3>1. ASSUME NEW x \in Range(Tail(poolAvailable)) PROVE x \in Range(poolAvailable) /\ x # i
      <4>1. PICK k \in 1..(m - 1) : x = poolAvailable[k + 1]
        BY <2>4, <2>5 DEF Range
      <4>2. k + 1 \in 1..m /\ k + 1 # 1 /\ 1 \in 1..m
        BY <2>3
      <4> QED BY <4>1, <4>2, <2>4, <2>6 DEF Range
    <3>2. ASSUME NEW x \in Range(poolAvailable), x # i PROVE x \in Range(Tail(poolAvailable))
      <4>1. PICK k \in 1..m : x = poolAvailable[k]
        BY <2>4 DEF Range
      <4>2. k # 1
        BY <4>1, <3>2, <2>4
      <4>3. k - 1 \in 1..(m - 1) /\ (k - 1) + 1 = k
        BY <4>2, <2>3
      <4>4. Tail(poolAvailable)[k - 1] = x
        BY <4>1, <4>3, <2>4
      <4> QED BY <4>3, <4>4, <2>5 DEF Range
    <3> QED BY <3>1, <3>2
  <2>9. i \in Range(poolAvailable)
    BY <2>3, <2>4 DEF Range
  <2>10. i \in 1..n /\ i \notin UsedEntries
    BY <2>9, <1>n, PoolTables
  <2>11. /\ poolEntries' \in Seq(PoolEntry) /\ Len(poolEntries') = n
         /\ DOMAIN poolEntries' = 1..n /\ poolEntries'[i] = e
         /\ \A k \in 1..n \ {i} : poolEntries'[k] = poolEntries[k]
    BY <2>2, <2>10, <1>t, <1>n
  <2>12. n <= PoolLimit /\ 1..n = 1..n \union {i} /\ i \in Nat \ {0} /\ n <= n
    BY <2>10, <1>n, PoolTables
  <2>13. Len(poolAvailable') \in Nat
    BY <2>2, <2>4, <2>5
  <2> QED BY ZenonT(60), <2>2, <2>4, <2>7, <2>8, <2>10, <2>11, <2>12, <2>13, <1>e, <1>n
<1> QED BY <1>1, <1>2

(***************************************************************************)
(* An acquire keeps the invariant.                                         *)
(***************************************************************************)
LEMMA PoolAcquires ==
  ASSUME PoolInv, NEW t \in PoolThreads, acquire(t)
  PROVE  PoolInv'
<1>t. PoolTypeOK
  BY DEF PoolInv
<1>1. PICK i \in Nat \ {0} :
           /\ i \notin UsedEntries
           /\ poolEntries' \in Seq(PoolEntry) /\ Len(poolEntries') \in Nat
           /\ DOMAIN poolEntries' = 1..Len(poolEntries')
           /\ DOMAIN poolEntries' = DOMAIN poolEntries \union {i}
           /\ Len(poolEntries) <= Len(poolEntries') /\ Len(poolEntries') <= PoolLimit
           /\ poolEntries'[i] = [handle |-> poolNext, inUse |-> TRUE]
           /\ \A k \in DOMAIN poolEntries \ {i} : poolEntries'[k] = poolEntries[k]
           /\ poolIndex' = [h \in DOMAIN poolIndex \union {poolNext} |->
                              IF h = poolNext THEN i ELSE poolIndex[h]]
           /\ poolAvailable' \in Seq(Nat) /\ Len(poolAvailable') \in Nat
           /\ IsInjective(poolAvailable')
           /\ Range(poolAvailable') = Range(poolAvailable) \ {i}
           /\ poolPc' = [poolPc EXCEPT ![t] =
                           [step |-> "check", count |-> poolStats.inUse + 1, entry |-> i]]
  BY EntryTaken
<1>2. /\ poolPc[t].step = "idle" /\ poolNext' = poolNext + 1
      /\ UNCHANGED <<poolAbove, poolOwned, poolRaced>>
  BY DEF acquire
<1>n. PICK n \in Nat : n = Cardinality(UsedEntries)
  BY PoolTables
<1>3. UsedEntries' = UsedEntries \union {i}
  <2>1. i \in DOMAIN poolEntries' /\ poolEntries'[i].inUse
    <3>1. poolEntries'[i] = [handle |-> poolNext, inUse |-> TRUE]
      BY <1>1
    <3>2. i \in DOMAIN poolEntries'
      BY <1>1
    <3>3. [handle |-> poolNext, inUse |-> TRUE].inUse
      OBVIOUS
    <3> QED BY <3>1, <3>2, <3>3
  <2>2. ASSUME NEW k \in DOMAIN poolEntries' PROVE poolEntries'[k].inUse <=> k \in UsedEntries \union {i}
    <3>1. CASE k = i
      BY <3>1, <2>1
    <3>2. CASE k # i
      <4>1. k \in DOMAIN poolEntries /\ poolEntries'[k] = poolEntries[k]
        BY <2>2, <3>2, <1>1
      <4> QED BY <4>1, <3>2 DEF UsedEntries
    <3> QED BY <3>1, <3>2
  <2>3. UsedEntries \subseteq DOMAIN poolEntries'
    BY <1>1 DEF UsedEntries
  <2>4. UsedEntries' = {k \in DOMAIN poolEntries' : poolEntries'[k].inUse}
    BY DEF UsedEntries
  <2> QED BY <2>1, <2>2, <2>3, <2>4
<1>4. Cardinality(UsedEntries') = n + 1
  BY <1>1, <1>3, <1>n, PoolTables, FS_AddElement
<1>5. poolNext \notin DOMAIN poolIndex /\ DOMAIN poolIndex' = DOMAIN poolIndex \union {poolNext}
      /\ poolNext \in Nat \ {0}
  BY <1>1, <1>t DEF PoolTypeOK
<1>6. \A h \in DOMAIN poolIndex : poolIndex'[h] = poolIndex[h] /\ poolIndex[h] # i
  BY <1>1, <1>5, PoolTables
<1>7. poolIndex'[poolNext] = i
  BY <1>1, <1>5
<1>s. /\ poolStats' \in PoolStats /\ poolStats'.inUse = n + 1
      /\ poolStats'.available = Len(poolAvailable') /\ poolStats'.allocated = Len(poolEntries')
      /\ poolStats'.peak >= n + 1
  <2>1. /\ poolStats \in PoolStats /\ poolStats.inUse = n /\ poolStats.acquires \in Nat
        /\ poolStats.peak \in Nat
    BY <1>n, PoolTables DEF PoolStats
  <2>2. PICK p \in Nat : p = IF n + 1 > poolStats.peak THEN n + 1 ELSE poolStats.peak
    BY <2>1
  <2>a. PICK a \in Nat : a = poolStats.acquires + 1
    BY <2>1
  <2>b. PICK b \in Nat : b = n + 1
    OBVIOUS
  <2>c. PICK c \in Nat : c = Len(poolAvailable')
    BY SMTT(60), <1>1
  <2>d. PICK d \in Nat : d = Len(poolEntries')
    BY <1>1
  <2>3. a = poolStats.acquires + 1 /\ b = n + 1 /\ c = Len(poolAvailable') /\ d = Len(poolEntries')
    BY <2>a, <2>b, <2>c, <2>d
  <2>4. poolStats' = [poolStats EXCEPT !.acquires = a, !.inUse = b, !.available = c,
                                       !.allocated = d, !.peak = p]
    BY <2>1, <2>2, <2>3 DEF acquire
  <2>5. /\ poolStats' \in PoolStats /\ poolStats'.inUse = b /\ poolStats'.available = c
        /\ poolStats'.allocated = d /\ poolStats'.peak = p
    BY ZenonT(60), <2>1, <2>4, <2>2, <2>3 DEF PoolStats
  <2>6. p >= n + 1
    BY <2>1, <2>2
  <2> QED BY <2>3, <2>5, <2>6
<1>p. /\ poolPc'[t] = [step |-> "check", count |-> n + 1, entry |-> i]
      /\ \A u \in PoolThreads \ {t} : poolPc'[u] = poolPc[u]
      /\ poolPc' \in [PoolThreads -> PoolPcs]
  <2>1. poolStats.inUse = n
    BY <1>n, PoolTables
  <2>2. [step |-> "check", count |-> n + 1, entry |-> i] \in PoolPcs
    BY DEF PoolPcs
  <2> QED BY <1>1, <1>t, <2>1, <2>2 DEF PoolTypeOK
<1>8. PoolTypeOK'
  <2>1. \A h \in DOMAIN poolIndex' : poolIndex'[h] \in DOMAIN poolEntries'
    BY <1>1, <1>5, <1>6, <1>7, <1>t DEF PoolTypeOK
  <2>2. poolNext' \in Nat \ {0} /\ DOMAIN poolIndex' \subseteq 1..(poolNext' - 1)
    <3>1. DOMAIN poolIndex \subseteq 1..(poolNext - 1)
      BY <1>t DEF PoolTypeOK
    <3> QED BY <3>1, <1>5, <1>2
  <2>3. \A u \in PoolThreads : poolPc'[u].entry \in 0..Len(poolEntries')
    <3>1. i \in 1..Len(poolEntries')
      BY <1>1
    <3>2. \A u \in PoolThreads : poolPc[u].entry \in 0..Len(poolEntries) /\ Len(poolEntries) \in Nat
      BY <1>t, PoolTables DEF PoolTypeOK
    <3> QED BY <3>1, <3>2, <1>p, <1>1
  <2> QED BY <1>1, <1>2, <1>s, <1>p, <1>t, <2>1, <2>2, <2>3 DEF PoolTypeOK
<1>9. PoolConsistent'
  <2>1. Range(poolAvailable') = DOMAIN poolEntries' \ UsedEntries'
    BY <1>1, <1>3, PoolTables
  <2>2. {poolIndex'[h] : h \in DOMAIN poolIndex'} = UsedEntries'
    <3>1. \A h \in DOMAIN poolIndex' : poolIndex'[h] \in UsedEntries'
      BY <1>3, <1>5, <1>6, <1>7, PoolTables
    <3>2. \A k \in UsedEntries' : \E h \in DOMAIN poolIndex' : poolIndex'[h] = k
      BY <1>3, <1>5, <1>6, <1>7, PoolTables
    <3> QED BY <3>1, <3>2
  <2>3. \A h \in DOMAIN poolIndex' : poolEntries'[poolIndex'[h]].handle = h
    BY <1>1, <1>5, <1>6, <1>7, PoolTables
  <2> QED BY <2>1, <2>2, <2>3, <1>1, <1>s, <1>4 DEF PoolConsistent, UsedEntries, PoolLimit
<1>10. HandlesExclusive'
  BY <1>2, <1>5 DEF PoolInv, HandlesExclusive
<1>11. ASSUME "clear" \notin poolRaced', NEW v \in PoolThreads, PendingEntry(v)' # 0
       PROVE  /\ PendingEntry(v)' \in UsedEntries'
              /\ \A u \in PoolThreads : (poolEntries[PendingEntry(v)].handle \notin poolOwned[u])'
              /\ \A u \in PoolThreads \ {v} : PendingEntry(u)' # PendingEntry(v)'
  <2>1. PendingEntry(t)' = i /\ \A u \in PoolThreads \ {t} : PendingEntry(u)' = PendingEntry(u)
    BY <1>p DEF PendingEntry
  <2>2. \A u \in PoolThreads : PendingEntry(u) # 0 => PendingEntry(u) \in UsedEntries
    BY <1>2, <1>11 DEF PoolInv, PendingSound
  <2>3. \A u \in PoolThreads : poolNext \notin poolOwned[u]
    BY <1>2, <1>5, <1>11 DEF PoolInv, HandlesExclusive
  <2>4. CASE v = t
    BY <2>1, <2>2, <2>3, <2>4, <1>1, <1>2, <1>3
  <2>5. CASE v # t
    <3>1. PICK k \in UsedEntries : k = PendingEntry(v)
      BY <2>1, <2>2, <2>5, <1>11
    <3>2. k # i /\ poolEntries'[k] = poolEntries[k]
      BY <3>1, <1>1, PoolTables
    <3>3. \A u \in PoolThreads : poolEntries[k].handle \notin poolOwned[u]
      BY <3>1, <2>1, <2>5, <1>2, <1>11 DEF PoolInv, PendingSound
    <3>4. \A u \in PoolThreads \ {v} : PendingEntry(u) # k
      BY <3>1, <2>1, <2>5, <1>2, <1>11 DEF PoolInv, PendingSound
    <3> QED BY <3>1, <3>2, <3>3, <3>4, <2>1, <2>5, <1>2, <1>3
  <2> QED BY <2>4, <2>5
<1>12. PendingSound'
  BY <1>11 DEF PendingSound
<1>13. CheckSound'
  BY <1>p, <1>s, <1>2 DEF PoolInv, CheckSound
<1>14. WatermarkTracks'
  BY <1>p DEF WatermarkTracks
<1>15. \A u \in PoolThreads : poolPc'[u].step = "return" => poolPc'[u].entry # 0
  BY <1>p DEF PoolInv
<1> QED BY <1>8, <1>9, <1>10, <1>12, <1>13, <1>14, <1>15 DEF PoolInv

(***************************************************************************)
(* A release keeps the invariant: the handle names one entry, and an       *)
(* acquire that has yet to return its handle cannot be the one released.   *)
(***************************************************************************)
LEMMA PoolReleases ==
  ASSUME PoolInv, NEW t \in PoolThreads, NEW h \in 1..MaxHandles, release(t, h)
  PROVE  PoolInv'
<1>t. PoolTypeOK
  BY DEF PoolInv
<1>1. PICK i \in Nat : i = poolIndex[h] /\ i \in UsedEntries
  BY PoolTables DEF release
<1>n. PICK n \in Nat : n + 1 = Cardinality(UsedEntries) /\ Cardinality(UsedEntries \ {i}) = n
  <2>1. /\ Cardinality(UsedEntries \ {i}) = Cardinality(UsedEntries) - 1
        /\ IsFiniteSet(UsedEntries \ {i}) /\ Cardinality(UsedEntries \ {i}) \in Nat
    BY <1>1, PoolTables, FS_RemoveElement, FS_CardinalityType
  <2> QED BY <2>1, PoolTables
<1>2. /\ poolPc[t].step = "idle" /\ h \in DOMAIN poolIndex
      /\ \E u \in PoolThreads : h \in poolOwned[u]
      /\ poolEntries' = [poolEntries EXCEPT ![i].inUse = FALSE]
      /\ poolAvailable' = Append(poolAvailable, i)
      /\ poolIndex' = [k \in DOMAIN poolIndex \ {h} |-> poolIndex[k]]
      /\ poolOwned' = [u \in PoolThreads |-> poolOwned[u] \ {h}]
      /\ UNCHANGED <<poolAbove, poolNext, poolRaced>>
  BY <1>1 DEF release
<1>3. /\ poolEntries' \in Seq(PoolEntry) /\ Len(poolEntries') = Len(poolEntries)
      /\ DOMAIN poolEntries' = DOMAIN poolEntries
      /\ poolEntries'[i].handle = h /\ ~poolEntries'[i].inUse
      /\ \A k \in DOMAIN poolEntries \ {i} : poolEntries'[k] = poolEntries[k]
  <2>1. i \in DOMAIN poolEntries /\ poolEntries[i] \in PoolEntry /\ poolEntries[i].handle = h
    BY <1>1, <1>2, PoolTables
  <2>2. PICK e \in PoolEntry : e = [poolEntries[i] EXCEPT !.inUse = FALSE]
    <3>1. [poolEntries[i] EXCEPT !.inUse = FALSE] \in PoolEntry
      BY <2>1 DEF PoolEntry
    <3> QED BY <3>1
  <2>4. poolEntries' = [poolEntries EXCEPT ![i] = e]
    BY <1>2, <2>2
  <2>5. e.handle = h /\ ~e.inUse
    BY <2>1, <2>2 DEF PoolEntry
  <2>6. poolEntries \in Seq(PoolEntry)
    BY <1>t DEF PoolTypeOK
  <2> QED BY <2>1, <2>4, <2>5, <2>6
<1>4. UsedEntries' = UsedEntries \ {i}
  BY <1>3 DEF UsedEntries
<1>5. /\ poolAvailable' \in Seq(Nat) /\ Len(poolAvailable') \in Nat /\ IsInjective(poolAvailable')
      /\ Range(poolAvailable') = Range(poolAvailable) \union {i}
  <2>1. PICK m \in Nat : m = Len(poolAvailable) /\ DOMAIN poolAvailable = 1..m
    BY PoolTables
  <2>2. /\ poolAvailable' \in Seq(Nat) /\ Len(poolAvailable') = m + 1
        /\ DOMAIN poolAvailable' = 1..(m + 1) /\ poolAvailable'[m + 1] = i
        /\ \A k \in 1..m : poolAvailable'[k] = poolAvailable[k]
    BY <1>2, <2>1, PoolTables
  <2>3. i \notin Range(poolAvailable)
    BY <1>1, PoolTables
  <2>4. \A a \in 1..(m + 1) : a \in 1..m \/ a = m + 1
    BY <2>1
  <2>5. \A a \in 1..m : a \in 1..(m + 1) /\ poolAvailable[a] # i
    BY <2>1, <2>3 DEF Range
  <2>6. m + 1 \in 1..(m + 1)
    BY <2>1
  <2>7. IsInjective(poolAvailable')
    <3>1. \A a, b \in 1..m : poolAvailable[a] = poolAvailable[b] => a = b
      BY <2>1, PoolTables DEF IsInjective
    <3> QED BY <3>1, <2>2, <2>4, <2>5 DEF IsInjective
  <2>8. Range(poolAvailable') = Range(poolAvailable) \union {i}
    BY <2>1, <2>2, <2>4, <2>5, <2>6 DEF Range
  <2> QED BY <2>2, <2>7, <2>8
<1>6. /\ DOMAIN poolIndex' = DOMAIN poolIndex \ {h}
      /\ \A k \in DOMAIN poolIndex' : poolIndex'[k] = poolIndex[k]
  BY <1>2
<1>s. /\ poolStats' \in PoolStats /\ poolStats'.inUse = n
      /\ poolStats'.available = Len(poolAvailable') /\ poolStats'.allocated = Len(poolEntries')
      /\ poolStats'.peak >= n
  <2>1. /\ poolStats \in PoolStats /\ poolStats.inUse = n + 1 /\ poolStats.releases \in Nat
        /\ poolStats.peak \in Nat /\ poolStats.peak >= n + 1
        /\ poolStats.allocated = Len(poolEntries)
    BY <1>n, PoolTables DEF PoolStats
  <2>2. poolStats.inUse - 1 = n
    BY <2>1
  <2>3. PICK r \in Nat : r = poolStats.releases + 1
    BY <2>1
  <2>4. PICK a \in Nat : a = Len(poolAvailable')
    BY <1>5
  <2>5. poolStats' = [poolStats EXCEPT !.inUse = n, !.releases = r, !.available = a]
    BY <2>2, <2>3, <2>4 DEF release
  <2>6. /\ poolStats' \in PoolStats /\ poolStats'.inUse = n /\ poolStats'.available = a
        /\ poolStats'.allocated = poolStats.allocated /\ poolStats'.peak = poolStats.peak
    BY <2>1, <2>5 DEF PoolStats
  <2> QED BY <2>1, <2>4, <2>6, <1>3
<1>p. /\ poolPc'[t] = [step |-> "check", count |-> n, entry |-> 0]
      /\ \A u \in PoolThreads \ {t} : poolPc'[u] = poolPc[u]
      /\ poolPc' \in [PoolThreads -> PoolPcs]
  <2>0. poolStats.inUse = n + 1
    BY <1>n, PoolTables
  <2>1. poolStats.inUse - 1 = n
    BY <2>0
  <2>2. [step |-> "check", count |-> n, entry |-> 0] \in PoolPcs
    BY DEF PoolPcs
  <2> QED BY <2>1, <2>2, <1>t DEF release, PoolTypeOK
<1>8. PoolTypeOK'
  <2>1. \A k \in DOMAIN poolIndex' : poolIndex'[k] \in DOMAIN poolEntries'
    BY <1>3, <1>6, <1>t DEF PoolTypeOK
  <2>2. DOMAIN poolIndex' \subseteq 1..(poolNext' - 1)
    BY <1>2, <1>6, <1>t DEF PoolTypeOK
  <2>3. \A u \in PoolThreads : poolPc'[u].entry \in 0..Len(poolEntries')
    <3>1. \A u \in PoolThreads : poolPc[u].entry \in 0..Len(poolEntries) /\ Len(poolEntries) \in Nat
      BY <1>t, PoolTables DEF PoolTypeOK
    <3> QED BY <3>1, <1>3, <1>p
  <2>4. poolOwned' \in [PoolThreads -> SUBSET Nat]
    BY <1>2, <1>t DEF PoolTypeOK
  <2> QED BY <1>2, <1>3, <1>5, <1>s, <1>p, <1>t, <2>1, <2>2, <2>3, <2>4 DEF PoolTypeOK
<1>9. PoolConsistent'
  <2>1. Range(poolAvailable') = DOMAIN poolEntries' \ UsedEntries'
    BY <1>1, <1>3, <1>4, <1>5, PoolTables
  <2>2. {poolIndex'[k] : k \in DOMAIN poolIndex'} = UsedEntries'
    <3>1. \A k \in DOMAIN poolIndex' : poolIndex'[k] \in UsedEntries'
      BY <1>1, <1>2, <1>4, <1>6, PoolTables
    <3>2. \A e \in UsedEntries' : \E k \in DOMAIN poolIndex' : poolIndex'[k] = e
      <4>1. ASSUME NEW e \in UsedEntries, e # i
            PROVE  \E k \in DOMAIN poolIndex' : poolIndex'[k] = e
        <5>1. poolEntries[e].handle \in DOMAIN poolIndex /\ poolIndex[poolEntries[e].handle] = e
          BY <4>1, PoolTables
        <5>2. poolEntries[e].handle # h
          BY <5>1, <4>1, <1>1
        <5> QED BY <5>1, <5>2, <1>6
      <4> QED BY <4>1, <1>4
    <3> QED BY <3>1, <3>2
  <2>3. \A k \in DOMAIN poolIndex' : poolEntries'[poolIndex'[k]].handle = k
    <3>1. ASSUME NEW k \in DOMAIN poolIndex, k # h PROVE poolEntries'[poolIndex[k]].handle = k
      <4>1. poolIndex[k] # i /\ poolIndex[k] \in DOMAIN poolEntries
            /\ poolEntries[poolIndex[k]].handle = k
        BY <3>1, <1>1, <1>2, PoolTables
      <4> QED BY <4>1, <1>3
    <3> QED BY <3>1, <1>6
  <2>4. Cardinality(UsedEntries') = n
    BY <1>4, <1>n
  <2>5. Len(poolEntries') <= PoolLimit
    BY <1>3, PoolTables
  <2> QED BY <2>1, <2>2, <2>3, <2>4, <2>5, <1>5, <1>s DEF PoolConsistent, UsedEntries, PoolLimit
<1>10. HandlesExclusive'
  <2>1. ASSUME "clear" \notin poolRaced', NEW v \in PoolThreads
        PROVE  /\ poolOwned'[v] \subseteq DOMAIN poolIndex'
               /\ \A u \in PoolThreads \ {v} : poolOwned'[v] \intersect poolOwned'[u] = {}
    <3>1. /\ poolOwned[v] \subseteq DOMAIN poolIndex
          /\ \A u \in PoolThreads \ {v} : poolOwned[v] \intersect poolOwned[u] = {}
      BY <2>1, <1>2 DEF PoolInv, HandlesExclusive
    <3>2. \A u \in PoolThreads : poolOwned'[u] = poolOwned[u] \ {h}
      BY <1>2
    <3> QED BY <3>1, <3>2, <1>6
  <2> QED BY <2>1 DEF HandlesExclusive
<1>11. ASSUME "clear" \notin poolRaced', NEW v \in PoolThreads, PendingEntry(v)' # 0
       PROVE  /\ PendingEntry(v)' \in UsedEntries'
              /\ \A u \in PoolThreads : (poolEntries[PendingEntry(v)].handle \notin poolOwned[u])'
              /\ \A u \in PoolThreads \ {v} : PendingEntry(u)' # PendingEntry(v)'
  <2>1. PendingEntry(t)' = 0 /\ PendingEntry(t) = 0
        /\ \A u \in PoolThreads \ {t} : PendingEntry(u)' = PendingEntry(u)
    BY <1>p, <1>2 DEF PendingEntry
  <2>2. v # t
    BY <2>1, <1>11
  <2>3. PICK k \in UsedEntries : k = PendingEntry(v) /\ k # 0
    BY <2>1, <2>2, <1>2, <1>11 DEF PoolInv, PendingSound
  <2>4. \A u \in PoolThreads : poolEntries[k].handle \notin poolOwned[u]
    BY <2>1, <2>2, <2>3, <1>2, <1>11 DEF PoolInv, PendingSound
  <2>5. \A u \in PoolThreads \ {v} : PendingEntry(u) # k
    BY <2>1, <2>2, <2>3, <1>2, <1>11 DEF PoolInv, PendingSound
  <2>6. k # i
    <3>1. poolEntries[i].handle = h
      BY <1>1, <1>2, PoolTables
    <3> QED BY <3>1, <2>4, <1>2
  <2>7. poolEntries'[k] = poolEntries[k] /\ \A u \in PoolThreads : poolOwned'[u] \subseteq poolOwned[u]
    BY <2>3, <2>6, <1>2, <1>3, PoolTables
  <2>8. PendingEntry(v)' = k /\ k \in UsedEntries'
    BY <2>1, <2>2, <2>3, <2>6, <1>4
  <2>9. \A u \in PoolThreads \ {v} : PendingEntry(u)' # k
    BY <2>1, <2>3, <2>5
  <2> QED BY <2>4, <2>7, <2>8, <2>9
<1>12. PendingSound'
  BY <1>11 DEF PendingSound
<1>13. CheckSound'
  BY <1>p, <1>s, <1>2 DEF PoolInv, CheckSound
<1>14. WatermarkTracks'
  BY <1>p DEF WatermarkTracks
<1>15. \A u \in PoolThreads : poolPc'[u].step = "return" => poolPc'[u].entry # 0
  BY <1>p DEF PoolInv
<1> QED BY <1>8, <1>9, <1>10, <1>12, <1>13, <1>14, <1>15 DEF PoolInv

(***************************************************************************)
(* A refusal and a reset of the statistics touch no table.                 *)
(***************************************************************************)
LEMMA PoolCounts ==
  ASSUME PoolInv, poolStats' \in PoolStats,
         poolStats'.inUse = poolStats.inUse, poolStats'.available = poolStats.available,
         poolStats'.allocated = poolStats.allocated, poolStats'.peak >= poolStats'.inUse,
         UNCHANGED <<poolEntries, poolIndex, poolAvailable, poolAbove, poolNext,
                     poolPc, poolOwned, poolRaced>>
  PROVE  PoolInv'
<1>1. PoolTypeOK'
  BY DEF PoolInv, PoolTypeOK
<1>2. PoolConsistent'
  BY DEF PoolInv, PoolConsistent, PoolLimit
<1>3. HandlesExclusive' /\ WatermarkTracks' /\ CheckSound'
  BY DEF PoolInv, HandlesExclusive, WatermarkTracks, CheckSound, HighThreshold, LowThreshold,
         PoolLimit
<1>4. PendingSound'
  BY DEF PoolInv, PendingSound, PendingEntry, UsedEntries
<1> QED BY <1>1, <1>2, <1>3, <1>4 DEF PoolInv

(***************************************************************************)
(* The check of the watermarks after the unlock: if nobody is with it, the *)
(* count it carries is still the count of the table.                       *)
(***************************************************************************)
LEMMA PoolChecks ==
  ASSUME PoolInv, NEW t \in PoolThreads, checkWatermarks(t)
  PROVE  PoolInv'
<1>t. PoolTypeOK
  BY DEF PoolInv
<1>1. /\ poolPc[t].step = "check" /\ poolPc[t] \in PoolPcs
      /\ poolRaced \subseteq poolRaced' /\ ("clear" \in poolRaced' <=> "clear" \in poolRaced)
      /\ "watermark" \notin poolRaced' => PoolAlone(t)
      /\ UNCHANGED <<poolEntries, poolIndex, poolAvailable, poolStats, poolNext, poolOwned>>
  BY <1>t DEF checkWatermarks, PoolTypeOK
<1>2. /\ poolPc'[t] = IF poolPc[t].entry = 0 THEN Resting ELSE [poolPc[t] EXCEPT !.step = "return"]
      /\ \A u \in PoolThreads \ {t} : poolPc'[u] = poolPc[u]
      /\ poolPc' = [poolPc EXCEPT ![t] = poolPc'[t]]
  BY <1>t DEF checkWatermarks, PoolTypeOK
<1>3. /\ poolPc'[t] \in PoolPcs /\ poolPc'[t].step # "check"
      /\ poolPc'[t].entry = poolPc[t].entry
      /\ poolPc'[t].step = "idle" <=> poolPc[t].entry = 0
  <2>1. CASE poolPc[t].entry = 0
    BY <2>1, <1>2 DEF Resting, PoolPcs
  <2>2. CASE poolPc[t].entry # 0
    BY <2>2, <1>1, <1>2 DEF PoolPcs
  <2> QED BY <2>1, <2>2
<1>4. PoolTypeOK'
  <2>1. poolAbove' \in BOOLEAN
    BY <1>t DEF checkWatermarks, PoolTypeOK
  <2>2. poolPc' \in [PoolThreads -> PoolPcs]
    BY <1>2, <1>3, <1>t DEF PoolTypeOK
  <2>3. \A u \in PoolThreads : poolPc'[u].entry \in 0..Len(poolEntries')
    BY <1>1, <1>2, <1>3, <1>t DEF PoolTypeOK
  <2> QED BY <2>1, <2>2, <2>3, <1>1, <1>t DEF PoolTypeOK
<1>5. PoolConsistent'
  BY <1>1 DEF PoolInv, PoolConsistent, PoolLimit
<1>6. HandlesExclusive'
  BY <1>1 DEF PoolInv, HandlesExclusive
<1>7. PendingSound'
  <2>1. \A u \in PoolThreads : PendingEntry(u)' = PendingEntry(u)
    BY <1>1, <1>2, <1>3 DEF PendingEntry
  <2> QED BY <2>1, <1>1 DEF PoolInv, PendingSound, UsedEntries
<1>8. CheckSound'
  BY <1>1, <1>2, <1>3 DEF CheckSound, PoolAlone
<1>9. WatermarkTracks'
  <2> SUFFICES ASSUME "watermark" \notin poolRaced'
               PROVE  /\ HighThreshold > 0 /\ poolStats.inUse >= HighThreshold => poolAbove'
                      /\ poolStats.inUse <= LowThreshold =>
                           (poolAbove' => poolStats.inUse >= HighThreshold)
    BY <1>1 DEF WatermarkTracks, HighThreshold, LowThreshold, PoolLimit
  <2>1. "watermark" \notin poolRaced /\ \A u \in PoolThreads \ {t} : poolPc[u].step # "check"
    BY <1>1 DEF PoolAlone
  <2>2. poolPc[t].count = poolStats.inUse
    BY <2>1, <1>1 DEF PoolInv, CheckSound
  <2>3. PICK n \in Nat : n = poolStats.inUse
    BY PoolTables
  <2>4. PICK hi \in Int, lo \in Int : hi = HighThreshold /\ lo = LowThreshold
    <3>1. PoolLimit \in Nat
      BY PoolAssumption DEF PoolLimit
    <3> QED BY <3>1 DEF HighThreshold, LowThreshold
  <2>5. poolAbove' = IF n >= hi THEN TRUE ELSE IF n <= lo THEN FALSE ELSE poolAbove
    BY <2>2, <2>3, <2>4 DEF checkWatermarks
  <2> QED BY <2>3, <2>4, <2>5
<1>10. \A u \in PoolThreads : poolPc'[u].step = "return" => poolPc'[u].entry # 0
  BY <1>2, <1>3 DEF PoolInv
<1> QED BY <1>4, <1>5, <1>6, <1>7, <1>8, <1>9, <1>10 DEF PoolInv

(***************************************************************************)
(* What acquire returns: the handle of an entry in use, which nobody owns. *)
(***************************************************************************)
LEMMA PoolReturns ==
  ASSUME PoolInv, NEW t \in PoolThreads, returnHandle(t)
  PROVE  PoolInv'
<1>t. PoolTypeOK
  BY DEF PoolInv
<1>1. PICK e \in DOMAIN poolEntries : e = poolPc[t].entry
  <2>1. poolPc[t].step = "return" /\ poolPc[t].entry # 0 /\ poolPc[t].entry \in 0..Len(poolEntries)
    BY <1>t DEF returnHandle, PoolInv, PoolTypeOK
  <2> QED BY <2>1, PoolTables
<1>2. PICK h \in Nat : h = poolEntries[e].handle
  BY PoolTables DEF PoolEntry
<1>3. /\ poolPc[t].step = "return"
      /\ poolPc' = [poolPc EXCEPT ![t] = Resting]
      /\ poolOwned' = [poolOwned EXCEPT ![t] = @ \union {h}]
      /\ UNCHANGED <<poolEntries, poolIndex, poolAvailable, poolStats, poolAbove,
                     poolNext, poolRaced>>
  BY <1>1, <1>2 DEF returnHandle
<1>4. /\ poolPc'[t].step = "idle" /\ poolPc'[t].entry = 0
      /\ \A u \in PoolThreads \ {t} : poolPc'[u] = poolPc[u]
      /\ poolOwned'[t] = poolOwned[t] \union {h}
      /\ \A u \in PoolThreads \ {t} : poolOwned'[u] = poolOwned[u]
  BY <1>3, <1>t DEF PoolTypeOK, Resting
<1>5. PoolTypeOK'
  <2>1. poolPc' \in [PoolThreads -> PoolPcs]
    <3>1. Resting \in PoolPcs
      BY DEF Resting, PoolPcs
    <3> QED BY <3>1, <1>3, <1>t DEF PoolTypeOK
  <2>2. poolOwned' \in [PoolThreads -> SUBSET Nat]
    BY <1>3, <1>t DEF PoolTypeOK
  <2>3. \A u \in PoolThreads : poolPc'[u].entry \in 0..Len(poolEntries')
    BY <1>3, <1>4, <1>t, PoolTables DEF PoolTypeOK
  <2> QED BY <2>1, <2>2, <2>3, <1>3, <1>t DEF PoolTypeOK
<1>6. PoolConsistent'
  BY <1>3 DEF PoolInv, PoolConsistent, PoolLimit
<1>7. ASSUME "clear" \notin poolRaced
      PROVE  /\ e \in UsedEntries /\ h \in DOMAIN poolIndex /\ poolIndex[h] = e
             /\ \A u \in PoolThreads : h \notin poolOwned[u]
             /\ \A u \in PoolThreads \ {t} : PendingEntry(u) # e
  <2>1. PendingEntry(t) = e /\ e # 0
    BY <1>1, <1>3, PoolTables DEF PendingEntry
  <2> QED BY <2>1, <1>2, <1>7, PoolTables DEF PoolInv, PendingSound
<1>8. HandlesExclusive'
  <2>1. ASSUME "clear" \notin poolRaced, NEW u \in PoolThreads
        PROVE  poolOwned'[u] \subseteq DOMAIN poolIndex
    BY <2>1, <1>4, <1>7 DEF PoolInv, HandlesExclusive
  <2>2. ASSUME "clear" \notin poolRaced, NEW u \in PoolThreads, NEW v \in PoolThreads \ {u}
        PROVE  poolOwned'[u] \intersect poolOwned'[v] = {}
    <3>1. poolOwned[u] \intersect poolOwned[v] = {}
      BY <2>2 DEF PoolInv, HandlesExclusive
    <3> QED BY <3>1, <2>2, <1>4, <1>7
  <2> QED BY <2>1, <2>2, <1>3 DEF HandlesExclusive
<1>9. PendingSound'
  <2>0. PendingEntry(t)' = 0 /\ \A u \in PoolThreads \ {t} : PendingEntry(u)' = PendingEntry(u)
    BY <1>4 DEF PendingEntry
  <2>1. ASSUME "clear" \notin poolRaced', NEW v \in PoolThreads, PendingEntry(v)' # 0
        PROVE  /\ PendingEntry(v)' \in UsedEntries'
               /\ \A u \in PoolThreads : (poolEntries[PendingEntry(v)].handle \notin poolOwned[u])'
               /\ \A u \in PoolThreads \ {v} : PendingEntry(u)' # PendingEntry(v)'
    <3>1. v # t /\ "clear" \notin poolRaced
      BY <2>0, <2>1, <1>3
    <3>2. PICK k \in UsedEntries : k = PendingEntry(v) /\ k # 0
      BY <2>0, <2>1, <3>1 DEF PoolInv, PendingSound
    <3>3. \A u \in PoolThreads : poolEntries[k].handle \notin poolOwned[u]
      BY <2>0, <2>1, <3>1, <3>2 DEF PoolInv, PendingSound
    <3>4. \A u \in PoolThreads \ {v} : PendingEntry(u) # k
      BY <2>0, <2>1, <3>1, <3>2 DEF PoolInv, PendingSound
    <3>5. poolEntries[k].handle # h
      <4>1. k # e
        BY <3>1, <3>2, <1>7
      <4> QED BY <4>1, <3>1, <3>2, <1>7, PoolTables
    <3>6. PendingEntry(v)' = k /\ UsedEntries' = UsedEntries
      BY <2>0, <3>1, <3>2, <1>3 DEF UsedEntries
    <3>7. \A u \in PoolThreads : poolEntries[k].handle \notin poolOwned'[u]
      BY <3>3, <3>5, <1>4
    <3>8. \A u \in PoolThreads \ {v} : PendingEntry(u)' # k
      BY <3>2, <3>4, <2>0
    <3> QED BY <3>6, <3>7, <3>8, <1>3
  <2> QED BY <2>1 DEF PendingSound
<1>10. CheckSound' /\ WatermarkTracks'
  <2>1. \A u \in PoolThreads : /\ poolPc'[u].step = "check" <=> poolPc[u].step = "check"
                               /\ poolPc'[u].step = "check" => poolPc'[u].count = poolPc[u].count
    BY <1>3, <1>4
  <2>2. CheckSound'
    BY <2>1, <1>3 DEF PoolInv, CheckSound
  <2>3. WatermarkTracks'
    BY <2>1, <1>3 DEF PoolInv, WatermarkTracks, HighThreshold, LowThreshold, PoolLimit
  <2> QED BY <2>2, <2>3
<1>11. \A u \in PoolThreads : poolPc'[u].step = "return" => poolPc'[u].entry # 0
  BY <1>4 DEF PoolInv
<1> QED BY <1>5, <1>6, <1>8, <1>9, <1>10, <1>11 DEF PoolInv
(***************************************************************************)
(* The free indices of a pool that nobody uses are all of them, once each. *)
(***************************************************************************)
LEMMA AllFree ==
  ASSUME NEW n \in Nat, NEW q, q = [i \in 1..n |-> i]
  PROVE  q \in Seq(Nat) /\ Len(q) = n /\ IsInjective(q) /\ Range(q) = 1..n
<1>1. q \in Seq(Nat) /\ Len(q) = n /\ DOMAIN q = 1..n /\ \A i \in 1..n : q[i] = i
  OBVIOUS
<1>2. IsInjective(q)
  BY <1>1 DEF IsInjective
<1>3. Range(q) = 1..n
  BY <1>1 DEF Range
<1> QED BY <1>1, <1>2, <1>3

(***************************************************************************)
(* clear empties the tables; what it takes away from a call under way is   *)
(* what poolRaced records.                                                 *)
(***************************************************************************)
LEMMA PoolClears ==
  ASSUME PoolInv, NEW t \in PoolThreads, clearPool(t)
  PROVE  PoolInv'
<1>t. PoolTypeOK
  BY DEF PoolInv
<1>n. PICK n \in Nat : n = Len(poolEntries) /\ DOMAIN poolEntries = 1..n
  BY PoolTables
<1>1. /\ poolPc[t].step = "idle"
      /\ poolEntries' = [i \in 1..n |-> [poolEntries[i] EXCEPT !.inUse = FALSE]]
      /\ poolIndex' = <<>> /\ poolAvailable' = [i \in 1..n |-> i]
      /\ poolStats' = [poolStats EXCEPT !.inUse = 0, !.available = n]
      /\ poolAbove' = FALSE /\ poolOwned' = [u \in PoolThreads |-> {}]
      /\ poolNext' = poolNext /\ poolPc' = poolPc
      /\ "clear" \notin poolRaced' => PoolAlone(t)
      /\ "watermark" \notin poolRaced' => PoolAlone(t)
  BY <1>n DEF clearPool
<1>2. /\ poolEntries' \in Seq(PoolEntry) /\ Len(poolEntries') = n /\ DOMAIN poolEntries' = 1..n
      /\ \A i \in 1..n : ~poolEntries'[i].inUse
  <2>1. ASSUME NEW i \in 1..n
        PROVE  /\ [poolEntries[i] EXCEPT !.inUse = FALSE] \in PoolEntry
               /\ ~[poolEntries[i] EXCEPT !.inUse = FALSE].inUse
    <3>1. poolEntries[i] \in PoolEntry
      BY <1>n, PoolTables
    <3>2. [poolEntries[i] EXCEPT !.inUse = FALSE] \in PoolEntry
      BY <3>1 DEF PoolEntry
    <3>3. [poolEntries[i] EXCEPT !.inUse = FALSE].inUse = FALSE
      BY <3>1 DEF PoolEntry
    <3> QED BY <3>2, <3>3
  <2>2. poolEntries' \in [1..n -> PoolEntry]
    BY <1>1, <2>1
  <2>3. \A i \in 1..n : ~poolEntries'[i].inUse
    BY <1>1, <2>1
  <2> QED BY <2>2, <2>3
<1>3. UsedEntries' = {} /\ Cardinality({}) = 0
  BY <1>2, FS_EmptySet DEF UsedEntries
<1>4. /\ poolAvailable' \in Seq(Nat) /\ Len(poolAvailable') = n
      /\ IsInjective(poolAvailable') /\ Range(poolAvailable') = 1..n
  BY <1>1, AllFree
<1>5. DOMAIN poolIndex' = {}
  BY <1>1
<1>6. /\ poolStats' \in PoolStats /\ poolStats'.inUse = 0 /\ poolStats'.available = n
      /\ poolStats'.allocated = n /\ poolStats'.peak >= 0
  <2>1. poolStats \in PoolStats /\ poolStats.allocated = n
    BY <1>n, PoolTables
  <2>2. poolStats' = [poolStats EXCEPT !.inUse = 0, !.available = n]
    BY <1>1
  <2>3. poolStats' \in PoolStats
    BY <2>1, <2>2 DEF PoolStats
  <2>4. poolStats'.inUse = 0 /\ poolStats'.available = n /\ poolStats'.allocated = n
    BY <2>1, <2>2 DEF PoolStats
  <2>5. poolStats'.peak \in Nat
    BY <2>3 DEF PoolStats
  <2> QED BY <2>3, <2>4, <2>5
<1>7. PoolTypeOK'
  <2>1. poolOwned' \in [PoolThreads -> SUBSET Nat]
    BY <1>1
  <2> QED BY <2>1, <1>1, <1>2, <1>4, <1>5, <1>6, <1>n, <1>t DEF PoolTypeOK
<1>8. PoolConsistent'
  <2>1. {poolIndex'[h] : h \in DOMAIN poolIndex'} = UsedEntries'
    BY <1>3, <1>5
  <2>2. n <= PoolLimit
    BY <1>n, PoolTables
  <2> QED BY <2>1, <2>2, <1>2, <1>3, <1>4, <1>5, <1>6 DEF PoolConsistent, UsedEntries, PoolLimit
<1>9. HandlesExclusive'
  BY <1>1 DEF HandlesExclusive
<1>10. PendingSound'
  <2>1. PoolAlone(t) => \A u \in PoolThreads : PendingEntry(u)' = 0
    BY <1>1 DEF PoolAlone, PendingEntry
  <2> QED BY <2>1, <1>1 DEF PendingSound
<1>11. CheckSound'
  BY <1>1 DEF CheckSound, PoolAlone
<1>12. WatermarkTracks'
  <2>1. PoolLimit \in Nat /\ HighThreshold' = HighThreshold /\ HighThreshold \in Nat
    BY PoolAssumption DEF PoolLimit, HighThreshold
  <2>2. ~(HighThreshold' > 0 /\ poolStats'.inUse >= HighThreshold') /\ ~poolAbove'
    BY <2>1, <1>1, <1>6
  <2> QED BY <2>2 DEF WatermarkTracks
<1>13. \A u \in PoolThreads : poolPc'[u].step = "return" => poolPc'[u].entry # 0
  BY <1>1 DEF PoolInv
<1> QED BY SMTT(60), <1>7, <1>8, <1>9, <1>10, <1>11, <1>12, <1>13 DEF PoolInv

(***************************************************************************)
(* Every call of ConnectionPool keeps the invariant.                       *)
(***************************************************************************)
LEMMA PoolStep ==
  ASSUME PoolInv, [PoolNext]_poolVars
  PROVE  PoolInv'
<1>0. /\ poolStats \in PoolStats /\ poolStats.inUse \in Nat
      /\ poolStats.peak \in Nat /\ poolStats.acquires \in Nat /\ poolStats.rejected \in Nat
      /\ poolStats.peak >= poolStats.inUse
  BY PoolTables DEF PoolStats
<1>1. CASE UNCHANGED poolVars
  BY <1>0, <1>1, PoolCounts DEF poolVars
<1>2. ASSUME NEW t \in PoolThreads, rejectAcquire(t) PROVE PoolInv'
  <2>1. /\ poolStats' \in PoolStats /\ poolStats'.inUse = poolStats.inUse
        /\ poolStats'.available = poolStats.available
        /\ poolStats'.allocated = poolStats.allocated /\ poolStats'.peak = poolStats.peak
    <3>1. PICK a \in Nat : a = poolStats.acquires + 1
      BY <1>0
    <3>2. PICK r \in Nat : r = poolStats.rejected + 1
      BY <1>0
    <3>3. poolStats' = [poolStats EXCEPT !.acquires = a, !.rejected = r]
      BY <1>2, <3>1, <3>2 DEF rejectAcquire
    <3> QED BY <1>0, <3>3 DEF PoolStats
  <2>2. UNCHANGED <<poolEntries, poolIndex, poolAvailable, poolAbove, poolNext,
                    poolPc, poolOwned, poolRaced>>
    BY <1>2 DEF rejectAcquire
  <2> QED BY <2>1, <2>2, <1>0, PoolCounts
<1>3. ASSUME NEW t \in PoolThreads, resetPoolStatistics(t) PROVE PoolInv'
  <2>1. /\ poolStats' \in PoolStats /\ poolStats'.inUse = poolStats.inUse
        /\ poolStats'.available = poolStats.available
        /\ poolStats'.allocated = poolStats.allocated /\ poolStats'.peak = poolStats.inUse
    BY <1>0, <1>3 DEF resetPoolStatistics, PoolStats
  <2>2. UNCHANGED <<poolEntries, poolIndex, poolAvailable, poolAbove, poolNext,
                    poolPc, poolOwned, poolRaced>>
    BY <1>3 DEF resetPoolStatistics
  <2> QED BY <2>1, <2>2, <1>0, PoolCounts
<1> QED BY <1>1, <1>2, <1>3, PoolAcquires, PoolReleases, PoolChecks, PoolReturns, PoolClears
        DEF PoolNext

(***************************************************************************)
(* A pool starts with the entries it pre-allocates, all free, and no more  *)
(* of them than its limit.                                                 *)
(***************************************************************************)
LEMMA PoolStarts ==
  ASSUME PoolInit
  PROVE  PoolInv
<1>l. PICK limit \in Nat \ {0} : limit = PoolLimit
  BY PoolAssumption DEF PoolLimit
<1>n. PICK n \in Nat : n = PoolPreAllocated /\ n <= limit
  <2>1. PICK share \in Nat : share = (PoolLimit * 50) \div 100 /\ share <= limit
    BY <1>l
  <2>2. PICK asked \in Nat :
          /\ asked = IF MaxConnections = 0 THEN (DefaultConnections * 50) \div 100
                     ELSE IF PreAllocateCount > PoolLimit THEN PoolLimit ELSE PreAllocateCount
          /\ asked <= limit
    <3>1. CASE MaxConnections = 0
      <4>1. limit = DefaultConnections
        BY <3>1, <1>l DEF PoolLimit
      <4> QED BY <4>1, <3>1
    <3>2. CASE MaxConnections # 0
      BY <3>2, <1>l, PoolAssumption
    <3> QED BY <3>1, <3>2
  <2>3. PoolPreAllocated = IF asked # 0 THEN asked ELSE IF share = 0 THEN 1 ELSE share
    BY <2>1, <2>2 DEF PoolPreAllocated
  <2> QED BY <2>1, <2>2, <2>3
<1>1. /\ poolEntries = [i \in 1..n |-> NewEntry] /\ poolIndex = <<>>
      /\ poolAvailable = [i \in 1..n |-> i]
      /\ poolStats = [inUse |-> 0, available |-> n, peak |-> 0, allocated |-> n,
                      rejected |-> 0, acquires |-> 0, releases |-> 0]
      /\ poolAbove = FALSE /\ poolNext = 1 /\ poolPc = [t \in PoolThreads |-> Resting]
      /\ poolOwned = [t \in PoolThreads |-> {}] /\ poolRaced = {}
  BY <1>n DEF PoolInit, PoolCounters
<1>2. /\ poolEntries \in Seq(PoolEntry) /\ Len(poolEntries) = n /\ DOMAIN poolEntries = 1..n
      /\ \A i \in 1..n : ~poolEntries[i].inUse
  <2>1. NewEntry \in PoolEntry /\ ~NewEntry.inUse
    BY DEF NewEntry, PoolEntry
  <2> QED BY <1>1, <2>1
<1>3. UsedEntries = {} /\ Cardinality({}) = 0
  BY <1>2, FS_EmptySet DEF UsedEntries
<1>4. /\ poolAvailable \in Seq(Nat) /\ Len(poolAvailable) = n
      /\ IsInjective(poolAvailable) /\ Range(poolAvailable) = 1..n
  BY <1>1, AllFree
<1>5. DOMAIN poolIndex = {}
  BY <1>1
<1>6. /\ poolStats \in PoolStats /\ poolStats.inUse = 0 /\ poolStats.available = n
      /\ poolStats.allocated = n /\ poolStats.peak = 0
  BY <1>1 DEF PoolStats
<1>7. /\ poolPc \in [PoolThreads -> PoolPcs]
      /\ \A t \in PoolThreads : poolPc[t].step = "idle" /\ poolPc[t].entry = 0
  BY <1>1 DEF Resting, PoolPcs
<1>8. PoolTypeOK
  <2>1. poolOwned \in [PoolThreads -> SUBSET Nat]
    BY <1>1
  <2>2. \A t \in PoolThreads : poolPc[t].entry \in 0..Len(poolEntries)
    BY <1>2, <1>7
  <2>3. /\ \A h \in DOMAIN poolIndex : poolIndex[h] \in DOMAIN poolEntries
        /\ DOMAIN poolIndex \subseteq 1..(poolNext - 1)
    BY <1>5
  <2>4. poolNext \in Nat \ {0} /\ poolAbove \in BOOLEAN
    <3>1. poolNext = 1
      BY <1>1
    <3>2. poolAbove = FALSE
      BY <1>1
    <3>3. poolNext \in Nat \ {0}
      BY <3>1
    <3>4. poolAbove \in BOOLEAN
      BY <3>2
    <3> QED BY <3>3, <3>4
  <2> QED BY <2>1, <2>2, <2>3, <2>4, <1>2, <1>4, <1>6, <1>7 DEF PoolTypeOK
<1>9. PoolConsistent
  <2>1. {poolIndex[h] : h \in DOMAIN poolIndex} = UsedEntries
    BY <1>3, <1>5
  <2>2. Len(poolEntries) <= PoolLimit
    BY <1>l, <1>n, <1>2
  <2>3. Range(poolAvailable) = DOMAIN poolEntries \ UsedEntries
    BY <1>2, <1>3, <1>4
  <2>4. /\ poolStats.inUse = Cardinality(UsedEntries) /\ poolStats.available = Len(poolAvailable)
        /\ poolStats.allocated = Len(poolEntries) /\ poolStats.peak >= poolStats.inUse
    BY <1>2, <1>3, <1>4, <1>6
  <2>5. \A h \in DOMAIN poolIndex : poolEntries[poolIndex[h]].handle = h
    BY <1>5
  <2> QED BY <2>1, <2>2, <2>3, <2>4, <2>5, <1>4 DEF PoolConsistent, UsedEntries
<1>10. HandlesExclusive
  BY <1>1 DEF HandlesExclusive
<1>11. PendingSound /\ CheckSound
  BY <1>7 DEF PendingSound, PendingEntry, CheckSound
<1>12. WatermarkTracks
  <2>1. HighThreshold \in Nat
    BY <1>l DEF HighThreshold
  <2>2. ~(HighThreshold > 0 /\ poolStats.inUse >= HighThreshold) /\ ~poolAbove
    BY <2>1, <1>1, <1>6
  <2> QED BY <2>2 DEF WatermarkTracks
<1> QED BY <1>7, <1>8, <1>9, <1>10, <1>11, <1>12 DEF PoolInv

(***************************************************************************)
(* A limit of publishers starts with every slot free.                      *)
(***************************************************************************)
LEMMA SlotStarts ==
  ASSUME SlotInit
  PROVE  SlotInv
<1>1. /\ slots = {} /\ Cardinality({}) = 0 /\ slotHigh = FALSE /\ slotRaced = FALSE
      /\ slotStats = [peak |-> 0, acquires |-> 0, releases |-> 0, rejected |-> 0]
      /\ slotPc = [t \in LimitThreads |-> SlotResting] /\ slotCleared = 0 /\ slotBase = 0
  BY FS_EmptySet DEF SlotInit, SlotCounters
<1>2. SlotLimit \in Nat /\ SlotHigh \in Nat /\ SlotLow \in Nat
  BY LimitAssumption DEF SlotLimit, SlotHigh, SlotLow
<1>3. SlotTypeOK
  <2>1. SlotResting \in SlotPcs
    BY DEF SlotResting, SlotPcs
  <2>2. slotStats \in SlotStats
    BY <1>1 DEF SlotStats
  <2> QED BY <2>1, <2>2, <1>1 DEF SlotTypeOK
<1>4. SlotsAccounted
  BY <1>1, <1>2 DEF SlotsAccounted
<1>5. FlagFollows(Cardinality(slots))
  BY <1>1, <1>2 DEF FlagFollows
<1>6. \A t \in LimitThreads : SlotIdle(t)
  BY <1>1 DEF SlotIdle, SlotResting
<1> QED BY <1>3, <1>4, <1>5, <1>6 DEF SlotInv

(***************************************************************************)
(* Entries and slots are never more than the limit, each is free or handed *)
(* to one owner under a handle that names it, the counts and the peak are  *)
(* those of the tables, and the watermark was told of the last crossing.   *)
(***************************************************************************)
THEOREM ResourcesAreAccounted == ServicesSpec => []ResourcesAccounted
<1>1. ServicesInit => PoolInv /\ SlotInv
  BY PoolStarts, SlotStarts DEF ServicesInit
<1>2. PoolInv /\ SlotInv /\ [ServicesNext]_servicesVars => (PoolInv /\ SlotInv)'
  BY OneService, PoolStep, SlotStep
<1>3. PoolInv /\ SlotInv => ResourcesAccounted
  <2>1. SlotInv => SlotWatermarkTracks
    BY DEF SlotInv, SlotWatermarkTracks, FlagFollows
  <2> QED BY <2>1 DEF ResourcesAccounted, PoolInv, SlotInv
<1> QED BY <1>1, <1>2, <1>3, PTL DEF ServicesSpec
-----------------------------------------------------------------------------
(* Session                                                                  *)

SessionRecords == [state : SessionStates, key : SessionKeys \union {NoKey}, sid : Nat,
                   allocated : Nat, watched : BOOLEAN]
StateChanges == SessionStates \X SessionStates

\* Only a session with a callback has told anything.
SessionInv ==
  /\ sessions \in [Sessions -> SessionRecords]
  /\ told \in [Sessions -> Seq(StateChanges)]
  /\ recompleted \in BOOLEAN
  /\ \A s \in Sessions : ~sessions[s].watched => told[s] = <<>>
  /\ SessionSound

(***************************************************************************)
(* A transition out of a state other than Disconnected that sets the       *)
(* stream when it should keeps the invariant: it goes on from the state    *)
(* the callback heard of last.                                             *)
(***************************************************************************)
LEMMA SessionEmits ==
  ASSUME SessionInv, NEW s \in Sessions, NEW to \in SessionStates,
         NEW key \in SessionKeys \union {NoKey}, NEW sid \in Nat,
         emitStateChange(s, to, key, sid), sessions[s].state # "Disconnected",
         recompleted' \in BOOLEAN, recompleted => recompleted',
         ~recompleted' => (key # NoKey <=> to \in {"Publishing", "Subscribing"})
  PROVE  SessionInv'
<1>0. /\ sessions \in [Sessions -> SessionRecords] /\ told \in [Sessions -> Seq(StateChanges)]
      /\ sessions[s] \in SessionRecords /\ told[s] \in Seq(StateChanges)
      /\ sessions[s].state \in SessionStates
  BY DEF SessionInv, SessionRecords
<1>1. /\ sessions' \in [Sessions -> SessionRecords]
      /\ sessions'[s].state = to /\ sessions'[s].key = key /\ sessions'[s].watched = sessions[s].watched
      /\ \A u \in Sessions \ {s} : sessions'[u] = sessions[u]
  <2>1. PICK r \in SessionRecords :
          r = [sessions[s] EXCEPT !.state = to, !.key = key, !.sid = sid]
    <3>1. [sessions[s] EXCEPT !.state = to, !.key = key, !.sid = sid] \in SessionRecords
      BY <1>0 DEF SessionRecords
    <3> QED BY <3>1
  <2>2. r.state = to /\ r.key = key /\ r.watched = sessions[s].watched
    BY <2>1, <1>0 DEF SessionRecords
  <2>3. sessions' = [sessions EXCEPT ![s] = r]
    BY <2>1, <1>0 DEF emitStateChange
  <2> QED BY <2>2, <2>3, <1>0
<1>2. PICK m \in Nat : m = Len(told[s])
  BY <1>0
<1>3. /\ \A i \in 1..(m - 1) : told[s][i][2] = told[s][i + 1][1] /\ told[s][i][2] # "Disconnected"
      /\ m # 0 => told[s][m][2] = sessions[s].state
  <2>1. told[s] # <<>> => told[s][Len(told[s])][2] = sessions[s].state
    BY DEF SessionInv, SessionSound
  <2>2. m # 0 => told[s] # <<>>
    BY <1>2
  <2>3. \A i \in 1..(Len(told[s]) - 1) :
          told[s][i][2] = told[s][i + 1][1] /\ told[s][i][2] # "Disconnected"
    BY DEF SessionInv, SessionSound
  <2> QED BY <2>1, <2>2, <2>3, <1>2
<1>4. moved' = moved /\ \A u \in Sessions \ {s} : told'[u] = told[u]
  BY <1>0 DEF emitStateChange
<1>5. /\ told' \in [Sessions -> Seq(StateChanges)]
      /\ \A i \in 1..(Len(told'[s]) - 1) :
           told'[s][i][2] = told'[s][i + 1][1] /\ told'[s][i][2] # "Disconnected"
      /\ told'[s] # <<>> => told'[s][Len(told'[s])][2] = to
      /\ ~sessions'[s].watched => told'[s] = <<>>
  <2>1. CASE sessions[s].watched
    <3>1. PICK p \in StateChanges : p = <<sessions[s].state, to>>
      BY <1>0 DEF StateChanges
    <3>2. told' = [told EXCEPT ![s] = Append(told[s], p)]
      BY <2>1, <3>1 DEF emitStateChange
    <3>3. told' \in [Sessions -> Seq(StateChanges)] /\ told'[s] = Append(told[s], p)
      BY <3>2, <1>0
    <3>4. Len(told'[s]) = m + 1 /\ told'[s][m + 1] = p /\ \A i \in 1..m : told'[s][i] = told[s][i]
      BY <3>3, <1>0, <1>2
    <3>5. p[1] = sessions[s].state /\ p[2] = to
      BY <3>1
    <3>6. ASSUME NEW i \in 1..m
          PROVE  told'[s][i][2] = told'[s][i + 1][1] /\ told'[s][i][2] # "Disconnected"
      <4>1. CASE i = m
        BY <4>1, <3>4, <3>5, <1>3
      <4>2. CASE i # m
        <5>1. i \in 1..(m - 1) /\ i + 1 \in 1..m
          BY <4>2
        <5> QED BY <5>1, <3>4, <1>3
      <4> QED BY <4>1, <4>2
    <3>7. (m + 1) - 1 = m
      OBVIOUS
    <3> QED BY <3>3, <3>4, <3>5, <3>6, <3>7, <1>1, <2>1
  <2>2. CASE ~sessions[s].watched
    <3>1. told' = told /\ told[s] = <<>>
      BY <2>2 DEF emitStateChange, SessionInv
    <3> QED BY <3>1, <1>0
  <2> QED BY <2>1, <2>2
<1>6. ASSUME ~recompleted' PROVE key # NoKey <=> to \in {"Publishing", "Subscribing"}
  BY <1>6
<1>7. SessionSound'
  <2>1. ASSUME NEW u \in Sessions
        PROVE  /\ sessions'[u].state \in SessionStates
               /\ ~recompleted' =>
                    /\ sessions'[u].key # NoKey => sessions'[u].state \in {"Publishing", "Subscribing"}
                    /\ u \notin moved' /\ sessions'[u].state \in {"Publishing", "Subscribing"}
                         => sessions'[u].key # NoKey
               /\ \A i \in 1..(Len(told'[u]) - 1) :
                    told'[u][i][2] = told'[u][i + 1][1] /\ told'[u][i][2] # "Disconnected"
               /\ told'[u] # <<>> => told'[u][Len(told'[u])][2] = sessions'[u].state
    <3>1. CASE u = s
      BY <3>1, <1>1, <1>5, <1>6
    <3>2. CASE u # s
      <4>1. sessions'[u] = sessions[u] /\ told'[u] = told[u] /\ moved' = moved
        BY <3>2, <1>1, <1>4
      <4>2. ~recompleted' => ~recompleted
        OBVIOUS
      <4> QED BY <4>1, <4>2 DEF SessionInv, SessionSound
    <3> QED BY <3>1, <3>2
  <2> QED BY <2>1 DEF SessionSound
<1>8. \A u \in Sessions : ~sessions'[u].watched => told'[u] = <<>>
  BY <1>1, <1>4, <1>5 DEF SessionInv
<1> QED BY <1>1, <1>5, <1>7, <1>8 DEF SessionInv

(***************************************************************************)
(* A call that changes neither the states nor the keys keeps it.           *)
(***************************************************************************)
LEMMA SessionSets ==
  ASSUME SessionInv, sessions' \in [Sessions -> SessionRecords], UNCHANGED <<moved, recompleted, told>>,
         \A u \in Sessions : /\ sessions'[u].state = sessions[u].state
                             /\ sessions'[u].key = sessions[u].key
                             /\ ~sessions'[u].watched => ~sessions[u].watched
  PROVE  SessionInv'
<1>1. SessionSound'
  BY DEF SessionInv, SessionSound
<1> QED BY <1>1 DEF SessionInv

(***************************************************************************)
(* Every method of Session, and a move of one into another, keeps it.      *)
(***************************************************************************)
LEMMA SessionStep ==
  ASSUME SessionInv, [SessionNext]_sessionVars
  PROVE  SessionInv'
<1>0. /\ sessions \in [Sessions -> SessionRecords] /\ told \in [Sessions -> Seq(StateChanges)]
      /\ recompleted \in BOOLEAN
  BY DEF SessionInv
<1>r. ASSUME NEW s \in Sessions
      PROVE  /\ sessions[s] \in SessionRecords /\ sessions[s].state \in SessionStates
             /\ sessions[s].key \in SessionKeys \union {NoKey}
             /\ sessions[s].sid \in Nat /\ sessions[s].allocated \in Nat
             /\ ~recompleted /\ sessions[s].state \notin {"Publishing", "Subscribing"} =>
                  sessions[s].key = NoKey
  <2>1. /\ sessions[s] \in SessionRecords /\ sessions[s].state \in SessionStates
        /\ sessions[s].key \in SessionKeys \union {NoKey}
        /\ sessions[s].sid \in Nat /\ sessions[s].allocated \in Nat
    BY <1>0 DEF SessionRecords
  <2> QED BY <2>1 DEF SessionInv, SessionSound
<1>v. ASSUME NEW f \in SessionStates
      PROVE  /\ isValidTransition(f, "Handshaking") => f = "Connecting"
             /\ isValidTransition(f, "Connected") => f \in {"Handshaking", "Publishing", "Subscribing"}
             /\ isValidTransition(f, "Publishing") => f = "Connected"
             /\ isValidTransition(f, "Subscribing") => f = "Connected"
  BY DEF isValidTransition, SessionStates
<1>s. {"Handshaking", "Connected", "Publishing", "Subscribing", "Disconnected"} \subseteq SessionStates
  BY DEF SessionStates
<1>u. CASE UNCHANGED sessionVars
  BY <1>u, <1>0, SessionSets DEF sessionVars
<1>1. ASSUME NEW s \in Sessions, startHandshake(s) PROVE SessionInv'
  <2>1. sessions[s].state = "Connecting" /\ recompleted' = recompleted
        /\ emitStateChange(s, "Handshaking", sessions[s].key, sessions[s].sid)
    BY <1>1, <1>v, <1>r DEF startHandshake
  <2> QED BY <2>1, <1>0, <1>r, <1>s, SessionEmits
<1>2. ASSUME NEW s \in Sessions, completeHandshake(s) PROVE SessionInv'
  <2>1. sessions[s].state \in {"Handshaking", "Publishing", "Subscribing"}
        /\ emitStateChange(s, "Connected", sessions[s].key, sessions[s].sid)
    BY <1>2, <1>v, <1>r DEF completeHandshake
  <2>2. recompleted' \in BOOLEAN /\ (recompleted => recompleted')
        /\ (~recompleted' => sessions[s].state = "Handshaking" /\ ~recompleted)
    BY <1>2, <1>0 DEF completeHandshake
  <2>3. ~recompleted' => sessions[s].key = NoKey
    BY <2>2, <1>r
  <2> QED BY <2>1, <2>2, <2>3, <1>r, <1>s, SessionEmits
<1>3. ASSUME NEW s \in Sessions, NEW key \in SessionKeys,
             startPublishing(s, key) \/ startSubscribing(s, key)
      PROVE  SessionInv'
  <2>1. key # NoKey
    BY SessionAssumption DEF NoKey
  <2>2. PICK to \in {"Publishing", "Subscribing"} :
          /\ emitStateChange(s, to, key, sessions[s].allocated)
          /\ sessions[s].state = "Connected" /\ recompleted' = recompleted
    BY <1>3, <1>v, <1>r DEF startPublishing, startSubscribing
  <2> QED BY <2>1, <2>2, <1>0, <1>r, <1>s, SessionEmits
<1>4. ASSUME NEW s \in Sessions, stopPublishing(s) \/ stopSubscribing(s) \/ disconnect(s)
      PROVE  SessionInv'
  <2>1. PICK to \in {"Connected", "Disconnected"} :
          /\ emitStateChange(s, to, NoKey, 0)
          /\ sessions[s].state # "Disconnected" /\ recompleted' = recompleted
    BY <1>4 DEF stopPublishing, stopSubscribing, disconnect
  <2> QED BY <2>1, <1>0, <1>s, SessionEmits
<1>5. ASSUME NEW s \in Sessions, setAllocatedStreamId(s) \/ releaseAllocatedStreamId(s)
      PROVE  SessionInv'
  <2>1. PICK a \in {0, 1} : sessions' = [sessions EXCEPT ![s].allocated = a]
    BY <1>5 DEF setAllocatedStreamId, releaseAllocatedStreamId
  <2>2. PICK r \in SessionRecords : r = [sessions[s] EXCEPT !.allocated = a]
    <3>1. [sessions[s] EXCEPT !.allocated = a] \in SessionRecords
      BY <1>r DEF SessionRecords
    <3> QED BY <3>1
  <2>3. r.state = sessions[s].state /\ r.key = sessions[s].key /\ r.watched = sessions[s].watched
    BY <2>2, <1>r DEF SessionRecords
  <2>4. sessions' = [sessions EXCEPT ![s] = r]
    BY <2>1, <2>2, <1>0
  <2>5. UNCHANGED <<moved, recompleted, told>>
    BY <1>5 DEF setAllocatedStreamId, releaseAllocatedStreamId
  <2> QED BY <2>3, <2>4, <2>5, <1>0, SessionSets
<1>6. ASSUME NEW s \in Sessions, setStateChangeCallback(s) PROVE SessionInv'
  <2>2. PICK r \in SessionRecords : r = [sessions[s] EXCEPT !.watched = TRUE]
    <3>1. [sessions[s] EXCEPT !.watched = TRUE] \in SessionRecords
      BY <1>r DEF SessionRecords
    <3> QED BY <3>1
  <2>3. r.state = sessions[s].state /\ r.key = sessions[s].key /\ r.watched
    BY <2>2, <1>r DEF SessionRecords
  <2>4. sessions' = [sessions EXCEPT ![s] = r]
    BY <1>6, <2>2, <1>0 DEF setStateChangeCallback
  <2>5. UNCHANGED <<moved, recompleted, told>>
    BY <1>6 DEF setStateChangeCallback
  <2> QED BY <2>3, <2>4, <2>5, <1>0, SessionSets
<1>7. ASSUME NEW to \in Sessions, NEW from \in Sessions, moveSession(to, from) PROVE SessionInv'
  <2>1. PICK r \in SessionRecords : r = [sessions[from] EXCEPT !.key = NoKey, !.watched = FALSE]
    <3>1. [sessions[from] EXCEPT !.key = NoKey, !.watched = FALSE] \in SessionRecords
      BY <1>r DEF SessionRecords
    <3> QED BY <3>1
  <2>2. r.state = sessions[from].state /\ r.key = NoKey /\ ~r.watched
    BY <2>1, <1>r DEF SessionRecords
  <2>3. /\ to # from /\ from \notin moved /\ recompleted' = recompleted
        /\ sessions' = [sessions EXCEPT ![to] = sessions[from], ![from] = r]
        /\ told' = [told EXCEPT ![to] = told[from], ![from] = <<>>]
        /\ moved' = (moved \union {from}) \ {to}
    BY <1>7, <2>1, <1>0 DEF moveSession
  <2>4. /\ sessions' \in [Sessions -> SessionRecords] /\ told' \in [Sessions -> Seq(StateChanges)]
        /\ sessions'[from] = r /\ told'[from] = <<>> /\ from \in moved'
        /\ sessions'[to] = sessions[from] /\ told'[to] = told[from]
        /\ \A u \in Sessions \ {to, from} : /\ sessions'[u] = sessions[u] /\ told'[u] = told[u]
                                            /\ u \in moved' <=> u \in moved
    <3>1. /\ sessions' \in [Sessions -> SessionRecords] /\ sessions'[from] = r
          /\ sessions'[to] = sessions[from]
          /\ \A u \in Sessions \ {to, from} : sessions'[u] = sessions[u]
      BY <2>3, <1>0, <1>r
    <3>2. PICK q \in Seq(StateChanges) : q = <<>>
      <4>1. <<>> \in Seq(StateChanges)
        OBVIOUS
      <4> QED BY <4>1
    <3>3. told' = [told EXCEPT ![to] = told[from], ![from] = q]
      BY <2>3, <3>2
    <3>4. /\ told' \in [Sessions -> Seq(StateChanges)] /\ told'[from] = q /\ told'[to] = told[from]
          /\ \A u \in Sessions \ {to, from} : told'[u] = told[u]
      BY <3>3, <2>3, <1>0
    <3>5. from \in moved' /\ \A u \in Sessions \ {to, from} : u \in moved' <=> u \in moved
      BY <2>3
    <3> QED BY <3>1, <3>2, <3>4, <3>5
  <2>5. SessionSound'
    <3>1. ASSUME NEW u \in Sessions
          PROVE  /\ sessions'[u].state \in SessionStates
                 /\ ~recompleted' =>
                      /\ sessions'[u].key # NoKey => sessions'[u].state \in {"Publishing", "Subscribing"}
                      /\ u \notin moved' /\ sessions'[u].state \in {"Publishing", "Subscribing"}
                           => sessions'[u].key # NoKey
                 /\ \A i \in 1..(Len(told'[u]) - 1) :
                      told'[u][i][2] = told'[u][i + 1][1] /\ told'[u][i][2] # "Disconnected"
                 /\ told'[u] # <<>> => told'[u][Len(told'[u])][2] = sessions'[u].state
      <4>1. CASE u = from
        BY <4>1, <2>2, <2>4, <1>r
      <4>2. CASE u = to
        BY <4>2, <2>3, <2>4 DEF SessionInv, SessionSound
      <4>3. CASE u \notin {to, from}
        BY <4>3, <2>3, <2>4 DEF SessionInv, SessionSound
      <4> QED BY <4>1, <4>2, <4>3
    <3> QED BY <3>1 DEF SessionSound
  <2>6. \A u \in Sessions : ~sessions'[u].watched => told'[u] = <<>>
    BY <2>2, <2>3, <2>4 DEF SessionInv
  <2> QED BY <2>3, <2>4, <2>5, <2>6, <1>0 DEF SessionInv
<1> QED BY <1>u, <1>1, <1>2, <1>3, <1>4, <1>5, <1>6, <1>7 DEF SessionNext
-----------------------------------------------------------------------------
(* PublisherLifecycle                                                       *)

PubCalls == {NoCall, <<"told">>} \union ({"copy"} \X Nat)
            \union ({"notify"} \X Nat \X SUBSET PubSubscribers)

PubTypeOK ==
  /\ pubActive \in BOOLEAN /\ notified \in BOOLEAN
  /\ starts \in Nat /\ disconnects \in Nat
  /\ lastTime \in Seq(Nat) /\ gapCalls \in Seq(Nat) /\ frames \in Seq(Nat)
  /\ gaps \subseteq Nat \X Nat \X Nat
  /\ pubCall \in [PubThreads -> PubCalls]
  /\ listeners \subseteq PubSubscribers
  /\ joinedIn \in [PubSubscribers -> Nat]

\* Every disconnect that was reported, or is being, or may still be.
ToldCalls == {t \in PubThreads : pubCall[t][1] = "told"}
PubCounts == disconnects + Cardinality(ToldCalls) + (IF notified THEN 0 ELSE 1) <= starts + 1

\* The timestamp kept, or about to be, is that of the last frame.
PubFrames ==
  /\ lastTime # <<>> /\ gapCalls = <<>> => frames # <<>> /\ lastTime = <<frames[Len(frames)]>>
  /\ gapCalls # <<>> /\ frames # <<>> => gapCalls = <<frames[Len(frames)]>>
  /\ \A g \in gaps :
       /\ g[3] + 1 <= Len(frames) /\ g[3] >= 1
       /\ frames[g[3]] = g[1] /\ frames[g[3] + 1] = g[2]
       /\ g[2] > g[1] + GapThreshold

\* Nobody joins a publication that a call is stopping.
PubStops ==
  \A t \in PubThreads : pubCall[t][1] \in {"copy", "notify"} /\ pubCall[t][2] > 0 =>
    /\ pubCall[t][2] <= starts /\ (pubActive => pubCall[t][2] < starts)
    /\ pubCall[t][1] = "notify" =>
         \A s \in listeners \ pubCall[t][3] : joinedIn[s] = pubCall[t][2] => s \in ended

PubInv == PubTypeOK /\ PubCounts /\ PubFrames /\ PubStops

(***************************************************************************)
(* What a thread may be doing.                                             *)
(***************************************************************************)
LEMMA PubCallKinds ==
  ASSUME PubTypeOK, NEW t \in PubThreads
  PROVE  \/ pubCall[t] = <<"none">>
         \/ pubCall[t] = <<"told">>
         \/ \E p \in Nat : pubCall[t] = <<"copy", p>>
         \/ \E p \in Nat, S \in SUBSET PubSubscribers : pubCall[t] = <<"notify", p, S>>
<1>1. pubCall[t] \in PubCalls
  BY DEF PubTypeOK
<1> QED BY <1>1 DEF PubCalls, NoCall

(***************************************************************************)
(* What the calls, and the set of the tellers, become when one goes on.    *)
(***************************************************************************)
LEMMA PubGoesOn ==
  ASSUME PubTypeOK, NEW t \in PubThreads, NEW c \in PubCalls, Calling(t, c)
  PROVE  /\ pubCall' \in [PubThreads -> PubCalls] /\ pubCall'[t] = c
         /\ \A u \in PubThreads \ {t} : pubCall'[u] = pubCall[u]
         /\ ToldCalls' = IF c[1] = "told" THEN ToldCalls \union {t} ELSE ToldCalls \ {t}
         /\ IsFiniteSet(ToldCalls) /\ Cardinality(ToldCalls) \in Nat
<1>1. /\ pubCall' \in [PubThreads -> PubCalls] /\ pubCall'[t] = c
      /\ \A u \in PubThreads \ {t} : pubCall'[u] = pubCall[u]
  BY DEF Calling, PubTypeOK
<1>2. ToldCalls \subseteq PubThreads /\ ToldCalls' \subseteq PubThreads
  BY DEF ToldCalls
<1>3. IsFiniteSet(ToldCalls) /\ Cardinality(ToldCalls) \in Nat
  BY <1>2, PubAssumption, FS_Subset, FS_CardinalityType
<1>7. t \in ToldCalls' <=> c[1] = "told"
  <2>1. t \in ToldCalls' <=> pubCall'[t][1] = "told"
    BY DEF ToldCalls
  <2>2. pubCall'[t] = c
    BY <1>1
  <2> QED BY <2>1, <2>2
<1>8. ASSUME NEW u \in PubThreads, u # t PROVE u \in ToldCalls' <=> u \in ToldCalls
  <2>1. u \in ToldCalls' <=> pubCall'[u][1] = "told"
    BY DEF ToldCalls
  <2>2. u \in ToldCalls <=> pubCall[u][1] = "told"
    BY DEF ToldCalls
  <2>3. pubCall'[u] = pubCall[u]
    BY <1>1, <1>8
  <2> QED BY <2>1, <2>2, <2>3
<1>4. ASSUME c[1] = "told" PROVE ToldCalls' = ToldCalls \union {t}
  BY <1>2, <1>4, <1>7, <1>8
<1>5. ASSUME c[1] # "told" PROVE ToldCalls' = ToldCalls \ {t}
  BY <1>2, <1>5, <1>7, <1>8
<1> QED BY <1>1, <1>3, <1>4, <1>5

(***************************************************************************)
(* The next step of each call is a call.                                   *)
(***************************************************************************)
LEMMA PubCallSteps ==
  ASSUME PubTypeOK, NEW t \in PubThreads
  PROVE  /\ stopLifecycle(t) => Calling(t, <<"copy", starts>>) /\ <<"copy", starts>> \in PubCalls
         /\ onPublisherDisconnected(t) => Calling(t, <<"told">>) /\ <<"told">> \in PubCalls
         /\ disconnectCallback(t) => Calling(t, <<"copy", 0>>) /\ <<"copy", 0>> \in PubCalls
         /\ copySubscribers(t) => \E p \in Nat :
              /\ pubCall[t] = <<"copy", p>> /\ Calling(t, <<"notify", p, listeners>>)
              /\ <<"notify", p, listeners>> \in PubCalls
         /\ notifyAllSubscribers(t) => \E p \in Nat, S \in SUBSET PubSubscribers : \E s \in S :
              /\ pubCall[t] = <<"notify", p, S>> /\ Calling(t, <<"notify", p, S \ {s}>>)
              /\ <<"notify", p, S \ {s}>> \in PubCalls /\ ended' = ended \union {s}
         /\ notifyReturns(t) => Calling(t, NoCall) /\ NoCall \in PubCalls
<1>0. starts \in Nat /\ listeners \in SUBSET PubSubscribers
  BY DEF PubTypeOK
<1>1. /\ \A p \in Nat : <<"copy", p>> \in PubCalls
      /\ \A p \in Nat, S \in SUBSET PubSubscribers : <<"notify", p, S>> \in PubCalls
      /\ <<"told">> \in PubCalls /\ NoCall \in PubCalls
  BY DEF PubCalls
<1>2. stopLifecycle(t) => Calling(t, <<"copy", starts>>) /\ <<"copy", starts>> \in PubCalls
  BY <1>0, <1>1 DEF stopLifecycle
<1>3. onPublisherDisconnected(t) => Calling(t, <<"told">>) /\ <<"told">> \in PubCalls
  BY <1>1 DEF onPublisherDisconnected
<1>4. disconnectCallback(t) => Calling(t, <<"copy", 0>>) /\ <<"copy", 0>> \in PubCalls
  BY <1>1 DEF disconnectCallback
<1>5. ASSUME copySubscribers(t)
      PROVE  \E p \in Nat : /\ pubCall[t] = <<"copy", p>> /\ Calling(t, <<"notify", p, listeners>>)
                            /\ <<"notify", p, listeners>> \in PubCalls
  <2>1. PICK p \in Nat : pubCall[t] = <<"copy", p>>
    BY <1>5, PubCallKinds DEF copySubscribers
  <2>2. Calling(t, <<"notify", p, listeners>>)
    BY <1>5, <2>1 DEF copySubscribers
  <2> QED BY <2>1, <2>2, <1>0, <1>1
<1>6. ASSUME notifyAllSubscribers(t)
      PROVE  \E p \in Nat, S \in SUBSET PubSubscribers : \E s \in S :
               /\ pubCall[t] = <<"notify", p, S>> /\ Calling(t, <<"notify", p, S \ {s}>>)
               /\ <<"notify", p, S \ {s}>> \in PubCalls /\ ended' = ended \union {s}
  <2>1. PICK p \in Nat, S \in SUBSET PubSubscribers : pubCall[t] = <<"notify", p, S>>
    BY <1>6, PubCallKinds DEF notifyAllSubscribers
  <2>2. PICK s \in S : /\ ended' = ended \union {s}
                       /\ Calling(t, [pubCall[t] EXCEPT ![3] = @ \ {s}])
    BY <1>6, <2>1 DEF notifyAllSubscribers
  <2>3. [pubCall[t] EXCEPT ![3] = @ \ {s}] = <<"notify", p, S \ {s}>>
    BY <2>1
  <2>4. S \ {s} \in SUBSET PubSubscribers
    OBVIOUS
  <2> QED BY <2>1, <2>2, <2>3, <2>4, <1>1
<1>7. notifyReturns(t) => Calling(t, NoCall) /\ NoCall \in PubCalls
  BY <1>1 DEF notifyReturns
<1> QED BY <1>2, <1>3, <1>4, <1>5, <1>6, <1>7

(***************************************************************************)
(* The types are kept.                                                     *)
(***************************************************************************)
LEMMA PubTypes ==
  ASSUME PubTypeOK, PubNext
  PROVE  PubTypeOK'
<1>1. CASE startPublication
  <2>1. starts' \in Nat /\ lastTime' \in Seq(Nat) /\ frames' \in Seq(Nat) /\ gaps' = {}
    BY <1>1 DEF startPublication, PubTypeOK
  <2>2. pubActive' \in BOOLEAN /\ notified' \in BOOLEAN
    BY <1>1 DEF startPublication
  <2> QED BY <2>1, <2>2, <1>1 DEF startPublication, PubTypeOK
<1>2. CASE gapCallbackReturns
  <2>1. lastTime' \in Seq(Nat) /\ gapCalls' \in Seq(Nat)
    BY <1>2 DEF gapCallbackReturns, PubTypeOK
  <2> QED BY <2>1, <1>2 DEF gapCallbackReturns, PubTypeOK
<1>3. ASSUME NEW ts \in FrameTimes, onMediaReceived(ts) PROVE PubTypeOK'
  <2>0. ts \in Nat
    BY PubAssumption
  <2>1. frames' \in Seq(Nat)
    BY <1>3, <2>0 DEF onMediaReceived, PubTypeOK
  <2>2. lastTime' \in Seq(Nat) /\ gapCalls' \in Seq(Nat)
    <3>1. <<ts>> \in Seq(Nat)
      BY <2>0
    <3>2. lastTime' \in {lastTime, <<ts>>} /\ gapCalls' \in {gapCalls, <<ts>>}
      BY <1>3 DEF onMediaReceived
    <3> QED BY <3>1, <3>2 DEF PubTypeOK
  <2>3. gaps' \subseteq Nat \X Nat \X Nat
    <3>1. CASE checkTimestampGap(ts)
      <4>1. lastTime[1] \in Nat /\ Len(frames) \in Nat
        BY <3>1 DEF checkTimestampGap, PubTypeOK
      <4> QED BY <4>1, <3>1, <1>3, <2>0 DEF onMediaReceived, PubTypeOK
    <3>2. CASE ~checkTimestampGap(ts)
      BY <3>2, <1>3 DEF onMediaReceived, PubTypeOK
    <3> QED BY <3>1, <3>2
  <2> QED BY <2>1, <2>2, <2>3, <1>3 DEF onMediaReceived, PubTypeOK
<1>4. ASSUME NEW s \in PubSubscribers, addSubscriber(s) \/ removeSubscriber(s) PROVE PubTypeOK'
  <2>1. listeners' \subseteq PubSubscribers
    BY <1>4 DEF addSubscriber, removeSubscriber, PubTypeOK
  <2>2. joinedIn' \in [PubSubscribers -> Nat]
    <3>1. PICK n \in Nat : n = IF pubActive THEN starts ELSE 0
      BY DEF PubTypeOK
    <3>2. joinedIn' = joinedIn \/ joinedIn' = [joinedIn EXCEPT ![s] = n]
      BY <3>1, <1>4 DEF addSubscriber, removeSubscriber
    <3> QED BY <3>2 DEF PubTypeOK
  <2> QED BY <2>1, <2>2, <1>4 DEF addSubscriber, removeSubscriber, PubTypeOK
<1>5. ASSUME NEW t \in PubThreads,
             \/ stopLifecycle(t) \/ onPublisherDisconnected(t) \/ disconnectCallback(t)
             \/ copySubscribers(t) \/ notifyAllSubscribers(t) \/ notifyReturns(t)
      PROVE  PubTypeOK'
  <2>1. pubCall' \in [PubThreads -> PubCalls]
    BY <1>5, PubCallSteps, PubGoesOn
  <2>2. pubActive' \in BOOLEAN
    BY <1>5 DEF PubTypeOK, stopLifecycle, onPublisherDisconnected, disconnectCallback,
                copySubscribers, notifyAllSubscribers, notifyReturns
  <2>3. notified' \in BOOLEAN
    BY <1>5 DEF PubTypeOK, stopLifecycle, onPublisherDisconnected, disconnectCallback,
                copySubscribers, notifyAllSubscribers, notifyReturns
  <2>4. disconnects' \in Nat /\ listeners' \subseteq PubSubscribers
    BY <1>5 DEF PubTypeOK, stopLifecycle, onPublisherDisconnected, disconnectCallback,
                copySubscribers, notifyAllSubscribers, notifyReturns
  <2>5. UNCHANGED <<starts, lastTime, gapCalls, frames, gaps, joinedIn>>
    BY <1>5 DEF stopLifecycle, onPublisherDisconnected, disconnectCallback,
                copySubscribers, notifyAllSubscribers, notifyReturns
  <2> QED BY <2>1, <2>2, <2>3, <2>4, <2>5 DEF PubTypeOK
<1> QED BY <1>1, <1>2, <1>3, <1>4, <1>5 DEF PubNext

(***************************************************************************)
(* One disconnect is reported for each start, and one before the first.    *)
(***************************************************************************)
LEMMA PubCountsKept ==
  ASSUME PubInv, PubNext
  PROVE  PubCounts'
<1>0. PubTypeOK /\ PubCounts
  BY DEF PubInv
<1>f. IsFiniteSet(ToldCalls) /\ Cardinality(ToldCalls) \in Nat
  <2>1. ToldCalls \subseteq PubThreads
    BY DEF ToldCalls
  <2> QED BY <2>1, PubAssumption, FS_Subset, FS_CardinalityType
<1>n. PICK n \in Nat : n = Cardinality(ToldCalls)
  BY <1>f
<1>b. PICK b \in {0, 1} : b = (IF notified THEN 0 ELSE 1) /\ (notified => b = 0)
  OBVIOUS
<1>c. disconnects + n + b <= starts + 1 /\ disconnects \in Nat /\ starts \in Nat
  BY <1>0, <1>n, <1>b DEF PubCounts, PubTypeOK
<1>k. ASSUME UNCHANGED <<disconnects, notified, starts>>, ToldCalls' = ToldCalls
      PROVE  PubCounts'
  BY <1>k, <1>0 DEF PubCounts
<1>1. CASE startPublication
  <2>1. /\ ToldCalls' = ToldCalls /\ disconnects' = disconnects /\ starts' = starts + 1
        /\ notified' = FALSE
    BY <1>1 DEF startPublication, ToldCalls
  <2>2. disconnects + n + 1 <= (starts + 1) + 1
    BY <1>c
  <2> QED BY <2>1, <2>2, <1>n DEF PubCounts
<1>2. CASE gapCallbackReturns
  BY <1>2, <1>k DEF gapCallbackReturns, ToldCalls
<1>3. ASSUME NEW ts \in FrameTimes, onMediaReceived(ts) PROVE PubCounts'
  BY <1>3, <1>k DEF onMediaReceived, ToldCalls
<1>4. ASSUME NEW s \in PubSubscribers, addSubscriber(s) \/ removeSubscriber(s) PROVE PubCounts'
  BY <1>4, <1>k DEF addSubscriber, removeSubscriber, ToldCalls
<1>5. ASSUME NEW t \in PubThreads, onPublisherDisconnected(t) PROVE PubCounts'
  <2>1. ~notified /\ notified' = TRUE /\ UNCHANGED <<disconnects, starts>> /\ t \notin ToldCalls
    BY <1>5 DEF onPublisherDisconnected, ToldCalls, NoCall
  <2>2. ToldCalls' = ToldCalls \union {t}
    <3>1. <<"told">>[1] = "told"
      OBVIOUS
    <3> QED BY <3>1, <1>5, <1>0, PubCallSteps, PubGoesOn
  <2>3. Cardinality(ToldCalls') = n + 1
    BY <2>1, <2>2, <1>f, <1>n, FS_AddElement
  <2>4. disconnects + (n + 1) + 0 <= starts + 1
    BY <1>c, <1>b, <2>1
  <2> QED BY <2>1, <2>3, <2>4 DEF PubCounts
<1>6. ASSUME NEW t \in PubThreads, disconnectCallback(t) PROVE PubCounts'
  <2>1. UNCHANGED <<notified, starts>> /\ disconnects' = disconnects + 1 /\ t \in ToldCalls
    BY <1>6 DEF disconnectCallback, ToldCalls
  <2>2. ToldCalls' = ToldCalls \ {t}
    <3>1. <<"copy", 0>>[1] # "told"
      OBVIOUS
    <3> QED BY <3>1, <1>6, <1>0, PubCallSteps, PubGoesOn
  <2>3. PICK m \in Nat : m = Cardinality(ToldCalls') /\ n = m + 1
    <3>1. /\ Cardinality(ToldCalls') = n - 1 /\ IsFiniteSet(ToldCalls')
          /\ Cardinality(ToldCalls') \in Nat
      BY <2>1, <2>2, <1>f, <1>n, FS_RemoveElement, FS_CardinalityType
    <3> QED BY <3>1
  <2>4. (disconnects + 1) + m + b <= starts + 1
    BY <1>c, <2>3
  <2>5. b = IF notified' THEN 0 ELSE 1
    BY <1>b, <2>1
  <2> QED BY <2>1, <2>3, <2>4, <2>5 DEF PubCounts
<1>7. ASSUME NEW t \in PubThreads,
             stopLifecycle(t) \/ copySubscribers(t) \/ notifyAllSubscribers(t) \/ notifyReturns(t)
      PROVE  PubCounts'
  <2>1. PICK c \in PubCalls : Calling(t, c) /\ c[1] # "told"
    BY <1>7, <1>0, PubCallSteps DEF NoCall
  <2>2. t \notin ToldCalls
    BY <1>7 DEF stopLifecycle, copySubscribers, notifyAllSubscribers, notifyReturns, ToldCalls, NoCall
  <2>3. ToldCalls' = ToldCalls
    BY <2>1, <2>2, <1>0, PubGoesOn
  <2>4. UNCHANGED <<disconnects, notified, starts>>
    BY <1>7 DEF stopLifecycle, copySubscribers, notifyAllSubscribers, notifyReturns
  <2> QED BY <2>3, <2>4, <1>k
<1> QED BY <1>1, <1>2, <1>3, <1>4, <1>5, <1>6, <1>7 DEF PubNext

(***************************************************************************)
(* A gap lies between two frames that followed each other.                 *)
(***************************************************************************)
LEMMA PubFramesKept ==
  ASSUME PubInv, PubNext
  PROVE  PubFrames'
<1>0. PubTypeOK /\ PubFrames
  BY DEF PubInv
<1>1. CASE startPublication
  <2>1. frames' = <<>> /\ gaps' = {} /\ lastTime' = <<>>
    BY <1>1 DEF startPublication
  <2> QED BY <2>1 DEF PubFrames
<1>2. CASE gapCallbackReturns
  <2>1. /\ gapCalls # <<>> /\ gapCalls' = <<>> /\ UNCHANGED <<frames, gaps>>
        /\ lastTime' = IF frames = <<>> THEN <<>> ELSE gapCalls
    BY <1>2 DEF gapCallbackReturns
  <2>2. lastTime' # <<>> => frames # <<>> /\ lastTime' = <<frames[Len(frames)]>>
    BY <2>1, <1>0 DEF PubFrames
  <2> QED BY <2>1, <2>2, <1>0 DEF PubFrames
<1>3. ASSUME NEW ts \in FrameTimes, onMediaReceived(ts) PROVE PubFrames'
  <2>0. ts \in Nat /\ GapThreshold \in Nat
    BY PubAssumption
  <2>1. PICK n \in Nat : n = Len(frames)
    BY <1>0 DEF PubTypeOK
  <2>2. /\ frames' \in Seq(Nat) /\ Len(frames') = n + 1 /\ frames'[n + 1] = ts
        /\ \A i \in 1..n : frames'[i] = frames[i]
    BY <1>3, <2>0, <2>1, <1>0 DEF onMediaReceived, PubTypeOK
  <2>3. frames' # <<>> /\ gapCalls = <<>>
    BY <2>2, <1>3 DEF onMediaReceived
  <2>4. ASSUME NEW g \in gaps
        PROVE  /\ g[3] + 1 <= Len(frames') /\ g[3] >= 1
               /\ frames'[g[3]] = g[1] /\ frames'[g[3] + 1] = g[2]
               /\ g[2] > g[1] + GapThreshold
    <3>1. PICK k \in Nat : k = g[3]
      BY <2>4, <1>0 DEF PubTypeOK
    <3>2. /\ k + 1 <= n /\ k >= 1 /\ frames[k] = g[1] /\ frames[k + 1] = g[2]
          /\ g[2] > g[1] + GapThreshold
      BY <3>1, <2>4, <2>1, <1>0 DEF PubFrames
    <3>3. k \in 1..n /\ k + 1 \in 1..n /\ k + 1 <= n + 1
      BY <3>1, <3>2, <2>1
    <3> QED BY <3>1, <3>2, <3>3, <2>2
  <2>5. CASE checkTimestampGap(ts)
    <3>1. PICK p \in Nat : p = lastTime[1]
      BY <2>5, <1>0 DEF checkTimestampGap, PubTypeOK
    <3>2. n # 0 /\ frames[n] = p
      BY <3>1, <2>1, <2>3, <2>5, <1>0 DEF checkTimestampGap, PubFrames
    <3>3. ts > p + GapThreshold
      <4>1. ts - p > GapThreshold
        BY <2>5, <3>1 DEF checkTimestampGap
      <4> QED BY <4>1, <3>1, <2>0
    <3>4. gaps' = gaps \union {<<p, ts, n>>} /\ gapCalls' = <<ts>>
      BY <2>5, <3>1, <2>1, <1>3 DEF onMediaReceived
    <3>5. n \in 1..n /\ n + 1 <= n + 1 /\ n >= 1
      BY <2>1, <3>2
    <3>6. frames'[n] = p
      BY <3>2, <3>5, <2>2
    <3>7. gapCalls' # <<>> /\ gapCalls' = <<frames'[Len(frames')]>>
      BY <3>4, <2>2
    <3>8. \A g \in gaps' : /\ g[3] + 1 <= Len(frames') /\ g[3] >= 1
                           /\ frames'[g[3]] = g[1] /\ frames'[g[3] + 1] = g[2]
                           /\ g[2] > g[1] + GapThreshold
      <4>1. ASSUME NEW g, g = <<p, ts, n>>
            PROVE  /\ g[3] + 1 <= Len(frames') /\ g[3] >= 1
                   /\ frames'[g[3]] = g[1] /\ frames'[g[3] + 1] = g[2]
                   /\ g[2] > g[1] + GapThreshold
        BY <4>1, <3>3, <3>5, <3>6, <2>2
      <4> QED BY <4>1, <2>4, <3>4
    <3> QED BY <3>7, <3>8 DEF PubFrames
  <2>6. CASE ~checkTimestampGap(ts)
    <3>1. lastTime' = <<ts>> /\ UNCHANGED <<gaps, gapCalls>>
      BY <2>6, <1>3 DEF onMediaReceived
    <3>2. lastTime' = <<frames'[Len(frames')]>>
      BY <3>1, <2>2
    <3> QED BY <3>1, <3>2, <2>3, <2>4 DEF PubFrames
  <2> QED BY <2>5, <2>6
<1>4. CASE UNCHANGED <<lastTime, gapCalls, frames, gaps>>
  BY <1>4, <1>0 DEF PubFrames
<1>5. ASSUME NEW s \in PubSubscribers, addSubscriber(s) \/ removeSubscriber(s)
      PROVE  UNCHANGED <<lastTime, gapCalls, frames, gaps>>
  BY <1>5 DEF addSubscriber, removeSubscriber
<1>6. ASSUME NEW t \in PubThreads,
             \/ stopLifecycle(t) \/ onPublisherDisconnected(t) \/ disconnectCallback(t)
             \/ copySubscribers(t) \/ notifyAllSubscribers(t) \/ notifyReturns(t)
      PROVE  UNCHANGED <<lastTime, gapCalls, frames, gaps>>
  BY <1>6 DEF stopLifecycle, onPublisherDisconnected, disconnectCallback,
              copySubscribers, notifyAllSubscribers, notifyReturns
<1> QED BY <1>1, <1>2, <1>3, <1>4, <1>5, <1>6 DEF PubNext

(***************************************************************************)
(* A subscriber that a stop will clear was in its copy or joined later.    *)
(***************************************************************************)
LEMMA PubStopsKept ==
  ASSUME PubInv, PubNext
  PROVE  PubStops'
<1>0. PubTypeOK /\ PubStops
  BY DEF PubInv
<1>n. starts \in Nat /\ pubActive \in BOOLEAN /\ joinedIn \in [PubSubscribers -> Nat]
      /\ listeners \subseteq PubSubscribers
  BY <1>0 DEF PubTypeOK
<1>c. ASSUME NEW t \in PubThreads, pubCall[t][1] \in {"copy", "notify"}
      PROVE  pubCall[t][2] \in Nat
  BY <1>c, <1>0, PubCallKinds
<1>1. CASE startPublication
  <2>1. /\ ~pubActive /\ starts' = starts + 1 /\ pubCall' = pubCall /\ listeners' = listeners
        /\ joinedIn' = joinedIn /\ ended' = ended
    BY <1>1 DEF startPublication
  <2>2. ASSUME NEW t \in PubThreads, pubCall[t][1] \in {"copy", "notify"}, pubCall[t][2] > 0
        PROVE  pubCall[t][2] <= starts' /\ pubCall[t][2] < starts'
    <3>1. pubCall[t][2] <= starts /\ pubCall[t][2] \in Nat
      BY <2>2, <1>0, <1>c DEF PubStops
    <3> QED BY <3>1, <2>1, <1>n
  <2> QED BY <2>1, <2>2, <1>0 DEF PubStops
<1>2. CASE gapCallbackReturns
  BY <1>2, <1>0 DEF gapCallbackReturns, PubStops
<1>3. ASSUME NEW ts \in FrameTimes, onMediaReceived(ts) PROVE PubStops'
  BY <1>3, <1>0 DEF onMediaReceived, PubStops
<1>4. ASSUME NEW s \in PubSubscribers, addSubscriber(s) PROVE PubStops'
  <2>1. PICK n \in Nat : n = IF pubActive THEN starts ELSE 0
    BY <1>n
  <2>2. /\ listeners' = listeners \union {s} /\ ended' = ended \ {s} /\ joinedIn'[s] = n
        /\ \A r \in PubSubscribers \ {s} : joinedIn'[r] = joinedIn[r]
        /\ UNCHANGED <<pubActive, pubCall, starts>>
    BY <2>1, <1>4, <1>n DEF addSubscriber
  <2>3. ASSUME NEW t \in PubThreads, pubCall[t][1] \in {"copy", "notify"}, pubCall[t][2] > 0,
               pubCall[t][1] = "notify", NEW r \in listeners' \ pubCall[t][3],
               joinedIn'[r] = pubCall[t][2]
        PROVE  r \in ended'
    <3>1. (pubActive => pubCall[t][2] < starts) /\ pubCall[t][2] \in Nat
      BY <2>3, <1>0, <1>c DEF PubStops
    <3>2. r # s
      BY <3>1, <2>1, <2>2, <2>3, <1>n
    <3>3. r \in listeners \ pubCall[t][3] /\ joinedIn[r] = pubCall[t][2]
      BY <3>2, <2>2, <2>3, <1>n
    <3>4. r \in ended
      BY <3>3, <2>3, <1>0 DEF PubStops
    <3> QED BY <3>2, <3>4, <2>2
  <2> QED BY <2>2, <2>3, <1>0 DEF PubStops
<1>5. ASSUME NEW s \in PubSubscribers, removeSubscriber(s) PROVE PubStops'
  BY <1>5, <1>0 DEF removeSubscriber, PubStops
<1>6. ASSUME NEW t \in PubThreads, NEW c \in PubCalls, Calling(t, c),
             UNCHANGED <<starts, joinedIn>>, listeners' \subseteq listeners, ended \subseteq ended',
             pubActive' => pubActive,
             c[1] \in {"copy", "notify"} /\ c[2] > 0 =>
               /\ c[2] <= starts /\ (pubActive' => c[2] < starts)
               /\ c[1] = "notify" =>
                    \A s \in listeners' \ c[3] : joinedIn[s] = c[2] => s \in ended'
      PROVE  PubStops'
  <2>1. pubCall'[t] = c /\ \A u \in PubThreads \ {t} : pubCall'[u] = pubCall[u]
    BY <1>6, <1>0, PubGoesOn
  <2>2. ASSUME NEW u \in PubThreads, pubCall'[u][1] \in {"copy", "notify"}, pubCall'[u][2] > 0
        PROVE  /\ pubCall'[u][2] <= starts' /\ (pubActive' => pubCall'[u][2] < starts')
               /\ pubCall'[u][1] = "notify" =>
                    \A s \in listeners' \ pubCall'[u][3] :
                      joinedIn'[s] = pubCall'[u][2] => s \in ended'
    <3>1. CASE u = t
      BY <3>1, <2>1, <2>2, <1>6
    <3>2. CASE u # t
      <4>1. pubCall'[u] = pubCall[u]
        BY <3>2, <2>1
      <4> QED BY <4>1, <2>2, <1>6, <1>0 DEF PubStops
    <3> QED BY <3>1, <3>2
  <2> QED BY <2>2 DEF PubStops
<1>7. ASSUME NEW t \in PubThreads, stopLifecycle(t) PROVE PubStops'
  <2>1. /\ pubActive' = FALSE /\ UNCHANGED <<starts, joinedIn, listeners, ended>>
        /\ Calling(t, <<"copy", starts>>) /\ <<"copy", starts>> \in PubCalls
    BY <1>7, <1>0, PubCallSteps DEF stopLifecycle
  <2>2. starts <= starts
    BY <1>n
  <2> QED BY <2>1, <2>2, <1>6
<1>8. ASSUME NEW t \in PubThreads, onPublisherDisconnected(t) \/ disconnectCallback(t)
      PROVE  PubStops'
  <2>1. UNCHANGED <<pubActive, starts, joinedIn, listeners, ended>>
    BY <1>8 DEF onPublisherDisconnected, disconnectCallback
  <2>2. PICK c \in {<<"told">>, <<"copy", 0>>} : Calling(t, c) /\ c \in PubCalls
    BY <1>8, <1>0, PubCallSteps
  <2>3. ~(c[1] \in {"copy", "notify"} /\ c[2] > 0)
    BY <2>2
  <2> QED BY <2>1, <2>2, <2>3, <1>6
<1>9. ASSUME NEW t \in PubThreads, copySubscribers(t) PROVE PubStops'
  <2>1. UNCHANGED <<pubActive, starts, joinedIn, listeners, ended>>
    BY <1>9 DEF copySubscribers
  <2>2. PICK p \in Nat : /\ pubCall[t] = <<"copy", p>> /\ Calling(t, <<"notify", p, listeners>>)
                         /\ <<"notify", p, listeners>> \in PubCalls
    BY <1>9, <1>0, PubCallSteps
  <2>3. p > 0 => p <= starts /\ (pubActive => p < starts)
    BY <2>2, <1>0 DEF PubStops
  <2>4. PICK c \in PubCalls : c = <<"notify", p, listeners>>
    BY <2>2
  <2>5. c[1] = "notify" /\ c[2] = p /\ c[3] = listeners
    BY <2>4
  <2>6. \A s \in listeners' \ c[3] : FALSE
    BY <2>5, <2>1
  <2>7. Calling(t, c)
    BY <2>2, <2>4
  <2> QED BY <2>1, <2>3, <2>5, <2>6, <2>7, <1>6
<1>10. ASSUME NEW t \in PubThreads, notifyAllSubscribers(t) PROVE PubStops'
  <2>1. UNCHANGED <<pubActive, starts, joinedIn, listeners>>
    BY <1>10 DEF notifyAllSubscribers
  <2>2. PICK p \in Nat, S \in SUBSET PubSubscribers : \E s \in S :
          /\ pubCall[t] = <<"notify", p, S>> /\ Calling(t, <<"notify", p, S \ {s}>>)
          /\ <<"notify", p, S \ {s}>> \in PubCalls /\ ended' = ended \union {s}
    BY <1>10, <1>0, PubCallSteps
  <2>3. PICK s \in S :
          /\ pubCall[t] = <<"notify", p, S>> /\ Calling(t, <<"notify", p, S \ {s}>>)
          /\ <<"notify", p, S \ {s}>> \in PubCalls /\ ended' = ended \union {s}
    BY <2>2
  <2>4. pubCall[t][1] = "notify" /\ pubCall[t][2] = p /\ pubCall[t][3] = S
    BY <2>3
  <2>5. p > 0 => /\ p <= starts /\ (pubActive => p < starts)
                 /\ \A r \in listeners \ S : joinedIn[r] = p => r \in ended
    BY <2>4, <1>0 DEF PubStops
  <2>6. PICK c \in PubCalls : c = <<"notify", p, S \ {s}>>
    BY <2>3
  <2>7. c[1] = "notify" /\ c[2] = p /\ c[3] = S \ {s}
    BY <2>6
  <2>8. p > 0 => \A r \in listeners' \ c[3] : joinedIn[r] = p => r \in ended'
    BY <2>1, <2>3, <2>5, <2>7
  <2>9. Calling(t, c) /\ ended \subseteq ended'
    BY <2>3, <2>6
  <2> QED BY <2>1, <2>5, <2>7, <2>8, <2>9, <1>6
<1>11. ASSUME NEW t \in PubThreads, notifyReturns(t) PROVE PubStops'
  <2>1. UNCHANGED <<pubActive, starts, joinedIn, ended>> /\ listeners' \subseteq listeners
    BY <1>11 DEF notifyReturns
  <2>2. Calling(t, NoCall) /\ NoCall \in PubCalls
    BY <1>11, <1>0, PubCallSteps
  <2>3. NoCall[1] \notin {"copy", "notify"}
    BY DEF NoCall
  <2> QED BY <2>1, <2>2, <2>3, <1>6
<1> QED BY <1>1, <1>2, <1>3, <1>4, <1>5, <1>7, <1>8, <1>9, <1>10, <1>11 DEF PubNext

(***************************************************************************)
(* Sessions and publishers are tracked: a session names a stream exactly   *)
(* while it publishes or plays and tells its changes in an unbroken chain; *)
(* one disconnect is reported for each publication, gaps only between two  *)
(* frames that followed each other, and whoever a stop clears was told.    *)
(***************************************************************************)
THEOREM PublishersAreTracked == ServicesSpec => []PublishersTracked
<1>1. ServicesInit => SessionInv
  <2> SUFFICES ASSUME SessionInit PROVE SessionInv
    BY DEF ServicesInit
  <2>1. NewSession \in SessionRecords /\ NewSession.state = "Connecting" /\ NewSession.key = NoKey
        /\ ~NewSession.watched
    BY DEF NewSession, SessionRecords, SessionStates
  <2>2. sessions \in [Sessions -> SessionRecords] /\ \A s \in Sessions : sessions[s] = NewSession
    BY <2>1 DEF SessionInit
  <2>3. told \in [Sessions -> Seq(StateChanges)] /\ \A s \in Sessions : told[s] = <<>>
    <3>1. <<>> \in Seq(StateChanges)
      OBVIOUS
    <3> QED BY <3>1 DEF SessionInit
  <2>4. recompleted \in BOOLEAN
    BY DEF SessionInit
  <2>5. SessionSound
    <3>1. \A s \in Sessions : sessions[s].state = "Connecting" /\ sessions[s].key = NoKey
      BY <2>1, <2>2
    <3>2. "Connecting" \in SessionStates /\ \A i \in 1..(Len(<<>>) - 1) : FALSE
      BY DEF SessionStates
    <3> QED BY <3>1, <3>2, <2>3 DEF SessionSound
  <2> QED BY <2>2, <2>3, <2>4, <2>5 DEF SessionInv
<1>2. ServicesInit => PubInv
  <2> SUFFICES ASSUME PubInit PROVE PubInv
    BY DEF ServicesInit
  <2>1. PubTypeOK
    <3>1. pubCall \in [PubThreads -> PubCalls]
      BY DEF PubInit, PubCalls
    <3>2. lastTime \in Seq(Nat) /\ gapCalls \in Seq(Nat) /\ frames \in Seq(Nat) /\ gaps = {}
      BY DEF PubInit
    <3>3. pubActive \in BOOLEAN
      BY DEF PubInit
    <3>4. notified \in BOOLEAN
      BY DEF PubInit
    <3>5. starts \in Nat /\ disconnects \in Nat /\ listeners = {} /\ joinedIn \in [PubSubscribers -> Nat]
      BY DEF PubInit
    <3> QED BY <3>1, <3>2, <3>3, <3>4, <3>5 DEF PubTypeOK
  <2>2. \A t \in PubThreads : pubCall[t][1] = "none"
    BY DEF PubInit, NoCall
  <2>3. PubCounts
    <3>1. ToldCalls = {} /\ Cardinality({}) = 0
      BY <2>2, FS_EmptySet DEF ToldCalls
    <3>2. starts = 0 /\ disconnects = 0
      BY DEF PubInit
    <3>3. PICK b \in {0, 1} : b = IF notified THEN 0 ELSE 1
      OBVIOUS
    <3> QED BY <3>1, <3>2, <3>3 DEF PubCounts
  <2>4. PubFrames /\ PubStops
    BY <2>2 DEF PubInit, PubFrames, PubStops
  <2> QED BY <2>1, <2>3, <2>4 DEF PubInv
<1>3. SessionInv /\ [ServicesNext]_servicesVars => SessionInv'
  BY OneService, SessionStep
<1>4. PubInv /\ [ServicesNext]_servicesVars => PubInv'
  <2>1. CASE UNCHANGED pubVars
    BY <2>1 DEF pubVars, PubInv, PubTypeOK, PubCounts, ToldCalls, PubFrames, PubStops
  <2>2. CASE PubNext
    BY <2>2, PubTypes, PubCountsKept, PubFramesKept, PubStopsKept DEF PubInv
  <2> QED BY <2>1, <2>2, OneService
<1>5. SessionInv /\ PubInv => PublishersTracked
  <2>1. ASSUME PubInv PROVE PublisherReports
    <3>1. disconnects <= starts + 1
      <4>1. ToldCalls \subseteq PubThreads
        BY DEF ToldCalls
      <4>2. PICK n \in Nat : n = Cardinality(ToldCalls)
        BY <4>1, PubAssumption, FS_Subset, FS_CardinalityType
      <4>3. PICK b \in {0, 1} : b = IF notified THEN 0 ELSE 1
        OBVIOUS
      <4>4. disconnects + n + b <= starts + 1 /\ disconnects \in Nat /\ starts \in Nat
        BY <2>1, <4>2, <4>3 DEF PubInv, PubCounts, PubTypeOK
      <4> QED BY <4>2, <4>3, <4>4
    <3> QED BY <3>1, <2>1 DEF PubInv, PubFrames, PubStops, PublisherReports
  <2> QED BY <2>1 DEF SessionInv, PublishersTracked
<1> QED BY <1>1, <1>2, <1>3, <1>4, <1>5, PTL DEF ServicesSpec

-----------------------------------------------------------------------------
(* Counting positions                                                        *)

(***************************************************************************)
(* The numbers from 1 to n are n.                                          *)
(***************************************************************************)
LEMMA CountUpTo ==
  ASSUME NEW n \in Nat
  PROVE  IsFiniteSet(1 .. n) /\ Cardinality(1 .. n) = n
<1>1. 1 \in Int /\ n \in Int /\ (IF 1 > n THEN 0 ELSE n - 1 + 1) = n
  OBVIOUS
<1> QED BY <1>1, FS_Interval

(***************************************************************************)
(* A set of positions that is closed downwards holds the first ones.       *)
(***************************************************************************)
LEMMA InitialSegment ==
  ASSUME NEW n \in Nat, NEW D \in SUBSET (1 .. n),
         \A i \in D : \A j \in 1 .. n : j <= i => j \in D
  PROVE  Cardinality(D) \in 0 .. n /\ D = 1 .. Cardinality(D)
<1>1. IsFiniteSet(D) /\ Cardinality(D) \in Nat /\ Cardinality(D) <= n
  <2>0. IsFiniteSet(1 .. n) /\ Cardinality(1 .. n) = n
    BY CountUpTo
  <2>1. IsFiniteSet(D) /\ Cardinality(D) <= n
    BY <2>0, FS_Subset
  <2> QED BY <2>1, FS_CardinalityType
<1>2. PICK c \in Nat : c = Cardinality(D) /\ c <= n
  BY <1>1
<1>3. ASSUME NEW i \in D PROVE i \in 1 .. c
  <2>1. i \in 1 .. n /\ i \in Nat
    OBVIOUS
  <2>2. 1 .. i \in SUBSET D
    BY <2>1
  <2>3. Cardinality(1 .. i) <= Cardinality(D)
    BY <1>1, <2>2, FS_Subset
  <2>4. Cardinality(1 .. i) = i
    BY <2>1, CountUpTo
  <2> QED BY <1>2, <2>1, <2>3, <2>4
<1>4. D \in SUBSET (1 .. c)
  BY <1>3
<1>5. IsFiniteSet(1 .. c) /\ Cardinality(1 .. c) = c
  BY CountUpTo
<1>6. D = 1 .. c
  BY <1>2, <1>4, <1>5, FS_Subset
<1> QED BY <1>2, <1>6
-----------------------------------------------------------------------------
(* AuthService                                                              *)

AuthTypeOK ==
  /\ globalStreamKeys \subseteq StreamKeys
  /\ appScopedKeys \in [AuthApps -> SUBSET StreamKeys]
  /\ revoked \subseteq StreamKeys
  /\ authNow \in Nat
  /\ attempts \in Seq(Nat) /\ admitted \in Seq(Nat)

\* No table holds a key that was revoked.
RevokedGone ==
  \A k \in revoked : k \notin globalStreamKeys /\ \A a \in AuthApps : k \notin appScopedKeys[a]

\* The attempts remembered are the last of those admitted; the n before them
\* are older than a minute.
Forgotten(n) ==
  /\ n \in 0 .. Len(admitted)
  /\ Len(attempts) = Len(admitted) - n
  /\ \A i \in 1 .. Len(attempts) : attempts[i] = admitted[n + i]
  /\ \A j \in 1 .. n : admitted[j] + Minute < authNow

InTime ==
  /\ \A i, j \in 1 .. Len(admitted) : i <= j => admitted[i] <= admitted[j]
  /\ \A i \in 1 .. Len(admitted) : admitted[i] <= authNow

\* Positions of the attempts within a minute of the i-th.
WithinMinute(s, i) == {j \in DOMAIN s : s[j] \in s[i] .. (s[i] + Minute)}

RateKept == \A i \in 1 .. Len(admitted) : Cardinality(WithinMinute(admitted, i)) <= AttemptLimit

AuthInv ==
  /\ AuthTypeOK /\ RevokedGone
  /\ InTime /\ (\E n \in Nat : Forgotten(n)) /\ RateKept

(***************************************************************************)
(* What checkRateLimit keeps of its attempts are the last of those admitted, *)
(* those of the last minute; they are in order of time, as the clock is read *)
(* under the lock.                                                         *)
(***************************************************************************)
LEMMA RecentIs ==
  ASSUME AuthTypeOK, InTime, NEW n \in Nat, Forgotten(n), Minute \in Nat
  PROVE  \E m \in n .. Len(admitted) :
           /\ Recent(attempts) \in Seq(Nat)
           /\ Len(Recent(attempts)) = Len(admitted) - m
           /\ \A i \in 1 .. (Len(admitted) - m) : Recent(attempts)[i] = admitted[m + i]
           /\ \A j \in 1 .. m : admitted[j] + Minute < authNow
           /\ \A j \in (m + 1) .. Len(admitted) : ~(admitted[j] + Minute < authNow)
<1> DEFINE D == {i \in DOMAIN attempts : attempts[i] + Minute < authNow}
           L == Len(admitted)
           l == Len(attempts)
<1>1. /\ L \in Nat /\ l \in Nat /\ l = L - n /\ DOMAIN attempts = 1 .. l /\ n <= L
      /\ \A i \in 1 .. l : attempts[i] \in Nat /\ attempts[i] = admitted[n + i] /\ n + i \in 1 .. L
      /\ \A i \in 1 .. L : admitted[i] \in Nat
      /\ authNow \in Nat
  BY SMTT(30) DEF AuthTypeOK, Forgotten
<1>2. ASSUME NEW i \in D, NEW j \in 1 .. l, j <= i PROVE j \in D
  <2>0. i \in 1 .. l /\ attempts[i] + Minute < authNow
    BY <1>1
  <2>1. admitted[n + j] <= admitted[n + i]
    <3>1. n + j \in 1 .. L /\ n + i \in 1 .. L /\ n + j <= n + i
      BY <1>1, <1>2, <2>0
    <3> QED BY <3>1 DEF InTime
  <2>2. attempts[j] \in Nat /\ attempts[i] \in Nat /\ attempts[j] <= attempts[i]
    BY <1>1, <2>0, <2>1
  <2>3. attempts[j] + Minute < authNow
    BY <1>1, <2>0, <2>2
  <2> QED BY <1>1, <2>3
<1>3. D \in SUBSET (1 .. l)
  BY <1>1
<1>4. PICK c \in 0 .. l : c = Cardinality(D) /\ D = 1 .. c
  <2> HIDE DEF D, l
  <2> QED BY <1>1, <1>2, <1>3, InitialSegment
<1>5. Recent(attempts) = SubSeq(attempts, c + 1, l)
  BY <1>4 DEF Recent
<1>6. /\ SubSeq(attempts, c + 1, l) \in Seq(Nat)
      /\ Len(SubSeq(attempts, c + 1, l)) = l - c
      /\ \A i \in 1 .. (l - c) : SubSeq(attempts, c + 1, l)[i] = attempts[c + i]
  <2> HIDE DEF D, L
  <2>1. attempts \in Seq(Nat) /\ l \in Nat /\ c \in Nat /\ c <= l
    BY <1>1, <1>4 DEF AuthTypeOK
  <2>2. SubSeq(attempts, c + 1, l) = [i \in 1 .. (l - c) |-> attempts[i + c]]
    BY <2>1
  <2> QED BY <2>1, <2>2, <1>1
<1>7. ASSUME NEW j \in (n + 1) .. L
      PROVE  j - n \in 1 .. l /\ attempts[j - n] = admitted[j]
  BY <1>1
<1>8. ASSUME NEW j \in 1 .. (n + c) PROVE admitted[j] + Minute < authNow
  <2>1. CASE j <= n
    BY <2>1, <1>1 DEF Forgotten
  <2>2. CASE ~(j <= n)
    <3>1. j - n \in 1 .. c /\ j \in (n + 1) .. L
      BY <1>1, <1>4, <2>2
    <3>2. j - n \in D
      <4> HIDE DEF D
      <4> QED BY <3>1, <1>4
    <3> QED BY <3>1, <3>2, <1>7
  <2> QED BY <2>1, <2>2
<1>9. ASSUME NEW j \in (n + c + 1) .. L PROVE ~(admitted[j] + Minute < authNow)
  <2>1. j \in (n + 1) .. L /\ ~(j - n \in 1 .. c)
    BY <1>1, <1>4
  <2>2. j - n \notin D
    <3> HIDE DEF D
    <3> QED BY <2>1, <1>4
  <2>3. j - n \in 1 .. l /\ attempts[j - n] = admitted[j]
    BY <2>1, <1>7
  <2> QED BY <2>2, <2>3, <1>1
<1>10. /\ n + c \in n .. L /\ L - (n + c) = l - c
       /\ \A i \in 1 .. (l - c) : attempts[c + i] = admitted[n + c + i]
  <2>0. c \in 0 .. l
    OBVIOUS
  <2> HIDE DEF D, L, l
  <2>1. n + c \in n .. L /\ L - (n + c) = l - c
    BY <1>1, <2>0
  <2>2. ASSUME NEW i \in 1 .. (l - c) PROVE attempts[c + i] = admitted[n + c + i]
    <3>1. c + i \in 1 .. l /\ n + (c + i) = n + c + i
      BY <1>1, <2>0
    <3> QED BY <3>1, <1>1
  <2> QED BY <2>1, <2>2
<1> HIDE DEF D, L, l
<1>11. PICK m \in n .. L : m = n + c
  BY <1>10
<1>12. Recent(attempts) \in Seq(Nat) /\ Len(Recent(attempts)) = L - m
  BY <1>5, <1>6, <1>10, <1>11
<1>13. \A i \in 1 .. (L - m) : Recent(attempts)[i] = admitted[m + i]
  BY <1>5, <1>6, <1>10, <1>11
<1> QED BY <1>8, <1>9, <1>11, <1>12, <1>13 DEF L

(***************************************************************************)
(* Keys are revoked from every table, and an attempt is admitted only if fewer *)
(* than the limit are remembered of the last minute.                       *)
(***************************************************************************)
LEMMA AuthStep ==
  ASSUME AuthInv, [AuthNext]_authVars
  PROVE  AuthInv'
<1>0. AuthTypeOK /\ RevokedGone /\ InTime /\ RateKept
  BY DEF AuthInv
<1>m. Minute \in Nat /\ AttemptLimit \in Nat
  BY AuthAssumption
<1>n. PICK n \in Nat : Forgotten(n)
  BY DEF AuthInv
<1>k. ASSUME UNCHANGED <<attempts, admitted, authNow>>, RevokedGone', AuthTypeOK'
      PROVE  AuthInv'
  BY <1>k, <1>0, <1>n DEF AuthInv, InTime, RateKept, Forgotten
<1>u. CASE UNCHANGED authVars
  BY <1>u, <1>0, <1>k DEF authVars, RevokedGone, AuthTypeOK
<1>1. ASSUME NEW k \in StreamKeys, NEW scope \in AuthApps \union {"global"}, addStreamKey(k, scope)
      PROVE  AuthInv'
  <2>1. UNCHANGED <<attempts, admitted, authNow>>
    BY <1>1 DEF addStreamKey, KeysChange
  <2>2. AuthTypeOK'
    BY <1>1, <1>0 DEF addStreamKey, KeysChange, AuthTypeOK
  <2>3. RevokedGone'
    BY <1>1, <1>0 DEF addStreamKey, KeysChange, AuthTypeOK, RevokedGone
  <2> QED BY <2>1, <2>2, <2>3, <1>k
<1>2. ASSUME NEW k \in StreamKeys, NEW scope \in AuthApps \union {"global"}, removeStreamKey(k, scope)
      PROVE  AuthInv'
  <2>1. UNCHANGED <<attempts, admitted, authNow>>
    BY <1>2 DEF removeStreamKey, KeysChange
  <2>2. AuthTypeOK'
    BY <1>2, <1>0 DEF removeStreamKey, KeysChange, AuthTypeOK
  <2>3. RevokedGone'
    BY <1>2, <1>0 DEF removeStreamKey, KeysChange, AuthTypeOK, RevokedGone
  <2> QED BY <2>1, <2>2, <2>3, <1>k
<1>3. CASE clearStreamKeys
  <2>1. UNCHANGED <<attempts, admitted, authNow>>
    BY <1>3 DEF clearStreamKeys, KeysChange
  <2>2. AuthTypeOK' /\ RevokedGone'
    BY <1>3, <1>0 DEF clearStreamKeys, KeysChange, AuthTypeOK, RevokedGone
  <2> QED BY <2>1, <2>2, <1>k
<1>4. ASSUME NEW c \in AuthConfigs, updateAuthConfig(c) PROVE AuthInv'
  BY <1>4, <1>0, <1>k DEF updateAuthConfig, AuthTypeOK, RevokedGone
<1>5. ASSUME NEW r \in {"rule"}, NEW add \in BOOLEAN, changeACL(r, add) PROVE AuthInv'
  BY <1>5, <1>0, <1>k DEF changeACL, AuthTypeOK, RevokedGone
<1>6. CASE authTick
  <2>1. UNCHANGED <<globalStreamKeys, appScopedKeys, attempts, revoked, admitted>> /\ authNow' = authNow + 1
    BY <1>6 DEF authTick
  <2>2. AuthTypeOK' /\ RevokedGone'
    BY <2>1, <1>0 DEF AuthTypeOK, RevokedGone
  <2>3. \A i \in 1 .. Len(admitted) : admitted[i] \in Nat
    BY <1>0 DEF AuthTypeOK
  <2>4. InTime'
    BY <2>1, <2>3, <1>0 DEF InTime, AuthTypeOK
  <2>5. Forgotten(n)'
    BY SMTT(30), <2>1, <2>3, <1>n, <1>0, <1>m DEF Forgotten, AuthTypeOK
  <2> QED BY <2>1, <2>2, <2>4, <2>5, <1>0 DEF AuthInv, RateKept
<1>7. CASE checkRateLimit
  <2> DEFINE L == Len(admitted)
             kept == Recent(attempts)
  <2>1. PICK m \in n .. L :
           /\ kept \in Seq(Nat)
           /\ Len(kept) = L - m
           /\ \A i \in 1 .. (L - m) : kept[i] = admitted[m + i]
           /\ \A j \in 1 .. m : admitted[j] + Minute < authNow
           /\ \A j \in (m + 1) .. L : ~(admitted[j] + Minute < authNow)
    BY <1>0, <1>n, <1>m, RecentIs
  <2>2. UNCHANGED <<globalStreamKeys, appScopedKeys, revoked, authNow>>
    BY <1>7 DEF checkRateLimit
  <2>3. /\ L \in Nat /\ m \in Nat /\ m <= L /\ authNow \in Nat /\ admitted \in Seq(Nat)
        /\ \A i \in 1 .. L : admitted[i] \in Nat
    BY <1>0 DEF AuthTypeOK
  <2>g. RevokedGone'
    BY <2>2, <1>0 DEF RevokedGone
  <2>4. CASE Len(kept) < AttemptLimit
    <3>1. attempts' = Append(kept, authNow) /\ admitted' = Append(admitted, authNow)
      BY <1>7, <2>4 DEF checkRateLimit
    <3> HIDE DEF kept
    <3>2. /\ Len(admitted') = L + 1 /\ admitted'[L + 1] = authNow
          /\ \A i \in 1 .. L : admitted'[i] = admitted[i]
          /\ admitted' \in Seq(Nat) /\ DOMAIN admitted' = 1 .. (L + 1)
      BY <3>1, <2>3
    <3>3. /\ Len(attempts') = L - m + 1 /\ attempts'[L - m + 1] = authNow
          /\ \A i \in 1 .. (L - m) : attempts'[i] = admitted[m + i]
          /\ attempts' \in Seq(Nat)
      BY <3>1, <2>1, <2>3
    <3>4. AuthTypeOK'
      BY <3>2, <3>3, <2>2, <1>0 DEF AuthTypeOK
    <3> HIDE DEF L
    <3>5. InTime'
      <4>1. ASSUME NEW i \in 1 .. (L + 1) PROVE admitted'[i] <= authNow
        BY SMTT(30), <3>2, <2>3, <1>0 DEF InTime, L
      <4>2. ASSUME NEW i \in 1 .. (L + 1), NEW j \in 1 .. (L + 1), i <= j
            PROVE  admitted'[i] <= admitted'[j]
        <5>1. CASE j = L + 1
          BY <5>1, <4>1, <3>2
        <5>2. CASE j # L + 1
          <6>1. i \in 1 .. L /\ j \in 1 .. L
            BY <5>2, <4>2, <2>3
          <6> QED BY <6>1, <4>2, <3>2, <1>0 DEF InTime, L
        <5> QED BY <5>1, <5>2
      <4> QED BY <4>1, <4>2, <3>2, <2>2 DEF InTime
    <3>6. Forgotten(m)'
      <4>1. \A i \in 1 .. (L - m + 1) : attempts'[i] = admitted'[m + i]
        <5> TAKE i \in 1 .. (L - m + 1)
        <5>1. CASE i = L - m + 1
          <6>1. m + i = L + 1
            BY <5>1, <2>3
          <6> QED BY <6>1, <5>1, <3>2, <3>3
        <5>2. CASE i # L - m + 1
          <6>1. i \in 1 .. (L - m) /\ m + i \in 1 .. L
            BY <5>2, <2>3
          <6> QED BY <6>1, <3>2, <3>3
        <5> QED BY <5>1, <5>2
      <4>2. \A j \in 1 .. m : admitted'[j] + Minute < authNow
        <5> TAKE j \in 1 .. m
        <5>1. j \in 1 .. L
          BY <2>3
        <5> QED BY <5>1, <2>1, <3>2
      <4>3. L - m + 1 = (L + 1) - m /\ m \in 0 .. (L + 1)
        BY <2>3
      <4> QED BY <4>1, <4>2, <4>3, <3>2, <3>3, <2>2 DEF Forgotten
    <3>7. ASSUME NEW i \in 1 .. (L + 1) PROVE Cardinality(WithinMinute(admitted', i)) <= AttemptLimit
      <4>1. CASE i \in 1 .. L /\ admitted[i] + Minute < authNow
        <5>1. admitted'[i] = admitted[i] /\ DOMAIN admitted = 1 .. L
          BY <4>1, <3>2, <2>3 DEF L
        <5>2. ~(authNow \in admitted[i] .. (admitted[i] + Minute))
          BY <4>1, <2>3, <1>m
        <5>3. WithinMinute(admitted', i) = WithinMinute(admitted, i)
          BY <5>1, <5>2, <3>2, <2>3 DEF WithinMinute
        <5> QED BY <4>1, <5>3, <1>0 DEF RateKept, L
      <4>2. CASE ~(i \in 1 .. L /\ admitted[i] + Minute < authNow)
        <5>1. admitted'[i] \in Nat /\ admitted'[i] + Minute >= authNow
          BY <4>2, <3>2, <2>3, <1>m
        <5>2. ASSUME NEW j \in WithinMinute(admitted', i) PROVE j \in (m + 1) .. (L + 1)
          <6>1. j \in 1 .. (L + 1) /\ admitted'[j] \in Nat /\ admitted'[j] >= admitted'[i]
            BY <5>1, <3>2, <2>3 DEF WithinMinute
          <6>2. admitted'[j] + Minute >= authNow
            BY <5>1, <6>1, <2>3, <1>m
          <6>3. ~(j \in 1 .. m)
            <7>1. j \in 1 .. m => j \in 1 .. L /\ admitted'[j] = admitted[j] /\ admitted[j] + Minute < authNow
              BY <2>1, <2>3, <3>2
            <7> QED BY <7>1, <6>1, <6>2, <2>3, <1>m
          <6> QED BY <6>1, <6>3, <2>3
        <5>3. WithinMinute(admitted', i) \in SUBSET ((m + 1) .. (L + 1))
          BY <5>2
        <5>4. IsFiniteSet((m + 1) .. (L + 1)) /\ Cardinality((m + 1) .. (L + 1)) = L + 1 - m
          <6>1. /\ m + 1 \in Int /\ L + 1 \in Int
                /\ (IF m + 1 > L + 1 THEN 0 ELSE (L + 1) - (m + 1) + 1) = L + 1 - m
            BY <2>3
          <6> QED BY <6>1, FS_Interval
        <5>5. /\ IsFiniteSet(WithinMinute(admitted', i))
              /\ Cardinality(WithinMinute(admitted', i)) <= L + 1 - m
          BY ZenonT(40), <5>3, <5>4, FS_Subset
        <5>6. Cardinality(WithinMinute(admitted', i)) \in Nat
          BY <5>5, FS_CardinalityType
        <5>7. L - m < AttemptLimit
          BY <2>1, <2>4
        <5> QED BY <5>5, <5>6, <5>7, <2>3, <1>m
      <4> QED BY <4>1, <4>2
    <3> QED BY <3>2, <3>4, <3>5, <3>6, <3>7, <2>3, <2>g DEF AuthInv, RateKept
  <2>5. CASE ~(Len(kept) < AttemptLimit)
    <3>1. attempts' = kept /\ admitted' = admitted
      BY <1>7, <2>5 DEF checkRateLimit
    <3> HIDE DEF kept
    <3>2. AuthTypeOK' /\ InTime' /\ RateKept'
      BY <3>1, <2>1, <2>2, <1>0 DEF AuthTypeOK, InTime, RateKept
    <3>3. Forgotten(m)'
      BY <3>1, <2>1, <2>2, <2>3 DEF Forgotten
    <3> QED BY <3>2, <3>3, <2>3, <2>g DEF AuthInv
  <2> QED BY <2>4, <2>5
<1> QED BY <1>u, <1>1, <1>2, <1>3, <1>4, <1>5, <1>6, <1>7 DEF AuthNext

(***************************************************************************)
(* A new AuthService has no keys and no attempts.                          *)
(***************************************************************************)
LEMMA AuthStarts ==
  ASSUME AuthInit
  PROVE  AuthInv
<1>1. AuthTypeOK /\ RevokedGone /\ InTime /\ RateKept
  BY DEF AuthInit, AuthTypeOK, RevokedGone, InTime, RateKept
<1>2. Forgotten(0)
  BY DEF AuthInit, Forgotten
<1> QED BY <1>1, <1>2 DEF AuthInv

(***************************************************************************)
(* What is kept of keys and attempts is what AuthSound promises.           *)
(***************************************************************************)
LEMMA AuthIsSound ==
  ASSUME AuthInv
  PROVE  AuthSound
<1>1. ASSUME NEW k \in revoked, NEW a \in AuthApps PROVE ~isValidStreamKey(a, k)
  BY DEF AuthInv, RevokedGone, isValidStreamKey
<1>2. ASSUME NEW i \in DOMAIN admitted PROVE Cardinality(WithinMinute(admitted, i)) <= AttemptLimit
  <2>1. DOMAIN admitted = 1 .. Len(admitted)
    BY DEF AuthInv, AuthTypeOK
  <2> QED BY <2>1 DEF AuthInv, RateKept
<1> QED BY <1>1, <1>2 DEF AuthSound, validatePublish, validateSubscribe, WithinMinute
-----------------------------------------------------------------------------
(* AccessControl: the limit on failed attempts                             *)

WithinWindow(p, i) == {j \in DOMAIN p : p[j] \in p[i] .. (p[i] + Window)}

\* The times of failed attempts are in order, up to now.
Timely(p, now) ==
  /\ p \in Seq(Nat)
  /\ \A i, j \in 1 .. Len(p) : i <= j => p[i] <= p[j]
  /\ \A i \in 1 .. Len(p) : p[i] <= now

FewWithin(p, K) == \A i \in 1 .. Len(p) : Cardinality(WithinWindow(p, i)) <= K

\* The failures from the a-th to the b-th are outside the window.
Old(p, a, b, now) == \A j \in a .. b : p[j] + Window < now

Admitted(where) == {t \in LoginThreads : where[t] = "admitted"}

\* Up to the g-th, failures belong to blocks that have ended, by an attempt
\* that was late by more than the window; those to the e-th came in late.
Late(p, g, e, now) ==
  /\ g <= e /\ e <= Len(p)
  /\ e = g \/ e - g < Cardinality(LoginThreads)
  /\ Old(p, 1, g, now)

\* Not blocked: the attempts remembered are those after the d-th.
Open(p, remembered, e, d, now) ==
  /\ e <= d /\ d <= Len(p)
  /\ Len(remembered) = Len(p) - d
  /\ Len(remembered) < MaxAttempts
  /\ \A i \in 1 .. Len(remembered) : remembered[i] = p[d + i]
  /\ Old(p, e + 1, d, now)

\* Blocked: MaxAttempts failed from the c-th on, and after them only threads
\* that were admitted then; the r-th failure was the last to begin the block.
Shut(p, until, a, e, c, r, now) ==
  /\ e <= c /\ c + MaxAttempts <= r /\ r <= Len(p)
  /\ (Len(p) - (c + MaxAttempts)) + a < Cardinality(LoginThreads)
  /\ until = p[r] + BlockFor
  /\ Old(p, e + 1, c, now)

Limit == MaxAttempts + 2 * (Cardinality(LoginThreads) - 1)

Phases(p, remembered, until, a, now) ==
  \E g, e \in Nat :
    /\ Late(p, g, e, now)
    /\ \/ until = 0 /\ \E d \in Nat : Open(p, remembered, e, d, now)
       \/ until # 0 /\ \E c, r \in Nat : Shut(p, until, a, e, c, r, now)

AclTypeOK ==
  /\ failedAttempts \in Seq(Nat) /\ blockedUntil \in Nat
  /\ login \in [LoginThreads -> {"idle", "admitted"}]
  /\ aclNow \in Nat \ {0}
  /\ Timely(passed, aclNow)

AclInv ==
  /\ AclTypeOK
  /\ Window < BlockFor =>
       /\ FewWithin(passed, Limit)
       /\ Phases(passed, failedAttempts, blockedUntil, Cardinality(Admitted(login)), aclNow)

(***************************************************************************)
(* The types of the constants.                                             *)
(***************************************************************************)
LEMMA AclConstants ==
  /\ MaxAttempts \in Nat \ {0} /\ Window \in Nat /\ BlockFor \in Nat
  /\ Cardinality(LoginThreads) \in Nat
BY AclAssumption, FS_CardinalityType

(***************************************************************************)
(* A thread that reports its outcome is one thread fewer that was admitted. *)
(***************************************************************************)
LEMMA AdmittedCount ==
  ASSUME NEW where \in [LoginThreads -> {"idle", "admitted"}], NEW t \in LoginThreads
  PROVE  /\ Cardinality(Admitted(where)) \in Nat
         /\ where[t] = "admitted" =>
              /\ Cardinality(Admitted([where EXCEPT ![t] = "idle"])) = Cardinality(Admitted(where)) - 1
              /\ Cardinality(Admitted(where)) >= 1
         /\ Cardinality(Admitted(where)) <= Cardinality(LoginThreads)
         /\ where[t] = "idle" => Admitted([where EXCEPT ![t] = "idle"]) = Admitted(where)
<1>1. Admitted(where) \in SUBSET LoginThreads
  BY DEF Admitted
<1>2. IsFiniteSet(Admitted(where)) /\ Cardinality(Admitted(where)) <= Cardinality(LoginThreads)
  BY <1>1, AclAssumption, FS_Subset
<1>3. Cardinality(Admitted(where)) \in Nat
  BY <1>2, FS_CardinalityType
<1>4. CASE where[t] = "admitted"
  <2>1. Admitted([where EXCEPT ![t] = "idle"]) = Admitted(where) \ {t} /\ t \in Admitted(where)
    BY <1>4 DEF Admitted
  <2>2. Cardinality(Admitted(where) \ {t}) = Cardinality(Admitted(where)) - 1
    BY <2>1, <1>2, FS_RemoveElement
  <2>3. Cardinality(Admitted(where)) # 0
    BY <2>1, <1>2, FS_EmptySet
  <2>4. Cardinality(Admitted(where)) >= 1
    BY <2>3, <1>3
  <2>5. where[t] # "idle"
    BY <1>4
  <2> QED BY <1>2, <1>3, <2>1, <2>2, <2>4, <2>5
<1>5. CASE where[t] = "idle"
  <2>1. Admitted([where EXCEPT ![t] = "idle"]) = Admitted(where)
    BY <1>5 DEF Admitted
  <2>2. where[t] # "admitted"
    BY <1>5
  <2> QED BY <1>2, <1>3, <2>1, <2>2
<1> QED BY <1>4, <1>5

(***************************************************************************)
(* A failure recorded now comes last.                                      *)
(***************************************************************************)
LEMMA AppendTimely ==
  ASSUME NEW p, NEW now \in Nat, Timely(p, now)
  PROVE  /\ Timely(Append(p, now), now)
         /\ Len(p) \in Nat /\ Len(Append(p, now)) = Len(p) + 1
         /\ Append(p, now)[Len(p) + 1] = now
         /\ \A i \in 1 .. Len(p) : Append(p, now)[i] = p[i] /\ p[i] \in Nat /\ p[i] <= now
<1> DEFINE L == Len(p)
           s == Append(p, now)
<1>1. p \in Seq(Nat) /\ L \in Nat
  BY DEF Timely
<1>2. /\ Len(s) = L + 1 /\ s[L + 1] = now /\ s \in Seq(Nat)
      /\ \A i \in 1 .. L : s[i] = p[i] /\ p[i] \in Nat
  BY <1>1
<1>3. \A i \in 1 .. L : p[i] <= now
  BY DEF Timely
<1> HIDE DEF s, L
<1>4. ASSUME NEW i \in 1 .. (L + 1) PROVE s[i] <= now
  BY <1>1, <1>2, <1>3
<1>5. ASSUME NEW i \in 1 .. (L + 1), NEW j \in 1 .. (L + 1), i <= j PROVE s[i] <= s[j]
  <2>1. CASE j = L + 1
    BY <2>1, <1>4, <1>2
  <2>2. CASE j # L + 1
    <3>1. i \in 1 .. L /\ j \in 1 .. L
      BY <2>2, <1>5, <1>1
    <3> QED BY <3>1, <1>5, <1>2 DEF Timely, L
  <2> QED BY <2>1, <2>2
<1>6. Timely(s, now)
  BY <1>2, <1>4, <1>5 DEF Timely
<1> QED BY <1>1, <1>2, <1>3, <1>6 DEF s, L

(***************************************************************************)
(* The size of an interval.                                                *)
(***************************************************************************)
LEMMA IntervalSize ==
  ASSUME NEW a \in Nat, NEW b \in Nat, a <= b
  PROVE  IsFiniteSet((a + 1) .. b) /\ Cardinality((a + 1) .. b) = b - a
<1>1. a + 1 \in Int /\ b \in Int /\ (IF a + 1 > b THEN 0 ELSE b - (a + 1) + 1) = b - a
  OBVIOUS
<1> QED BY <1>1, FS_Interval

(***************************************************************************)
(* A set inside two intervals has at most their sizes together.            *)
(***************************************************************************)
LEMMA TwoIntervals ==
  ASSUME NEW g \in Nat, NEW e \in Nat, NEW c \in Nat, NEW l \in Nat, g <= e, c <= l,
         NEW D \in SUBSET (((g + 1) .. e) \union ((c + 1) .. l))
  PROVE  Cardinality(D) \in Nat /\ Cardinality(D) <= (e - g) + (l - c)
<1> DEFINE X == (g + 1) .. e
           Y == (c + 1) .. l
<1>1. IsFiniteSet(X) /\ Cardinality(X) = e - g
  BY IntervalSize
<1>2. IsFiniteSet(Y) /\ Cardinality(Y) = l - c
  BY IntervalSize
<1> HIDE DEF X, Y
<1>3. IsFiniteSet(X \union Y) /\ Cardinality(X \union Y) = Cardinality(X) + Cardinality(Y) - Cardinality(X \cap Y)
  BY <1>1, <1>2, FS_Union
<1>4. X \cap Y \in SUBSET X
  OBVIOUS
<1>5. IsFiniteSet(X \cap Y)
  BY <1>1, <1>4, FS_Subset
<1>6. Cardinality(X \cap Y) \in Nat
  BY <1>5, FS_CardinalityType
<1>7. D \in SUBSET (X \union Y)
  BY DEF X, Y
<1>8. IsFiniteSet(D) /\ Cardinality(D) <= Cardinality(X \union Y)
  BY <1>3, <1>7, FS_Subset
<1>9. Cardinality(D) \in Nat
  BY <1>8, FS_CardinalityType
<1>10. Cardinality(X \union Y) <= (e - g) + (l - c)
  BY <1>1, <1>2, <1>3, <1>6
<1>11. Cardinality(X \union Y) \in Nat
  BY <1>3, FS_CardinalityType
<1> QED BY <1>8, <1>9, <1>10, <1>11

(***************************************************************************)
(* If all failures but those from the g-th to the e-th and after the c-th are *)
(* older than the window, a window that holds the failure recorded now holds *)
(* no others.                                                              *)
(***************************************************************************)
LEMMA AppendFailure ==
  ASSUME NEW p, NEW now \in Nat, Timely(p, now), NEW K \in Nat, FewWithin(p, K),
         NEW g \in Nat, NEW e \in Nat, NEW c \in Nat, g <= e, e <= c, c <= Len(p),
         (e - g) + (Len(p) + 1 - c) <= K,
         Old(p, 1, g, now), Old(p, e + 1, c, now)
  PROVE  FewWithin(Append(p, now), K)
<1> DEFINE L == Len(p)
           s == Append(p, now)
<1>0. Window \in Nat
  BY AclConstants
<1>1. /\ L \in Nat /\ Len(s) = L + 1 /\ s[L + 1] = now
      /\ \A i \in 1 .. L : s[i] = p[i] /\ p[i] \in Nat /\ p[i] <= now
  BY AppendTimely
<1>2. DOMAIN p = 1 .. L /\ DOMAIN s = 1 .. (L + 1)
  BY <1>1 DEF Timely
<1>3. c <= L /\ (e - g) + (L + 1 - c) <= K
  OBVIOUS
<1> HIDE DEF s, L
<1>4. SUFFICES ASSUME NEW i \in 1 .. (L + 1)
               PROVE  Cardinality(WithinWindow(s, i)) <= K
  BY <1>1 DEF FewWithin, s
<1>5. CASE i \in 1 .. L /\ p[i] + Window < now
  <2>1. ~(now \in p[i] .. (p[i] + Window)) /\ s[i] = p[i]
    BY <1>5, <1>0, <1>1
  <2>2. WithinWindow(s, i) = WithinWindow(p, i)
    BY <2>1, <1>1, <1>2 DEF WithinWindow
  <2> QED BY <1>5, <2>2 DEF FewWithin, L
<1>6. CASE ~(i \in 1 .. L /\ p[i] + Window < now)
  <2>1. s[i] \in Nat /\ s[i] + Window >= now
    BY <1>6, <1>0, <1>1
  <2>2. ASSUME NEW j \in WithinWindow(s, i)
        PROVE  j \in ((g + 1) .. e) \union ((c + 1) .. (L + 1))
    <3>1. j \in 1 .. (L + 1) /\ s[j] \in Nat /\ s[j] >= s[i]
      BY <2>1, <1>2, <1>1 DEF WithinWindow
    <3>2. s[j] + Window >= now
      BY SMTT(30), <2>1, <3>1, <1>0
    <3>3. ~(j \in 1 .. g)
      <4>1. j \in 1 .. g => j \in 1 .. L /\ s[j] = p[j] /\ p[j] + Window < now
        BY <1>1, <1>3 DEF Old
      <4> QED BY <4>1, <3>1, <3>2, <1>0
    <3>4. ~(j \in (e + 1) .. c)
      <4>1. j \in (e + 1) .. c => j \in 1 .. L /\ s[j] = p[j] /\ p[j] + Window < now
        BY <1>1, <1>3 DEF Old
      <4> QED BY <4>1, <3>1, <3>2, <1>0
    <3> QED BY <3>1, <3>3, <3>4, <1>1, <1>3
  <2>3. WithinWindow(s, i) \in SUBSET (((g + 1) .. e) \union ((c + 1) .. (L + 1)))
    BY <2>2
  <2>4. c <= L + 1 /\ L + 1 \in Nat
    BY <1>1, <1>3
  <2>5. /\ Cardinality(WithinWindow(s, i)) \in Nat
        /\ Cardinality(WithinWindow(s, i)) <= (e - g) + ((L + 1) - c)
    BY <2>3, <2>4, TwoIntervals
  <2> QED BY <2>5, <1>1, <1>3
<1> QED BY <1>5, <1>6

(***************************************************************************)
(* cleanupExpiredAttempts keeps the last of the attempts.                  *)
(***************************************************************************)
LEMMA CurrentShape ==
  ASSUME failedAttempts \in Seq(Nat)
  PROVE  \E c \in 0 .. Len(failedAttempts) :
           /\ c = Cardinality({i \in DOMAIN failedAttempts : failedAttempts[i] + Window < aclNow})
           /\ Current(failedAttempts) = SubSeq(failedAttempts, c + 1, Len(failedAttempts))
           /\ Current(failedAttempts) \in Seq(Nat)
           /\ Len(Current(failedAttempts)) = Len(failedAttempts) - c
           /\ \A i \in 1 .. (Len(failedAttempts) - c) : Current(failedAttempts)[i] = failedAttempts[c + i]
<1> DEFINE D == {i \in DOMAIN failedAttempts : failedAttempts[i] + Window < aclNow}
           l == Len(failedAttempts)
<1>1. l \in Nat /\ DOMAIN failedAttempts = 1 .. l /\ \A i \in 1 .. l : failedAttempts[i] \in Nat
  OBVIOUS
<1>2. D \in SUBSET (1 .. l)
  BY <1>1
<1> HIDE DEF D
<1>3. IsFiniteSet(1 .. l) /\ Cardinality(1 .. l) = l
  BY <1>1, CountUpTo
<1>4. IsFiniteSet(D) /\ Cardinality(D) <= l
  BY <1>2, <1>3, FS_Subset
<1>5. Cardinality(D) \in Nat
  BY <1>4, FS_CardinalityType
<1>6. PICK c \in 0 .. l : c = Cardinality(D)
  BY <1>1, <1>4, <1>5
<1>7. Current(failedAttempts) = SubSeq(failedAttempts, c + 1, l)
  BY <1>6 DEF Current, D
<1>8. SubSeq(failedAttempts, c + 1, l) = [i \in 1 .. (l - c) |-> failedAttempts[i + c]]
  BY <1>1
<1>9. /\ SubSeq(failedAttempts, c + 1, l) \in Seq(Nat)
      /\ Len(SubSeq(failedAttempts, c + 1, l)) = l - c
      /\ \A i \in 1 .. (l - c) : SubSeq(failedAttempts, c + 1, l)[i] = failedAttempts[c + i]
  <2>1. failedAttempts \in Seq(Nat) /\ l \in Nat /\ c \in Nat /\ c <= l
    BY <1>1
  <2>2. \A i \in 1 .. (l - c) : i + c = c + i /\ i + c \in 1 .. l
    BY <2>1
  <2> HIDE DEF l
  <2>3. [i \in 1 .. (l - c) |-> failedAttempts[i + c]] \in Seq(Nat)
    BY <1>1, <2>1, <2>2
  <2> QED BY <2>1, <2>2, <2>3, <1>8
<1> QED BY <1>6, <1>7, <1>9 DEF D

(***************************************************************************)
(* While nobody is blocked, what cleanupExpiredAttempts keeps are the last of *)
(* all failures, those of the window.                                      *)
(***************************************************************************)
LEMMA CurrentIs ==
  ASSUME AclTypeOK, NEW e \in Nat, NEW d \in Nat, Open(passed, failedAttempts, e, d, aclNow)
  PROVE  \E m \in d .. Len(passed) :
           /\ Current(failedAttempts) \in Seq(Nat)
           /\ Len(Current(failedAttempts)) = Len(passed) - m
           /\ \A i \in 1 .. (Len(passed) - m) : Current(failedAttempts)[i] = passed[m + i]
           /\ Old(passed, e + 1, m, aclNow)
<1> DEFINE D == {i \in DOMAIN failedAttempts : failedAttempts[i] + Window < aclNow}
           L == Len(passed)
           l == Len(failedAttempts)
           current == Current(failedAttempts)
<1>0. Window \in Nat
  BY AclConstants
<1>1. /\ L \in Nat /\ l \in Nat /\ l = L - d /\ DOMAIN failedAttempts = 1 .. l /\ d <= L
      /\ \A i \in 1 .. l : failedAttempts[i] \in Nat /\ failedAttempts[i] = passed[d + i] /\ d + i \in 1 .. L
      /\ \A i \in 1 .. L : passed[i] \in Nat
      /\ aclNow \in Nat /\ failedAttempts \in Seq(Nat)
  <2>1. failedAttempts \in Seq(Nat) /\ passed \in Seq(Nat) /\ aclNow \in Nat
    BY DEF AclTypeOK, Timely
  <2>2. d <= L /\ l = L - d /\ \A i \in 1 .. l : failedAttempts[i] = passed[d + i]
    BY DEF Open
  <2> QED BY SMTT(30), <2>1, <2>2
<1>2. ASSUME NEW i \in D, NEW j \in 1 .. l, j <= i PROVE j \in D
  <2>0. i \in 1 .. l /\ failedAttempts[i] + Window < aclNow
    BY <1>1
  <2>1. passed[d + j] <= passed[d + i]
    <3>1. d + j \in 1 .. L /\ d + i \in 1 .. L /\ d + j <= d + i
      BY <1>1, <1>2, <2>0
    <3> QED BY <3>1 DEF AclTypeOK, Timely
  <2>2. failedAttempts[j] \in Nat /\ failedAttempts[i] \in Nat /\ failedAttempts[j] <= failedAttempts[i]
    BY <1>1, <2>0, <2>1
  <2>3. failedAttempts[j] + Window < aclNow
    BY <1>0, <1>1, <2>0, <2>2
  <2> QED BY <1>1, <2>3
<1>3. D \in SUBSET (1 .. l)
  BY <1>1
<1>4. Cardinality(D) \in 0 .. l /\ D = 1 .. Cardinality(D)
  <2> HIDE DEF D, l
  <2> QED BY <1>1, <1>2, <1>3, InitialSegment
<1>5. PICK c \in 0 .. l :
        /\ c = Cardinality(D)
        /\ current \in Seq(Nat)
        /\ Len(current) = l - c
        /\ \A i \in 1 .. (l - c) : current[i] = failedAttempts[c + i]
  BY <1>1, CurrentShape
<1>6. D = 1 .. c
  BY <1>4, <1>5
<1> HIDE DEF D, L, l, current
<1>7. /\ d + c \in d .. L /\ L - (d + c) = l - c /\ c \in Nat
  BY <1>1
<1>8. ASSUME NEW i \in 1 .. (L - (d + c)) PROVE current[i] = passed[d + c + i]
  <2>1. i \in 1 .. (l - c) /\ c + i \in 1 .. l /\ d + (c + i) = d + c + i
    BY <1>1, <1>7
  <2> QED BY <2>1, <1>1, <1>5
<1>9. ASSUME NEW j \in (e + 1) .. (d + c) PROVE passed[j] + Window < aclNow
  <2>1. CASE j <= d
    <3>1. j \in (e + 1) .. d
      BY <2>1
    <3> QED BY <3>1 DEF Open, Old
  <2>2. CASE ~(j <= d)
    <3>1. j - d \in 1 .. c /\ j - d \in 1 .. l /\ d + (j - d) = j
      BY <1>1, <1>7, <2>2
    <3>2. failedAttempts[j - d] + Window < aclNow
      BY <3>1, <1>6 DEF D
    <3> QED BY <3>1, <3>2, <1>1
  <2> QED BY <2>1, <2>2
<1>10. PICK m \in d .. L : m = d + c
  BY <1>7
<1>11. Old(passed, e + 1, m, aclNow)
  BY <1>9, <1>10 DEF Old
<1>12. Len(current) = L - m /\ \A i \in 1 .. (L - m) : current[i] = passed[m + i]
  BY <1>5, <1>7, <1>8, <1>10
<1> QED BY <1>5, <1>11, <1>12 DEF L, current

(***************************************************************************)
(* What was outside the window is outside when a failure is added.         *)
(***************************************************************************)
LEMMA OldKept ==
  ASSUME NEW p, NEW now \in Nat, Timely(p, now), NEW a \in Nat, NEW b \in Nat, 1 <= a, b <= Len(p),
         Old(p, a, b, now)
  PROVE  Old(Append(p, now), a, b, now)
<1>1. \A i \in 1 .. Len(p) : Append(p, now)[i] = p[i]
  BY AppendTimely
<1>2. Len(p) \in Nat
  BY AppendTimely
<1>3. \A j \in a .. b : j \in 1 .. Len(p)
  BY <1>2
<1> QED BY <1>1, <1>3 DEF Old

(***************************************************************************)
(* What is said of the blocks that ended does not change with a failure.   *)
(***************************************************************************)
LEMMA LateKept ==
  ASSUME NEW p, NEW now \in Nat, Timely(p, now), NEW g \in Nat, NEW e \in Nat, Late(p, g, e, now)
  PROVE  Late(Append(p, now), g, e, now)
<1>1. Len(p) \in Nat /\ Len(Append(p, now)) = Len(p) + 1
  BY AppendTimely
<1>2. g <= Len(p) /\ e <= Len(p) + 1
  BY <1>1 DEF Late
<1>3. Old(Append(p, now), 1, g, now)
  BY <1>2, OldKept DEF Late
<1> QED BY <1>1, <1>2, <1>3 DEF Late

\* While threads are blocked each failure leaves one thread fewer.
LEMMA FailsBlocked ==
  ASSUME NEW p, NEW now \in Nat \ {0}, Timely(p, now), FewWithin(p, Limit),
         NEW a \in Nat, 1 <= a, NEW until \in Nat,
         NEW g \in Nat, NEW e \in Nat, Late(p, g, e, now),
         NEW c \in Nat, NEW r \in Nat, Shut(p, until, a, e, c, r, now)
  PROVE  /\ FewWithin(Append(p, now), Limit)
         /\ Shut(Append(p, now), until, a - 1, e, c, r, now)
         /\ Shut(Append(p, now), now + BlockFor, a - 1, e, c, Len(p) + 1, now)
<1> DEFINE n == Cardinality(LoginThreads)
           L == Len(p)
<1>0. MaxAttempts \in Nat \ {0} /\ BlockFor \in Nat /\ n \in Nat
  BY AclConstants
<1>1. /\ L \in Nat /\ Len(Append(p, now)) = L + 1 /\ Append(p, now)[L + 1] = now
      /\ \A i \in 1 .. L : Append(p, now)[i] = p[i]
  BY AppendTimely
<1>2. /\ g <= e /\ e <= c /\ c + MaxAttempts <= r /\ r <= L
      /\ (L - (c + MaxAttempts)) + a < n /\ (e = g \/ e - g < n)
      /\ until = p[r] + BlockFor
      /\ Old(p, 1, g, now) /\ Old(p, e + 1, c, now)
  BY DEF Late, Shut
<1> HIDE DEF n, L
<1>3. c <= L /\ (e - g) + (L + 1 - c) <= MaxAttempts + 2 * (n - 1)
  <2>1. c <= L /\ n >= 1 /\ e - g <= n - 1
    BY <1>0, <1>1, <1>2
  <2>2. (L + 1 - c) <= MaxAttempts + (n - 1)
    BY <1>0, <1>1, <1>2
  <2> QED BY <1>0, <1>1, <2>1, <2>2
<1>4. Limit \in Nat /\ (e - g) + (L + 1 - c) <= Limit
  <2>1. n >= 1
    BY <1>0, <1>1, <1>2
  <2> QED BY <1>0, <1>3, <2>1 DEF Limit, n
<1>5. FewWithin(Append(p, now), Limit)
  BY <1>2, <1>3, <1>4, AppendFailure DEF L
<1>6. Old(Append(p, now), e + 1, c, now)
  BY <1>2, <1>3, OldKept DEF L
<1>7. /\ e <= c /\ c + MaxAttempts <= r /\ r <= L + 1 /\ c + MaxAttempts <= L + 1
      /\ ((L + 1) - (c + MaxAttempts)) + (a - 1) < n
      /\ r \in 1 .. L
  BY <1>0, <1>1, <1>2
<1>8. Shut(Append(p, now), until, a - 1, e, c, r, now)
  BY <1>1, <1>2, <1>6, <1>7 DEF Shut, n
<1>9. Shut(Append(p, now), now + BlockFor, a - 1, e, c, L + 1, now)
  BY <1>1, <1>2, <1>6, <1>7 DEF Shut, n
<1> QED BY <1>5, <1>8, <1>9 DEF L

\* When not blocked, the attempts remembered are those of the window.
LEMMA FailsOpen ==
  ASSUME NEW p, NEW now \in Nat \ {0}, Timely(p, now), FewWithin(p, Limit),
         NEW a \in Nat, 1 <= a, a <= Cardinality(LoginThreads),
         NEW g \in Nat, NEW e \in Nat, Late(p, g, e, now),
         NEW m \in Nat, e <= m, m <= Len(p), Old(p, e + 1, m, now),
         NEW current \in Seq(Nat), Len(current) = Len(p) - m, Len(current) < MaxAttempts,
         \A i \in 1 .. (Len(p) - m) : current[i] = p[m + i]
  PROVE  /\ FewWithin(Append(p, now), Limit)
         /\ Len(Append(current, now)) \in Nat
         /\ Len(Append(current, now)) < MaxAttempts =>
              Open(Append(p, now), Append(current, now), e, m, now)
         /\ ~(Len(Append(current, now)) < MaxAttempts) =>
              Shut(Append(p, now), now + BlockFor, a - 1, e, m, Len(p) + 1, now)
<1> DEFINE n == Cardinality(LoginThreads)
           L == Len(p)
<1>0. MaxAttempts \in Nat \ {0} /\ BlockFor \in Nat /\ n \in Nat
  BY AclConstants
<1>1. /\ L \in Nat /\ Len(Append(p, now)) = L + 1 /\ Append(p, now)[L + 1] = now
      /\ \A i \in 1 .. L : Append(p, now)[i] = p[i]
  BY AppendTimely
<1>2. /\ g <= e /\ (e = g \/ e - g < n) /\ Old(p, 1, g, now)
      /\ L - m < MaxAttempts /\ m <= L /\ 1 <= a /\ a <= n
  BY DEF Late
<1>c. /\ Len(Append(current, now)) = L - m + 1
      /\ Append(current, now)[L - m + 1] = now
      /\ \A i \in 1 .. (L - m) : Append(current, now)[i] = p[m + i]
  BY <1>1
<1> HIDE DEF n, L
<1>3. (e - g) + (L + 1 - m) <= MaxAttempts + 2 * (n - 1)
  <2>1. n >= 1 /\ e - g <= n - 1
    BY <1>0, <1>2
  <2>2. (L + 1 - m) <= MaxAttempts
    BY <1>0, <1>1, <1>2
  <2> QED BY <1>0, <1>1, <2>1, <2>2
<1>4. Limit \in Nat /\ (e - g) + (L + 1 - m) <= Limit
  <2>1. n >= 1
    BY <1>0, <1>2
  <2> QED BY SMTT(30), <1>0, <1>3, <2>1 DEF Limit, n
<1>5. FewWithin(Append(p, now), Limit)
  BY <1>2, <1>4, AppendFailure DEF L
<1>6. Old(Append(p, now), e + 1, m, now)
  BY <1>2, OldKept DEF L
<1>7. Len(Append(current, now)) \in Nat
  BY <1>1, <1>2, <1>c
<1>8. ASSUME Len(Append(current, now)) < MaxAttempts
      PROVE  Open(Append(p, now), Append(current, now), e, m, now)
  <2>1. ASSUME NEW i \in 1 .. (L - m + 1) PROVE Append(current, now)[i] = Append(p, now)[m + i]
    <3>1. CASE i = L - m + 1
      <4>1. m + i = L + 1
        BY SMTT(30), <3>1, <1>1
      <4> QED BY <4>1, <3>1, <1>1, <1>c
    <3>2. CASE i # L - m + 1
      <4>1. i \in 1 .. (L - m) /\ m + i \in 1 .. L
        BY <3>2, <1>1, <1>2
      <4> QED BY <4>1, <1>1, <1>c
    <3> QED BY <3>1, <3>2
  <2>2. m <= L + 1 /\ L - m + 1 = (L + 1) - m
    BY <1>1, <1>2
  <2> QED BY <1>8, <2>1, <2>2, <1>1, <1>6, <1>c DEF Open
<1>9. ASSUME ~(Len(Append(current, now)) < MaxAttempts)
      PROVE  Shut(Append(p, now), now + BlockFor, a - 1, e, m, L + 1, now)
  <2>1. /\ m + MaxAttempts <= L + 1
        /\ ((L + 1) - (m + MaxAttempts)) + (a - 1) < n
    BY <1>9, <1>0, <1>1, <1>2, <1>c
  <2> QED BY <2>1, <1>1, <1>6 DEF Shut, n
<1> QED BY <1>5, <1>7, <1>8, <1>9 DEF L

(***************************************************************************)
(* The limit keeps its types, and the order of the failures.               *)
(***************************************************************************)
LEMMA AclTypeKept ==
  ASSUME AclTypeOK, [AclNext]_aclVars
  PROVE  AclTypeOK'
<1>0. /\ failedAttempts \in Seq(Nat) /\ blockedUntil \in Nat /\ aclNow \in Nat \ {0}
      /\ login \in [LoginThreads -> {"idle", "admitted"}] /\ Timely(passed, aclNow)
  BY DEF AclTypeOK
<1>1. BlockFor \in Nat
  BY AclConstants
<1>2. Current(failedAttempts) \in Seq(Nat)
  BY <1>0, CurrentShape
<1>3. Append(Current(failedAttempts), aclNow) \in Seq(Nat)
  BY <1>0, <1>2
<1>4. Timely(Append(passed, aclNow), aclNow)
  BY <1>0, AppendTimely
<1>5. Timely(<<>>, aclNow)
  BY DEF Timely
<1>6. Timely(passed, aclNow + 1)
  <2>1. passed \in Seq(Nat) /\ \A i \in 1 .. Len(passed) : passed[i] \in Nat /\ passed[i] <= aclNow
    BY <1>0 DEF Timely
  <2>2. \A i \in 1 .. Len(passed) : passed[i] <= aclNow + 1
    BY <2>1, <1>0
  <2> QED BY <2>1, <2>2, <1>0 DEF Timely
<1>7. ASSUME UNCHANGED <<failedAttempts, blockedUntil, login, aclNow, passed>>
      PROVE  AclTypeOK'
  BY <1>0, <1>7 DEF AclTypeOK
<1>8. CASE UNCHANGED aclVars
  BY <1>7, <1>8 DEF aclVars
<1>9. ASSUME NEW r, NEW rule, addACLRule(r, rule)
      PROVE  AclTypeOK'
  BY <1>7, <1>9 DEF addACLRule
<1>10. ASSUME NEW S, removeACLRules(S)
       PROVE  AclTypeOK'
  BY <1>7, <1>10 DEF removeACLRules
<1>11. ASSUME NEW t \in LoginThreads, checkLoginRate(t)
       PROVE  AclTypeOK'
  <2>1. blockedUntil' \in Nat
    BY <1>11, <1>0 DEF checkLoginRate
  <2>2. failedAttempts' \in Seq(Nat)
    BY <1>11, <1>0, <1>2 DEF checkLoginRate
  <2>3. login' \in [LoginThreads -> {"idle", "admitted"}]
    BY <1>11, <1>0 DEF checkLoginRate
  <2>4. UNCHANGED <<aclNow, passed>>
    BY <1>11 DEF checkLoginRate
  <2> QED BY <1>0, <2>1, <2>2, <2>3, <2>4 DEF AclTypeOK
<1>12. ASSUME NEW t \in LoginThreads, recordFailedAttempt(t)
       PROVE  AclTypeOK'
  <2>1. blockedUntil' \in Nat
    BY <1>12, <1>0, <1>1 DEF recordFailedAttempt
  <2>2. failedAttempts' \in Seq(Nat)
    BY <1>12, <1>3 DEF recordFailedAttempt
  <2>3. login' \in [LoginThreads -> {"idle", "admitted"}]
    BY <1>12, <1>0 DEF recordFailedAttempt
  <2>4. aclNow' = aclNow /\ passed' = Append(passed, aclNow)
    BY <1>12 DEF recordFailedAttempt
  <2> QED BY <1>0, <1>4, <2>1, <2>2, <2>3, <2>4 DEF AclTypeOK
<1>13. ASSUME NEW t \in LoginThreads, recordSuccessfulAuth(t)
       PROVE  AclTypeOK'
  <2>1. login' \in [LoginThreads -> {"idle", "admitted"}]
    BY <1>13, <1>0 DEF recordSuccessfulAuth
  <2>2. aclNow' = aclNow /\ passed' = <<>> /\ failedAttempts' = <<>> /\ blockedUntil' = 0
    BY <1>13 DEF recordSuccessfulAuth
  <2> QED BY <1>0, <1>5, <2>1, <2>2 DEF AclTypeOK
<1>14. CASE aclTick
  <2>1. UNCHANGED <<failedAttempts, blockedUntil, login, passed>> /\ aclNow' = aclNow + 1
    BY <1>14 DEF aclTick
  <2> QED BY <1>0, <1>6, <2>1 DEF AclTypeOK
<1> QED BY <1>8, <1>9, <1>10, <1>11, <1>12, <1>13, <1>14 DEF AclNext

(***************************************************************************)
(* Blocks begin with MaxAttempts failures of a window, and end with a check *)
(* that comes later than the window after the failure that began them.     *)
(***************************************************************************)
LEMMA AclStep ==
  ASSUME AclInv, [AclNext]_aclVars
  PROVE  AclInv'
<1>0. /\ AclTypeOK /\ AclTypeOK'
      /\ failedAttempts \in Seq(Nat) /\ blockedUntil \in Nat /\ aclNow \in Nat \ {0}
      /\ login \in [LoginThreads -> {"idle", "admitted"}] /\ Timely(passed, aclNow)
  BY AclTypeKept DEF AclInv, AclTypeOK
<1>c. /\ MaxAttempts \in Nat \ {0} /\ Window \in Nat /\ BlockFor \in Nat
      /\ Cardinality(LoginThreads) \in Nat
  BY AclConstants
<1> SUFFICES ASSUME Window < BlockFor
             PROVE  FewWithin(passed', Limit)
                    /\ Phases(passed', failedAttempts', blockedUntil', Cardinality(Admitted(login')), aclNow')
  BY <1>0 DEF AclInv
<1>1. /\ FewWithin(passed, Limit)
      /\ Phases(passed, failedAttempts, blockedUntil, Cardinality(Admitted(login)), aclNow)
  BY DEF AclInv
<1>2. PICK g, e \in Nat :
        /\ Late(passed, g, e, aclNow)
        /\ \/ blockedUntil = 0 /\ \E d \in Nat : Open(passed, failedAttempts, e, d, aclNow)
           \/ blockedUntil # 0
              /\ \E c, r \in Nat : Shut(passed, blockedUntil, Cardinality(Admitted(login)), e, c, r, aclNow)
  BY <1>1 DEF Phases
<1>p. /\ passed \in Seq(Nat) /\ Len(passed) \in Nat
      /\ \A i \in 1 .. Len(passed) : passed[i] \in Nat /\ passed[i] <= aclNow
  BY <1>0 DEF Timely
<1>7. ASSUME UNCHANGED <<failedAttempts, blockedUntil, login, aclNow, passed>>
      PROVE  FewWithin(passed', Limit)
             /\ Phases(passed', failedAttempts', blockedUntil', Cardinality(Admitted(login')), aclNow')
  BY <1>1, <1>7
<1>8. CASE UNCHANGED aclVars
  BY <1>7, <1>8 DEF aclVars
<1>9. ASSUME NEW r, NEW rule, addACLRule(r, rule)
      PROVE  FewWithin(passed', Limit)
             /\ Phases(passed', failedAttempts', blockedUntil', Cardinality(Admitted(login')), aclNow')
  BY <1>7, <1>9 DEF addACLRule
<1>10. ASSUME NEW S, removeACLRules(S)
       PROVE  FewWithin(passed', Limit)
              /\ Phases(passed', failedAttempts', blockedUntil', Cardinality(Admitted(login')), aclNow')
  BY <1>7, <1>10 DEF removeACLRules
<1>11. ASSUME NEW t \in LoginThreads, checkLoginRate(t)
       PROVE  FewWithin(passed', Limit)
              /\ Phases(passed', failedAttempts', blockedUntil', Cardinality(Admitted(login')), aclNow')
  <2>1. passed' = passed /\ aclNow' = aclNow /\ login[t] = "idle"
    BY <1>11 DEF checkLoginRate
  <2>2. CASE blockedUntil = 0
    <3>1. PICK d \in Nat : Open(passed, failedAttempts, e, d, aclNow)
      BY <1>2, <2>2
    <3>2. PICK m \in d .. Len(passed) :
            /\ Len(Current(failedAttempts)) = Len(passed) - m
            /\ \A i \in 1 .. (Len(passed) - m) : Current(failedAttempts)[i] = passed[m + i]
            /\ Old(passed, e + 1, m, aclNow)
      BY <3>1, <1>0, CurrentIs
    <3>3. failedAttempts' = Current(failedAttempts) /\ blockedUntil' = 0
      BY <1>11, <2>2 DEF checkLoginRate
    <3>4. m \in Nat /\ e <= m /\ m <= Len(passed) /\ Len(passed) - m < MaxAttempts
      <4>1. e <= d /\ d <= Len(passed) /\ Len(passed) - d < MaxAttempts
        BY <3>1 DEF Open
      <4> QED BY <4>1, <1>p, <1>c
    <3>5. Open(passed, failedAttempts', e, m, aclNow)
      BY <3>2, <3>3, <3>4 DEF Open
    <3> QED BY <1>1, <1>2, <2>1, <3>3, <3>4, <3>5 DEF Phases
  <2>3. CASE blockedUntil # 0 /\ ~(aclNow >= blockedUntil)
    <3>1. /\ failedAttempts' = failedAttempts /\ blockedUntil' = blockedUntil
          /\ login' = [login EXCEPT ![t] = "idle"]
      BY <1>11, <2>3 DEF checkLoginRate
    <3>2. Admitted(login') = Admitted(login)
      BY <3>1, <2>1, <1>0, AdmittedCount
    <3> QED BY <1>1, <2>1, <3>1, <3>2
  <2>4. CASE blockedUntil # 0 /\ aclNow >= blockedUntil
    <3>1. failedAttempts' = <<>> /\ blockedUntil' = 0
      BY <1>11, <2>4 DEF checkLoginRate
    <3>2. PICK c, r \in Nat : Shut(passed, blockedUntil, Cardinality(Admitted(login)), e, c, r, aclNow)
      BY <1>2, <2>4
    <3>3. Cardinality(Admitted(login)) \in Nat
      BY <1>0, AdmittedCount
    <3>4. /\ c + MaxAttempts <= r /\ r <= Len(passed) /\ blockedUntil = passed[r] + BlockFor
          /\ (Len(passed) - (c + MaxAttempts)) + Cardinality(Admitted(login)) < Cardinality(LoginThreads)
      BY <3>2 DEF Shut
    <3>5. r \in 1 .. Len(passed) /\ Len(passed) - r < Cardinality(LoginThreads)
      BY <3>3, <3>4, <1>c, <1>p
    <3>6. ASSUME NEW j \in 1 .. r PROVE passed[j] + Window < aclNow
      <4>1. j \in 1 .. Len(passed) /\ j <= r
        BY <3>5
      <4>2. passed[j] <= passed[r]
        BY <4>1, <3>5, <1>0 DEF Timely
      <4>3. passed[j] \in Nat /\ passed[r] \in Nat /\ aclNow \in Nat
        BY <4>1, <3>5, <1>p, <1>0
      <4>4. passed[r] + BlockFor <= aclNow
        BY <4>3, <3>4, <2>4, <1>0, <1>c
      <4> QED BY <4>2, <4>3, <4>4, <1>c
    <3>7. Late(passed, r, Len(passed), aclNow)
      BY <3>5, <3>6, <1>p DEF Late, Old
    <3>8. Open(passed, <<>>, Len(passed), Len(passed), aclNow)
      BY <1>p, <1>c DEF Open, Old
    <3> QED BY <1>1, <1>p, <2>1, <3>1, <3>7, <3>8 DEF Phases
  <2> QED BY <2>2, <2>3, <2>4
<1>12. ASSUME NEW t \in LoginThreads, recordFailedAttempt(t)
       PROVE  FewWithin(passed', Limit)
              /\ Phases(passed', failedAttempts', blockedUntil', Cardinality(Admitted(login')), aclNow')
  <2> DEFINE a == Cardinality(Admitted(login))
             current == Current(failedAttempts)
             p == passed
  <2>1. /\ passed' = Append(p, aclNow) /\ aclNow' = aclNow
        /\ failedAttempts' = Append(current, aclNow)
        /\ blockedUntil' = IF ~(Len(failedAttempts') < MaxAttempts) THEN aclNow + BlockFor ELSE blockedUntil
    <3>1. /\ passed' = Append(p, aclNow) /\ aclNow' = aclNow
          /\ failedAttempts' = Append(current, aclNow)
          /\ blockedUntil' = IF Len(failedAttempts') >= MaxAttempts THEN aclNow + BlockFor ELSE blockedUntil
      BY <1>12 DEF recordFailedAttempt
    <3>2. Len(failedAttempts') \in Nat
      BY <1>0 DEF AclTypeOK
    <3>3. Len(failedAttempts') >= MaxAttempts <=> ~(Len(failedAttempts') < MaxAttempts)
      BY <3>2, <1>c
    <3> QED BY <3>1, <3>3
  <2>2. a \in Nat /\ 1 <= a /\ a <= Cardinality(LoginThreads) /\ Cardinality(Admitted(login')) = a - 1
    <3>1. login[t] = "admitted" /\ login' = [login EXCEPT ![t] = "idle"]
      BY <1>12 DEF recordFailedAttempt
    <3> QED BY <3>1, <1>0, AdmittedCount
  <2>3. Late(passed', g, e, aclNow)
    BY <1>0, <1>2, <2>1, LateKept
  <2>4. aclNow + BlockFor # 0
    BY <1>0, <1>c
  <2>5. CASE blockedUntil # 0
    <3>1. PICK c, r \in Nat : Shut(p, blockedUntil, a, e, c, r, aclNow)
      BY <1>2, <2>5
    <3>2. /\ FewWithin(passed', Limit)
          /\ Shut(passed', blockedUntil, a - 1, e, c, r, aclNow)
          /\ Shut(passed', aclNow + BlockFor, a - 1, e, c, Len(p) + 1, aclNow)
      <4> HIDE DEF a, p
      <4>1. Timely(p, aclNow) /\ FewWithin(p, Limit) /\ Late(p, g, e, aclNow)
        BY <1>0, <1>1, <1>2 DEF p
      <4> QED BY <3>1, <4>1, <1>0, <2>1, <2>2, FailsBlocked
    <3>3. Len(p) + 1 \in Nat
      BY <1>p
    <3>4. \/ blockedUntil' = blockedUntil
          \/ blockedUntil' = aclNow + BlockFor
      BY <2>1
    <3>5. blockedUntil' # 0 /\ \E k, q \in Nat : Shut(passed', blockedUntil', a - 1, e, k, q, aclNow)
      <4> HIDE DEF a, p
      <4>1. CASE blockedUntil' = blockedUntil
        BY <4>1, <3>2, <2>5
      <4>2. CASE blockedUntil' = aclNow + BlockFor
        BY <4>2, <3>2, <3>3, <2>4
      <4> QED BY <4>1, <4>2, <3>4
    <3> HIDE DEF a, p
    <3> QED BY <2>1, <2>2, <2>3, <3>2, <3>5 DEF Phases
  <2>6. CASE blockedUntil = 0
    <3>1. PICK d \in Nat : Open(passed, failedAttempts, e, d, aclNow)
      BY <1>2, <2>6
    <3>2. PICK m \in d .. Len(passed) :
            /\ current \in Seq(Nat)
            /\ Len(current) = Len(passed) - m
            /\ \A i \in 1 .. (Len(passed) - m) : current[i] = passed[m + i]
            /\ Old(passed, e + 1, m, aclNow)
      BY <3>1, <1>0, CurrentIs
    <3>3. m \in Nat /\ e <= m /\ m <= Len(passed) /\ Len(current) < MaxAttempts
      <4>1. e <= d /\ d <= Len(passed) /\ Len(passed) - d < MaxAttempts
        BY <3>1 DEF Open
      <4> QED BY <4>1, <3>2, <1>p, <1>c
    <3> HIDE DEF a, current
    <3>4. /\ FewWithin(Append(passed, aclNow), Limit)
          /\ Len(Append(current, aclNow)) < MaxAttempts =>
               Open(Append(passed, aclNow), Append(current, aclNow), e, m, aclNow)
          /\ ~(Len(Append(current, aclNow)) < MaxAttempts) =>
               Shut(Append(passed, aclNow), aclNow + BlockFor, a - 1, e, m, Len(passed) + 1, aclNow)
      <4> HIDE DEF p
      <4> QED BY <1>0, <1>1, <1>2, <2>2, <3>2, <3>3, FailsOpen
    <3>5. Len(passed) + 1 \in Nat
      BY <1>p
    <3>6. CASE Len(failedAttempts') < MaxAttempts
      <4>1. blockedUntil' = 0 /\ Open(passed', failedAttempts', e, m, aclNow)
        BY <3>6, <2>1, <2>6, <3>4
      <4> QED BY <4>1, <2>1, <2>3, <3>3, <3>4 DEF Phases
    <3>7. CASE ~(Len(failedAttempts') < MaxAttempts)
      <4>1. blockedUntil' # 0 /\ Shut(passed', blockedUntil', a - 1, e, m, Len(passed) + 1, aclNow)
        BY <3>7, <2>1, <2>4, <3>4
      <4> QED BY <4>1, <2>1, <2>2, <2>3, <3>3, <3>4, <3>5 DEF Phases
    <3> QED BY <3>6, <3>7
  <2> QED BY <2>5, <2>6
<1>13. ASSUME NEW t \in LoginThreads, recordSuccessfulAuth(t)
       PROVE  FewWithin(passed', Limit)
              /\ Phases(passed', failedAttempts', blockedUntil', Cardinality(Admitted(login')), aclNow')
  <2>1. aclNow' = aclNow /\ passed' = <<>> /\ failedAttempts' = <<>> /\ blockedUntil' = 0
    BY <1>13 DEF recordSuccessfulAuth
  <2>2. FewWithin(<<>>, Limit)
    BY DEF FewWithin
  <2>3. Late(<<>>, 0, 0, aclNow) /\ Open(<<>>, <<>>, 0, 0, aclNow)
    BY <1>c DEF Late, Open, Old
  <2> QED BY <2>1, <2>2, <2>3 DEF Phases
<1>14. CASE aclTick
  <2>1. UNCHANGED <<failedAttempts, blockedUntil, login, passed>> /\ aclNow' = aclNow + 1
    BY <1>14 DEF aclTick
  <2>2. ASSUME NEW i \in Nat, NEW j \in Nat, 1 <= i, j <= Len(passed), Old(passed, i, j, aclNow)
        PROVE  Old(passed, i, j, aclNow + 1)
    <3>1. ASSUME NEW k \in i .. j PROVE passed[k] + Window < aclNow + 1
      <4>1. k \in 1 .. Len(passed) /\ passed[k] + Window < aclNow
        BY <2>2, <1>p DEF Old
      <4> QED BY <4>1, <1>p, <1>0, <1>c
    <3> QED BY <3>1 DEF Old
  <2>3. g <= e /\ e <= Len(passed) /\ Old(passed, 1, g, aclNow)
    BY <1>2 DEF Late
  <2>4. Old(passed, 1, g, aclNow + 1)
    BY <2>2, <2>3, <1>p
  <2>5. Late(passed, g, e, aclNow + 1)
    BY <1>2, <2>4 DEF Late
  <2>6. CASE blockedUntil = 0
    <3>1. PICK d \in Nat : Open(passed, failedAttempts, e, d, aclNow)
      BY <1>2, <2>6
    <3>2. d <= Len(passed) /\ Old(passed, e + 1, d, aclNow) /\ e + 1 \in Nat /\ 1 <= e + 1
      BY <3>1 DEF Open
    <3>3. Old(passed, e + 1, d, aclNow + 1)
      BY <2>2, <3>2
    <3>4. Open(passed, failedAttempts, e, d, aclNow + 1)
      BY <3>1, <3>3 DEF Open
    <3> QED BY <1>1, <2>1, <2>5, <2>6, <3>4 DEF Phases
  <2>7. CASE blockedUntil # 0
    <3>1. PICK c, r \in Nat : Shut(passed, blockedUntil, Cardinality(Admitted(login)), e, c, r, aclNow)
      BY <1>2, <2>7
    <3>2. c <= Len(passed) /\ Old(passed, e + 1, c, aclNow) /\ e + 1 \in Nat /\ 1 <= e + 1
      <4>1. c + MaxAttempts <= r /\ r <= Len(passed) /\ Old(passed, e + 1, c, aclNow)
        BY <3>1 DEF Shut
      <4> QED BY <4>1, <1>p, <1>c
    <3>3. Old(passed, e + 1, c, aclNow + 1)
      BY <2>2, <3>2
    <3>4. Shut(passed, blockedUntil, Cardinality(Admitted(login)), e, c, r, aclNow + 1)
      BY <3>1, <3>3 DEF Shut
    <3> QED BY <1>1, <2>1, <2>5, <2>7, <3>4 DEF Phases
  <2> QED BY <2>6, <2>7
<1> QED BY <1>8, <1>9, <1>10, <1>11, <1>12, <1>13, <1>14 DEF AclNext

(***************************************************************************)
(* Nobody is blocked at first.                                             *)
(***************************************************************************)
LEMMA AclStarts ==
  ASSUME AclInit
  PROVE  AclInv
<1>0. MaxAttempts \in Nat \ {0}
  BY AclConstants
<1>1. /\ failedAttempts = <<>> /\ blockedUntil = 0 /\ passed = <<>> /\ aclNow = 1
      /\ login \in [LoginThreads -> {"idle", "admitted"}]
  BY DEF AclInit
<1>2. AclTypeOK
  BY <1>1 DEF AclTypeOK, Timely
<1>3. FewWithin(<<>>, Limit)
  BY DEF FewWithin
<1>4. Late(<<>>, 0, 0, 1) /\ Open(<<>>, <<>>, 0, 0, 1)
  BY <1>0 DEF Late, Open, Old
<1> QED BY <1>1, <1>2, <1>3, <1>4 DEF AclInv, Phases

(***************************************************************************)
(* The invariant holds the bound on the failures of a window.              *)
(***************************************************************************)
LEMMA AclIsBounded ==
  ASSUME AclInv
  PROVE  AttemptsBounded
<1>1. DOMAIN passed = 1 .. Len(passed)
  BY DEF AclInv, AclTypeOK, Timely
<1> QED BY <1>1 DEF AclInv, AttemptsBounded, FewWithin, WithinWindow, Limit

(***************************************************************************)
(* Access is limited: a key that was revoked is refused everywhere, no     *)
(* minute admits more than its attempts, and no window shorter than the    *)
(* block sees more failures than MaxAttempts and two of each other thread. *)
(***************************************************************************)
THEOREM AccessIsLimited == ServicesSpec => []AccessLimited
<1>1. ServicesInit => AuthInv /\ AclInv
  BY AuthStarts, AclStarts DEF ServicesInit
<1>2. AuthInv /\ [ServicesNext]_servicesVars => AuthInv'
  BY OneService, AuthStep
<1>3. AclInv /\ [ServicesNext]_servicesVars => AclInv'
  BY OneService, AclStep
<1>4. AuthInv /\ AclInv => AccessLimited
  BY AuthIsSound, AclIsBounded DEF AccessLimited
<1> QED BY <1>1, <1>2, <1>3, <1>4, PTL DEF ServicesSpec

-----------------------------------------------------------------------------
(* MetricsCollector: the counters                                           *)

MetricSteps == {"idle", "readActive", "readPeak", "exchange", "subtract"}
MetricPcs == Counters \X MetricSteps \X Nat \X Nat

CounterTypeOK ==
  /\ active \in [Counters -> Nat] /\ peak \in [Counters -> Nat] /\ total \in [Counters -> Nat]
  /\ opened \in [Counters -> Nat] /\ reached \in [Counters -> Nat]
  /\ metric \in [MetricThreads -> MetricPcs]
  /\ resets \in BOOLEAN

\* The threads of m between the check of counter k and its decrement.
Subtracting(m, k) == {t \in MetricThreads : m[t][1] = k /\ m[t][2] = "subtract"}

\* The thread at p is about to see that the peak of k is at least n.
Raises(p, k, n) ==
  /\ p[1] = k
  /\ p[2] = "readActive" \/ (p[2] \in {"readPeak", "exchange"} /\ p[3] >= n)

CountsAgree(k) ==
  /\ active[k] = opened[k] + Cardinality(Subtracting(metric, k))
  /\ active[k] <= total[k]
  /\ active[k] <= reached[k] /\ peak[k] <= reached[k]

PeakFollows(k) ==
  peak[k] >= active[k] \/ \E t \in MetricThreads : Raises(metric[t], k, active[k])

PcSound(p) ==
  /\ p[2] \in {"readPeak", "exchange"} => p[3] <= reached[p[1]]
  /\ p[2] = "exchange" => p[3] > p[4]

\* Decrements are owed, no counter passes its events, and a peak below the
\* active count is being raised by someone, never beyond what was reached.
CounterInv ==
  /\ CounterTypeOK
  /\ ~resets => /\ total["connections"] + total["streams"] <= MaxEvents
                /\ \A k \in Counters : CountsAgree(k) /\ PeakFollows(k)
                /\ \A t \in MetricThreads : PcSound(metric[t])

(***************************************************************************)
(* The threads about to decrement are finitely many.                       *)
(***************************************************************************)
LEMMA SubtractingNat ==
  ASSUME NEW m, NEW k
  PROVE  IsFiniteSet(Subtracting(m, k)) /\ Cardinality(Subtracting(m, k)) \in Nat
<1>1. Subtracting(m, k) \subseteq MetricThreads
  BY DEF Subtracting
<1>2. IsFiniteSet(Subtracting(m, k))
  BY <1>1, MetricsAssumption, FS_Subset
<1> QED BY <1>2, FS_CardinalityType

(***************************************************************************)
(* Counters that do not wrap add and subtract as numbers.                  *)
(***************************************************************************)
LEMMA CounterArithmetic ==
  ASSUME NEW w \in Nat, NEW a \in 0 .. (w - 1)
  PROVE  /\ a + 1 < w => (a + 1) % w = a + 1
         /\ 0 < a => (a + w - 1) % w = a - 1
         /\ (a + 1) % w \in Nat /\ (a + w - 1) % w \in Nat
BY Z3

(***************************************************************************)
(* Counters are numbers, whether they wrap or not.                         *)
(***************************************************************************)
LEMMA ModIsNat ==
  ASSUME NEW w \in Nat \ {0}, NEW a \in Nat
  PROVE  (a + 1) % w \in Nat /\ (a + w - 1) % w \in Nat
BY Z3

(***************************************************************************)
(* The maximum of two numbers.                                             *)
(***************************************************************************)
LEMMA MaxOfTwo ==
  ASSUME NEW a \in Nat, NEW b \in Nat
  PROVE  Max({a, b}) = IF a >= b THEN a ELSE b
<1>1. \A x \in {a, b} : (\A y \in {a, b} : x >= y) <=> x = (IF a >= b THEN a ELSE b)
  OBVIOUS
<1> QED BY <1>1 DEF Max

(***************************************************************************)
(* A step of a thread changes where that thread is and no other.           *)
(***************************************************************************)
LEMMA MetricCells ==
  ASSUME CounterTypeOK, NEW t \in MetricThreads, NEW k \in Counters,
         NEW s \in MetricSteps, NEW c \in Nat, NEW p \in Nat
  PROVE  /\ metric[t] \in MetricPcs
         /\ metric[t][1] \in Counters /\ metric[t][2] \in MetricSteps
         /\ metric[t][3] \in Nat /\ metric[t][4] \in Nat
         /\ <<k, s, c, p>> \in MetricPcs
         /\ <<k, s, c, p>>[1] = k /\ <<k, s, c, p>>[2] = s
         /\ <<k, s, c, p>>[3] = c /\ <<k, s, c, p>>[4] = p
         /\ [metric EXCEPT ![t] = <<k, s, c, p>>][t] = <<k, s, c, p>>
         /\ \A u \in MetricThreads \ {t} : [metric EXCEPT ![t] = <<k, s, c, p>>][u] = metric[u]
         /\ [metric EXCEPT ![t] = <<k, s, c, p>>] \in [MetricThreads -> MetricPcs]
<1>1. metric[t] \in MetricPcs
  BY DEF CounterTypeOK
<1>2. /\ metric[t][1] \in Counters /\ metric[t][2] \in MetricSteps
      /\ metric[t][3] \in Nat /\ metric[t][4] \in Nat
  BY <1>1 DEF MetricPcs
<1>3. /\ <<k, s, c, p>> \in MetricPcs
      /\ <<k, s, c, p>>[1] = k /\ <<k, s, c, p>>[2] = s
      /\ <<k, s, c, p>>[3] = c /\ <<k, s, c, p>>[4] = p
  BY DEF MetricPcs
<1>4. PICK w \in MetricPcs : w = <<k, s, c, p>>
  BY <1>3
<1>5. /\ [metric EXCEPT ![t] = w][t] = w
      /\ \A u \in MetricThreads \ {t} : [metric EXCEPT ![t] = w][u] = metric[u]
      /\ [metric EXCEPT ![t] = w] \in [MetricThreads -> MetricPcs]
  BY DEF CounterTypeOK
<1> QED BY <1>1, <1>2, <1>3, <1>4, <1>5

(***************************************************************************)
(* A thread that passed the check, or has decremented, changes by one how many *)
(* decrements are owed.                                                    *)
(***************************************************************************)
LEMMA SubtractingStep ==
  ASSUME CounterTypeOK, NEW t \in MetricThreads, NEW w \in MetricPcs, NEW k \in Counters,
         metric' = [metric EXCEPT ![t] = w]
  PROVE  /\ Cardinality(Subtracting(metric, k)) \in Nat
         /\ metric[t][2] # "subtract" /\ w[2] # "subtract" =>
              Subtracting(metric', k) = Subtracting(metric, k)
         /\ metric[t][2] # "subtract" /\ w[2] = "subtract" =>
              Cardinality(Subtracting(metric', k))
                = Cardinality(Subtracting(metric, k)) + (IF w[1] = k THEN 1 ELSE 0)
         /\ metric[t][2] = "subtract" /\ w[2] # "subtract" =>
              Cardinality(Subtracting(metric', k))
                = Cardinality(Subtracting(metric, k)) - (IF metric[t][1] = k THEN 1 ELSE 0)
<1>1. metric'[t] = w /\ \A u \in MetricThreads \ {t} : metric'[u] = metric[u]
  BY DEF CounterTypeOK
<1>3. IsFiniteSet(Subtracting(metric, k))
  BY SubtractingNat
<1>4. Cardinality(Subtracting(metric, k)) \in Nat
  BY SubtractingNat
<1>5. metric[t][2] # "subtract" /\ w[2] # "subtract" => Subtracting(metric', k) = Subtracting(metric, k)
  BY <1>1 DEF Subtracting
<1>6. ASSUME metric[t][2] # "subtract", w[2] = "subtract"
      PROVE  Cardinality(Subtracting(metric', k)) = Cardinality(Subtracting(metric, k)) + (IF w[1] = k THEN 1 ELSE 0)
  <2>1. t \notin Subtracting(metric, k)
    BY <1>6 DEF Subtracting
  <2>2. w[1] = k => Subtracting(metric', k) = Subtracting(metric, k) \cup {t}
    BY <1>1, <1>6 DEF Subtracting
  <2>3. w[1] # k => Subtracting(metric', k) = Subtracting(metric, k)
    BY <1>1, <1>6 DEF Subtracting
  <2>4. Cardinality(Subtracting(metric, k) \cup {t}) = Cardinality(Subtracting(metric, k)) + 1
    BY <2>1, <1>3, FS_AddElement
  <2>5. CASE w[1] = k
    BY <2>2, <2>4, <2>5
  <2>6. CASE w[1] # k
    <3>1. Cardinality(Subtracting(metric', k)) = Cardinality(Subtracting(metric, k)) + 0
      BY <2>3, <2>6, <1>4
    <3> QED BY <3>1, <2>6
  <2> QED BY <2>5, <2>6
<1>7. ASSUME metric[t][2] = "subtract", w[2] # "subtract"
      PROVE  Cardinality(Subtracting(metric', k)) = Cardinality(Subtracting(metric, k)) - (IF metric[t][1] = k THEN 1 ELSE 0)
  <2>1. t \in Subtracting(metric, k) <=> metric[t][1] = k
    BY <1>7 DEF Subtracting
  <2>2. Subtracting(metric', k) = Subtracting(metric, k) \ {t}
    BY <1>1, <1>7 DEF Subtracting
  <2>3. Cardinality(Subtracting(metric, k) \ {t})
          = IF t \in Subtracting(metric, k) THEN Cardinality(Subtracting(metric, k)) - 1
            ELSE Cardinality(Subtracting(metric, k))
    BY <1>3, FS_RemoveElement
  <2>4. CASE metric[t][1] = k
    <3>1. Cardinality(Subtracting(metric', k)) = Cardinality(Subtracting(metric, k)) - 1
      BY <2>1, <2>2, <2>3, <2>4
    <3> QED BY <3>1, <2>4
  <2>5. CASE metric[t][1] # k
    <3>1. Cardinality(Subtracting(metric', k)) = Cardinality(Subtracting(metric, k))
      BY <2>1, <2>2, <2>3, <2>5
    <3> QED BY <3>1, <2>5, <1>4
  <2> QED BY <2>4, <2>5
<1> QED BY <1>4, <1>5, <1>6, <1>7

(***************************************************************************)
(* The counters keep their types.                                          *)
(***************************************************************************)
LEMMA CounterTypes ==
  ASSUME CounterTypeOK, CounterNext
  PROVE  CounterTypeOK'
<1> DEFINE Cells == metric \in [MetricThreads -> MetricPcs]
<1>k. ASSUME NEW k \in Counters
      PROVE  /\ active[k] \in Nat /\ peak[k] \in Nat /\ total[k] \in Nat
             /\ opened[k] \in Nat /\ reached[k] \in Nat
             /\ (active[k] + 1) % Wrap \in Nat /\ (active[k] + Wrap - 1) % Wrap \in Nat
  <2>1. active[k] \in Nat /\ Wrap \in Nat \ {0}
    BY MetricsAssumption DEF CounterTypeOK
  <2> QED BY <2>1, ModIsNat DEF CounterTypeOK
<1>i. Idle \in MetricPcs
  BY DEF Idle, MetricPcs, Counters, MetricSteps
<1>s. MetricSteps = {"idle", "readActive", "readPeak", "exchange", "subtract"}
  BY DEF MetricSteps
<1>m. ASSUME NEW t \in MetricThreads, NEW w \in MetricPcs, metric' = [metric EXCEPT ![t] = w]
      PROVE  metric' \in [MetricThreads -> MetricPcs]
  BY <1>m DEF CounterTypeOK
<1>1. ASSUME NEW t \in MetricThreads, NEW k \in Counters, increment(t, k) PROVE CounterTypeOK'
  <2>1. <<k, "readActive", 0, 0>> \in MetricPcs
    BY <1>s DEF MetricPcs
  <2>2. metric' \in [MetricThreads -> MetricPcs]
    BY <1>1, <1>m, <2>1 DEF increment, To
  <2>3. active' \in [Counters -> Nat] /\ active'[k] \in Nat
    BY <1>1, <1>k DEF increment, CounterTypeOK
  <2>4. Max({reached[k], active'[k]}) \in Nat
    BY <1>k, <2>3, MaxOfTwo
  <2>5. reached' \in [Counters -> Nat]
    BY <1>1, <2>4 DEF increment, CounterTypeOK
  <2>6. total' \in [Counters -> Nat] /\ opened' \in [Counters -> Nat]
    BY <1>1, <1>k DEF increment, CounterTypeOK
  <2> QED BY <1>1, <2>2, <2>3, <2>5, <2>6 DEF increment, CounterTypeOK
<1>2. ASSUME NEW t \in MetricThreads, loadActive(t) PROVE CounterTypeOK'
  <2>1. metric[t][1] \in Counters /\ active[metric[t][1]] \in Nat
    BY DEF CounterTypeOK, MetricPcs
  <2>2. <<metric[t][1], "readPeak", active[metric[t][1]], 0>> \in MetricPcs
    BY <1>s, <2>1 DEF MetricPcs
  <2>3. metric' \in [MetricThreads -> MetricPcs]
    BY <1>2, <1>m, <2>2 DEF loadActive, To
  <2> QED BY <1>2, <2>3 DEF loadActive, CounterTypeOK
<1>3. ASSUME NEW t \in MetricThreads, loadPeak(t) \/ exchangePeak(t) PROVE CounterTypeOK'
  <2>1. metric[t][1] \in Counters /\ peak[metric[t][1]] \in Nat /\ metric[t][3] \in Nat
    BY DEF CounterTypeOK, MetricPcs
  <2>2. <<metric[t][1], "exchange", metric[t][3], peak[metric[t][1]]>> \in MetricPcs
    BY <1>s, <2>1 DEF MetricPcs
  <2>3. metric' \in [MetricThreads -> MetricPcs]
    BY <1>3, <1>m, <1>i, <2>2 DEF loadPeak, exchangePeak, To, Done
  <2>4. peak' \in [Counters -> Nat]
    BY <1>3, <2>1 DEF loadPeak, exchangePeak, CounterTypeOK
  <2> QED BY <1>3, <2>3, <2>4 DEF loadPeak, exchangePeak, CounterTypeOK
<1>4. ASSUME NEW t \in MetricThreads, NEW k \in Counters, checkActive(t, k) PROVE CounterTypeOK'
  <2>1. <<k, "subtract", 0, 0>> \in MetricPcs
    BY <1>s DEF MetricPcs
  <2>2. metric' \in [MetricThreads -> MetricPcs]
    BY <1>4, <1>m, <1>i, <2>1 DEF checkActive, To, Done
  <2>3. opened[k] > 0 /\ opened' = [opened EXCEPT ![k] = @ - 1]
    BY <1>4 DEF checkActive
  <2>4. opened' \in [Counters -> Nat]
    BY <2>3, <1>k DEF CounterTypeOK
  <2> QED BY <1>4, <2>2, <2>4 DEF checkActive, CounterTypeOK
<1>5. ASSUME NEW t \in MetricThreads, subtract(t) PROVE CounterTypeOK'
  <2>1. metric' \in [MetricThreads -> MetricPcs]
    BY <1>5, <1>m, <1>i DEF subtract, Done
  <2>2. metric[t][1] \in Counters
    BY DEF CounterTypeOK, MetricPcs
  <2>3. active' \in [Counters -> Nat]
    BY <1>5, <1>k, <2>2 DEF subtract, CounterTypeOK
  <2> QED BY <1>5, <2>1, <2>3 DEF subtract, CounterTypeOK
<1>6. CASE resetMetrics
  BY <1>6 DEF resetMetrics, CounterTypeOK
<1>7. {"connections", "streams"} = Counters
  BY DEF Counters
<1> QED BY <1>1, <1>2, <1>3, <1>4, <1>5, <1>6, <1>7
        DEF CounterNext, incrementConnections, incrementStreams

(***************************************************************************)
(* What is known of one counter while nothing was reset.                   *)
(***************************************************************************)
LEMMA CounterFacts ==
  ASSUME CounterInv, ~resets, NEW k \in Counters
  PROVE  /\ active[k] \in Nat /\ peak[k] \in Nat /\ total[k] \in Nat
         /\ opened[k] \in Nat /\ reached[k] \in Nat
         /\ CountsAgree(k) /\ PeakFollows(k)
         /\ total[k] <= MaxEvents
         /\ (active[k] + 1) % Wrap = active[k] + 1 \/ active[k] >= MaxEvents
         /\ active[k] > 0 => (active[k] + Wrap - 1) % Wrap = active[k] - 1
<1>1. /\ active[k] \in Nat /\ peak[k] \in Nat /\ total[k] \in Nat
      /\ opened[k] \in Nat /\ reached[k] \in Nat
      /\ total["connections"] \in Nat /\ total["streams"] \in Nat
  BY DEF CounterInv, CounterTypeOK, Counters
<1>2. CountsAgree(k) /\ PeakFollows(k)
  BY DEF CounterInv
<1>3. total["connections"] + total["streams"] <= MaxEvents /\ MaxEvents \in Nat
  BY MetricsAssumption DEF CounterInv
<1>4. total[k] <= MaxEvents
  BY <1>1, <1>3 DEF Counters
<1>5. active[k] <= MaxEvents
  BY <1>1, <1>2, <1>3, <1>4 DEF CountsAgree
<1>6. Wrap \in Nat /\ MaxEvents < Wrap /\ active[k] \in 0 .. (Wrap - 1)
  BY <1>1, <1>3, <1>5, MetricsAssumption
<1>7. active[k] < MaxEvents => active[k] + 1 < Wrap
  BY <1>1, <1>3, <1>6
<1> QED BY <1>1, <1>2, <1>3, <1>4, <1>5, <1>6, <1>7, CounterArithmetic

(***************************************************************************)
(* Every step of a thread between its atomic operations keeps the counters. *)
(***************************************************************************)
LEMMA CounterStep ==
  ASSUME CounterInv, [CounterNext \/ SampleNext]_metricVars
  PROVE  CounterInv'
<1>0. CounterTypeOK
  BY DEF CounterInv
<1>u. CASE UNCHANGED <<active, peak, total, metric, opened, reached, resets>>
  <2>1. CounterTypeOK'
    BY <1>0, <1>u DEF CounterTypeOK
  <2>2. \A k \in Counters : (CountsAgree(k) => CountsAgree(k)') /\ (PeakFollows(k) => PeakFollows(k)')
    BY <1>u DEF CountsAgree, PeakFollows
  <2>3. \A t \in MetricThreads : PcSound(metric[t]) => PcSound(metric[t])'
    BY <1>u DEF PcSound
  <2> QED BY <1>u, <2>1, <2>2, <2>3 DEF CounterInv
<1>z. CASE resetMetrics
  <2>1. CounterTypeOK' /\ resets'
    BY <1>0, <1>z, CounterTypes DEF resetMetrics, CounterNext
  <2> QED BY <2>1 DEF CounterInv
<1>s. CASE SampleNext
  BY <1>s, <1>u, <1>z DEF SampleNext, Rest, recordError, createStreamMetrics, removeStreamMetrics,
     incrementStreamSubscribers, decrementStreamSubscribers, recordIngestionDelay, recordLatency
<1>c. CASE CounterNext
  <2>0. CounterTypeOK'
    BY <1>0, <1>c, CounterTypes
  <2>x. CASE resets'
    BY <2>0, <2>x DEF CounterInv
  <2>n. CASE ~resets'
    <3>0. ~resets
      BY <2>n, <1>c DEF CounterNext, incrementConnections, incrementStreams, increment, loadActive,
         loadPeak, exchangePeak, checkActive, subtract, resetMetrics
    <3>f. \A k \in Counters : CountsAgree(k) /\ PeakFollows(k)
      BY <3>0 DEF CounterInv
    <3>p. \A t \in MetricThreads : PcSound(metric[t])
      BY <3>0 DEF CounterInv
    <3>t. total["connections"] + total["streams"] <= MaxEvents
      BY <3>0 DEF CounterInv
    \* A step that leaves the counts alone.
    <3>q. ASSUME NEW t \in MetricThreads, NEW w \in MetricPcs,
                 metric' = [metric EXCEPT ![t] = w],
                 UNCHANGED <<active, peak, total, opened, reached, resets>>,
                 metric[t][2] # "subtract", w[2] # "subtract", PcSound(w),
                 \A k \in Counters : Raises(metric[t], k, active[k])
                                       => Raises(w, k, active[k]) \/ peak[k] >= active[k]
          PROVE  CounterInv'
      <4>1. metric'[t] = w /\ \A u \in MetricThreads \ {t} : metric'[u] = metric[u]
        BY <3>q, <1>0 DEF CounterTypeOK
      <4>2. \A k \in Counters : Subtracting(metric', k) = Subtracting(metric, k)
        BY <3>q, <1>0, SubtractingStep
      <4>3. \A k \in Counters : CountsAgree(k)'
        BY <4>2, <3>f, <3>q DEF CountsAgree
      <4>4. ASSUME NEW k \in Counters PROVE PeakFollows(k)'
        BY <4>1, <3>f, <3>q DEF PeakFollows
      <4>5. PcSound(metric[t])' /\ \A u \in MetricThreads \ {t} : PcSound(metric[u])'
        BY <4>1, <3>p, <3>q DEF PcSound
      <4> QED BY <4>3, <4>4, <4>5, <2>0, <3>t, <3>q DEF CounterInv
    <3>1. ASSUME NEW t \in MetricThreads, NEW k \in Counters, increment(t, k) PROVE CounterInv'
      <4> DEFINE w == <<k, "readActive", 0, 0>>
      <4>1. /\ w \in MetricPcs /\ w[1] = k /\ w[2] = "readActive"
            /\ metric' = [metric EXCEPT ![t] = w] /\ metric'[t] = w
            /\ \A u \in MetricThreads \ {t} : metric'[u] = metric[u]
        BY <1>0, <3>1, MetricCells DEF increment, To, MetricSteps
      <4> HIDE DEF w
      <4>2. metric[t][2] = "idle"
        BY <3>1 DEF increment, Stage
      <4>3. \A j \in Counters : Subtracting(metric', j) = Subtracting(metric, j)
        BY ZenonT(40), <4>1, <4>2, <1>0, SubtractingStep
      <4>4. /\ \A j \in Counters : active[j] \in Nat /\ total[j] \in Nat /\ opened[j] \in Nat /\ reached[j] \in Nat
            /\ active[k] <= total[k] /\ MaxEvents \in Nat
        BY <1>0, <3>f, MetricsAssumption DEF CounterTypeOK, CountsAgree
      <4>5. total["connections"] + total["streams"] < MaxEvents
        BY <3>1 DEF increment
      <4>6. active[k] < MaxEvents
        BY <4>4, <4>5 DEF Counters
      <4>7. (active[k] + 1) % Wrap = active[k] + 1
        <5>1. ~(active[k] >= MaxEvents)
          BY <4>4, <4>6
        <5> QED BY <5>1, <3>0, CounterFacts
      <4>8. /\ active' = [active EXCEPT ![k] = active[k] + 1]
            /\ total' = [total EXCEPT ![k] = total[k] + 1]
            /\ opened' = [opened EXCEPT ![k] = opened[k] + 1]
            /\ reached' = [reached EXCEPT ![k] = Max({reached[k], active[k] + 1})]
            /\ peak' = peak
        <5>1. active' = [active EXCEPT ![k] = active[k] + 1]
          BY <3>1, <4>7 DEF increment
        <5>2. active'[k] = active[k] + 1
          BY <5>1, <1>0 DEF CounterTypeOK
        <5> QED BY <5>1, <5>2, <3>1 DEF increment
      <4>9. PICK r \in Nat : /\ reached' = [reached EXCEPT ![k] = r]
                             /\ r >= reached[k] /\ r >= active[k] + 1
        <5>1. active[k] + 1 \in Nat /\ reached[k] \in Nat
          BY <4>4
        <5>2. Max({reached[k], active[k] + 1})
                = IF reached[k] >= active[k] + 1 THEN reached[k] ELSE active[k] + 1
          BY <5>1, MaxOfTwo
        <5>3. PICK r \in Nat : r = Max({reached[k], active[k] + 1}) /\ r >= reached[k] /\ r >= active[k] + 1
          BY <5>1, <5>2
        <5> QED BY <5>3, <4>8
      <4>10. /\ active'[k] = active[k] + 1 /\ total'[k] = total[k] + 1
             /\ opened'[k] = opened[k] + 1 /\ reached'[k] = r
             /\ \A j \in Counters \ {k} :
                  /\ active'[j] = active[j] /\ total'[j] = total[j]
                  /\ opened'[j] = opened[j] /\ reached'[j] = reached[j]
        BY <4>8, <4>9, <1>0 DEF CounterTypeOK
      <4>11. total'["connections"] + total'["streams"] <= MaxEvents
        BY <4>4, <4>5, <4>10 DEF Counters
      <4>12. CountsAgree(k)'
        <5>1. PICK c \in Nat : c = Cardinality(Subtracting(metric, k))
          BY <4>1, <1>0, SubtractingStep
        <5>2. active[k] + 1 = (opened[k] + 1) + c
          BY <5>1, <3>f, <4>4 DEF CountsAgree
        <5>3. peak[k] <= r
          BY <3>f, <4>9, <4>4, <1>0 DEF CountsAgree, CounterTypeOK
        <5> QED BY <5>1, <5>2, <5>3, <4>3, <4>4, <4>8, <4>9, <4>10 DEF CountsAgree
      <4>13. ASSUME NEW j \in Counters \ {k} PROVE CountsAgree(j)'
        BY <4>3, <4>8, <4>10, <3>f DEF CountsAgree
      <4>14. PeakFollows(k)'
        BY <4>1 DEF PeakFollows, Raises
      <4>15. ASSUME NEW j \in Counters \ {k} PROVE PeakFollows(j)'
        <5>1. ~Raises(metric[t], j, active[j])
          BY <4>2 DEF Raises
        <5> QED BY <5>1, <4>1, <4>8, <4>10, <3>f DEF PeakFollows
      <4>16. ASSUME NEW u \in MetricThreads PROVE PcSound(metric[u])'
        <5>1. CASE u = t
          BY <5>1, <4>1 DEF PcSound
        <5>2. CASE u # t
          <6>1. metric'[u] = metric[u] /\ metric[u][1] \in Counters /\ metric[u][3] \in Nat
            BY <5>2, <4>1, <1>0 DEF CounterTypeOK, MetricPcs
          <6>2. reached[metric[u][1]] <= reached'[metric[u][1]] /\ reached'[metric[u][1]] \in Nat
            BY <6>1, <4>4, <4>9, <4>10
          <6> QED BY <6>1, <6>2, <4>4, <3>p DEF PcSound
        <5> QED BY <5>1, <5>2
      <4> QED BY <2>0, <4>11, <4>12, <4>13, <4>14, <4>15, <4>16 DEF CounterInv
    <3>2. ASSUME NEW t \in MetricThreads, loadActive(t) PROVE CounterInv'
      <4>0. PICK k \in Counters : k = metric[t][1] /\ active[k] \in Nat
        BY <1>0 DEF CounterTypeOK, MetricPcs
      <4> DEFINE w == <<k, "readPeak", active[k], 0>>
      <4>1. /\ w \in MetricPcs /\ w[1] = k /\ w[2] = "readPeak" /\ w[3] = active[k]
            /\ metric' = [metric EXCEPT ![t] = w]
        BY <1>0, <3>2, <4>0, MetricCells DEF loadActive, To, MetricSteps
      <4> HIDE DEF w
      <4>2. metric[t][2] = "readActive"
        BY <3>2 DEF loadActive, Stage
      <4>3. PcSound(w)
        BY <4>0, <4>1, <3>f DEF PcSound, CountsAgree
      <4>4. ASSUME NEW j \in Counters, Raises(metric[t], j, active[j]) PROVE Raises(w, j, active[j])
        BY <4>0, <4>1, <4>4 DEF Raises
      <4> QED BY <3>2, <3>q, <4>1, <4>2, <4>3, <4>4 DEF loadActive
    <3>3. ASSUME NEW t \in MetricThreads, loadPeak(t) PROVE CounterInv'
      <4>0. PICK k \in Counters : k = metric[t][1] /\ peak[k] \in Nat /\ active[k] \in Nat
        BY <1>0 DEF CounterTypeOK, MetricPcs
      <4>i. metric[t][3] \in Nat
        BY <1>0, <4>0, MetricCells DEF CounterTypeOK, MetricPcs
      <4>2. metric[t][2] = "readPeak"
        BY <3>3 DEF loadPeak, Stage
      <4>3. CASE metric[t][3] > peak[k]
        <5> DEFINE w == <<k, "exchange", metric[t][3], peak[k]>>
        <5>1. /\ w \in MetricPcs /\ w[1] = k /\ w[2] = "exchange" /\ w[3] = metric[t][3] /\ w[4] = peak[k]
              /\ metric' = [metric EXCEPT ![t] = w]
          BY <1>0, <3>3, <4>0, <4>i, <4>3, MetricCells DEF loadPeak, To, MetricSteps
        <5> HIDE DEF w
        <5>2. PcSound(w)
          BY <4>0, <4>2, <4>3, <5>1, <3>p DEF PcSound
        <5>3. ASSUME NEW j \in Counters, Raises(metric[t], j, active[j]) PROVE Raises(w, j, active[j])
          BY <4>0, <4>2, <5>1, <5>3 DEF Raises
        <5> QED BY <3>3, <3>q, <4>2, <5>1, <5>2, <5>3 DEF loadPeak
      <4>4. CASE ~(metric[t][3] > peak[k])
        <5>1. /\ Idle \in MetricPcs /\ Idle[2] = "idle" /\ metric' = [metric EXCEPT ![t] = Idle]
          BY <3>3, <4>0, <4>4 DEF loadPeak, Done, Idle, MetricPcs, Counters, MetricSteps
        <5>2. PcSound(Idle)
          BY <5>1 DEF PcSound
        <5>3. ASSUME NEW j \in Counters, Raises(metric[t], j, active[j]) PROVE peak[j] >= active[j]
          <6>1. j = k /\ metric[t][3] >= active[j]
            BY <4>0, <4>2, <5>3 DEF Raises
          <6> QED BY <6>1, <4>0, <4>i, <4>4
        <5> QED BY <3>3, <3>q, <4>2, <5>1, <5>2, <5>3 DEF loadPeak
      <4> QED BY <4>3, <4>4
    <3>4. ASSUME NEW t \in MetricThreads, exchangePeak(t) PROVE CounterInv'
      <4>0. PICK k \in Counters : /\ k = metric[t][1] /\ peak[k] \in Nat /\ active[k] \in Nat
                                  /\ reached[k] \in Nat
        BY <1>0 DEF CounterTypeOK, MetricPcs
      <4>i. metric[t][3] \in Nat /\ metric[t][4] \in Nat
        BY <1>0, <4>0, MetricCells DEF CounterTypeOK, MetricPcs
      <4>2. metric[t][2] = "exchange"
        BY <3>4 DEF exchangePeak, Stage
      <4>c. metric[t][3] <= reached[k] /\ metric[t][3] > metric[t][4]
        BY <4>0, <4>2, <3>p DEF PcSound
      <4>d. /\ Idle \in MetricPcs /\ Idle[2] = "idle" /\ PcSound(Idle)
        BY DEF Idle, MetricPcs, Counters, MetricSteps, PcSound
      <4>3. CASE peak[k] # metric[t][4] /\ ~(metric[t][3] <= peak[k])
        <5> DEFINE w == <<k, "exchange", metric[t][3], peak[k]>>
        <5>1. /\ w \in MetricPcs /\ w[1] = k /\ w[2] = "exchange" /\ w[3] = metric[t][3] /\ w[4] = peak[k]
              /\ metric' = [metric EXCEPT ![t] = w] /\ peak' = peak
          BY <1>0, <3>4, <4>0, <4>i, <4>3, MetricCells DEF exchangePeak, To, MetricSteps
        <5> HIDE DEF w
        <5>2. PcSound(w)
          BY <4>0, <4>i, <4>2, <4>3, <4>c, <5>1 DEF PcSound
        <5>3. ASSUME NEW j \in Counters, Raises(metric[t], j, active[j]) PROVE Raises(w, j, active[j])
          BY <4>0, <4>2, <5>1, <5>3 DEF Raises
        <5>4. metric[t][2] # "subtract" /\ w[2] # "subtract"
          BY <4>2, <5>1
        <5> QED BY <3>4, <3>q, <5>1, <5>2, <5>3, <5>4 DEF exchangePeak
      <4>4. CASE peak[k] # metric[t][4] /\ metric[t][3] <= peak[k]
        <5>1. metric' = [metric EXCEPT ![t] = Idle] /\ peak' = peak
          BY <3>4, <4>0, <4>4 DEF exchangePeak, Done
        <5>3. ASSUME NEW j \in Counters, Raises(metric[t], j, active[j]) PROVE peak[j] >= active[j]
          <6>1. j = k /\ metric[t][3] >= active[j]
            BY <4>0, <4>2, <5>3 DEF Raises
          <6> QED BY <6>1, <4>0, <4>i, <4>4
        <5>4. metric[t][2] # "subtract" /\ Idle[2] # "subtract"
          BY <4>2, <4>d
        <5> QED BY <3>4, <3>q, <4>d, <5>1, <5>3, <5>4 DEF exchangePeak
      <4>5. CASE peak[k] = metric[t][4]
        <5>1. /\ metric' = [metric EXCEPT ![t] = Idle] /\ peak' = [peak EXCEPT ![k] = metric[t][3]]
              /\ UNCHANGED <<active, total, opened, reached, resets>>
          BY <3>4, <4>0, <4>5 DEF exchangePeak, Done
        <5>2. /\ peak'[k] = metric[t][3] /\ peak'[k] > peak[k]
              /\ \A j \in Counters \ {k} : peak'[j] = peak[j]
          BY <5>1, <4>c, <4>5, <1>0 DEF CounterTypeOK
        <5>3. metric'[t] = Idle /\ \A u \in MetricThreads \ {t} : metric'[u] = metric[u]
          BY <5>1, <1>0 DEF CounterTypeOK
        <5>4. metric[t][2] # "subtract" /\ Idle[2] # "subtract"
          BY <4>2, <4>d
        <5>5. \A j \in Counters : Subtracting(metric', j) = Subtracting(metric, j)
          BY <5>1, <5>4, <4>d, <1>0, SubtractingStep
        <5>6. ASSUME NEW j \in Counters PROVE CountsAgree(j)'
          BY <5>1, <5>2, <5>5, <4>c, <3>f DEF CountsAgree
        <5>7. ASSUME NEW j \in Counters PROVE PeakFollows(j)'
          <6>1. CASE Raises(metric[t], j, active[j])
            <7>1. j = k /\ metric[t][3] >= active[j]
              BY <4>0, <4>2, <6>1 DEF Raises
            <7> QED BY <7>1, <5>1, <5>2 DEF PeakFollows
          <6>2. CASE peak[j] >= active[j]
            <7>1. peak[j] \in Nat /\ active[j] \in Nat /\ peak'[j] \in Nat
              BY <1>0, <2>0 DEF CounterTypeOK
            <7>2. peak'[j] >= peak[j]
              BY <5>2, <7>1
            <7> QED BY <6>2, <7>1, <7>2, <5>1 DEF PeakFollows
          <6>3. CASE \E u \in MetricThreads \ {t} : Raises(metric[u], j, active[j])
            BY <6>3, <5>1, <5>3 DEF PeakFollows
          <6> QED BY <6>1, <6>2, <6>3, <3>f DEF PeakFollows
        <5>8. PcSound(metric[t])' /\ \A u \in MetricThreads \ {t} : PcSound(metric[u])'
          BY <5>1, <5>3, <4>d, <3>p DEF PcSound
        <5> QED BY <5>1, <5>6, <5>7, <5>8, <2>0, <3>t DEF CounterInv
      <4> QED BY <4>3, <4>4, <4>5
    <3>5. ASSUME NEW t \in MetricThreads, NEW k \in Counters, checkActive(t, k) PROVE CounterInv'
      <4> DEFINE w == <<k, "subtract", 0, 0>>
      <4>1. metric[t][2] = "idle" /\ opened[k] > 0
        BY <3>5 DEF checkActive, Stage
      <4>2. PICK c \in Nat : c = Cardinality(Subtracting(metric, k))
        BY SubtractingNat
      <4>3. active[k] \in Nat /\ opened[k] \in Nat /\ active[k] = opened[k] + c
        BY <1>0, <3>f, <4>2 DEF CounterTypeOK, CountsAgree
      <4>4. active[k] > 0
        BY <4>1, <4>3
      <4>5. /\ w \in MetricPcs /\ w[1] = k /\ w[2] = "subtract"
            /\ metric' = [metric EXCEPT ![t] = w] /\ metric'[t] = w
            /\ \A u \in MetricThreads \ {t} : metric'[u] = metric[u]
        BY <1>0, <3>5, <4>4, MetricCells DEF checkActive, To, MetricSteps
      <4> HIDE DEF w
      <4>6. /\ opened' = [opened EXCEPT ![k] = opened[k] - 1]
            /\ UNCHANGED <<active, peak, total, reached, resets>>
        BY <3>5 DEF checkActive
      <4>7. opened'[k] = opened[k] - 1 /\ \A j \in Counters \ {k} : opened'[j] = opened[j]
        BY <4>6, <1>0 DEF CounterTypeOK
      <4>8. Cardinality(Subtracting(metric', k)) = c + 1
        BY <4>1, <4>2, <4>5, <1>0, SubtractingStep
      <4>9. ASSUME NEW j \in Counters \ {k}
            PROVE  Cardinality(Subtracting(metric', j)) = Cardinality(Subtracting(metric, j))
        <5>1. Cardinality(Subtracting(metric, j)) \in Nat /\ w[1] # j
          BY <4>1, <4>5, <1>0, SubtractingStep
        <5>2. Cardinality(Subtracting(metric', j))
                = Cardinality(Subtracting(metric, j)) + (IF w[1] = j THEN 1 ELSE 0)
          BY <4>1, <4>5, <1>0, SubtractingStep
        <5> QED BY <5>1, <5>2
      <4>10. CountsAgree(k)'
        <5>1. active[k] = (opened[k] - 1) + (c + 1)
          BY <4>3
        <5> QED BY <5>1, <4>6, <4>7, <4>8, <3>f DEF CountsAgree
      <4>11. ASSUME NEW j \in Counters \ {k} PROVE CountsAgree(j)'
        BY <4>6, <4>7, <4>9, <3>f DEF CountsAgree
      <4>12. ASSUME NEW j \in Counters PROVE PeakFollows(j)'
        <5>1. ~Raises(metric[t], j, active[j])
          BY <4>1 DEF Raises
        <5> QED BY <5>1, <4>5, <4>6, <3>f DEF PeakFollows
      <4>13. PcSound(metric[t])' /\ \A u \in MetricThreads \ {t} : PcSound(metric[u])'
        BY <4>5, <4>6, <3>p DEF PcSound
      <4> QED BY <4>6, <4>10, <4>11, <4>12, <4>13, <2>0, <3>t DEF CounterInv
    <3>6. ASSUME NEW t \in MetricThreads, subtract(t) PROVE CounterInv'
      <4>0. PICK k \in Counters : k = metric[t][1] /\ metric[t][2] = "subtract"
        BY <3>6, <1>0 DEF subtract, Stage, CounterTypeOK, MetricPcs
      <4>1. Idle \in MetricPcs /\ Idle[2] = "idle" /\ PcSound(Idle)
        BY DEF Idle, MetricPcs, Counters, MetricSteps, PcSound
      <4>2. /\ metric' = [metric EXCEPT ![t] = Idle] /\ metric'[t] = Idle
            /\ \A u \in MetricThreads \ {t} : metric'[u] = metric[u]
        BY <3>6, <1>0 DEF subtract, Done, CounterTypeOK
      <4>3. PICK c \in Nat : c = Cardinality(Subtracting(metric, k))
        BY SubtractingNat
      <4>4. Cardinality(Subtracting(metric', k)) = c - 1
        BY <4>0, <4>1, <4>2, <4>3, <1>0, SubtractingStep
      <4>5. ASSUME NEW j \in Counters \ {k}
            PROVE  Cardinality(Subtracting(metric', j)) = Cardinality(Subtracting(metric, j))
        <5>1. Cardinality(Subtracting(metric, j)) \in Nat /\ metric[t][1] # j
          BY <4>0, SubtractingNat
        <5>2. /\ Idle \in MetricPcs /\ metric' = [metric EXCEPT ![t] = Idle] /\ j \in Counters
              /\ metric[t][2] = "subtract" /\ Idle[2] # "subtract"
          BY <4>0, <4>1, <4>2
        <5>3. Cardinality(Subtracting(metric', j))
                = Cardinality(Subtracting(metric, j)) - (IF metric[t][1] = j THEN 1 ELSE 0)
          BY <5>2, <1>0, SubtractingStep
        <5> QED BY <5>1, <5>3
      <4>6. c > 0
        <5>1. Cardinality(Subtracting(metric', k)) \in Nat
          BY SubtractingNat
        <5> QED BY <5>1, <4>3, <4>4
      <4>7. /\ active[k] \in Nat /\ opened[k] \in Nat /\ active[k] = opened[k] + c /\ active[k] > 0
            /\ total[k] \in Nat /\ reached[k] \in Nat /\ peak[k] \in Nat
        BY <1>0, <3>f, <4>3, <4>6 DEF CounterTypeOK, CountsAgree
      <4>8. /\ active' = [active EXCEPT ![k] = active[k] - 1]
            /\ UNCHANGED <<peak, total, opened, reached, resets>>
        BY <3>6, <3>0, <4>0, <4>7, CounterFacts DEF subtract
      <4>9. active'[k] = active[k] - 1 /\ \A j \in Counters \ {k} : active'[j] = active[j]
        BY <4>8, <1>0 DEF CounterTypeOK
      <4>10. CountsAgree(k)'
        <5>1. active[k] - 1 = opened[k] + (c - 1)
          BY <4>3, <4>7
        <5>2. active[k] - 1 <= total[k] /\ active[k] - 1 <= reached[k]
          BY <4>7, <3>f DEF CountsAgree
        <5> QED BY <5>1, <5>2, <4>4, <4>8, <4>9, <3>f DEF CountsAgree
      <4>11. ASSUME NEW j \in Counters \ {k} PROVE CountsAgree(j)'
        BY <4>5, <4>8, <4>9, <3>f DEF CountsAgree
      <4>12. ASSUME NEW j \in Counters PROVE PeakFollows(j)'
        <5>1. active[j] \in Nat /\ active'[j] \in Nat /\ peak[j] \in Nat /\ active'[j] <= active[j]
          BY <1>0, <2>0, <4>9 DEF CounterTypeOK
        <5>2. CASE peak[j] >= active[j]
          BY <5>1, <5>2, <4>8 DEF PeakFollows
        <5>3. ASSUME NEW u \in MetricThreads, Raises(metric[u], j, active[j]) PROVE PeakFollows(j)'
          <6>1. u # t /\ metric[u][3] \in Nat
            BY <4>0, <5>3, <1>0 DEF Raises, CounterTypeOK, MetricPcs
          <6>2. Raises(metric'[u], j, active'[j])
            BY <6>1, <5>1, <5>3, <4>2 DEF Raises
          <6> QED BY <6>2 DEF PeakFollows
        <5> QED BY <5>2, <5>3, <3>f DEF PeakFollows
      <4>13. PcSound(metric[t])' /\ \A u \in MetricThreads \ {t} : PcSound(metric[u])'
        BY <4>1, <4>2, <4>8, <3>p DEF PcSound
      <4> QED BY <4>8, <4>10, <4>11, <4>12, <4>13, <2>0, <3>t DEF CounterInv
    <3>7. {"connections", "streams"} = Counters
      BY DEF Counters
    <3> QED BY <3>1, <3>2, <3>3, <3>4, <3>5, <3>6, <3>7, <1>c, <1>z
            DEF CounterNext, incrementConnections, incrementStreams
  <2> QED BY <2>x, <2>n
<1> QED BY <1>u, <1>s, <1>c DEF metricVars

(***************************************************************************)
(* The counters start at zero.                                             *)
(***************************************************************************)
LEMMA CounterStarts ==
  ASSUME MetricInit
  PROVE  CounterInv
<1>1. CounterTypeOK
  BY DEF MetricInit, CounterTypeOK, MetricPcs, MetricSteps, Idle, Counters
<1>2. \A k \in Counters : Subtracting(metric, k) = {}
  BY DEF MetricInit, Subtracting, Idle
<1>3. Cardinality({}) = 0
  BY FS_EmptySet
<1>4. \A k \in Counters : CountsAgree(k) /\ PeakFollows(k)
  <2> TAKE k \in Counters
  <2>1. /\ active[k] = 0 /\ opened[k] = 0 /\ total[k] = 0 /\ reached[k] = 0 /\ peak[k] = 0
    BY DEF MetricInit
  <2>2. Cardinality(Subtracting(metric, k)) = 0
    BY <1>2, <1>3
  <2> QED BY <2>1, <2>2 DEF CountsAgree, PeakFollows
<1>5. \A t \in MetricThreads : PcSound(metric[t])
  BY DEF MetricInit, PcSound, Idle
<1>6. total["connections"] + total["streams"] <= MaxEvents
  BY MetricsAssumption DEF MetricInit, Counters
<1> QED BY <1>1, <1>4, <1>5, <1>6 DEF CounterInv

(***************************************************************************)
(* The invariant is what CountersAgree says when nobody is in between.     *)
(***************************************************************************)
LEMMA CounterSound ==
  ASSUME CounterInv
  PROVE  CountersAgree
<1>1. ASSUME ~resets, NEW k \in Counters
      PROVE  /\ active[k] = opened[k] + Cardinality({t \in MetricThreads : metric[t][1] = k /\ Stage(t, "subtract")})
             /\ peak[k] <= reached[k]
             /\ (\A t \in MetricThreads : metric[t][1] = k => metric[t][2] \in {"idle", "subtract"})
                  => peak[k] >= active[k]
  <2>1. CountsAgree(k) /\ PeakFollows(k)
    BY <1>1 DEF CounterInv
  <2> QED BY <2>1 DEF CountsAgree, PeakFollows, Subtracting, Stage, Raises
<1> QED BY <1>1 DEF CountersAgree
-----------------------------------------------------------------------------
(* ConfigManager                                                            *)

ConfigKeys == {"port", "maxConnections", "level", "tls", "cert", "gop"}
HotKeys == {"level", "gop"}

IsSequence(s) == \E S : s \in Seq(S)

\* An update changes no parameter to a value that validate refuses.
PcValid(p) ==
  /\ p.left \in Seq(HotKeys) /\ (p.step = "emit" => p.left # <<>>)
  /\ p.step # "idle" => \A v \in p.update["gop"] : v >= 0

UpdatingOK ==
  /\ DOMAIN updating = Updaters
  /\ \A t \in Updaters : PcValid(updating[t])

\* The threads that made the change x and have not told it; those with a change.
Telling(m, x) == {t \in Updaters : m[t].step = "emit" /\ m[t].change = x}
Tellers(m) == {t \in Updaters : m[t].step = "emit"}

\* What was written is what was told and what is being told.
ToldOrTelling ==
  /\ IsSequence(writes) /\ IsSequence(events)
  /\ \A x : Times(x, writes) = Times(x, events) + Cardinality(Telling(updating, x))
  /\ Len(writes) = Len(events) + Cardinality(Tellers(updating))

\* Updates that do not overlap tell their change before they make another.
ToldInOrder ==
  ~overlapped =>
    /\ \A t, u \in Updaters : t # u => "idle" \in {updating[t].step, updating[u].step}
    /\ Tellers(updating) = {} => writes = events
    /\ \A t \in Tellers(updating) : writes = Append(events, updating[t].change)

ConfigInv ==
  /\ DOMAIN config = ConfigKeys /\ overlapped \in BOOLEAN
  /\ ~unchecked => validate(config)
  /\ UpdatingOK /\ ToldOrTelling /\ ToldInOrder

(***************************************************************************)
(* Appending to a sequence, whatever it holds.                             *)
(***************************************************************************)
LEMMA AppendIs ==
  ASSUME NEW s, IsSequence(s), NEW x
  PROVE  /\ IsSequence(Append(s, x)) /\ Len(s) \in Nat /\ Len(Append(s, x)) = Len(s) + 1
         /\ DOMAIN s = 1 .. Len(s)
         /\ \A i \in 1 .. Len(s) : Append(s, x)[i] = s[i]
         /\ Append(s, x)[Len(s) + 1] = x
<1>1. PICK S : s \in Seq(S)
  BY DEF IsSequence
<1>2. PICK R : R = S \cup {x}
  OBVIOUS
<1>3. s \in Seq(R) /\ x \in R
  <2>1. Len(s) \in Nat /\ s \in [1 .. Len(s) -> S]
    BY <1>1
  <2>2. s \in [1 .. Len(s) -> R]
    BY <1>2, <2>1
  <2> QED BY <1>2, <2>1, <2>2
<1>4. Append(s, x) \in Seq(R) /\ Len(Append(s, x)) = Len(s) + 1 /\ Len(s) \in Nat
      /\ DOMAIN s = 1 .. Len(s)
      /\ \A i \in 1 .. Len(s) : Append(s, x)[i] = s[i]
      /\ Append(s, x)[Len(s) + 1] = x
  BY <1>3
<1> QED BY <1>4 DEF IsSequence

(***************************************************************************)
(* How often x was appended.                                               *)
(***************************************************************************)
LEMMA TimesIs ==
  ASSUME NEW s, IsSequence(s), NEW x, NEW y
  PROVE  /\ Times(y, s) \in Nat
         /\ Times(y, Append(s, x)) = IF x = y THEN Times(y, s) + 1 ELSE Times(y, s)
<1> DEFINE I == {i \in DOMAIN s : s[i] = y}
           J == {i \in DOMAIN Append(s, x) : Append(s, x)[i] = y}
           n == Len(s)
<1>1. /\ n \in Nat /\ DOMAIN s = 1 .. n /\ DOMAIN Append(s, x) = 1 .. (n + 1)
      /\ \A i \in 1 .. n : Append(s, x)[i] = s[i]
      /\ Append(s, x)[n + 1] = x
  BY AppendIs
<1>2. IsFiniteSet(I) /\ Cardinality(I) \in Nat
  <2>1. IsFiniteSet(1 .. n)
    BY <1>1, CountUpTo
  <2>2. I \in SUBSET (1 .. n)
    BY <1>1
  <2>3. IsFiniteSet(I)
    BY <2>1, <2>2, FS_Subset
  <2> QED BY <2>3, FS_CardinalityType
<1>3. CASE x = y
  <2>1. J = I \cup {n + 1} /\ n + 1 \notin I
    BY <1>1, <1>3
  <2> HIDE DEF I, J
  <2>2. Cardinality(J) = Cardinality(I) + 1
    BY <1>2, <2>1, FS_AddElement
  <2> QED BY <1>2, <1>3, <2>2 DEF Times, I, J
<1>4. CASE x # y
  <2>1. J = I
    BY <1>1, <1>4
  <2> QED BY <1>2, <1>4, <2>1 DEF Times
<1> QED BY <1>3, <1>4
(***************************************************************************)
(* An update that begins, or goes on without a change to tell.             *)
(***************************************************************************)
LEMMA UpdateMoves ==
  ASSUME UpdatingOK, ToldOrTelling, NEW t \in Updaters, NEW p,
         updating' = [updating EXCEPT ![t] = p], PcValid(p),
         updating[t].step # "emit", p.step # "emit", UNCHANGED <<writes, events>>
  PROVE  /\ UpdatingOK' /\ ToldOrTelling'
         /\ Tellers(updating') = Tellers(updating)
         /\ \A u \in Tellers(updating) : updating'[u] = updating[u]
<1>1. /\ DOMAIN updating' = Updaters /\ updating'[t] = p
      /\ \A u \in Updaters \ {t} : updating'[u] = updating[u]
  BY DEF UpdatingOK
<1>2. UpdatingOK'
  <2>1. ASSUME NEW u \in Updaters PROVE PcValid(updating'[u])
    BY <1>1 DEF UpdatingOK
  <2> QED BY <1>1, <2>1 DEF UpdatingOK, PcValid
<1>3. Tellers(updating') = Tellers(updating)
  BY <1>1 DEF Tellers
<1>4. ASSUME NEW x PROVE Telling(updating', x) = Telling(updating, x)
  BY <1>1 DEF Telling
<1>5. ToldOrTelling'
  <2>1. IsSequence(writes') /\ IsSequence(events') /\ writes' = writes /\ events' = events
    BY DEF ToldOrTelling
  <2>2. ASSUME NEW x PROVE Times(x, writes') = Times(x, events') + Cardinality(Telling(updating', x))
    BY <1>4, <2>1 DEF ToldOrTelling
  <2>3. Len(writes') = Len(events') + Cardinality(Tellers(updating'))
    BY <1>3, <2>1 DEF ToldOrTelling
  <2> QED BY <2>1, <2>2, <2>3 DEF ToldOrTelling
<1>6. \A u \in Tellers(updating) : updating'[u] = updating[u]
  BY <1>1 DEF Tellers
<1> QED BY <1>2, <1>3, <1>5, <1>6

(***************************************************************************)
(* The threads that have a change to tell are finitely many.               *)
(***************************************************************************)
LEMMA TellersFinite ==
  ASSUME NEW m, NEW x
  PROVE  /\ IsFiniteSet(Tellers(m)) /\ Cardinality(Tellers(m)) \in Nat
         /\ IsFiniteSet(Telling(m, x)) /\ Cardinality(Telling(m, x)) \in Nat
<1>1. Tellers(m) \in SUBSET Updaters /\ Telling(m, x) \in SUBSET Updaters
  BY DEF Tellers, Telling
<1>2. IsFiniteSet(Tellers(m)) /\ IsFiniteSet(Telling(m, x))
  BY <1>1, ConfigAssumption, FS_Subset
<1> QED BY <1>2, FS_CardinalityType

(***************************************************************************)
(* A write joins those that are to be told; telling it takes it from them. *)
(***************************************************************************)
LEMMA WriteJoins ==
  ASSUME UpdatingOK, ToldOrTelling, NEW t \in Updaters, NEW p,
         updating' = [updating EXCEPT ![t] = p], PcValid(p),
         updating[t].step # "emit", p.step = "emit",
         writes' = Append(writes, p.change), events' = events
  PROVE  /\ UpdatingOK' /\ ToldOrTelling'
         /\ Tellers(updating') = Tellers(updating) \cup {t} /\ updating'[t] = p
<1>1. /\ DOMAIN updating' = Updaters /\ updating'[t] = p
      /\ \A u \in Updaters \ {t} : updating'[u] = updating[u]
  BY DEF UpdatingOK
<1>2. UpdatingOK'
  <2>1. ASSUME NEW u \in Updaters PROVE PcValid(updating'[u])
    BY <1>1 DEF UpdatingOK
  <2> QED BY <1>1, <2>1 DEF UpdatingOK, PcValid
<1>3. Tellers(updating') = Tellers(updating) \cup {t} /\ t \notin Tellers(updating)
  BY <1>1 DEF Tellers
<1>4. Cardinality(Tellers(updating')) = Cardinality(Tellers(updating)) + 1
  BY <1>3, TellersFinite, FS_AddElement
<1>5. IsSequence(writes) /\ IsSequence(events)
  BY DEF ToldOrTelling
<1>6. ASSUME NEW x PROVE Times(x, writes') = Times(x, events') + Cardinality(Telling(updating', x))
  <2>1. Times(x, writes) = Times(x, events) + Cardinality(Telling(updating, x))
    BY DEF ToldOrTelling
  <2>2. Times(x, events) \in Nat /\ Cardinality(Telling(updating, x)) \in Nat
    BY <1>5, TimesIs, TellersFinite
  <2>3. CASE x = p.change
    <3>1. Telling(updating', x) = Telling(updating, x) \cup {t} /\ t \notin Telling(updating, x)
      BY <1>1, <2>3 DEF Telling
    <3>2. Cardinality(Telling(updating', x)) = Cardinality(Telling(updating, x)) + 1
      BY <3>1, TellersFinite, FS_AddElement
    <3>3. Times(x, writes') = Times(x, writes) + 1
      BY <1>5, <2>3, TimesIs
    <3> QED BY <2>1, <2>2, <3>2, <3>3
  <2>4. CASE x # p.change
    <3>1. Telling(updating', x) = Telling(updating, x)
      BY <1>1, <2>4 DEF Telling
    <3>2. Times(x, writes') = Times(x, writes)
      BY <1>5, <2>4, TimesIs
    <3> QED BY <2>1, <3>1, <3>2
  <2> QED BY <2>3, <2>4
<1>7. ToldOrTelling'
  <2>1. IsSequence(writes') /\ Len(writes') = Len(writes) + 1 /\ Len(events) \in Nat
    BY <1>5, AppendIs
  <2>2. Len(writes) = Len(events) + Cardinality(Tellers(updating)) /\ Cardinality(Tellers(updating)) \in Nat
    BY TellersFinite DEF ToldOrTelling
  <2>3. Len(writes') = Len(events) + Cardinality(Tellers(updating'))
    BY <1>4, <2>1, <2>2
  <2> QED BY <1>5, <1>6, <2>1, <2>3 DEF ToldOrTelling
<1> QED BY <1>1, <1>2, <1>3, <1>7

(***************************************************************************)
(* A change that was told is told once more and no longer being told.      *)
(***************************************************************************)
LEMMA TellingLeaves ==
  ASSUME UpdatingOK, ToldOrTelling, NEW t \in Updaters, NEW p,
         updating' = [updating EXCEPT ![t] = p], PcValid(p),
         updating[t].step = "emit", p.step # "emit",
         events' = Append(events, updating[t].change), writes' = writes
  PROVE  /\ UpdatingOK' /\ ToldOrTelling'
         /\ Tellers(updating') = Tellers(updating) \ {t}
<1>1. /\ DOMAIN updating' = Updaters /\ updating'[t] = p
      /\ \A u \in Updaters \ {t} : updating'[u] = updating[u]
  BY DEF UpdatingOK
<1>2. UpdatingOK'
  <2>1. ASSUME NEW u \in Updaters PROVE PcValid(updating'[u])
    BY <1>1 DEF UpdatingOK
  <2> QED BY <1>1, <2>1 DEF UpdatingOK, PcValid
<1>3. Tellers(updating') = Tellers(updating) \ {t} /\ t \in Tellers(updating)
  BY <1>1 DEF Tellers
<1>4. Cardinality(Tellers(updating')) = Cardinality(Tellers(updating)) - 1
  BY <1>3, TellersFinite, FS_RemoveElement
<1>5. IsSequence(writes) /\ IsSequence(events)
  BY DEF ToldOrTelling
<1>6. ASSUME NEW x PROVE Times(x, writes') = Times(x, events') + Cardinality(Telling(updating', x))
  <2>1. Times(x, writes) = Times(x, events) + Cardinality(Telling(updating, x))
    BY DEF ToldOrTelling
  <2>2. Times(x, events) \in Nat /\ Cardinality(Telling(updating, x)) \in Nat
    BY <1>5, TimesIs, TellersFinite
  <2>3. CASE x = updating[t].change
    <3>1. Telling(updating', x) = Telling(updating, x) \ {t} /\ t \in Telling(updating, x)
      BY <1>1, <2>3 DEF Telling
    <3>2. Cardinality(Telling(updating', x)) = Cardinality(Telling(updating, x)) - 1
      BY <3>1, TellersFinite, FS_RemoveElement
    <3>3. Times(x, events') = Times(x, events) + 1
      BY <1>5, <2>3, TimesIs
    <3> QED BY <2>1, <2>2, <3>2, <3>3
  <2>4. CASE x # updating[t].change
    <3>1. Telling(updating', x) = Telling(updating, x)
      BY <1>1, <2>4 DEF Telling
    <3>2. Times(x, events') = Times(x, events)
      BY <1>5, <2>4, TimesIs
    <3> QED BY <2>1, <3>1, <3>2
  <2> QED BY <2>3, <2>4
<1>7. ToldOrTelling'
  <2>1. IsSequence(events') /\ Len(events') = Len(events) + 1 /\ Len(events) \in Nat
    BY <1>5, AppendIs
  <2>2. Len(writes) = Len(events) + Cardinality(Tellers(updating)) /\ Cardinality(Tellers(updating)) \in Nat
    BY TellersFinite DEF ToldOrTelling
  <2>3. Len(writes') = Len(events') + Cardinality(Tellers(updating'))
    BY <1>4, <2>1, <2>2
  <2> QED BY <1>5, <1>6, <2>1, <2>3 DEF ToldOrTelling
<1> QED BY <1>2, <1>3, <1>7

(***************************************************************************)
(* Updates are judged by validateRuntimeUpdate before they are applied, and each *)
(* change applied is told before the thread goes on.                       *)
(***************************************************************************)
LEMMA ConfigStep ==
  ASSUME ConfigInv, [ConfigNext]_configVars
  PROVE  ConfigInv'
<1>0. /\ DOMAIN config = ConfigKeys /\ overlapped \in BOOLEAN
      /\ ~unchecked => validate(config)
      /\ UpdatingOK /\ ToldOrTelling /\ ToldInOrder
  BY DEF ConfigInv
<1>k. ASSUME UNCHANGED <<updating, writes, events, overlapped>>,
             DOMAIN config' = ConfigKeys, ~unchecked' => validate(config')
      PROVE  ConfigInv'
  <2>1. UpdatingOK' /\ ToldInOrder'
    BY <1>0, <1>k DEF UpdatingOK, ToldInOrder
  <2>2. ToldOrTelling'
    BY <1>0, <1>k DEF ToldOrTelling
  <2> QED BY <1>0, <1>k, <2>1, <2>2 DEF ConfigInv, validate
<1>u. CASE UNCHANGED configVars
  BY <1>u, <1>0, <1>k DEF configVars
\* Beginning an update keeps the invariant.
<1>b. ASSUME NEW t \in Updaters, NEW u, BeginUpdate(t, u), updating[t].step = "idle",
             \A v \in u["gop"] : v >= 0, UNCHANGED <<config, writes, events, unchecked>>
      PROVE  ConfigInv'
  <2> DEFINE p == [step |-> "apply", update |-> u, left |-> HotParameters, change |-> <<>>]
  <2>1. updating' = [updating EXCEPT ![t] = p]
    BY <1>b DEF BeginUpdate, Continue
  <2>2. PcValid(p) /\ p.step = "apply"
    BY <1>b DEF PcValid, HotParameters, HotKeys
  <2> HIDE DEF p
  <2>3. /\ UpdatingOK' /\ ToldOrTelling'
        /\ Tellers(updating') = Tellers(updating)
        /\ \A s \in Tellers(updating) : updating'[s] = updating[s]
    BY <1>0, <1>b, <2>1, <2>2, UpdateMoves
  <2>4. /\ overlapped' = (overlapped \/ \E s \in Updaters \ {t} : updating[s].step # "idle")
        /\ writes' = writes /\ events' = events
    BY <1>b DEF BeginUpdate
  <2>5. updating'[t] = p /\ \A s \in Updaters \ {t} : updating'[s] = updating[s]
    BY <1>0, <2>1 DEF UpdatingOK
  <2>6. ASSUME ~overlapped'
        PROVE  /\ \A s, r \in Updaters : s # r => "idle" \in {updating'[s].step, updating'[r].step}
               /\ Tellers(updating') = {} => writes = events
               /\ \A s \in Tellers(updating') : writes = Append(events, updating'[s].change)
    <3>1. ~overlapped /\ \A s \in Updaters \ {t} : updating'[s].step = "idle"
      BY <2>4, <2>5, <2>6
    <3> QED BY <3>1, <2>3, <1>0 DEF ToldInOrder
  <2> QED BY <2>3, <2>4, <2>6, <1>0, <1>b DEF ConfigInv, ToldInOrder, validate
<1>1. ASSUME NEW f \in Files, loadFromFile(f) PROVE ConfigInv'
  <2>1. DOMAIN config' = ConfigKeys
    BY <1>1, <1>0 DEF loadFromFile, AppliedKeys
  <2> QED BY <1>1, <2>1, <1>k DEF loadFromFile
<1>2. CASE loadDefaults
  <2>1. DOMAIN config' = ConfigKeys /\ validate(config')
    BY <1>2 DEF loadDefaults, Defaults, ConfigKeys, validate
  <2> QED BY <1>2, <2>1, <1>k DEF loadDefaults
<1>3. ASSUME NEW b \in BOOLEAN, setMobilePlatform(b) PROVE ConfigInv'
  BY <1>3, <1>0, <1>k DEF setMobilePlatform
<1>4. ASSUME NEW n, applyEnvironmentOverrides(n) PROVE ConfigInv'
  <2>1. DOMAIN config' = ConfigKeys /\ unchecked'
    BY <1>4, <1>0 DEF applyEnvironmentOverrides
  <2> QED BY <1>4, <2>1, <1>k DEF applyEnvironmentOverrides
<1>5. ASSUME NEW t \in Updaters, NEW f \in Files, hotReloadFromFile(t, f) PROVE ConfigInv'
  <2> DEFINE parsed == AppliedKeys(Defaults, f)
             changed(k) == {v \in {parsed[k]} : v # config[k]}
             u == [level |-> changed("level"), gop |-> changed("gop")]
  <2>1. /\ updating[t].step = "idle" /\ validate(parsed) /\ BeginUpdate(t, u)
        /\ UNCHANGED <<config, writes, events, unchecked>>
    BY <1>5 DEF hotReloadFromFile
  <2>2. \A v \in u["gop"] : v >= 0
    BY <2>1 DEF validate
  <2> QED BY <2>1, <2>2, <1>b
<1>6. ASSUME NEW t \in Updaters, NEW u \in RuntimeUpdates, applyRuntimeUpdate(t, u) PROVE ConfigInv'
  <2>1. \A v \in u["gop"] : v >= 0
    BY <1>6 DEF applyRuntimeUpdate, validateRuntimeUpdate
  <2> QED BY <1>6, <2>1, <1>b DEF applyRuntimeUpdate
<1>7. ASSUME NEW t \in Updaters, applyParameter(t) PROVE ConfigInv'
  <2> DEFINE u == updating[t].update
             left == updating[t].left
             k == Head(left)
  <2>1. /\ updating[t].step = "apply" /\ left # <<>>
        /\ UNCHANGED <<isMobile, events, overlapped, unchecked, updates>>
    BY <1>7 DEF applyParameter
  <2>2. left \in Seq(HotKeys) /\ Tail(left) \in Seq(HotKeys) /\ k \in HotKeys
    BY <1>0, <2>1 DEF UpdatingOK, PcValid
  <2>3. \A v \in u["gop"] : v >= 0
    BY <1>0, <2>1 DEF UpdatingOK, PcValid
  <2>4. CASE Continue(t, "apply", u, Tail(left), <<>>) /\ UNCHANGED <<config, writes>>
    <3> DEFINE p == [step |-> "apply", update |-> u, left |-> Tail(left), change |-> <<>>]
    <3>1. updating' = [updating EXCEPT ![t] = p]
      BY <2>4 DEF Continue
    <3>2. PcValid(p) /\ p.step = "apply"
      BY <2>2, <2>3 DEF PcValid
    <3> HIDE DEF p
    <3>3. /\ UpdatingOK' /\ ToldOrTelling'
          /\ Tellers(updating') = Tellers(updating)
          /\ \A s \in Tellers(updating) : updating'[s] = updating[s]
      BY <1>0, <2>1, <2>4, <3>1, <3>2, UpdateMoves
    <3>4. ToldInOrder'
      <4>1. updating'[t] = p /\ \A s \in Updaters \ {t} : updating'[s] = updating[s]
        BY <1>0, <3>1 DEF UpdatingOK
      <4>2. ASSUME ~overlapped', NEW s \in Updaters, NEW r \in Updaters, s # r
            PROVE  "idle" \in {updating'[s].step, updating'[r].step}
        BY <4>1, <4>2, <2>1, <1>0 DEF ToldInOrder
      <4> QED BY <4>2, <3>3, <2>1, <2>4, <1>0 DEF ToldInOrder
    <3> QED BY <3>3, <3>4, <2>1, <2>4, <1>0 DEF ConfigInv, validate
  <2>5. ASSUME NEW v \in u[k], config' = [config EXCEPT ![k] = v],
               writes' = Append(writes, <<k, <<config[k]>>, <<v>>>>),
               Continue(t, "emit", u, left, <<k, <<config[k]>>, <<v>>>>)
        PROVE  ConfigInv'
    <3> DEFINE p == [step |-> "emit", update |-> u, left |-> left, change |-> <<k, <<config[k]>>, <<v>>>>]
    <3>1. updating' = [updating EXCEPT ![t] = p]
      BY <2>5 DEF Continue
    <3>2. PcValid(p) /\ p.step = "emit" /\ writes' = Append(writes, p.change)
      BY <2>1, <2>2, <2>3, <2>5 DEF PcValid
    <3> HIDE DEF p
    <3>3. /\ UpdatingOK' /\ ToldOrTelling'
          /\ Tellers(updating') = Tellers(updating) \cup {t} /\ updating'[t] = p
      BY <1>0, <2>1, <3>1, <3>2, WriteJoins
    <3>4. DOMAIN config' = ConfigKeys /\ (~unchecked' => validate(config'))
      <4>1. DOMAIN config' = ConfigKeys /\ \A j \in ConfigKeys : config'[j] = IF j = k THEN v ELSE config[j]
        BY <2>5, <1>0
      <4>2. k \in {"level", "gop"} /\ unchecked' = unchecked
        BY <2>1, <2>2 DEF HotKeys
      <4>3. k = "gop" => v >= 0
        BY <2>3, <2>5
      <4>4. config'["gop"] = (IF k = "gop" THEN v ELSE config["gop"])
        BY <4>1 DEF ConfigKeys
      <4>5. /\ config'["port"] = config["port"] /\ config'["maxConnections"] = config["maxConnections"]
            /\ config'["tls"] = config["tls"] /\ config'["cert"] = config["cert"]
        BY <4>1, <4>2 DEF ConfigKeys
      <4> HIDE DEF k, u, left
      <4> QED BY <4>1, <4>2, <4>3, <4>4, <4>5, <1>0 DEF validate
    <3>5. ToldInOrder'
      <4>1. \A s \in Updaters \ {t} : updating'[s] = updating[s]
        BY <1>0, <3>1 DEF UpdatingOK
      <4>2. ASSUME ~overlapped'
            PROVE  /\ \A s, r \in Updaters : s # r => "idle" \in {updating'[s].step, updating'[r].step}
                   /\ \A s \in Tellers(updating') : writes' = Append(events', updating'[s].change)
        <5>1. /\ ~overlapped /\ events' = events
              /\ \A s, r \in Updaters : s # r => "idle" \in {updating[s].step, updating[r].step}
          BY <2>1, <4>2, <1>0 DEF ToldInOrder
        <5>2. \A s \in Updaters \ {t} : updating[s].step = "idle"
          BY <5>1, <2>1
        <5>3. Tellers(updating) = {}
          BY <5>2, <2>1 DEF Tellers
        <5>4. writes = events
          BY <5>1, <5>3, <1>0 DEF ToldInOrder
        <5>5. \A s \in Tellers(updating') : s = t
          BY <5>3, <3>3
        <5>6. \A s \in Tellers(updating') : writes' = Append(events', updating'[s].change)
          BY <5>1, <5>4, <5>5, <3>2, <3>3
        <5> QED BY <5>2, <5>6, <4>1
      <4>3. Tellers(updating') # {}
        BY <3>3
      <4> QED BY <4>2, <4>3 DEF ToldInOrder
    <3> QED BY <3>3, <3>4, <3>5, <2>1, <1>0 DEF ConfigInv, validate
  <2> HIDE DEF u, left, k
  <2>6. \/ Continue(t, "apply", u, Tail(left), <<>>) /\ UNCHANGED <<config, writes>>
        \/ \E v \in u[k] : /\ config' = [config EXCEPT ![k] = v]
                           /\ writes' = Append(writes, <<k, <<config[k]>>, <<v>>>>)
                           /\ Continue(t, "emit", u, left, <<k, <<config[k]>>, <<v>>>>)
    BY <1>7 DEF applyParameter, u, left, k
  <2> QED BY <2>4, <2>5, <2>6
<1>8. ASSUME NEW t \in Updaters, emitChangeEvent(t) PROVE ConfigInv'
  <2> DEFINE p == [step |-> "apply", update |-> updating[t].update,
                   left |-> Tail(updating[t].left), change |-> <<>>]
  <2>1. /\ updating[t].step = "emit" /\ events' = Append(events, updating[t].change)
        /\ updating' = [updating EXCEPT ![t] = p]
        /\ UNCHANGED <<config, writes, overlapped, unchecked>>
    BY <1>8 DEF emitChangeEvent, Continue
  <2>2. PcValid(updating[t])
    BY <1>0 DEF UpdatingOK
  <2>s. updating[t].left \in Seq(HotKeys) /\ Tail(updating[t].left) \in Seq(HotKeys)
    BY <2>1, <2>2 DEF PcValid
  <2>3. PcValid(p) /\ p.step = "apply"
    BY <2>1, <2>2, <2>s DEF PcValid
  <2> HIDE DEF p
  <2>4. /\ UpdatingOK' /\ ToldOrTelling'
        /\ Tellers(updating') = Tellers(updating) \ {t}
    BY <1>0, <2>1, <2>3, TellingLeaves
  <2>5. ToldInOrder'
    <3>1. updating'[t] = p /\ \A s \in Updaters \ {t} : updating'[s] = updating[s]
      BY <1>0, <2>1 DEF UpdatingOK
    <3>2. ASSUME ~overlapped'
          PROVE  /\ \A s, r \in Updaters : s # r => "idle" \in {updating'[s].step, updating'[r].step}
                 /\ Tellers(updating') = {} /\ writes' = events'
      <4>1. /\ ~overlapped /\ t \in Tellers(updating)
            /\ \A s, r \in Updaters : s # r => "idle" \in {updating[s].step, updating[r].step}
        BY <2>1, <3>2, <1>0 DEF ToldInOrder, Tellers
      <4>2. \A s \in Updaters \ {t} : updating[s].step = "idle"
        BY <4>1, <2>1
      <4>3. Tellers(updating') = {}
        BY <4>2, <2>4 DEF Tellers
      <4>4. writes = Append(events, updating[t].change)
        BY <4>1, <1>0 DEF ToldInOrder
      <4> QED BY <4>2, <4>3, <4>4, <2>1, <3>1
    <3> QED BY <3>2 DEF ToldInOrder
  <2> QED BY <2>1, <2>4, <2>5, <1>0 DEF ConfigInv, validate
<1>9. ASSUME NEW t \in Updaters, updateReturns(t) PROVE ConfigInv'
  <2>1. /\ updating[t].step = "apply" /\ updating' = [updating EXCEPT ![t] = NoUpdate]
        /\ UNCHANGED <<config, writes, events, overlapped, unchecked>>
    BY <1>9 DEF updateReturns
  <2>2. PcValid(NoUpdate) /\ NoUpdate.step = "idle"
    BY DEF PcValid, NoUpdate
  <2>3. /\ UpdatingOK' /\ ToldOrTelling'
        /\ Tellers(updating') = Tellers(updating)
        /\ \A s \in Tellers(updating) : updating'[s] = updating[s]
    BY <1>0, <2>1, <2>2, UpdateMoves
  <2>4. ToldInOrder'
    <3>1. updating'[t] = NoUpdate /\ \A s \in Updaters \ {t} : updating'[s] = updating[s]
      BY <1>0, <2>1 DEF UpdatingOK
    <3>2. ASSUME ~overlapped', NEW s \in Updaters, NEW r \in Updaters, s # r
          PROVE  "idle" \in {updating'[s].step, updating'[r].step}
      BY <3>1, <3>2, <2>1, <2>2, <1>0 DEF ToldInOrder
    <3> QED BY <3>2, <2>3, <2>1, <1>0 DEF ToldInOrder
  <2> QED BY <2>1, <2>3, <2>4, <1>0 DEF ConfigInv, validate
<1> QED BY <1>u, <1>1, <1>2, <1>3, <1>4, <1>5, <1>6, <1>7, <1>8, <1>9 DEF ConfigNext

(***************************************************************************)
(* The default configuration is valid, and nothing was written.            *)
(***************************************************************************)
LEMMA ConfigStarts ==
  ASSUME ConfigInit
  PROVE  ConfigInv
<1>1. DOMAIN config = ConfigKeys /\ validate(config) /\ overlapped = FALSE
  BY DEF ConfigInit, Defaults, ConfigKeys, validate
<1>2. \A t \in Updaters : updating[t] = NoUpdate
  BY DEF ConfigInit
<1>3. PcValid(NoUpdate) /\ NoUpdate.step = "idle"
  BY DEF PcValid, NoUpdate
<1>4. UpdatingOK
  BY <1>2, <1>3 DEF UpdatingOK, ConfigInit
<1>5. Tellers(updating) = {} /\ \A x : Telling(updating, x) = {}
  BY <1>2, <1>3 DEF Tellers, Telling
<1>6. writes = <<>> /\ events = <<>> /\ IsSequence(writes) /\ Len(writes) = 0
  BY DEF ConfigInit, IsSequence
<1>7. Cardinality({}) = 0
  BY FS_EmptySet
<1>8. ToldOrTelling
  <2>1. ASSUME NEW x PROVE Times(x, writes) = Times(x, events) + Cardinality(Telling(updating, x))
    <3>1. Times(x, events) \in Nat /\ Times(x, writes) = Times(x, events)
      BY <1>6, TimesIs
    <3> QED BY <3>1, <1>5, <1>7
  <2>2. Len(writes) = Len(events) + Cardinality(Tellers(updating))
    BY <1>5, <1>6, <1>7
  <2> QED BY <1>6, <2>1, <2>2 DEF ToldOrTelling
<1>9. ToldInOrder
  BY <1>2, <1>3, <1>5, <1>6 DEF ToldInOrder
<1> QED BY <1>1, <1>4, <1>8, <1>9 DEF ConfigInv

(***************************************************************************)
(* The invariant is what ConfigSound says.                                 *)
(***************************************************************************)
LEMMA ConfigIsSound ==
  ASSUME ConfigInv
  PROVE  ConfigSound
<1>0. IsSequence(writes) /\ IsSequence(events)
  BY DEF ConfigInv, ToldOrTelling
<1>1. ~unchecked => validate(config)
  BY DEF ConfigInv
<1>2. ASSUME NEW x PROVE Times(x, events) <= Times(x, writes)
  <2>1. Times(x, writes) = Times(x, events) + Cardinality(Telling(updating, x))
    BY DEF ConfigInv, ToldOrTelling
  <2>2. Times(x, events) \in Nat /\ Cardinality(Telling(updating, x)) \in Nat
    BY <1>0, TimesIs, TellersFinite
  <2> QED BY <2>1, <2>2
<1>3. ASSUME ~overlapped PROVE events = SubSeq(writes, 1, Len(events))
  <2>1. PICK S : events \in Seq(S)
    BY <1>0 DEF IsSequence
  <2>2. CASE Tellers(updating) = {}
    <3>1. writes = events
      BY <1>3, <2>2 DEF ConfigInv, ToldInOrder
    <3> QED BY <3>1, <2>1
  <2>3. CASE Tellers(updating) # {}
    <3>1. PICK x : writes = Append(events, x)
      BY <1>3, <2>3 DEF ConfigInv, ToldInOrder
    <3>2. PICK R : R = S \cup {x}
      OBVIOUS
    <3>3. events \in Seq(R) /\ x \in R
      <4>1. Len(events) \in Nat /\ events \in [1 .. Len(events) -> S]
        BY <2>1
      <4>2. events \in [1 .. Len(events) -> R]
        BY <3>2, <4>1
      <4> QED BY <3>2, <4>1, <4>2
    <3> QED BY <3>1, <3>3
  <2> QED BY <2>2, <2>3
<1>4. ASSUME \A t \in Updaters : updating[t].step = "idle" PROVE Len(events) = Len(writes)
  <2>1. Tellers(updating) = {}
    BY <1>4 DEF Tellers
  <2>2. Len(writes) = Len(events) + 0 /\ Len(events) \in Nat
    BY <2>1, <1>0, AppendIs, FS_EmptySet DEF ConfigInv, ToldOrTelling
  <2> QED BY <2>2
<1> QED BY <1>1, <1>2, <1>3, <1>4 DEF ConfigSound

(***************************************************************************)
(* Updates by several threads agree: the configuration checked once stays  *)
(* valid, each change is told once and in order, and the counts of open    *)
(* connections and streams and their peak are right whenever no thread is  *)
(* in between, for any number of threads that stays below the wrap.        *)
(***************************************************************************)
THEOREM UpdatesDoAgree == ServicesSpec => []UpdatesAgree
<1>1. ServicesInit => ConfigInv /\ CounterInv
  BY ConfigStarts, CounterStarts DEF ServicesInit
<1>2. ConfigInv /\ [ServicesNext]_servicesVars => ConfigInv'
  BY OneService, ConfigStep
<1>3. CounterInv /\ [ServicesNext]_servicesVars => CounterInv'
  BY OneService, CounterStep
<1>4. ConfigInv /\ CounterInv => UpdatesAgree
  BY ConfigIsSound, CounterSound DEF UpdatesAgree
<1> QED BY <1>1, <1>2, <1>3, <1>4, PTL DEF ServicesSpec

-----------------------------------------------------------------------------
(* StructuredLogger: the files of a rotating sink                           *)

Backups == Nat \X BOOLEAN

\* The names in D newer than n.
NewerIn(D, stamped, n) == {m \in D : IF stamped THEN m[1] > n[1] ELSE m[1] < n[1]}
OlderIn(D, n) == {m \in D : m[1] < n[1] \/ (m[1] = n[1] /\ ~m[2] /\ n[2])}

Up(n) == <<n[1] + 1, n[2]>>

(***************************************************************************)
(* Of a set of names, one has the least number.                            *)
(***************************************************************************)
LEMMA LeastOf ==
  ASSUME NEW B, B \subseteq Nat, B # {}
  PROVE  \E n \in B : \A m \in B : n <= m
<1> DEFINE T == {0 .. n : n \in B}
<1>1. T \subseteq FiniteSubsetsOf(Nat) /\ T # {}
  <2>1. ASSUME NEW n \in B
        PROVE  0 .. n \in FiniteSubsetsOf(Nat)
    <3>1. n \in Int /\ IsFiniteSet(0 .. n)
      BY FS_Interval
    <3> QED BY <3>1 DEF FiniteSubsetsOf
  <2> QED BY <2>1
<1>2. PICK x \in T : \A y \in T : ~ (<<y, x>> \in StrictSubsetOrdering(Nat))
  <2> HIDE DEF T
  <2> QED BY <1>1, FS_StrictSubsetOrderingWellFounded, WFMin
<1>3. PICK n \in B : x = 0 .. n
  OBVIOUS
<1>4. ASSUME NEW m \in B
      PROVE  n <= m
  <2> SUFFICES ASSUME m < n PROVE FALSE
    OBVIOUS
  <2>1. (0 .. m) \in T /\ 0 .. m \subseteq 0 .. n /\ 0 .. m # 0 .. n
    OBVIOUS
  <2>2. 0 .. m \in SUBSET Nat /\ 0 .. n \in SUBSET Nat
    OBVIOUS
  <2>3. <<0 .. m, 0 .. n>> \in StrictSubsetOrdering(Nat)
    BY <2>1, <2>2 DEF StrictSubsetOrdering
  <2> QED BY <1>2, <1>3, <2>1, <2>3
<1> QED BY <1>4

(***************************************************************************)
(* Moving names up leaves their number.                                    *)
(***************************************************************************)
LEMMA UpCount ==
  ASSUME NEW S \in SUBSET Backups, IsFiniteSet(S)
  PROVE  IsFiniteSet({Up(m) : m \in S}) /\ Cardinality({Up(m) : m \in S}) = Cardinality(S)
<1> DEFINE T == {Up(m) : m \in S}
           f == [m \in S |-> Up(m)]
<1>1. f \in [S -> T]
  OBVIOUS
<1>2. \A m, n \in S : f[m] = f[n] => m = n
  BY DEF Up, Backups
<1>3. \A x \in T : \E m \in S : f[m] = x
  OBVIOUS
<1> HIDE DEF f, T
<1>4. f \in Bijection(S, T)
  BY <1>1, <1>2, <1>3 DEF Bijection, Injection, Surjection, IsInjective
<1>5. ExistsBijection(S, T)
  BY <1>4 DEF ExistsBijection
<1> QED BY <1>5, FS_Bijection DEF T

(***************************************************************************)
(* Names in use are as many as there are newer and older ones and itself.  *)
(***************************************************************************)
LEMMA NewerCount ==
  ASSUME NEW D, IsFiniteSet(D), NEW stamped, NEW n \in D
  PROVE  /\ IsFiniteSet(NewerIn(D, stamped, n)) /\ Cardinality(NewerIn(D, stamped, n)) \in Nat
         /\ IsFiniteSet(OlderIn(D, n)) /\ Cardinality(OlderIn(D, n)) \in Nat
         /\ Cardinality(OlderIn(D, n)) <= Cardinality(D)
<1>1. NewerIn(D, stamped, n) \in SUBSET D /\ OlderIn(D, n) \in SUBSET D
  BY DEF NewerIn, OlderIn
<1>2. IsFiniteSet(NewerIn(D, stamped, n)) /\ IsFiniteSet(OlderIn(D, n))
      /\ Cardinality(OlderIn(D, n)) <= Cardinality(D)
  BY <1>1, FS_Subset
<1> QED BY <1>2, FS_CardinalityType

\* The names of one kind are ordered by their number.
LEMMA SplitCount ==
  ASSUME NEW c \in BOOLEAN, NEW D \in SUBSET (Nat \X {c}), IsFiniteSet(D), NEW n \in D
  PROVE  Cardinality(D) = Cardinality(OlderIn(D, n)) + Cardinality(NewerIn(D, TRUE, n)) + 1
<1> DEFINE O == OlderIn(D, n)
           N == NewerIn(D, TRUE, n)
<1>1. D = (O \cup N) \cup {n} /\ O \cap N = {} /\ n \notin O \cup N
  <2>1. \A m \in D : m[1] \in Nat /\ m = <<m[1], c>>
    OBVIOUS
  <2>2. \A m \in D : (m \in O <=> m[1] < n[1]) /\ (m \in N <=> m[1] > n[1])
    BY <2>1 DEF OlderIn, NewerIn
  <2>3. \A m \in O \cup N : m \in D
    BY DEF OlderIn, NewerIn
  <2>4. \A m \in D : m[1] = n[1] => m = n
    BY <2>1
  <2> HIDE DEF O, N
  <2>5. \A m \in D : m \in O \/ m \in N \/ m = n
    BY <2>1, <2>2, <2>4
  <2>6. \A m \in D : ~(m \in O /\ m \in N)
    BY <2>1, <2>2
  <2>7. n \notin O /\ n \notin N
    BY <2>1, <2>2
  <2> QED BY <2>3, <2>5, <2>6, <2>7
<1>2. IsFiniteSet(O) /\ IsFiniteSet(N) /\ Cardinality(O) \in Nat /\ Cardinality(N) \in Nat
  BY NewerCount
<1> HIDE DEF O, N
<1>3. IsFiniteSet(O \cup N) /\ Cardinality(O \cup N) = Cardinality(O) + Cardinality(N)
  <2>1. Cardinality(O \cap N) = 0
    BY <1>1, FS_EmptySet
  <2>2. IsFiniteSet(O \cup N) /\ Cardinality(O \cup N) = Cardinality(O) + Cardinality(N) - Cardinality(O \cap N)
    BY <1>2, FS_Union
  <2> QED BY <1>2, <2>1, <2>2
<1>4. Cardinality((O \cup N) \cup {n}) = Cardinality(O \cup N) + 1
  BY <1>1, <1>3, FS_AddElement
<1> QED BY <1>1, <1>3, <1>4 DEF O, N

(***************************************************************************)
(* Of the names D, those with too many newer ones go: MaxBackupFiles stay. *)
(***************************************************************************)
Staying(D) == {n \in D : ~(Cardinality(D) - Cardinality(OlderIn(D, n)) > MaxBackupFiles)}

LEMMA RestCount ==
  ASSUME NEW D, IsFiniteSet(D), NEW O \in SUBSET D
  PROVE  Cardinality(D \ O) = Cardinality(D) - Cardinality(O)
<1> DEFINE R == D \ O
<1>1. R \in SUBSET D /\ R \cup O = D /\ R \cap O = {}
  OBVIOUS
<1> HIDE DEF R
<1>2. /\ IsFiniteSet(R) /\ IsFiniteSet(O)
      /\ Cardinality(R) \in Nat /\ Cardinality(O) \in Nat
  BY <1>1, FS_Subset, FS_CardinalityType
<1>3. Cardinality(R \cap O) = 0
  BY <1>1, FS_EmptySet
<1>4. Cardinality(R \cup O) = Cardinality(R) + Cardinality(O) - Cardinality(R \cap O)
  BY <1>2, FS_Union
<1>5. Cardinality(R \cup O) = Cardinality(D)
  BY <1>1
<1>6. Cardinality(R) = Cardinality(D) - Cardinality(O)
  BY <1>2, <1>3, <1>4, <1>5
<1> QED BY <1>6 DEF R

LEMMA StayingBound ==
  ASSUME NEW D \in SUBSET Backups, IsFiniteSet(D)
  PROVE  IsFiniteSet(Staying(D)) /\ Cardinality(Staying(D)) <= MaxBackupFiles
<1> DEFINE K == Staying(D)
<1>0. MaxBackupFiles \in Nat
  BY RotationAssumption
<1>1. K \in SUBSET D /\ IsFiniteSet(K) /\ Cardinality(K) \in Nat
  BY FS_Subset, FS_CardinalityType DEF Staying
<1>2. CASE K = {}
  BY <1>0, <1>1, <1>2, FS_EmptySet
<1>3. CASE K # {}
  <2>1. \E k \in K : \A m \in K : m \notin OlderIn(D, k)
    <3> DEFINE I == {m[1] : m \in K}
    <3>1. I \in SUBSET Nat /\ I # {}
      BY <1>1, <1>3 DEF Backups
    <3>2. PICK i \in I : \A j \in I : i <= j
      <4> HIDE DEF I
      <4> QED BY <3>1, LeastOf
    <3>3. PICK k \in K : k[1] = i
      OBVIOUS
    <3>4. \A m \in K : m[1] \in Nat /\ m[2] \in BOOLEAN /\ i <= m[1]
      BY <1>1, <3>2 DEF Backups
    <3>5. CASE \E m \in K : m[1] = i /\ ~m[2]
      <4>1. PICK m \in K : m[1] = i /\ ~m[2]
        BY <3>5
      <4>2. \A p \in K : p \notin OlderIn(D, m)
        BY <3>4, <4>1 DEF OlderIn
      <4> QED BY <4>2
    <3>6. CASE ~ \E m \in K : m[1] = i /\ ~m[2]
      <4>1. \A p \in K : p \notin OlderIn(D, k)
        BY <3>3, <3>4, <3>6 DEF OlderIn
      <4> QED BY <4>1
    <3> QED BY <3>5, <3>6
  <2>2. PICK k \in K : \A m \in K : m \notin OlderIn(D, k)
    BY <2>1
  <2> DEFINE O == OlderIn(D, k)
  <2>3. k \in D /\ O \in SUBSET D /\ K \in SUBSET (D \ O)
    BY <1>1, <2>2 DEF OlderIn
  <2>4. IsFiniteSet(O) /\ Cardinality(O) \in Nat /\ Cardinality(O) <= Cardinality(D) /\ Cardinality(D) \in Nat
    BY <2>3, NewerCount, FS_CardinalityType
  <2>5. ~(Cardinality(D) - Cardinality(O) > MaxBackupFiles)
    BY <2>2 DEF Staying
  <2> HIDE DEF O, K
  <2>6. IsFiniteSet(D \ O) /\ Cardinality(D \ O) \in Nat
    <3>1. D \ O \in SUBSET D
      OBVIOUS
    <3> QED BY <3>1, FS_Subset, FS_CardinalityType
  <2>7. Cardinality(D \ O) = Cardinality(D) - Cardinality(O)
    BY <2>3, RestCount
  <2>8. Cardinality(K) <= Cardinality(D \ O)
    BY <2>3, <2>6, FS_Subset
  <2> QED BY <1>0, <1>1, <2>4, <2>5, <2>6, <2>7, <2>8 DEF K
<1> QED BY <1>1, <1>2, <1>3 DEF K

\* K has of the names D and a newer one, z, the newest that the limit lets stay.
AddedNewest(D, K, z) ==
  /\ K \in SUBSET (D \cup {z})
  /\ z \in K => Cardinality(NewerIn(K, TRUE, z)) = 0
  /\ \A n \in K : n # z => Cardinality(NewerIn(K, TRUE, n)) = Cardinality(NewerIn(D, TRUE, n)) + 1
  /\ Cardinality(D) < MaxBackupFiles => Cardinality(K) = Cardinality(D) + 1
  /\ ~(Cardinality(D) < MaxBackupFiles) => Cardinality(K) = MaxBackupFiles

(***************************************************************************)
(* A new name with a later second: the newest.  Those that stay have as    *)
(* many newer ones as before and this one.                                 *)
(***************************************************************************)
LEMMA StampedStep ==
  ASSUME NEW c \in BOOLEAN, NEW D \in SUBSET (Nat \X {c}), IsFiniteSet(D),
         Cardinality(D) <= MaxBackupFiles,
         NEW now \in Nat, \A n \in D : n[1] < now
  PROVE  AddedNewest(D, Staying(D \cup {<<now, c>>}), <<now, c>>)
<1> DEFINE z == <<now, c>>
           E == D \cup {z}
           K == Staying(E)
           N(X, n) == NewerIn(X, TRUE, n)
<1>0. MaxBackupFiles \in Nat
  BY RotationAssumption
<1>1. z \notin D /\ E \in SUBSET (Nat \X {c}) /\ z[1] = now /\ z \in E
  OBVIOUS
<1>2. /\ IsFiniteSet(E) /\ Cardinality(E) = Cardinality(D) + 1
      /\ Cardinality(D) \in Nat /\ Cardinality(E) \in Nat
  BY <1>1, FS_AddElement, FS_CardinalityType
<1>3. \A m \in E : m[1] \in Nat /\ m = <<m[1], c>> /\ m[1] <= now /\ (m # z => m[1] < now)
  BY <1>1
<1>4. \A n \in E : /\ IsFiniteSet(N(E, n)) /\ Cardinality(N(E, n)) \in Nat
                   /\ IsFiniteSet(OlderIn(E, n)) /\ Cardinality(OlderIn(E, n)) \in Nat
                   /\ Cardinality(E) = Cardinality(OlderIn(E, n)) + Cardinality(N(E, n)) + 1
  <2> TAKE n \in E
  <2>1. Cardinality(E) = Cardinality(OlderIn(E, n)) + Cardinality(NewerIn(E, TRUE, n)) + 1
    <3> HIDE DEF E
    <3> QED BY <1>1, <1>2, SplitCount
  <2>2. /\ IsFiniteSet(NewerIn(E, TRUE, n)) /\ Cardinality(NewerIn(E, TRUE, n)) \in Nat
        /\ IsFiniteSet(OlderIn(E, n)) /\ Cardinality(OlderIn(E, n)) \in Nat
    <3> HIDE DEF E
    <3> QED BY <1>2, NewerCount
  <2> QED BY <2>1, <2>2
<1>5. \A n \in E : n \in K <=> Cardinality(N(E, n)) < MaxBackupFiles
  <2> TAKE n \in E
  <2>1. n \in K <=> ~(Cardinality(E) - Cardinality(OlderIn(E, n)) > MaxBackupFiles)
    BY DEF Staying
  <2> HIDE DEF E, K, N
  <2> QED BY <1>0, <1>2, <1>4, <2>1
<1>6. N(E, z) = {} /\ Cardinality(N(E, z)) = 0
  <2>1. \A m \in E : ~(m[1] > z[1])
    BY <1>1, <1>3
  <2>2. N(E, z) = {}
    BY <2>1 DEF NewerIn
  <2> QED BY <2>2, FS_EmptySet
<1>7. ASSUME NEW n \in D
      PROVE  Cardinality(N(E, n)) = Cardinality(N(D, n)) + 1
  <2>1. N(E, n) = N(D, n) \cup {z} /\ z \notin N(D, n)
    <3>1. z[1] > n[1]
      BY <1>1
    <3> QED BY <3>1, <1>1 DEF NewerIn
  <2>2. IsFiniteSet(N(D, n)) /\ Cardinality(N(D, n)) \in Nat
    BY NewerCount
  <2> HIDE DEF N, z, E
  <2> QED BY <2>1, <2>2, FS_AddElement
<1>8. ASSUME NEW n \in K, NEW m \in E, m[1] > n[1]
      PROVE  m \in K
  <2>1. n \in E
    BY DEF Staying
  <2>2. N(E, m) \in SUBSET N(E, n)
    <3>1. \A x \in E : x[1] > m[1] => x[1] > n[1]
      BY <1>3, <1>8, <2>1
    <3> QED BY <3>1 DEF NewerIn
  <2>3. Cardinality(N(E, m)) <= Cardinality(N(E, n))
    <3>1. IsFiniteSet(N(E, n))
      BY <1>4, <2>1
    <3> HIDE DEF N, E, K
    <3> QED BY <2>2, <3>1, FS_Subset
  <2> HIDE DEF N, E, K
  <2> QED BY <1>0, <1>4, <1>5, <2>1, <2>3
<1>9. ASSUME NEW n \in K
      PROVE  N(K, n) = N(E, n)
  <2>1. \A x \in E : x[1] > n[1] => x \in K
    BY <1>8
  <2>2. K \in SUBSET E
    BY DEF Staying
  <2> HIDE DEF E, K
  <2> QED BY <2>1, <2>2 DEF NewerIn
<1>10. K \in SUBSET E
  BY DEF Staying
<1>11. \A n \in K : Cardinality(N(K, n)) = IF n = z THEN 0 ELSE Cardinality(N(D, n)) + 1
  <2> TAKE n \in K
  <2>1. n \in E /\ Cardinality(N(K, n)) = Cardinality(N(E, n))
    BY <1>9, <1>10
  <2>2. n = z \/ n \in D
    BY <2>1
  <2> HIDE DEF E, K, N
  <2>3. CASE n = z
    BY <1>6, <2>1, <2>3
  <2>4. CASE n # z
    BY <1>7, <2>1, <2>2, <2>4
  <2> QED BY <2>3, <2>4
<1>12. CASE Cardinality(D) < MaxBackupFiles
  <2>1. \A n \in E : Cardinality(N(E, n)) < MaxBackupFiles
    <3> TAKE n \in E
    <3> HIDE DEF N, E, K
    <3> QED BY <1>0, <1>2, <1>4, <1>12
  <2>2. K = E
    <3> HIDE DEF N, E, K
    <3> QED BY <1>5, <1>10, <2>1
  <2>3. Cardinality(K) = Cardinality(D) + 1
    BY <1>2, <2>2
  <2> QED BY <1>10, <1>11, <1>12, <2>3 DEF AddedNewest
<1>13. CASE ~(Cardinality(D) < MaxBackupFiles)
  <2>1. Cardinality(E) = MaxBackupFiles + 1
    <3> HIDE DEF E
    <3> QED BY <1>0, <1>2, <1>13
  <2>2. PICK k \in E : \A m \in E : k[1] <= m[1]
    <3> DEFINE I == {m[1] : m \in E}
    <3>1. I \subseteq Nat /\ I # {}
      BY <1>1, <1>3
    <3>2. PICK i \in I : \A j \in I : i <= j
      <4> HIDE DEF I
      <4> QED BY <3>1, LeastOf
    <3> QED BY <3>2
  <2>3. K = E \ {k}
    <3>1. OlderIn(E, k) = {}
      <4>1. \A m \in E : ~(m[1] < k[1])
        BY <1>3, <2>2
      <4>2. \A m \in E : m[2] = k[2]
        <5>1. \A m \in E : m[2] = c
          BY <1>3
        <5> QED BY <5>1
      <4> HIDE DEF E
      <4> QED BY <4>1, <4>2 DEF OlderIn
    <3>2. k \notin K
      <4>1. Cardinality(OlderIn(E, k)) = 0
        BY <3>1, FS_EmptySet
      <4> HIDE DEF E, K, N
      <4> QED BY <1>0, <1>4, <1>5, <2>1, <4>1
    <3>3. ASSUME NEW m \in E, m # k
          PROVE  m \in K
      <4>1. m[1] > k[1]
        BY <1>3, <2>2, <3>3
      <4>2. k \in OlderIn(E, m)
        <5>1. k[1] < m[1]
          BY <1>3, <4>1
        <5> HIDE DEF E
        <5> QED BY <5>1 DEF OlderIn
      <4>3. Cardinality(OlderIn(E, m)) # 0
        <5>1. IsFiniteSet(OlderIn(E, m))
          BY <1>4
        <5> HIDE DEF E
        <5> QED BY <4>2, <5>1, FS_EmptySet
      <4> HIDE DEF E, K, N
      <4> QED BY <1>0, <1>4, <1>5, <2>1, <4>3
    <3> HIDE DEF E, K
    <3> QED BY <1>10, <3>2, <3>3
  <2>4. Cardinality(K) = MaxBackupFiles
    <3> HIDE DEF E, K
    <3>1. Cardinality(E \ {k}) = Cardinality(E) - 1
      BY <1>2, FS_RemoveElement
    <3> QED BY <1>0, <2>1, <2>3, <3>1
  <2> QED BY <1>10, <1>11, <1>13, <2>4 DEF AddedNewest
<1> QED BY <1>12, <1>13

(***************************************************************************)
(* rotateBackupFiles moves each backup of a name up to the limit, the last *)
(* stays or is replaced; each has as many newer ones as before.            *)
(***************************************************************************)
LEMMA ShiftNames ==
  ASSUME NEW b, DOMAIN b \subseteq (1 .. MaxBackupFiles) \X BOOLEAN
  PROVE  DOMAIN rotateBackupFiles(b) \subseteq (1 .. MaxBackupFiles) \X BOOLEAN
<1> DEFINE risen == {n \in DOMAIN b : n[1] \in 1..(MaxBackupFiles - 1)
                                      /\ (n[2] \/ <<n[1], TRUE>> \notin DOMAIN b)}
<1>0. MaxBackupFiles \in Nat
  BY RotationAssumption
<1>1. DOMAIN rotateBackupFiles(b) = (DOMAIN b \ risen) \union {Up(m) : m \in risen}
  BY DEF rotateBackupFiles, Up
<1>2. \A m \in risen : m[1] \in 1 .. (MaxBackupFiles - 1) /\ m[2] \in BOOLEAN
  OBVIOUS
<1>3. \A m \in risen : Up(m) \in (1 .. MaxBackupFiles) \X BOOLEAN
  <2> TAKE m \in risen
  <2>1. m[1] + 1 \in 1 .. MaxBackupFiles
    BY <1>0, <1>2
  <2> HIDE DEF risen
  <2> QED BY <1>2, <2>1 DEF Up
<1> HIDE DEF risen
<1> QED BY <1>1, <1>3

LEMMA ShiftIs ==
  ASSUME NEW c \in BOOLEAN, NEW b, DOMAIN b \subseteq (1 .. MaxBackupFiles) \X {c}
  PROVE  LET D == DOMAIN b
             M == {n \in D : n[1] < MaxBackupFiles}
             r == rotateBackupFiles(b)
         IN  /\ DOMAIN r = (D \ M) \cup {Up(m) : m \in M}
             /\ \A m \in M : r[Up(m)] = b[m]
             /\ \A n \in D \ M : (\A m \in M : Up(m) # n) => r[n] = b[n]
<1> DEFINE D == DOMAIN b
           M == {n \in D : n[1] < MaxBackupFiles}
           risen == {n \in DOMAIN b : n[1] \in 1..(MaxBackupFiles - 1)
                                      /\ (n[2] \/ <<n[1], TRUE>> \notin DOMAIN b)}
           r == rotateBackupFiles(b)
<1>0. MaxBackupFiles \in Nat
  BY RotationAssumption
<1>1. \A n \in D : n[1] \in 1 .. MaxBackupFiles /\ n[2] = c /\ n = <<n[1], c>>
  OBVIOUS
<1>2. risen = M
  <2>1. \A n \in D : n[1] \in 1 .. (MaxBackupFiles - 1) <=> n[1] < MaxBackupFiles
    BY <1>0, <1>1
  <2>2. \A n \in D : n[2] \/ <<n[1], TRUE>> \notin D
    <3>1. CASE c = TRUE
      BY <1>1, <3>1
    <3>2. CASE c = FALSE
      BY <1>1, <3>2
    <3> QED BY <3>1, <3>2
  <2> QED BY <2>1, <2>2
<1>3. r = [n \in (DOMAIN b \ risen) \union {Up(m) : m \in risen} |->
             IF \E m \in risen : Up(m) = n THEN b[CHOOSE m \in risen : Up(m) = n] ELSE b[n]]
  BY DEF rotateBackupFiles, Up
<1>4. \A m, n \in M : Up(m) = Up(n) => m = n
  <2> TAKE m, n \in M
  <2>1. m \in D /\ n \in D
    OBVIOUS
  <2>2. m[1] + 1 = n[1] + 1 => m[1] = n[1]
    BY <1>1, <2>1
  <2>3. m[1] = n[1] => m = n
    BY <1>1, <2>1
  <2> QED BY <2>2, <2>3 DEF Up
<1> HIDE DEF risen, r
<1>5. \A m \in M : r[Up(m)] = b[m]
  <2> TAKE m \in M
  <2> HIDE DEF M
  <2>1. (CHOOSE k \in M : Up(k) = Up(m)) = m
    BY <1>4
  <2> QED BY <1>2, <1>3, <2>1
<1>6. \A n \in D \ M : (\A m \in M : Up(m) # n) => r[n] = b[n]
  BY <1>2, <1>3
<1>7. DOMAIN r = (D \ M) \cup {Up(m) : m \in M}
  BY <1>2, <1>3
<1> QED BY <1>5, <1>6, <1>7 DEF r

\* Where the file n of the shifted names was, it had as many newer ones.
LEMMA ShiftKeeps ==
  ASSUME NEW c \in BOOLEAN, NEW b, DOMAIN b \subseteq (1 .. MaxBackupFiles) \X {c},
         IsFiniteSet(DOMAIN b)
  PROVE  LET r == rotateBackupFiles(b)
         IN  /\ IsFiniteSet(DOMAIN r) /\ DOMAIN r \subseteq (1 .. MaxBackupFiles) \X {c}
             /\ \A n \in DOMAIN r :
                  /\ n[1] > 1 \/ MaxBackupFiles = 1
                  /\ \E m \in DOMAIN b :
                       /\ r[n] = b[m]
                       /\ Cardinality(NewerIn(DOMAIN r, FALSE, n)) = Cardinality(NewerIn(DOMAIN b, FALSE, m))
<1> DEFINE D == DOMAIN b
           M == {n \in D : n[1] < MaxBackupFiles}
           r == rotateBackupFiles(b)
           E == DOMAIN r
<1>0. MaxBackupFiles \in Nat
  BY RotationAssumption
<1>1. \A n \in D : n[1] \in 1 .. MaxBackupFiles /\ n = <<n[1], c>> /\ n \in Backups
  BY DEF Backups
<1>2. /\ E = (D \ M) \cup {Up(m) : m \in M}
      /\ \A m \in M : r[Up(m)] = b[m]
      /\ \A n \in D \ M : (\A m \in M : Up(m) # n) => r[n] = b[n]
  BY ShiftIs
<1> HIDE DEF r, E
<1>3. \A m \in M : /\ m \in D /\ m[1] < MaxBackupFiles /\ Up(m)[1] = m[1] + 1 /\ Up(m)[2] = c
                   /\ Up(m)[1] \in 2 .. MaxBackupFiles /\ Up(m) = <<Up(m)[1], c>>
  <2> TAKE m \in M
  <2>1. m \in D /\ m[1] < MaxBackupFiles /\ m[2] = c
    BY <1>1
  <2>2. m[1] + 1 \in 2 .. MaxBackupFiles
    BY <1>0, <1>1, <2>1
  <2> QED BY <2>1, <2>2 DEF Up
<1>4. \A n \in D \ M : n[1] = MaxBackupFiles
  BY <1>0, <1>1
<1>5. IsFiniteSet(E) /\ E \subseteq (1 .. MaxBackupFiles) \X {c}
  <2>1. M \in SUBSET D /\ D \ M \in SUBSET D /\ M \in SUBSET Backups
    BY <1>1
  <2>2. IsFiniteSet(M) /\ IsFiniteSet(D \ M)
    <3> HIDE DEF M
    <3> QED BY <2>1, FS_Subset
  <2>3. IsFiniteSet({Up(m) : m \in M})
    <3> HIDE DEF M
    <3> QED BY <2>1, <2>2, UpCount
  <2>4. IsFiniteSet(E)
    <3> HIDE DEF M
    <3> QED BY <1>2, <2>2, <2>3, FS_Union
  <2>5. \A m \in M : Up(m) \in (1 .. MaxBackupFiles) \X {c}
    <3> TAKE m \in M
    <3>1. Up(m)[1] \in 1 .. MaxBackupFiles /\ Up(m) = <<Up(m)[1], c>>
      BY <1>0, <1>3
    <3> HIDE DEF M
    <3> QED BY <3>1
  <2> HIDE DEF M
  <2> QED BY <1>2, <2>4, <2>5
\* The names below a limit are those below one less, risen.
<1>6. ASSUME NEW i \in 1 .. MaxBackupFiles
      PROVE  {k \in E : k[1] < i + 1} \subseteq {Up(m) : m \in {k \in D : k[1] < i}} \cup {k \in D \ M : i = MaxBackupFiles}
  <2> SUFFICES ASSUME NEW k \in E, k[1] < i + 1
               PROVE  k \in {Up(m) : m \in {j \in D : j[1] < i}} \cup {j \in D \ M : i = MaxBackupFiles}
    OBVIOUS
  <2>1. CASE \E m \in M : k = Up(m)
    <3>1. PICK m \in M : k = Up(m)
      BY <2>1
    <3>2. m[1] < i /\ m \in D
      BY <1>1, <1>3, <3>1
    <3> QED BY <3>1, <3>2
  <2>2. CASE k \in D \ M
    <3>1. k[1] = MaxBackupFiles /\ i = MaxBackupFiles
      BY <1>0, <1>4, <2>2
    <3> QED BY <2>2, <3>1
  <2> HIDE DEF M
  <2> QED BY <1>2, <2>1, <2>2
<1>7. ASSUME NEW m \in M
      PROVE  Cardinality(NewerIn(E, FALSE, Up(m))) = Cardinality(NewerIn(D, FALSE, m))
  <2> DEFINE S == NewerIn(D, FALSE, m)
  <2>1. m[1] \in 1 .. MaxBackupFiles /\ m[1] # MaxBackupFiles /\ Up(m)[1] = m[1] + 1 /\ m \in D
    BY <1>0, <1>1, <1>3
  <2>2. NewerIn(E, FALSE, Up(m)) = {k \in E : k[1] < m[1] + 1}
    BY <2>1 DEF NewerIn
  <2>3. S = {k \in D : k[1] < m[1]} /\ S \in SUBSET Backups /\ S \in SUBSET D
    BY <1>1 DEF NewerIn
  <2>4. \A k \in S : k \in M
    <3> TAKE k \in S
    <3>1. k \in D /\ k[1] < m[1]
      BY DEF NewerIn
    <3>2. k[1] \in 1 .. MaxBackupFiles
      BY <1>1, <3>1
    <3>3. k[1] < MaxBackupFiles
      BY <1>0, <2>1, <3>1, <3>2
    <3> QED BY <3>1, <3>3
  <2>5. \A k \in S : Up(k) \in E /\ Up(k)[1] < m[1] + 1
    <3> TAKE k \in S
    <3>1. k \in M /\ k \in D /\ k[1] < m[1]
      BY <2>3, <2>4
    <3>2. Up(k)[1] < m[1] + 1
      BY <1>1, <1>3, <2>1, <3>1
    <3> HIDE DEF S, M
    <3> QED BY <1>2, <3>1, <3>2
  <2>6. NewerIn(E, FALSE, Up(m)) = {Up(k) : k \in S}
    <3>1. {k \in E : k[1] < m[1] + 1} \subseteq {Up(k) : k \in {j \in D : j[1] < m[1]}}
      BY <1>6, <2>1
    <3> HIDE DEF S, M
    <3> QED BY <2>2, <2>3, <2>5, <3>1
  <2>7. IsFiniteSet(S)
    BY <2>3, FS_Subset
  <2> HIDE DEF S, M
  <2>8. Cardinality({Up(k) : k \in S}) = Cardinality(S)
    BY <2>3, <2>7, UpCount
  <2> QED BY <2>6, <2>8 DEF S
<1>8. ASSUME NEW n \in D \ M, \A m \in M : Up(m) # n
      PROVE  Cardinality(NewerIn(E, FALSE, n)) = Cardinality(NewerIn(D, FALSE, n))
  <2> DEFINE S == NewerIn(D, FALSE, n)
  <2>1. n[1] = MaxBackupFiles /\ MaxBackupFiles \in 1 .. MaxBackupFiles /\ n \in D /\ n = <<MaxBackupFiles, c>>
    BY <1>0, <1>1, <1>4
  <2>2. S = M
    BY <2>1 DEF NewerIn
  <2>3. NewerIn(E, FALSE, n) = {Up(m) : m \in M}
    <3>1. \A k \in D \ M : ~(k[1] < n[1])
      BY <1>0, <1>4, <2>1
    <3>2. \A m \in M : Up(m)[1] < n[1]
      <4> TAKE m \in M
      <4>1. Up(m)[1] # MaxBackupFiles
        BY <1>3, <1>8, <2>1
      <4>2. Up(m)[1] \in 2 .. MaxBackupFiles
        BY <1>3
      <4> QED BY <1>0, <2>1, <4>1, <4>2
    <3> HIDE DEF M
    <3> QED BY <1>2, <3>1, <3>2 DEF NewerIn
  <2>4. M \in SUBSET Backups /\ M \in SUBSET D
    BY <1>1
  <2> HIDE DEF M, S
  <2>5. IsFiniteSet(M)
    BY <2>4, FS_Subset
  <2>6. Cardinality({Up(m) : m \in M}) = Cardinality(M)
    BY <2>4, <2>5, UpCount
  <2> QED BY <2>2, <2>3, <2>6 DEF S
<1>9. \A n \in E :
        /\ n[1] > 1 \/ MaxBackupFiles = 1
        /\ \E m \in D : /\ r[n] = b[m]
                        /\ Cardinality(NewerIn(E, FALSE, n)) = Cardinality(NewerIn(D, FALSE, m))
  <2> TAKE n \in E
  <2>1. CASE \E m \in M : n = Up(m)
    <3>1. PICK m \in M : n = Up(m)
      BY <2>1
    <3>2. m \in D /\ n[1] > 1
      BY <1>3, <3>1
    <3> HIDE DEF M, D
    <3> QED BY <1>2, <1>7, <3>1, <3>2
  <2>2. CASE ~ \E m \in M : n = Up(m)
    <3>1. n \in D \ M /\ (\A m \in M : Up(m) # n)
      BY <1>2, <2>2
    <3>2. n[1] = MaxBackupFiles /\ MaxBackupFiles \in 1 .. MaxBackupFiles /\ n \in D
      BY <1>0, <1>1, <1>4, <3>1
    <3>3. n[1] > 1 \/ MaxBackupFiles = 1
      BY <1>0, <3>2
    <3> HIDE DEF M, D
    <3> QED BY <1>2, <1>8, <3>1, <3>2, <3>3
  <2> QED BY <2>1, <2>2
<1> HIDE DEF D, M
<1> QED BY <1>5, <1>9 DEF r, E, D

\* Of j backups and the newest, the number that keeps a name.
Grown(j) == IF j < MaxBackupFiles THEN j + 1 ELSE IF j = 0 THEN 1 ELSE j

\* Names without a gap stay so, and leave the first free if there is room.
LEMMA ShiftFull ==
  ASSUME NEW c \in BOOLEAN, NEW b, NEW j \in 0 .. MaxBackupFiles, DOMAIN b = (1 .. j) \X {c}
  PROVE  (DOMAIN rotateBackupFiles(b) \ {<<1, c>>}) \cup {<<1, c>>}
           = (1 .. Grown(j)) \X {c}
<1> DEFINE D == DOMAIN b
           M == {n \in D : n[1] < MaxBackupFiles}
           E == DOMAIN rotateBackupFiles(b)
           h == IF j < MaxBackupFiles THEN j + 1 ELSE IF j = 0 THEN 1 ELSE j
<1>0. MaxBackupFiles \in Nat /\ j \in Nat /\ j <= MaxBackupFiles /\ h \in Nat /\ h >= 1
  BY RotationAssumption
<1>1. DOMAIN b \subseteq (1 .. MaxBackupFiles) \X {c}
  BY <1>0
<1>2. E = (D \ M) \cup {Up(m) : m \in M}
  BY <1>1, ShiftIs
<1>3. \A i \in Nat : <<i, c>> \in D <=> i \in 1 .. j
  OBVIOUS
<1>4. \A x \in E : \E i \in 1 .. h : x = <<i, c>>
  <2> TAKE x \in E
  <2>1. CASE x \in D \ M
    <3>1. PICK i \in 1 .. j : x = <<i, c>>
      BY <2>1
    <3>2. i \in 1 .. h
      BY <1>0, <3>1
    <3> QED BY <3>1, <3>2
  <2>2. CASE \E m \in M : x = Up(m)
    <3>1. PICK m \in M : x = Up(m)
      BY <2>2
    <3>2. PICK i \in 1 .. j : m = <<i, c>> /\ i < MaxBackupFiles
      OBVIOUS
    <3>3. x = <<i + 1, c>>
      BY <3>1, <3>2 DEF Up
    <3>4. i + 1 \in 1 .. h
      BY <1>0, <3>2
    <3> QED BY <3>3, <3>4
  <2> HIDE DEF D, M
  <2> QED BY <1>2, <2>1, <2>2
<1>5. \A i \in 2 .. h : <<i, c>> \in E
  <2> TAKE i \in 2 .. h
  <2>1. i - 1 \in 1 .. j /\ i - 1 < MaxBackupFiles /\ i - 1 \in Nat
    BY <1>0
  <2>2. <<i - 1, c>> \in M /\ Up(<<i - 1, c>>) = <<i, c>>
    BY <2>1 DEF Up
  <2> HIDE DEF D, M
  <2> QED BY <1>2, <2>2
<1> HIDE DEF E, h
<1>6. \A x : x \in (E \ {<<1, c>>}) \cup {<<1, c>>} => x \in (1 .. h) \X {c}
  BY <1>0, <1>4
<1>7. \A x \in (1 .. h) \X {c} : x \in (E \ {<<1, c>>}) \cup {<<1, c>>}
  <2> TAKE x \in (1 .. h) \X {c}
  <2>1. PICK i \in 1 .. h : x = <<i, c>>
    OBVIOUS
  <2>2. i = 1 \/ i \in 2 .. h
    BY <1>0
  <2> QED BY <1>5, <2>1, <2>2
<1> QED BY <1>6, <1>7 DEF E, h, Grown

(***************************************************************************)
(* The invariant of a sink.                                                *)
(***************************************************************************)
SinkType(s) ==
  s \in [policy : RotationPolicies, open : BOOLEAN, file : {s.file}, currentSize : {s.currentSize},
         lastRotation : {s.lastRotation}, backups : {s.backups}, lines : Seq(Nat), cuts : Seq(Nat),
         faults : {s.faults}]

CutsSound(s) == \A i \in 1 .. Len(s.cuts) : s.cuts[i] <= Len(s.lines)

BackupsBounded(b, stamped, now) ==
  /\ IsFiniteSet(DOMAIN b)
  /\ IF stamped THEN DOMAIN b \subseteq (0 .. now) \X BOOLEAN /\ Cardinality(DOMAIN b) <= MaxBackupFiles
     ELSE DOMAIN b \subseteq (1 .. MaxBackupFiles) \X BOOLEAN

Allowed(k) == IF k < MaxBackupFiles THEN k ELSE MaxBackupFiles

\* Backups of one kind, each with the lines between two rotations.
Pieces(s, b) ==
  \A n \in DOMAIN b :
    /\ n[2] = s.policy.compressionEnabled
    /\ LET age == Cardinality(NewerIn(DOMAIN b, s.policy.timestampedNames, n))
       IN  age < Len(s.cuts) /\ b[n] = Between(s, Len(s.cuts) - 1 - age)

Whole(s) ==
  /\ s.file = Between(s, Len(s.cuts))
  /\ Pieces(s, s.backups)
  /\ IF s.policy.timestampedNames THEN Cardinality(DOMAIN s.backups) = Allowed(Len(s.cuts))
     ELSE s.faults = {} =>
            DOMAIN s.backups = (1 .. Allowed(Len(s.cuts))) \X {s.policy.compressionEnabled}

SinkInv(s, now) ==
  /\ SinkType(s) /\ CutsSound(s) /\ BackupsBounded(s.backups, s.policy.timestampedNames, now)
  /\ "open" \notin s.faults => s.open
  /\ s.faults \subseteq {"rename"} => Whole(s)

LEMMA SinkFields ==
  ASSUME NEW s, SinkType(s)
  PROVE  /\ s.policy.compressionEnabled \in BOOLEAN /\ s.policy.timestampedNames \in BOOLEAN
         /\ s.policy \in RotationPolicies /\ s.open \in BOOLEAN
         /\ s.lines \in Seq(Nat) /\ s.cuts \in Seq(Nat)
         /\ Len(s.lines) \in Nat /\ Len(s.cuts) \in Nat
<1>1. s.policy \in RotationPolicies /\ s.open \in BOOLEAN /\ s.lines \in Seq(Nat) /\ s.cuts \in Seq(Nat)
  BY DEF SinkType
<1>2. s.policy.compressionEnabled \in BOOLEAN /\ s.policy.timestampedNames \in BOOLEAN
  BY <1>1 DEF RotationPolicies
<1> QED BY <1>1, <1>2

(***************************************************************************)
(* A line appended: what lies before it stays, what lay at the end gets it.*)
(***************************************************************************)
LEMMA SubSeqBefore ==
  ASSUME NEW l \in Seq(Nat), NEW x \in Nat, NEW a \in 0 .. Len(l), NEW b \in 0 .. Len(l)
  PROVE  SubSeq(Append(l, x), a + 1, b) = SubSeq(l, a + 1, b)
<1>1. PICK m : m = Append(l, x)
  OBVIOUS
<1>2. m \in Seq(Nat) /\ Len(m) = Len(l) + 1 /\ \A i \in 1 .. Len(l) : m[i] = l[i]
  BY <1>1, AppendProperties
<1>3. a \in Nat /\ b \in Nat /\ Len(l) \in Nat /\ a + 1 \in Int /\ b \in Int
  OBVIOUS
<1>4. \A i \in a + 1 .. b : i \in 1 .. Len(l)
  BY <1>3
<1>5. \A i \in a + 1 .. b : m[i] = l[i] /\ l[i] \in Nat /\ m[i] \in Nat
  BY <1>2, <1>4
<1>6. /\ SubSeq(m, a + 1, b) \in Seq(Nat) /\ Len(SubSeq(m, a + 1, b)) = IF a + 1 <= b THEN b - (a + 1) + 1 ELSE 0
      /\ \A i \in 1 .. b - (a + 1) + 1 : SubSeq(m, a + 1, b)[i] = m[a + 1 + i - 1]
  BY <1>3, <1>5, SubSeqProperties
<1>7. /\ SubSeq(l, a + 1, b) \in Seq(Nat) /\ Len(SubSeq(l, a + 1, b)) = IF a + 1 <= b THEN b - (a + 1) + 1 ELSE 0
      /\ \A i \in 1 .. b - (a + 1) + 1 : SubSeq(l, a + 1, b)[i] = l[a + 1 + i - 1]
  BY <1>3, <1>5, SubSeqProperties
<1>8. ASSUME NEW i \in 1 .. Len(SubSeq(m, a + 1, b))
      PROVE  SubSeq(m, a + 1, b)[i] = SubSeq(l, a + 1, b)[i]
  <2>1. i \in 1 .. b - (a + 1) + 1 /\ a + 1 + i - 1 \in a + 1 .. b
    BY <1>3, <1>6
  <2> QED BY <1>5, <1>6, <1>7, <2>1
<1>9. Len(SubSeq(m, a + 1, b)) = Len(SubSeq(l, a + 1, b))
  BY <1>6, <1>7
<1>10. SubSeq(m, a + 1, b) = SubSeq(l, a + 1, b)
  BY <1>6, <1>7, <1>8, <1>9, SeqEqual
<1> QED BY <1>1, <1>10

LEMMA SubSeqToEnd ==
  ASSUME NEW l \in Seq(Nat), NEW x \in Nat, NEW a \in 0 .. Len(l)
  PROVE  SubSeq(Append(l, x), a + 1, Len(l) + 1) = Append(SubSeq(l, a + 1, Len(l)), x)
<1>1. PICK m : m = Append(l, x)
  OBVIOUS
<1>2. /\ m \in Seq(Nat) /\ Len(m) = Len(l) + 1 /\ \A i \in 1 .. Len(l) : m[i] = l[i]
      /\ m[Len(l) + 1] = x
  BY <1>1, AppendProperties
<1>3. PICK n \in Nat : n = Len(l)
  OBVIOUS
<1>4. a \in Nat /\ a <= n /\ a + 1 \in 1 .. Len(m) /\ n + 1 \in a + 1 .. Len(m)
  BY <1>2, <1>3
<1>5. SubSeq(m, a + 1, n + 1) = SubSeq(m, a + 1, n + 1 - 1) \o <<m[n + 1]>>
  <2>1. PICK i \in 1 .. Len(m) : i = a + 1
    BY <1>4
  <2>2. PICK j \in i .. Len(m) : j = n + 1
    BY <1>4, <2>1
  <2>3. SubSeq(m, i, j) = SubSeq(m, i, j - 1) \o <<m[j]>>
    BY <1>2, SubSeqRecursiveSecond
  <2> QED BY <2>1, <2>2, <2>3
<1>6. n + 1 - 1 = n /\ n \in 0 .. Len(l)
  BY <1>3
<1>7. SubSeq(m, a + 1, n) = SubSeq(l, a + 1, n)
  BY <1>1, <1>6, SubSeqBefore
<1>8. SubSeq(l, a + 1, n) \in Seq(Nat)
  <2>1. \A i \in a + 1 .. n : l[i] \in Nat
    BY <1>3, <1>4
  <2> QED BY <1>4, <2>1, SubSeqProperties
<1>9. Append(SubSeq(l, a + 1, n), x) = SubSeq(l, a + 1, n) \o <<x>>
  BY <1>8, AppendIsConcat
<1>10. SubSeq(m, a + 1, n + 1) = Append(SubSeq(l, a + 1, n), x)
  BY <1>2, <1>3, <1>5, <1>6, <1>7, <1>9
<1> QED BY <1>1, <1>3, <1>10

(***************************************************************************)
(* The pieces between rotations: a new cut leaves the earlier ones.        *)
(***************************************************************************)
LEMMA PieceCut ==
  ASSUME NEW s, NEW r, SinkType(s), r.lines = s.lines, r.cuts = Append(s.cuts, Len(s.lines))
  PROVE  /\ Len(r.cuts) = Len(s.cuts) + 1
         /\ \A k \in 0 .. Len(s.cuts) : Between(r, k) = Between(s, k)
         /\ Between(r, Len(r.cuts)) = <<>>
<1>1. PICK C \in Seq(Nat), l \in Seq(Nat) : C = s.cuts /\ l = s.lines
  BY SinkFields
<1>2. PICK n \in Nat, k \in Nat : n = Len(l) /\ k = Len(C)
  OBVIOUS
<1>3. PICK q : q = Append(C, n)
  OBVIOUS
<1>4. Len(q) = k + 1 /\ q[k + 1] = n /\ \A i \in 1 .. k : q[i] = C[i]
  BY <1>2, <1>3, AppendProperties
<1>5. r.cuts = q /\ r.lines = l
  BY <1>1, <1>2, <1>3
<1>6. Between(r, k + 1) = SubSeq(l, n + 1, n)
  <2>1. Cut(r, k + 1) = n
    BY <1>4, <1>5 DEF Cut
  <2>2. ~(k + 1 < Len(q))
    BY <1>4
  <2> QED BY <1>2, <1>5, <2>1, <2>2 DEF Between
<1>7. SubSeq(l, n + 1, n) = <<>>
  BY SubSeqEmpty
<1>8. ASSUME NEW j \in 0 .. k
      PROVE  Between(r, j) = Between(s, j)
  <2>1. Cut(r, j) = Cut(s, j)
    <3>1. j = 0 \/ j \in 1 .. k
      OBVIOUS
    <3> QED BY <1>1, <1>4, <1>5, <3>1 DEF Cut
  <2>2. CASE j < k
    <3>1. j < Len(q) /\ q[j + 1] = C[j + 1]
      <4>1. j + 1 \in 1 .. k /\ j < k + 1
        BY <2>2
      <4> QED BY <1>4, <4>1
    <3> QED BY <1>1, <1>2, <1>5, <2>1, <2>2, <3>1 DEF Between
  <2>3. CASE j = k
    <3>1. j < Len(q) /\ q[j + 1] = n /\ ~(j < Len(C))
      BY <1>2, <1>4, <2>3
    <3> QED BY <1>1, <1>2, <1>5, <2>1, <3>1 DEF Between
  <2> QED BY <2>2, <2>3
<1> QED BY <1>1, <1>2, <1>4, <1>5, <1>6, <1>7, <1>8

LEMMA BetweenIs ==
  ASSUME NEW s, NEW k
  PROVE  /\ k < Len(s.cuts) => Between(s, k) = SubSeq(s.lines, Cut(s, k) + 1, s.cuts[k + 1])
         /\ ~(k < Len(s.cuts)) => Between(s, k) = SubSeq(s.lines, Cut(s, k) + 1, Len(s.lines))
<1>1. CASE k < Len(s.cuts)
  BY <1>1 DEF Between
<1>2. CASE ~(k < Len(s.cuts))
  BY <1>2 DEF Between
<1> QED BY <1>1, <1>2

\* A line goes to the last of them.
LEMMA PieceLine ==
  ASSUME NEW s, NEW r, SinkType(s), CutsSound(s), NEW x \in Nat, r.lines = Append(s.lines, x), r.cuts = s.cuts
  PROVE  /\ \A k \in 0 .. Len(s.cuts) - 1 : Between(r, k) = Between(s, k)
         /\ Between(r, Len(r.cuts)) = Append(Between(s, Len(s.cuts)), x)
<1>1. PICK C \in Seq(Nat), l \in Seq(Nat) : C = s.cuts /\ l = s.lines
  BY SinkFields
<1>2. PICK n \in Nat, k \in Nat : n = Len(l) /\ k = Len(C)
  OBVIOUS
<1>3. PICK m : m = Append(l, x)
  OBVIOUS
<1>4. Len(m) = n + 1
  BY <1>2, <1>3, AppendProperties
<1>5. r.cuts = C /\ r.lines = m
  BY <1>1, <1>3
<1>6. \A i \in 1 .. k : C[i] \in 0 .. n
  <2>1. \A i \in 1 .. k : C[i] <= n
    BY <1>1, <1>2 DEF CutsSound
  <2>2. \A i \in 1 .. k : C[i] \in Nat
    BY <1>2
  <2> QED BY <2>1, <2>2
<1>7. \A i \in 0 .. k : Cut(s, i) \in 0 .. n /\ Cut(r, i) = Cut(s, i)
  <2> TAKE i \in 0 .. k
  <2>1. i = 0 \/ i \in 1 .. k
    OBVIOUS
  <2> QED BY <1>1, <1>5, <1>6, <2>1 DEF Cut
<1>8. ASSUME NEW j \in 0 .. k - 1
      PROVE  Between(r, j) = Between(s, j)
  <2>1. j \in 0 .. k /\ j + 1 \in 1 .. k /\ j < k
    OBVIOUS
  <2>2. PICK a \in 0 .. n, b \in 0 .. n : a = Cut(s, j) /\ b = C[j + 1]
    BY <1>6, <1>7, <2>1
  <2>3. Between(r, j) = SubSeq(m, a + 1, b)
    BY <1>2, <1>5, <1>7, <2>1, <2>2 DEF Between
  <2>4. Between(s, j) = SubSeq(l, a + 1, b)
    BY <1>1, <1>2, <2>1, <2>2 DEF Between
  <2>5. SubSeq(m, a + 1, b) = SubSeq(l, a + 1, b)
    BY <1>2, <1>3, SubSeqBefore
  <2> QED BY <2>3, <2>4, <2>5
<1>9. Between(r, k) = Append(Between(s, k), x)
  <2>1. PICK a \in 0 .. n : a = Cut(s, k)
    BY <1>7
  <2>2. Between(r, k) = SubSeq(m, a + 1, n + 1)
    <3>1. ~(k < Len(r.cuts))
      BY <1>2, <1>5
    <3>2. Between(r, k) = SubSeq(r.lines, Cut(r, k) + 1, Len(r.lines))
      BY <3>1, BetweenIs
    <3>3. Cut(r, k) = a
      BY <1>7, <2>1
    <3> QED BY <1>4, <1>5, <3>2, <3>3
  <2>3. Between(s, k) = SubSeq(l, a + 1, n)
    <3>1. ~(k < Len(s.cuts))
      BY <1>1, <1>2
    <3>2. Between(s, k) = SubSeq(s.lines, Cut(s, k) + 1, Len(s.lines))
      BY <3>1, BetweenIs
    <3> QED BY <1>1, <1>2, <2>1, <3>2
  <2>4. SubSeq(m, a + 1, n + 1) = Append(SubSeq(l, a + 1, n), x)
    BY <1>2, <1>3, SubSeqToEnd
  <2> QED BY <2>2, <2>3, <2>4
<1> QED BY <1>1, <1>2, <1>5, <1>8, <1>9

-----------------------------------------------------------------------------
(* What a rotation leaves, field by field *)

Name(s, now) == IF s.policy.timestampedNames THEN now ELSE 1
Shifted(s) == IF s.policy.timestampedNames THEN s.backups ELSE rotateBackupFiles(s.backups)
Renamed(s, now) == IF s.open THEN Put(Shifted(s), <<Name(s, now), FALSE>>, s.file) ELSE Shifted(s)
Packed(s, now, fault) ==
  IF s.policy.compressionEnabled THEN compressBackup(Renamed(s, now), Name(s, now), fault) ELSE Renamed(s, now)
Again(s, now) == s.policy.timestampedNames /\ \E n \in DOMAIN s.backups : n[1] = now
FaultsNow(s, now, fault) == s.faults \union ({fault} \ {"none"}) \union (IF Again(s, now) THEN {"sameSecond"} ELSE {})

LEMMA RotationFields ==
  ASSUME NEW s, SinkType(s), NEW now \in Nat, NEW fault
  PROVE  LET r == performRotation(s, now, fault)
         IN  /\ SinkType(r)
             /\ r.policy = s.policy /\ r.lines = s.lines /\ r.faults = FaultsNow(s, now, fault)
             /\ fault = "rename" /\ s.open =>
                  r.open = s.open /\ r.file = s.file /\ r.backups = Shifted(s) /\ r.cuts = s.cuts
             /\ ~(fault = "rename" /\ s.open) =>
                  /\ r.open = (fault # "open") /\ r.file = <<>>
                  /\ r.backups = cleanupOldBackups(s, Packed(s, now, fault))
                  /\ r.cuts = IF s.open THEN Append(s.cuts, Len(s.lines)) ELSE s.cuts
<1> DEFINE r == performRotation(s, now, fault)
<1>1. PICK F : F = FaultsNow(s, now, fault)
  OBVIOUS
<1>2. s.lines \in Seq(Nat) /\ s.cuts \in Seq(Nat) /\ s.open \in BOOLEAN /\ s.policy \in RotationPolicies
  BY DEF SinkType
<1>3. CASE fault = "rename" /\ s.open
  <2>1. PICK b : b = Shifted(s)
    OBVIOUS
  <2>2. PICK v : v = Len(s.file)
    OBVIOUS
  <2>3. r = [s EXCEPT !.backups = b, !.currentSize = v, !.faults = F]
    BY <1>1, <1>3, <2>1, <2>2 DEF performRotation, Shifted, FaultsNow, Again
  <2> HIDE DEF r
  <2>4. /\ r.policy = s.policy /\ r.lines = s.lines /\ r.faults = F
        /\ r.open = s.open /\ r.file = s.file /\ r.backups = b /\ r.cuts = s.cuts
    BY <2>3 DEF SinkType
  <2>5. SinkType(r)
    BY <2>3, <2>4 DEF SinkType
  <2> QED BY <1>1, <1>3, <2>1, <2>4, <2>5 DEF r
<1>4. CASE ~(fault = "rename" /\ s.open)
  <2>1. PICK b : b = cleanupOldBackups(s, Packed(s, now, fault))
    OBVIOUS
  <2>2. PICK none : none = <<>>
    OBVIOUS
  <2>3. PICK o : o = (fault # "open")
    BY Zenon
  <2>31. o \in BOOLEAN
    <3>1. CASE fault = "open"
      <4>1. o = FALSE
        BY <2>3, <3>1, Zenon
      <4> QED BY <4>1
    <3>2. CASE fault # "open"
      <4>1. o = TRUE
        BY <2>3, <3>2, Zenon
      <4> QED BY <4>1
    <3> QED BY <3>1, <3>2
  <2>4. PICK v : v = IF fault = "open" THEN s.currentSize ELSE 0
    OBVIOUS
  <2>5. PICK w : w = IF fault = "open" THEN s.lastRotation ELSE now
    OBVIOUS
  <2>6. PICK C \in Seq(Nat) : C = IF s.open THEN Append(s.cuts, Len(s.lines)) ELSE s.cuts
    <3>1. Len(s.lines) \in Nat
      BY <1>2
    <3>2. Append(s.cuts, Len(s.lines)) \in Seq(Nat)
      BY <1>2, <3>1, AppendProperties
    <3> QED BY <1>2, <3>2
  <2>7. r = [s EXCEPT !.backups = b, !.open = o, !.file = none, !.currentSize = v,
                      !.lastRotation = w, !.cuts = C, !.faults = F]
    BY <1>1, <1>4, <2>1, <2>2, <2>3, <2>4, <2>5, <2>6
       DEF performRotation, Packed, Renamed, Shifted, Name, FaultsNow, Again
  <2> HIDE DEF r
  <2>8. /\ r.policy = s.policy /\ r.lines = s.lines /\ r.faults = F
        /\ r.open = o /\ r.file = none /\ r.backups = b /\ r.cuts = C
    BY <2>7 DEF SinkType
  <2>9. SinkType(r)
    BY <2>31, <2>7, <2>8 DEF SinkType
  <2> QED BY <1>1, <1>4, <2>1, <2>2, <2>3, <2>6, <2>8, <2>9 DEF r
<1> QED BY <1>3, <1>4

(***************************************************************************)
(* The names of a rotation's backup, and what is kept of the others.       *)
(***************************************************************************)
LEMMA PackedNames ==
  ASSUME NEW s, NEW now, NEW fault
  PROVE  LET S == DOMAIN Shifted(s)
             y == <<Name(s, now), FALSE>>
             z == <<Name(s, now), TRUE>>
             P == DOMAIN Packed(s, now, fault)
         IN  P = S \/ P = S \cup {y} \/ P = S \cup {y, z} \/ P = S \cup {z}
             \/ P = (S \cup {y, z}) \ {y} \/ P = (S \cup {z}) \ {y}
<1>1. PICK b : b = Shifted(s)
  OBVIOUS
<1>2. PICK y : y = <<Name(s, now), FALSE>>
  OBVIOUS
<1>3. PICK z : z = <<Name(s, now), TRUE>>
  OBVIOUS
<1>4. PICK R : R = Renamed(s, now)
  OBVIOUS
<1>5. DOMAIN R = DOMAIN b \/ DOMAIN R = DOMAIN b \cup {y}
  BY <1>1, <1>2, <1>4 DEF Renamed, Put
<1>6. DOMAIN Put(R, z, <<>>) = DOMAIN R \cup {z}
  BY DEF Put
<1>7. DOMAIN Without(Put(R, z, R[y]), {y}) = (DOMAIN R \cup {z}) \ {y}
  BY DEF Put, Without
<1>8. \/ Packed(s, now, fault) = R
      \/ Packed(s, now, fault) = Put(R, z, <<>>)
      \/ Packed(s, now, fault) = Without(Put(R, z, R[y]), {y})
  BY <1>2, <1>3, <1>4 DEF Packed, compressBackup
<1>9. PICK P : P = DOMAIN Packed(s, now, fault)
  OBVIOUS
<1>10. P = DOMAIN R \/ P = DOMAIN R \cup {z} \/ P = (DOMAIN R \cup {z}) \ {y}
  BY <1>6, <1>7, <1>8, <1>9
<1>11. PICK S : S = DOMAIN b
  OBVIOUS
<1>12. P = S \/ P = S \cup {y} \/ P = S \cup {y, z} \/ P = S \cup {z}
       \/ P = (S \cup {y, z}) \ {y} \/ P = (S \cup {z}) \ {y}
  BY <1>5, <1>10, <1>11
<1> QED BY <1>1, <1>2, <1>3, <1>9, <1>11, <1>12

\* The backups b with f under the name z.
PutInto(p, b, z, f) ==
  /\ DOMAIN p = DOMAIN b \cup {z}
  /\ \A n \in DOMAIN p : (n = z => p[n] = f) /\ (n # z => p[n] = b[n])

OneKind(b, c) == \A n \in DOMAIN b : n[2] = c

\* The rotation comes to the end of compressBackup.
Succeeds(s, fault) == s.open /\ fault \notin {"compress", "partial"}

LEMMA PackedWhole ==
  ASSUME NEW s, NEW now, NEW fault, Succeeds(s, fault),
         NEW c \in BOOLEAN, c = s.policy.compressionEnabled, OneKind(Shifted(s), c)
  PROVE  PutInto(Packed(s, now, fault), Shifted(s), <<Name(s, now), c>>, s.file)
<1>0. s.open /\ fault \notin {"compress", "partial"} /\ \A n \in DOMAIN Shifted(s) : n[2] = c
  BY DEF Succeeds, OneKind
<1>1. PICK b : b = Shifted(s)
  OBVIOUS
<1>2. PICK y : y = <<Name(s, now), FALSE>>
  OBVIOUS
<1>3. PICK f : f = s.file
  OBVIOUS
<1>4. PICK R : R = Put(b, y, f)
  OBVIOUS
<1>5. R = Renamed(s, now)
  BY <1>0, <1>1, <1>2, <1>3, <1>4 DEF Renamed
<1>6. DOMAIN R = DOMAIN b \cup {y} /\ R[y] = f /\ \A n \in DOMAIN b : n # y => R[n] = b[n]
  BY <1>4 DEF Put
<1>7. CASE ~c
  <2>1. Packed(s, now, fault) = R /\ <<Name(s, now), c>> = y
    BY <1>2, <1>5, <1>7 DEF Packed
  <2> QED BY <1>1, <1>3, <1>6, <2>1 DEF PutInto
<1>8. CASE c
  <2>1. PICK z : z = <<Name(s, now), TRUE>>
    OBVIOUS
  <2>2. y \in DOMAIN R
    BY <1>6
  <2>3. Packed(s, now, fault) = Without(Put(R, z, R[y]), {y})
    BY <1>0, <1>2, <1>5, <1>8, <2>1, <2>2 DEF Packed, compressBackup
  <2>4. y # z /\ <<Name(s, now), c>> = z
    BY <1>2, <1>8, <2>1
  <2>5. y \notin DOMAIN b
    BY <1>0, <1>1, <1>2, <1>8
  <2>6. PICK p : p = Without(Put(R, z, R[y]), {y})
    OBVIOUS
  <2>7. DOMAIN p = (DOMAIN R \cup {z}) \ {y} /\ \A n \in DOMAIN p : p[n] = IF n = z THEN R[y] ELSE R[n]
    BY <2>6 DEF Put, Without
  <2>8. DOMAIN p = DOMAIN b \cup {z}
    BY <1>6, <2>4, <2>5, <2>7
  <2>9. \A n \in DOMAIN p : (n = z => p[n] = f) /\ (n # z => p[n] = b[n])
    BY <1>6, <2>4, <2>5, <2>7, <2>8
  <2> QED BY <1>1, <1>3, <2>3, <2>4, <2>6, <2>8, <2>9 DEF PutInto
<1> QED BY <1>7, <1>8

(***************************************************************************)
(* The oldest are removed.                                                 *)
(***************************************************************************)
\* The files of b with the names S.
Retains(r, b, S) == DOMAIN r = S /\ \A n \in S : r[n] = b[n]

LEMMA CleanupStamped ==
  ASSUME NEW s, NEW b, s.policy.timestampedNames
  PROVE  Retains(cleanupOldBackups(s, b), b, Staying(DOMAIN b))
<1> DEFINE gone == {n \in DOMAIN b : Cardinality(DOMAIN b) - Cardinality(OlderIn(DOMAIN b, n)) > MaxBackupFiles}
<1>1. cleanupOldBackups(s, b) = Without(b, gone)
  BY DEF cleanupOldBackups, OlderIn
<1>2. DOMAIN b \ gone = Staying(DOMAIN b)
  BY DEF Staying
<1> HIDE DEF gone
<1> QED BY <1>1, <1>2 DEF Without, Retains

LEMMA CleanupNumbered ==
  ASSUME NEW s, NEW b, ~s.policy.timestampedNames,
         DOMAIN b \subseteq ((1 .. MaxBackupFiles) \cup {1}) \X BOOLEAN
  PROVE  Retains(cleanupOldBackups(s, b), b, {n \in DOMAIN b : n[1] <= MaxBackupFiles})
<1> DEFINE gone == {n \in DOMAIN b : n[1] \in (MaxBackupFiles + 1)..(MaxBackupFiles + 10)}
<1>0. MaxBackupFiles \in Nat
  BY RotationAssumption
<1>1. cleanupOldBackups(s, b) = Without(b, gone)
  BY DEF cleanupOldBackups
<1>2. \A n \in DOMAIN b : n[1] \in (MaxBackupFiles + 1)..(MaxBackupFiles + 10) <=> ~(n[1] <= MaxBackupFiles)
  <2> TAKE n \in DOMAIN b
  <2>1. n[1] \in 1 .. MaxBackupFiles \/ n[1] = 1
    OBVIOUS
  <2> QED BY <1>0, <2>1
<1>3. DOMAIN b \ gone = {n \in DOMAIN b : n[1] <= MaxBackupFiles}
  BY <1>2
<1> HIDE DEF gone
<1> QED BY <1>1, <1>3 DEF Without, Retains

LEMMA CleanupBounded ==
  ASSUME NEW s, NEW b, s.policy.timestampedNames \in BOOLEAN, NEW now \in Nat, IsFiniteSet(DOMAIN b),
         s.policy.timestampedNames => DOMAIN b \subseteq (0 .. now) \X BOOLEAN,
         ~s.policy.timestampedNames => DOMAIN b \subseteq ((1 .. MaxBackupFiles) \cup {1}) \X BOOLEAN
  PROVE  BackupsBounded(cleanupOldBackups(s, b), s.policy.timestampedNames, now)
<1>0. MaxBackupFiles \in Nat
  BY RotationAssumption
<1>1. PICK D : D = DOMAIN b
  OBVIOUS
<1>2. PICK E : E = DOMAIN cleanupOldBackups(s, b)
  OBVIOUS
<1>3. CASE s.policy.timestampedNames
  <2>1. D \subseteq (0 .. now) \X BOOLEAN
    BY <1>1, <1>3
  <2>2. D \in SUBSET Backups
    BY <2>1 DEF Backups
  <2>3. E = Staying(D)
    BY <1>1, <1>2, <1>3, CleanupStamped DEF Retains
  <2>4. IsFiniteSet(E) /\ Cardinality(E) <= MaxBackupFiles
    BY <1>1, <2>2, <2>3, StayingBound
  <2>5. E \subseteq (0 .. now) \X BOOLEAN
    BY <2>1, <2>3 DEF Staying
  <2> QED BY <1>2, <1>3, <2>4, <2>5 DEF BackupsBounded
<1>4. CASE ~s.policy.timestampedNames
  <2>1. D \subseteq ((1 .. MaxBackupFiles) \cup {1}) \X BOOLEAN
    BY <1>1, <1>4
  <2>2. E = {n \in D : n[1] <= MaxBackupFiles}
    BY <1>1, <1>2, <1>4, <2>1, CleanupNumbered DEF Retains
  <2>3. E \in SUBSET D
    BY <2>2
  <2>4. IsFiniteSet(E)
    BY <1>1, <2>3, FS_Subset
  <2>5. ASSUME NEW n \in E
        PROVE  n \in (1 .. MaxBackupFiles) \X BOOLEAN
    <3>1. n \in ((1 .. MaxBackupFiles) \cup {1}) \X BOOLEAN /\ n[1] <= MaxBackupFiles
      BY <2>1, <2>2
    <3>2. n[1] \in 1 .. MaxBackupFiles
      BY <1>0, <3>1
    <3> QED BY <3>1, <3>2
  <2> QED BY <1>2, <1>4, <2>4, <2>5 DEF BackupsBounded
<1> QED BY <1>3, <1>4

\* A rotation keeps the bound, whatever goes wrong.
LEMMA RotationBounded ==
  ASSUME NEW s, NEW now \in Nat, NEW fault, SinkInv(s, now)
  PROVE  LET r == performRotation(s, now, fault)
         IN  BackupsBounded(r.backups, r.policy.timestampedNames, now)
<1>0. SinkType(s) /\ BackupsBounded(s.backups, s.policy.timestampedNames, now)
      /\ s.policy.timestampedNames \in BOOLEAN /\ MaxBackupFiles \in Nat
  BY SinkFields, RotationAssumption DEF SinkInv
<1>1. PICK r : r = performRotation(s, now, fault)
  OBVIOUS
<1>2. PICK p : p = Packed(s, now, fault)
  OBVIOUS
<1>3. PICK S : S = DOMAIN Shifted(s)
  OBVIOUS
<1>4. PICK b : b = Shifted(s)
  OBVIOUS
<1>5. IsFiniteSet(S) /\ BackupsBounded(b, s.policy.timestampedNames, now)
  <2>1. CASE s.policy.timestampedNames
    <3>1. b = s.backups
      BY <1>4, <2>1 DEF Shifted
    <3> QED BY <1>0, <1>3, <1>4, <3>1 DEF BackupsBounded
  <2>2. CASE ~s.policy.timestampedNames
    <3>1. b = rotateBackupFiles(s.backups)
      BY <1>4, <2>2 DEF Shifted
    <3>2. DOMAIN s.backups \subseteq (1 .. MaxBackupFiles) \X BOOLEAN
      BY <1>0, <2>2 DEF BackupsBounded
    <3>3. S \subseteq (1 .. MaxBackupFiles) \X BOOLEAN
      BY <1>3, <1>4, <3>1, <3>2, ShiftNames
    <3>4. IsFiniteSet((1 .. MaxBackupFiles) \X BOOLEAN)
      <4>1. IsFiniteSet(1 .. MaxBackupFiles)
        BY <1>0, FS_Interval
      <4>2. IsFiniteSet(BOOLEAN)
        <5>1. BOOLEAN = {TRUE} \cup {FALSE}
          BY Zenon
        <5>2. IsFiniteSet({TRUE})
          BY FS_Singleton
        <5>3. IsFiniteSet({TRUE} \cup {FALSE})
          BY <5>2, FS_AddElement
        <5> QED BY <5>1, <5>3
      <4> QED BY <4>1, <4>2, FS_Product
    <3>5. IsFiniteSet(S)
      BY <3>3, <3>4, FS_Subset
    <3> QED BY <1>3, <1>4, <2>2, <3>3, <3>5 DEF BackupsBounded
  <2> QED BY <1>0, <2>1, <2>2
<1>6. CASE fault = "rename" /\ s.open
  <2>1. r.backups = b /\ r.policy = s.policy
    BY <1>0, <1>1, <1>4, <1>6, RotationFields
  <2> QED BY <1>1, <1>5, <2>1
<1>7. CASE ~(fault = "rename" /\ s.open)
  <2>1. r.backups = cleanupOldBackups(s, p) /\ r.policy = s.policy
    BY <1>0, <1>1, <1>2, <1>7, RotationFields
  <2>2. PICK y : y = <<Name(s, now), FALSE>>
    OBVIOUS
  <2>3. PICK z : z = <<Name(s, now), TRUE>>
    OBVIOUS
  <2>4. DOMAIN p \subseteq S \cup {y, z}
    <3>1. PICK P : P = DOMAIN p
      OBVIOUS
    <3>2. P = S \/ P = S \cup {y} \/ P = S \cup {y, z} \/ P = S \cup {z}
          \/ P = (S \cup {y, z}) \ {y} \/ P = (S \cup {z}) \ {y}
      BY <1>2, <1>3, <2>2, <2>3, <3>1, PackedNames
    <3> QED BY <3>1, <3>2
  <2>5. IsFiniteSet(DOMAIN p)
    <3>1. IsFiniteSet(S \cup {y})
      BY <1>5, FS_AddElement
    <3>2. IsFiniteSet((S \cup {y}) \cup {z})
      BY <3>1, FS_AddElement
    <3>3. DOMAIN p \in SUBSET ((S \cup {y}) \cup {z})
      BY <2>4
    <3> QED BY <3>2, <3>3, FS_Subset
  <2>6. CASE s.policy.timestampedNames
    <3>1. S \subseteq (0 .. now) \X BOOLEAN
      BY <1>3, <1>4, <1>5, <2>6 DEF BackupsBounded
    <3>2. y \in (0 .. now) \X BOOLEAN /\ z \in (0 .. now) \X BOOLEAN
      <4>1. y = <<now, FALSE>> /\ z = <<now, TRUE>>
        BY <2>2, <2>3, <2>6 DEF Name
      <4>2. now \in 0 .. now /\ FALSE \in BOOLEAN /\ TRUE \in BOOLEAN
        OBVIOUS
      <4>3. \A c \in BOOLEAN, i \in 0 .. now : <<i, c>> \in (0 .. now) \X BOOLEAN
        BY Zenon
      <4> QED BY <4>1, <4>2, <4>3
    <3>3. DOMAIN p \subseteq (0 .. now) \X BOOLEAN
      BY <2>4, <3>1, <3>2
    <3>4. BackupsBounded(cleanupOldBackups(s, p), s.policy.timestampedNames, now)
      <4>1. s.policy.timestampedNames => DOMAIN p \subseteq (0 .. now) \X BOOLEAN
        BY <3>3
      <4>2. ~s.policy.timestampedNames => DOMAIN p \subseteq ((1 .. MaxBackupFiles) \cup {1}) \X BOOLEAN
        BY <2>6
      <4> QED BY <1>0, <2>5, <4>1, <4>2, CleanupBounded
    <3> QED BY <1>1, <2>1, <3>4
  <2>7. CASE ~s.policy.timestampedNames
    <3>1. S \subseteq (1 .. MaxBackupFiles) \X BOOLEAN
      BY <1>3, <1>4, <1>5, <2>7 DEF BackupsBounded
    <3> DEFINE N == (1 .. MaxBackupFiles) \cup {1}
    <3>2. y \in N \X BOOLEAN /\ z \in N \X BOOLEAN
      <4>1. y = <<1, FALSE>> /\ z = <<1, TRUE>>
        BY <2>2, <2>3, <2>7 DEF Name
      <4>2. 1 \in N
        OBVIOUS
      <4> HIDE DEF N
      <4>3. \A c \in BOOLEAN, i \in N : <<i, c>> \in N \X BOOLEAN
        BY Zenon
      <4> QED BY <4>1, <4>2, <4>3
    <3>3. DOMAIN p \subseteq N \X BOOLEAN
      <4>1. S \subseteq N \X BOOLEAN
        BY <3>1
      <4> HIDE DEF N
      <4> QED BY <2>4, <3>2, <4>1
    <3>4. BackupsBounded(cleanupOldBackups(s, p), s.policy.timestampedNames, now)
      BY <1>0, <2>5, <2>7, <3>3, CleanupBounded
    <3> QED BY <1>1, <2>1, <3>4
  <2> QED BY <1>0, <2>6, <2>7
<1> QED BY <1>6, <1>7

(***************************************************************************)
(* A backup of number 1 below the others: the newest.                      *)
(***************************************************************************)
AddedFirst(E, K, z) ==
  /\ Cardinality(NewerIn(K, FALSE, z)) = 0
  /\ \A n \in E : n # z =>
       /\ Cardinality(NewerIn(E, FALSE, n)) \in Nat
       /\ Cardinality(NewerIn(K, FALSE, n)) = Cardinality(NewerIn(E, FALSE, n)) + 1

FirstFree(E) == \A n \in E : n[1] > 1 \/ MaxBackupFiles = 1

LEMMA NumberedStep ==
  ASSUME NEW c \in BOOLEAN, NEW E \in SUBSET ((1 .. MaxBackupFiles) \X {c}), IsFiniteSet(E), FirstFree(E)
  PROVE  AddedFirst(E, E \cup {<<1, c>>}, <<1, c>>)
<1>0. MaxBackupFiles \in Nat
  BY RotationAssumption
<1>1. PICK z : z = <<1, c>>
  OBVIOUS
<1>2. PICK K : K = E \cup {z}
  OBVIOUS
<1>3. \A n \in E : n[1] \in 1 .. MaxBackupFiles /\ n = <<n[1], c>>
  OBVIOUS
<1>4. z[1] = 1
  BY <1>1
<1>5. NewerIn(K, FALSE, z) = {}
  <2>1. \A n \in K : ~(n[1] < z[1])
    BY <1>0, <1>2, <1>3, <1>4
  <2> QED BY <2>1 DEF NewerIn
<1>6. ASSUME NEW n \in E, n # z
      PROVE  /\ Cardinality(NewerIn(E, FALSE, n)) \in Nat
             /\ Cardinality(NewerIn(K, FALSE, n)) = Cardinality(NewerIn(E, FALSE, n)) + 1
  <2>1. n[1] # 1
    BY <1>1, <1>3, <1>6
  <2>2. n[1] > 1 /\ MaxBackupFiles # 1
    BY <1>0, <1>3, <2>1 DEF FirstFree
  <2>3. z \notin E
    BY <1>4, <2>2 DEF FirstFree
  <2>4. PICK N : N = NewerIn(E, FALSE, n)
    OBVIOUS
  <2>5. IsFiniteSet(N) /\ Cardinality(N) \in Nat
    BY <2>4, NewerCount
  <2>6. NewerIn(K, FALSE, n) = N \cup {z}
    <3>1. z[1] < n[1]
      BY <1>4, <2>2
    <3> QED BY <1>2, <2>4, <3>1 DEF NewerIn
  <2>7. z \notin N
    BY <2>3, <2>4 DEF NewerIn
  <2>8. Cardinality(N \cup {z}) = Cardinality(N) + 1
    BY <2>5, <2>7, FS_AddElement
  <2> QED BY <2>4, <2>5, <2>6, <2>8
<1>7. Cardinality(NewerIn(K, FALSE, z)) = 0
  BY <1>5, FS_EmptySet
<1> QED BY <1>1, <1>2, <1>6, <1>7 DEF AddedFirst

\* The file becomes the newest backup, the others are one further back.
LEMMA NewPieces ==
  ASSUME NEW s, NEW r, NEW B, SinkType(s), r.policy = s.policy,
         r.lines = s.lines, r.cuts = Append(s.cuts, Len(s.lines)),
         s.file = Between(s, Len(s.cuts)),
         \A n \in DOMAIN B :
           LET newer == Cardinality(NewerIn(DOMAIN B, s.policy.timestampedNames, n)) IN
           /\ n[2] = s.policy.compressionEnabled
           /\ \/ newer = 0 /\ B[n] = s.file
              \/ \E age \in Nat : /\ age < Len(s.cuts) /\ newer = age + 1
                                  /\ B[n] = Between(s, Len(s.cuts) - 1 - age)
  PROVE  Pieces(r, B)
<1>1. PICK k \in Nat : k = Len(s.cuts)
  BY SinkFields
<1>2. PICK L \in Nat : L = Len(r.cuts) /\ L = k + 1
  <2>1. Len(r.cuts) = k + 1
    BY <1>1, PieceCut
  <2> QED BY <2>1
<1>21. \A j \in 0 .. k : Between(r, j) = Between(s, j)
  BY <1>1, PieceCut
<1>3. ASSUME NEW n \in DOMAIN B, NEW newer, newer = Cardinality(NewerIn(DOMAIN B, s.policy.timestampedNames, n))
      PROVE  n[2] = r.policy.compressionEnabled /\ newer < Len(r.cuts) /\ B[n] = Between(r, Len(r.cuts) - 1 - newer)
  <2>1. n[2] = r.policy.compressionEnabled
    OBVIOUS
  <2>2. CASE newer = 0 /\ B[n] = s.file
    <3>2. B[n] = Between(r, k)
      <4>1. k \in 0 .. k
        OBVIOUS
      <4> QED BY <1>1, <1>21, <2>2, <4>1
    <3>3. L - 1 - newer = k /\ newer < L
      BY <1>2, <2>2
    <3> QED BY <1>2, <2>1, <3>2, <3>3
  <2>3. CASE \E age \in Nat : age < k /\ newer = age + 1 /\ B[n] = Between(s, k - 1 - age)
    <3>1. PICK age \in Nat : age < k /\ newer = age + 1 /\ B[n] = Between(s, k - 1 - age)
      BY <2>3
    <3>2. PICK j \in 0 .. k : j = k - 1 - age
      BY <3>1
    <3>4. B[n] = Between(r, j)
      BY <1>21, <3>1, <3>2
    <3>5. L - 1 - newer = j /\ newer < L
      BY <1>2, <3>1, <3>2
    <3> QED BY <1>2, <2>1, <3>4, <3>5
  <2> QED BY <1>1, <1>3, <2>2, <2>3
<1>4. r.policy.timestampedNames = s.policy.timestampedNames
  OBVIOUS
<1> QED BY <1>3, <1>4 DEF Pieces

LEMMA SameBetween ==
  ASSUME NEW s, NEW r, r.lines = s.lines, r.cuts = s.cuts, NEW k
  PROVE  Between(r, k) = Between(s, k)
BY DEF Between, Cut

LEMMA FaultsTell ==
  ASSUME NEW s, NEW now, NEW fault
  PROVE  /\ FaultsNow(s, now, fault) \subseteq {"rename"} =>
              s.faults \subseteq {"rename"} /\ fault \in {"none", "rename"} /\ ~Again(s, now)
         /\ FaultsNow(s, now, fault) = {} => s.faults = {} /\ fault = "none"
         /\ "open" \notin FaultsNow(s, now, fault) => "open" \notin s.faults /\ fault # "open"
         /\ s.faults \subseteq FaultsNow(s, now, fault)
BY DEF FaultsNow

\* The file of s has become a backup of r.
Rotated(s, r, now, fault) ==
  /\ r.policy = s.policy /\ r.lines = s.lines /\ r.cuts = Append(s.cuts, Len(s.lines))
  /\ r.backups = cleanupOldBackups(s, Packed(s, now, fault))

(***************************************************************************)
(* A rotation without a fault, or whose rename failed, keeps every line.   *)
(***************************************************************************)
LEMMA RotationStamped ==
  ASSUME NEW s, NEW now \in Nat, NEW fault, SinkInv(s, now), Whole(s), s.policy.timestampedNames,
         Succeeds(s, fault), ~Again(s, now),
         NEW r, Rotated(s, r, now, fault)
  PROVE  Pieces(r, r.backups) /\ Cardinality(DOMAIN r.backups) = Allowed(Len(r.cuts))
<1>0. /\ SinkType(s) /\ MaxBackupFiles \in Nat
      /\ r.policy = s.policy /\ r.lines = s.lines /\ r.cuts = Append(s.cuts, Len(s.lines))
      /\ r.backups = cleanupOldBackups(s, Packed(s, now, fault))
  BY RotationAssumption DEF SinkInv, Rotated
<1>1. PICK c \in BOOLEAN : c = s.policy.compressionEnabled
  BY <1>0, SinkFields
<1>2. PICK k \in Nat : k = Len(s.cuts)
  BY <1>0, SinkFields
<1>3. PICK b : b = s.backups
  OBVIOUS
<1>4. PICK D : D = DOMAIN b
  OBVIOUS
<1>5. b = Shifted(s)
  BY <1>3 DEF Shifted
<1>6. \A n \in D : n[2] = c
  BY <1>1, <1>3, <1>4 DEF Whole, Pieces
<1>7. IsFiniteSet(D) /\ D \subseteq (0 .. now) \X BOOLEAN /\ Cardinality(D) <= MaxBackupFiles
  BY <1>3, <1>4 DEF SinkInv, BackupsBounded
<1>8. D \in SUBSET (Nat \X {c})
  BY <1>6, <1>7
<1>9. \A n \in D : n[1] < now
  <2>1. \A n \in D : n[1] # now
    BY <1>3, <1>4 DEF Again
  <2>2. \A n \in D : n[1] \in 0 .. now
    BY <1>7
  <2> QED BY <2>1, <2>2
<1>10. PICK z : z = <<now, c>>
  OBVIOUS
<1>11. PICK K : K = Staying(D \cup {z})
  OBVIOUS
<1>12. /\ K \in SUBSET (D \cup {z})
       /\ z \in K => Cardinality(NewerIn(K, TRUE, z)) = 0
       /\ \A n \in K : n # z => Cardinality(NewerIn(K, TRUE, n)) = Cardinality(NewerIn(D, TRUE, n)) + 1
       /\ Cardinality(D) < MaxBackupFiles => Cardinality(K) = Cardinality(D) + 1
       /\ ~(Cardinality(D) < MaxBackupFiles) => Cardinality(K) = MaxBackupFiles
  <2>1. AddedNewest(D, Staying(D \cup {<<now, c>>}), <<now, c>>)
    BY <1>7, <1>8, <1>9, StampedStep
  <2>2. AddedNewest(D, K, z)
    BY <1>10, <1>11, <2>1
  <2> QED BY <2>2 DEF AddedNewest
<1>13. PICK p : p = Packed(s, now, fault)
  OBVIOUS
<1>14. DOMAIN p = D \cup {z} /\ \A n \in DOMAIN p : (n = z => p[n] = s.file) /\ (n # z => p[n] = b[n])
  <2>1. z = <<Name(s, now), c>>
    BY <1>10 DEF Name
  <2>2. OneKind(Shifted(s), c)
    BY <1>4, <1>5, <1>6 DEF OneKind
  <2>4. PutInto(Packed(s, now, fault), Shifted(s), <<Name(s, now), c>>, s.file)
    BY <1>1, <2>2, PackedWhole
  <2>5. PutInto(p, b, z, s.file)
    BY <1>5, <1>13, <2>1, <2>4
  <2> QED BY <1>4, <2>5 DEF PutInto
<1>15. PICK B : B = r.backups
  OBVIOUS
<1>16. DOMAIN B = K /\ \A n \in K : B[n] = p[n]
  <2>1. Retains(cleanupOldBackups(s, p), p, Staying(DOMAIN p))
    BY CleanupStamped
  <2>2. Retains(B, p, K)
    BY <1>0, <1>11, <1>13, <1>14, <1>15, <2>1
  <2> QED BY <2>2 DEF Retains
<1>17. \A X, n : NewerIn(X, s.policy.timestampedNames, n) = NewerIn(X, TRUE, n)
  BY DEF NewerIn
<1>18. \A n \in D : /\ Cardinality(NewerIn(D, TRUE, n)) \in Nat /\ Cardinality(NewerIn(D, TRUE, n)) < k
                    /\ b[n] = Between(s, k - 1 - Cardinality(NewerIn(D, TRUE, n)))
  <2> TAKE n \in D
  <2>1. Cardinality(NewerIn(D, TRUE, n)) \in Nat
    BY <1>7, NewerCount
  <2>2. LET age == Cardinality(NewerIn(D, s.policy.timestampedNames, n))
        IN  age < k /\ b[n] = Between(s, k - 1 - age)
    BY <1>2, <1>3, <1>4 DEF Whole, Pieces
  <2> QED BY <1>17, <2>1, <2>2
<1>19. ASSUME NEW n \in DOMAIN B
       PROVE  LET newer == Cardinality(NewerIn(DOMAIN B, s.policy.timestampedNames, n)) IN
              /\ n[2] = s.policy.compressionEnabled
              /\ \/ newer = 0 /\ B[n] = s.file
                 \/ \E age \in Nat : /\ age < Len(s.cuts) /\ newer = age + 1
                                     /\ B[n] = Between(s, Len(s.cuts) - 1 - age)
  <2>1. n \in K /\ B[n] = p[n] /\ (n \in D \/ n = z)
    BY <1>12, <1>16
  <2>2. Cardinality(NewerIn(DOMAIN B, s.policy.timestampedNames, n)) = Cardinality(NewerIn(K, TRUE, n))
    BY <1>16, <1>17
  <2>3. n[2] = s.policy.compressionEnabled
    BY <1>1, <1>6, <1>10, <2>1
  <2>4. CASE n = z
    <3>1. Cardinality(NewerIn(K, TRUE, n)) = 0
      <4>1. z \in K => Cardinality(NewerIn(K, TRUE, z)) = 0
        BY <1>12
      <4> QED BY <2>1, <2>4, <4>1
    <3>2. B[n] = s.file
      <4>1. n \in DOMAIN p
        BY <1>14, <2>1
      <4> QED BY <1>14, <2>1, <2>4, <4>1
    <3> QED BY <2>2, <2>3, <3>1, <3>2
  <2>5. CASE n # z
    <3>1. PICK age \in Nat : age = Cardinality(NewerIn(D, TRUE, n))
      BY <1>18, <2>1, <2>5
    <3>2. age < k /\ b[n] = Between(s, k - 1 - age)
      BY <1>18, <2>1, <2>5, <3>1
    <3>3. B[n] = b[n] /\ Cardinality(NewerIn(K, TRUE, n)) = age + 1
      BY <1>12, <1>14, <2>1, <2>5, <3>1
    <3> QED BY <1>2, <2>2, <2>3, <3>2, <3>3
  <2> QED BY <2>4, <2>5
<1>20. Pieces(r, B)
  <2>1. s.file = Between(s, Len(s.cuts))
    BY DEF Whole
  <2> QED BY <1>0, <1>19, <2>1, NewPieces
<1>21. Len(r.cuts) = k + 1
  BY <1>0, <1>2, PieceCut
<1>22. Cardinality(D) = Allowed(k)
  BY <1>2, <1>3, <1>4 DEF Whole
<1>23. Cardinality(K) = Allowed(k + 1)
  <2>1. PICK m \in Nat : m = MaxBackupFiles
    BY <1>0
  <2>2. Cardinality(D) = IF k < m THEN k ELSE m
    BY <1>22, <2>1 DEF Allowed
  <2>3. Cardinality(K) = IF Cardinality(D) < m THEN Cardinality(D) + 1 ELSE m
    BY <1>12, <2>1
  <2>4. Cardinality(K) = IF k + 1 < m THEN k + 1 ELSE m
    BY <2>2, <2>3
  <2> QED BY <2>1, <2>4 DEF Allowed
<1> QED BY <1>15, <1>16, <1>20, <1>21, <1>23

LEMMA RotationNumbered ==
  ASSUME NEW s, NEW now \in Nat, NEW fault, SinkInv(s, now), Whole(s), ~s.policy.timestampedNames,
         Succeeds(s, fault),
         NEW r, Rotated(s, r, now, fault)
  PROVE  /\ Pieces(r, r.backups)
         /\ s.faults = {} => DOMAIN r.backups = (1 .. Allowed(Len(r.cuts))) \X {s.policy.compressionEnabled}
<1>0. /\ SinkType(s) /\ MaxBackupFiles \in Nat
      /\ r.policy = s.policy /\ r.lines = s.lines /\ r.cuts = Append(s.cuts, Len(s.lines))
      /\ r.backups = cleanupOldBackups(s, Packed(s, now, fault))
  BY RotationAssumption DEF SinkInv, Rotated
<1>1. PICK c \in BOOLEAN : c = s.policy.compressionEnabled
  BY <1>0, SinkFields
<1>2. PICK k \in Nat : k = Len(s.cuts)
  BY <1>0, SinkFields
<1>3. PICK b : b = s.backups
  OBVIOUS
<1>4. PICK D : D = DOMAIN b
  OBVIOUS
<1>5. PICK h : h = rotateBackupFiles(b)
  OBVIOUS
<1>6. PICK E : E = DOMAIN h
  OBVIOUS
<1>7. h = Shifted(s)
  BY <1>3, <1>5 DEF Shifted
<1>8. IsFiniteSet(D) /\ D \subseteq (1 .. MaxBackupFiles) \X {c}
  <2>1. IsFiniteSet(D) /\ D \subseteq (1 .. MaxBackupFiles) \X BOOLEAN
    BY <1>3, <1>4 DEF SinkInv, BackupsBounded
  <2>2. \A n \in D : n[2] = c
    BY <1>1, <1>3, <1>4 DEF Whole, Pieces
  <2> QED BY <2>1, <2>2
<1>9. /\ IsFiniteSet(E) /\ E \subseteq (1 .. MaxBackupFiles) \X {c}
      /\ \A n \in E : /\ n[1] > 1 \/ MaxBackupFiles = 1
                      /\ \E m \in D : /\ h[n] = b[m]
                                      /\ Cardinality(NewerIn(E, FALSE, n)) = Cardinality(NewerIn(D, FALSE, m))
  <2>1. LET q == rotateBackupFiles(b)
        IN  /\ IsFiniteSet(DOMAIN q) /\ DOMAIN q \subseteq (1 .. MaxBackupFiles) \X {c}
            /\ \A n \in DOMAIN q :
                 /\ n[1] > 1 \/ MaxBackupFiles = 1
                 /\ \E m \in DOMAIN b :
                      /\ q[n] = b[m]
                      /\ Cardinality(NewerIn(DOMAIN q, FALSE, n)) = Cardinality(NewerIn(DOMAIN b, FALSE, m))
    BY <1>4, <1>8, ShiftKeeps
  <2> QED BY <1>4, <1>5, <1>6, <2>1
<1>10. PICK z : z = <<1, c>>
  OBVIOUS
<1>11. PICK K : K = E \cup {z}
  OBVIOUS
<1>12. /\ Cardinality(NewerIn(K, FALSE, z)) = 0
       /\ \A n \in E : n # z =>
            /\ Cardinality(NewerIn(E, FALSE, n)) \in Nat
            /\ Cardinality(NewerIn(K, FALSE, n)) = Cardinality(NewerIn(E, FALSE, n)) + 1
  <2>1. FirstFree(E)
    BY <1>9 DEF FirstFree
  <2>2. E \in SUBSET ((1 .. MaxBackupFiles) \X {c}) /\ IsFiniteSet(E)
    BY <1>9
  <2>3. AddedFirst(E, E \cup {<<1, c>>}, <<1, c>>)
    BY <2>1, <2>2, NumberedStep
  <2>4. AddedFirst(E, K, z)
    BY <1>10, <1>11, <2>3
  <2> QED BY <2>4 DEF AddedFirst
<1>13. PICK p : p = Packed(s, now, fault)
  OBVIOUS
<1>14. DOMAIN p = K /\ \A n \in K : (n = z => p[n] = s.file) /\ (n # z => p[n] = h[n])
  <2>1. z = <<Name(s, now), c>>
    BY <1>10 DEF Name
  <2>2. OneKind(Shifted(s), c)
    BY <1>6, <1>7, <1>9 DEF OneKind
  <2>4. PutInto(Packed(s, now, fault), Shifted(s), <<Name(s, now), c>>, s.file)
    BY <1>1, <2>2, PackedWhole
  <2>5. PutInto(p, h, z, s.file)
    BY <1>7, <1>13, <2>1, <2>4
  <2> QED BY <1>6, <1>11, <2>5 DEF PutInto
<1>15. PICK B : B = r.backups
  OBVIOUS
<1>16. DOMAIN B = {n \in K : n[1] <= MaxBackupFiles} /\ \A n \in DOMAIN B : B[n] = p[n]
  <2>1. K \subseteq ((1 .. MaxBackupFiles) \cup {1}) \X BOOLEAN
    <3>1. \A n \in E : n \in ((1 .. MaxBackupFiles) \cup {1}) \X BOOLEAN
      BY <1>9
    <3>2. z \in ((1 .. MaxBackupFiles) \cup {1}) \X BOOLEAN
      BY <1>10, Zenon
    <3> QED BY <1>11, <3>1, <3>2
  <2>2. DOMAIN p \subseteq ((1 .. MaxBackupFiles) \cup {1}) \X BOOLEAN
    BY <1>14, <2>1
  <2>3. Retains(cleanupOldBackups(s, p), p, {n \in DOMAIN p : n[1] <= MaxBackupFiles})
    BY <2>2, CleanupNumbered
  <2>4. Retains(B, p, {n \in K : n[1] <= MaxBackupFiles})
    BY <1>0, <1>13, <1>14, <1>15, <2>3
  <2> QED BY <2>4 DEF Retains
<1>17. \A X, n : NewerIn(X, s.policy.timestampedNames, n) = NewerIn(X, FALSE, n)
  BY DEF NewerIn
<1>18. \A m \in D : /\ Cardinality(NewerIn(D, FALSE, m)) < k
                    /\ b[m] = Between(s, k - 1 - Cardinality(NewerIn(D, FALSE, m)))
  <2> TAKE m \in D
  <2>1. LET age == Cardinality(NewerIn(D, s.policy.timestampedNames, m))
        IN  age < k /\ b[m] = Between(s, k - 1 - age)
    BY <1>2, <1>3, <1>4 DEF Whole, Pieces
  <2> QED BY <1>17, <2>1
<1>19. CASE MaxBackupFiles = 0
  <2>1. \A n \in K : ~(n[1] <= MaxBackupFiles)
    <3>1. E = {}
      BY <1>9, <1>19
    <3> QED BY <1>10, <1>11, <1>19, <3>1
  <2>2. DOMAIN B = {}
    BY <1>16, <2>1
  <2>3. Len(r.cuts) = k + 1
    BY <1>0, <1>2, PieceCut
  <2>4. 1 .. Allowed(Len(r.cuts)) = {}
    BY <1>19, <2>3 DEF Allowed
  <2>5. DOMAIN B = (1 .. Allowed(Len(r.cuts))) \X {s.policy.compressionEnabled}
    BY <2>2, <2>4
  <2>6. Pieces(r, B)
    BY <2>2 DEF Pieces
  <2> QED BY <1>15, <2>5, <2>6
<1>20. CASE MaxBackupFiles # 0
  <2>1. DOMAIN B = K
    <3>1. \A n \in K : n[1] <= MaxBackupFiles
      <4>1. \A n \in E : n[1] \in 1 .. MaxBackupFiles
        BY <1>9
      <4>2. z[1] = 1 /\ 1 <= MaxBackupFiles
        BY <1>0, <1>10, <1>20
      <4> QED BY <1>0, <1>11, <4>1, <4>2
    <3> QED BY <1>16, <3>1
  <2>2. ASSUME NEW n \in DOMAIN B
        PROVE  LET newer == Cardinality(NewerIn(DOMAIN B, s.policy.timestampedNames, n)) IN
               /\ n[2] = s.policy.compressionEnabled
               /\ \/ newer = 0 /\ B[n] = s.file
                  \/ \E age \in Nat : /\ age < Len(s.cuts) /\ newer = age + 1
                                      /\ B[n] = Between(s, Len(s.cuts) - 1 - age)
    <3>1. n \in K /\ B[n] = p[n] /\ (n \in E \/ n = z)
      BY <1>11, <1>16, <2>1
    <3>2. Cardinality(NewerIn(DOMAIN B, s.policy.timestampedNames, n)) = Cardinality(NewerIn(K, FALSE, n))
      BY <1>17, <2>1
    <3>3. n[2] = s.policy.compressionEnabled
      <4>1. \A m \in E : m[2] = c
        BY <1>9
      <4> QED BY <1>1, <1>10, <3>1, <4>1
    <3>4. CASE n = z
      BY <1>12, <1>14, <3>1, <3>2, <3>3, <3>4
    <3>5. CASE n # z
      <4>1. PICK m \in D : /\ h[n] = b[m]
                           /\ Cardinality(NewerIn(E, FALSE, n)) = Cardinality(NewerIn(D, FALSE, m))
        BY <1>9, <3>1, <3>5
      <4>2. PICK age \in Nat : age = Cardinality(NewerIn(E, FALSE, n))
        BY <1>12, <3>1, <3>5
      <4>3. age < k /\ b[m] = Between(s, k - 1 - age)
        BY <1>18, <4>1, <4>2
      <4>4. B[n] = b[m] /\ Cardinality(NewerIn(K, FALSE, n)) = age + 1
        BY <1>12, <1>14, <3>1, <3>5, <4>1, <4>2
      <4> QED BY <1>2, <3>2, <3>3, <4>3, <4>4
    <3> QED BY <3>4, <3>5
  <2>3. Pieces(r, B)
    <3>1. s.file = Between(s, Len(s.cuts))
      BY DEF Whole
    <3> QED BY <1>0, <2>2, <3>1, NewPieces
  <2>4. ASSUME s.faults = {}
        PROVE  DOMAIN B = (1 .. Allowed(Len(r.cuts))) \X {s.policy.compressionEnabled}
    <3>1. PICK j : j = Allowed(k)
      OBVIOUS
    <3>2. j \in 0 .. MaxBackupFiles
      BY <1>0, <3>1 DEF Allowed
    <3>3. D = (1 .. j) \X {c}
      BY <1>1, <1>2, <1>3, <1>4, <2>4, <3>1 DEF Whole
    <3>4. (E \ {z}) \cup {z} = (1 .. (IF j < MaxBackupFiles THEN j + 1 ELSE IF j = 0 THEN 1 ELSE j)) \X {c}
      <4>1. DOMAIN b = (1 .. j) \X {c}
        BY <1>4, <3>3
      <4>2. (DOMAIN rotateBackupFiles(b) \ {<<1, c>>}) \cup {<<1, c>>} = (1 .. Grown(j)) \X {c}
        BY <3>2, <4>1, ShiftFull
      <4> QED BY <1>5, <1>6, <1>10, <4>2 DEF Grown
    <3>5. (IF j < MaxBackupFiles THEN j + 1 ELSE IF j = 0 THEN 1 ELSE j) = Allowed(k + 1)
      BY <1>0, <1>20, <3>1 DEF Allowed
    <3>6. Len(r.cuts) = k + 1
      BY <1>0, <1>2, PieceCut
    <3>7. K = (E \ {z}) \cup {z}
      BY <1>11
    <3> QED BY <1>1, <2>1, <3>4, <3>5, <3>6, <3>7
  <2> QED BY <1>15, <2>3, <2>4
<1> QED BY <1>19, <1>20

LEMMA RotationWhole ==
  ASSUME NEW s, NEW now \in Nat, NEW fault, SinkInv(s, now),
         FaultsNow(s, now, fault) \subseteq {"rename"}
  PROVE  Whole(performRotation(s, now, fault))
<1>1. /\ s.faults \subseteq {"rename"} /\ fault \in {"none", "rename"} /\ ~Again(s, now)
      /\ FaultsNow(s, now, fault) = {} => s.faults = {} /\ fault = "none"
  BY FaultsTell
<1>2. SinkType(s) /\ s.open /\ Whole(s)
  BY <1>1 DEF SinkInv
<1>3. PICK r : r = performRotation(s, now, fault)
  OBVIOUS
<1>4. /\ r.policy = s.policy /\ r.lines = s.lines /\ r.faults = FaultsNow(s, now, fault)
      /\ fault = "rename" /\ s.open =>
           r.open = s.open /\ r.file = s.file /\ r.backups = Shifted(s) /\ r.cuts = s.cuts
      /\ ~(fault = "rename" /\ s.open) =>
           /\ r.open = (fault # "open") /\ r.file = <<>>
           /\ r.backups = cleanupOldBackups(s, Packed(s, now, fault))
           /\ r.cuts = IF s.open THEN Append(s.cuts, Len(s.lines)) ELSE s.cuts
  <2>1. SinkType(s)
    BY <1>2
  <2> QED BY <1>3, <2>1, RotationFields
<1>5. CASE fault = "rename"
  <2>1. r.file = s.file /\ r.backups = Shifted(s) /\ r.cuts = s.cuts /\ r.faults # {}
    BY <1>1, <1>2, <1>4, <1>5
  <2>2. \A k : Between(r, k) = Between(s, k)
    BY <1>4, <2>1, SameBetween
  <2>3. r.file = Between(r, Len(r.cuts))
    BY <1>2, <2>1, <2>2 DEF Whole
  <2>4. CASE s.policy.timestampedNames
    <3>1. r.backups = s.backups
      BY <2>1, <2>4 DEF Shifted
    <3>2. Pieces(r, r.backups)
      BY <1>2, <1>4, <2>1, <2>2, <3>1 DEF Whole, Pieces
    <3>3. Cardinality(DOMAIN r.backups) = Allowed(Len(r.cuts))
      BY <1>2, <2>1, <2>4, <3>1 DEF Whole
    <3> QED BY <1>3, <1>4, <2>3, <2>4, <3>2, <3>3 DEF Whole
  <2>5. CASE ~s.policy.timestampedNames
    <3>1. PICK b : b = s.backups
      OBVIOUS
    <3>2. PICK c \in BOOLEAN : c = s.policy.compressionEnabled
      BY <1>2, SinkFields
    <3>3. PICK D : D = DOMAIN b
      OBVIOUS
    <3>4. PICK h : h = rotateBackupFiles(b)
      OBVIOUS
    <3>5. PICK E : E = DOMAIN h
      OBVIOUS
    <3>6. IsFiniteSet(D) /\ D \subseteq (1 .. MaxBackupFiles) \X {c}
      <4>1. IsFiniteSet(D) /\ D \subseteq (1 .. MaxBackupFiles) \X BOOLEAN
        BY <2>5, <3>1, <3>3 DEF SinkInv, BackupsBounded
      <4>2. \A n \in D : n[2] = c
        BY <1>2, <3>1, <3>2, <3>3 DEF Whole, Pieces
      <4> QED BY <4>1, <4>2
    <3>7. /\ E \subseteq (1 .. MaxBackupFiles) \X {c}
          /\ \A n \in E : \E m \in D : /\ h[n] = b[m]
                                       /\ Cardinality(NewerIn(E, FALSE, n)) = Cardinality(NewerIn(D, FALSE, m))
      <4>1. LET q == rotateBackupFiles(b)
            IN  /\ IsFiniteSet(DOMAIN q) /\ DOMAIN q \subseteq (1 .. MaxBackupFiles) \X {c}
                /\ \A n \in DOMAIN q :
                     /\ n[1] > 1 \/ MaxBackupFiles = 1
                     /\ \E m \in DOMAIN b :
                          /\ q[n] = b[m]
                          /\ Cardinality(NewerIn(DOMAIN q, FALSE, n)) = Cardinality(NewerIn(DOMAIN b, FALSE, m))
        BY <3>3, <3>6, ShiftKeeps
      <4> QED BY <3>3, <3>4, <3>5, <4>1
    <3>8. r.backups = h
      BY <2>1, <2>5, <3>1, <3>4 DEF Shifted
    <3>9. \A X, n : NewerIn(X, s.policy.timestampedNames, n) = NewerIn(X, FALSE, n)
      BY <2>5 DEF NewerIn
    <3>10. PICK k : k = Len(s.cuts)
      OBVIOUS
    <3>11. \A m \in D : /\ Cardinality(NewerIn(D, FALSE, m)) < k
                        /\ b[m] = Between(s, k - 1 - Cardinality(NewerIn(D, FALSE, m)))
      <4> TAKE m \in D
      <4>1. LET age == Cardinality(NewerIn(D, s.policy.timestampedNames, m))
            IN  age < k /\ b[m] = Between(s, k - 1 - age)
        BY <1>2, <3>1, <3>3, <3>10 DEF Whole, Pieces
      <4> QED BY <3>9, <4>1
    <3>12. ASSUME NEW n \in E
           PROVE  /\ n[2] = r.policy.compressionEnabled
                  /\ Cardinality(NewerIn(E, r.policy.timestampedNames, n)) < Len(r.cuts)
                  /\ h[n] = Between(r, Len(r.cuts) - 1 - Cardinality(NewerIn(E, r.policy.timestampedNames, n)))
      <4>1. PICK m \in D : /\ h[n] = b[m]
                           /\ Cardinality(NewerIn(E, FALSE, n)) = Cardinality(NewerIn(D, FALSE, m))
        BY <3>7
      <4>2. n[2] = r.policy.compressionEnabled
        BY <1>4, <3>2, <3>7
      <4>3. NewerIn(E, r.policy.timestampedNames, n) = NewerIn(E, FALSE, n)
        BY <1>4, <3>9
      <4>4. PICK age : age = Cardinality(NewerIn(E, FALSE, n))
        OBVIOUS
      <4>5. age < k /\ b[m] = Between(s, k - 1 - age)
        BY <3>11, <4>1, <4>4
      <4>6. Len(r.cuts) = k
        BY <2>1, <3>10
      <4> QED BY <2>2, <4>1, <4>2, <4>3, <4>4, <4>5, <4>6
    <3>13. Pieces(r, r.backups)
      BY <3>5, <3>8, <3>12 DEF Pieces
    <3> QED BY <1>3, <1>4, <2>1, <2>3, <2>5, <3>13 DEF Whole
  <2> QED BY <2>4, <2>5
<1>6. CASE fault # "rename"
  <2>1. /\ r.file = <<>> /\ r.backups = cleanupOldBackups(s, Packed(s, now, fault))
        /\ r.cuts = Append(s.cuts, Len(s.lines))
    BY <1>2, <1>4, <1>6
  <2>2. r.file = Between(r, Len(r.cuts))
    BY <1>2, <1>4, <2>1, PieceCut
  <2>3. Succeeds(s, fault) /\ Rotated(s, r, now, fault)
    BY <1>1, <1>2, <1>4, <2>1 DEF Succeeds, Rotated
  <2>4. CASE s.policy.timestampedNames
    <3>1. Pieces(r, r.backups) /\ Cardinality(DOMAIN r.backups) = Allowed(Len(r.cuts))
      BY <1>1, <1>2, <2>3, <2>4, RotationStamped
    <3> QED BY <1>3, <1>4, <2>2, <2>4, <3>1 DEF Whole
  <2>5. CASE ~s.policy.timestampedNames
    <3>1. /\ Pieces(r, r.backups)
          /\ s.faults = {} => DOMAIN r.backups = (1 .. Allowed(Len(r.cuts))) \X {s.policy.compressionEnabled}
      BY <1>2, <2>3, <2>5, RotationNumbered
    <3> QED BY <1>1, <1>3, <1>4, <2>2, <2>5, <3>1 DEF Whole
  <2> QED BY <2>4, <2>5
<1> QED BY <1>5, <1>6

(***************************************************************************)
(* A rotation keeps the invariant of a sink.                               *)
(***************************************************************************)
LEMMA RotationKeeps ==
  ASSUME NEW s, NEW now \in Nat, NEW fault, SinkInv(s, now)
  PROVE  LET r == performRotation(s, now, fault)
         IN  /\ SinkInv(r, now) /\ r.lines = s.lines
             /\ "open" \notin r.faults => "open" \notin s.faults /\ r.open
<1>0. SinkType(s) /\ CutsSound(s) /\ ("open" \notin s.faults => s.open)
  BY DEF SinkInv
<1>1. PICK r : r = performRotation(s, now, fault)
  OBVIOUS
<1>2. /\ SinkType(r)
      /\ r.policy = s.policy /\ r.lines = s.lines /\ r.faults = FaultsNow(s, now, fault)
      /\ fault = "rename" /\ s.open =>
           r.open = s.open /\ r.file = s.file /\ r.backups = Shifted(s) /\ r.cuts = s.cuts
      /\ ~(fault = "rename" /\ s.open) =>
           /\ r.open = (fault # "open") /\ r.file = <<>>
           /\ r.backups = cleanupOldBackups(s, Packed(s, now, fault))
           /\ r.cuts = IF s.open THEN Append(s.cuts, Len(s.lines)) ELSE s.cuts
  BY <1>0, <1>1, RotationFields
<1>3. CutsSound(r)
  <2>1. CASE r.cuts = s.cuts
    BY <1>0, <1>2, <2>1 DEF CutsSound
  <2>2. CASE r.cuts # s.cuts
    <3>1. r.cuts = Append(s.cuts, Len(s.lines))
      BY <1>2, <2>2
    <3>2. PICK C \in Seq(Nat), n \in Nat : C = s.cuts /\ n = Len(s.lines)
      BY <1>0, SinkFields
    <3>3. Append(C, n) \in Seq(Nat) /\ Len(Append(C, n)) = Len(C) + 1
          /\ (\A i \in 1 .. Len(C) : Append(C, n)[i] = C[i]) /\ Append(C, n)[Len(C) + 1] = n
      BY AppendProperties
    <3>4. \A i \in 1 .. Len(C) : C[i] <= n
      BY <1>0, <3>2 DEF CutsSound
    <3>5. \A i \in 1 .. Len(C) + 1 : Append(C, n)[i] <= n
      <4> TAKE i \in 1 .. Len(C) + 1
      <4>1. i \in 1 .. Len(C) \/ i = Len(C) + 1
        OBVIOUS
      <4> QED BY <3>3, <3>4, <4>1
    <3>6. \A i \in 1 .. Len(r.cuts) : r.cuts[i] <= n
      BY <3>1, <3>2, <3>3, <3>5
    <3> QED BY <1>2, <3>2, <3>6 DEF CutsSound
  <2> QED BY <2>1, <2>2
<1>4. BackupsBounded(r.backups, r.policy.timestampedNames, now)
  BY <1>1, RotationBounded
<1>5. "open" \notin r.faults => "open" \notin s.faults /\ r.open
  <2>1. SUFFICES ASSUME "open" \notin r.faults PROVE "open" \notin s.faults /\ r.open
    OBVIOUS
  <2>2. "open" \notin s.faults /\ fault # "open"
    BY <1>2, <2>1, FaultsTell
  <2>3. s.open
    BY <1>0, <2>2
  <2>4. CASE fault = "rename"
    BY <1>2, <2>2, <2>3, <2>4
  <2>5. CASE fault # "rename"
    <3>1. r.open = (fault # "open")
      BY <1>2, <2>5
    <3>2. r.open = TRUE
      BY <2>2, <3>1, Zenon
    <3> QED BY <2>2, <3>2
  <2> QED BY <2>4, <2>5
<1>6. r.faults \subseteq {"rename"} => Whole(r)
  BY <1>1, <1>2, RotationWhole
<1> QED BY <1>1, <1>2, <1>3, <1>4, <1>5, <1>6 DEF SinkInv

(***************************************************************************)
(* So does a line, with the rotation before it.                            *)
(***************************************************************************)
WithLine(r, line) == [r EXCEPT !.file = IF r.open THEN Append(@, line) ELSE @,
                               !.lines = Append(@, line), !.currentSize = @ + 1]

Told(w, r, line) == w.lines = Append(r.lines, line) /\ w.faults = r.faults

LEMMA LineKeeps ==
  ASSUME NEW r, NEW now \in Nat, NEW line \in Nat, SinkInv(r, now)
  PROVE  SinkInv(WithLine(r, line), now) /\ Told(WithLine(r, line), r, line)
<1>0. SinkType(r) /\ CutsSound(r) /\ BackupsBounded(r.backups, r.policy.timestampedNames, now)
      /\ ("open" \notin r.faults => r.open) /\ (r.faults \subseteq {"rename"} => Whole(r))
  BY DEF SinkInv
<1> DEFINE w == WithLine(r, line)
<1>1. PICK f : f = IF r.open THEN Append(r.file, line) ELSE r.file
  OBVIOUS
<1>2. PICK l \in Seq(Nat) : l = Append(r.lines, line)
  <2>1. Append(r.lines, line) \in Seq(Nat)
    BY <1>0, SinkFields, AppendProperties
  <2> QED BY <2>1
<1>3. PICK v : v = r.currentSize + 1
  OBVIOUS
<1>4. w = [r EXCEPT !.file = f, !.lines = l, !.currentSize = v]
  BY <1>1, <1>2, <1>3 DEF WithLine
<1> HIDE DEF w
<1>5. /\ w.policy = r.policy /\ w.open = r.open /\ w.file = f /\ w.backups = r.backups
      /\ w.lines = l /\ w.cuts = r.cuts /\ w.faults = r.faults
  BY <1>0, <1>4 DEF SinkType
<1>6. SinkType(w)
  BY <1>0, <1>4, <1>5 DEF SinkType
<1>7. CutsSound(w)
  <2>1. Len(l) = Len(r.lines) + 1 /\ Len(r.lines) \in Nat
    BY <1>0, <1>2, SinkFields, AppendProperties
  <2>2. r.cuts \in Seq(Nat)
    BY <1>0, SinkFields
  <2>3. \A i \in 1 .. Len(r.cuts) : r.cuts[i] \in Nat /\ r.cuts[i] <= Len(r.lines)
    BY <1>0, <2>2 DEF CutsSound
  <2>4. \A i \in 1 .. Len(r.cuts) : r.cuts[i] <= Len(l)
    BY <2>1, <2>3
  <2> QED BY <1>5, <2>4 DEF CutsSound
<1>8. ASSUME w.faults \subseteq {"rename"}
      PROVE  Whole(w)
  <2>1. Whole(r) /\ r.open
    BY <1>0, <1>5, <1>8
  <2>2. PICK k \in Nat : k = Len(r.cuts)
    BY <1>0, SinkFields
  <2>3. w.lines = Append(r.lines, line) /\ w.cuts = r.cuts /\ SinkType(r) /\ CutsSound(r)
    BY <1>0, <1>2, <1>5
  <2>4. \A j \in 0 .. k - 1 : Between(w, j) = Between(r, j)
    BY <2>2, <2>3, PieceLine
  <2>5. Between(w, Len(w.cuts)) = Append(Between(r, k), line)
    BY <2>2, <2>3, PieceLine
  <2>6. w.file = Between(w, Len(w.cuts))
    BY <1>1, <1>5, <2>1, <2>2, <2>5 DEF Whole
  <2>7. ASSUME NEW n \in DOMAIN w.backups, NEW age,
               age = Cardinality(NewerIn(DOMAIN w.backups, w.policy.timestampedNames, n))
        PROVE  /\ n[2] = w.policy.compressionEnabled
               /\ age < Len(w.cuts) /\ w.backups[n] = Between(w, Len(w.cuts) - 1 - age)
    <3>1. n[2] = w.policy.compressionEnabled /\ age < k /\ w.backups[n] = Between(r, k - 1 - age)
      BY <1>5, <2>1, <2>2, <2>7 DEF Whole, Pieces
    <3>2. age \in Nat
      <4>1. IsFiniteSet(DOMAIN w.backups)
        BY <1>0, <1>5 DEF BackupsBounded
      <4> QED BY <2>7, <4>1, NewerCount
    <3>3. PICK j \in 0 .. k - 1 : j = k - 1 - age
      BY <3>1, <3>2
    <3>4. w.backups[n] = Between(w, j)
      BY <2>4, <3>1, <3>3
    <3> QED BY <1>5, <2>2, <3>1, <3>3, <3>4
  <2>8. Pieces(w, w.backups)
    BY <2>7 DEF Pieces
  <2> QED BY <1>5, <2>1, <2>6, <2>8 DEF Whole
<1>9. SinkInv(w, now) /\ Told(w, r, line)
  BY <1>0, <1>2, <1>5, <1>6, <1>7, <1>8 DEF SinkInv, Told
<1> QED BY <1>9 DEF w

LEMMA WriteKeeps ==
  ASSUME NEW s, NEW now \in Nat, NEW line \in Nat, NEW fault, SinkInv(s, now), NEW w, w = SinkWrites(s, line, now, fault)
  PROVE  /\ SinkInv(w, now)
         /\ "open" \notin w.faults => "open" \notin s.faults /\ w.lines = Append(s.lines, line)
<1>1. CASE ~s.open
  <2>1. w = s
    BY <1>1 DEF SinkWrites
  <2> QED BY <1>1, <2>1 DEF SinkInv
<1>2. CASE s.open
  <2>1. PICK r : r = IF shouldRotate(s, now) THEN performRotation(s, now, fault) ELSE s
    OBVIOUS
  <2>2. w = WithLine(r, line)
    BY <1>2, <2>1 DEF SinkWrites, WithLine
  <2>3. SinkInv(r, now) /\ r.lines = s.lines /\ ("open" \notin r.faults => "open" \notin s.faults)
    <3>1. CASE shouldRotate(s, now)
      <4>1. r = performRotation(s, now, fault)
        BY <2>1, <3>1
      <4> QED BY <4>1, RotationKeeps
    <3>2. CASE ~shouldRotate(s, now)
      BY <2>1, <3>2
    <3> QED BY <3>1, <3>2
  <2>4. SinkInv(w, now) /\ w.lines = Append(r.lines, line) /\ w.faults = r.faults
    <3>1. SinkInv(r, now)
      BY <2>3
    <3>2. SinkInv(WithLine(r, line), now) /\ Told(WithLine(r, line), r, line)
      BY <3>1, LineKeeps
    <3> QED BY <2>2, <3>2 DEF Told
  <2> QED BY <2>3, <2>4
<1> QED BY <1>1, <1>2

LEMMA TickKeeps ==
  ASSUME NEW s, NEW now \in Nat, SinkInv(s, now)
  PROVE  SinkInv(s, now + 1)
<1>1. 0 .. now \subseteq 0 .. now + 1
  OBVIOUS
<1>2. BackupsBounded(s.backups, s.policy.timestampedNames, now)
  BY DEF SinkInv
<1>3. BackupsBounded(s.backups, s.policy.timestampedNames, now + 1)
  <2>1. CASE s.policy.timestampedNames
    <3>1. DOMAIN s.backups \subseteq (0 .. now) \X BOOLEAN
      BY <1>2, <2>1 DEF BackupsBounded
    <3>2. DOMAIN s.backups \subseteq (0 .. now + 1) \X BOOLEAN
      BY <1>1, <3>1
    <3> QED BY <1>2, <2>1, <3>2 DEF BackupsBounded
  <2>2. CASE ~s.policy.timestampedNames
    BY <1>2, <2>2 DEF BackupsBounded
  <2> QED BY <2>1, <2>2
<1> QED BY <1>3 DEF SinkInv

LEMMA NewSinkSound ==
  ASSUME NEW p \in RotationPolicies
  PROVE  SinkInv(NewSink(p, 0), 0) /\ NewSink(p, 0).lines = <<>>
<1>0. MaxBackupFiles \in Nat
  BY RotationAssumption
<1>1. PICK none : none = <<>>
  OBVIOUS
<1>2. none \in Seq(Nat) /\ Len(none) = 0 /\ DOMAIN none = {}
  BY <1>1
<1>3. PICK s : s = NewSink(p, 0)
  OBVIOUS
<1>4. s = [policy |-> p, open |-> TRUE, file |-> none, currentSize |-> 0, lastRotation |-> 0,
           backups |-> none, lines |-> none, cuts |-> none, faults |-> {}]
  BY <1>1, <1>3 DEF NewSink
<1>5. /\ s.policy = p /\ s.open = TRUE /\ s.file = none /\ s.backups = none
      /\ s.lines = none /\ s.cuts = none /\ s.faults = {}
  BY <1>4
<1>6. SinkType(s)
  BY <1>2, <1>4 DEF SinkType
<1>7. CutsSound(s)
  BY <1>2, <1>5 DEF CutsSound
<1>8. IsFiniteSet({}) /\ Cardinality({}) = 0
  BY FS_EmptySet
<1>9. BackupsBounded(s.backups, s.policy.timestampedNames, 0)
  BY <1>0, <1>2, <1>5, <1>8 DEF BackupsBounded
<1>10. Whole(s)
  <2>1. Between(s, 0) = none
    <3>1. Cut(s, 0) = 0
      BY DEF Cut
    <3>2. ~(0 < Len(s.cuts))
      BY <1>2, <1>5
    <3>3. Between(s, 0) = SubSeq(none, 0 + 1, 0)
      BY <1>2, <1>5, <3>1, <3>2 DEF Between
    <3>4. SubSeq(none, 0 + 1, 0) = none
      BY <1>1, SubSeqEmpty
    <3> QED BY <3>3, <3>4
  <2>2. Pieces(s, s.backups)
    BY <1>2, <1>5 DEF Pieces
  <2>3. Allowed(0) = 0 /\ (1 .. 0) = {}
    BY <1>0 DEF Allowed
  <2>4. (1 .. Allowed(0)) \X {s.policy.compressionEnabled} = {}
    BY <2>3
  <2> QED BY <1>2, <1>5, <1>8, <2>1, <2>2, <2>3, <2>4 DEF Whole
<1> QED BY <1>1, <1>3, <1>5, <1>6, <1>7, <1>9, <1>10 DEF SinkInv

(***************************************************************************)
(* The invariant of the logger: one thread at a time writes to the sinks,  *)
(* and the console is behind the file by the line of a thread between them.*)
(***************************************************************************)
SameLines(s) ==
  s.lines = IF \E t \in LogThreads : entry[t] = 2 THEN Append(console, dispatched) ELSE console

LogInv ==
  /\ SinkInv(fileSink, logNow)
  /\ logNow \in Nat /\ dispatched \in Nat /\ sinkCalls \in Nat
  /\ entry \in [LogThreads -> Nat]
  /\ \A t, u \in LogThreads : entry[t] # 0 /\ entry[u] # 0 => t = u
  /\ sinkCalls = 0 => logSinks = <<"file", "console">> /\ \A t \in LogThreads : entry[t] <= 2
  /\ sinkCalls = 0 /\ "open" \notin fileSink.faults => SameLines(fileSink)

LEMMA LogInvInit == LogInit => LogInv
<1> SUFFICES ASSUME LogInit PROVE LogInv
  OBVIOUS
<1>1. PICK p \in SinkPolicies : fileSink = NewSink(p, 0)
  BY DEF LogInit
<1>2. p \in RotationPolicies
  BY LoggerAssumption
<1>3. SinkInv(fileSink, 0) /\ fileSink.lines = <<>>
  BY <1>1, <1>2, NewSinkSound
<1>4. \A t \in LogThreads : entry[t] = 0
  BY DEF LogInit
<1>5. SameLines(fileSink)
  BY <1>3, <1>4 DEF SameLines, LogInit
<1> QED BY <1>3, <1>4, <1>5 DEF LogInv, LogInit

\* What the actions that leave the files, the console and the entries keep.
LEMMA LogInvRest ==
  ASSUME LogInv, UNCHANGED <<entry, fileSink, console, dispatched, logNow>>,
         \/ UNCHANGED <<logSinks, sinkCalls>>
         \/ sinkCalls' = sinkCalls + 1
  PROVE  LogInv'
BY DEF LogInv, SameLines

LEMMA DispatchKeeps ==
  ASSUME LogInv, NEW t \in LogThreads, dispatch(t)
  PROVE  LogInv'
<1>1. /\ dispatched' = dispatched + 1 /\ entry' = [entry EXCEPT ![t] = NextEntry(0)]
      /\ UNCHANGED <<logSinks, fileSink, console, sinkCalls, logNow>>
      /\ \A u \in LogThreads : entry[u] = 0
  BY DEF dispatch, SinksFree
<1>2. NextEntry(0) \in {0, 1}
  BY DEF NextEntry
<1>3. entry' \in [LogThreads -> Nat] /\ \A u \in LogThreads : entry'[u] \in {0, 1} /\ (u # t => entry'[u] = 0)
  BY <1>1, <1>2 DEF LogInv
<1>4. SameLines(fileSink) => SameLines(fileSink)'
  <2>1. ~(\E u \in LogThreads : entry[u] = 2) /\ ~(\E u \in LogThreads : entry'[u] = 2)
    BY <1>1, <1>3
  <2> QED BY <1>1, <2>1 DEF SameLines
<1>5. \A u \in LogThreads : entry'[u] <= 2
  BY <1>3
<1>6. \A u, v \in LogThreads : entry'[u] # 0 /\ entry'[v] # 0 => u = v
  BY <1>3
<1>7. SinkInv(fileSink, logNow)'
  BY <1>1 DEF LogInv
<1> QED BY <1>1, <1>3, <1>4, <1>5, <1>6, <1>7 DEF LogInv

LEMMA SinkWritten ==
  ASSUME LogInv, NEW t \in LogThreads, NEW fault, writeToSink(t, fault)
  PROVE  LogInv'
<1>1. /\ entry[t] # 0 /\ entry' = [entry EXCEPT ![t] = NextEntry(entry[t])]
      /\ UNCHANGED <<logSinks, dispatched, sinkCalls, logNow>>
  BY DEF writeToSink
<1>2. entry \in [LogThreads -> Nat] /\ \A u \in LogThreads : u # t => entry[u] = 0
  BY <1>1 DEF LogInv
<1>3. NextEntry(entry[t]) \in Nat
  BY <1>2 DEF NextEntry
<1>4. entry' \in [LogThreads -> Nat] /\ entry'[t] = NextEntry(entry[t]) /\ \A u \in LogThreads : u # t => entry'[u] = 0
  BY <1>1, <1>2, <1>3
<1>5. \A u, v \in LogThreads : entry'[u] # 0 /\ entry'[v] # 0 => u = v
  BY <1>4
<1>6. (\E u \in LogThreads : entry[u] = 2) <=> entry[t] = 2
  BY <1>2
<1>7. (\E u \in LogThreads : entry'[u] = 2) <=> entry'[t] = 2
  BY <1>4
<1>8. ASSUME sinkCalls = 0
      PROVE  /\ logSinks = <<"file", "console">> /\ entry[t] \in {1, 2}
             /\ entry[t] = 1 => entry'[t] = 2
             /\ entry[t] = 2 => entry'[t] = 0
  <2>1. logSinks = <<"file", "console">> /\ entry[t] <= 2
    BY <1>8 DEF LogInv
  <2>2. Len(logSinks) = 2
    BY <2>1
  <2>3. entry[t] \in {1, 2}
    BY <1>1, <1>2, <2>1
  <2> QED BY <1>4, <2>1, <2>2, <2>3 DEF NextEntry
<1>9. sinkCalls = 0 => \A u \in LogThreads : entry'[u] <= 2
  BY <1>4, <1>8
<1>10. CASE logSinks[entry[t]] = "file" /\ fileSink' = SinkWrites(fileSink, dispatched, logNow, fault) /\ UNCHANGED console
  <2>1. /\ SinkInv(fileSink', logNow)
        /\ "open" \notin fileSink'.faults =>
             "open" \notin fileSink.faults /\ fileSink'.lines = Append(fileSink.lines, dispatched)
    BY <1>10, WriteKeeps DEF LogInv
  <2>2. ASSUME sinkCalls = 0, "open" \notin fileSink'.faults
        PROVE  SameLines(fileSink)'
    <3>1. entry[t] = 1
      <4>1. entry[t] # 2
        BY <1>8, <1>10, <2>2
      <4> QED BY <1>8, <2>2, <4>1
    <3>2. SameLines(fileSink)
      BY <2>1, <2>2 DEF LogInv
    <3>3. fileSink.lines = console
      BY <1>6, <3>1, <3>2 DEF SameLines
    <3>4. entry'[t] = 2
      BY <1>8, <2>2, <3>1
    <3>5. fileSink'.lines = Append(console, dispatched) /\ console' = console /\ dispatched' = dispatched
      BY <1>1, <1>10, <2>1, <2>2, <3>3
    <3> QED BY <1>7, <3>4, <3>5 DEF SameLines
  <2>3. SinkInv(fileSink, logNow)'
    BY <1>1, <2>1
  <2> QED BY <1>1, <1>4, <1>5, <1>9, <2>2, <2>3 DEF LogInv
<1>11. CASE logSinks[entry[t]] = "console" /\ console' = Append(console, dispatched) /\ UNCHANGED fileSink
  <2>1. ASSUME sinkCalls = 0, "open" \notin fileSink.faults
        PROVE  SameLines(fileSink)'
    <3>1. entry[t] = 2
      <4>1. entry[t] # 1
        BY <1>8, <1>11, <2>1
      <4> QED BY <1>8, <2>1, <4>1
    <3>2. SameLines(fileSink)
      BY <2>1 DEF LogInv
    <3>3. fileSink.lines = Append(console, dispatched)
      BY <1>6, <3>1, <3>2 DEF SameLines
    <3>4. entry'[t] = 0
      BY <1>8, <2>1, <3>1
    <3> QED BY <1>7, <1>11, <3>3, <3>4 DEF SameLines
  <2>2. SinkInv(fileSink, logNow)'
    BY <1>1, <1>11 DEF LogInv
  <2> QED BY <1>1, <1>4, <1>5, <1>9, <1>11, <2>1, <2>2 DEF LogInv
<1> QED BY <1>10, <1>11 DEF writeToSink

LEMMA ForceKeeps ==
  ASSUME LogInv, NEW fault, forceRotation(fault)
  PROVE  LogInv'
<1>1. /\ fileSink' = performRotation(fileSink, logNow, fault)
      /\ UNCHANGED <<logSinks, entry, console, dispatched, sinkCalls, logNow>>
  BY DEF forceRotation
<1>2. SinkInv(fileSink, logNow) /\ logNow \in Nat
  BY DEF LogInv
<1>3. SinkInv(fileSink', logNow)
  BY <1>1, <1>2, RotationKeeps
<1>4. fileSink'.lines = fileSink.lines
  BY <1>1, <1>2, RotationKeeps
<1>5. "open" \notin fileSink'.faults => "open" \notin fileSink.faults
  BY <1>1, <1>2, RotationKeeps
<1>6. SinkInv(fileSink, logNow)'
  BY <1>1, <1>3
<1>7. SameLines(fileSink) => SameLines(fileSink)'
  BY <1>1, <1>4 DEF SameLines
<1> QED BY <1>1, <1>5, <1>6, <1>7 DEF LogInv

LEMMA LogInvStep == LogInv /\ [LogNext]_logVars => LogInv'
<1> SUFFICES ASSUME LogInv, [LogNext]_logVars PROVE LogInv'
  OBVIOUS
<1>1. CASE UNCHANGED logVars
  <2>1. UNCHANGED <<logSinks, entry, fileSink, console, dispatched, sinkCalls, logNow>>
    BY <1>1 DEF logVars
  <2> QED BY <2>1, LogInvRest
<1>2. ASSUME NEW l \in {"info", "error"}, setLevel(stringToLogLevel(l))
      PROVE  LogInv'
  <2>1. UNCHANGED <<logSinks, entry, fileSink, console, dispatched, sinkCalls, logNow>>
    BY <1>2 DEF setLevel
  <2> QED BY <2>1, LogInvRest
<1>3. ASSUME NEW t \in LogThreads, NEW l, logCall(t, l)
      PROVE  LogInv'
  <2>1. UNCHANGED <<logSinks, entry, fileSink, console, dispatched, sinkCalls, logNow>>
    BY <1>3 DEF logCall
  <2> QED BY <2>1, LogInvRest
<1>4. ASSUME NEW k, addSink(k) \/ removeSink(k)
      PROVE  LogInv'
  <2>1. UNCHANGED <<entry, fileSink, console, dispatched, logNow>> /\ sinkCalls' = sinkCalls + 1
    BY <1>4 DEF addSink, removeSink
  <2> QED BY <2>1, LogInvRest
<1>5. ASSUME logTick
      PROVE  LogInv'
  <2>1. /\ UNCHANGED <<logSinks, entry, fileSink, console, dispatched, sinkCalls>>
        /\ logNow' = logNow + 1
    BY <1>5 DEF logTick
  <2>2. SinkInv(fileSink, logNow + 1)
    BY TickKeeps DEF LogInv
  <2>3. SinkInv(fileSink, logNow)'
    BY <2>1, <2>2
  <2> QED BY <2>1, <2>3 DEF LogInv, SameLines
<1>6. CASE LogNext
  BY <1>2, <1>3, <1>4, <1>5, <1>6, DispatchKeeps, SinkWritten, ForceKeeps
     DEF LogNext, logConnectionEvent, errorWithContext
<1> QED BY <1>1, <1>6

(***************************************************************************)
(* What it says of the files.                                              *)
(***************************************************************************)
LEMMA NumberedCount ==
  ASSUME NEW j \in Nat, NEW c
  PROVE  Cardinality((1 .. j) \X {c}) = j
<1>1. IsFiniteSet(1 .. j) /\ Cardinality(1 .. j) = j
  BY FS_Interval
<1>2. IsFiniteSet({c}) /\ Cardinality({c}) = 1
  BY FS_Singleton
<1>3. Cardinality((1 .. j) \X {c}) = Cardinality(1 .. j) * Cardinality({c})
  BY <1>1, <1>2, FS_Product
<1> QED BY <1>1, <1>2, <1>3

LEMMA BackupsCount ==
  ASSUME NEW b, NEW stamped, NEW now \in Nat, BackupsBounded(b, stamped, now)
  PROVE  Cardinality(DOMAIN b) <= 2 * MaxBackupFiles
<1>0. MaxBackupFiles \in Nat /\ IsFiniteSet(DOMAIN b) /\ Cardinality(DOMAIN b) \in Nat
  BY RotationAssumption, FS_CardinalityType DEF BackupsBounded
<1>1. CASE stamped
  <2>1. Cardinality(DOMAIN b) <= MaxBackupFiles
    BY <1>1 DEF BackupsBounded
  <2> QED BY <1>0, <2>1
<1>2. CASE ~stamped
  <2>1. DOMAIN b \in SUBSET ((1 .. MaxBackupFiles) \X BOOLEAN)
    BY <1>2 DEF BackupsBounded
  <2>2. IsFiniteSet(1 .. MaxBackupFiles) /\ Cardinality(1 .. MaxBackupFiles) = MaxBackupFiles
    <3>1. PICK m \in Nat : m = MaxBackupFiles
      BY <1>0
    <3>2. IsFiniteSet(1 .. m) /\ Cardinality(1 .. m) = m
      BY FS_Interval
    <3> QED BY <3>1, <3>2
  <2>3. IsFiniteSet(BOOLEAN) /\ Cardinality(BOOLEAN) = 2
    <3>1. BOOLEAN = {TRUE} \cup {FALSE}
      BY Zenon
    <3>2. IsFiniteSet({TRUE}) /\ Cardinality({TRUE}) = 1
      BY FS_Singleton
    <3>3. FALSE \notin {TRUE}
      OBVIOUS
    <3>4. IsFiniteSet({TRUE} \cup {FALSE}) /\ Cardinality({TRUE} \cup {FALSE}) = Cardinality({TRUE}) + 1
      BY <3>2, <3>3, FS_AddElement
    <3>5. Cardinality({TRUE} \cup {FALSE}) = 2
      BY <3>2, <3>4
    <3>6. IsFiniteSet({TRUE} \cup {FALSE})
      BY <3>4
    <3> QED BY <3>1, <3>5, <3>6, Zenon
  <2>4. /\ IsFiniteSet((1 .. MaxBackupFiles) \X BOOLEAN)
        /\ Cardinality((1 .. MaxBackupFiles) \X BOOLEAN) = Cardinality(1 .. MaxBackupFiles) * Cardinality(BOOLEAN)
    BY <2>2, <2>3, FS_Product
  <2>5. Cardinality(DOMAIN b) <= Cardinality((1 .. MaxBackupFiles) \X BOOLEAN)
    BY <2>1, <2>4, FS_Subset
  <2>6. Cardinality((1 .. MaxBackupFiles) \X BOOLEAN) = 2 * MaxBackupFiles
    BY <1>0, <2>2, <2>3, <2>4
  <2> QED BY <2>5, <2>6
<1> QED BY <1>1, <1>2

LEMMA LogInvKept == LogInv => LogLinesKept
<1> SUFFICES ASSUME LogInv PROVE LogLinesKept
  OBVIOUS
<1>0. MaxBackupFiles \in Nat
  BY RotationAssumption
<1>1. PICK s : s = fileSink
  OBVIOUS
<1>2. PICK D : D = DOMAIN s.backups
  OBVIOUS
<1>3. /\ SinkType(s) /\ BackupsBounded(s.backups, s.policy.timestampedNames, logNow)
      /\ s.faults \subseteq {"rename"} => Whole(s)
  BY <1>1 DEF LogInv, SinkInv
<1>4. PICK k \in Nat : k = Len(s.cuts)
  BY <1>3, SinkFields
<1>5. \A n : Newer(s, n) = NewerIn(D, s.policy.timestampedNames, n)
  BY <1>2 DEF Newer, NewerIn
<1>6. ASSUME s.faults \subseteq {"rename"}
      PROVE  /\ s.file = Between(s, k)
             /\ \A n \in D : Cardinality(Newer(s, n)) < k /\ s.backups[n] = Between(s, k - 1 - Cardinality(Newer(s, n)))
             /\ \A m, n \in D : m # n => m[1] # n[1]
             /\ s.faults = {} => Cardinality(D) = IF k < MaxBackupFiles THEN k ELSE MaxBackupFiles
  <2>1. Whole(s) /\ Pieces(s, s.backups)
    BY <1>3, <1>6 DEF Whole
  <2>2. s.file = Between(s, k)
    BY <1>4, <2>1 DEF Whole
  <2>3. \A n \in D : /\ n[2] = s.policy.compressionEnabled /\ Cardinality(Newer(s, n)) < k
                     /\ s.backups[n] = Between(s, k - 1 - Cardinality(Newer(s, n)))
    BY <1>2, <1>4, <1>5, <2>1 DEF Pieces
  <2>4. \A m, n \in D : m # n => m[1] # n[1]
    <3>1. \A n \in D : n = <<n[1], n[2]>>
      <4>1. CASE s.policy.timestampedNames
        <5>1. D \subseteq (0 .. logNow) \X BOOLEAN
          BY <1>2, <1>3, <4>1 DEF BackupsBounded
        <5> QED BY <5>1
      <4>2. CASE ~s.policy.timestampedNames
        <5>1. D \subseteq (1 .. MaxBackupFiles) \X BOOLEAN
          BY <1>2, <1>3, <4>2 DEF BackupsBounded
        <5> QED BY <5>1
      <4> QED BY <4>1, <4>2
    <3>2. \A n \in D : n[2] = s.policy.compressionEnabled
      BY <2>3
    <3> QED BY <3>1, <3>2
  <2>5. ASSUME s.faults = {}
        PROVE  Cardinality(D) = IF k < MaxBackupFiles THEN k ELSE MaxBackupFiles
    <3>1. Cardinality(D) = Allowed(k)
      <4>1. CASE s.policy.timestampedNames
        BY <1>2, <1>4, <2>1, <4>1 DEF Whole
      <4>2. CASE ~s.policy.timestampedNames
        <5>1. D = (1 .. Allowed(k)) \X {s.policy.compressionEnabled}
          BY <1>2, <1>4, <2>1, <2>5, <4>2 DEF Whole
        <5>2. Allowed(k) \in Nat
          BY <1>0 DEF Allowed
        <5> QED BY <5>1, <5>2, NumberedCount
      <4> QED BY <4>1, <4>2
    <3> QED BY <3>1 DEF Allowed
  <2> QED BY <2>2, <2>3, <2>4, <2>5
<1>7. Cardinality(D) <= 2 * MaxBackupFiles
  BY <1>2, <1>3, BackupsCount DEF LogInv
<1>8. sinkCalls = 0 /\ "open" \notin s.faults =>
        s.lines = IF \E t \in LogThreads : entry[t] = 2 THEN Append(console, dispatched) ELSE console
  BY <1>1 DEF LogInv, SameLines
<1> QED BY <1>1, <1>2, <1>4, <1>6, <1>7, <1>8 DEF LogLinesKept

(***************************************************************************)
(* Rotation loses, doubles or reorders no line, whatever the policy, the   *)
(* number of backups and of threads: the files are the lines written since *)
(* some rotation, the oldest that the limit allows, and the console has    *)
(* what the file has, in its order.                                        *)
(***************************************************************************)
THEOREM LogLinesAreKept == ServicesSpec => []LogLinesKept
<1>1. ServicesInit => LogInv
  BY LogInvInit DEF ServicesInit
<1>2. LogInv /\ [ServicesNext]_servicesVars => LogInv'
  BY OneService, LogInvStep
<1> QED BY <1>1, <1>2, LogInvKept, PTL DEF ServicesSpec
=============================================================================
