---------------------------- MODULE NetworkMonitor ----------------------------
(***************************************************************************)
(* pal::mobile::AndroidNetworkMonitor (and iOSNetworkMonitor, whose        *)
(* rebinding is the same): which network the phone is on, and the address  *)
(* the server is reached at.  Rebinding holds stateMutex_; the callback of *)
(* the system writes the same fields one by one without it.                *)
(***************************************************************************)
EXTENDS Integers

CONSTANTS
  Rebinders,      \* threads that rebind
  GracePeriod,    \* gracePeriodMs_
  MonitorHorizon  \* bound: the clock
ASSUME MonitorAssumption == GracePeriod \in Nat /\ MonitorHorizon \in Nat

VARIABLES
  nmType,       \* currentNetworkType_
  nmConnected,  \* isConnected_
  nmAddress,    \* the network that currentIpAddress_ belongs to
  nmAllowed,    \* allowedNetworks_
  nmWarning,    \* cellularWarningEnabled_, cellularWarningShown_
  nmGone,       \* disconnectionTime_
  nmClock,
  nmPc,         \* a rebinder between its test of the policy and the lock
  nmCallback,   \* the system callback under way: what it reports
  nmSince       \* since the last rebind: "network" and "policy" changes

monitorVars == <<nmType, nmConnected, nmAddress, nmAllowed, nmWarning, nmGone, nmClock,
                 nmPc, nmCallback, nmSince>>

Networks == {"WiFi", "Cellular", "Ethernet"}
NetworkTypes == Networks \union {"None"}
NoReport == [step |-> "none", up |-> FALSE, type |-> "None"]
NoRebind == [step |-> "idle", type |-> "None"]

MonitorInit ==
  /\ nmType = "WiFi" /\ nmConnected = TRUE /\ nmAddress = "WiFi"
  /\ nmAllowed = Networks
  /\ nmWarning = [enabled |-> TRUE, shown |-> FALSE]
  /\ nmGone = 0 /\ nmClock = 0
  /\ nmPc = [r \in Rebinders |-> NoRebind]
  /\ nmCallback = NoReport
  /\ nmSince = {}

isNetworkTypeAllowed(type) == type \in nmAllowed
isInGracePeriod == ~nmConnected /\ nmClock - nmGone < GracePeriod
getRemainingGracePeriod ==
  IF isInGracePeriod THEN GracePeriod - (nmClock - nmGone) ELSE 0

setAllowedNetworks(allowed) ==
  /\ nmAllowed # allowed /\ nmAllowed' = allowed
  /\ nmSince' = nmSince \union {"policy"}
  /\ UNCHANGED <<nmType, nmConnected, nmAddress, nmWarning, nmGone, nmClock, nmPc,
                 nmCallback>>

resetDataUsageWarning ==
  /\ nmWarning.shown /\ nmWarning' = [nmWarning EXCEPT !.shown = FALSE]
  /\ UNCHANGED <<nmType, nmConnected, nmAddress, nmAllowed, nmGone, nmClock, nmPc,
                 nmCallback, nmSince>>

enableCellularDataWarning(enabled) ==
  /\ nmWarning.enabled # enabled /\ nmWarning' = [nmWarning EXCEPT !.enabled = enabled]
  /\ UNCHANGED <<nmType, nmConnected, nmAddress, nmAllowed, nmGone, nmClock, nmPc,
                 nmCallback, nmSince>>

\* The policy is tested before the lock is taken.
checkAllowed(r, type) ==
  /\ nmPc[r] = NoRebind /\ isNetworkTypeAllowed(type)
  /\ nmPc' = [nmPc EXCEPT ![r] = [step |-> "allowed", type |-> type]]
  /\ UNCHANGED <<nmType, nmConnected, nmAddress, nmAllowed, nmWarning, nmGone, nmClock,
                 nmCallback, nmSince>>

\* attemptAutomaticRebind: the first network the policy allows.
attemptAutomaticRebind(r) ==
  \/ checkAllowed(r, "WiFi")
  \/ ~isNetworkTypeAllowed("WiFi") /\ checkAllowed(r, "Cellular")
  \/ nmAllowed = {"Ethernet"} /\ checkAllowed(r, "Ethernet")

\* Mutant: the address is left as it was.
rebindKeepsAddress(r) ==
  /\ nmPc[r].step = "allowed"
  /\ nmType' = nmPc[r].type /\ nmConnected' = TRUE
  /\ UNCHANGED nmAddress
  /\ nmWarning' = [nmWarning EXCEPT !.shown = @ \/ (nmPc[r].type = "Cellular" /\ nmWarning.enabled)]
  /\ nmSince' = {}
  /\ nmPc' = [nmPc EXCEPT ![r] = NoRebind]
  /\ UNCHANGED <<nmAllowed, nmGone, nmClock, nmCallback>>

rebindToInterface(r) ==
  /\ nmPc[r].step = "allowed"
  /\ nmType' = nmPc[r].type /\ nmConnected' = TRUE
  /\ nmAddress' = nmPc[r].type
  /\ nmWarning' = [nmWarning EXCEPT !.shown = @ \/ (nmPc[r].type = "Cellular" /\ nmWarning.enabled)]
  /\ nmSince' = (IF nmCallback.step = "none" THEN {} ELSE {"network"})
                \union (IF isNetworkTypeAllowed(nmPc[r].type) THEN {} ELSE {"policy"})
  /\ nmPc' = [nmPc EXCEPT ![r] = NoRebind]
  /\ UNCHANGED <<nmAllowed, nmGone, nmClock, nmCallback>>

-----------------------------------------------------------------------------
(* onNetworkCallback, without stateMutex_: it notes the old state, writes   *)
(* isConnected_, then the type, and tells the change it thinks it made.  A  *)
(* network of a kind the code does not know is connected and of type None.  *)

onNetworkCallback(up, type) ==
  /\ nmCallback.step = "none" /\ (up \/ type = "None")
  /\ nmConnected' = up
  /\ nmCallback' = [step |-> "connected", up |-> up, type |-> type]
  /\ nmSince' = nmSince \union {"network"}
  /\ UNCHANGED <<nmType, nmAddress, nmAllowed, nmWarning, nmGone, nmClock, nmPc>>

writeType ==
  /\ nmCallback.step = "connected"
  /\ nmType' = nmCallback.type
  /\ nmGone' = IF nmCallback.up THEN nmGone ELSE nmClock
  /\ nmCallback' = [nmCallback EXCEPT !.step = "typed"]
  /\ UNCHANGED <<nmConnected, nmAddress, nmAllowed, nmWarning, nmClock, nmPc, nmSince>>

\* networkChangeCallback_ is told, under callbackMutex_ only.
tellChange ==
  /\ nmCallback.step = "typed"
  /\ nmCallback' = NoReport
  /\ UNCHANGED <<nmType, nmConnected, nmAddress, nmAllowed, nmWarning, nmGone, nmClock,
                 nmPc, nmSince>>

passTime ==
  /\ nmClock < MonitorHorizon /\ nmClock' = nmClock + 1
  /\ UNCHANGED <<nmType, nmConnected, nmAddress, nmAllowed, nmWarning, nmGone, nmPc,
                 nmCallback, nmSince>>

MonitorNext ==
  \/ \E allowed \in {Networks, {"Cellular"}, {"Ethernet"}} : setAllowedNetworks(allowed)
  \/ resetDataUsageWarning \/ \E b \in BOOLEAN : enableCellularDataWarning(b)
  \/ \E r \in Rebinders : attemptAutomaticRebind(r) \/ rebindToInterface(r)
  \/ \E r \in Rebinders, type \in Networks : checkAllowed(r, type)
  \/ \E up \in BOOLEAN, type \in NetworkTypes : onNetworkCallback(up, type)
  \/ writeType \/ tellChange \/ passTime

-----------------------------------------------------------------------------

\* After a rebind, and until the system reports a change, the type, the
\* address and the connection belong together and to a network the policy
\* allowed; a phone that is in its grace period is disconnected and the time
\* left is never more than the period.  The system callback does not update
\* the address, and races the rebind.
NetworkStateAgrees ==
  /\ "network" \notin nmSince => nmConnected /\ nmAddress = nmType /\ nmType # "None"
  /\ nmSince = {} => isNetworkTypeAllowed(nmType)
  /\ getRemainingGracePeriod \in 0..GracePeriod
  /\ getRemainingGracePeriod > 0 => ~nmConnected

===============================================================================
