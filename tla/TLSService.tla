------------------------------ MODULE TLSService ------------------------------
(***************************************************************************)
(* core::TLSService.  Contexts and connections are handed out as numbers;  *)
(* shutdown forgets them all while callers keep their handles and other    *)
(* threads are about to use them.  Every operation holds mutex_.           *)
(* What the TLS library does with a connection is outside the class.       *)
(***************************************************************************)
EXTENDS Naturals, Sequences, FiniteSets

CONSTANTS PinHashes,
          MaxHandlesTLS, MaxPins, MaxShutdowns   \* bounds
ASSUME TLSAssumption == {MaxHandlesTLS, MaxPins, MaxShutdowns} \subseteq Nat

VARIABLES
  tlsInitialized, hasCertificate,
  contexts,       \* impl_->contexts
  connectionsTLS, \* impl_->connections: id, the context it was made from, its epoch
  nextContextId, nextConnectionId,
  pins, pinEnforcementMode, acmeConfigured, mtlsEnabled,
  epoch,          \* history: shutdowns so far
  issued          \* history: the epoch in which each handle was handed out

tlsVars == <<tlsInitialized, hasCertificate, contexts, connectionsTLS, nextContextId,
             nextConnectionId, pins, pinEnforcementMode, acmeConfigured, mtlsEnabled, epoch, issued>>
handleVars == <<contexts, connectionsTLS, nextContextId, nextConnectionId, epoch, issued>>
settingVars == <<pins, pinEnforcementMode, acmeConfigured, mtlsEnabled>>

TLSVersions == {"TLS_1_0", "TLS_1_1", "TLS_1_2", "TLS_1_3"}

TLSInit ==
  /\ tlsInitialized = FALSE /\ hasCertificate = FALSE
  /\ contexts = {} /\ connectionsTLS = {}
  /\ nextContextId = 1 /\ nextConnectionId = 1
  /\ pins = <<>> /\ pinEnforcementMode = "Enforce"
  /\ acmeConfigured = FALSE /\ mtlsEnabled = FALSE
  /\ epoch = 0 /\ issued = <<>>

initializeTLS ==
  /\ ~tlsInitialized
  /\ tlsInitialized' = TRUE
  /\ UNCHANGED <<hasCertificate, handleVars, settingVars>>

\* Mutant: the counters start again with the new Impl.
shutdownRestartsIds ==
  /\ tlsInitialized /\ epoch < MaxShutdowns
  /\ contexts' = {} /\ connectionsTLS' = {}
  /\ hasCertificate' = FALSE /\ tlsInitialized' = FALSE
  /\ epoch' = epoch + 1
  /\ nextContextId' = 1 /\ nextConnectionId' = 1
  /\ UNCHANGED <<issued, settingVars>>

\* A new Impl, so every context and connection is freed; the counters, the
\* pins and the ACME and mTLS settings stay.
shutdownTLS ==
  /\ tlsInitialized /\ epoch < MaxShutdowns
  /\ contexts' = {} /\ connectionsTLS' = {}
  /\ hasCertificate' = FALSE /\ tlsInitialized' = FALSE
  /\ epoch' = epoch + 1
  /\ UNCHANGED <<nextContextId, nextConnectionId, issued, settingVars>>

createContext(minVersion) ==
  /\ tlsInitialized /\ minVersion \in {"TLS_1_2", "TLS_1_3"}
  /\ Len(issued) < MaxHandlesTLS
  /\ contexts' = contexts \union {nextContextId}
  /\ issued' = Append(issued, <<"context", nextContextId, epoch>>)
  /\ nextContextId' = nextContextId + 1
  /\ UNCHANGED <<tlsInitialized, hasCertificate, connectionsTLS, nextConnectionId, epoch, settingVars>>

\* The connections made from it keep working: the library counts references.
destroyContext(c) ==
  /\ c \in contexts
  /\ contexts' = contexts \ {c}
  /\ UNCHANGED <<tlsInitialized, hasCertificate, connectionsTLS, nextContextId, nextConnectionId,
                 epoch, issued, settingVars>>

\* Does not ask whether the service is initialized, only for the context.
wrapConnection(c) ==
  /\ c \in contexts
  /\ Len(issued) < MaxHandlesTLS
  /\ connectionsTLS' = connectionsTLS \union {<<nextConnectionId, c, epoch>>}
  /\ issued' = Append(issued, <<"connection", nextConnectionId, epoch>>)
  /\ nextConnectionId' = nextConnectionId + 1
  /\ UNCHANGED <<tlsInitialized, hasCertificate, contexts, nextContextId, epoch, settingVars>>

closeTLSConnection(n) ==
  /\ \E x \in connectionsTLS : x[1] = n
  /\ connectionsTLS' = {x \in connectionsTLS : x[1] # n}
  /\ UNCHANGED <<tlsInitialized, hasCertificate, contexts, nextContextId, nextConnectionId,
                 epoch, issued, settingVars>>

\* The files are read and parsed; a failure changes nothing.
loadCertificate(readable) ==
  /\ tlsInitialized /\ readable
  /\ hasCertificate' = TRUE
  /\ UNCHANGED <<tlsInitialized, handleVars, settingVars>>

Setting(p, m, a, t) ==
  /\ pins' = p /\ pinEnforcementMode' = m /\ acmeConfigured' = a /\ mtlsEnabled' = t
  /\ UNCHANGED <<tlsInitialized, hasCertificate, handleVars>>

\* A valid configuration is kept although the request itself always fails.
requestACMECertificate == Setting(pins, pinEnforcementMode, TRUE, mtlsEnabled)

\* The first pin is the primary one.
addCertificatePin(h) ==
  /\ Len(pins) < MaxPins
  /\ Setting(Append(pins, [hash |-> h, isPrimary |-> pins = <<>>]),
             pinEnforcementMode, acmeConfigured, mtlsEnabled)

\* The first pin with the hash.
removeCertificatePin(h) ==
  \E i \in DOMAIN pins :
    /\ pins[i].hash = h /\ \A j \in 1..(i - 1) : pins[j].hash # h
    /\ Setting(SubSeq(pins, 1, i - 1) \o SubSeq(pins, i + 1, Len(pins)),
               pinEnforcementMode, acmeConfigured, mtlsEnabled)

clearCertificatePins == Setting(<<>>, pinEnforcementMode, acmeConfigured, mtlsEnabled)
setPinEnforcementMode(m) == Setting(pins, m, acmeConfigured, mtlsEnabled)
configureMTLS(b) == Setting(pins, pinEnforcementMode, acmeConfigured, b)

TLSNext ==
  \/ initializeTLS \/ shutdownTLS
  \/ \E v \in TLSVersions : createContext(v)
  \/ \E c \in 1..MaxHandlesTLS : destroyContext(c) \/ wrapConnection(c) \/ closeTLSConnection(c)
  \/ \E b \in BOOLEAN : loadCertificate(b) \/ configureMTLS(b)
  \/ requestACMECertificate \/ clearCertificatePins
  \/ \E h \in PinHashes : addCertificatePin(h) \/ removeCertificatePin(h)
  \/ \E m \in {"Enforce", "ReportOnly"} : setPinEnforcementMode(m)

-----------------------------------------------------------------------------

Resolves(handle) ==
  \/ handle[1] = "context" /\ handle[2] \in contexts
  \/ handle[1] = "connection" /\ \E x \in connectionsTLS : x[1] = handle[2]

(***************************************************************************)
(* A handle kept over a shutdown and a new initialize never reaches what   *)
(* another caller has created since: it resolves to nothing.  A connection *)
(* never outlives the service it was made in, nothing is left or can be    *)
(* made while the service is not initialized, and at most one pin, the     *)
(* first, is primary.                                                      *)
(***************************************************************************)
HandlesNotReused ==
  /\ \A i \in DOMAIN issued : Resolves(issued[i]) => issued[i][3] = epoch
  /\ \A x \in connectionsTLS :
       x[3] = epoch /\ <<"context", x[2], epoch>> \in {issued[j] : j \in DOMAIN issued}
  /\ ~tlsInitialized => contexts = {} /\ connectionsTLS = {} /\ ~hasCertificate
  /\ \A i \in DOMAIN pins : pins[i].isPrimary => i = 1
=============================================================================
