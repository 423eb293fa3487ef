--------------------------- MODULE ServerLifecycle ---------------------------
(***************************************************************************)
(* api::ServerLifecycleManager: configuration, creation of the components, *)
(* start and shutdown.  stateMutex_ covers only the test of the state at   *)
(* the beginning of a call: what follows interleaves with other calls.     *)
(***************************************************************************)
EXTENDS Sequences, FiniteSets, SequencesExt

CONSTANTS LifeThreads
ASSUME LifeAssumption == IsFiniteSet(LifeThreads)

VARIABLES
  lifeState,      \* state_
  accepting,      \* acceptingConnections_
  lifeConfig,     \* config_: what validation and start look at
  components,     \* the component pointers that are not null
  tlsLoaded,      \* did tlsService_ initialize and load its certificate?
  lifePc,         \* where each thread is, and the components it has yet to stop
  lifeEvents,     \* the events reported so far
  lifeRaced,      \* did two calls overlap?
  lifeRestarted   \* was a stopped server started again?

lifeVars == <<lifeState, accepting, lifeConfig, components, tlsLoaded, lifePc,
              lifeEvents, lifeRaced, lifeRestarted>>

ShutdownOrder == <<"ConnectionPool", "AuthService", "TLSService", "StreamRegistry",
                   "ShutdownCoordinator", "ErrorIsolation", "MetricsCollector",
                   "ConfigManager", "Logger">>

\* The order in which initialize creates them; no logger is created.
Components == {"ConfigManager", "MetricsCollector", "ErrorIsolation",
               "ShutdownCoordinator", "ConnectionPool", "StreamRegistry",
               "AuthService", "TLSService"}

\* port, TLS port: 0 or a port number; the paths: given or not.
LifecycleConfigs == [port : {0, 1935}, enableTLS : BOOLEAN, tlsPort : {0, 1935, 1936},
                     paths : BOOLEAN]

validateConfig(c) ==
  /\ c.port # 0
  /\ c.enableTLS => c.paths /\ c.tlsPort # 0 /\ c.tlsPort # c.port

LifeResting == [step |-> "idle", left |-> <<>>]

LifeInit ==
  /\ lifeState = "Uninitialized"
  /\ accepting = FALSE
  /\ lifeConfig = [port |-> 1935, enableTLS |-> FALSE, tlsPort |-> 1936, paths |-> FALSE]
  /\ components = {} /\ tlsLoaded = FALSE
  /\ lifePc = [t \in LifeThreads |-> LifeResting]
  /\ lifeEvents = {}
  /\ lifeRaced = FALSE /\ lifeRestarted = FALSE

-----------------------------------------------------------------------------

\* A call begins: it races if another one is under way.
Begin(t, step) ==
  /\ lifePc[t].step = "idle"
  /\ lifePc' = [lifePc EXCEPT ![t].step = step]
  /\ lifeRaced' = (lifeRaced \/ \E u \in LifeThreads \ {t} : lifePc[u].step # "idle")

\* An initialization that fails validation leaves only an event.
rejectConfig(t, c) ==
  /\ lifePc[t].step = "idle"
  /\ lifeState = "Uninitialized"
  /\ ~validateConfig(c)
  /\ lifeEvents' = lifeEvents \union {"ConfigurationError"}
  /\ UNCHANGED <<lifeState, accepting, lifeConfig, components, tlsLoaded, lifePc,
                 lifeRaced, lifeRestarted>>

initialize(t, c) ==
  /\ lifeState = "Uninitialized"
  /\ validateConfig(c)
  /\ Begin(t, "create")
  /\ lifeConfig' = c
  /\ UNCHANGED <<lifeState, accepting, components, tlsLoaded, lifeEvents, lifeRestarted>>

initializeComponents(t) ==
  /\ lifePc[t].step = "create"
  /\ components' = Components /\ tlsLoaded' = FALSE
  /\ lifeState' = "Initialized"
  /\ lifeEvents' = lifeEvents \union {"ServerInitialized"}
  /\ lifePc' = [lifePc EXCEPT ![t] = LifeResting]
  /\ UNCHANGED <<accepting, lifeConfig, lifeRaced, lifeRestarted>>

\* A running server answers success and is left alone.
startLifecycle(t) ==
  /\ lifeState \in {"Initialized", "Stopped"}
  /\ Begin(t, "starting")
  /\ lifeRestarted' = (lifeRestarted \/ lifeState = "Stopped")
  /\ UNCHANGED <<lifeState, accepting, lifeConfig, components, tlsLoaded, lifeEvents>>

storeStarting(t) ==
  /\ lifePc[t].step = "starting"
  /\ lifeState' = "Starting"
  /\ lifePc' = [lifePc EXCEPT ![t].step = "components"]
  /\ UNCHANGED <<accepting, lifeConfig, components, tlsLoaded, lifeEvents, lifeRaced, lifeRestarted>>

\* TLS that cannot be initialized or loaded is reported; the start goes on.
startComponents(t) ==
  /\ lifePc[t].step = "components"
  /\ LET tls == lifeConfig.enableTLS /\ "TLSService" \in components IN
     \E loaded \in (IF tls THEN BOOLEAN ELSE {tlsLoaded}) :
       /\ tlsLoaded' = loaded
       /\ lifeEvents' = lifeEvents \union IF tls /\ ~loaded THEN {"ComponentError"} ELSE {}
  /\ lifePc' = [lifePc EXCEPT ![t].step = "accept"]
  /\ UNCHANGED <<lifeState, accepting, lifeConfig, components, lifeRaced, lifeRestarted>>

finishStart(t) ==
  /\ \/ /\ lifePc[t].step = "accept"
        /\ accepting' = TRUE
        /\ lifePc' = [lifePc EXCEPT ![t].step = "run"]
        /\ UNCHANGED <<lifeState, lifeEvents>>
     \/ /\ lifePc[t].step = "run"
        /\ lifeState' = "Running"
        /\ lifeEvents' = lifeEvents \union {"ServerStarted"}
        /\ lifePc' = [lifePc EXCEPT ![t] = LifeResting]
        /\ UNCHANGED accepting
  /\ UNCHANGED <<lifeConfig, components, tlsLoaded, lifeRaced, lifeRestarted>>

\* Stopped, Uninitialized and Stopping answer success.
shutdownLifecycle(t) ==
  /\ lifeState \in {"Initialized", "Starting", "Running"}
  /\ Begin(t, "stopping")
  /\ UNCHANGED <<lifeState, accepting, lifeConfig, components, tlsLoaded, lifeEvents, lifeRestarted>>

\* Mutant: acceptingConnections_ is not taken back.
stopKeepsAccepting(t) ==
  /\ lifePc[t].step = "stopping"
  /\ lifeState' = "Stopping"
  /\ lifeEvents' = lifeEvents \union {"ServerStopping"}
  /\ lifePc' = [lifePc EXCEPT ![t] = [step |-> "stop", left |-> ShutdownOrder]]
  /\ UNCHANGED <<accepting, lifeConfig, components, tlsLoaded, lifeRaced, lifeRestarted>>

\* The state, the event, the flag, then the publishers are told; a graceful
\* shutdown sleeps for the grace period after this.
storeStopping(t) ==
  /\ lifePc[t].step = "stopping"
  /\ lifeState' = "Stopping"
  /\ accepting' = FALSE
  /\ lifeEvents' = lifeEvents \union {"ServerStopping"}
  /\ lifePc' = [lifePc EXCEPT ![t] = [step |-> "stop", left |-> ShutdownOrder]]
  /\ UNCHANGED <<lifeConfig, components, tlsLoaded, lifeRaced, lifeRestarted>>

shutdownComponents(t) ==
  /\ lifePc[t].step = "stop"
  /\ lifePc[t].left # <<>>
  /\ components' = components \ {Head(lifePc[t].left)}
  /\ tlsLoaded' = (tlsLoaded /\ Head(lifePc[t].left) # "TLSService")
  /\ lifePc' = [lifePc EXCEPT ![t].left = Tail(@)]
  /\ UNCHANGED <<lifeState, accepting, lifeConfig, lifeEvents, lifeRaced, lifeRestarted>>

finishStop(t) ==
  /\ lifePc[t].step = "stop"
  /\ lifePc[t].left = <<>>
  /\ lifeState' = "Stopped"
  /\ lifeEvents' = lifeEvents \union {"ServerStopped"}
  /\ lifePc' = [lifePc EXCEPT ![t] = LifeResting]
  /\ UNCHANGED <<accepting, lifeConfig, components, tlsLoaded, lifeRaced, lifeRestarted>>

LifeGoOn(t) ==
  \/ initializeComponents(t) \/ storeStarting(t) \/ startComponents(t) \/ finishStart(t)
  \/ storeStopping(t) \/ shutdownComponents(t) \/ finishStop(t)

LifeNext ==
  \E t \in LifeThreads :
    \/ \E c \in LifecycleConfigs : rejectConfig(t, c) \/ initialize(t, c)
    \/ startLifecycle(t) \/ shutdownLifecycle(t)
    \/ LifeGoOn(t)

-----------------------------------------------------------------------------

(***************************************************************************)
(* Between calls that did not overlap, the flag that admits connections    *)
(* is set exactly while the server runs, a running server that was not     *)
(* restarted has all its components, and a stopped one has none.           *)
(***************************************************************************)
LifecycleConsistent ==
  (\A t \in LifeThreads : lifePc[t].step = "idle") /\ ~lifeRaced =>
    /\ accepting <=> lifeState = "Running"
    /\ lifeState \in {"Initialized", "Running"} /\ ~lifeRestarted => components = Components
    /\ lifeState = "Stopped" => components = {} /\ ~tlsLoaded
=============================================================================
