---------------------------- MODULE ConfigManager ----------------------------
(***************************************************************************)
(* core::ConfigManager.  A file is applied key by key until one is         *)
(* rejected; runtime updates set one parameter after the other, releasing  *)
(* configMutex_ between them to call the change callback, while other      *)
(* threads update, hot-reload and load.  Parameters with the same handling *)
(* are represented by one: port (range checked), maxConnections (checked,  *)
(* then narrowed), tls and certPath, level and gop (hot).                  *)
(***************************************************************************)
EXTENDS Integers, Sequences, FiniteSets

CONSTANTS
  Updaters,        \* threads that update or hot-reload
  PortWrap,        \* 2^16
  CountWrap,       \* 2^32
  MaxUpdates       \* bound: calls
ASSUME ConfigAssumption ==
  /\ PortWrap \in Nat \ {0} /\ CountWrap \in Nat \ {0} /\ MaxUpdates \in Nat
  /\ IsFiniteSet(Updaters)

VARIABLES
  config,       \* config_
  isMobile,
  updating,     \* per thread: the update, the parameters left to apply, and
                \* the change that was made and not yet told
  writes,       \* history: hot parameters written: <<parameter, old, new>>
  events,       \* history: change events: <<parameter, old, new>>
  overlapped,   \* history: two updates were under way at once
  unchecked,    \* history: a load failed after it began to write, or the
                \* environment overrode what had been validated
  updates       \* history: calls so far

configVars == <<config, isMobile, updating, writes, events, overlapped, unchecked, updates>>

HotParameters == <<"level", "gop">>
NoUpdate == [step |-> "idle", update |-> <<>>, left |-> <<>>, change |-> <<>>]

Defaults == [port |-> 1, maxConnections |-> 2, level |-> "info", tls |-> FALSE, cert |-> FALSE, gop |-> 2]

\* A configuration file: for each key nothing or a value, which may be out of
\* range, too wide or an unknown word.
Files == [port : {{}, {2}, {PortWrap}}, maxConnections : {{}, {CountWrap}},
          level : {{}, {"?"}}, tls : {{}, {TRUE}}, cert : {{}, {TRUE}},
          gop : {{}, {-1}, {3}}]

\* What a runtime update carries.
RuntimeUpdates == [level : {{}, {"debug"}}, gop : {{}, {-1}, {3}}]

Narrow(n, wrap) == n % wrap

parseLogLevel(l) == l \in {"debug", "info", "warning", "error"}

\* The keys in the order the loader reads them, with the check of each.
Keys == <<"port", "maxConnections", "level", "tls", "cert", "gop">>
KeyAccepted(k, v) ==
  CASE k = "port"           -> v > 0 /\ v <= PortWrap - 1
    [] k = "maxConnections" -> v > 0
    [] k = "level"          -> parseLogLevel(v)
    [] k = "gop"            -> v >= 0
    [] OTHER                -> TRUE
Stored(k, v) == IF k = "maxConnections" THEN Narrow(v, CountWrap) ELSE v

Rejects(file) == {i \in DOMAIN Keys : \E v \in file[Keys[i]] : ~KeyAccepted(Keys[i], v)}

\* The configuration after the keys before the first that is rejected.
AppliedKeys(c, file) ==
  LET first == IF Rejects(file) = {} THEN Len(Keys) + 1
               ELSE CHOOSE i \in Rejects(file) : \A j \in Rejects(file) : i <= j
      place(k) == CHOOSE i \in DOMAIN Keys : Keys[i] = k
  IN  [k \in DOMAIN c |->
         IF file[k] # {} /\ place(k) < first THEN Stored(k, CHOOSE v \in file[k] : TRUE) ELSE c[k]]

validate(c) ==
  /\ c.port # 0 /\ c.maxConnections # 0
  /\ c.tls => c.cert
  /\ c.gop >= 0

ConfigInit ==
  /\ config = Defaults /\ isMobile = FALSE
  /\ updating = [t \in Updaters |-> NoUpdate]
  /\ writes = <<>> /\ events = <<>>
  /\ overlapped = FALSE /\ unchecked = FALSE /\ updates = 0

ConfigCall == updates < MaxUpdates /\ updates' = updates + 1

\* parseJson and parseYaml write under one lock and validate afterwards; what
\* was written stays when they fail.  No event is emitted.
loadFromFile(file) ==
  /\ ConfigCall
  /\ config' = AppliedKeys(config, file)
  /\ unchecked' = (unchecked \/ ~(Rejects(file) = {} /\ validate(config')))
  /\ UNCHANGED <<isMobile, updating, writes, events, overlapped>>

loadDefaults ==
  /\ ConfigCall
  /\ config' = [Defaults EXCEPT !.maxConnections = IF isMobile THEN 1 ELSE 2]
  /\ UNCHANGED <<isMobile, updating, writes, events, overlapped, unchecked>>

setMobilePlatform(b) ==
  /\ isMobile # b /\ ConfigCall
  /\ isMobile' = b
  /\ UNCHANGED <<config, updating, writes, events, overlapped, unchecked>>

\* The port of the environment is narrowed and nothing is checked.
applyEnvironmentOverrides(port) ==
  /\ ConfigCall
  /\ config' = [config EXCEPT !.port = Narrow(port, PortWrap)]
  /\ unchecked' = TRUE
  /\ UNCHANGED <<isMobile, updating, writes, events, overlapped>>

\* Mutant: a runtime update is not validated.
acceptUpdate(u) == TRUE

validateRuntimeUpdate(u) == \A v \in u.gop : v >= 0

\* Thread t goes on with its update.
Continue(t, step, u, left, change) ==
  updating' = [updating EXCEPT ![t] =
                 [step |-> step, update |-> u, left |-> left, change |-> change]]

BeginUpdate(t, u) ==
  /\ Continue(t, "apply", u, HotParameters, <<>>)
  /\ overlapped' = (overlapped \/ \E s \in Updaters \ {t} : updating[s].step # "idle")

applyRuntimeUpdate(t, u) ==
  /\ updating[t].step = "idle" /\ ConfigCall
  /\ validateRuntimeUpdate(u)
  /\ BeginUpdate(t, u)
  /\ UNCHANGED <<config, isMobile, writes, events, unchecked>>

\* Parses the file with a manager of its own, from the defaults; a parameter
\* is updated when the parsed value differs from the configuration copied
\* before.  The others are only reported.
hotReloadFromFile(t, file) ==
  LET parsed == AppliedKeys(Defaults, file)
      changed(k) == {v \in {parsed[k]} : v # config[k]}
  IN
  /\ updating[t].step = "idle" /\ ConfigCall
  /\ Rejects(file) = {} /\ validate(parsed)
  /\ BeginUpdate(t, [level |-> changed("level"), gop |-> changed("gop")])
  /\ UNCHANGED <<config, isMobile, writes, events, unchecked>>

\* One parameter under the lock, which is then released for the callback.
applyParameter(t) ==
  LET u == updating[t].update
      left == updating[t].left
      k == Head(left) IN
  /\ updating[t].step = "apply" /\ left # <<>>
  /\ \/ /\ u[k] = {}
        /\ Continue(t, "apply", u, Tail(left), <<>>)
        /\ UNCHANGED <<config, writes>>
     \/ \E v \in u[k] : LET change == <<k, <<config[k]>>, <<v>>>> IN
          /\ config' = [config EXCEPT ![k] = v]
          /\ writes' = Append(writes, change)
          /\ Continue(t, "emit", u, left, change)
  /\ UNCHANGED <<isMobile, events, overlapped, unchecked, updates>>

emitChangeEvent(t) ==
  /\ updating[t].step = "emit"
  /\ events' = Append(events, updating[t].change)
  /\ Continue(t, "apply", updating[t].update, Tail(updating[t].left), <<>>)
  /\ UNCHANGED <<config, isMobile, writes, overlapped, unchecked, updates>>

updateReturns(t) ==
  /\ updating[t].step = "apply" /\ updating[t].left = <<>>
  /\ updating' = [updating EXCEPT ![t] = NoUpdate]
  /\ UNCHANGED <<config, isMobile, writes, events, overlapped, unchecked, updates>>

ConfigNext ==
  \/ \E f \in Files : loadFromFile(f) \/ \E t \in Updaters : hotReloadFromFile(t, f)
  \/ loadDefaults \/ \E b \in BOOLEAN : setMobilePlatform(b)
  \/ \E p \in {2, PortWrap} : applyEnvironmentOverrides(p)
  \/ \E t \in Updaters :
       \/ \E u \in RuntimeUpdates : applyRuntimeUpdate(t, u)
       \/ applyParameter(t) \/ emitChangeEvent(t) \/ updateReturns(t)

-----------------------------------------------------------------------------

Times(x, s) == Cardinality({i \in DOMAIN s : s[i] = x})

(***************************************************************************)
(* Unless a load failed half way or the environment was applied last, the  *)
(* configuration in effect is one that validate accepts, however loads,    *)
(* updates and hot reloads interleave.  Every change event reports a write *)
(* that happened, once; when updates did not overlap, in the order of the  *)
(* writes, so that a listener ends with the values in effect.              *)
(***************************************************************************)
ConfigSound ==
  /\ ~unchecked => validate(config)
  /\ \A i \in DOMAIN events : Times(events[i], events) <= Times(events[i], writes)
  /\ ~overlapped => events = SubSeq(writes, 1, Len(events))
  /\ (\A t \in Updaters : updating[t].step = "idle") => Len(events) = Len(writes)
=============================================================================
