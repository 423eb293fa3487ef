----------------------------- MODULE MCServices -----------------------------
(***************************************************************************)
(* The services around the server, each by itself: they share no state, so *)
(* a behaviour has the steps of one component, the one focus names.        *)
(***************************************************************************)
EXTENDS ResourceLimits, ServerLifecycle, AuthService,
        AccessControl, StructuredLogger, TLSService, ConfigManager,
        ConfigText, Session, PublisherLifecycle, MetricsCollector,
        LinuxNetworkPAL, NetworkMonitor

VARIABLE focus

Policies ==
  { [type |-> "SizeBased", compressionEnabled |-> FALSE, timestampedNames |-> FALSE],
    [type |-> "Hybrid", compressionEnabled |-> TRUE, timestampedNames |-> FALSE],
    [type |-> "TimeBased", compressionEnabled |-> TRUE, timestampedNames |-> TRUE] }

Buckets == <<1, 2>>

ServicesInit ==
  /\ focus \in {"pool", "slots", "lifecycle", "auth", "acl", "log", "tls",
                "config", "text", "session", "publisher", "counters",
                "samples", "linux", "network"}
  /\ PoolInit /\ SlotInit /\ LifeInit /\ AuthInit /\ AclInit
  /\ LogInit /\ TLSInit /\ ConfigInit /\ TextInit /\ SessionInit
  /\ PubInit /\ MetricInit /\ LinuxInit /\ MonitorInit
  /\ focus # "log" => fileSink = NewSink(CHOOSE p \in SinkPolicies : TRUE, 0)

\* What the other components do meanwhile: nothing.
Elsewhere ==
  /\ UNCHANGED focus
  /\ IF focus = "pool" THEN TRUE ELSE UNCHANGED poolVars
  /\ IF focus = "slots" THEN TRUE ELSE UNCHANGED slotVars
  /\ IF focus = "lifecycle" THEN TRUE ELSE UNCHANGED lifeVars
  /\ IF focus = "auth" THEN TRUE ELSE UNCHANGED authVars
  /\ IF focus = "acl" THEN TRUE ELSE UNCHANGED aclVars
  /\ IF focus = "log" THEN TRUE ELSE UNCHANGED logVars
  /\ IF focus = "tls" THEN TRUE ELSE UNCHANGED tlsVars
  /\ IF focus = "config" THEN TRUE ELSE UNCHANGED configVars
  /\ IF focus = "text" THEN TRUE ELSE UNCHANGED textVars
  /\ IF focus = "session" THEN TRUE ELSE UNCHANGED sessionVars
  /\ IF focus = "publisher" THEN TRUE ELSE UNCHANGED pubVars
  /\ IF focus = "counters" \/ focus = "samples" THEN TRUE ELSE UNCHANGED metricVars
  /\ IF focus = "linux" THEN TRUE ELSE UNCHANGED linuxVars
  /\ IF focus = "network" THEN TRUE ELSE UNCHANGED monitorVars

ServicesNext ==
  \/ focus = "pool" /\ PoolNext /\ Elsewhere
  \/ focus = "slots" /\ SlotNext /\ Elsewhere
  \/ focus = "lifecycle" /\ LifeNext /\ Elsewhere
  \/ focus = "auth" /\ AuthNext /\ Elsewhere
  \/ focus = "acl" /\ AclNext /\ Elsewhere
  \/ focus = "log" /\ LogNext /\ Elsewhere
  \/ focus = "tls" /\ TLSNext /\ Elsewhere
  \/ focus = "config" /\ ConfigNext /\ Elsewhere
  \/ focus = "text" /\ TextNext /\ Elsewhere
  \/ focus = "session" /\ SessionNext /\ Elsewhere
  \/ focus = "publisher" /\ PubNext /\ Elsewhere
  \/ focus = "counters" /\ CounterNext /\ Elsewhere
  \/ focus = "samples" /\ SampleNext /\ Elsewhere
  \/ focus = "linux" /\ LinuxNext /\ Elsewhere
  \/ focus = "network" /\ MonitorNext /\ Elsewhere

servicesVars ==
  <<focus, poolVars, slotVars, lifeVars, authVars, aclVars, logVars,
    tlsVars, configVars, textVars, sessionVars, pubVars, metricVars,
    linuxVars, monitorVars>>

ServicesSpec == ServicesInit /\ [][ServicesNext]_servicesVars
-----------------------------------------------------------------------------
(* What each of the components promises; a state shows the one in focus.    *)

\* ConnectionPool and PublisherLimit: entries and slots are never more than
\* the limit, each is free or handed to one owner, the counts and the peak
\* agree with them, and the watermark was told of the last crossing.
ResourcesAccounted ==
  /\ focus = "pool" => PoolConsistent /\ HandlesExclusive /\ WatermarkTracks
  /\ focus = "slots" => SlotsAccounted /\ SlotWatermarkTracks

\* AuthService and AccessControl: a revoked key is refused, attempts in a
\* window are limited, and the threads that race the block pass only a bounded
\* number of attempts.
AccessLimited ==
  /\ focus = "auth" => AuthSound
  /\ focus = "acl" => AttemptsBounded

\* ConfigManager and MetricsCollector, each used by several threads at once: a
\* configuration that was checked stays valid through updates and reloads and
\* every change is told once and in order; the active counts, kept without a
\* lock, are those of open connections and streams, the peak the highest.
UpdatesAgree ==
  /\ focus = "config" => ConfigSound
  /\ focus = "counters" => CountersAgree

\* What is computed from an input is what a definition of it says: an address
\* matches a rule if and only if it shares the rule's prefix, and no allow rule
\* outweighs a deny rule of every application; the parsers accept exactly JSON
\* values, and read indented YAML as its paths; the histogram counts each
\* sample once, its percentiles are in order.
ValuesExact ==
  /\ focus = "acl" => RulesExact
  /\ focus = "text" => TextRead
  /\ focus = "samples" => HistogramSound

\* Session and PublisherLifecycle: a session names a stream while it publishes
\* or plays, and tells its changes in an unbroken chain; a publisher's
\* disconnect and its gaps are reported once, from frames that followed each
\* other, and every subscriber of a publication hears of its end.
PublishersTracked ==
  /\ focus = "session" => SessionSound
  /\ focus = "publisher" => PublisherReports

\* LinuxNetworkPAL and the network monitor: no edge the kernel reports is lost
\* to a callback that waits for it; after a rebind the network, the connection
\* and the server's address belong together until the system reports a change.
PlatformStateKept ==
  /\ focus = "linux" => EdgesNotLost
  /\ focus = "network" => NetworkStateAgrees
=============================================================================
