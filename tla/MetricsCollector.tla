--------------------------- MODULE MetricsCollector ---------------------------
(***************************************************************************)
(* core::MetricsCollector.  The counters of connections and of streams are *)
(* atomics updated in several steps without a lock: the increment and the  *)
(* peak, the check for zero and the decrement, the stores of reset.  The   *)
(* histograms and the metrics of a stream are kept under their mutexes.    *)
(***************************************************************************)
EXTENDS Naturals, Sequences, FiniteSets, FiniteSetsExt, SequencesExt

CONSTANTS
  MetricThreads,
  Wrap,          \* the counters count modulo this (2^64)
  MaxEvents,     \* bound: increments
  MaxSamples,    \* samples a histogram keeps (10000; 100 per stream)
  SampleValues,  \* latencies
  BucketBounds   \* ascending upper bounds of all buckets but the last
ASSUME MetricsAssumption ==
  /\ {MaxEvents, MaxSamples} \subseteq Nat /\ Wrap \in Nat \ {0}
  /\ MaxEvents < Wrap   \* nobody counts 2^64 connections
  /\ IsFiniteSet(MetricThreads)
  /\ SampleValues \subseteq Nat /\ BucketBounds \in Seq(Nat)

VARIABLES
  active, peak, total,   \* activeConnections_ and so on, by counter
  metric,       \* where each thread is: <<counter, step, current, expected peak>>
  opened,       \* history: increments and decrements begun, by counter
  reached,      \* history: the highest value of active
  resets,       \* history: reset was called
  errors,       \* errorCounts_
  metered,      \* streamMetrics_: subscribers of the stream, or none
  delays,       \* ingestion delays of the stream
  latencies     \* latencySamples_

metricVars == <<active, peak, total, metric, opened, reached, resets,
                errors, metered, delays, latencies>>

Counters == {"connections", "streams"}
ErrorCategories == {"Protocol", "Network"}
Unmetered == MaxEvents + 1

Idle == <<"connections", "idle", 0, 0>>

MetricInit ==
  /\ active = [k \in Counters |-> 0] /\ peak = active /\ total = active
  /\ opened = active /\ reached = active
  /\ metric = [t \in MetricThreads |-> Idle]
  /\ resets = FALSE
  /\ errors = [e \in ErrorCategories |-> 0]
  /\ metered = Unmetered /\ delays = <<>> /\ latencies = <<>>

AtomicsOnly == UNCHANGED <<errors, metered, delays, latencies>>
Stage(t, step) == metric[t][2] = step
To(t, k, step, c, p) == metric' = [metric EXCEPT ![t] = <<k, step, c, p>>]
Done(t) == metric' = [metric EXCEPT ![t] = Idle]

\* fetch_add of the active and of the total counter.
increment(t, k) ==
  /\ Stage(t, "idle") /\ total["connections"] + total["streams"] < MaxEvents
  /\ active' = [active EXCEPT ![k] = (@ + 1) % Wrap]
  /\ total' = [total EXCEPT ![k] = @ + 1]
  /\ opened' = [opened EXCEPT ![k] = @ + 1]
  /\ reached' = [reached EXCEPT ![k] = Max({@, active'[k]})]
  /\ To(t, k, "readActive", 0, 0)
  /\ UNCHANGED <<peak, resets>> /\ AtomicsOnly

incrementConnections(t) == increment(t, "connections")
incrementStreams(t) == increment(t, "streams")

\* updatePeakConnections, updatePeakStreams: load both, then compare and
\* exchange until the peak is not below the value loaded.
loadActive(t) ==
  LET k == metric[t][1] IN
  /\ Stage(t, "readActive")
  /\ To(t, k, "readPeak", active[k], 0)
  /\ UNCHANGED <<active, peak, total, opened, reached, resets>> /\ AtomicsOnly

loadPeak(t) ==
  LET k == metric[t][1] IN
  /\ Stage(t, "readPeak")
  /\ IF metric[t][3] > peak[k] THEN To(t, k, "exchange", metric[t][3], peak[k]) ELSE Done(t)
  /\ UNCHANGED <<active, peak, total, opened, reached, resets>> /\ AtomicsOnly

\* Mutant: the peak is stored without comparing it with the one loaded.
storePeak(t) ==
  LET k == metric[t][1] IN
  /\ Stage(t, "exchange")
  /\ peak' = [peak EXCEPT ![k] = metric[t][3]]
  /\ Done(t)
  /\ UNCHANGED <<active, total, opened, reached, resets>> /\ AtomicsOnly

exchangePeak(t) ==
  LET k == metric[t][1]
      swapped == peak[k] = metric[t][4] IN
  /\ Stage(t, "exchange")
  /\ peak' = IF swapped THEN [peak EXCEPT ![k] = metric[t][3]] ELSE peak
  /\ IF swapped \/ metric[t][3] <= peak[k] THEN Done(t) ELSE To(t, k, "exchange", metric[t][3], peak[k])
  /\ UNCHANGED <<active, total, opened, reached, resets>> /\ AtomicsOnly

\* decrementConnections, decrementStreams: callers end what they began.
checkActive(t, k) ==
  /\ Stage(t, "idle") /\ opened[k] > 0
  /\ opened' = [opened EXCEPT ![k] = @ - 1]
  /\ IF active[k] > 0 THEN To(t, k, "subtract", 0, 0) ELSE Done(t)
  /\ UNCHANGED <<active, peak, total, reached, resets>> /\ AtomicsOnly

subtract(t) ==
  LET k == metric[t][1] IN
  /\ Stage(t, "subtract")
  /\ active' = [active EXCEPT ![k] = (@ + Wrap - 1) % Wrap]
  /\ Done(t)
  /\ UNCHANGED <<peak, total, opened, reached, resets>> /\ AtomicsOnly

\* Its stores are separate; threads between two steps of theirs see it whole.
resetMetrics ==
  /\ ~resets /\ resets' = TRUE
  /\ active' = [k \in Counters |-> 0] /\ peak' = active' /\ total' = active'
  /\ errors' = [e \in ErrorCategories |-> 0]
  /\ latencies' = <<>>
  /\ UNCHANGED <<metric, opened, reached, metered, delays>>

-----------------------------------------------------------------------------

Rest == UNCHANGED <<active, peak, total, metric, opened, reached, resets>>

recordError(e) ==
  /\ errors[e] < 1
  /\ errors' = [errors EXCEPT ![e] = @ + 1]
  /\ Rest /\ UNCHANGED <<metered, delays, latencies>>

createStreamMetrics ==
  /\ metered = Unmetered
  /\ metered' = 0 /\ delays' = <<>>
  /\ Rest /\ UNCHANGED <<errors, latencies>>

removeStreamMetrics ==
  /\ metered' = Unmetered /\ delays' = <<>>
  /\ Rest /\ UNCHANGED <<errors, latencies>>

incrementStreamSubscribers ==
  /\ metered < MaxEvents /\ metered' = metered + 1
  /\ Rest /\ UNCHANGED <<errors, delays, latencies>>

decrementStreamSubscribers ==
  /\ metered \in 1..MaxEvents /\ metered' = metered - 1
  /\ Rest /\ UNCHANGED <<errors, delays, latencies>>

\* The newest samples; the first goes when there is one too many.
Kept(samples) == IF Len(samples) > MaxSamples THEN Tail(samples) ELSE samples

recordIngestionDelay(d) ==
  /\ metered # Unmetered
  /\ delays' = Kept(Append(delays, d))
  /\ Rest /\ UNCHANGED <<errors, metered, latencies>>

recordLatency(l) ==
  /\ latencies' = Kept(Append(latencies, l))
  /\ Rest /\ UNCHANGED <<errors, metered, delays>>

averageIngestionDelay ==
  IF delays = <<>> THEN 0 ELSE FoldSeq(LAMBDA x, y : x + y, 0, delays) \div Len(delays)

\* The element at floor(percent * (n - 1)) of the sorted samples, from 0.
calculatePercentile(sorted, percent) == sorted[1 + (percent * (Len(sorted) - 1)) \div 100]

\* A sample counts in the first bucket whose bound it does not exceed.
getLatencyHistogram ==
  LET sorted == SortSeq(latencies, LAMBDA x, y : x < y)
      n == Len(BucketBounds) + 1
      bucket(x) == Min({n} \union {i \in 1..(n - 1) : x <= BucketBounds[i]})
  IN  [count |-> Len(sorted), min |-> sorted[1], max |-> sorted[Len(sorted)],
       p50 |-> calculatePercentile(sorted, 50), p95 |-> calculatePercentile(sorted, 95),
       p99 |-> calculatePercentile(sorted, 99),
       buckets |-> [i \in 1..n |-> Cardinality({j \in DOMAIN sorted : bucket(sorted[j]) = i})]]

\* The two halves share nothing but reset, and are checked one at a time.
CounterNext ==
  \/ \E t \in MetricThreads :
       \/ incrementConnections(t) \/ incrementStreams(t)
       \/ loadActive(t) \/ loadPeak(t) \/ exchangePeak(t)
       \/ (\E k \in Counters : checkActive(t, k)) \/ subtract(t)
  \/ resetMetrics

SampleNext ==
  \/ \E e \in ErrorCategories : recordError(e)
  \/ createStreamMetrics \/ removeStreamMetrics
  \/ incrementStreamSubscribers \/ decrementStreamSubscribers
  \/ \E v \in SampleValues : recordIngestionDelay(v) \/ recordLatency(v)
  \/ resetMetrics

-----------------------------------------------------------------------------

(***************************************************************************)
(* The unlocked counters: as long as reset is not called, the check for    *)
(* zero before a decrement is never stale (no counter wraps below zero),   *)
(* active is what is open but for the decrements under way, and the peak,  *)
(* however the compare-and-exchange loops of the threads interleave, is    *)
(* never above a value active had and, when no thread is in a loop, not    *)
(* below its present value.                                                *)
(***************************************************************************)
CountersAgree ==
  ~resets => \A k \in Counters :
    /\ active[k] = opened[k] + Cardinality({t \in MetricThreads : metric[t][1] = k /\ Stage(t, "subtract")})
    /\ peak[k] <= reached[k]
    /\ (\A t \in MetricThreads : metric[t][1] = k => metric[t][2] \in {"idle", "subtract"})
         => peak[k] >= active[k]

\* The histogram counts every sample kept once, its percentiles are samples in
\* order between the least and the greatest, and an average lies between them.
HistogramSound ==
  /\ latencies # <<>> =>
       LET h == getLatencyHistogram IN
       /\ FoldSeq(LAMBDA x, y : x + y, 0, h.buckets) = h.count
       /\ h.min <= h.p50 /\ h.p50 <= h.p95 /\ h.p95 <= h.p99 /\ h.p99 <= h.max
  /\ delays # <<>> =>
       averageIngestionDelay \in Min(ToSet(delays))..Max(ToSet(delays))
=============================================================================
