------------------------------ MODULE Optimizers ------------------------------
(***************************************************************************)
(* The two classes that measure the media pipeline: latencies and rates.   *)
(***************************************************************************)
EXTENDS Naturals, Sequences, FiniteSets, SequencesExt

(***************************************************************************)
(* streaming::LatencyOptimizer: processing times of chunks, latency        *)
(* samples of streams, and the statistics computed from them.  Each locked *)
(* section is a step: a forwarded chunk is timed under chunkMutex_ and     *)
(* counted under procStatsMutex_; reset clears the three maps in turn.     *)
(***************************************************************************)

CONSTANTS
  LatencyThreads, Chunks, LatencyStreams,
  Latencies,           \* latencies recorded
  SlowTime,            \* maxProcessingTime
  AlertThreshold,
  LatencyHorizon,      \* bound: the clock
  MaxLatencySamples, MaxForwards    \* bounds
ASSUME LatencyAssumption ==
  /\ SlowTime \in Nat /\ AlertThreshold \in Nat /\ LatencyHorizon \in Nat
  /\ MaxLatencySamples \in Nat /\ MaxForwards \in Nat /\ Latencies \subseteq Nat

VARIABLES
  clock, chunkTracking,     \* chunk -> receive time, NoTime: not tracked
  latencyTracking,          \* per stream: tracked, and its samples
  procStats,                \* total, slow, sum, min, max
  lowLatency,               \* lowLatencyMode, with its buffer
  latencyCall,              \* per thread: the step of its call
  counted,                  \* history: times counted since the statistics were cleared
  alerted                   \* history: <<stream, latency>> the callback was given
latencyVars == <<clock, chunkTracking, latencyTracking, procStats, lowLatency, latencyCall, counted, alerted>>

NoTime == LatencyHorizon + 1     \* milliseconds::max(), and a chunk not tracked
NoStats == [total |-> 0, slow |-> 0, sum |-> 0, min |-> NoTime, max |-> 0]
AtRest == <<"rest">>
Untracked == [on |-> FALSE, samples |-> <<>>]

LatencyInit ==
  /\ clock = 0 /\ chunkTracking = [c \in Chunks |-> NoTime]
  /\ latencyTracking = [s \in LatencyStreams |-> Untracked]
  /\ procStats = NoStats /\ lowLatency = FALSE
  /\ latencyCall = [t \in LatencyThreads |-> AtRest]
  /\ counted = <<>> /\ alerted = {}

latencyTick ==
  /\ clock < LatencyHorizon /\ clock' = clock + 1
  /\ UNCHANGED <<chunkTracking, latencyTracking, procStats, lowLatency, latencyCall, counted, alerted>>

ToStep(t, next) == latencyCall' = [latencyCall EXCEPT ![t] = next]

recordChunkReceived(c) ==
  /\ chunkTracking' = [chunkTracking EXCEPT ![c] = clock]
  /\ UNCHANGED <<clock, latencyTracking, procStats, lowLatency, latencyCall, counted, alerted>>

\* The time is taken before the lock; an untracked chunk is ignored.
recordChunkForwarded(t, c) ==
  /\ latencyCall[t] = AtRest /\ chunkTracking[c] # NoTime /\ Len(counted) < MaxForwards
  /\ ToStep(t, <<"count", clock - chunkTracking[c]>>)
  /\ UNCHANGED <<clock, chunkTracking, latencyTracking, procStats, lowLatency, counted, alerted>>

\* Mutant: the maximum is updated only when the minimum is not.
updateStatsElse(t) ==
  LET time == latencyCall[t][2] IN
  /\ latencyCall[t][1] = "count"
  /\ procStats' = [total |-> procStats.total + 1, sum |-> procStats.sum + time,
                   slow |-> procStats.slow + (IF time > SlowTime THEN 1 ELSE 0),
                   min |-> IF time < procStats.min THEN time ELSE procStats.min,
                   max |-> IF time > procStats.max /\ time >= procStats.min THEN time ELSE procStats.max]
  /\ counted' = Append(counted, time) /\ ToStep(t, AtRest)
  /\ UNCHANGED <<clock, chunkTracking, latencyTracking, lowLatency, alerted>>

updateProcessingStats(t) ==
  LET time == latencyCall[t][2] IN
  /\ latencyCall[t][1] = "count"
  /\ procStats' = [total |-> procStats.total + 1, sum |-> procStats.sum + time,
                   slow |-> procStats.slow + (IF time > SlowTime THEN 1 ELSE 0),
                   min |-> IF time < procStats.min THEN time ELSE procStats.min,
                   max |-> IF time > procStats.max THEN time ELSE procStats.max]
  /\ counted' = Append(counted, time) /\ ToStep(t, AtRest)
  /\ UNCHANGED <<clock, chunkTracking, latencyTracking, lowLatency, alerted>>

startLatencyTracking(s) ==
  /\ latencyTracking' = [latencyTracking EXCEPT ![s] = [on |-> TRUE, samples |-> <<>>]]
  /\ UNCHANGED <<clock, chunkTracking, procStats, lowLatency, latencyCall, counted, alerted>>

stopLatencyTracking(s) ==
  /\ latencyTracking' = [latencyTracking EXCEPT ![s] = Untracked]
  /\ UNCHANGED <<clock, chunkTracking, procStats, lowLatency, latencyCall, counted, alerted>>

recordFrameLatency(s, latency) ==
  /\ latencyTracking[s].on /\ Len(latencyTracking[s].samples) < MaxLatencySamples
  /\ latencyTracking' = [latencyTracking EXCEPT ![s].samples = Append(@, latency)]
  /\ alerted' = IF latency > AlertThreshold THEN alerted \union {<<s, latency>>} ELSE alerted
  /\ UNCHANGED <<clock, chunkTracking, procStats, lowLatency, latencyCall, counted>>

setLowLatencyMode(b) ==
  /\ lowLatency # b /\ lowLatency' = b
  /\ UNCHANGED <<clock, chunkTracking, latencyTracking, procStats, latencyCall, counted, alerted>>

resetChunks(t) ==
  /\ latencyCall[t] = AtRest
  /\ chunkTracking' = [c \in Chunks |-> NoTime] /\ ToStep(t, <<"resetStats">>)
  /\ UNCHANGED <<clock, latencyTracking, procStats, lowLatency, counted, alerted>>

resetProcStats(t) ==
  /\ latencyCall[t] = <<"resetStats">>
  /\ procStats' = NoStats /\ counted' = <<>> /\ ToStep(t, <<"resetStreams">>)
  /\ UNCHANGED <<clock, chunkTracking, latencyTracking, lowLatency, alerted>>

resetStreams(t) ==
  /\ latencyCall[t] = <<"resetStreams">>
  /\ latencyTracking' = [s \in LatencyStreams |-> Untracked] /\ ToStep(t, AtRest)
  /\ UNCHANGED <<clock, chunkTracking, procStats, lowLatency, counted, alerted>>

LatencyNext ==
  \/ latencyTick \/ \E b \in BOOLEAN : setLowLatencyMode(b)
  \/ \E c \in Chunks : recordChunkReceived(c) \/ \E t \in LatencyThreads : recordChunkForwarded(t, c)
  \/ \E s \in LatencyStreams :
       \/ startLatencyTracking(s) \/ stopLatencyTracking(s)
       \/ \E l \in Latencies : recordFrameLatency(s, l)
  \/ \E t \in LatencyThreads :
       updateProcessingStats(t) \/ resetChunks(t) \/ resetProcStats(t) \/ resetStreams(t)

-----------------------------------------------------------------------------
(* The statistics, and what they should say.                               *)

\* Percentile p (in hundredths) of sorted samples: index p * (n - 1), cut off.
calculatePercentile(sorted, p) == sorted[(p * (Len(sorted) - 1)) \div 100 + 1]

getStreamLatency(samples) ==
  LET sorted == SortSeq(samples, LAMBDA a, b : a < b)
  IN  [p50 |-> calculatePercentile(sorted, 50), p95 |-> calculatePercentile(sorted, 95),
       p99 |-> calculatePercentile(sorted, 99), min |-> sorted[1], max |-> sorted[Len(sorted)],
       average |-> FoldSeq(LAMBDA a, b : a + b, 0, samples) \div Len(samples)]

AtMost(samples, v) == Cardinality({i \in DOMAIN samples : samples[i] <= v})

(***************************************************************************)
(* Whatever threads record, read and reset at the same time, the           *)
(* processing statistics are those of the times counted since they were    *)
(* last cleared.  The statistics of a stream are ordered (minimum, p50,    *)
(* p95, p99, maximum, with the average between the ends) and each          *)
(* percentile is the largest sample with at most that share, rounded down, *)
(* of the others below it.                                                 *)
(***************************************************************************)
LatencySound ==
  /\ procStats.total = Len(counted)
  /\ procStats.slow = Cardinality({i \in DOMAIN counted : counted[i] > SlowTime})
  /\ procStats.sum = FoldSeq(LAMBDA a, b : a + b, 0, counted)
  /\ counted # <<>> => /\ \A i \in DOMAIN counted : procStats.min <= counted[i] /\ counted[i] <= procStats.max
                       /\ {procStats.min, procStats.max} \subseteq {counted[i] : i \in DOMAIN counted}
  /\ \A s \in LatencyStreams : latencyTracking[s].samples # <<>> =>
       LET samples == latencyTracking[s].samples
           stats == getStreamLatency(samples) IN
       /\ stats.min <= stats.p50 /\ stats.p50 <= stats.p95 /\ stats.p95 <= stats.p99 /\ stats.p99 <= stats.max
       /\ stats.min <= stats.average /\ stats.average <= stats.max
       /\ \A q \in {<<50, stats.p50>>, <<95, stats.p95>>, <<99, stats.p99>>} :
            AtMost(samples, q[2]) > (q[1] * (Len(samples) - 1)) \div 100
-----------------------------------------------------------------------------
(***************************************************************************)
(* streaming::ThroughputOptimizer.  A record call reads the clock and      *)
(* copies the configuration, then updates the stream's window under its    *)
(* lock and the server's window under aggregateMutex_, so samples of two   *)
(* threads may be queued out of time order.  Ingestion and distribution    *)
(* are handled alike; one of them is modelled, with the per-stream limit   *)
(* of ingestion and the aggregate limit of distribution.                   *)
(***************************************************************************)

CONSTANTS
  RateThreads, RateStreams,
  Sizes,                         \* bytes in one call
  SmoothingWindow, WarningCooldown, StreamLimit, AggregateLimit,
  RateHorizon, MaxRecords        \* bounds: the clock, and calls
ASSUME RateAssumption ==
  /\ SmoothingWindow \in Nat /\ WarningCooldown \in Nat /\ StreamLimit \in Nat
  /\ AggregateLimit \in Nat /\ RateHorizon \in Nat /\ MaxRecords \in Nat /\ Sizes \subseteq Nat

VARIABLES
  rateClock,
  rates,          \* tracked stream -> samples, total, peak, lastWarning
  aggregate,      \* samples, total, lastWarning
  recording,      \* per thread: the call's step, stream, time and size
  recorded,       \* history: all samples of each stream since its tracking began
  recordedAll,    \* history: all samples of the aggregate since the last reset
  warnings,       \* history: <<stream or aggregate, time, rate>>
  records         \* history: calls so far
rateVars == <<rateClock, rates, aggregate, recording, recorded, recordedAll, warnings, records>>

Never == 0             \* the clock's epoch: a default time_point
NoSamples == [on |-> FALSE, samples |-> <<>>, total |-> 0, peak |-> 0, lastWarning |-> Never]
AllStreams == "all"
Ready == <<"ready">>

\* Time starts after the cooldown, as the steady clock of a running host does.
RateInit ==
  /\ rateClock = WarningCooldown /\ rates = [s \in RateStreams |-> NoSamples]
  /\ aggregate = [NoSamples EXCEPT !.on = TRUE]
  /\ recording = [t \in RateThreads |-> Ready]
  /\ recorded = [s \in RateStreams |-> <<>>] /\ recordedAll = <<>>
  /\ warnings = {} /\ records = 0

rateTick ==
  /\ rateClock < RateHorizon /\ rateClock' = rateClock + 1
  /\ UNCHANGED <<rates, aggregate, recording, recorded, recordedAll, warnings, records>>

BytesOf(samples) == FoldSeq(LAMBDA a, b : a[2] + b, 0, samples)
InWindow(samples) == SelectSeq(samples, LAMBDA x : x[1] + SmoothingWindow >= rateClock)

\* Bytes per window stand for the bit rate.
calculateCurrentBitrate(samples) == BytesOf(InWindow(samples))

\* Mutant: everything up to the last old sample is removed.
cleanToLastOld(samples) ==
  LET old == {i \in DOMAIN samples : samples[i][1] + SmoothingWindow < rateClock}
      last == IF old = {} THEN 0 ELSE CHOOSE i \in old : \A j \in old : j <= i
  IN  SubSeq(samples, last + 1, Len(samples))

\* Removes from the front while the front is old.
cleanOldSamples(samples) ==
  LET young == {i \in DOMAIN samples : samples[i][1] + SmoothingWindow >= rateClock}
      first == IF young = {} THEN Len(samples) + 1 ELSE CHOOSE i \in young : \A j \in young : i <= j
  IN  SubSeq(samples, first, Len(samples))

\* The window with a sample added and cleaned, its total, peak and warning time.
Counted(w, sample, limit) ==
  LET samples == cleanOldSamples(Append(w.samples, sample))
      rate == calculateCurrentBitrate(samples)
  IN  [w EXCEPT !.samples = samples, !.total = @ + sample[2],
                !.peak = IF rate > @ THEN rate ELSE @,
                !.lastWarning = IF rate > limit /\ rateClock - @ >= WarningCooldown THEN rateClock ELSE @]

checkAndWarn(key, before, after) ==
  warnings' = IF after.lastWarning # before.lastWarning
              THEN warnings \union {<<key, after.lastWarning, calculateCurrentBitrate(after.samples)>>}
              ELSE warnings

startStreamTracking(s) ==
  /\ rates' = [rates EXCEPT ![s] = [NoSamples EXCEPT !.on = TRUE]]
  /\ recorded' = [recorded EXCEPT ![s] = <<>>]
  /\ warnings' = {w \in warnings : w[1] # s}
  /\ UNCHANGED <<rateClock, aggregate, recording, recordedAll, records>>

stopStreamTracking(s) ==
  /\ rates[s].on
  /\ rates' = [rates EXCEPT ![s] = NoSamples] /\ recorded' = [recorded EXCEPT ![s] = <<>>]
  /\ warnings' = {w \in warnings : w[1] # s}
  /\ UNCHANGED <<rateClock, aggregate, recording, recordedAll, records>>

recordIngestionData(t, s, bytes) ==
  /\ recording[t] = Ready /\ records < MaxRecords /\ records' = records + 1
  /\ recording' = [recording EXCEPT ![t] = <<"stream", s, <<rateClock, bytes>>>>]
  /\ UNCHANGED <<rateClock, rates, aggregate, recorded, recordedAll, warnings>>

\* A stream that is not tracked ends the call.
recordInStream(t) ==
  LET s == recording[t][2]
      sample == recording[t][3] IN
  /\ recording[t][1] = "stream"
  /\ \/ /\ ~rates[s].on /\ recording' = [recording EXCEPT ![t] = Ready]
        /\ UNCHANGED <<rates, recorded, warnings>>
     \/ /\ rates[s].on
        /\ rates' = [rates EXCEPT ![s] = Counted(@, sample, StreamLimit)]
        /\ checkAndWarn(s, rates[s], rates'[s])
        /\ recorded' = [recorded EXCEPT ![s] = Append(@, sample)]
        /\ recording' = [recording EXCEPT ![t] = <<"aggregate", s, sample>>]
  /\ UNCHANGED <<rateClock, aggregate, recordedAll, records>>

recordInAggregate(t) ==
  LET sample == recording[t][3] IN
  /\ recording[t][1] = "aggregate"
  /\ aggregate' = Counted(aggregate, sample, AggregateLimit)
  /\ checkAndWarn(AllStreams, aggregate, aggregate')
  /\ recordedAll' = Append(recordedAll, sample)
  /\ recording' = [recording EXCEPT ![t] = Ready]
  /\ UNCHANGED <<rateClock, rates, recorded, records>>

resetRates(t) ==
  /\ recording[t] = Ready /\ records < MaxRecords /\ records' = records + 1
  /\ rates' = [s \in RateStreams |-> NoSamples] /\ recorded' = [s \in RateStreams |-> <<>>]
  /\ recording' = [recording EXCEPT ![t] = <<"resetAggregate">>]
  /\ warnings' = {w \in warnings : w[1] = AllStreams}
  /\ UNCHANGED <<rateClock, aggregate, recordedAll>>

\* The time of the last aggregate warning is kept.
resetAggregate(t) ==
  /\ recording[t] = <<"resetAggregate">>
  /\ aggregate' = [aggregate EXCEPT !.samples = <<>>, !.total = 0]
  /\ recordedAll' = <<>> /\ recording' = [recording EXCEPT ![t] = Ready]
  /\ UNCHANGED <<rateClock, rates, recorded, warnings, records>>

RateNext ==
  \/ rateTick
  \/ \E s \in RateStreams :
       \/ startStreamTracking(s) \/ stopStreamTracking(s)
       \/ \E t \in RateThreads, b \in Sizes : recordIngestionData(t, s, b)
  \/ \E t \in RateThreads : recordInStream(t) \/ recordInAggregate(t) \/ resetRates(t) \/ resetAggregate(t)

-----------------------------------------------------------------------------

(***************************************************************************)
(* Although samples are queued out of time order and only the front of the *)
(* queue is cleaned, the rate computed from what is kept is the rate of    *)
(* all samples of the window, for each stream and for the aggregate, and   *)
(* the totals lose nothing.  Warnings of one stream, or of the aggregate,  *)
(* are at least the cooldown apart and were over the limit.                *)
(***************************************************************************)
RatesExact ==
  /\ \A s \in RateStreams :
       /\ calculateCurrentBitrate(rates[s].samples) = BytesOf(InWindow(recorded[s]))
       /\ rates[s].total = BytesOf(recorded[s])
  /\ calculateCurrentBitrate(aggregate.samples) = BytesOf(InWindow(recordedAll))
  /\ aggregate.total = BytesOf(recordedAll)
  /\ \A v, w \in warnings : v[1] = w[1] /\ v[2] < w[2] => w[2] - v[2] >= WarningCooldown
  /\ \A w \in warnings : w[3] > (IF w[1] = AllStreams THEN AggregateLimit ELSE StreamLimit)
=============================================================================
