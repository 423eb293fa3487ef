------------------------------ MODULE MCMedia -------------------------------
(***************************************************************************)
(* Media from a publisher to its subscribers: its recognition, the cache   *)
(* and the queues, the distribution, and the optimizers that watch it,     *)
(* each by itself. They share no state here, so a behaviour has the steps  *)
(* of one of them, the one focus names.                                    *)
(***************************************************************************)
EXTENDS MediaBuffers, MediaDistribution, MediaHandler, Optimizers

VARIABLE focus

\* Caches of a few frames; a queue that keeps audio, and one that does not and
\* is limited in bytes too.
Caches == {[minDuration |-> 1, maxBytes |-> 4], [minDuration |-> 2, maxBytes |-> 5]}

Queues == {[maxDuration |-> 2, maxSize |-> 0, preserveAudio |-> TRUE],
           [maxDuration |-> 1, maxSize |-> 2, preserveAudio |-> FALSE]}

\* A cache that holds a keyframe and one frame after it.
SmallCache == [minDuration |-> 1, maxBytes |-> 3]

StreamingInit ==
  /\ focus \in {"buffers", "distribution", "handler", "latency", "rate"}
  /\ BuffersInit /\ MediaInit /\ HandlerInit /\ LatencyInit /\ RateInit
  /\ focus # "buffers" => /\ gop = NewGOPBuffer(CHOOSE c \in GopConfigs : TRUE)
                         /\ buffer = NewBuffer(CHOOSE c \in SubConfigs : TRUE)

\* What the other components do meanwhile: nothing.
Elsewhere ==
  /\ UNCHANGED focus
  /\ IF focus = "buffers" THEN TRUE ELSE UNCHANGED bufferVars
  /\ IF focus = "distribution" THEN TRUE ELSE UNCHANGED distributionVars
  /\ IF focus = "handler" THEN TRUE ELSE UNCHANGED handlerVars
  /\ IF focus = "latency" THEN TRUE ELSE UNCHANGED latencyVars
  /\ IF focus = "rate" THEN TRUE ELSE UNCHANGED rateVars

StreamingNext ==
  \/ focus = "buffers" /\ BuffersNext /\ Elsewhere
  \/ focus = "distribution" /\ MediaNext /\ Elsewhere
  \/ focus = "handler" /\ HandlerNext /\ Elsewhere
  \/ focus = "latency" /\ LatencyNext /\ Elsewhere
  \/ focus = "rate" /\ RateNext /\ Elsewhere

streamingVars ==
  <<focus, bufferVars, distributionVars, handlerVars, latencyVars,
    rateVars>>

StreamingSpec == StreamingInit /\ [][StreamingNext]_streamingVars
-----------------------------------------------------------------------------

\* MediaDistribution: a subscriber whose join is undisturbed gets headers, then
\* the frames of its own publication from a keyframe on, none twice and none
\* left out; only one that joined during the end is left in the tables.
FeedWhole ==
  focus = "distribution" => FeedComplete /\ StartsAtKeyframe /\ OwnPublication /\ NoOrphans

\* GOPBuffer: the cache offers the group of pictures on the air, whole if it
\* has fitted, and exceeds its size only while that group does.
CacheSound == focus = "buffers" => CacheHoldsLatestGop /\ CacheBounded

\* SubscriberBuffer: the queue keeps to its limit as far as it may drop, loses
\* no keyframe or audio it is told to preserve, and accounts for every frame.
QueueSound == focus = "buffers" => QueueBounded /\ ContinuityKept /\ DropsAccounted

\* Nothing is lost silently: a frame that fits in a queue is taken in, and a
\* subscriber the end of the stream removes has been told of it.
NothingLostSilently == [][DropsOnlyOnOverflow /\ EndIsAnnounced]_streamingVars

\* LatencyOptimizer and ThroughputOptimizer: statistics, rates and warnings
\* are those of the samples taken, through threads, windows and cooldowns.
RatesMeasured ==
  /\ focus = "latency" => LatencySound
  /\ focus = "rate" => RatesExact
=============================================================================
