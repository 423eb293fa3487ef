----------------------------- MODULE MediaBuffers -----------------------------
(***************************************************************************)
(* The two media buffers under any sequence of calls: a stream's GOPBuffer *)
(* and the SubscriberBuffer of one subscriber, fed with the same frames.   *)
(* The mutex of each makes a call one step, so the order of the calls is   *)
(* all that threads can change.                                            *)
(***************************************************************************)
EXTENDS GOPBuffer

(***************************************************************************)
(* streaming::SubscriberBuffer, the queue between the relay and one        *)
(* subscriber.  Every method holds the buffer's mutex throughout.  The     *)
(* statistics keep the counts, not the bytes and times.                    *)
(***************************************************************************)
Kinds == {"keyframe", "inter", "audio", "data"}

NewBuffer(config) ==
  [frames |-> <<>>, bytes |-> 0, processed |-> 0, dropped |-> [k \in Kinds |-> 0],
   config |-> config]

\* Frames enforceBufferLimit may take out again.
Droppable(f, config) == f.kind = "inter" \/ (f.kind = "audio" /\ ~ config.preserveAudio)

\* Mutants: whatever is no keyframe is turned away; so is a frame that meets the limit.
shouldDropAll(b, f) == f.kind # "keyframe" /\ Duration(b.frames) > b.config.maxDuration

shouldDropEarly(b, f) ==
  /\ f.kind = "inter"
  /\ \/ Duration(b.frames) > b.config.maxDuration
     \/ b.config.maxSize > 0 /\ b.bytes >= b.config.maxSize

\* Only the video frames between keyframes are turned away.
shouldDropFrame(b, f) ==
  /\ f.kind = "inter"
  /\ \/ Duration(b.frames) > b.config.maxDuration
     \/ b.config.maxSize > 0 /\ b.bytes > b.config.maxSize

\* Mutant: a drop is not counted.
recordNothing(b, s) == b

recordDroppedFrames(b, s) ==
  [b EXCEPT !.dropped = [k \in Kinds |-> @[k] + Cardinality({i \in 1 .. Len(s) : s[i].kind = k})]]

\* The sequence s without and with only the positions in I.
Without(s, I) ==
  LET kept    == (1 .. Len(s)) \ I
      Rank(i) == Cardinality({k \in kept : k <= i})
  IN  [j \in 1 .. Cardinality(kept) |-> s[CHOOSE i \in kept : Rank(i) = j]]

Only(s, I) == Without(s, (1 .. Len(s)) \ I)

\* The oldest droppable frames go, as many as it takes, or all of them.
enforceBufferLimit(b) ==
  LET droppable   == {i \in 1 .. Len(b.frames) : Droppable(b.frames[i], b.config)}
      Oldest(k)   == {i \in droppable : Cardinality({j \in droppable : j <= i}) <= k}
      enough      == {k \in 0 .. Cardinality(droppable) :
                        Duration(Without(b.frames, Oldest(k))) <= b.config.maxDuration}
      gone        == Oldest(Min(enough \cup {Cardinality(droppable)}))
      goneFrames  == Only(b.frames, gone)
  IN  recordDroppedFrames([b EXCEPT !.frames = Without(@, gone), !.bytes = @ - Bytes(goneFrames)],
                          goneFrames)

bufferPush(b, f) ==
  LET counted == [b EXCEPT !.processed = @ + 1]
  IN  IF shouldDropFrame(b, f)
      THEN recordDroppedFrames(counted, <<f>>)
      ELSE enforceBufferLimit([counted EXCEPT !.frames = Append(@, f),
                                              !.bytes = @ + FrameSize(f.kind)])

bufferPop(b) ==
  [b EXCEPT !.frames = Tail(@), !.bytes = @ - FrameSize(Head(b.frames).kind)]

bufferSetConfig(b, config) == enforceBufferLimit([b EXCEPT !.config = config])

bufferClear(b) == [b EXCEPT !.frames = <<>>, !.bytes = 0]

bufferResetStatistics(b) == [b EXCEPT !.processed = 0, !.dropped = [k \in Kinds |-> 0]]

bufferReset(b) == bufferResetStatistics(bufferClear(b))

-----------------------------------------------------------------------------
CONSTANTS
  GopConfigs,   \* the configurations of the cache in use
  SubConfigs,   \* the configurations of the queue in use
  MaxPushed,    \* bound: frames published
  QueueTimes     \* number of timestamps

ASSUME BuffersAssumption ==
  /\ \A c \in GopConfigs : c.minDuration \in Nat /\ c.maxBytes \in Nat
  /\ \A c \in SubConfigs : /\ c.maxDuration \in Nat /\ c.maxSize \in Nat
                           /\ c.preserveAudio \in BOOLEAN
  /\ MaxPushed \in Nat /\ QueueTimes \in Nat \ {0}

VARIABLES
  gop,     \* the cache
  buffer,  \* the queue
  count,   \* frames published
  tail,    \* history: the frames since the last keyframe, that keyframe first
  whole,   \* history: tail has fitted in the cache all the time
  owed,    \* history: frames in the queue that may not be dropped
  popped   \* history: the frames that left the queue by pop or clear, less those in it when
           \* the statistics were reset

bufferVars == <<gop, buffer, count, tail, whole, owed, popped>>

Pushed(kind, n) == [kind |-> kind, n |-> n, time |-> n % QueueTimes]

BuffersInit ==
  /\ gop \in {NewGOPBuffer(c) : c \in GopConfigs}
  /\ buffer \in {NewBuffer(c) : c \in SubConfigs}
  /\ count = 0 /\ tail = <<>> /\ whole = FALSE /\ owed = {} /\ popped = 0

-----------------------------------------------------------------------------

Fits(s, config) == Bytes(s) <= config.maxBytes

Kept(f, config) == ~ Droppable(f, config)

\* A frame arrives: GOPBuffer::push, then SubscriberBuffer::push.
push(kind) ==
  /\ count < MaxPushed
  /\ count' = count + 1
  /\ LET f == Pushed(kind, count + 1)
     IN  /\ gop' = gopPush(gop, f)
         /\ buffer' = bufferPush(buffer, f)
         /\ tail' = IF kind = "keyframe" THEN <<f>>
                    ELSE IF tail = <<>> THEN <<>> ELSE Append(tail, f)
         /\ whole' = ((kind = "keyframe" \/ whole) /\ Fits(tail', gop.config))
         /\ owed' = IF Kept(f, buffer.config) THEN owed \cup {f} ELSE owed
  /\ UNCHANGED popped

\* SubscriberBuffer::pop.
pop ==
  /\ buffer.frames # <<>>
  /\ buffer' = bufferPop(buffer)
  /\ owed' = owed \ {Head(buffer.frames)}
  /\ popped' = popped + 1
  /\ UNCHANGED <<gop, count, tail, whole>>

\* SubscriberBuffer::setConfig.
setSubscriberConfig(config) ==
  /\ buffer' = bufferSetConfig(buffer, config)
  /\ owed' = {f \in owed : Kept(f, config)}
  /\ UNCHANGED <<gop, count, tail, whole, popped>>

\* SubscriberBuffer::clear, resetStatistics and reset.
clearSubscriber ==
  /\ buffer' = bufferClear(buffer)
  /\ owed' = {}
  /\ popped' = popped + Len(buffer.frames)
  /\ UNCHANGED <<gop, count, tail, whole>>

resetStatistics ==
  /\ buffer' = bufferResetStatistics(buffer)
  /\ popped' = - Len(buffer.frames)
  /\ UNCHANGED <<gop, count, tail, whole, owed>>

resetSubscriber ==
  /\ buffer' = bufferReset(buffer)
  /\ owed' = {}
  /\ popped' = 0
  /\ UNCHANGED <<gop, count, tail, whole>>

\* GOPBuffer::setConfig, and its clear and reset, which differ in the headers only: those are
\* in MediaDistribution, where they are used.
setGopConfig(config) ==
  /\ gop' = gopSetConfig(gop, config)
  /\ whole' = (whole /\ Fits(tail, config))
  /\ UNCHANGED <<buffer, count, tail, owed, popped>>

clearGop ==
  /\ gop' \in {gopClear(gop), gopReset(gop)}
  /\ whole' = FALSE
  /\ UNCHANGED <<buffer, count, tail, owed, popped>>

BuffersNext ==
  \/ \E kind \in Kinds : push(kind)
  \/ pop \/ clearSubscriber \/ resetStatistics \/ resetSubscriber \/ clearGop
  \/ \E config \in SubConfigs : setSubscriberConfig(config)
  \/ \E config \in GopConfigs : setGopConfig(config)

-----------------------------------------------------------------------------
(* Properties *)

\* What a newcomer is offered is the group of pictures on the air: whole, if it has fitted in
\* the cache since its keyframe; else nothing or what runs from a keyframe to the newest frame
\* without a gap (GOPBuffer::push, evictOldFrames and updateKeyframeIndex after any history of
\* pushes and limits).
CacheHoldsLatestGop ==
  LET s == getFromLastKeyframe(gop)
  IN  /\ whole => s = tail
      /\ s # <<>> => /\ s[1].kind = "keyframe"
                     /\ \A i \in 1 .. Len(s) - 1 : s[i + 1].n = s[i].n + 1
                     /\ Last(s).n = count

\* The cache counts its bytes right and exceeds its size only while the group of pictures on
\* the air does so on its own (GOPBuffer::evictOldFrames).
CacheBounded ==
  /\ gop.bytes = Bytes(gop.frames)
  /\ gop.bytes <= gop.config.maxBytes \/ ~ Fits(getFromLastKeyframe(gop), gop.config)

\* The queue is longer than its limit only when nothing in it may be dropped
\* (SubscriberBuffer::enforceBufferLimit, also after pops and a change of the limit).
QueueBounded ==
  \/ Duration(buffer.frames) <= buffer.config.maxDuration
  \/ \A i \in 1 .. Len(buffer.frames) : Kept(buffer.frames[i], buffer.config)

\* "Preserve keyframes and audio": each keyframe, metadata frame and, as long as the
\* configuration preserves it, audio frame is in the queue until it is popped, in order.
ContinuityKept ==
  /\ owed \subseteq ToSet(buffer.frames)
  /\ \A i, j \in 1 .. Len(buffer.frames) : i < j => buffer.frames[i].n < buffer.frames[j].n

\* The statistics account for every frame: processed is popped, pending or dropped.
DropsAccounted ==
  /\ buffer.bytes = Bytes(buffer.frames)
  /\ buffer.processed =
       popped + Len(buffer.frames) + buffer.dropped["inter"] + buffer.dropped["audio"]

\* A frame is lost only to an overflow: one that fits in is taken in and displaces nothing.
DropsOnlyOnOverflow ==
  LET config == buffer.config
  IN  /\ count' = count + 1
      /\ Duration(Append(buffer.frames, Pushed("data", count'))) <= config.maxDuration
      /\ config.maxSize = 0 \/ buffer.bytes <= config.maxSize
      => Len(buffer'.frames) = Len(buffer.frames) + 1
==============================================================================
