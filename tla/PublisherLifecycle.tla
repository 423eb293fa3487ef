-------------------------- MODULE PublisherLifecycle --------------------------
(***************************************************************************)
(* streaming::PublisherLifecycle.  Threads start and stop the lifecycle,   *)
(* report the publisher's disconnect and change the subscribers while the  *)
(* publisher's thread delivers media; mutex_ is released around every      *)
(* callback.  Video and audio are treated alike: one type stands for both. *)
(***************************************************************************)
EXTENDS Naturals, Sequences, FiniteSets

CONSTANTS
  PubThreads,        \* threads that stop or report a disconnect
  PubSubscribers,
  TimestampWrap,     \* 2^32
  GapThreshold,      \* TIMESTAMP_GAP_THRESHOLD_MS
  FrameTimes,        \* timestamps the publisher sends
  MaxStarts, MaxFrames   \* bounds: publications, and frames in each
ASSUME PubAssumption ==
  /\ TimestampWrap \in Nat /\ GapThreshold \in Nat /\ MaxStarts \in Nat /\ MaxFrames \in Nat
  /\ FrameTimes \subseteq 0..(TimestampWrap - 1) /\ IsFiniteSet(PubThreads)

VARIABLES
  pubActive,        \* active_
  notified,         \* disconnectNotified_
  listeners,        \* subscribers_
  lastTime,         \* <<>> or <<last timestamp>>: hasFirst*, last*Timestamp
  gapCalls,         \* a frame whose gap callback runs with mutex_ released
  pubCall,          \* per thread: its call's next step and the copied set
  starts,           \* history: publications so far
  frames,           \* history: timestamps received in this publication
  gaps,             \* history: gaps reported in this publication
  disconnects,      \* history: disconnect callbacks made
  joinedIn,         \* history: the publication each subscriber joined, 0: none active
  ended             \* history: the subscribers told of an end since they joined
pubVars == <<pubActive, notified, listeners, lastTime, gapCalls, pubCall,
             starts, frames, gaps, disconnects, joinedIn, ended>>

NoCall == <<"none">>

PubInit ==
  /\ pubActive = FALSE /\ notified = FALSE /\ listeners = {}
  /\ lastTime = <<>> /\ gapCalls = <<>>
  /\ pubCall = [t \in PubThreads |-> NoCall]
  /\ starts = 0 /\ frames = <<>> /\ gaps = {} /\ disconnects = 0
  /\ joinedIn = [s \in PubSubscribers |-> 0] /\ ended = {}

\* start with resetState, under one lock.
startPublication ==
  /\ ~pubActive /\ starts < MaxStarts
  /\ pubActive' = TRUE /\ notified' = FALSE /\ lastTime' = <<>>
  /\ starts' = starts + 1 /\ frames' = <<>> /\ gaps' = {}
  /\ UNCHANGED <<listeners, gapCalls, pubCall, disconnects, joinedIn, ended>>

-----------------------------------------------------------------------------
(* Media.                                                                  *)

isTimestampWraparound(previous, current) ==
  previous > TimestampWrap \div 2 /\ current < TimestampWrap - 1 - TimestampWrap \div 2

\* Mutant: the gap is measured without looking for a wrap.
checkGapModulo(timestamp) ==
  lastTime # <<>> /\ (timestamp - lastTime[1] + TimestampWrap) % TimestampWrap > GapThreshold

checkTimestampGap(timestamp) ==
  /\ lastTime # <<>>
  /\ ~isTimestampWraparound(lastTime[1], timestamp)
  /\ timestamp > lastTime[1] /\ timestamp - lastTime[1] > GapThreshold

\* The gap is counted and the callback called with mutex_ released; the last
\* timestamp is stored when it has returned.  active_ is tested before the
\* lock is taken; a frame that stop overtakes there changes nothing stop reads.
onMediaReceived(timestamp) ==
  /\ pubActive /\ gapCalls = <<>> /\ Len(frames) < MaxFrames
  /\ frames' = Append(frames, timestamp)
  /\ IF checkTimestampGap(timestamp)
     THEN /\ gaps' = gaps \union {<<lastTime[1], timestamp, Len(frames)>>}
          /\ gapCalls' = <<timestamp>> /\ UNCHANGED lastTime
     ELSE lastTime' = <<timestamp>> /\ UNCHANGED <<gaps, gapCalls>>
  /\ UNCHANGED <<pubActive, notified, listeners, pubCall, starts, disconnects, joinedIn, ended>>

\* After a restart in between, the type has no first timestamp yet, so the
\* stored one is not used.
gapCallbackReturns ==
  /\ gapCalls # <<>>
  /\ lastTime' = IF frames = <<>> THEN <<>> ELSE gapCalls
  /\ gapCalls' = <<>>
  /\ UNCHANGED <<pubActive, notified, listeners, pubCall, starts, frames, gaps, disconnects, joinedIn, ended>>

-----------------------------------------------------------------------------
(* Subscribers, stop and disconnect.                                       *)

addSubscriber(s) ==
  /\ s \notin listeners
  /\ listeners' = listeners \union {s} /\ ended' = ended \ {s}
  /\ joinedIn' = [joinedIn EXCEPT ![s] = IF pubActive THEN starts ELSE 0]
  /\ UNCHANGED <<pubActive, notified, lastTime, gapCalls, pubCall, starts, frames, gaps, disconnects>>

removeSubscriber(s) ==
  /\ s \in listeners
  /\ listeners' = listeners \ {s}
  /\ UNCHANGED <<pubActive, notified, lastTime, gapCalls, pubCall, starts, frames, gaps, disconnects, joinedIn, ended>>

\* A call carries the publication it stops, 0 for a disconnect.
Calling(t, next) == pubCall' = [pubCall EXCEPT ![t] = next]

stopLifecycle(t) ==
  /\ pubCall[t] = NoCall /\ pubActive
  /\ pubActive' = FALSE /\ Calling(t, <<"copy", starts>>)
  /\ UNCHANGED <<notified, listeners, lastTime, gapCalls, starts, frames, gaps, disconnects, joinedIn, ended>>

\* Mutant: the answer of the exchange is ignored.
disconnectedAgain(t) ==
  /\ pubCall[t] = NoCall
  /\ notified' = TRUE /\ Calling(t, <<"told">>)
  /\ UNCHANGED <<pubActive, listeners, lastTime, gapCalls, starts, frames, gaps, disconnects, joinedIn, ended>>

\* disconnectNotified_.exchange(true)
onPublisherDisconnected(t) ==
  /\ pubCall[t] = NoCall /\ ~notified
  /\ notified' = TRUE /\ Calling(t, <<"told">>)
  /\ UNCHANGED <<pubActive, listeners, lastTime, gapCalls, starts, frames, gaps, disconnects, joinedIn, ended>>

disconnectCallback(t) ==
  /\ pubCall[t] = <<"told">>
  /\ disconnects' = disconnects + 1
  /\ Calling(t, <<"copy", 0>>)
  /\ UNCHANGED <<pubActive, notified, listeners, lastTime, gapCalls, starts, frames, gaps, joinedIn, ended>>

\* notifyAllSubscribers copies the set under the lock ...
copySubscribers(t) ==
  /\ pubCall[t][1] = "copy"
  /\ Calling(t, <<"notify", pubCall[t][2], listeners>>)
  /\ UNCHANGED <<pubActive, notified, listeners, lastTime, gapCalls, starts, frames, gaps, disconnects, joinedIn, ended>>

\* ... and calls the callback for each of the copy without it.
notifyAllSubscribers(t) ==
  /\ pubCall[t][1] = "notify"
  /\ \E s \in pubCall[t][3] :
       /\ ended' = ended \union {s}
       /\ Calling(t, [pubCall[t] EXCEPT ![3] = @ \ {s}])
  /\ UNCHANGED <<pubActive, notified, listeners, lastTime, gapCalls, starts, frames, gaps, disconnects, joinedIn>>

\* stop clears the subscribers, those that joined since the copy too.
notifyReturns(t) ==
  /\ pubCall[t][1] = "notify" /\ pubCall[t][3] = {}
  /\ listeners' = IF pubCall[t][2] > 0 THEN {} ELSE listeners
  /\ Calling(t, NoCall)
  /\ UNCHANGED <<pubActive, notified, lastTime, gapCalls, starts, frames, gaps, disconnects, joinedIn, ended>>

PubNext ==
  \/ startPublication \/ gapCallbackReturns
  \/ \E ts \in FrameTimes : onMediaReceived(ts)
  \/ \E s \in PubSubscribers : addSubscriber(s) \/ removeSubscriber(s)
  \/ \E t \in PubThreads :
       \/ stopLifecycle(t) \/ onPublisherDisconnected(t) \/ disconnectCallback(t)
       \/ copySubscribers(t) \/ notifyAllSubscribers(t) \/ notifyReturns(t)

-----------------------------------------------------------------------------

(***************************************************************************)
(* The disconnect callback is called at most once for each publication     *)
(* (once before the first), whichever threads report the disconnect.  A    *)
(* gap is reported only for two consecutive frames of one publication,     *)
(* the second later by more than the threshold, also when the publication  *)
(* is stopped and restarted while the gap callback of the old one runs.    *)
(* A subscriber that stop is about to clear, and that joined while the     *)
(* stopped publication was active, has been told that it ended.            *)
(***************************************************************************)
PublisherReports ==
  /\ disconnects <= starts + 1
  /\ \A g \in gaps :
       /\ g[3] + 1 <= Len(frames) /\ g[3] >= 1
       /\ frames[g[3]] = g[1] /\ frames[g[3] + 1] = g[2]
       /\ g[2] > g[1] + GapThreshold
  /\ \A t \in PubThreads : pubCall[t][1] = "notify" /\ pubCall[t][2] > 0 =>
       \A s \in listeners \ pubCall[t][3] : joinedIn[s] = pubCall[t][2] => s \in ended
=============================================================================
