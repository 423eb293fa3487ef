-------------------------- MODULE MediaDistribution --------------------------
(***************************************************************************)
(* streaming::MediaDistribution and streaming::SubscriberManager with the  *)
(* cache they work on: one stream key, its publisher's thread and a thread *)
(* per subscriber.  Each lock covers one step only; the loops over         *)
(* subscribers and over cached frames run between the locks, on snapshots. *)
(* What a subscriber's buffer makes of the frames pushed to it is in       *)
(* MediaBuffers; no decision here depends on it.                           *)
(*                                                                         *)
(* The embedding program calls in.  It may list a stream before or after   *)
(* it gives the stream a cache, and may take it off the list before or     *)
(* after it ends it; a subscriber calls from one thread at a time.         *)
(***************************************************************************)
EXTENDS GOPBuffer

CONSTANTS
  Subs,        \* subscriber ids
  Published,   \* the kinds of frames published
  GopConfig,   \* the configuration of the caches
  MaxFrames,   \* bound: frames of a publication
  MaxRounds,   \* bound: publications of the stream key
  TimeSpace    \* number of timestamps

ASSUME MediaAssumption ==
  /\ Published \subseteq {"keyframe", "inter", "audio", "data"}
  /\ GopConfig.minDuration \in Nat /\ GopConfig.maxBytes \in Nat
  /\ MaxFrames \in Nat /\ MaxRounds \in Nat /\ TimeSpace \in Nat \ {0}

VARIABLES
  listed,       \* does the registry have the stream?
  round,        \* publications so far
  gops,         \* the GOPBuffer object of each publication
  cacheOf,      \* streamStates_[key].gopBuffer: whose object, 0 for none
  subscribers,  \* the keys of subscribers_, which are those of streamSubscribers_[key] too
  pub,          \* the publisher's thread: position, frame in hand, subscribers to do
  join,         \* each subscriber's thread: position, frames to send, cache in hand
  sent,         \* history: the frames of this publication
  given,        \* history: the frames pushed to a subscriber's buffer, while not strained
  home,         \* history: publication and frames of it so far when it subscribed
  told,         \* history: subscribers told of the end since they subscribed
  strained      \* history: what the code does not arrange for, since they subscribed: a
                \* join that overlapped a "distribution", or the "end" of the stream, or
                \* found the former publication's cache ("stale")

distributionVars == <<listed, round, gops, cacheOf, subscribers, pub, join, sent, given, home,
          told, strained>>

stream  == <<listed, round, cacheOf>>
members == <<subscribers, given, home, told, strained>>

Rounds == 1 .. MaxRounds

Frame(kind, n, r) == [kind |-> kind, n |-> n, time |-> n % TimeSpace, round |-> r]

MediaInit ==
  /\ listed = FALSE /\ round = 0 /\ cacheOf = 0
  /\ gops = [r \in Rounds |-> NewGOPBuffer(GopConfig)]
  /\ subscribers = {}
  /\ pub = [pc |-> "idle", frame |-> 0, todo |-> {}]
  /\ join = [s \in Subs |-> [pc |-> "idle", todo |-> <<>>, cache |-> 0]]
  /\ sent = <<>>
  /\ given = [s \in Subs |-> <<>>]
  /\ home = [s \in Subs |-> [round |-> 0, frames |-> 0]]
  /\ told = {} /\ strained = [s \in Subs |-> {}]

-----------------------------------------------------------------------------
(* The publisher's thread *)

At(pc) == pub.pc = pc

Goto(pc) == pub' = [pub EXCEPT !.pc = pc]

\* registerStream, before or after the cache is set.
list ==
  /\ (At("idle") /\ round < MaxRounds) \/ At("cached")
  /\ Goto(IF At("cached") THEN "live" ELSE "bare")
  /\ listed' = TRUE
  /\ round' = IF At("cached") THEN round ELSE round + 1
  /\ sent' = IF At("cached") THEN sent ELSE <<>>
  /\ UNCHANGED <<gops, cacheOf, members, join>>

\* A buffer object nobody holds any more is destroyed.
setGOPBuffer ==
  /\ (At("idle") /\ round < MaxRounds) \/ At("bare")
  /\ Goto(IF At("bare") THEN "live" ELSE "cached")
  /\ round' = IF At("bare") THEN round ELSE round + 1
  /\ cacheOf' = round'
  /\ gops' = [r \in Rounds |-> IF \E s \in Subs : join[s].cache = r
                               THEN gops[r] ELSE NewGOPBuffer(GopConfig)]
  /\ sent' = IF At("bare") THEN sent ELSE <<>>
  /\ UNCHANGED <<listed, members, join>>

setMetadata ==
  /\ At("live")
  /\ gops' = [gops EXCEPT ![cacheOf].metadata = TRUE]
  /\ UNCHANGED <<stream, members, pub, join, sent>>

setSequenceHeaders ==
  /\ At("live")
  /\ gops' = [gops EXCEPT ![cacheOf].headers = TRUE]
  /\ UNCHANGED <<stream, members, pub, join, sent>>

\* A subscriber is between its entry in the tables and the last of its cached frames.
Joining(s) == join[s].pc \in {"added", "headers", "frames"}

\* distribute, up to the lock of the subscriber manager.
distribute(kind) ==
  /\ At("live") /\ Len(sent) < MaxFrames
  /\ LET f == Frame(kind, Len(sent) + 1, round)
     IN  /\ gops' = [gops EXCEPT ![cacheOf] = gopPush(@, f)]
         /\ sent' = Append(sent, f)
         /\ pub' = [pub EXCEPT !.pc = "pushed", !.frame = f]
  /\ strained' = [s \in Subs |-> strained[s] \cup (IF Joining(s) THEN {"distribution"} ELSE {})]
  /\ given' = [s \in Subs |-> IF strained'[s] = {} THEN given[s] ELSE <<>>]
  /\ UNCHANGED <<stream, subscribers, home, told, join>>

\* The loops over a snapshot of the subscribers: todo is what is left of it.
snapshot(next) == pub' = [pub EXCEPT !.pc = next, !.todo = subscribers]

\* Mutant: the test for an empty set is the wrong way round.
returnsWithSubscribers ==
  /\ At("pushed")
  /\ IF subscribers = {} THEN snapshot("sending") ELSE Goto("live")
  /\ UNCHANGED <<stream, gops, members, join, sent>>

getSubscribersForStream ==
  /\ At("pushed")
  /\ snapshot("sending")
  /\ UNCHANGED <<stream, gops, members, join, sent>>

\* pushToSubscriber looks the id up again.
pushToSubscriber(s, f) ==
  given' = IF s \in subscribers /\ strained[s] = {}
           THEN [given EXCEPT ![s] = Append(@, f)] ELSE given

sendFrame(s) ==
  /\ At("sending") /\ s \in pub.todo
  /\ pushToSubscriber(s, pub.frame)
  /\ pub' = [pub EXCEPT !.todo = @ \ {s}]
  /\ UNCHANGED <<stream, gops, subscribers, join, sent, home, told, strained>>

distributed ==
  /\ At("sending") /\ pub.todo = {}
  /\ pub' = [pub EXCEPT !.pc = "live", !.frame = 0]
  /\ UNCHANGED <<stream, gops, members, join, sent>>

\* unregisterStream, before the end or after it.
unlist ==
  /\ At("live") \/ At("closing")
  /\ Goto(IF At("live") THEN "unlisted" ELSE "idle")
  /\ listed' = FALSE
  /\ UNCHANGED <<round, gops, cacheOf, members, join, sent>>

\* Mutant: the manager is notified without EOF being sent.
endUnannounced ==
  /\ At("live") \/ At("unlisted")
  /\ pub' = [pub EXCEPT !.pc = "eof", !.todo = {}]
  /\ UNCHANGED <<stream, gops, members, join, sent>>

onStreamEnd ==
  /\ At("live") \/ At("unlisted")
  /\ snapshot("eof")
  /\ UNCHANGED <<stream, gops, members, join, sent>>

emitStreamEOF(s) ==
  /\ At("eof") /\ s \in pub.todo
  /\ told' = told \cup {s}
  /\ pub' = [pub EXCEPT !.todo = @ \ {s}]
  /\ UNCHANGED <<stream, gops, subscribers, given, home, strained, join, sent>>

\* Mutant: the subscribers stay.
endedKeepsAll ==
  /\ At("eof") /\ pub.todo = {}
  /\ Goto("removing")
  /\ UNCHANGED <<stream, gops, members, join, sent>>

\* onStreamEnded takes a snapshot of its own.
onStreamEnded ==
  /\ At("eof") /\ pub.todo = {}
  /\ snapshot("removing")
  /\ UNCHANGED <<stream, gops, members, join, sent>>

\* Nothing happens to an id that is not there.
removeSubscriber(s) ==
  /\ subscribers' = subscribers \ {s}
  /\ given' = [given EXCEPT ![s] = <<>>]
  /\ home' = [home EXCEPT ![s] = [round |-> 0, frames |-> 0]]
  /\ told' = told \ {s}
  /\ strained' = [strained EXCEPT ![s] = {}]

removeEnded(s) ==
  /\ At("removing") /\ s \in pub.todo
  /\ removeSubscriber(s)
  /\ pub' = [pub EXCEPT !.todo = @ \ {s}]
  /\ UNCHANGED <<stream, gops, join, sent>>

ended ==
  /\ At("removing") /\ pub.todo = {}
  /\ Goto(IF listed THEN "closing" ELSE "idle")
  /\ UNCHANGED <<stream, gops, members, join, sent>>

-----------------------------------------------------------------------------
(* A subscriber's thread *)

\* addSubscriber: the registry is asked without the manager's lock.  MediaDistribution and
\* SubscriberManager both ask; the later answer decides.
check(s) ==
  /\ join[s].pc = "idle" /\ listed
  /\ join' = [join EXCEPT ![s].pc = "checked"]
  /\ UNCHANGED <<stream, gops, members, pub, sent>>

alreadyExists(s) ==
  /\ join[s].pc = "checked" /\ s \in subscribers
  /\ join' = [join EXCEPT ![s].pc = "idle"]
  /\ UNCHANGED <<stream, gops, members, pub, sent>>

addSubscriber(s) ==
  /\ join[s].pc = "checked" /\ s \notin subscribers
  /\ subscribers' = subscribers \cup {s}
  /\ join' = [join EXCEPT ![s].pc = "added"]
  /\ home' = [home EXCEPT ![s] = [round |-> round, frames |-> Len(sent)]]
  /\ told' = told \ {s}
  /\ strained' = [strained EXCEPT ![s] =
       (IF pub.pc \in {"pushed", "sending"} THEN {"distribution"} ELSE {})
       \cup (IF ~ listed \/ pub.pc \in {"eof", "removing", "closing"} THEN {"end"} ELSE {})]
  /\ UNCHANGED <<stream, gops, given, pub, sent>>

\* sendCachedDataToSubscriber: metadata, headers and frames are read one after the other
\* from the cache found first, and sent when read.
Cached(s) == gops[join[s].cache]

header(kind, r) == Frame(kind, 0, r)

takeMetadata(s) ==
  /\ join[s].pc = "added"
  /\ join' = [join EXCEPT ![s] =
       IF cacheOf = 0
       THEN [pc |-> "idle", todo |-> <<>>, cache |-> 0]
       ELSE [pc |-> "headers", cache |-> cacheOf,
             todo |-> IF gops[cacheOf].metadata THEN <<header("data", cacheOf)>> ELSE <<>>]]
  /\ strained' = [strained EXCEPT ![s] = @ \cup (IF cacheOf # round THEN {"stale"} ELSE {})]
  /\ UNCHANGED <<stream, gops, subscribers, given, home, told, pub, sent>>

takeHeaders(s) ==
  /\ join[s].pc = "headers" /\ join[s].todo = <<>>
  /\ join' = [join EXCEPT ![s].pc = "frames",
       ![s].todo = IF Cached(s).headers
                   THEN <<header("keyframe", join[s].cache), header("audio", join[s].cache)>>
                   ELSE <<>>]
  /\ UNCHANGED <<stream, gops, members, pub, sent>>

takeFrames(s) ==
  /\ join[s].pc = "frames" /\ join[s].todo = <<>> /\ join[s].cache # 0
  /\ join' = [join EXCEPT ![s].todo = getFromLastKeyframe(Cached(s)), ![s].cache = 0]
  /\ UNCHANGED <<stream, gops, members, pub, sent>>

sendCached(s) ==
  /\ join[s].todo # <<>>
  /\ pushToSubscriber(s, Head(join[s].todo))
  /\ join' = [join EXCEPT ![s].todo = Tail(@)]
  /\ UNCHANGED <<stream, gops, subscribers, pub, sent, home, told, strained>>

joined(s) ==
  /\ join[s].pc = "frames" /\ join[s].todo = <<>> /\ join[s].cache = 0
  /\ join' = [join EXCEPT ![s].pc = "idle"]
  /\ UNCHANGED <<stream, gops, members, pub, sent>>

\* removeSubscriber, called for a subscriber that left or disconnected.
leave(s) ==
  /\ join[s].pc = "idle" /\ s \in subscribers
  /\ removeSubscriber(s)
  /\ UNCHANGED <<stream, gops, pub, join, sent>>

-----------------------------------------------------------------------------

PublisherNext ==
  \/ list \/ setGOPBuffer \/ setMetadata \/ setSequenceHeaders
  \/ \E kind \in Published : distribute(kind)
  \/ getSubscribersForStream \/ distributed
  \/ onStreamEnd \/ onStreamEnded \/ ended \/ unlist
  \/ \E s \in Subs : sendFrame(s) \/ emitStreamEOF(s) \/ removeEnded(s)

SubscriberNext(s) ==
  \/ check(s) \/ alreadyExists(s) \/ addSubscriber(s) \/ leave(s)
  \/ takeMetadata(s) \/ takeHeaders(s) \/ takeFrames(s) \/ sendCached(s) \/ joined(s)

MediaNext == PublisherNext \/ \E s \in Subs : SubscriberNext(s)

-----------------------------------------------------------------------------
(* Properties *)

\* The join of s overlapped neither a distribution nor an end, and found the current cache.
Undisturbed(s) == s \in subscribers /\ strained[s] = {}

\* Headers come before frames, and frames one after the other.
InOrder(s) == \A i \in 1 .. Len(s) - 1 : s[i].n = 0 \/ s[i + 1].n = s[i].n + 1

\* Frame i of s is the first that is no header.
Begins(s, i) == s[i].n > 0 /\ (i = 1 \/ s[i - 1].n = 0)

\* A subscriber is given cached data, then the frames of the stream in order, none twice and
\* none left out, and has every frame published since it joined once no distribution is under
\* way (MediaDistribution::addSubscriber against distribute).  Only an undisturbed join is
\* safe: the snapshot of the cache and the entry in the tables are not made under one lock.
FeedComplete ==
  \A s \in Subs : Undisturbed(s) =>
    /\ InOrder(given[s])
    /\ pub.pc \in {"live", "unlisted", "eof"} /\ home[s].frames < Len(sent) =>
         /\ \E i \in 1 .. Len(given[s]) : given[s][i].n \in 1 .. home[s].frames + 1
         /\ given[s][Len(given[s])].n = Len(sent)

\* No keyframe published so far, or a group of pictures too large for the cache.
NothingToStartFrom(past) ==
  \/ Keyframes(past) = {}
  \/ Bytes(From(past, Max(Keyframes(past)))) > GopConfig.maxBytes

\* A subscriber starts at a keyframe unless there was none to start from when it joined.
StartsAtKeyframe ==
  \A s \in Subs : Undisturbed(s) =>
    \A i \in 1 .. Len(given[s]) : Begins(given[s], i) =>
      \/ given[s][i].kind = "keyframe"
      \/ NothingToStartFrom(SubSeq(sent, 1, given[s][i].n - 1))

\* A subscriber gets frames and headers of the publication it subscribed to, not of the next
\* or the former one under the same key.
OwnPublication ==
  \A s \in Subs : Undisturbed(s) =>
    \A i \in 1 .. Len(given[s]) : given[s][i].round = home[s].round

\* Nobody is left behind in the tables when a publication has ended, but those who joined
\* while it did.
NoOrphans == At("idle") => \A s \in subscribers : "end" \in strained[s]

\* A subscriber the end of the stream removes has been told of it (MediaDistribution::
\* onStreamEnd sends EOF to one snapshot, SubscriberManager::onStreamEnded removes another).
EndIsAnnounced ==
  \A s \in subscribers : At("removing") /\ s \in pub.todo \ pub'.todo
                      => s \in told \/ "end" \in strained[s]
==============================================================================
