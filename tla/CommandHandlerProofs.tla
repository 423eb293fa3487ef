------------------------ MODULE CommandHandlerProofs ------------------------
(***************************************************************************)
(* Proofs about CommandHandler, for any sets of connections, applications  *)
(* and stream names and any size of the id space.                          *)
(***************************************************************************)
EXTENDS CommandHandler, SequenceTheorems, TLAPS

(***************************************************************************)
(* The inductive invariant.  Ownership needs the session stages (a key is  *)
(* built from appName and streamKey), and the soundness of the id index    *)
(* needs the types of the records it points to.  The core holds in the     *)
(* server too, where a connection that breaks off may take the stream of   *)
(* another client with it.                                                 *)
(***************************************************************************)
CoreInv == TypeOK /\ IndexSound /\ SessionWellFormed
IInv == CoreInv /\ PublisherOwnsStream

\* A step keeps the core, and ownership where it held.
StepKeeps == CoreInv' /\ (PublisherOwnsStream => PublisherOwnsStream')

(***************************************************************************)
(* Arithmetic modulo the id space stays inside it.                         *)
(***************************************************************************)
LEMMA ModRange ==
  ASSUME NEW a \in Nat, NEW b \in Nat, b > 0
  PROVE  a % b \in 0 .. (b - 1)
BY Z3

(***************************************************************************)
(* Below the size of the id space there is no wrap-around.                 *)
(***************************************************************************)
LEMMA ModSmall ==
  ASSUME NEW b \in Nat, NEW a \in 0 .. (b - 1)
  PROVE  a % b = a
BY Z3

(***************************************************************************)
(* allocateStreamId returns a valid id and keeps the allocator well typed, *)
(* also when the counter wraps around.                                     *)
(***************************************************************************)
LEMMA AllocateType ==
  ASSUME RegistryTypeOK, allocateStreamId
  PROVE  /\ AllocatedId \in StreamIds
         /\ nextStreamId' \in 0 .. (IdSpace - 1)
         /\ releasedIds' \in Seq(StreamIds)
<1>1. FreshId \in StreamIds
  BY IdSpaceAssumption DEF FreshId, StreamIds, INVALID_STREAM_ID, RegistryTypeOK
<1>2. AllocatedId \in StreamIds
  BY <1>1 DEF AllocatedId, RegistryTypeOK
<1>3. (FreshId + 1) % IdSpace \in 0 .. (IdSpace - 1)
  <2>1. FreshId + 1 \in Nat /\ IdSpace \in Nat /\ IdSpace > 0
    BY <1>1, IdSpaceAssumption DEF StreamIds
  <2> QED BY <2>1, ModRange
<1> QED BY SMTT(60), <1>2, <1>3 DEF allocateStreamId, RegistryTypeOK

(***************************************************************************)
(* A session that holds a stream id builds keys of the registry, and one   *)
(* that publishes or plays has a key.                                      *)
(***************************************************************************)
LEMMA KeyType ==
  ASSUME SessionTypeOK, SessionWellFormed, NEW c \in Conns
  PROVE  /\ \A name \in Names : session[c].streamId # INVALID_STREAM_ID
                                  => KeyOf(c, name) \in Keys
         /\ session[c].state # "Connected"
              => KeyOf(c, session[c].streamKey) \in Keys
BY DEF SessionTypeOK, SessionWellFormed, SessionContext, KeyOf, Keys

(***************************************************************************)
(* unregisterStream removes the stream of its key and nothing else, and    *)
(* its id from the index.                                                  *)
(***************************************************************************)
LEMMA UnregisterSound ==
  ASSUME RegistryTypeOK, IndexSound, NEW key \in Keys, unregisterStream(key)
  PROVE  /\ streams' \in [Keys -> StreamInfo \cup {NoStream}]
         /\ streamIdIndex' \in [StreamIds -> Keys \cup {NoKey}]
         /\ IndexSound'
         /\ streams'[key] = NoStream
         /\ \A k \in Keys \ {key} : streams'[k] = streams[k]
<1> USE NoEntryAssumption
<1>1. CASE hasStream(key)
  <2>1. streams[key] \in StreamInfo /\ streams[key].streamId \in StreamIds
    BY <1>1 DEF RegistryTypeOK, hasStream, StreamInfo
  <2>2. /\ streamIdIndex' = [streamIdIndex EXCEPT ![streams[key].streamId] = NoKey]
        /\ streams' = [streams EXCEPT ![key] = NoStream]
    BY <1>1 DEF unregisterStream
  <2>3. IndexSound'
    BY <1>1, <2>1, <2>2 DEF RegistryTypeOK, IndexSound, hasStream
  <2> QED BY <2>1, <2>2, <2>3 DEF RegistryTypeOK
<1>2. CASE ~hasStream(key)
  <2>1. streams' = streams /\ streamIdIndex' = streamIdIndex
    BY <1>2 DEF unregisterStream
  <2> QED BY <1>2, <2>1 DEF RegistryTypeOK, IndexSound, hasStream
<1> QED BY <1>1, <1>2

(***************************************************************************)
(* removeSubscriber takes one subscriber off one stream and changes        *)
(* neither the publisher nor the id of any.                                *)
(***************************************************************************)
LEMMA LeaveSound ==
  ASSUME RegistryTypeOK, IndexSound, NEW c, NEW key \in Keys, removeSubscriber(key, c)
  PROVE  /\ streams' \in [Keys -> StreamInfo \cup {NoStream}]
         /\ streamIdIndex' = streamIdIndex
         /\ IndexSound'
         /\ \A k \in Keys : hasStream(k) <=> hasStream(k)'
         /\ \A k \in Keys : hasStream(k) =>
              /\ streams'[k].publisherId = streams[k].publisherId
              /\ streams'[k].subscribers =
                   IF k = key THEN streams[k].subscribers \ {c} ELSE streams[k].subscribers
<1> USE NoEntryAssumption
<1>1. CASE hasStream(key)
  <2> DEFINE info == [streams[key] EXCEPT !.subscribers = @ \ {c}]
  <2>1. streams[key] \in StreamInfo
    BY <1>1 DEF RegistryTypeOK, hasStream
  <2>2. /\ info \in StreamInfo /\ info.streamId = streams[key].streamId
        /\ info.publisherId = streams[key].publisherId
        /\ info.subscribers = streams[key].subscribers \ {c}
    BY <2>1 DEF StreamInfo
  <2>3. streams' = [streams EXCEPT ![key] = info] /\ streamIdIndex' = streamIdIndex
    BY <1>1 DEF removeSubscriber
  <2> HIDE DEF info
  <2>4. /\ streams' \in [Keys -> StreamInfo \cup {NoStream}]
        /\ streams'[key] = info /\ info # NoStream
        /\ \A k \in Keys \ {key} : streams'[k] = streams[k]
    BY <2>2, <2>3 DEF RegistryTypeOK
  <2>5. \A k \in Keys : hasStream(k) <=> hasStream(k)'
    BY <1>1, <2>4 DEF hasStream
  <2>6. \A k \in Keys : hasStream(k) =>
          /\ streams'[k].publisherId = streams[k].publisherId
          /\ streams'[k].streamId = streams[k].streamId
          /\ streams'[k].subscribers =
               IF k = key THEN streams[k].subscribers \ {c} ELSE streams[k].subscribers
    BY <2>2, <2>4
  <2>7. IndexSound'
    BY <2>3, <2>5, <2>6 DEF RegistryTypeOK, IndexSound
  <2> QED BY <2>3, <2>4, <2>5, <2>6, <2>7
<1>2. CASE ~hasStream(key)
  <2>1. streams' = streams /\ streamIdIndex' = streamIdIndex
    BY <1>2 DEF removeSubscriber
  <2> QED BY <1>2, <2>1 DEF RegistryTypeOK, IndexSound, hasStream
<1> QED BY <1>1, <1>2

(***************************************************************************)
(* Giving up a stream keeps the registry sound, and only the stream of     *)
(* the session itself can disappear.                                       *)
(***************************************************************************)
LEMMA DetachSound ==
  ASSUME CoreInv, NEW c \in Conns, DetachStream(c)
  PROVE  /\ streams' \in [Keys -> StreamInfo \cup {NoStream}]
         /\ streamIdIndex' \in [StreamIds -> Keys \cup {NoKey}]
         /\ IndexSound'
         /\ PublisherOwnsStream =>
              \A k \in Keys : hasStream(k) /\ streams[k].publisherId # c
                => hasStream(k)' /\ streams'[k].publisherId = streams[k].publisherId
<1> DEFINE key == KeyOf(c, session[c].streamKey)
<1>t. RegistryTypeOK /\ IndexSound
  BY DEF CoreInv, TypeOK
<1>k. session[c].state # "Connected" => key \in Keys
  BY KeyType DEF CoreInv, TypeOK
<1>1. CASE session[c].state = "Publishing"
  <2>1. unregisterStream(key)
    BY <1>1 DEF DetachStream
  <2>2. PublisherOwnsStream => streams[key].publisherId = c
    BY <1>1 DEF PublisherOwnsStream
  <2> HIDE DEF key
  <2> QED BY <1>1, <1>t, <1>k, <2>1, <2>2, UnregisterSound DEF hasStream
<1>2. CASE session[c].state = "Subscribing"
  <2>1. removeSubscriber(key, c)
    BY <1>2 DEF DetachStream
  <2> HIDE DEF key
  <2> QED BY <1>2, <1>t, <1>k, <2>1, LeaveSound DEF RegistryTypeOK
<1>3. CASE session[c].state = "Connected"
  BY <1>3 DEF DetachStream, CoreInv, TypeOK, RegistryTypeOK, IndexSound, hasStream
<1> QED BY <1>1, <1>2, <1>3 DEF CoreInv, TypeOK, SessionTypeOK, SessionContext, SessionStates

(***************************************************************************)
(* Registering a free key keeps the registry sound and leaves every other  *)
(* stream alone.                                                           *)
(***************************************************************************)
LEMMA RegisterSound ==
  ASSUME CoreInv, NEW c \in Conns, NEW key \in Keys, NEW id \in StreamIds,
         ~hasStream(key), registerStream(key, id, c)
  PROVE  /\ streams' \in [Keys -> StreamInfo \cup {NoStream}]
         /\ streamIdIndex' \in [StreamIds -> Keys \cup {NoKey}]
         /\ IndexSound'
         /\ hasStream(key)' /\ streams'[key].publisherId = c
         /\ \A k \in Keys \ {key} : streams'[k] = streams[k]
<1> USE NoEntryAssumption
<1> DEFINE info == [streamId |-> id, publisherId |-> c, subscribers |-> {}]
<1>1. info \in StreamInfo /\ info.streamId = id /\ info.publisherId = c
  BY DEF StreamInfo
<1>2. streams' = [streams EXCEPT ![key] = info]
  BY DEF registerStream
<1>3. info # NoStream
  BY <1>1
<1> HIDE DEF info
<1>4. streamIdIndex' = [streamIdIndex EXCEPT ![id] =
                          IF streamIdIndex[id] = NoKey THEN key ELSE streamIdIndex[id]]
  BY DEF registerStream, CoreInv, TypeOK, RegistryTypeOK
<1>5. IndexSound'
  BY <1>1, <1>2, <1>3, <1>4 DEF CoreInv, TypeOK, RegistryTypeOK, IndexSound, hasStream
<1> QED BY <1>1, <1>2, <1>3, <1>4, <1>5 DEF CoreInv, TypeOK, RegistryTypeOK, hasStream

(***************************************************************************)
(* Adding a subscriber changes neither the publisher nor the id of any     *)
(* stream.                                                                 *)
(***************************************************************************)
LEMMA SubscribeSound ==
  ASSUME CoreInv, NEW c \in Conns, NEW key \in Keys,
         hasStream(key), addSubscriber(key, c)
  PROVE  /\ streams' \in [Keys -> StreamInfo \cup {NoStream}]
         /\ streamIdIndex' = streamIdIndex
         /\ IndexSound'
         /\ \A k \in Keys : hasStream(k) <=> hasStream(k)'
         /\ \A k \in Keys : hasStream(k) =>
              streams'[k].publisherId = streams[k].publisherId
<1> USE NoEntryAssumption
<1>1. streams[key] \in StreamInfo
  BY DEF CoreInv, TypeOK, RegistryTypeOK, hasStream
<1>2. [streams[key] EXCEPT !.subscribers = @ \cup {c}] \in StreamInfo
  BY <1>1 DEF StreamInfo
<1>3. /\ streams' = [streams EXCEPT ![key].subscribers = @ \cup {c}]
      /\ streamIdIndex' = streamIdIndex
  BY DEF addSubscriber
<1>4. /\ streams' \in [Keys -> StreamInfo \cup {NoStream}]
      /\ \A k \in Keys : hasStream(k) <=> hasStream(k)'
      /\ \A k \in Keys : hasStream(k) =>
           /\ streams'[k].publisherId = streams[k].publisherId
           /\ streams'[k].streamId = streams[k].streamId
  BY <1>1, <1>2, <1>3 DEF CoreInv, TypeOK, RegistryTypeOK, hasStream, StreamInfo
<1> QED BY <1>3, <1>4 DEF CoreInv, TypeOK, RegistryTypeOK, IndexSound

(***************************************************************************)
(* Every command preserves the inductive invariant.                        *)
(***************************************************************************)
LEMMA CommandKeeps ==
  ASSUME CoreInv, NEW c \in Conns, processCommand(c)
  PROVE  StepKeeps
<1> USE NoEntryAssumption
<1>t. /\ session \in [Conns -> SessionContext]
      /\ session[c] \in SessionContext
      /\ "success" \in Answers /\ "failure" \in Answers /\ "none" \in Answers
  BY DEF CoreInv, TypeOK, SessionTypeOK, Answers
<1>n. ASSUME NEW a \in Answers, NoEffect(c, a)
      PROVE  StepKeeps
  BY <1>n DEF NoEffect, Answer, registryVars, StepKeeps, CoreInv, TypeOK, RegistryTypeOK, SessionTypeOK,
       IndexSound, SessionWellFormed, PublisherOwnsStream, hasStream, KeyOf
<1>1. ASSUME NEW app \in Apps \cup {""}, handleConnect(c, app)
      PROVE  StepKeeps
  <2>1. CASE session[c].appName = "" /\ app # ""
    <3>1. /\ session' = [session EXCEPT ![c].appName = app, ![c].state = "Connected"]
          /\ reply' = [conn |-> c, answer |-> "success"]
          /\ UNCHANGED registryVars
      BY <1>1, <2>1 DEF handleConnect, Answer
    <3>2. session[c].state = "Connected" /\ session[c].streamId = INVALID_STREAM_ID
      BY <2>1 DEF CoreInv, SessionWellFormed
    <3>3. SessionTypeOK'
      BY <3>1, <1>t DEF SessionTypeOK, SessionContext, SessionStates, CoreInv, TypeOK
    <3>4. SessionWellFormed' /\ (PublisherOwnsStream => PublisherOwnsStream')
      BY <3>1, <3>2, <1>t
      DEF SessionWellFormed, PublisherOwnsStream, CoreInv, KeyOf, hasStream, registryVars, SessionContext
    <3> QED BY <3>1, <3>3, <3>4
      DEF StepKeeps, CoreInv, TypeOK, RegistryTypeOK, IndexSound, registryVars, hasStream
  <2> QED BY <1>1, <1>n, <1>t, <2>1 DEF handleConnect
<1>2. ASSUME handleCreateStream(c)
      PROVE  StepKeeps
  <2>1. CASE session[c].appName # ""
    <3>1. /\ session' = [session EXCEPT ![c].streamId = AllocatedId]
          /\ reply' = [conn |-> c, answer |-> "success"]
          /\ allocateStreamId
          /\ UNCHANGED <<streams, streamIdIndex>>
      BY <1>2, <2>1 DEF handleCreateStream, Answer
    <3>2. /\ AllocatedId \in StreamIds
          /\ nextStreamId' \in 0 .. (IdSpace - 1)
          /\ releasedIds' \in Seq(StreamIds)
      BY <3>1, AllocateType DEF CoreInv, TypeOK
    <3>3. SessionTypeOK'
      BY <3>1, <3>2, <1>t DEF SessionTypeOK, SessionContext, CoreInv, TypeOK
    <3>4. AllocatedId # INVALID_STREAM_ID
      BY <3>2, IdSpaceAssumption DEF StreamIds, INVALID_STREAM_ID
    <3>5. SessionWellFormed' /\ (PublisherOwnsStream => PublisherOwnsStream')
      BY <3>1, <3>4, <2>1, <1>t
      DEF SessionWellFormed, PublisherOwnsStream, CoreInv, KeyOf, hasStream, SessionContext
    <3> QED BY <3>1, <3>2, <3>3, <3>5
      DEF StepKeeps, CoreInv, TypeOK, RegistryTypeOK, IndexSound, hasStream
  <2> QED BY <1>2, <1>n, <1>t, <2>1 DEF handleCreateStream
<1>3. ASSUME NEW name \in Names \cup {""}, handlePublish(c, name)
      PROVE  StepKeeps
  <2> DEFINE key == KeyOf(c, name)
  <2>1. CASE session[c].streamId # INVALID_STREAM_ID /\ name # "" /\ ~hasStream(key)
    <3>1. key \in Keys /\ session[c].streamId \in StreamIds
      BY <2>1, <1>t, KeyType DEF CoreInv, TypeOK, SessionContext
    <3>2. /\ registerStream(key, session[c].streamId, c)
          /\ session' = [session EXCEPT ![c].state = "Publishing", ![c].streamKey = name]
          /\ reply' = [conn |-> c, answer |-> "success"]
          /\ UNCHANGED <<nextStreamId, releasedIds>>
      BY <1>3, <2>1 DEF handlePublish, Answer
    <3>3. /\ streams' \in [Keys -> StreamInfo \cup {NoStream}]
          /\ streamIdIndex' \in [StreamIds -> Keys \cup {NoKey}]
          /\ IndexSound'
          /\ streams'[key] # NoStream /\ streams'[key].publisherId = c
          /\ \A k \in Keys \ {key} : streams'[k] = streams[k]
      BY <3>1, <3>2, <2>1, RegisterSound DEF hasStream
    <3>4. SessionTypeOK' /\ SessionWellFormed'
      BY <3>2, <2>1, <1>t
      DEF SessionTypeOK, SessionContext, SessionStates, CoreInv, TypeOK, SessionWellFormed
    <3>5. PublisherOwnsStream => PublisherOwnsStream'
      <4> SUFFICES ASSUME PublisherOwnsStream, NEW d \in Conns, session'[d].state = "Publishing"
                   PROVE  /\ hasStream(KeyOf(d, session[d].streamKey))'
                          /\ streams'[KeyOf(d, session[d].streamKey)'].publisherId = d
        BY DEF PublisherOwnsStream
      <4>1. CASE d = c
        <5>1. KeyOf(d, session[d].streamKey)' = key
          BY <4>1, <3>2, <1>t DEF KeyOf, SessionContext
        <5> QED BY <5>1, <3>3, <4>1 DEF hasStream
      <4>2. CASE d # c
        <5>1. KeyOf(d, session[d].streamKey)' = KeyOf(d, session[d].streamKey)
              /\ session[d].state = "Publishing"
          BY <4>2, <3>2, <1>t DEF KeyOf
        <5>2. /\ KeyOf(d, session[d].streamKey) \in Keys
              /\ hasStream(KeyOf(d, session[d].streamKey))
              /\ streams[KeyOf(d, session[d].streamKey)].publisherId = d
          BY <5>1, KeyType DEF CoreInv, TypeOK, PublisherOwnsStream
        <5>3. KeyOf(d, session[d].streamKey) # key
          BY <5>2, <2>1
        <5> QED BY <5>1, <5>2, <5>3, <3>3 DEF hasStream
      <4> QED BY <4>1, <4>2
    <3> QED BY <3>2, <3>3, <3>4, <3>5 DEF StepKeeps, CoreInv, TypeOK, RegistryTypeOK
  <2> QED BY <1>3, <1>n, <1>t, <2>1 DEF handlePublish
<1>4. ASSUME NEW name \in Names \cup {""}, handlePlay(c, name)
      PROVE  StepKeeps
  <2> DEFINE key == KeyOf(c, name)
  <2>1. CASE session[c].streamId # INVALID_STREAM_ID /\ name # ""
             /\ hasStream(key) /\ c \notin streams[key].subscribers
    <3>1. key \in Keys
      BY <2>1, <1>t, KeyType DEF CoreInv, TypeOK, SessionContext
    <3>2. /\ addSubscriber(key, c)
          /\ session' = [session EXCEPT ![c].state = "Subscribing", ![c].streamKey = name]
          /\ reply' = [conn |-> c, answer |-> "success"]
          /\ UNCHANGED <<nextStreamId, releasedIds>>
      BY <1>4, <2>1 DEF handlePlay, Answer
    <3>3. /\ streams' \in [Keys -> StreamInfo \cup {NoStream}]
          /\ streamIdIndex' = streamIdIndex
          /\ IndexSound'
          /\ \A k \in Keys : hasStream(k) <=> hasStream(k)'
          /\ \A k \in Keys : hasStream(k) =>
               streams'[k].publisherId = streams[k].publisherId
      BY <3>1, <3>2, <2>1, SubscribeSound
    <3>4. SessionTypeOK' /\ SessionWellFormed'
      BY <3>2, <2>1, <1>t
      DEF SessionTypeOK, SessionContext, SessionStates, CoreInv, TypeOK, SessionWellFormed
    <3>5. PublisherOwnsStream => PublisherOwnsStream'
      <4> SUFFICES ASSUME PublisherOwnsStream, NEW d \in Conns, session'[d].state = "Publishing"
                   PROVE  /\ hasStream(KeyOf(d, session[d].streamKey))'
                          /\ streams'[KeyOf(d, session[d].streamKey)'].publisherId = d
        BY DEF PublisherOwnsStream
      <4>1. /\ KeyOf(d, session[d].streamKey)' = KeyOf(d, session[d].streamKey)
            /\ session[d].state = "Publishing"
        BY <3>2, <1>t DEF KeyOf, SessionContext
      <4>2. /\ KeyOf(d, session[d].streamKey) \in Keys
            /\ hasStream(KeyOf(d, session[d].streamKey))
            /\ streams[KeyOf(d, session[d].streamKey)].publisherId = d
        BY <4>1, KeyType DEF CoreInv, TypeOK, PublisherOwnsStream
      <4> QED BY <4>1, <4>2, <3>3 DEF hasStream
    <3> QED BY <3>2, <3>3, <3>4, <3>5 DEF StepKeeps, CoreInv, TypeOK, RegistryTypeOK
  <2> QED BY <1>4, <1>n, <1>t, <2>1 DEF handlePlay
<1>d. ASSUME DetachStream(c),
             NEW id \in StreamIds \cup {INVALID_STREAM_ID},
             id # INVALID_STREAM_ID => session[c].appName # "",
             session' = [session EXCEPT ![c].state = "Connected",
                                        ![c].streamId = id,
                                        ![c].streamKey = ""],
             reply' = [conn |-> c, answer |-> "none"],
             nextStreamId' = nextStreamId,
             releasedIds' \in Seq(StreamIds)
      PROVE  StepKeeps
  <2>1. /\ streams' \in [Keys -> StreamInfo \cup {NoStream}]
        /\ streamIdIndex' \in [StreamIds -> Keys \cup {NoKey}]
        /\ IndexSound'
        /\ PublisherOwnsStream =>
             \A k \in Keys : hasStream(k) /\ streams[k].publisherId # c
               => hasStream(k)' /\ streams'[k].publisherId = streams[k].publisherId
    BY <1>d, DetachSound
  <2>2. SessionTypeOK' /\ SessionWellFormed'
    BY <1>d, <1>t
    DEF SessionTypeOK, SessionContext, SessionStates, CoreInv, TypeOK, SessionWellFormed
  <2>3. PublisherOwnsStream => PublisherOwnsStream'
    <3> SUFFICES ASSUME PublisherOwnsStream, NEW d \in Conns, session'[d].state = "Publishing"
                 PROVE  /\ hasStream(KeyOf(d, session[d].streamKey))'
                        /\ streams'[KeyOf(d, session[d].streamKey)'].publisherId = d
      BY DEF PublisherOwnsStream
    <3>1. /\ d # c
          /\ KeyOf(d, session[d].streamKey)' = KeyOf(d, session[d].streamKey)
          /\ session[d].state = "Publishing"
      BY <1>d, <1>t DEF KeyOf, SessionContext
    <3>2. /\ KeyOf(d, session[d].streamKey) \in Keys
          /\ hasStream(KeyOf(d, session[d].streamKey))
          /\ streams[KeyOf(d, session[d].streamKey)].publisherId = d
      BY <3>1, KeyType DEF CoreInv, TypeOK, PublisherOwnsStream
    <3> QED BY <3>1, <3>2, <2>1 DEF hasStream
  <2> QED BY <1>d, <2>1, <2>2, <2>3 DEF StepKeeps, CoreInv, TypeOK, RegistryTypeOK
<1>5. ASSUME NEW arg \in DeleteArgs(c), handleDeleteStream(c, arg)
      PROVE  StepKeeps
  <2> DEFINE target == IF arg = INVALID_STREAM_ID THEN session[c].streamId ELSE arg
  <2>1. target \in StreamIds \cup {INVALID_STREAM_ID}
    BY <1>5, <1>t DEF DeleteArgs, SessionContext
  <2>2. CASE target # INVALID_STREAM_ID
    <3>1. /\ DetachStream(c)
          /\ session' = [session EXCEPT ![c].state = "Connected",
                                        ![c].streamId = INVALID_STREAM_ID,
                                        ![c].streamKey = ""]
          /\ reply' = [conn |-> c, answer |-> "none"]
          /\ nextStreamId' = nextStreamId
      BY <1>5, <2>2 DEF handleDeleteStream, Answer
    <3>2. releasedIds' = Append(releasedIds, target) /\ target \in StreamIds
      BY <1>5, <2>1, <2>2 DEF handleDeleteStream, releaseStreamId
    <3> HIDE DEF target
    <3>3. releasedIds' \in Seq(StreamIds)
      BY <3>2 DEF CoreInv, TypeOK, RegistryTypeOK
    <3> QED BY <3>1, <3>3, <1>d
  <2> QED BY <1>5, <1>n, <1>t, <2>2 DEF handleDeleteStream
<1>6. ASSUME handleCloseStream(c)
      PROVE  StepKeeps
  <2>1. /\ DetachStream(c)
        /\ session' = [session EXCEPT ![c].state = "Connected", ![c].streamKey = ""]
        /\ reply' = [conn |-> c, answer |-> "none"]
        /\ nextStreamId' = nextStreamId /\ releasedIds' = releasedIds
    BY <1>6 DEF handleCloseStream, Answer
  <2>2. session' = [session EXCEPT ![c].state = "Connected",
                                   ![c].streamId = session[c].streamId,
                                   ![c].streamKey = ""]
    BY <2>1, <1>t DEF SessionContext
  <2>3. session[c].streamId # INVALID_STREAM_ID => session[c].appName # ""
    BY DEF CoreInv, SessionWellFormed
  <2> QED BY <2>1, <2>2, <2>3, <1>d, <1>t
    DEF SessionContext, CoreInv, TypeOK, RegistryTypeOK
<1>7. ASSUME NEW a \in {"success", "none"}, OtherCommand(c, a)
      PROVE  StepKeeps
  BY <1>7, <1>n, <1>t DEF OtherCommand
<1> QED BY <1>1, <1>2, <1>3, <1>4, <1>5, <1>6, <1>7 DEF processCommand

(***************************************************************************)
(* A command changes no session but that of its own connection.            *)
(***************************************************************************)
LEMMA CommandLocal ==
  ASSUME CoreInv, NEW c \in Conns, processCommand(c)
  PROVE  \A d \in Conns \ {c} : session'[d] = session[d]
<1>t. session \in [Conns -> SessionContext]
  BY DEF CoreInv, TypeOK, SessionTypeOK
<1>1. \A app : handleConnect(c, app) => \A d \in Conns \ {c} : session'[d] = session[d]
  BY <1>t DEF handleConnect, NoEffect
<1>2. handleCreateStream(c) => \A d \in Conns \ {c} : session'[d] = session[d]
  BY <1>t DEF handleCreateStream, NoEffect
<1>3. \A name : handlePublish(c, name) => \A d \in Conns \ {c} : session'[d] = session[d]
  BY <1>t DEF handlePublish, NoEffect
<1>4. \A name : handlePlay(c, name) => \A d \in Conns \ {c} : session'[d] = session[d]
  BY <1>t DEF handlePlay, NoEffect
<1>5. \A arg : handleDeleteStream(c, arg) => \A d \in Conns \ {c} : session'[d] = session[d]
  BY <1>t DEF handleDeleteStream, NoEffect
<1>6. handleCloseStream(c) => \A d \in Conns \ {c} : session'[d] = session[d]
  BY <1>t DEF handleCloseStream
<1>7. \A a : OtherCommand(c, a) => \A d \in Conns \ {c} : session'[d] = session[d]
  BY <1>t DEF OtherCommand, NoEffect
<1> QED BY <1>1, <1>2, <1>3, <1>4, <1>5, <1>6, <1>7 DEF processCommand

(***************************************************************************)
(* What a command does that finds its session neither publishing nor       *)
(* playing: it leaves the streams alone, starts one under a free key or    *)
(* joins one, and other sessions never change.                             *)
(***************************************************************************)
LEMMA CommandFromConnected ==
  ASSUME CoreInv, NEW c \in Conns, session[c].state = "Connected", processCommand(c)
  PROVE  /\ \A d \in Conns \ {c} : session'[d] = session[d]
         /\ \/ /\ session'[c].state = "Connected"
               /\ streams' = streams
            \/ \E name \in Names :
                 /\ KeyOf(c, name) \in Keys /\ session[c].appName # ""
                 /\ session'[c].appName = session[c].appName
                 /\ session'[c].state = "Publishing" /\ session'[c].streamKey = name
                 /\ ~hasStream(KeyOf(c, name))
                 /\ streams' = [streams EXCEPT ![KeyOf(c, name)] =
                      [streamId |-> session[c].streamId, publisherId |-> c, subscribers |-> {}]]
                 /\ [streamId |-> session[c].streamId, publisherId |-> c, subscribers |-> {}]
                      \in StreamInfo
            \/ \E name \in Names :
                 /\ KeyOf(c, name) \in Keys /\ session[c].appName # ""
                 /\ session'[c].appName = session[c].appName
                 /\ session'[c].state = "Subscribing" /\ session'[c].streamKey = name
                 /\ hasStream(KeyOf(c, name))
                 /\ streams' = [streams EXCEPT ![KeyOf(c, name)].subscribers = @ \cup {c}]
<1>t. session \in [Conns -> SessionContext] /\ session[c] \in SessionContext
  BY DEF CoreInv, TypeOK, SessionTypeOK
<1>n. ASSUME NEW a, NoEffect(c, a)
      PROVE  session' = session /\ streams' = streams
  BY <1>n DEF NoEffect, registryVars
<1>k. \A name \in Names : session[c].streamId # INVALID_STREAM_ID =>
        KeyOf(c, name) \in Keys /\ session[c].appName # ""
  BY KeyType DEF CoreInv, TypeOK, SessionWellFormed
<1>1. ASSUME NEW app \in Apps \cup {""}, handleConnect(c, app)
      PROVE  /\ \A d \in Conns \ {c} : session'[d] = session[d]
             /\ session'[c].state = "Connected" /\ streams' = streams
  <2>1. CASE /\ session' = [session EXCEPT ![c].appName = app, ![c].state = "Connected"]
             /\ UNCHANGED registryVars
    BY <2>1, <1>t DEF registryVars, SessionContext
  <2> QED BY <1>1, <2>1, <1>n, <1>t DEF handleConnect
<1>2. ASSUME handleCreateStream(c)
      PROVE  /\ \A d \in Conns \ {c} : session'[d] = session[d]
             /\ session'[c].state = "Connected" /\ streams' = streams
  <2>1. CASE session' = [session EXCEPT ![c].streamId = AllocatedId] /\ streams' = streams
    BY <2>1, <1>t DEF SessionContext
  <2> QED BY <1>2, <2>1, <1>n, <1>t DEF handleCreateStream
<1>3. ASSUME NEW name \in Names \cup {""}, handlePublish(c, name),
             session[c].streamId # INVALID_STREAM_ID, name # "", ~hasStream(KeyOf(c, name))
      PROVE  /\ \A d \in Conns \ {c} : session'[d] = session[d]
             /\ KeyOf(c, name) \in Keys /\ name \in Names /\ session[c].appName # ""
             /\ session'[c].appName = session[c].appName
             /\ session'[c].state = "Publishing" /\ session'[c].streamKey = name
             /\ streams' = [streams EXCEPT ![KeyOf(c, name)] =
                  [streamId |-> session[c].streamId, publisherId |-> c, subscribers |-> {}]]
             /\ [streamId |-> session[c].streamId, publisherId |-> c, subscribers |-> {}]
                  \in StreamInfo
  <2>1. session' = [session EXCEPT ![c].state = "Publishing", ![c].streamKey = name]
    BY <1>3 DEF handlePublish
  <2>2. streams' = [streams EXCEPT ![KeyOf(c, name)] =
          [streamId |-> session[c].streamId, publisherId |-> c, subscribers |-> {}]]
    BY <1>3 DEF handlePublish, registerStream
  <2>3. /\ \A d \in Conns \ {c} : session'[d] = session[d]
        /\ session'[c].appName = session[c].appName
        /\ session'[c].state = "Publishing" /\ session'[c].streamKey = name
    BY <2>1, <1>t DEF SessionContext
  <2>4. [streamId |-> session[c].streamId, publisherId |-> c, subscribers |-> {}] \in StreamInfo
    BY <1>3, <1>t DEF StreamInfo, SessionContext
  <2> QED BY <1>3, <1>k, <2>2, <2>3, <2>4
<1>4. ASSUME NEW name \in Names \cup {""}, handlePlay(c, name),
             session[c].streamId # INVALID_STREAM_ID, name # "", hasStream(KeyOf(c, name)),
             c \notin streams[KeyOf(c, name)].subscribers
      PROVE  /\ \A d \in Conns \ {c} : session'[d] = session[d]
             /\ KeyOf(c, name) \in Keys /\ name \in Names /\ session[c].appName # ""
             /\ session'[c].appName = session[c].appName
             /\ session'[c].state = "Subscribing" /\ session'[c].streamKey = name
             /\ streams' = [streams EXCEPT ![KeyOf(c, name)].subscribers = @ \cup {c}]
  <2>1. session' = [session EXCEPT ![c].state = "Subscribing", ![c].streamKey = name]
    BY <1>4 DEF handlePlay
  <2>2. streams' = [streams EXCEPT ![KeyOf(c, name)].subscribers = @ \cup {c}]
    BY <1>4 DEF handlePlay, addSubscriber
  <2>3. /\ \A d \in Conns \ {c} : session'[d] = session[d]
        /\ session'[c].appName = session[c].appName
        /\ session'[c].state = "Subscribing" /\ session'[c].streamKey = name
    BY <2>1, <1>t DEF SessionContext
  <2> QED BY <1>4, <1>k, <2>2, <2>3
<1>5. ASSUME NEW name \in Names \cup {""}, handlePublish(c, name) \/ handlePlay(c, name)
      PROVE  \/ session' = session /\ streams' = streams
             \/ /\ handlePublish(c, name)
                /\ session[c].streamId # INVALID_STREAM_ID /\ name # "" /\ ~hasStream(KeyOf(c, name))
             \/ /\ handlePlay(c, name)
                /\ session[c].streamId # INVALID_STREAM_ID /\ name # "" /\ hasStream(KeyOf(c, name))
                /\ c \notin streams[KeyOf(c, name)].subscribers
  BY <1>5, <1>n DEF handlePublish, handlePlay
<1>6. ASSUME NEW arg \in DeleteArgs(c), handleDeleteStream(c, arg)
      PROVE  /\ \A d \in Conns \ {c} : session'[d] = session[d]
             /\ session'[c].state = "Connected" /\ streams' = streams
  <2>1. CASE /\ DetachStream(c)
             /\ session' = [session EXCEPT ![c].state = "Connected",
                                           ![c].streamId = INVALID_STREAM_ID,
                                           ![c].streamKey = ""]
    BY <2>1, <1>t DEF SessionContext, DetachStream
  <2> QED BY <1>6, <2>1, <1>n, <1>t DEF handleDeleteStream
<1>7. ASSUME handleCloseStream(c)
      PROVE  /\ \A d \in Conns \ {c} : session'[d] = session[d]
             /\ session'[c].state = "Connected" /\ streams' = streams
  <2>1. /\ DetachStream(c)
        /\ session' = [session EXCEPT ![c].state = "Connected", ![c].streamKey = ""]
    BY <1>7 DEF handleCloseStream
  <2> QED BY <2>1, <1>t DEF SessionContext, DetachStream
<1>8. ASSUME NEW a \in {"success", "none"}, OtherCommand(c, a)
      PROVE  session' = session /\ streams' = streams
  BY <1>8, <1>n DEF OtherCommand
<1>9. ASSUME NEW name \in Names \cup {""}, handlePublish(c, name) \/ handlePlay(c, name)
      PROVE  /\ \A d \in Conns \ {c} : session'[d] = session[d]
             /\ \/ session'[c].state = "Connected" /\ streams' = streams
                \/ /\ handlePublish(c, name) /\ session[c].streamId # INVALID_STREAM_ID
                   /\ name # "" /\ ~hasStream(KeyOf(c, name))
                \/ /\ handlePlay(c, name) /\ session[c].streamId # INVALID_STREAM_ID
                   /\ name # "" /\ hasStream(KeyOf(c, name))
                   /\ c \notin streams[KeyOf(c, name)].subscribers
  BY <1>3, <1>4, <1>5, <1>9
<1> QED BY <1>1, <1>2, <1>3, <1>4, <1>6, <1>7, <1>8, <1>9 DEF processCommand

(***************************************************************************)
(* The registry is empty and the sessions are fresh when the server is up. *)
(***************************************************************************)
LEMMA InitialIInv == Init => IInv
<1> SUFFICES ASSUME Init PROVE IInv
  OBVIOUS
<1> USE IdSpaceAssumption DEF Init, RegistryInit
<1>1. RegistryTypeOK
  BY DEF RegistryTypeOK
<1>2. FreshSession \in SessionContext
  BY DEF SessionContext, SessionStates, FreshSession
<1>3. SessionTypeOK
  BY <1>2 DEF SessionTypeOK, Answers
<1>4. IndexSound /\ SessionWellFormed /\ PublisherOwnsStream
  BY DEF IndexSound, SessionWellFormed, PublisherOwnsStream, FreshSession
<1> QED BY <1>1, <1>3, <1>4 DEF IInv, CoreInv, TypeOK

(***************************************************************************)
(* Type correctness, the soundness of the stream-id index, the stages of   *)
(* the protocol and key ownership hold in every reachable state.           *)
(***************************************************************************)
THEOREM Invariance == Spec => []IInv
<1>1. Init => IInv
  BY InitialIInv
<1>2. IInv /\ [Next]_vars => IInv'
  <2> SUFFICES ASSUME IInv, [Next]_vars PROVE IInv'
    OBVIOUS
  <2>1. CASE Next
    BY <2>1, CommandKeeps DEF Next, IInv, StepKeeps
  <2>2. CASE UNCHANGED vars
    BY <2>2 DEF vars, IInv, CoreInv, TypeOK, RegistryTypeOK, SessionTypeOK, IndexSound,
                SessionWellFormed, PublisherOwnsStream, hasStream, KeyOf
  <2> QED BY <2>1, <2>2
<1> QED BY <1>1, <1>2, PTL DEF Spec

(***************************************************************************)
(* A session that believes it is publishing is the publisher the registry  *)
(* has for its key, whatever the other clients send (handlePublish,        *)
(* handleDeleteStream, handleCloseStream).                                 *)
(***************************************************************************)
THEOREM Ownership == Spec => []PublisherOwnsStream
BY Invariance, PTL DEF IInv, CoreInv

(***************************************************************************)
(* findStreamById never returns a stream that is gone or has another id.   *)
(***************************************************************************)
THEOREM IndexIsSound == Spec => []IndexSound
BY Invariance, PTL DEF IInv, CoreInv

(***************************************************************************)
(* The registry and the sessions keep their types: no command makes a key  *)
(* of an empty name, and the id counter stays a StreamId when it wraps     *)
(* around.                                                                 *)
(***************************************************************************)
THEOREM TypesKept == Spec => []TypeOK
BY Invariance, PTL DEF IInv, CoreInv

(***************************************************************************)
(* No order of commands skips a stage of the protocol.                     *)
(***************************************************************************)
THEOREM Stages == Spec => []SessionWellFormed
BY Invariance, PTL DEF IInv, CoreInv

-----------------------------------------------------------------------------

(***************************************************************************)
(* A step that fills the entry of a free key acquires it.                  *)
(***************************************************************************)
LEMMA AcquireRefines ==
  ASSUME NEW c \in Conns, NEW key \in Keys, streams[key] = NoStream,
         streams'[key] # NoStream, streams'[key].publisherId = c,
         \A k \in Keys \ {key} : streams'[k] = streams[k],
         reply'.conn = c
  PROVE  Directory!Next
<1> DEFINE before == [k \in Keys |-> IF streams[k] # NoStream
                                     THEN streams[k].publisherId ELSE NoConn]
           after  == [k \in Keys |-> IF streams'[k] # NoStream
                                     THEN streams'[k].publisherId ELSE NoConn]
<1>1. before[key] = NoConn /\ after[key] = c
  OBVIOUS
<1>2. \A k \in Keys \ {key} : after[k] = before[k]
  OBVIOUS
<1>3. DOMAIN before = Keys /\ DOMAIN after = Keys
  OBVIOUS
<1>4. after = [before EXCEPT ![key] = c]
  <2>1. after = [k \in Keys |-> after[k]] /\ before = [k \in Keys |-> before[k]]
    OBVIOUS
  <2> HIDE DEF before, after
  <2> QED BY <1>1, <1>2, <1>3, <2>1
<1>5. Directory!Acquire(c, key)
  BY <1>1, <1>4 DEF Directory!Acquire, hasStream
<1> QED BY <1>5 DEF Directory!Next

(***************************************************************************)
(* A step of the publisher of a key that empties its entry releases it.    *)
(***************************************************************************)
LEMMA ReleaseRefines ==
  ASSUME NEW c \in Conns, NEW key \in Keys, streams[key] # NoStream,
         streams[key].publisherId = c, streams'[key] = NoStream,
         \A k \in Keys \ {key} : streams'[k] = streams[k],
         reply'.conn = c
  PROVE  Directory!Next
<1>1. Directory!Release(c, key)
  BY DEF Directory!Release, hasStream
<1> QED BY <1>1 DEF Directory!Next

(***************************************************************************)
(* Every command acquires a free key, releases the key of its own session  *)
(* or leaves every owner alone.                                            *)
(***************************************************************************)
LEMMA CommandRefines ==
  ASSUME IInv, NEW c \in Conns, processCommand(c)
  PROVE  Directory!Next
<1> USE NoEntryAssumption
<1>o. ASSUME UNCHANGED streams, reply'.conn = c
      PROVE  Directory!Next
  <2>1. Directory!Other(c)
    BY <1>o DEF Directory!Other, hasStream
  <2> QED BY <2>1 DEF Directory!Next
<1>s. ASSUME NEW a, Answer(c, a)
      PROVE  reply'.conn = c
  BY <1>s DEF Answer
<1>n. ASSUME NEW a, NoEffect(c, a)
      PROVE  Directory!Next
  BY <1>n, <1>o, <1>s DEF NoEffect, registryVars
<1>1. ASSUME NEW app \in Apps \cup {""}, handleConnect(c, app)
      PROVE  Directory!Next
  BY <1>1, <1>n, <1>o, <1>s DEF handleConnect, registryVars
<1>2. ASSUME handleCreateStream(c)
      PROVE  Directory!Next
  BY <1>2, <1>n, <1>o, <1>s DEF handleCreateStream
<1>3. ASSUME NEW name \in Names \cup {""}, handlePublish(c, name)
      PROVE  Directory!Next
  <2> DEFINE key == KeyOf(c, name)
  <2>1. CASE session[c].streamId # INVALID_STREAM_ID /\ name # "" /\ ~hasStream(key)
    <3>1. key \in Keys /\ session[c].streamId \in StreamIds
      BY <2>1, KeyType DEF IInv, CoreInv, TypeOK, SessionTypeOK, SessionContext
    <3>2. registerStream(key, session[c].streamId, c) /\ reply'.conn = c
      BY <1>3, <2>1, <1>s DEF handlePublish
    <3>3. /\ streams'[key] # NoStream /\ streams'[key].publisherId = c
          /\ \A k \in Keys \ {key} : streams'[k] = streams[k]
      BY <3>1, <3>2, <2>1, RegisterSound DEF hasStream, IInv
    <3>4. streams[key] = NoStream
      BY <2>1 DEF hasStream
    <3> HIDE DEF key
    <3> QED BY <3>1, <3>2, <3>3, <3>4, AcquireRefines
  <2> QED BY <1>3, <1>n, <2>1 DEF handlePublish
<1>4. ASSUME NEW name \in Names \cup {""}, handlePlay(c, name)
      PROVE  Directory!Next
  <2> DEFINE key == KeyOf(c, name)
  <2>1. CASE session[c].streamId # INVALID_STREAM_ID /\ name # ""
             /\ hasStream(key) /\ c \notin streams[key].subscribers
    <3>1. key \in Keys
      BY <2>1, KeyType DEF IInv, CoreInv, TypeOK
    <3>2. addSubscriber(key, c) /\ reply'.conn = c
      BY <1>4, <2>1, <1>s DEF handlePlay
    <3>3. /\ \A k \in Keys : hasStream(k) <=> hasStream(k)'
          /\ \A k \in Keys : hasStream(k) =>
               streams'[k].publisherId = streams[k].publisherId
      BY <3>1, <3>2, <2>1, SubscribeSound DEF IInv
    <3>4. Directory!Other(c)
      BY <3>2, <3>3 DEF Directory!Other, hasStream
    <3> QED BY <3>4 DEF Directory!Next
  <2> QED BY <1>4, <1>n, <2>1 DEF handlePlay
<1>d. ASSUME DetachStream(c), reply'.conn = c
      PROVE  Directory!Next
  <2> DEFINE key == KeyOf(c, session[c].streamKey)
  <2>1. CASE session[c].state = "Publishing"
    <3>1. key \in Keys /\ streams[key] # NoStream /\ streams[key].publisherId = c
      BY <2>1, KeyType DEF IInv, CoreInv, TypeOK, PublisherOwnsStream, hasStream
    <3>2. streams' = [streams EXCEPT ![key] = NoStream]
      BY <1>d, <2>1, <3>1 DEF DetachStream, unregisterStream, hasStream
    <3> HIDE DEF key
    <3>3. /\ streams'[key] = NoStream
          /\ \A k \in Keys \ {key} : streams'[k] = streams[k]
      BY <3>1, <3>2 DEF IInv, CoreInv, TypeOK, RegistryTypeOK
    <3> QED BY <1>d, <3>1, <3>3, ReleaseRefines
  <2>2. CASE session[c].state = "Subscribing"
    <3>1. key \in Keys
      BY <2>2, KeyType DEF IInv, CoreInv, TypeOK
    <3>2. streams' = IF streams[key] # NoStream
                     THEN [streams EXCEPT ![key].subscribers = @ \ {c}]
                     ELSE streams
      BY <1>d, <2>2 DEF DetachStream, removeSubscriber, hasStream
    <3> HIDE DEF key
    <3>3. CASE streams[key] # NoStream
      <4>1. streams[key] \in StreamInfo
        BY <3>1, <3>3 DEF IInv, CoreInv, TypeOK, RegistryTypeOK
      <4>2. [streams[key] EXCEPT !.subscribers = @ \ {c}] \in StreamInfo
        BY <4>1 DEF StreamInfo
      <4>3. \A k \in Keys :
              /\ hasStream(k) <=> hasStream(k)'
              /\ hasStream(k) => streams'[k].publisherId = streams[k].publisherId
        BY <3>1, <3>2, <3>3, <4>1, <4>2
        DEF hasStream, IInv, CoreInv, TypeOK, RegistryTypeOK, StreamInfo
      <4>4. Directory!Other(c)
        BY <1>d, <4>3 DEF Directory!Other, hasStream
      <4> QED BY <4>4 DEF Directory!Next
    <3> QED BY <1>d, <1>o, <3>2, <3>3
  <2>3. CASE session[c].state = "Connected"
    BY <1>d, <1>o, <2>3 DEF DetachStream
  <2> QED BY <2>1, <2>2, <2>3
    DEF IInv, CoreInv, TypeOK, SessionTypeOK, SessionContext, SessionStates
<1>5. ASSUME NEW arg \in DeleteArgs(c), handleDeleteStream(c, arg)
      PROVE  Directory!Next
  BY <1>5, <1>n, <1>d, <1>s DEF handleDeleteStream
<1>6. ASSUME handleCloseStream(c)
      PROVE  Directory!Next
  BY <1>6, <1>d, <1>s DEF handleCloseStream
<1>7. ASSUME NEW a \in {"success", "none"}, OtherCommand(c, a)
      PROVE  Directory!Next
  BY <1>7, <1>n DEF OtherCommand
<1> QED BY <1>1, <1>2, <1>3, <1>4, <1>5, <1>6, <1>7 DEF processCommand

(***************************************************************************)
(* The command handler with its registry implements StreamDirectory: a     *)
(* key is acquired only when it is free and given up only by its           *)
(* publisher.                                                              *)
(***************************************************************************)
THEOREM Refinement == Spec => ImplementsDirectory
<1>1. Init => Directory!Init
  BY DEF Init, RegistryInit, Directory!Init, hasStream
<1>2. IInv /\ [Next]_vars => [Directory!Next]_(Directory!vars)
  <2> SUFFICES ASSUME IInv, [Next]_vars
               PROVE  Directory!Next \/ UNCHANGED Directory!vars
    OBVIOUS
  <2>1. CASE Next
    BY <2>1, CommandRefines DEF Next
  <2>2. CASE UNCHANGED vars
    BY <2>2 DEF vars, Directory!vars, hasStream
  <2> QED BY <2>1, <2>2
<1> QED BY <1>1, <1>2, Invariance, PTL DEF Spec, ImplementsDirectory, Directory!Spec

-----------------------------------------------------------------------------

(***************************************************************************)
(* The allocator's invariant while clients only delete their own ids: the  *)
(* ids in circulation are below the counter and occur once.                *)
(***************************************************************************)
IdInv ==
  /\ nextStreamId >= 1
  /\ \A c \in Conns : session[c].streamId < nextStreamId
  /\ \A i \in 1 .. Len(releasedIds) : releasedIds[i] < nextStreamId
  /\ \A i, j \in 1 .. Len(releasedIds) :
       i # j => releasedIds[i] # releasedIds[j]
  /\ UniqueStreamIds

(***************************************************************************)
(* The stack of released ids after a pop: one shorter, otherwise the same. *)
(***************************************************************************)
LEMMA FrontOfSeq ==
  ASSUME NEW S, NEW s \in Seq(S), Len(s) > 0
  PROVE  LET t == SubSeq(s, 1, Len(s) - 1)
         IN  Len(t) = Len(s) - 1 /\ \A i \in 1 .. (Len(s) - 1) : t[i] = s[i]
<1> DEFINE n == Len(s) - 1
<1>1. n \in Nat /\ \A i \in 1 .. n : s[i] \in S
  OBVIOUS
<1> HIDE DEF n
<1>2. /\ Len(SubSeq(s, 1, n)) = IF 1 <= n THEN n - 1 + 1 ELSE 0
      /\ \A i \in 1 .. (n - 1 + 1) : SubSeq(s, 1, n)[i] = s[1 + i - 1]
  BY <1>1, SubSeqProperties
<1>3. Len(SubSeq(s, 1, n)) = n
  BY <1>1, <1>2
<1>4. \A i \in 1 .. n : SubSeq(s, 1, n)[i] = s[i]
  BY <1>1, <1>2
<1> QED BY <1>3, <1>4 DEF n

(***************************************************************************)
(* allocateStreamId hands out an id nobody holds.                          *)
(***************************************************************************)
LEMMA CreatePreservesIdInv ==
  ASSUME TypeOK, IdInv, MaxStreamId < IdSpace - 1,
         NEW c \in Conns, allocateStreamId,
         releasedIds # << >> \/ nextStreamId <= MaxStreamId,
         session' = [session EXCEPT ![c].streamId = AllocatedId]
  PROVE  IdInv'
<1> USE IdSpaceAssumption, BoundAssumption DEF INVALID_STREAM_ID
<1>t. /\ nextStreamId \in Nat /\ releasedIds \in Seq(StreamIds)
      /\ session \in [Conns -> SessionContext]
      /\ \A d \in Conns : session[d].streamId \in Nat
  <2>1. \A d \in Conns : session[d].streamId \in StreamIds \cup {0}
    BY DEF TypeOK, SessionTypeOK, SessionContext
  <2>2. StreamIds \cup {0} \subseteq Nat
    BY DEF StreamIds
  <2>3. nextStreamId \in Nat /\ releasedIds \in Seq(StreamIds)
    BY DEF TypeOK, RegistryTypeOK
  <2> QED BY <2>1, <2>2, <2>3 DEF TypeOK, SessionTypeOK
<1>s. /\ session'[c].streamId = AllocatedId
      /\ \A d \in Conns \ {c} : session'[d].streamId = session[d].streamId
  BY <1>t DEF SessionContext
<1>1. CASE releasedIds # << >>
  <2> DEFINE n == Len(releasedIds)
  <2>1. /\ n \in Nat /\ n > 0
        /\ releasedIds' = SubSeq(releasedIds, 1, n - 1)
        /\ nextStreamId' = nextStreamId
        /\ AllocatedId = releasedIds[n]
    BY <1>1, <1>t DEF allocateStreamId, AllocatedId
  <2>2. Len(releasedIds') = n - 1 /\ \A i \in 1 .. (n - 1) : releasedIds'[i] = releasedIds[i]
    BY <1>t, <2>1, FrontOfSeq
  <2>3. releasedIds[n] \in Nat /\ releasedIds[n] # 0
    BY <1>t, <2>1 DEF StreamIds
  <2> HIDE DEF n
  <2>4. \A d \in Conns : session'[d].streamId < nextStreamId'
    BY <1>s, <2>1 DEF IdInv, n
  <2>5. \A i \in 1 .. Len(releasedIds') : releasedIds'[i] < nextStreamId'
    BY <2>1, <2>2 DEF IdInv, n
  <2>6. \A i, j \in 1 .. Len(releasedIds') : i # j => releasedIds'[i] # releasedIds'[j]
    <3>1. \A i \in 1 .. Len(releasedIds') : i \in 1 .. (n - 1) /\ i \in 1 .. Len(releasedIds)
      BY <2>1, <2>2 DEF n
    <3> QED BY <3>1, <2>2 DEF IdInv
  <2>7. UniqueStreamIds'
    <3> SUFFICES ASSUME NEW e \in Conns, session'[e].streamId # 0
                 PROVE  /\ \A d \in Conns \ {e} : session'[d].streamId # session'[e].streamId
                        /\ \A i \in 1 .. (n - 1) : releasedIds[i] # session'[e].streamId
      BY <2>2 DEF UniqueStreamIds
    <3>1. n \in 1 .. Len(releasedIds)
      BY <2>1 DEF n
    <3>2. \A d \in Conns : session[d].streamId # 0 => releasedIds[n] # session[d].streamId
      BY <3>1 DEF IdInv, UniqueStreamIds
    <3>3. CASE e = c
      <4>1. \A i \in 1 .. (n - 1) : releasedIds[i] # releasedIds[n]
        BY <2>1, <3>1 DEF IdInv, n
      <4> QED BY <3>2, <3>3, <4>1, <1>s, <2>1, <2>3
    <3>4. CASE e # c
      <4>1. session'[e].streamId = session[e].streamId
        BY <3>4, <1>s
      <4>2. \A i \in 1 .. (n - 1) : releasedIds[i] # session[e].streamId
        BY <4>1, <2>1 DEF IdInv, UniqueStreamIds, n
      <4>3. \A d \in Conns \ {e} : session[d].streamId # session[e].streamId
        BY <4>1 DEF IdInv, UniqueStreamIds
      <4> QED BY <3>2, <3>4, <4>1, <4>2, <4>3, <1>s, <2>1
    <3> QED BY <3>3, <3>4
  <2> QED BY <2>1, <2>4, <2>5, <2>6, <2>7 DEF IdInv
<1>2. CASE releasedIds = << >>
  <2>1. /\ FreshId = nextStreamId /\ AllocatedId = nextStreamId
        /\ nextStreamId <= MaxStreamId
        /\ releasedIds' = releasedIds
        /\ nextStreamId' = (nextStreamId + 1) % IdSpace
    BY <1>2, <1>t DEF allocateStreamId, AllocatedId, FreshId, IdInv
  <2>2. nextStreamId' = nextStreamId + 1
    <3>1. nextStreamId + 1 \in 0 .. (IdSpace - 1)
      BY <2>1, <1>t
    <3> QED BY <2>1, <3>1, ModSmall
  <2>3. Len(releasedIds') = 0 /\ Len(releasedIds) = 0
    BY <1>2, <2>1
  <2>4. \A d \in Conns : session'[d].streamId < nextStreamId'
    BY <1>s, <1>t, <2>1, <2>2 DEF IdInv
  <2>5. UniqueStreamIds'
    <3>1. \A d \in Conns : session[d].streamId # nextStreamId
      BY <1>t DEF IdInv
    <3>2. \A d, e \in Conns : d # e /\ session'[e].streamId # 0
            => session'[d].streamId # session'[e].streamId
      BY <1>s, <2>1, <3>1 DEF IdInv, UniqueStreamIds
    <3> QED BY <3>2, <2>3 DEF UniqueStreamIds
  <2> QED BY <1>t, <2>2, <2>3, <2>4, <2>5 DEF IdInv
<1> QED BY <1>1, <1>2

(***************************************************************************)
(* A session that gives back its own id does not make it available twice.  *)
(***************************************************************************)
LEMMA DeletePreservesIdInv ==
  ASSUME TypeOK, IdInv, NEW c \in Conns,
         session[c].streamId # INVALID_STREAM_ID,
         releasedIds' = Append(releasedIds, session[c].streamId),
         nextStreamId' = nextStreamId,
         session'[c].streamId = INVALID_STREAM_ID,
         \A d \in Conns \ {c} : session'[d].streamId = session[d].streamId
  PROVE  IdInv'
<1> USE DEF INVALID_STREAM_ID
<1> DEFINE n == Len(releasedIds)
           id == session[c].streamId
<1>t. /\ nextStreamId \in Nat /\ releasedIds \in Seq(StreamIds)
      /\ id \in StreamIds /\ n \in Nat
  <2>1. id \in StreamIds
    BY DEF TypeOK, SessionTypeOK, SessionContext
  <2>2. nextStreamId \in Nat /\ releasedIds \in Seq(StreamIds)
    BY IdSpaceAssumption DEF TypeOK, RegistryTypeOK
  <2> QED BY <2>1, <2>2
<1>1. /\ Len(releasedIds') = n + 1
      /\ \A i \in 1 .. n : releasedIds'[i] = releasedIds[i]
      /\ releasedIds'[n + 1] = id
  BY <1>t
<1>2. \A i \in 1 .. n : releasedIds[i] # id
  BY DEF IdInv, UniqueStreamIds
<1>3. id < nextStreamId
  BY DEF IdInv
<1>4. \A d \in Conns \ {c} : session[d].streamId # id
  BY DEF IdInv, UniqueStreamIds
<1> HIDE DEF n, id
<1>5. \A i \in 1 .. Len(releasedIds') : releasedIds'[i] < nextStreamId'
  BY <1>t, <1>1, <1>3 DEF IdInv, n
<1>6. \A i, j \in 1 .. Len(releasedIds') : i # j => releasedIds'[i] # releasedIds'[j]
  BY <1>t, <1>1, <1>2 DEF IdInv, n
<1>7. UniqueStreamIds'
  <2> SUFFICES ASSUME NEW e \in Conns, session'[e].streamId # 0
               PROVE  /\ \A d \in Conns \ {e} : session'[d].streamId # session'[e].streamId
                      /\ \A i \in 1 .. (n + 1) : releasedIds'[i] # session'[e].streamId
    BY <1>1 DEF UniqueStreamIds
  <2>1. e # c /\ session'[e].streamId = session[e].streamId
    OBVIOUS
  <2>2. \A i \in 1 .. n : releasedIds[i] # session[e].streamId
    BY <2>1 DEF IdInv, UniqueStreamIds, n
  <2>3. \A d \in Conns \ {e} : session[d].streamId # session[e].streamId
    BY <2>1 DEF IdInv, UniqueStreamIds
  <2>4. \A i \in 1 .. (n + 1) : i \in 1 .. n \/ i = n + 1
    BY <1>t
  <2>5. \A i \in 1 .. (n + 1) : releasedIds'[i] # session[e].streamId
    BY <1>1, <1>4, <2>1, <2>2, <2>4
  <2> QED BY <2>1, <2>3, <2>5
<1>8. \A d \in Conns : session'[d].streamId < nextStreamId'
  <2>1. 0 < nextStreamId
    BY <1>t DEF IdInv
  <2> QED BY <2>1 DEF IdInv
<1> QED BY <1>5, <1>6, <1>7, <1>8 DEF IdInv

(***************************************************************************)
(* Unique ids, on two conditions: clients delete only the ids they hold    *)
(* (a foreign id breaks it, as the run foreign_delete shows) and the       *)
(* counter does not wrap around.                                           *)
(***************************************************************************)
THEOREM StreamIdsUnique ==
  ASSUME ~ForeignDelete, MaxStreamId < IdSpace - 1
  PROVE  Spec => []UniqueStreamIds
<1>1. Init => IdInv
  <2> SUFFICES ASSUME Init PROVE IdInv
    OBVIOUS
  <2>1. nextStreamId = 1 /\ Len(releasedIds) = 0
        /\ \A c \in Conns : session[c].streamId = 0
    BY DEF Init, RegistryInit, FreshSession, INVALID_STREAM_ID
  <2> QED BY <2>1 DEF IdInv, UniqueStreamIds, INVALID_STREAM_ID
<1>2. IInv /\ IdInv /\ [Next]_vars => IdInv'
  <2> SUFFICES ASSUME IInv, IdInv, [Next]_vars PROVE IdInv'
    OBVIOUS
  <2>t. session \in [Conns -> SessionContext]
    BY DEF IInv, CoreInv, TypeOK, SessionTypeOK
  <2>u. ASSUME nextStreamId' = nextStreamId, releasedIds' = releasedIds,
               \A d \in Conns : session'[d].streamId = session[d].streamId
        PROVE  IdInv'
    BY <2>u DEF IdInv, UniqueStreamIds
  <2>1. ASSUME NEW c \in Conns, processCommand(c) PROVE IdInv'
    <3>n. ASSUME NEW a, NoEffect(c, a) PROVE IdInv'
      BY <3>n, <2>u DEF NoEffect, registryVars
    <3>1. ASSUME NEW app \in Apps \cup {""}, handleConnect(c, app) PROVE IdInv'
      <4>1. CASE session' = [session EXCEPT ![c].appName = app, ![c].state = "Connected"]
                 /\ UNCHANGED registryVars
        BY <4>1, <2>u, <2>t DEF registryVars, SessionContext
      <4> QED BY <3>1, <3>n, <4>1 DEF handleConnect
    <3>2. ASSUME handleCreateStream(c) PROVE IdInv'
      <4>1. CASE session[c].appName # ""
        BY <3>2, <4>1, CreatePreservesIdInv DEF handleCreateStream, IInv, CoreInv
      <4> QED BY <3>2, <3>n, <4>1 DEF handleCreateStream
    <3>3. ASSUME NEW name \in Names \cup {""}, handlePublish(c, name) PROVE IdInv'
      <4>1. CASE session' = [session EXCEPT ![c].state = "Publishing", ![c].streamKey = name]
                 /\ UNCHANGED <<nextStreamId, releasedIds>>
        BY <4>1, <2>u, <2>t DEF SessionContext
      <4> QED BY <3>3, <3>n, <4>1 DEF handlePublish
    <3>4. ASSUME NEW name \in Names \cup {""}, handlePlay(c, name) PROVE IdInv'
      <4>1. CASE session' = [session EXCEPT ![c].state = "Subscribing", ![c].streamKey = name]
                 /\ UNCHANGED <<nextStreamId, releasedIds>>
        BY <4>1, <2>u, <2>t DEF SessionContext
      <4> QED BY <3>4, <3>n, <4>1 DEF handlePlay
    <3>5. ASSUME NEW arg \in DeleteArgs(c), handleDeleteStream(c, arg) PROVE IdInv'
      <4>1. arg = INVALID_STREAM_ID \/ arg = session[c].streamId
        BY <3>5 DEF DeleteArgs
      <4>2. CASE session[c].streamId # INVALID_STREAM_ID
        <5>1. /\ releasedIds' = Append(releasedIds, session[c].streamId)
              /\ nextStreamId' = nextStreamId
          BY <3>5, <4>1, <4>2 DEF handleDeleteStream, releaseStreamId
        <5>2. session' = [session EXCEPT ![c].state = "Connected",
                                         ![c].streamId = INVALID_STREAM_ID,
                                         ![c].streamKey = ""]
          BY <3>5, <4>1, <4>2 DEF handleDeleteStream
        <5>3. /\ session'[c].streamId = INVALID_STREAM_ID
              /\ \A d \in Conns \ {c} : session'[d].streamId = session[d].streamId
          BY <5>2, <2>t DEF SessionContext
        <5> QED BY <5>1, <5>3, <4>2, DeletePreservesIdInv DEF IInv, CoreInv
      <4>3. CASE session[c].streamId = INVALID_STREAM_ID
        BY <3>5, <4>1, <4>3, <3>n DEF handleDeleteStream
      <4> QED BY <4>2, <4>3
    <3>6. ASSUME handleCloseStream(c) PROVE IdInv'
      <4>1. /\ session' = [session EXCEPT ![c].state = "Connected", ![c].streamKey = ""]
            /\ UNCHANGED <<nextStreamId, releasedIds>>
        BY <3>6 DEF handleCloseStream
      <4> QED BY <4>1, <2>u, <2>t DEF SessionContext
    <3>7. ASSUME NEW a \in {"success", "none"}, OtherCommand(c, a) PROVE IdInv'
      BY <3>7, <3>n DEF OtherCommand
    <3> QED BY <2>1, <3>1, <3>2, <3>3, <3>4, <3>5, <3>6, <3>7 DEF processCommand
  <2>2. CASE UNCHANGED vars
    BY <2>2, <2>u DEF vars
  <2> QED BY <2>1, <2>2 DEF Next
<1>3. IdInv => UniqueStreamIds
  BY DEF IdInv
<1> QED BY <1>1, <1>2, <1>3, Invariance, PTL DEF Spec
=============================================================================
