--------------------------- MODULE StreamRegistry ---------------------------
(***************************************************************************)
(* streaming::StreamRegistry: the map from stream keys to live streams,    *)
(* the index from stream ids to keys, and the allocator of stream ids.     *)
(*                                                                         *)
(* Every public operation of the class takes streamsMutex_ (or the mutex   *)
(* of the released ids) for its whole critical section, so each operation  *)
(* is one operator over the state before and after it.  The callers that   *)
(* compose them into steps are in CommandHandler and RTMPServer.           *)
(*                                                                         *)
(* A std::map is a total function with a sentinel for "no entry".  The     *)
(* time stamps, the codec and the metadata of a StreamInfo are left out:   *)
(* no operation below branches on them.                                    *)
(***************************************************************************)
EXTENDS Integers, Sequences

CONSTANTS
  Conns,      \* connection ids; PublisherId and SubscriberId are casts of them
  Apps,       \* application names a client may connect to
  Names,      \* stream names a client may publish or play
  IdSpace,    \* number of values of a StreamId (2^32 in the code)
  NoStream,   \* "no entry" in streams_
  NoKey       \* "no entry" in streamIdIndex_

INVALID_STREAM_ID == 0
StreamIds == 1 .. (IdSpace - 1)
Keys == Apps \X Names
StreamInfo == [streamId    : StreamIds,
               publisherId : Conns,
               subscribers : SUBSET Conns]

ASSUME IdSpaceAssumption == IdSpace \in Nat /\ IdSpace > 2
ASSUME NoEntryAssumption == NoStream \notin StreamInfo /\ NoKey \notin Keys

VARIABLES
  streams,        \* streams_
  streamIdIndex,  \* streamIdIndex_
  nextStreamId,   \* nextStreamId_, the next id that was never handed out
  releasedIds     \* releasedIds_, a stack of ids to hand out again

registryVars == <<streams, streamIdIndex, nextStreamId, releasedIds>>

RegistryTypeOK ==
  /\ streams \in [Keys -> StreamInfo \cup {NoStream}]
  /\ streamIdIndex \in [StreamIds -> Keys \cup {NoKey}]
  /\ nextStreamId \in 0 .. (IdSpace - 1)
  /\ releasedIds \in Seq(StreamIds)

RegistryInit ==
  /\ streams = [k \in Keys |-> NoStream]
  /\ streamIdIndex = [i \in StreamIds |-> NoKey]
  /\ nextStreamId = 1
  /\ releasedIds = << >>

-----------------------------------------------------------------------------

hasStream(k) == streams[k] # NoStream

\* What fetch_add returns, skipping the invalid id 0 after a wrap-around.
FreshId == IF nextStreamId = INVALID_STREAM_ID THEN 1 ELSE nextStreamId

\* The id the next call of allocateStreamId returns: the most recently
\* released one, otherwise a fresh one.
AllocatedId == IF releasedIds # << >> THEN releasedIds[Len(releasedIds)]
                                      ELSE FreshId

\* Mutant: the stack is read, not popped.
allocateUnpopped ==
  \/ /\ releasedIds # << >>
     /\ UNCHANGED <<nextStreamId, releasedIds>>
  \/ /\ releasedIds = << >>
     /\ nextStreamId' = (FreshId + 1) % IdSpace
     /\ UNCHANGED releasedIds

allocateStreamId ==
  \/ /\ releasedIds # << >>
     /\ releasedIds' = SubSeq(releasedIds, 1, Len(releasedIds) - 1)
     /\ UNCHANGED nextStreamId
  \/ /\ releasedIds = << >>
     /\ nextStreamId' = (FreshId + 1) % IdSpace
     /\ UNCHANGED releasedIds

releaseStreamId(id) ==
  releasedIds' = IF id = INVALID_STREAM_ID THEN releasedIds
                                           ELSE Append(releasedIds, id)

\* Both maps are filled with emplace, which keeps an entry that is there:
\* a second stream under the same id is not indexed.
registerStream(k, id, c) ==
  /\ streams' = [streams EXCEPT ![k] =
       [streamId |-> id, publisherId |-> c, subscribers |-> {}]]
  /\ streamIdIndex' = [streamIdIndex EXCEPT ![id] = IF @ = NoKey THEN k ELSE @]

\* Mutant: the index keeps the entry.
unregisterIndexKept(k) ==
  /\ streams' = [streams EXCEPT ![k] = NoStream]
  /\ UNCHANGED streamIdIndex

\* A key that is not registered is an error result and changes nothing.
\* The subscribers disappear with the entry: nobody tells them.
unregisterStream(k) ==
  \/ /\ hasStream(k)
     /\ streamIdIndex' = [streamIdIndex EXCEPT ![streams[k].streamId] = NoKey]
     /\ streams' = [streams EXCEPT ![k] = NoStream]
  \/ /\ ~hasStream(k)
     /\ UNCHANGED <<streams, streamIdIndex>>

addSubscriber(k, c) ==
  /\ streams' = [streams EXCEPT ![k].subscribers = @ \cup {c}]
  /\ UNCHANGED streamIdIndex

removeSubscriber(k, c) ==
  /\ streams' = IF hasStream(k)
                THEN [streams EXCEPT ![k].subscribers = @ \ {c}]
                ELSE streams
  /\ UNCHANGED streamIdIndex

\* StreamRegistry::clear(), called when the server stops.
clear ==
  /\ streams' = [k \in Keys |-> NoStream]
  /\ streamIdIndex' = [i \in StreamIds |-> NoKey]
  /\ nextStreamId' = 1
  /\ releasedIds' = << >>

-----------------------------------------------------------------------------

(***************************************************************************)
(* findStreamById never returns a stream with another id, and never finds  *)
(* an index entry whose stream is gone: an entry of streamIdIndex_ points  *)
(* to a registered stream that carries that id.                            *)
(***************************************************************************)
IndexSound ==
  \A i \in StreamIds : streamIdIndex[i] # NoKey =>
    /\ hasStream(streamIdIndex[i])
    /\ streams[streamIdIndex[i]].streamId = i

=============================================================================
