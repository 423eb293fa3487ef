----------------------------- MODULE ChunkParser -----------------------------
(***************************************************************************)
(* protocol::ChunkParser behind RTMPServer's read buffer: messages of      *)
(* several chunk streams, cut into chunks by a client, cut again by TCP,   *)
(* put together by the parser.                                             *)
(*                                                                         *)
(* The bytes are cells: a basic header, a message header, an extended      *)
(* timestamp and a byte of payload are one cell each, so that a read can   *)
(* end between any two of them.  (A read that ends inside one of the       *)
(* headers is one that ends before it: nothing of it is consumed.)         *)
(*                                                                         *)
(* The client is the reference: it keeps, in expected, the messages it has *)
(* sent completely.  It sends control messages (Set Chunk Size, Abort)     *)
(* with the full header, on a chunk stream of their own.                   *)
(***************************************************************************)
EXTENDS Integers, Sequences

CONSTANTS
  Csids,        \* chunk streams of messages
  Control,      \* the chunk stream of control messages
  MaxMessages,  \* bound: messages the client begins
  MaxLength,    \* largest length of a message
  MIN_CHUNK_SIZE, MAX_CHUNK_SIZE, DEFAULT_CHUNK_SIZE,
  Marker,       \* a time field of this value announces an extended timestamp
  MaxDelta,     \* largest time between two messages
  TimeSpace     \* number of values of a timestamp (2^32 in the code)

ASSUME ParserAssumption ==
  /\ Control \notin Csids
  /\ MaxMessages \in Nat /\ MaxLength \in Nat
  /\ MIN_CHUNK_SIZE \in Nat \ {0}
  /\ DEFAULT_CHUNK_SIZE \in MIN_CHUNK_SIZE .. MAX_CHUNK_SIZE
  /\ Marker \in Nat /\ MaxDelta \in Nat /\ TimeSpace \in Nat \ {0}

VARIABLES
  \* the client
  tx,          \* per chunk stream: the message being sent
  txChunk,     \* the chunk size it uses
  begun,       \* messages begun
  wire,        \* cells under way
  expected,    \* the messages sent completely
  \* the server
  buf,         \* the unconsumed part of readBuffer
  parsing,     \* is parse in its loop?
  rx,          \* chunkStreams_
  chunkSize,   \* chunkSize_
  pending,     \* pendingChunkCsid_ and pendingChunkBytes_
  completed,   \* the chunks handed to the server
  \* history
  strained     \* "delta cut", "type 3": what the timestamps do not bear, below

client == <<tx, txChunk, begun, expected>>
parser == <<rx, chunkSize, pending, completed>>
parserVars == <<tx, txChunk, begun, wire, expected, buf, parsing, rx, chunkSize,
                pending, completed, strained>>

\* What the parser's timestamps do not bear: a read that ends between the
\* delta header of a chunk and its payload, and a message that begins with
\* a header of type 3 where that header stands for a time other than the
\* one before.

AllCsids == Csids \cup {Control}
NoPending == [csid |-> 0, bytes |-> 0]

ParserInit ==
  /\ tx = [c \in Csids |-> [used |-> FALSE, time |-> 0, delta |-> 0,
                            field |-> 0, length |-> 0, left |-> 0, msg |-> 0]]
  /\ txChunk = DEFAULT_CHUNK_SIZE
  /\ begun = 0
  /\ wire = << >> /\ expected = << >>
  /\ buf = << >> /\ parsing = FALSE
  /\ rx = [c \in AllCsids |-> [timestamp |-> 0, timestampDelta |-> 0,
                               messageLength |-> 0, type |-> "none",
                               hasExtendedTimestamp |-> FALSE,
                               partialPayload |-> << >>, remainingBytes |-> 0]]
  /\ chunkSize = DEFAULT_CHUNK_SIZE
  /\ pending = NoPending
  /\ completed = << >>
  /\ strained = {}

-----------------------------------------------------------------------------
(* The client (external).                                                  *)

Basic(fmt, csid) == [cell |-> "basic", fmt |-> fmt, csid |-> csid]
Header(time, length, type) ==
  [cell |-> "header", time |-> time, length |-> length, type |-> type]
Ext(time) == [cell |-> "ext", time |-> time]
Data(value) == [cell |-> "data", value |-> value]
Payload(msg, from, n) == [i \in 1 .. n |-> Data(<<msg, from + i>>)]

Message(csid, time, type, payload) ==
  [csid |-> csid, timestamp |-> time, type |-> type, payload |-> payload]

Smaller(a, b) == IF a < b THEN a ELSE b

\* The time field and, if it does not fit, the extended timestamp.
TimeField(t) == IF t >= Marker THEN Marker ELSE t
ExtCells(t) == IF t >= Marker THEN <<Ext(t)>> ELSE << >>

\* A new message.  Format 3 repeats length and delta of the one before.
Begin(c, fmt, length, delta) ==
  /\ begun < MaxMessages
  /\ tx[c].left = 0
  /\ fmt = 0 \/ tx[c].used
  /\ fmt \in {2, 3} => length = tx[c].length
  /\ fmt = 3 => delta = tx[c].delta
  /\ LET time  == (tx[c].time + delta) % TimeSpace
         field == CASE fmt = 0 -> time
                    [] fmt = 3 -> tx[c].field
                    [] OTHER -> delta
         n     == Smaller(length, txChunk)
         msg   == begun + 1
         head  == IF fmt = 3 THEN << >> ELSE <<Header(TimeField(field), length, "media")>>
     IN  /\ wire' = wire \o <<Basic(fmt, c)>> \o head \o ExtCells(field) \o Payload(msg, 0, n)
         /\ tx' = [tx EXCEPT ![c] =
              [used |-> TRUE, time |-> time, delta |-> delta,
               field |-> field, length |-> length, left |-> length - n, msg |-> msg]]
         /\ expected' = IF length > n THEN expected
                        ELSE Append(expected, Message(c, time, "media",
                               [i \in 1 .. length |-> <<msg, i>>]))
  /\ begun' = begun + 1
  /\ strained' = strained \cup
       IF fmt = 3 /\ (tx[c].field # delta \/ delta \in 1 .. (Marker - 1)) THEN {"type 3"} ELSE {}
  /\ UNCHANGED <<txChunk, buf, parsing, parser>>

\* The next chunk of a message.
Continue(c) ==
  /\ tx[c].left > 0
  /\ LET n == Smaller(tx[c].left, txChunk)
         length == tx[c].length
     IN  /\ wire' = wire \o <<Basic(3, c)>> \o ExtCells(tx[c].field)
                         \o Payload(tx[c].msg, length - tx[c].left, n)
         /\ tx' = [tx EXCEPT ![c].left = @ - n]
         /\ expected' = IF tx[c].left > n THEN expected
                        ELSE Append(expected, Message(c, tx[c].time, "media",
                               [i \in 1 .. length |-> <<tx[c].msg, i>>]))
  /\ UNCHANGED <<txChunk, begun, buf, parsing, parser, strained>>

\* A control message fits into one chunk; its payload is one value.
SendControl(type, value) ==
  /\ begun < MaxMessages
  /\ begun' = begun + 1
  /\ wire' = wire \o <<Basic(0, Control), Header(0, 1, type), Data(value)>>
  /\ expected' = Append(expected, Message(Control, 0, type, <<value>>))
  /\ UNCHANGED <<buf, parsing, parser, strained>>

SendSetChunkSize(size) ==
  /\ size # txChunk
  /\ SendControl("set chunk size", size)
  /\ txChunk' = size
  /\ UNCHANGED tx

SendAbort(c) ==
  /\ tx[c].left > 0
  /\ SendControl("abort", c)
  /\ tx' = [tx EXCEPT ![c].left = 0]
  /\ UNCHANGED txChunk

-----------------------------------------------------------------------------
(* The parser.                                                             *)

\* Do these cells end with a chunk that has a delta header and, of the
\* payload that follows, nothing?
EndsWithDelta(cells, next) ==
  /\ next.cell = "data"
  /\ \E i \in 1 .. Len(cells) :
       /\ cells[i].cell = "basic" /\ cells[i].fmt \in {1, 2}
       /\ \A j \in (i + 1) .. Len(cells) : cells[j].cell \in {"header", "ext"}

\* A read: the bytes are put behind what was not consumed.
read(n) ==
  /\ ~parsing
  /\ n \in 1 .. Len(wire)
  /\ buf' = buf \o SubSeq(wire, 1, n)
  /\ wire' = SubSeq(wire, n + 1, Len(wire))
  /\ parsing' = TRUE
  /\ strained' = strained \cup
       IF n < Len(wire) /\ EndsWithDelta(buf \o SubSeq(wire, 1, n), wire[n + 1])
       THEN {"delta cut"} ELSE {}
  /\ UNCHANGED <<client, parser>>

setChunkSize(size) ==
  CASE size < MIN_CHUNK_SIZE -> MIN_CHUNK_SIZE
    [] size > MAX_CHUNK_SIZE -> MAX_CHUNK_SIZE
    [] OTHER -> size

resetPartial(s) == [s EXCEPT !.partialPayload = << >>, !.remainingBytes = 0]

\* Mutant: an abort is not acted upon.
abortIgnored(streams, csid) == streams

\* abortChunkStream, on the state of all chunk streams.
abortChunkStream(streams, csid) ==
  IF csid \in AllCsids THEN [streams EXCEPT ![csid] = resetPartial(@)] ELSE streams

\* The loop stops: what is left in buf waits for the next read.
StopParsing(consumed) ==
  /\ parsing' = FALSE
  /\ buf' = SubSeq(buf, consumed + 1, Len(buf))

\* The chunk of csid is in: s is its stream's state with the payload.  A
\* message that is complete is handed on, and acted upon if it is a control
\* message.
ChunkDone(csid, s) ==
  \/ /\ s.remainingBytes > 0
     /\ rx' = [rx EXCEPT ![csid] = s]
     /\ UNCHANGED <<chunkSize, completed>>
  \/ /\ s.remainingBytes = 0
     /\ completed' = Append(completed, Message(csid, s.timestamp, s.type, s.partialPayload))
     /\ LET after == [rx EXCEPT ![csid] = [s EXCEPT !.partialPayload = << >>]]
        IN  /\ rx' = IF s.type = "abort"
                     THEN abortChunkStream(after, s.partialPayload[1]) ELSE after
            /\ chunkSize' = IF s.type = "set chunk size"
                            THEN setChunkSize(s.partialPayload[1]) ELSE chunkSize

\* Bytes are bytes: a header taken for payload is payload.
Values(cells) ==
  [i \in 1 .. Len(cells) |-> IF cells[i].cell = "data" THEN cells[i].value ELSE <<0, 0>>]

\* The state with n more bytes of payload, found in buf after the first h.
Take(s, h, n) == [s EXCEPT !.partialPayload = @ \o Values(SubSeq(buf, h + 1, h + n)),
                           !.remainingBytes = @ - n]

\* Mutant: the end of the message is not noticed.
pendingNotDone ==
  /\ parsing
  /\ buf # << >>
  /\ pending.bytes > 0
  /\ LET n == Smaller(pending.bytes, Len(buf))
     IN  /\ rx' = [rx EXCEPT ![pending.csid] = Take(@, 0, n)]
         /\ pending' = IF n = pending.bytes THEN NoPending
                       ELSE [pending EXCEPT !.bytes = @ - n]
         /\ buf' = SubSeq(buf, n + 1, Len(buf))
  /\ UNCHANGED <<client, wire, parsing, chunkSize, completed, strained>>

\* A chunk whose payload had not all arrived goes on where it stopped.
parsePending ==
  /\ parsing
  /\ buf # << >>
  /\ pending.bytes > 0
  /\ LET n == Smaller(pending.bytes, Len(buf))
         s == Take(rx[pending.csid], 0, n)
     IN  /\ \/ /\ n = pending.bytes
               /\ ChunkDone(pending.csid, s)
               /\ pending' = NoPending
            \/ /\ n < pending.bytes
               /\ rx' = [rx EXCEPT ![pending.csid] = s]
               /\ pending' = [pending EXCEPT !.bytes = @ - n]
               /\ UNCHANGED <<chunkSize, completed>>
         /\ buf' = SubSeq(buf, n + 1, Len(buf))
  /\ UNCHANGED <<client, wire, parsing, strained>>

HeaderSize(fmt) == IF fmt = 3 THEN 1 ELSE 2

\* The message header is applied to the state as soon as it is complete, even
\* if the chunk is then left in the buffer and parsed again.
parseMessageHeader(fmt, s) ==
  LET m == buf[2]
      extended == m.time = Marker
      full == [s EXCEPT !.messageLength = m.length, !.type = m.type]
  IN  CASE fmt = 3 -> s
        [] fmt = 0 -> [full EXCEPT !.hasExtendedTimestamp = extended,
                                   !.timestamp = IF extended THEN @ ELSE m.time,
                                   !.timestampDelta = 0]
        [] OTHER ->
             LET t == IF fmt = 1 THEN full ELSE s
             IN  [t EXCEPT !.hasExtendedTimestamp = extended,
                           !.timestampDelta = IF extended THEN @ ELSE m.time,
                           !.timestamp = IF extended THEN @
                                         ELSE (@ + m.time) % TimeSpace]

InMessage(s) == s.partialPayload # << >> \/ s.remainingBytes > 0

\* Mutant: the time is added again by every chunk.
applyAlways(fmt, s, time) ==
  IF fmt = 0 THEN [s EXCEPT !.timestamp = time]
  ELSE [s EXCEPT !.timestampDelta = time, !.timestamp = (@ + time) % TimeSpace]

applyExtendedTimestamp(fmt, s, time) ==
  CASE fmt = 0 -> [s EXCEPT !.timestamp = time]
    [] fmt = 3 /\ InMessage(s) -> s
    [] OTHER -> [s EXCEPT !.timestampDelta = time,
                          !.timestamp = (@ + time) % TimeSpace]

startMessage(s) == IF InMessage(s) THEN s ELSE [s EXCEPT !.remainingBytes = s.messageLength]

\* A chunk from its basic header on.
parseChunk ==
  /\ parsing
  /\ buf # << >>
  /\ pending.bytes = 0
  /\ LET fmt  == buf[1].fmt
         csid == buf[1].csid
         h    == HeaderSize(fmt)
     IN
     \/ /\ Len(buf) < h                      \* part of the header is missing
        /\ StopParsing(0)
        /\ UNCHANGED <<rx, chunkSize, pending, completed>>
     \/ /\ Len(buf) >= h
        /\ LET s  == parseMessageHeader(fmt, rx[csid])
               e  == h + (IF s.hasExtendedTimestamp THEN 1 ELSE 0)
               s1 == startMessage(IF s.hasExtendedTimestamp
                                  THEN applyExtendedTimestamp(fmt, s, buf[e].time) ELSE s)
               wanted    == Smaller(chunkSize, s1.remainingBytes)
               available == Len(buf) - e
           IN
           \/ /\ available < 0               \* the extended timestamp is
              /\ rx' = [rx EXCEPT ![csid] = s]
              /\ StopParsing(0)
              /\ UNCHANGED <<chunkSize, pending, completed>>
           \/ /\ available = 0 /\ wanted > 0 \* all of the payload is
              /\ rx' = [rx EXCEPT ![csid] = s1]
              /\ StopParsing(0)
              /\ UNCHANGED <<chunkSize, pending, completed>>
           \/ /\ available > 0 /\ available < wanted
              /\ rx' = [rx EXCEPT ![csid] = Take(s1, e, available)]
              /\ pending' = [csid |-> csid, bytes |-> wanted - available]
              /\ StopParsing(Len(buf))
              /\ UNCHANGED <<chunkSize, completed>>
           \/ /\ available >= 0 /\ available >= wanted
              /\ ChunkDone(csid, Take(s1, e, wanted))
              /\ buf' = SubSeq(buf, e + wanted + 1, Len(buf))
              /\ UNCHANGED <<parsing, pending>>
  /\ UNCHANGED <<client, wire, strained>>

\* Everything is consumed: the loop ends and the server reads again.
parseEnd ==
  /\ parsing
  /\ buf = << >>
  /\ parsing' = FALSE
  /\ UNCHANGED <<client, wire, buf, parser, strained>>

ClientStep ==
  \/ \E c \in Csids, fmt \in 0 .. 3, length \in 0 .. MaxLength, delta \in 0 .. MaxDelta :
       Begin(c, fmt, length, delta)
  \/ \E c \in Csids : Continue(c) \/ SendAbort(c)
  \/ \E size \in MIN_CHUNK_SIZE .. MAX_CHUNK_SIZE : SendSetChunkSize(size)

ParserNext ==
  \/ ClientStep
  \/ \E n \in 1 .. Len(wire) : read(n)
  \/ parsePending \/ parseChunk \/ parseEnd


-----------------------------------------------------------------------------

\* Without its timestamp.
Untimed(m) == [csid |-> m.csid, type |-> m.type, payload |-> m.payload]

(***************************************************************************)
(* The server gets the messages the client sent, in the order the client   *)
(* completed them, each with all of its payload and nothing else: whatever *)
(* the header formats, the interleaving of chunk streams, the changes of   *)
(* the chunk size, the aborts and the places where the reads cut.          *)
(***************************************************************************)
MessagesIntact ==
  /\ Len(completed) <= Len(expected)
  /\ \A i \in 1 .. Len(completed) : Untimed(completed[i]) = Untimed(expected[i])

\* The timestamps of the messages are those the client gave them.
TimesAgree ==
  \A i \in 1 .. Len(completed) : i <= Len(expected) =>
    completed[i].timestamp = expected[i].timestamp

(***************************************************************************)
(* Every message has its timestamp, through deltas, extended timestamps    *)
(* that wrap around and repeated headers, as long as the stream is not     *)
(* strained.                                                               *)
(***************************************************************************)
TimestampsIntact == strained = {} => TimesAgree

(***************************************************************************)
(* Nothing is held back: when everything the client sent has been read and *)
(* the parser waits for more, every message sent completely was delivered. *)
(***************************************************************************)
NothingHeldBack ==
  wire = << >> /\ ~parsing => Len(completed) = Len(expected)
=============================================================================
