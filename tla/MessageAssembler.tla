--------------------------- MODULE MessageAssembler ---------------------------
(***************************************************************************)
(* protocol::MessageAssembler: chunks of several chunk streams, of which a *)
(* sender splits each message, are put together again per chunk stream.    *)
(* A message is its length and identity; a payload is the sequence of the  *)
(* messages its bytes belong to.                                           *)
(***************************************************************************)
EXTENDS Naturals, Sequences, FiniteSets

CONSTANTS
  AssemblyStreams,                   \* chunk stream ids
  AssemblyTypes,                     \* message type ids used, known or not
  MaxBody, MaxSent                 \* bounds: message length, messages sent on a stream
ASSUME AssemblyAssumption == MaxBody \in Nat /\ MaxSent \in Nat

VARIABLES
  assembly,      \* states_: expectedLength, messageTypeId, buffer, hasStarted
  sending,       \* the sender: per stream the message under way, and the bytes left
  sent,          \* per stream, how many messages were sent to their end or given up
  whole,         \* history: type, length and id of those sent to their end
  assembled      \* history: messages given to the callback, per stream
assemblyVars == <<assembly, sending, sent, whole, assembled>>

NoMessage == [id |-> 0, type |-> 0, length |-> 0, left |-> 0]
NotStarted == [expected |-> 0, type |-> 0, buffer |-> <<>>, started |-> FALSE]

\* The categories of categorizeMessageType; type ids in none are unknown.
Categories == [ProtocolControl |-> 1..6, Audio |-> {8}, Video |-> {9}, Data |-> {15, 18},
               Command |-> {17, 20}, SharedObject |-> {16, 19}, Aggregate |-> {22}]
categorizeMessageType(type) ==
  IF \E c \in DOMAIN Categories : type \in Categories[c]
  THEN CHOOSE c \in DOMAIN Categories : type \in Categories[c] ELSE "Unknown"
isKnownMessageType(type) == type \in UNION {Categories[c] : c \in DOMAIN Categories}

AssemblyInit ==
  /\ assembly = [c \in AssemblyStreams |-> NotStarted]
  /\ sending = [c \in AssemblyStreams |-> NoMessage]
  /\ sent = [c \in AssemblyStreams |-> 0]
  /\ whole = [c \in AssemblyStreams |-> <<>>] /\ assembled = [c \in AssemblyStreams |-> <<>>]

\* Mutant: a finished message is not reset.
completeKeepsBuffer(c, s) ==
  /\ assembled' = [assembled EXCEPT ![c] = Append(@, <<s.type, s.buffer, categorizeMessageType(s.type)>>)]
  /\ assembly' = [assembly EXCEPT ![c] = [s EXCEPT !.started = FALSE]]

\* The callback, with the category, then the reset.
completeMessage(c, s) ==
  /\ assembled' = [assembled EXCEPT ![c] = Append(@, <<s.type, s.buffer, categorizeMessageType(s.type)>>)]
  /\ assembly' = [assembly EXCEPT ![c] = [s EXCEPT !.buffer = <<>>, !.started = FALSE]]

\* A chunk with the header of message m and n bytes of it.
processChunk(c, m, n) ==
  LET begun == IF assembly[c].started THEN assembly[c]
               ELSE [assembly[c] EXCEPT !.expected = m.length, !.type = m.type, !.started = TRUE]
      state == [begun EXCEPT !.buffer = @ \o [i \in 1..n |-> m.id]]
  IN  IF n = m.left \/ Len(state.buffer) >= state.expected
      THEN completeMessage(c, state)
      ELSE assembly' = [assembly EXCEPT ![c] = state] /\ UNCHANGED assembled

\* The sender begins a message, possibly of no bytes, or continues one.
sendChunk(c, type, length, n) ==
  LET m == IF sending[c] = NoMessage
           THEN [id |-> sent[c] + 1, type |-> type, length |-> length, left |-> length]
           ELSE sending[c] IN
  /\ sent[c] < MaxSent /\ n <= m.left /\ (n > 0 \/ m.left = 0)
  /\ sending[c] # NoMessage => type = m.type /\ length = m.length
  /\ processChunk(c, m, n)
  /\ sending' = [sending EXCEPT ![c] = IF n = m.left THEN NoMessage ELSE [m EXCEPT !.left = @ - n]]
  /\ IF n = m.left
     THEN /\ sent' = [sent EXCEPT ![c] = @ + 1]
          /\ whole' = [whole EXCEPT ![c] = Append(@, <<m.type, m.length, m.id>>)]
     ELSE UNCHANGED <<sent, whole>>

\* The sender gives a message up; the assembler gets abortMessage.
abortMessage(c) ==
  /\ sending[c] # NoMessage /\ sent[c] < MaxSent
  /\ assembly' = [assembly EXCEPT ![c] = [@ EXCEPT !.buffer = <<>>, !.started = FALSE]]
  /\ sending' = [sending EXCEPT ![c] = NoMessage]
  /\ sent' = [sent EXCEPT ![c] = @ + 1]
  /\ UNCHANGED <<whole, assembled>>

\* clear drops what is pending on every stream; the senders start over.
clearAssembly ==
  /\ \E c \in AssemblyStreams : sending[c] # NoMessage
  /\ \A c \in AssemblyStreams : sent[c] < MaxSent
  /\ assembly' = [c \in AssemblyStreams |-> NotStarted]
  /\ sending' = [c \in AssemblyStreams |-> NoMessage]
  /\ sent' = [c \in AssemblyStreams |-> IF sending[c] = NoMessage THEN sent[c] ELSE sent[c] + 1]
  /\ UNCHANGED <<whole, assembled>>

AssemblyNext ==
  \/ clearAssembly
  \/ \E c \in AssemblyStreams :
       \/ abortMessage(c)
       \/ \E type \in AssemblyTypes, length, n \in 0..MaxBody : sendChunk(c, type, length, n)

AssemblySpec == AssemblyInit /\ [][AssemblyNext]_assemblyVars

-----------------------------------------------------------------------------

(***************************************************************************)
(* However the chunks of the streams interleave, and whichever messages    *)
(* are aborted or dropped on the way, the messages handed on for a stream  *)
(* are those sent to their end on it, in order, each with its own bytes,   *)
(* type and category and with none of another; only a message under way is *)
(* pending.                                                                *)
(***************************************************************************)
Reassembled ==
  \A c \in AssemblyStreams :
    /\ assembled[c] = [k \in DOMAIN whole[c] |->
         LET m == whole[c][k]
         IN  <<m[1], [j \in 1..m[2] |-> m[3]], categorizeMessageType(m[1])>>]
    /\ assembly[c].started <=> sending[c] # NoMessage
    /\ \A k \in DOMAIN assembled[c] : assembled[c][k][3] # "Unknown" <=> isKnownMessageType(assembled[c][k][1])
=============================================================================
