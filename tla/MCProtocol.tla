----------------------------- MODULE MCProtocol -----------------------------
(***************************************************************************)
(* From the bytes of a connection to the values of a command: the chunk    *)
(* parser, the reassembly of messages and the AMF codec, each by itself.   *)
(* They share no state, so a behaviour has the steps of one of them, the   *)
(* one focus names.                                                        *)
(***************************************************************************)
EXTENDS ChunkParser, MessageAssembler, AMFCodec

VARIABLE focus

ProtocolInit ==
  /\ focus \in {"parser", "assembler", "amf"}
  /\ ParserInit /\ AssemblyInit /\ AMFInit

\* What the other components do meanwhile: nothing.
Elsewhere ==
  /\ UNCHANGED focus
  /\ IF focus = "parser" THEN TRUE ELSE UNCHANGED parserVars
  /\ IF focus = "assembler" THEN TRUE ELSE UNCHANGED assemblyVars
  /\ IF focus = "amf" THEN TRUE ELSE UNCHANGED amfVars

ProtocolNext ==
  \/ focus = "parser" /\ ParserNext /\ Elsewhere
  \/ focus = "assembler" /\ AssemblyNext /\ Elsewhere
  \/ focus = "amf" /\ AMFNext /\ Elsewhere

protocolVars ==
  <<focus, parserVars, assemblyVars, amfVars>>

ProtocolSpec == ProtocolInit /\ [][ProtocolNext]_protocolVars
-----------------------------------------------------------------------------

\* ChunkParser and AMFCodec: the server gets the messages the client completed,
\* each whole, once, in order and with its timestamp, however the reads cut the
\* chunks, and none is held back once everything is read; what an encoder wrote
\* is decoded to the same value and leaves the next one in place, within the
\* limits of the format.  (MessageAssembler's promise is Reassembled.)
InputParsed ==
  /\ focus = "parser" => MessagesIntact /\ TimestampsIntact /\ NothingHeldBack
  /\ focus = "amf" => RoundTrip
=============================================================================
