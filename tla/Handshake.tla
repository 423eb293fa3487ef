------------------------------ MODULE Handshake ------------------------------
(***************************************************************************)
(* protocol::HandshakeHandler as RTMPServer drives it: C0, C1 and C2 come  *)
(* from a byte stream, in pieces TCP chooses.  Each read of a handshaking  *)
(* connection starts at the beginning of readBuffer, so bytes that the     *)
(* handler did not consume are overwritten by the next read.               *)
(*                                                                         *)
(* A byte is its position in what the client sends: 0 is C0, the next P    *)
(* bytes are C1, the next P are C2, and RTMP data follows.  A client that  *)
(* is honest sends C2 only when it has seen S1, which C2 echoes.           *)
(***************************************************************************)
EXTENDS Naturals, Sequences

CONSTANTS
  P,       \* size of C1 and C2 (1536 in the code)
  MaxData  \* bound: bytes of RTMP data the client sends

ASSUME HandshakeAssumption == P \in Nat \ {0} /\ MaxData \in Nat

Total == 1 + 2 * P + MaxData
NoByte == Total

VARIABLES
  peer,      \* what kind of client this is
  sent, got, \* number of bytes the client sent, the server read
  hsState,   \* HandshakeHandler::state_
  c1, c2,    \* the first byte of what was accepted as C1, as C2
  armed,     \* the operation outstanding on the socket
  answered,  \* have S0, S1 and S2 reached the client?
  parsed,    \* the bytes handed on to the chunk parser
  cut        \* has a read of the handshake ended inside C1 or C2?

handshakeVars == <<peer, sent, got, hsState, c1, c2, armed, answered, parsed, cut>>

HandshakeInit ==
  /\ peer \in {"honest", "badVersion", "badEcho"}
  /\ sent = 0 /\ got = 0
  /\ hsState = "WaitingC0"
  /\ c1 = NoByte /\ c2 = NoByte
  /\ armed = "read"
  /\ answered = FALSE
  /\ parsed = << >>
  /\ cut = FALSE

-----------------------------------------------------------------------------

\* Where the handler stands in the middle of a call of processData.
Progress == [hsState |-> hsState, pos |-> got, c1 |-> c1, c2 |-> c2]

processC0(h) ==
  IF peer = "badVersion" THEN [h EXCEPT !.hsState = "Failed"]
                          ELSE [h EXCEPT !.hsState = "WaitingC1", !.pos = @ + 1]

\* Mutant: C1 waits for a byte more than it has.
processC1Late(h) ==
  IF sent - h.pos <= P THEN h
  ELSE [h EXCEPT !.hsState = "WaitingC2", !.pos = @ + P, !.c1 = h.pos]

\* A packet that is not there completely is not consumed.
processC1(h) ==
  IF sent - h.pos < P THEN h
  ELSE [h EXCEPT !.hsState = "WaitingC2", !.pos = @ + P, !.c1 = h.pos]

\* The echo is that of S1 only if the bytes are C2 from its first on.
validateC2Echo(h) == peer # "badEcho" /\ h.pos = P + 1

\* Mutant: the echo is not looked at.
echoUnchecked(h) ==
  IF sent - h.pos < P THEN h
  ELSE [h EXCEPT !.hsState = "Complete", !.pos = @ + P, !.c2 = h.pos]

processC2(h) ==
  IF sent - h.pos < P THEN h
  ELSE IF ~validateC2Echo(h) THEN [h EXCEPT !.hsState = "Failed"]
  ELSE [h EXCEPT !.hsState = "Complete", !.pos = @ + P, !.c2 = h.pos]

\* One turn of the loop of processData, over the bytes up to sent.
processPacket(h) ==
  IF h.pos = sent \/ h.hsState \in {"Complete", "Failed"} THEN h
  ELSE CASE h.hsState = "WaitingC0" -> processC0(h)
         [] h.hsState = "WaitingC1" -> processC1(h)
         [] OTHER -> processC2(h)

\* There are three packets, so three turns are all of them.
processData == processPacket(processPacket(processPacket(Progress)))

Bytes(from, to) == [i \in 1 .. (to - from) |-> from + i - 1]

\* The positions where a packet of the handshake ends, or it is over.
PacketEnds == {1, 1 + P} \cup ((1 + 2 * P) .. Total)

\* A read of all there is.  A failure closes the connection; a response is
\* written before the next read; a complete handshake hands on what was read
\* beyond it; anything else reads again and forgets what was not consumed.
\* (No handshake completes with the read that is answered: the echo would be
\* of an S1 nobody has seen.)
processHandshake ==
  /\ armed = "read"
  /\ got < sent
  /\ hsState # "Complete"
  /\ LET h == processData
     IN  /\ hsState' = h.hsState
         /\ c1' = h.c1 /\ c2' = h.c2
         /\ armed' = CASE h.hsState = "Failed" -> "none"
                       [] c1 = NoByte /\ h.c1 # NoByte -> "write"
                       [] OTHER -> "read"
         /\ parsed' = IF h.hsState = "Complete" THEN Bytes(h.pos, sent) ELSE parsed
  /\ got' = sent
  /\ cut' = (cut \/ sent \notin PacketEnds)
  /\ UNCHANGED <<peer, sent, answered>>

handshakeWritten ==
  /\ armed = "write"
  /\ armed' = "read"
  /\ answered' = TRUE
  /\ UNCHANGED <<peer, sent, got, hsState, c1, c2, parsed, cut>>

\* Mutant: a read overwrites what was there.
readOverwrites ==
  /\ armed = "read"
  /\ got < sent
  /\ hsState = "Complete"
  /\ parsed' = Bytes(got, sent)
  /\ got' = sent
  /\ UNCHANGED <<peer, sent, hsState, c1, c2, armed, answered, cut>>

\* After the handshake bytes are kept until the chunk parser takes them.
handleRead ==
  /\ armed = "read"
  /\ got < sent
  /\ hsState = "Complete"
  /\ parsed' = parsed \o Bytes(got, sent)
  /\ got' = sent
  /\ UNCHANGED <<peer, sent, hsState, c1, c2, armed, answered, cut>>

\* The peer closes, or a read or a write fails.
connectionLost ==
  /\ armed # "none"
  /\ armed' = "none"
  /\ UNCHANGED <<peer, sent, got, hsState, c1, c2, answered, parsed, cut>>

\* The client sends more (external).
PeerSends ==
  /\ armed # "none"
  /\ sent' \in (sent + 1) .. (IF answered \/ peer = "badEcho" THEN Total ELSE 1 + P)
  /\ UNCHANGED <<peer, got, hsState, c1, c2, armed, answered, parsed, cut>>

ServerStep == processHandshake \/ handshakeWritten \/ handleRead

HandshakeNext == ServerStep \/ connectionLost \/ PeerSends

\* The event loop serves a socket that is ready.  Nothing makes the client
\* send: that it does is an assumption on the client.
ClientFairSpec ==
  HandshakeInit /\ [][HandshakeNext]_handshakeVars
    /\ WF_handshakeVars(ServerStep) /\ WF_handshakeVars(PeerSends)

-----------------------------------------------------------------------------

(***************************************************************************)
(* A handshake completes only for a client that echoed S1, with C1 and C2  *)
(* as the client sent them, however its bytes were cut into reads.         *)
(***************************************************************************)
OnlyEchoCompletes ==
  hsState = "Complete" => peer = "honest" /\ c1 = 1 /\ c2 = P + 1

(***************************************************************************)
(* The chunk parser gets every byte after C2, in order and once, whether   *)
(* it came with C2 in one read or later.                                   *)
(***************************************************************************)
DataIntact ==
  /\ \A i \in 1 .. Len(parsed) : parsed[i] = 2 * P + i
  /\ hsState = "Complete" => got = 1 + 2 * P + Len(parsed)

(***************************************************************************)
(* A valid C2 establishes the connection (requirement 1.4): the handshake  *)
(* of a client that sends C0, C1 and the echo of S1 completes unless the   *)
(* connection is lost, wherever TCP cuts the bytes.                        *)
(***************************************************************************)
EchoEstablishes == peer = "honest" ~> hsState = "Complete" \/ armed = "none"
=============================================================================
