----------------------------- MODULE NetworkPAL -----------------------------
(***************************************************************************)
(* pal::darwin::DarwinNetworkPAL, the network layer RTMPServer runs on:    *)
(* asynchronous operations are queued and installed once per turn of the   *)
(* event loop, one read and one write slot per file descriptor.            *)
(*                                                                         *)
(* A turn has two phases.  In "events" the ready descriptors of one kevent *)
(* call are handled and their callbacks run, which queue operations and    *)
(* close sockets; in "ops" the queue is installed.  All of it runs on the  *)
(* event-loop thread.  A descriptor is free again as soon as it is closed, *)
(* so one that is accepted later in the same turn can be the same number.  *)
(*                                                                         *)
(* The callbacks are RTMPServer's as far as they use the sockets: an       *)
(* accepted client is read from, a read may be answered with writes to     *)
(* this client and to its subscribers, after which the server reads again, *)
(* or closes the connection and reads again all the same.                  *)
(***************************************************************************)
EXTENDS Integers, Sequences, FiniteSets

CONSTANTS
  Conns,      \* client connections, in the order of nothing in particular
  Fds,        \* file descriptors of client sockets
  Server,     \* the descriptor of the listening socket
  MaxWrites,  \* bound: number of asyncWrite calls
  Parts,      \* number of write() calls it takes to send one buffer
  MaxBurst,   \* most writes one callback issues
  NoConn, NoFd, NoSocket

ASSUME PalAssumption ==
  /\ Server \notin Fds /\ NoFd \notin Fds \cup {Server} /\ NoConn \notin Conns
  /\ MaxWrites \in Nat /\ MaxBurst \in Nat
  /\ Parts \in Nat \ {0}

VARIABLES
  sockets,     \* sockets_: the SocketInfo of each client descriptor
  accepting,   \* acceptCallback of the listening socket is set
  pendingOps,  \* pendingOps_
  phase,       \* where in its turn the event loop is
  conn,        \* per connection: the descriptor its context holds, whether it
               \* is open, has sent something, can no longer be written to
  writeTo,     \* the connection each buffer was written for
  wire,        \* what was sent on each connection
  lastRead,    \* the callback of the last read and where its bytes came from
  breach       \* what the callbacks have done that the slots do not allow for

vars == <<sockets, accepting, pendingOps, phase, conn, writeTo, wire, lastRead,
          breach>>

\* A second write while one is outstanding; a close with a write queued.
Breaches == {"second write", "queued write"}

Writes == 1 .. MaxWrites
NoWrite == 0
SocketInfo == [conn   : Conns,                     \* whose socket this is
               reader : Conns \cup {NoConn},       \* whose readCallback is set
               writer : Writes \cup {NoWrite},     \* writeBuffer
               offset : 0 .. (Parts - 1)]          \* writeOffset
Op == [type : {"accept", "read", "write"}, fd : Fds \cup {Server},
       conn : Conns \cup {NoConn}, write : Writes \cup {NoWrite}]

ASSUME NoSocketAssumption == NoSocket \notin SocketInfo

TypeOK ==
  /\ sockets \in [Fds -> SocketInfo \cup {NoSocket}]
  /\ accepting \in BOOLEAN
  /\ pendingOps \in Seq(Op)
  /\ phase \in {"events", "ops"}
  /\ conn \in [Conns -> [fd : Fds \cup {NoFd}, open : BOOLEAN,
                    sent : BOOLEAN, broken : BOOLEAN]]
  /\ writeTo \in Seq(Conns)
  /\ Len(writeTo) <= MaxWrites
  /\ wire \in [Conns -> Seq([write : Writes, part : 1 .. Parts])]
  /\ lastRead \in [callback : Conns \cup {NoConn}, source : Conns \cup {NoConn}]
  /\ breach \subseteq Breaches

AcceptOp == [type |-> "accept", fd |-> Server, conn |-> NoConn, write |-> NoWrite]
ReadOp(c, fd) == [type |-> "read", fd |-> fd, conn |-> c, write |-> NoWrite]
WriteOp(c, w) == [type |-> "write", fd |-> conn[c].fd, conn |-> c, write |-> w]

\* The server has called startAccepting.
Init ==
  /\ sockets = [fd \in Fds |-> NoSocket]
  /\ accepting = FALSE
  /\ pendingOps = <<AcceptOp>>
  /\ phase = "events"
  /\ conn = [c \in Conns |-> [fd |-> NoFd, open |-> FALSE,
                         sent |-> FALSE, broken |-> FALSE]]
  /\ writeTo = << >>
  /\ wire = [c \in Conns |-> << >>]
  /\ lastRead = [callback |-> NoConn, source |-> NoConn]
  /\ breach = {}

-----------------------------------------------------------------------------

\* A buffer waiting in the queue for connection c.
Queued(c) ==
  \E i \in 1 .. Len(pendingOps) : pendingOps[i].type = "write" /\ pendingOps[i].conn = c

\* A buffer waiting to be sent to connection c, queued or in the slot.
Outstanding(c) ==
  \/ Queued(c)
  \/ /\ conn[c].open
     /\ sockets[conn[c].fd] # NoSocket
     /\ sockets[conn[c].fd].writer # NoWrite

\* closeSocket, for the descriptor the context of c holds.  Operations that
\* are queued or installed are dropped without a callback.
closeSocket(c) ==
  /\ sockets' = [sockets EXCEPT ![conn[c].fd] = NoSocket]
  /\ conn' = [conn EXCEPT ![c].open = FALSE, ![c].sent = FALSE]

Closing(queued) == IF queued THEN {"queued write"} ELSE {}

\* Mutant: an accepted client is not read from.
acceptNoRead(c) ==
  /\ phase = "events"
  /\ accepting
  /\ conn[c].fd = NoFd
  /\ accepting' = FALSE
  /\ \E fd \in Fds :
       /\ sockets[fd] = NoSocket
       /\ sockets' = [sockets EXCEPT ![fd] =
            [conn |-> c, reader |-> NoConn, writer |-> NoWrite, offset |-> 0]]
       /\ conn' = [conn EXCEPT ![c].fd = fd, ![c].open = TRUE]
       /\ pendingOps' = Append(pendingOps, AcceptOp)
  /\ UNCHANGED <<phase, writeTo, wire, lastRead, breach>>

\* A client connects; handleAccept reads from it and accepts the next one,
\* or turns it away because there are too many.
handleReadableServer(c) ==
  /\ phase = "events"
  /\ accepting
  /\ conn[c].fd = NoFd
  /\ accepting' = FALSE
  /\ \/ \E fd \in Fds :
          /\ sockets[fd] = NoSocket
          /\ sockets' = [sockets EXCEPT ![fd] =
               [conn |-> c, reader |-> NoConn, writer |-> NoWrite, offset |-> 0]]
          /\ conn' = [conn EXCEPT ![c].fd = fd, ![c].open = TRUE]
          /\ pendingOps' = pendingOps \o <<ReadOp(c, fd), AcceptOp>>
     \/ /\ pendingOps' = Append(pendingOps, AcceptOp)
        /\ UNCHANGED <<sockets, conn>>
  /\ UNCHANGED <<phase, writeTo, wire, lastRead, breach>>

\* Mutant: every buffer goes to the socket of the first connection.
WriteOpsFirst(to) ==
  [i \in 1 .. Len(to) |-> [WriteOp(to[i], Len(writeTo) + i) EXCEPT !.fd = conn[to[1]].fd]]

\* asyncWrite to each connection of a sequence, numbering the buffers.
WriteOps(to) == [i \in 1 .. Len(to) |-> WriteOp(to[i], Len(writeTo) + i)]

\* The connections a callback may write to; a context whose connection was
\* closed keeps its descriptor.
Bursts(r) ==
  UNION {[1 .. n -> {c \in Conns : conn[c].open \/ c = r}] :
           n \in 0 .. (IF MaxBurst < MaxWrites - Len(writeTo)
                       THEN MaxBurst ELSE MaxWrites - Len(writeTo))}

\* Does a callback that writes to these write where a write is outstanding?
Writing(to) ==
  IF \/ \E i \in 1 .. Len(to) : Outstanding(to[i])
     \/ \E i, j \in 1 .. Len(to) : i # j /\ to[i] = to[j]
  THEN {"second write"} ELSE {}

\* Data has arrived: the read callback r is taken out of its slot and run.
handleReadable(fd) ==
  /\ phase = "events"
  /\ sockets[fd] # NoSocket
  /\ sockets[fd].reader # NoConn
  /\ conn[sockets[fd].conn].sent
  /\ LET r == sockets[fd].reader
         source == sockets[fd].conn
     IN
     /\ lastRead' = [callback |-> r, source |-> source]
     /\ \E to \in Bursts(r) :
          /\ writeTo' = writeTo \o to
          /\ pendingOps' = pendingOps \o Append(WriteOps(to), ReadOp(r, conn[r].fd))
          /\ \/ /\ sockets' = [sockets EXCEPT ![fd].reader = NoConn]
                /\ conn' = [conn EXCEPT ![source].sent = FALSE]
                /\ breach' = breach \cup Writing(to)
             \/ /\ closeSocket(r)
                /\ breach' = breach \cup Writing(to)
                     \cup Closing(Queued(r) \/ \E i \in 1 .. Len(to) : to[i] = r)
  /\ UNCHANGED <<accepting, phase, wire>>

\* The peer closed or the read failed: the callback closes the connection.
handleReadableEnd(fd) ==
  /\ phase = "events"
  /\ sockets[fd] # NoSocket
  /\ sockets[fd].reader # NoConn
  /\ breach' = breach \cup Closing(Queued(sockets[fd].reader))
  /\ lastRead' = [callback |-> sockets[fd].reader, source |-> sockets[fd].conn]
  /\ closeSocket(sockets[fd].reader)
  /\ UNCHANGED <<accepting, pendingOps, phase, writeTo, wire>>

\* Sends a part; the slot is emptied or the offset set to next.
WritePart(fd, done, next) ==
  /\ phase = "events"
  /\ sockets[fd] # NoSocket
  /\ sockets[fd].writer # NoWrite
  /\ ~conn[sockets[fd].conn].broken
  /\ wire' = [wire EXCEPT ![sockets[fd].conn] =
                Append(@, [write |-> sockets[fd].writer, part |-> sockets[fd].offset + 1])]
  /\ sockets' = [sockets EXCEPT ![fd] = IF done
                                       THEN [@ EXCEPT !.writer = NoWrite, !.offset = 0]
                                       ELSE [@ EXCEPT !.offset = next]]
  /\ UNCHANGED <<accepting, pendingOps, phase, conn, writeTo, lastRead, breach>>

\* Mutant: a write that sent a part only is taken for complete.
writablePartial(fd) == WritePart(fd, TRUE, 0)

\* write() sends the next part of the buffer; after the last one the slot
\* is emptied and the callback run.
handleWritable(fd) ==
  WritePart(fd, sockets[fd].offset + 1 = Parts, sockets[fd].offset + 1)

\* write() fails, as it will from then on: the callback closes the
\* connection of its own context (a relay's callback does not).
handleWritableError(fd) ==
  /\ phase = "events"
  /\ sockets[fd] # NoSocket
  /\ sockets[fd].writer # NoWrite
  /\ \/ /\ closeSocket(writeTo[sockets[fd].writer])
        /\ breach' = breach \cup Closing(Queued(writeTo[sockets[fd].writer]))
     \/ /\ sockets' = [sockets EXCEPT ![fd].writer = NoWrite, ![fd].offset = 0]
        /\ conn' = [conn EXCEPT ![sockets[fd].conn].broken = TRUE]
        /\ UNCHANGED breach
  /\ UNCHANGED <<accepting, pendingOps, phase, writeTo, wire, lastRead>>

processEventsDone ==
  /\ phase = "events"
  /\ phase' = "ops"
  /\ UNCHANGED <<sockets, accepting, pendingOps, conn, writeTo, wire, lastRead, breach>>

\* Mutant: a read does not replace the one that is installed.
pendingReadKept ==
  /\ phase = "ops"
  /\ pendingOps # << >>
  /\ pendingOps' = Tail(pendingOps)
  /\ LET op == Head(pendingOps)
     IN  /\ accepting' = (accepting \/ op.type = "accept")
         /\ sockets' =
              CASE op.type = "accept" \/ sockets[op.fd] = NoSocket -> sockets
                [] op.type = "read" /\ sockets[op.fd] # NoSocket ->
                     [sockets EXCEPT ![op.fd].reader = IF @ = NoConn THEN op.conn ELSE @]
                [] op.type = "write" /\ sockets[op.fd] # NoSocket ->
                     [sockets EXCEPT ![op.fd].writer = op.write, ![op.fd].offset = 0]
  /\ UNCHANGED <<phase, conn, writeTo, wire, lastRead, breach>>

\* Installs the next queued operation: on a descriptor that is closed it is
\* dropped, on one that is in use it replaces what the slot held.
processPendingOp ==
  /\ phase = "ops"
  /\ pendingOps # << >>
  /\ pendingOps' = Tail(pendingOps)
  /\ LET op == Head(pendingOps)
     IN  \/ /\ op.type = "accept"
            /\ accepting' = TRUE
            /\ UNCHANGED sockets
         \/ /\ op.type = "read"
            /\ sockets' = IF sockets[op.fd] = NoSocket THEN sockets
                          ELSE [sockets EXCEPT ![op.fd].reader = op.conn]
            /\ UNCHANGED accepting
         \/ /\ op.type = "write"
            /\ sockets' = IF sockets[op.fd] = NoSocket THEN sockets
                          ELSE [sockets EXCEPT ![op.fd].writer = op.write,
                                               ![op.fd].offset = 0]
            /\ UNCHANGED accepting
  /\ UNCHANGED <<phase, conn, writeTo, wire, lastRead, breach>>

processPendingOpsDone ==
  /\ phase = "ops"
  /\ pendingOps = << >>
  /\ phase' = "events"
  /\ UNCHANGED <<sockets, accepting, pendingOps, conn, writeTo, wire, lastRead, breach>>

\* The peer of an open connection sends something (external).
PeerSends(c) ==
  /\ conn[c].open
  /\ ~conn[c].sent
  /\ conn' = [conn EXCEPT ![c].sent = TRUE]
  /\ UNCHANGED <<sockets, accepting, pendingOps, phase, writeTo, wire, lastRead, breach>>

Loop == processEventsDone \/ processPendingOp \/ processPendingOpsDone

Next ==
  \/ \E c \in Conns : handleReadableServer(c) \/ PeerSends(c)
  \/ \E fd \in Fds : \/ handleReadable(fd) \/ handleReadableEnd(fd)
                     \/ handleWritable(fd) \/ handleWritableError(fd)
  \/ Loop

\* The event loop keeps turning, and kqueue reports a descriptor that stays
\* ready in every turn: it is handled sooner or later.
Fairness ==
  /\ WF_vars(Loop)
  /\ \A fd \in Fds : SF_vars(handleReadable(fd)) /\ SF_vars(handleWritable(fd))

Spec == Init /\ [][Next]_vars
FairSpec == Spec /\ Fairness

-----------------------------------------------------------------------------

\* A read callback runs with bytes of its own connection.
ReadIsolated == lastRead.callback = lastRead.source

\* Bytes reach only the connection they were written for, as long as no
\* connection was closed with a write queued for it.
WritesIsolated ==
  "queued write" \notin breach =>
    \A c \in Conns : \A i \in 1 .. Len(wire[c]) : writeTo[wire[c][i].write] = c

(***************************************************************************)
(* Connections are isolated from each other.  A read or a write queued for *)
(* a socket that was closed meanwhile may find its descriptor in use by    *)
(* another client; a read must never be served from there, and a write is  *)
(* sent there only if the connection was closed with the write queued.     *)
(***************************************************************************)
TransfersIsolated == TypeOK /\ ReadIsolated /\ WritesIsolated

\* The bytes of two buffers are not mixed, and none stops halfway unless it is the last.
WireIntact(c) ==
  \A i \in 1 .. Len(wire[c]) :
    LET b == wire[c][i]
        a == IF i = 1 THEN [write |-> NoWrite, part |-> Parts] ELSE wire[c][i - 1]
    IN  \/ b.part = 1 /\ a.part = Parts
        \/ b.part = a.part + 1 /\ b.write = a.write

\* A buffer is queued, in the slot, or on the wire to its last part.
Kept(w) ==
  \/ \E i \in 1 .. Len(pendingOps) : pendingOps[i].write = w
  \/ \E fd \in Fds : sockets[fd] # NoSocket /\ sockets[fd].writer = w
  \/ \E i \in 1 .. Len(wire[writeTo[w]]) :
       wire[writeTo[w]][i] = [write |-> w, part |-> Parts]

\* The buffers written to a connection that works.
Deliverable == {w \in 1 .. Len(writeTo) : conn[writeTo[w]].open /\ ~conn[writeTo[w]].broken}

(***************************************************************************)
(* No buffer written to a connection that works is lost, and every buffer  *)
(* is sent whole and at once, as long as the callbacks write to a          *)
(* connection one buffer at a time.                                        *)
(***************************************************************************)
NoWriteLost ==
  breach = {} => (\A w \in Deliverable : Kept(w)) /\ \A c \in Conns : WireIntact(c)

(***************************************************************************)
(* asyncWrite reports when a buffer has been written or an error occurs,   *)
(* so every buffer written to a connection that works is still there or    *)
(* has been written, however many are.                                     *)
(***************************************************************************)
EveryWriteKept == \A w \in Deliverable : Kept(w)

(***************************************************************************)
(* What a client sends is read sooner or later, although reads are         *)
(* installed late and every callback empties its slot, as long as no       *)
(* connection was closed with a write queued for it.                       *)
(***************************************************************************)
DataServed ==
  \A c \in Conns : conn[c].sent ~> ~conn[c].sent \/ "queued write" \in breach
=============================================================================
