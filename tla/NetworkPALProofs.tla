-------------------------- MODULE NetworkPALProofs --------------------------
(***************************************************************************)
(* Proofs about NetworkPAL, for any number of connections, descriptors and *)
(* writes and any number of parts a buffer is sent in.                     *)
(***************************************************************************)
EXTENDS NetworkPAL, SequenceTheorems, TLAPS

Ops == 1 .. Len(pendingOps)
InUse(fd) == sockets[fd] # NoSocket
Owner(fd) == sockets[fd].conn

\* Is the i-th queued operation a read on fd, and for the connection that
\* has fd?
ReadAt(i, fd) == pendingOps[i].type = "read" /\ pendingOps[i].fd = fd
OwnRead(i, fd) == ReadAt(i, fd) /\ pendingOps[i].conn = Owner(fd)

(***************************************************************************)
(* A queued operation names a client socket and the connection it is for,  *)
(* and a write the buffer of that connection.                              *)
(***************************************************************************)
QueueInv ==
  \A i \in Ops :
    /\ pendingOps[i].type # "accept" => pendingOps[i].fd \in Fds /\ pendingOps[i].conn \in Conns
    /\ pendingOps[i].type = "write" => /\ pendingOps[i].write \in 1 .. Len(writeTo)
                                       /\ writeTo[pendingOps[i].write] = pendingOps[i].conn
    /\ pendingOps[i].type # "write" => pendingOps[i].write = NoWrite

(***************************************************************************)
(* A socket belongs to an open connection whose context holds it, and a    *)
(* context that holds none has not been used.                              *)
(***************************************************************************)
SocketInv ==
  /\ \A fd \in Fds : InUse(fd) =>
       /\ conn[Owner(fd)].fd = fd /\ conn[Owner(fd)].open
       /\ sockets[fd].writer # NoWrite => sockets[fd].writer \in 1 .. Len(writeTo)
       /\ sockets[fd].writer = NoWrite => sockets[fd].offset = 0
  /\ \A c \in Conns : conn[c].open => conn[c].fd \in Fds
  /\ \A c \in Conns : conn[c].fd = NoFd => Len(wire[c]) = 0
  /\ \A w \in 1 .. Len(writeTo) : conn[writeTo[w]].fd # NoFd
  /\ \A c \in Conns : \A i \in 1 .. Len(wire[c]) : wire[c][i].write \in 1 .. Len(writeTo)

(***************************************************************************)
(* A read that was queued for a socket closed since may be installed on    *)
(* the socket of another connection, but the read of that connection is    *)
(* behind it in the queue and replaces it before events are handled.       *)
(***************************************************************************)
ReadInv ==
  \A fd \in Fds : InUse(fd) =>
    /\ \A i \in Ops : ReadAt(i, fd) =>
         OwnRead(i, fd) \/ \E j \in Ops : j > i /\ OwnRead(j, fd)
    /\ \/ sockets[fd].reader \in {NoConn, Owner(fd)}
       \/ phase = "ops" /\ \E j \in Ops : OwnRead(j, fd)

(***************************************************************************)
(* Without a close that leaves a write in the queue, an open connection    *)
(* has its socket, and what is queued or installed goes to its own.        *)
(***************************************************************************)
WriteInv ==
  "queued write" \notin breach =>
    /\ \A c \in Conns : conn[c].open => InUse(conn[c].fd) /\ Owner(conn[c].fd) = c
    /\ \A fd \in Fds : InUse(fd) /\ sockets[fd].writer # NoWrite =>
         writeTo[sockets[fd].writer] = Owner(fd)
    /\ \A i \in Ops : pendingOps[i].type = "write" =>
         /\ conn[pendingOps[i].conn].open
         /\ pendingOps[i].fd = conn[pendingOps[i].conn].fd
    /\ WritesIsolated

PalInv == TypeOK /\ QueueInv /\ SocketInv /\ ReadInv /\ WriteInv

\* What is on the wire of c ends where the slot of its socket goes on.
WireUpTo(c, writer, offset) ==
  LET n == Len(wire[c])
  IN  \/ offset = 0 /\ (n = 0 \/ wire[c][n].part = Parts)
      \/ offset # 0 /\ n # 0 /\ wire[c][n] = [write |-> writer, part |-> offset]

(***************************************************************************)
(* Without any breach there is one buffer at a time for a connection, in   *)
(* the queue or in the slot, and the wire goes on where it stopped.        *)
(***************************************************************************)
SlotInv ==
  breach = {} =>
    /\ \A i, j \in Ops : /\ pendingOps[i].type = "write" /\ pendingOps[j].type = "write"
                         /\ pendingOps[i].conn = pendingOps[j].conn
                         => i = j
    /\ \A i \in Ops : pendingOps[i].type = "write" =>
         sockets[pendingOps[i].fd].writer = NoWrite
    /\ \A fd \in Fds : InUse(fd) /\ ~conn[Owner(fd)].broken =>
         WireUpTo(Owner(fd), sockets[fd].writer, sockets[fd].offset)
    /\ \A w \in Deliverable : Kept(w)
    /\ \A c \in Conns : WireIntact(c)

(***************************************************************************)
(* Where the members of a concatenation come from.                         *)
(***************************************************************************)
LEMMA Concatenation ==
  ASSUME NEW S, NEW s \in Seq(S), NEW t \in Seq(S), NEW u, u = s \o t
  PROVE  /\ u \in Seq(S)
         /\ Len(u) = Len(s) + Len(t)
         /\ \A i \in 1 .. Len(s) : u[i] = s[i]
         /\ \A i \in 1 .. Len(t) : u[Len(s) + i] = t[i]
OBVIOUS

(***************************************************************************)
(* What the types say of the members of the sequences and records.         *)
(***************************************************************************)
LEMMA Members ==
  ASSUME TypeOK
  PROVE  /\ \A i \in Ops : pendingOps[i] \in Op
         /\ \A fd \in Fds : InUse(fd) => sockets[fd] \in SocketInfo
         /\ \A w \in 1 .. Len(writeTo) : writeTo[w] \in Conns
         /\ Len(pendingOps) \in Nat /\ Len(writeTo) \in Nat
         /\ \A c \in Conns : conn[c] \in [fd : Fds \cup {NoFd}, open : BOOLEAN,
                                          sent : BOOLEAN, broken : BOOLEAN]
         /\ \A c \in Conns : Len(wire[c]) \in Nat
BY DEF TypeOK, Ops, InUse

(***************************************************************************)
(* closeSocket frees the descriptor its context holds and nothing else.    *)
(***************************************************************************)
LEMMA CloseEffect ==
  ASSUME PalInv, NEW c \in Conns, conn[c].fd \in Fds, closeSocket(c)
  PROVE  /\ sockets' \in [Fds -> SocketInfo \cup {NoSocket}]
         /\ conn' \in [Conns -> [fd : Fds \cup {NoFd}, open : BOOLEAN,
                                 sent : BOOLEAN, broken : BOOLEAN]]
         /\ \A fd \in Fds : InUse(fd)' =>
              /\ fd # conn[c].fd /\ InUse(fd) /\ Owner(fd) # c
              /\ sockets'[fd] = sockets[fd]
         /\ \A fd \in Fds : InUse(fd) /\ fd # conn[c].fd => sockets'[fd] = sockets[fd]
         /\ \A d \in Conns : /\ conn'[d].fd = conn[d].fd
                             /\ conn'[d].broken = conn[d].broken
                             /\ conn'[d].open => d # c /\ conn[d].open
                             /\ d # c => conn'[d] = conn[d]
<1>1. /\ sockets' = [sockets EXCEPT ![conn[c].fd] = NoSocket]
      /\ conn' = [conn EXCEPT ![c].open = FALSE, ![c].sent = FALSE]
  BY DEF closeSocket
<1>2. /\ sockets \in [Fds -> SocketInfo \cup {NoSocket}]
      /\ conn \in [Conns -> [fd : Fds \cup {NoFd}, open : BOOLEAN,
                             sent : BOOLEAN, broken : BOOLEAN]]
  BY DEF PalInv, TypeOK
<1>3. \A fd \in Fds : InUse(fd) /\ fd # conn[c].fd => Owner(fd) # c
  BY DEF PalInv, SocketInv
<1>4. \A fd \in Fds : InUse(fd)' =>
              /\ fd # conn[c].fd /\ InUse(fd) /\ Owner(fd) # c
              /\ sockets'[fd] = sockets[fd]
  BY <1>1, <1>2, <1>3 DEF InUse
<1>5. /\ sockets' \in [Fds -> SocketInfo \cup {NoSocket}]
      /\ \A fd \in Fds : InUse(fd) /\ fd # conn[c].fd => sockets'[fd] = sockets[fd]
  BY <1>1, <1>2
<1>6. conn' \in [Conns -> [fd : Fds \cup {NoFd}, open : BOOLEAN,
                                 sent : BOOLEAN, broken : BOOLEAN]]
  BY ZenonT(60), <1>1, <1>2
<1>7. \A d \in Conns : /\ conn'[d].fd = conn[d].fd
                       /\ conn'[d].broken = conn[d].broken
                       /\ conn'[d].open => d # c /\ conn[d].open
                       /\ d # c => conn'[d] = conn[d]
  BY <1>1, <1>2
<1> QED BY <1>4, <1>5, <1>6, <1>7

(***************************************************************************)
(* A callback's writes and its read are queued behind what is there, and   *)
(* every buffer gets a number of its own.                                  *)
(***************************************************************************)
LEMMA BurstQueued ==
  ASSUME PalInv, NEW r \in Conns, conn[r].fd \in Fds, NEW to \in Bursts(r),
         writeTo' = writeTo \o to,
         pendingOps' = pendingOps \o Append(WriteOps(to), ReadOp(r, conn[r].fd))
  PROVE  /\ to \in Seq(Conns)
         /\ \A i \in 1 .. Len(to) : conn[to[i]].open \/ to[i] = r
         /\ Len(writeTo) + Len(to) <= MaxWrites
         /\ writeTo' \in Seq(Conns)
         /\ Len(writeTo') = Len(writeTo) + Len(to)
         /\ \A w \in 1 .. Len(writeTo) : writeTo'[w] = writeTo[w]
         /\ \A i \in 1 .. Len(to) : writeTo'[Len(writeTo) + i] = to[i]
         /\ pendingOps' \in Seq(Op)
         /\ Len(pendingOps') = Len(pendingOps) + Len(to) + 1
         /\ \A i \in Ops : pendingOps'[i] = pendingOps[i]
         /\ \A i \in 1 .. Len(to) :
              pendingOps'[Len(pendingOps) + i] = WriteOp(to[i], Len(writeTo) + i)
         /\ pendingOps'[Len(pendingOps) + Len(to) + 1] = ReadOp(r, conn[r].fd)
<1>1. /\ pendingOps \in Seq(Op) /\ writeTo \in Seq(Conns)
      /\ Len(writeTo) \in Nat /\ Len(writeTo) <= MaxWrites /\ MaxWrites \in Nat /\ MaxBurst \in Nat
  BY PalAssumption DEF PalInv, TypeOK
<1>2. PICK n \in 0 .. (IF MaxBurst < MaxWrites - Len(writeTo)
                       THEN MaxBurst ELSE MaxWrites - Len(writeTo)) :
        to \in [1 .. n -> {c \in Conns : conn[c].open \/ c = r}]
  BY DEF Bursts
<1>3. n \in Nat /\ Len(writeTo) + n <= MaxWrites
  BY <1>1
<1>4. to \in Seq(Conns) /\ Len(to) = n
  BY <1>2, <1>3
<1>5. \A i \in 1 .. Len(to) : /\ conn[to[i]].open \/ to[i] = r
                              /\ to[i] \in Conns
  BY <1>2, <1>4
<1>6. \A i \in 1 .. n : WriteOp(to[i], Len(writeTo) + i) \in Op
  <2> SUFFICES ASSUME NEW i \in 1 .. n PROVE WriteOp(to[i], Len(writeTo) + i) \in Op
    OBVIOUS
  <2>1. conn[to[i]].fd \in Fds /\ to[i] \in Conns
    BY <1>4, <1>5 DEF PalInv, SocketInv
  <2>2. Len(writeTo) + i \in Writes
    BY <1>1, <1>3 DEF Writes
  <2> QED BY <2>1, <2>2 DEF WriteOp, Op
<1>7. ReadOp(r, conn[r].fd) \in Op
  BY DEF ReadOp, Op
<1> DEFINE ops == WriteOps(to)
<1>8. /\ ops \in Seq(Op) /\ Len(ops) = n
      /\ \A i \in 1 .. n : ops[i] = WriteOp(to[i], Len(writeTo) + i)
  BY <1>3, <1>4, <1>6 DEF WriteOps
<1> HIDE DEF ops
<1> DEFINE more == Append(ops, ReadOp(r, conn[r].fd))
<1>9. /\ more \in Seq(Op) /\ Len(more) = n + 1
      /\ \A i \in 1 .. n : more[i] = WriteOp(to[i], Len(writeTo) + i)
      /\ more[n + 1] = ReadOp(r, conn[r].fd)
  BY <1>3, <1>7, <1>8, AppendProperties
<1>10. pendingOps' = pendingOps \o more
  BY DEF ops
<1> HIDE DEF more
<1>11. /\ pendingOps' \in Seq(Op)
       /\ Len(pendingOps') = Len(pendingOps) + n + 1
       /\ \A i \in Ops : pendingOps'[i] = pendingOps[i]
       /\ \A i \in 1 .. (n + 1) : pendingOps'[Len(pendingOps) + i] = more[i]
  <2>0. pendingOps \in Seq(Op) /\ more \in Seq(Op)
    BY <1>1, <1>9
  <2>1. /\ pendingOps' \in Seq(Op)
        /\ Len(pendingOps') = Len(pendingOps) + Len(more)
        /\ \A i \in 1 .. Len(pendingOps) : pendingOps'[i] = pendingOps[i]
        /\ \A i \in 1 .. Len(more) : pendingOps'[Len(pendingOps) + i] = more[i]
    BY ONLY <2>0, <1>10, Concatenation
  <2>2. Len(pendingOps) + Len(more) = Len(pendingOps) + n + 1
    BY <1>1, <1>3, <1>9
  <2> QED BY <2>1, <2>2, <1>9 DEF Ops
<1>12. /\ writeTo' \in Seq(Conns)
       /\ Len(writeTo') = Len(writeTo) + n
       /\ \A w \in 1 .. Len(writeTo) : writeTo'[w] = writeTo[w]
       /\ \A i \in 1 .. n : writeTo'[Len(writeTo) + i] = to[i]
  <2>0. writeTo \in Seq(Conns) /\ to \in Seq(Conns) /\ writeTo' = writeTo \o to
    BY <1>1, <1>4
  <2>1. /\ writeTo' \in Seq(Conns)
        /\ Len(writeTo') = Len(writeTo) + Len(to)
        /\ \A i \in 1 .. Len(writeTo) : writeTo'[i] = writeTo[i]
        /\ \A i \in 1 .. Len(to) : writeTo'[Len(writeTo) + i] = to[i]
    BY ONLY <2>0, Concatenation
  <2> QED BY <2>1, <1>4
<1>13. /\ \A i \in 1 .. n : pendingOps'[Len(pendingOps) + i] = WriteOp(to[i], Len(writeTo) + i)
       /\ pendingOps'[Len(pendingOps) + n + 1] = ReadOp(r, conn[r].fd)
  BY SMTT(60), <1>1, <1>3, <1>9, <1>11
<1> QED BY <1>3, <1>4, <1>5, <1>11, <1>12, <1>13

(***************************************************************************)
(* A client that is accepted gets a free descriptor and a read of its own  *)
(* behind every read that is still queued for that descriptor.             *)
(***************************************************************************)
LEMMA AcceptStep ==
  ASSUME PalInv, NEW c \in Conns, handleReadableServer(c)
  PROVE  PalInv'
<1>p. TypeOK /\ pendingOps \in Seq(Op)
  BY DEF PalInv, TypeOK
<1>n. PICK n \in Nat : n = Len(pendingOps)
  BY <1>p
<1>t. /\ TypeOK /\ QueueInv /\ SocketInv /\ ReadInv /\ WriteInv
      /\ n \in Nat /\ n = Len(pendingOps)
  BY <1>n DEF PalInv
<1>m. /\ \A i \in 1 .. n : pendingOps[i] \in Op
      /\ \A fd \in Fds : InUse(fd) => sockets[fd] \in SocketInfo
      /\ \A d \in Conns : conn[d] \in [fd : Fds \cup {NoFd}, open : BOOLEAN,
                                       sent : BOOLEAN, broken : BOOLEAN]
  BY <1>t, Members DEF Ops
<1>a. AcceptOp \in Op
  BY DEF AcceptOp, Op
<1>u. /\ phase = "events" /\ phase' = phase /\ accepting' = FALSE
      /\ conn[c].fd = NoFd /\ ~conn[c].open
      /\ UNCHANGED <<writeTo, wire, lastRead, breach>>
  BY <1>t, PalAssumption DEF handleReadableServer, SocketInv
<1>w. \A fd \in Fds : InUse(fd) => Owner(fd) # c
  BY <1>t, <1>u, PalAssumption DEF SocketInv
<1>1. ASSUME NEW fd \in Fds, sockets[fd] = NoSocket,
             sockets' = [sockets EXCEPT ![fd] =
               [conn |-> c, reader |-> NoConn, writer |-> NoWrite, offset |-> 0]],
             conn' = [conn EXCEPT ![c].fd = fd, ![c].open = TRUE],
             pendingOps' = pendingOps \o <<ReadOp(c, fd), AcceptOp>>
      PROVE  PalInv'
  <2> DEFINE info == [conn |-> c, reader |-> NoConn, writer |-> NoWrite, offset |-> 0]
             more == <<ReadOp(c, fd), AcceptOp>>
  <2>1. info \in SocketInfo
    BY PalAssumption DEF SocketInfo, NoWrite
  <2>2. /\ info.conn = c /\ info.reader = NoConn /\ info.writer = NoWrite /\ info.offset = 0
        /\ info # NoSocket
    BY <2>1, NoSocketAssumption
  <2>3. sockets' = [sockets EXCEPT ![fd] = info]
    BY <1>1
  <2> HIDE DEF info
  <2>4. /\ sockets' \in [Fds -> SocketInfo \cup {NoSocket}]
        /\ sockets'[fd] = info
        /\ \A f \in Fds \ {fd} : sockets'[f] = sockets[f]
    BY <2>1, <2>3, <1>t DEF TypeOK
  <2>5. ReadOp(c, fd) \in Op
    BY DEF ReadOp, Op
  <2>6. more \in Seq(Op) /\ Len(more) = 2 /\ more[1] = ReadOp(c, fd) /\ more[2] = AcceptOp
    BY <2>5, <1>a
  <2>7. pendingOps' = pendingOps \o more
    BY <1>1
  <2> HIDE DEF more
  <2>s. more \in Seq(Op) /\ pendingOps \in Seq(Op)
    BY <1>p, <2>6
  <2>8. /\ pendingOps' \in Seq(Op)
        /\ Len(pendingOps') = Len(pendingOps) + Len(more)
        /\ \A i \in 1 .. Len(pendingOps) : pendingOps'[i] = pendingOps[i]
        /\ \A i \in 1 .. Len(more) : pendingOps'[Len(pendingOps) + i] = more[i]
    BY ONLY <2>s, <2>7, Concatenation
  <2>9. /\ Len(pendingOps') = n + 2
        /\ \A i \in 1 .. n : pendingOps'[i] = pendingOps[i]
        /\ pendingOps'[n + 1] = ReadOp(c, fd) /\ pendingOps'[n + 2] = AcceptOp
    BY <2>6, <2>8, <1>t
  <2>10. /\ conn' \in [Conns -> [fd : Fds \cup {NoFd}, open : BOOLEAN,
                                 sent : BOOLEAN, broken : BOOLEAN]]
         /\ conn'[c].fd = fd /\ conn'[c].open = TRUE
         /\ \A d \in Conns \ {c} : conn'[d] = conn[d]
    BY <1>1, <1>t DEF TypeOK
  <2>11. TypeOK'
    BY <2>4, <2>8, <2>10, <1>u, <1>t DEF TypeOK
  <2>i. \A i \in 1 .. (n + 2) : i \in 1 .. n \/ i = n + 1 \/ i = n + 2
    BY <1>t
  <2>r. /\ ReadOp(c, fd).type = "read" /\ ReadOp(c, fd).fd = fd
        /\ ReadOp(c, fd).conn = c /\ ReadOp(c, fd).write = NoWrite
        /\ AcceptOp.type = "accept" /\ AcceptOp.write = NoWrite
    BY DEF ReadOp, AcceptOp
  <2>12. QueueInv'
    BY <2>9, <2>i, <2>r, <1>u, <1>t DEF QueueInv, Ops
  <2>13. SocketInv'
    <3>1. \A f \in Fds : InUse(f)' =>
            /\ conn'[sockets'[f].conn].fd = f /\ conn'[sockets'[f].conn].open
            /\ sockets'[f].writer # NoWrite => sockets'[f].writer \in 1 .. Len(writeTo)
            /\ sockets'[f].writer = NoWrite => sockets'[f].offset = 0
      <4> SUFFICES ASSUME NEW f \in Fds, InUse(f)'
                   PROVE  /\ conn'[sockets'[f].conn].fd = f /\ conn'[sockets'[f].conn].open
                          /\ sockets'[f].writer # NoWrite => sockets'[f].writer \in 1 .. Len(writeTo)
                          /\ sockets'[f].writer = NoWrite => sockets'[f].offset = 0
        OBVIOUS
      <4>1. CASE f = fd
        BY <4>1, <2>2, <2>4, <2>10
      <4>2. CASE f # fd
        <5>1. sockets'[f] = sockets[f] /\ InUse(f) /\ sockets[f].conn \in Conns \ {c}
          BY <4>2, <2>4, <1>m, <1>w DEF InUse, Owner, SocketInfo
        <5> QED BY <5>1, <2>10, <1>t DEF SocketInv, Owner
      <4> QED BY <4>1, <4>2
    <3>2. /\ \A d \in Conns : conn'[d].open => conn'[d].fd \in Fds
          /\ \A d \in Conns : conn'[d].fd = NoFd => Len(wire[d]) = 0
          /\ \A w \in 1 .. Len(writeTo) : conn'[writeTo[w]].fd # NoFd
      <4>1. \A d \in Conns : conn'[d].open => conn'[d].fd \in Fds
        BY <2>10, <1>t DEF SocketInv
      <4>2. \A d \in Conns : conn'[d].fd = NoFd => d # c /\ conn'[d] = conn[d]
        BY <2>10, PalAssumption
      <4>3. \A w \in 1 .. Len(writeTo) : writeTo[w] \in Conns \ {c}
        BY <1>t, <1>u, Members DEF SocketInv
      <4>4. \A w \in 1 .. Len(writeTo) : conn'[writeTo[w]].fd # NoFd
        BY <4>3, <2>10, <1>t DEF SocketInv
      <4> QED BY <4>1, <4>2, <4>4, <1>t DEF SocketInv
    <3>3. \A d \in Conns : \A i \in 1 .. Len(wire[d]) : wire[d][i].write \in 1 .. Len(writeTo)
      BY <1>t DEF SocketInv
    <3> QED BY <3>1, <3>2, <3>3, <1>u DEF SocketInv, Owner
  <2>14. ReadInv'
    <3> SUFFICES ASSUME NEW f \in Fds, InUse(f)'
                 PROVE  /\ \A i \in 1 .. (n + 2) : ReadAt(i, f)' =>
                             OwnRead(i, f)' \/ \E j \in 1 .. (n + 2) : j > i /\ OwnRead(j, f)'
                        /\ sockets'[f].reader \in {NoConn, sockets'[f].conn}
      BY <2>9 DEF ReadInv, Ops, Owner
    <3>1. CASE f = fd
      <4>1. OwnRead(n + 1, f)'
        BY <3>1, <2>2, <2>4, <2>9, <2>r DEF OwnRead, ReadAt, Owner
      <4>2. ~ReadAt(n + 2, f)'
        BY <2>9, <2>r DEF ReadAt
      <4>3. \A i \in 1 .. n : n + 1 > i
        BY <1>t
      <4>4. n + 1 \in 1 .. (n + 2)
        BY <1>t
      <4>5. sockets'[f].reader = NoConn
        BY <3>1, <2>2, <2>4
      <4> QED BY <4>1, <4>2, <4>3, <4>4, <4>5, <2>i
    <3>2. CASE f # fd
      <4>1. sockets'[f] = sockets[f] /\ InUse(f)
        BY <3>2, <2>4 DEF InUse
      <4>2. \A i \in 1 .. n : (ReadAt(i, f)' <=> ReadAt(i, f)) /\ (OwnRead(i, f)' <=> OwnRead(i, f))
        BY <4>1, <2>9 DEF ReadAt, OwnRead, Owner
      <4>3. ~ReadAt(n + 1, f)' /\ ~ReadAt(n + 2, f)'
        BY <3>2, <2>9, <2>r DEF ReadAt
      <4>4. /\ \A i \in 1 .. n : ReadAt(i, f) =>
                 OwnRead(i, f) \/ \E j \in 1 .. n : j > i /\ OwnRead(j, f)
            /\ sockets[f].reader \in {NoConn, sockets[f].conn}
        BY <4>1, <1>t, <1>u DEF ReadInv, Ops, Owner
      <4>5. \A i \in 1 .. n : i \in 1 .. (n + 2)
        BY <1>t
      <4> QED BY <4>1, <4>2, <4>3, <4>4, <4>5, <2>i
    <3> QED BY <3>1, <3>2
  <2>15. WriteInv'
    <3> SUFFICES ASSUME "queued write" \notin breach
                 PROVE  WriteInv'
      BY <1>u DEF WriteInv
    <3>1. \A d \in Conns : conn'[d].open => InUse(conn[d].fd)' /\ sockets'[conn'[d].fd].conn = d
      <4> SUFFICES ASSUME NEW d \in Conns, conn'[d].open
                   PROVE  sockets'[conn'[d].fd] # NoSocket /\ sockets'[conn'[d].fd].conn = d
        BY DEF InUse
      <4>1. CASE d = c
        BY <4>1, <2>2, <2>4, <2>10
      <4>2. CASE d # c
        <5>1. conn'[d] = conn[d] /\ conn[d].fd \in Fds /\ InUse(conn[d].fd) /\ Owner(conn[d].fd) = d
          BY <4>2, <2>10, <1>t DEF WriteInv, SocketInv
        <5>2. conn[d].fd # fd
          BY <5>1, <1>1 DEF InUse
        <5> QED BY <5>1, <5>2, <2>4 DEF InUse, Owner
      <4> QED BY <4>1, <4>2
    <3>2. \A d \in Conns : conn'[d].open => InUse(conn[d].fd)' /\ Owner(conn[d].fd)' = d
      BY <3>1 DEF Owner
    <3>3. \A f \in Fds : InUse(f)' /\ sockets'[f].writer # NoWrite =>
            writeTo[sockets'[f].writer] = sockets'[f].conn
      BY <2>2, <2>4, <1>t DEF WriteInv, InUse, Owner
    <3>4. \A i \in 1 .. (n + 2) : pendingOps'[i].type = "write" =>
            /\ conn'[pendingOps'[i].conn].open
            /\ pendingOps'[i].fd = conn'[pendingOps'[i].conn].fd
      <4>1. \A i \in 1 .. n : pendingOps[i].type = "write" =>
              /\ pendingOps[i].conn \in Conns \ {c}
              /\ conn[pendingOps[i].conn].open
              /\ pendingOps[i].fd = conn[pendingOps[i].conn].fd
        BY <1>t, <1>u DEF WriteInv, QueueInv, Ops
      <4> SUFFICES ASSUME NEW i \in 1 .. (n + 2), pendingOps'[i].type = "write"
                   PROVE  /\ conn'[pendingOps'[i].conn].open
                          /\ pendingOps'[i].fd = conn'[pendingOps'[i].conn].fd
        OBVIOUS
      <4>2. i \in 1 .. n
        BY <2>9, <2>i, <2>r
      <4>3. pendingOps'[i] = pendingOps[i]
        BY <4>2, <2>9
      <4>4. /\ pendingOps[i].conn \in Conns \ {c}
            /\ conn[pendingOps[i].conn].open
            /\ pendingOps[i].fd = conn[pendingOps[i].conn].fd
        BY <4>1, <4>2, <4>3
      <4> QED BY <4>3, <4>4, <2>10
    <3>5. WritesIsolated'
      BY <1>u, <1>t DEF WriteInv, WritesIsolated
    <3> QED BY <3>2, <3>3, <3>4, <3>5, <1>u, <2>9 DEF WriteInv, Ops, Owner
  <2> QED BY <2>11, <2>12, <2>13, <2>14, <2>15 DEF PalInv
<1>2. ASSUME pendingOps' = Append(pendingOps, AcceptOp), UNCHANGED <<sockets, conn>>
      PROVE  PalInv'
  <2>1. /\ pendingOps' \in Seq(Op) /\ Len(pendingOps') = n + 1
        /\ \A i \in 1 .. n : pendingOps'[i] = pendingOps[i]
        /\ pendingOps'[n + 1] = AcceptOp
    BY ONLY <1>2, <1>a, <1>p, <1>n, AppendProperties
  <2>i. \A i \in 1 .. (n + 1) : i \in 1 .. n \/ i = n + 1
    BY <1>t
  <2>r. AcceptOp.type = "accept" /\ AcceptOp.write = NoWrite
    BY DEF AcceptOp
  <2>2. TypeOK'
    BY <2>1, <1>2, <1>u, <1>t DEF TypeOK
  <2>3. QueueInv'
    BY <2>1, <2>i, <2>r, <1>u, <1>t DEF QueueInv, Ops
  <2>4. SocketInv'
    BY <1>2, <1>u, <1>t DEF SocketInv, InUse, Owner
  <2>5. ReadInv'
    <3>1. \A f \in Fds, i \in 1 .. n :
            (ReadAt(i, f)' <=> ReadAt(i, f)) /\ (OwnRead(i, f)' <=> OwnRead(i, f))
      BY <2>1, <1>2 DEF ReadAt, OwnRead, Owner
    <3>2. \A f \in Fds : ~ReadAt(n + 1, f)'
      BY <2>1, <2>r DEF ReadAt
    <3>3. \A i \in 1 .. n : i \in 1 .. (n + 1)
      BY <1>t
    <3>4. \A f \in Fds : InUse(f) <=> InUse(f)'
      BY <1>2 DEF InUse
    <3> QED BY <3>1, <3>2, <3>3, <3>4, <2>1, <2>i, <1>2, <1>u, <1>t DEF ReadInv, Ops, Owner
  <2>6. WriteInv'
    BY <2>1, <2>i, <2>r, <1>2, <1>u, <1>t DEF WriteInv, WritesIsolated, Ops, InUse, Owner
  <2> QED BY <2>2, <2>3, <2>4, <2>5, <2>6 DEF PalInv
<1> QED BY <1>1, <1>2 DEF handleReadableServer

(***************************************************************************)
(* What the callbacks of reads and writes have in common: they queue       *)
(* operations for open connections and a read for the socket's owner,      *)
(* empty slots, and close connections.                                     *)
(***************************************************************************)
LEMMA CallbackStep ==
  ASSUME PalInv, phase = "events", phase' = phase, wire' = wire,
         accepting' = accepting, TypeOK', breach \subseteq breach',
         Len(pendingOps) <= Len(pendingOps'), Len(writeTo) <= Len(writeTo'),
         \A i \in Ops : pendingOps'[i] = pendingOps[i],
         \A w \in 1 .. Len(writeTo) : writeTo'[w] = writeTo[w],
         \A w \in 1 .. Len(writeTo') : conn[writeTo'[w]].fd # NoFd,
         \A i \in 1 .. Len(pendingOps') : i \notin Ops =>
           \/ /\ pendingOps'[i].type = "write" /\ pendingOps'[i].write \in 1 .. Len(writeTo')
              /\ writeTo'[pendingOps'[i].write] = pendingOps'[i].conn
              /\ pendingOps'[i].conn \in Conns /\ pendingOps'[i].fd \in Fds
              /\ pendingOps'[i].fd = conn[pendingOps'[i].conn].fd
           \/ /\ pendingOps'[i].type = "read" /\ pendingOps'[i].write = NoWrite
              /\ pendingOps'[i].conn \in Conns /\ pendingOps'[i].fd \in Fds
              /\ InUse(pendingOps'[i].fd) => pendingOps'[i].conn = Owner(pendingOps'[i].fd),
         \A fd \in Fds : InUse(fd)' =>
           /\ InUse(fd) /\ sockets'[fd].conn = sockets[fd].conn
           /\ \/ sockets'[fd].writer = sockets[fd].writer /\ sockets'[fd].offset = sockets[fd].offset
              \/ sockets'[fd].writer = NoWrite /\ sockets'[fd].offset = 0
           /\ sockets'[fd].reader \in {sockets[fd].reader, NoConn}
           /\ conn'[sockets[fd].conn].open,
         \A d \in Conns : conn'[d].fd = conn[d].fd /\ (conn'[d].open => conn[d].open),
         "queued write" \notin breach' =>
           /\ \A d \in Conns : conn'[d].open => InUse(conn[d].fd)'
           /\ \A i \in 1 .. Len(pendingOps') : pendingOps'[i].type = "write" =>
                conn'[pendingOps'[i].conn].open
  PROVE  PalInv'
<1>t. TypeOK /\ QueueInv /\ SocketInv /\ ReadInv /\ WriteInv
  BY DEF PalInv
<1>n. PICK n \in Nat : n = Len(pendingOps)
  BY <1>t, Members
<1>s. /\ pendingOps' \in Seq(Op) /\ writeTo' \in Seq(Conns)
      /\ Len(pendingOps) <= Len(pendingOps') /\ Len(writeTo) <= Len(writeTo')
  BY DEF TypeOK
<1>k. PICK k \in Nat : k = Len(pendingOps') /\ n <= k
  BY ONLY <1>s, <1>n
<1>l. PICK l \in Nat : l = Len(writeTo)
  BY <1>t, Members
<1>z. PICK z \in Nat : z = Len(writeTo') /\ l <= z
  BY ONLY <1>s, <1>l
<1>m. /\ \A fd \in Fds : InUse(fd) => sockets[fd] \in SocketInfo
      /\ \A w \in 1 .. l : writeTo[w] \in Conns
  BY <1>t, <1>l, Members
<1>i. \A i \in 1 .. k : i \in 1 .. n \/ (i \notin 1 .. n /\ i > n)
  BY ONLY <1>n, <1>k
<1>j. \A i \in 1 .. n : i \in 1 .. k
  BY ONLY <1>n, <1>k
<1>w. \A w \in 1 .. l : w \in 1 .. z
  BY ONLY <1>l, <1>z
<1>1. QueueInv'
  <2> SUFFICES ASSUME NEW i \in 1 .. k
               PROVE  /\ pendingOps'[i].type # "accept" =>
                           pendingOps'[i].fd \in Fds /\ pendingOps'[i].conn \in Conns
                      /\ pendingOps'[i].type = "write" =>
                           /\ pendingOps'[i].write \in 1 .. z
                           /\ writeTo'[pendingOps'[i].write] = pendingOps'[i].conn
                      /\ pendingOps'[i].type # "write" => pendingOps'[i].write = NoWrite
    BY <1>k, <1>z DEF QueueInv, Ops
  <2>1. CASE i \in 1 .. n
    <3>1. pendingOps'[i] = pendingOps[i] /\ i \in Ops
      BY <2>1, <1>n DEF Ops
    <3>2. /\ pendingOps[i].type # "accept" => pendingOps[i].fd \in Fds /\ pendingOps[i].conn \in Conns
          /\ pendingOps[i].type = "write" => /\ pendingOps[i].write \in 1 .. l
                                             /\ writeTo[pendingOps[i].write] = pendingOps[i].conn
          /\ pendingOps[i].type # "write" => pendingOps[i].write = NoWrite
      BY <3>1, <1>t, <1>l DEF QueueInv
    <3>3. \A w \in 1 .. l : writeTo'[w] = writeTo[w]
      BY <1>l
    <3> QED BY ONLY <3>1, <3>2, <3>3, <1>w
  <2>2. CASE i \notin 1 .. n
    BY <2>2, <1>n, <1>k, <1>z DEF Ops
  <2> QED BY <2>1, <2>2
<1>2. SocketInv'
  <2>1. \A fd \in Fds : InUse(fd)' =>
          /\ conn'[sockets'[fd].conn].fd = fd /\ conn'[sockets'[fd].conn].open
          /\ sockets'[fd].writer # NoWrite => sockets'[fd].writer \in 1 .. z
          /\ sockets'[fd].writer = NoWrite => sockets'[fd].offset = 0
    <3> SUFFICES ASSUME NEW fd \in Fds, InUse(fd)'
                 PROVE  /\ conn'[sockets'[fd].conn].fd = fd /\ conn'[sockets'[fd].conn].open
                        /\ sockets'[fd].writer # NoWrite => sockets'[fd].writer \in 1 .. z
                        /\ sockets'[fd].writer = NoWrite => sockets'[fd].offset = 0
      OBVIOUS
    <3>1. /\ sockets[fd].conn \in Conns /\ conn[sockets[fd].conn].fd = fd
          /\ sockets[fd].writer # NoWrite => sockets[fd].writer \in 1 .. l
          /\ sockets[fd].writer = NoWrite => sockets[fd].offset = 0
      BY <1>m, <1>t, <1>l DEF SocketInv, SocketInfo, Owner
    <3> QED BY <3>1, <1>w
  <2>2. /\ \A c \in Conns : conn'[c].open => conn'[c].fd \in Fds
        /\ \A c \in Conns : conn'[c].fd = NoFd => Len(wire[c]) = 0
    BY <1>t DEF SocketInv
  <2>3. \A w \in 1 .. z : conn'[writeTo'[w]].fd # NoFd
    <3>1. \A w \in 1 .. z : writeTo'[w] \in Conns
      BY ONLY <1>s, <1>z
    <3> QED BY <3>1, <1>z
  <2>4. \A c \in Conns : \A i \in 1 .. Len(wire[c]) : wire[c][i].write \in 1 .. z
    BY <1>t, <1>l, <1>w DEF SocketInv
  <2> QED BY <2>1, <2>2, <2>3, <2>4, <1>z DEF SocketInv, Owner
<1>3. ReadInv'
  <2> SUFFICES ASSUME NEW fd \in Fds, InUse(fd)'
               PROVE  /\ \A i \in 1 .. k : ReadAt(i, fd)' =>
                           OwnRead(i, fd)' \/ \E j \in 1 .. k : j > i /\ OwnRead(j, fd)'
                      /\ sockets'[fd].reader \in {NoConn, sockets'[fd].conn}
    BY <1>k DEF ReadInv, Ops, Owner
  <2>1. InUse(fd) /\ sockets'[fd].conn = sockets[fd].conn
    OBVIOUS
  <2>2. /\ \A i \in 1 .. n : ReadAt(i, fd) =>
             OwnRead(i, fd) \/ \E j \in 1 .. n : j > i /\ OwnRead(j, fd)
        /\ sockets[fd].reader \in {NoConn, sockets[fd].conn}
    BY <2>1, <1>t, <1>n DEF ReadInv, Ops, Owner
  <2>3. \A i \in 1 .. n : (ReadAt(i, fd)' <=> ReadAt(i, fd)) /\ (OwnRead(i, fd)' <=> OwnRead(i, fd))
    <3>1. \A i \in 1 .. n : pendingOps'[i] = pendingOps[i]
      BY <1>n DEF Ops
    <3> QED BY <3>1, <2>1 DEF ReadAt, OwnRead, Owner
  <2>4. \A i \in 1 .. k : i \notin 1 .. n /\ ReadAt(i, fd)' => OwnRead(i, fd)'
    BY <2>1, <1>k, <1>n DEF ReadAt, OwnRead, Owner, Ops
  <2>5. \A i \in 1 .. k : ReadAt(i, fd)' =>
                           OwnRead(i, fd)' \/ \E j \in 1 .. k : j > i /\ OwnRead(j, fd)'
    BY <2>2, <2>3, <2>4, <1>j
  <2> QED BY <2>1, <2>2, <2>5
<1>4. WriteInv'
  <2> SUFFICES ASSUME "queued write" \notin breach'
               PROVE  WriteInv'
    BY DEF WriteInv
  <2>q. "queued write" \notin breach
    OBVIOUS
  <2>1. \A c \in Conns : conn'[c].open =>
          sockets'[conn'[c].fd] # NoSocket /\ sockets'[conn'[c].fd].conn = c
    <3> SUFFICES ASSUME NEW c \in Conns, conn'[c].open
                 PROVE  sockets'[conn'[c].fd] # NoSocket /\ sockets'[conn'[c].fd].conn = c
      OBVIOUS
    <3>1. /\ conn'[c].fd = conn[c].fd /\ conn[c].open /\ conn[c].fd \in Fds
          /\ sockets[conn[c].fd].conn = c
      BY <1>t, <2>q DEF WriteInv, SocketInv, Owner
    <3>2. InUse(conn[c].fd)'
      OBVIOUS
    <3> QED BY ZenonT(60), <3>1, <3>2 DEF InUse
  <2>2. \A fd \in Fds : InUse(fd)' /\ sockets'[fd].writer # NoWrite =>
          writeTo'[sockets'[fd].writer] = sockets'[fd].conn
    <3> SUFFICES ASSUME NEW fd \in Fds, InUse(fd)', sockets'[fd].writer # NoWrite
                 PROVE  writeTo'[sockets'[fd].writer] = sockets'[fd].conn
      OBVIOUS
    <3>1. InUse(fd) /\ sockets'[fd].writer = sockets[fd].writer /\ sockets'[fd].conn = sockets[fd].conn
      OBVIOUS
    <3>2. sockets[fd].writer \in 1 .. l /\ writeTo[sockets[fd].writer] = sockets[fd].conn
      BY <3>1, <1>t, <1>l, <2>q DEF WriteInv, SocketInv, Owner
    <3> QED BY <3>1, <3>2, <1>l
  <2>3. \A i \in 1 .. k : pendingOps'[i].type = "write" =>
          /\ conn'[pendingOps'[i].conn].open
          /\ pendingOps'[i].fd = conn'[pendingOps'[i].conn].fd
    <3> SUFFICES ASSUME NEW i \in 1 .. k, pendingOps'[i].type = "write"
                 PROVE  /\ conn'[pendingOps'[i].conn].open
                        /\ pendingOps'[i].fd = conn'[pendingOps'[i].conn].fd
      OBVIOUS
    <3>1. conn'[pendingOps'[i].conn].open
      BY <1>k
    <3>2. CASE i \in 1 .. n
      <4>1. pendingOps'[i] = pendingOps[i] /\ i \in Ops
        BY <3>2, <1>n DEF Ops
      <4>2. pendingOps[i].conn \in Conns /\ pendingOps[i].fd = conn[pendingOps[i].conn].fd
        BY ZenonT(60), <4>1, <1>t, <2>q DEF QueueInv, WriteInv
      <4> QED BY <3>1, <4>1, <4>2
    <3>3. CASE i \notin 1 .. n
      BY <3>1, <3>3, <1>n, <1>k DEF Ops
    <3> QED BY <3>2, <3>3
  <2>4. WritesIsolated'
    <3> SUFFICES ASSUME NEW c \in Conns, NEW i \in 1 .. Len(wire[c])
                 PROVE  writeTo'[wire[c][i].write] = c
      BY DEF WritesIsolated
    <3>1. writeTo[wire[c][i].write] = c
      BY <1>t, <2>q DEF WriteInv, WritesIsolated
    <3>2. wire[c][i].write \in 1 .. l
      BY <1>t, <1>l DEF SocketInv
    <3> QED BY <3>1, <3>2, <1>l
  <2> QED BY <2>1, <2>2, <2>3, <2>4, <1>k DEF WriteInv, InUse, Owner, Ops
<1> QED BY <1>1, <1>2, <1>3, <1>4 DEF PalInv

(***************************************************************************)
(* While events are handled a read slot holds the callback of the          *)
(* connection whose socket it is.                                          *)
(***************************************************************************)
LEMMA ReaderIsOwner ==
  ASSUME PalInv, phase = "events", NEW fd \in Fds, InUse(fd),
         sockets[fd].reader # NoConn
  PROVE  /\ sockets[fd].reader = Owner(fd) /\ Owner(fd) \in Conns
         /\ conn[Owner(fd)].fd = fd /\ conn[Owner(fd)].open
BY Members DEF PalInv, ReadInv, SocketInv, Owner, SocketInfo

(***************************************************************************)
(* A read callback that goes on reading, whatever it wrote.                *)
(***************************************************************************)
LEMMA ReadStep ==
  ASSUME PalInv, NEW fd \in Fds, handleReadable(fd)
  PROVE  PalInv'
<1>r. PICK r \in Conns : r = sockets[fd].reader /\ r = sockets[fd].conn
        /\ conn[r].fd = fd /\ conn[r].open /\ InUse(fd) /\ phase = "events"
  BY ReaderIsOwner DEF handleReadable, InUse, Owner
<1>t. TypeOK /\ QueueInv /\ SocketInv /\ ReadInv /\ WriteInv
  BY DEF PalInv
<1>u. /\ lastRead' = [callback |-> r, source |-> r]
      /\ UNCHANGED <<accepting, phase, wire>>
  BY <1>r DEF handleReadable
<1>o. PICK to \in Bursts(r) :
        /\ writeTo' = writeTo \o to
        /\ pendingOps' = pendingOps \o Append(WriteOps(to), ReadOp(r, conn[r].fd))
        /\ \/ /\ sockets' = [sockets EXCEPT ![fd].reader = NoConn]
              /\ conn' = [conn EXCEPT ![r].sent = FALSE]
              /\ breach' = breach \cup Writing(to)
           \/ /\ closeSocket(r)
              /\ breach' = breach \cup Writing(to)
                   \cup Closing(Queued(r) \/ \E i \in 1 .. Len(to) : to[i] = r)
  BY <1>r DEF handleReadable
<1>b. /\ to \in Seq(Conns)
      /\ \A i \in 1 .. Len(to) : conn[to[i]].open \/ to[i] = r
      /\ Len(writeTo) + Len(to) <= MaxWrites
      /\ writeTo' \in Seq(Conns)
      /\ Len(writeTo') = Len(writeTo) + Len(to)
      /\ \A w \in 1 .. Len(writeTo) : writeTo'[w] = writeTo[w]
      /\ \A i \in 1 .. Len(to) : writeTo'[Len(writeTo) + i] = to[i]
      /\ pendingOps' \in Seq(Op)
      /\ Len(pendingOps') = Len(pendingOps) + Len(to) + 1
      /\ \A i \in Ops : pendingOps'[i] = pendingOps[i]
      /\ \A i \in 1 .. Len(to) :
           pendingOps'[Len(pendingOps) + i] = WriteOp(to[i], Len(writeTo) + i)
      /\ pendingOps'[Len(pendingOps) + Len(to) + 1] = ReadOp(r, conn[r].fd)
  <2>1. conn[r].fd \in Fds
    BY <1>r
  <2> QED BY <2>1, <1>o, BurstQueued
<1>n. PICK n \in Nat, m \in Nat, l \in Nat :
        n = Len(pendingOps) /\ m = Len(to) /\ l = Len(writeTo)
  <2>1. Len(pendingOps) \in Nat /\ Len(writeTo) \in Nat
    BY <1>t, Members
  <2>2. Len(to) \in Nat
    BY <1>b
  <2> QED BY <2>1, <2>2
<1>c. \A i \in 1 .. m : to[i] \in Conns /\ conn[to[i]].open
  BY <1>b, <1>n, <1>r
<1>q. /\ Len(pendingOps) <= Len(pendingOps') /\ Len(writeTo) <= Len(writeTo')
      /\ Len(writeTo') = l + m /\ Len(pendingOps') = n + m + 1
  BY <1>b, <1>n
<1>i. /\ \A i \in 1 .. (n + m + 1) : i \in 1 .. n \/ (\E j \in 1 .. m : i = n + j) \/ i = n + m + 1
      /\ \A w \in 1 .. (l + m) : w \in 1 .. l \/ (\E j \in 1 .. m : w = l + j)
  <2>1. \A i \in 1 .. (n + m + 1) : i \in 1 .. n \/ (i - n \in 1 .. m /\ i = n + (i - n)) \/ i = n + m + 1
    BY <1>n
  <2>2. \A w \in 1 .. (l + m) : w \in 1 .. l \/ (w - l \in 1 .. m /\ w = l + (w - l))
    BY <1>n
  <2> QED BY <2>1, <2>2
<1>f. \A j \in 1 .. m : /\ pendingOps'[n + j].type = "write"
                        /\ pendingOps'[n + j].write = l + j
                        /\ pendingOps'[n + j].conn = to[j]
                        /\ pendingOps'[n + j].fd = conn[to[j]].fd
                        /\ writeTo'[l + j] = to[j]
                        /\ l + j \in 1 .. (l + m)
  <2>1. \A j \in 1 .. m : pendingOps'[n + j] = WriteOp(to[j], l + j) /\ writeTo'[l + j] = to[j]
    BY <1>b, <1>n
  <2>2. \A j \in 1 .. m : l + j \in 1 .. (l + m)
    BY <1>n
  <2>3. \A c, w : /\ WriteOp(c, w).type = "write" /\ WriteOp(c, w).write = w
                  /\ WriteOp(c, w).conn = c /\ WriteOp(c, w).fd = conn[c].fd
    BY DEF WriteOp
  <2> QED BY <2>1, <2>2, <2>3
<1>g. /\ pendingOps'[n + m + 1].type = "read" /\ pendingOps'[n + m + 1].write = NoWrite
      /\ pendingOps'[n + m + 1].conn = r /\ pendingOps'[n + m + 1].fd = fd
  BY <1>b, <1>n, <1>r DEF ReadOp
<1>1. \A i \in 1 .. Len(pendingOps') : i \notin Ops =>
        \/ /\ pendingOps'[i].type = "write" /\ pendingOps'[i].write \in 1 .. Len(writeTo')
           /\ writeTo'[pendingOps'[i].write] = pendingOps'[i].conn
           /\ pendingOps'[i].conn \in Conns /\ pendingOps'[i].fd \in Fds
           /\ pendingOps'[i].fd = conn[pendingOps'[i].conn].fd
        \/ /\ pendingOps'[i].type = "read" /\ pendingOps'[i].write = NoWrite
           /\ pendingOps'[i].conn \in Conns /\ pendingOps'[i].fd \in Fds
           /\ InUse(pendingOps'[i].fd) => pendingOps'[i].conn = Owner(pendingOps'[i].fd)
  <2> SUFFICES ASSUME NEW i \in 1 .. (n + m + 1), i \notin 1 .. n
               PROVE  \/ /\ pendingOps'[i].type = "write" /\ pendingOps'[i].write \in 1 .. (l + m)
                         /\ writeTo'[pendingOps'[i].write] = pendingOps'[i].conn
                         /\ pendingOps'[i].conn \in Conns /\ pendingOps'[i].fd \in Fds
                         /\ pendingOps'[i].fd = conn[pendingOps'[i].conn].fd
                      \/ /\ pendingOps'[i].type = "read" /\ pendingOps'[i].write = NoWrite
                         /\ pendingOps'[i].conn \in Conns /\ pendingOps'[i].fd \in Fds
                         /\ InUse(pendingOps'[i].fd) => pendingOps'[i].conn = Owner(pendingOps'[i].fd)
    BY <1>n, <1>q DEF Ops
  <2>1. ASSUME NEW j \in 1 .. m, i = n + j
        PROVE  /\ pendingOps'[i].type = "write" /\ pendingOps'[i].write \in 1 .. (l + m)
               /\ writeTo'[pendingOps'[i].write] = pendingOps'[i].conn
               /\ pendingOps'[i].conn \in Conns /\ pendingOps'[i].fd \in Fds
               /\ pendingOps'[i].fd = conn[pendingOps'[i].conn].fd
    <3>1. conn[to[j]].fd \in Fds
      BY <1>c, <1>t DEF SocketInv
    <3> QED BY <3>1, <2>1, <1>f, <1>c
  <2>2. CASE i = n + m + 1
    BY <2>2, <1>g, <1>r DEF Owner
  <2> QED BY <2>1, <2>2, <1>i
<1>2. \A w \in 1 .. Len(writeTo') : conn[writeTo'[w]].fd # NoFd
  <2> SUFFICES ASSUME NEW w \in 1 .. (l + m) PROVE conn[writeTo'[w]].fd # NoFd
    BY <1>q
  <2>1. CASE w \in 1 .. l
    BY <2>1, <1>t, <1>b, <1>n DEF SocketInv
  <2>2. ASSUME NEW j \in 1 .. m, w = l + j PROVE conn[writeTo'[w]].fd # NoFd
    <3>1. conn[to[j]].fd \in Fds /\ NoFd \notin Fds
      BY <1>c, <1>t, PalAssumption DEF SocketInv
    <3> QED BY <3>1, <2>2, <1>f
  <2> QED BY <2>1, <2>2, <1>i
<1>3. breach' \subseteq Breaches /\ breach \subseteq breach'
  <2>1. breach \subseteq Breaches
    BY <1>t DEF TypeOK
  <2> QED BY <2>1, <1>o DEF Writing, Closing, Breaches
<1>4. ASSUME sockets' \in [Fds -> SocketInfo \cup {NoSocket}],
             conn' \in [Conns -> [fd : Fds \cup {NoFd}, open : BOOLEAN,
                                  sent : BOOLEAN, broken : BOOLEAN]]
      PROVE  TypeOK'
  <2>1. /\ lastRead' \in [callback : Conns \cup {NoConn}, source : Conns \cup {NoConn}]
        /\ Len(writeTo') <= MaxWrites
    BY <1>u, <1>b
  <2> QED BY <2>1, <1>4, <1>3, <1>b, <1>u, <1>t DEF TypeOK
<1>5. "queued write" \notin breach =>
        \A i \in 1 .. (n + m + 1) : pendingOps'[i].type = "write" =>
          /\ pendingOps'[i].conn \in Conns /\ conn[pendingOps'[i].conn].open
          /\ \/ \E j \in 1 .. m : pendingOps'[i].conn = to[j]
             \/ Queued(pendingOps'[i].conn)
  <2> SUFFICES ASSUME "queued write" \notin breach, NEW i \in 1 .. (n + m + 1),
                      pendingOps'[i].type = "write"
               PROVE  /\ pendingOps'[i].conn \in Conns /\ conn[pendingOps'[i].conn].open
                      /\ \/ \E j \in 1 .. m : pendingOps'[i].conn = to[j]
                         \/ Queued(pendingOps'[i].conn)
    OBVIOUS
  <2>1. CASE i \in 1 .. n
    <3>1. pendingOps'[i] = pendingOps[i] /\ i \in Ops
      BY <2>1, <1>b, <1>n DEF Ops
    <3> QED BY <3>1, <1>t DEF WriteInv, QueueInv, Queued, Ops
  <2>2. ASSUME NEW j \in 1 .. m, i = n + j
        PROVE  /\ pendingOps'[i].conn \in Conns /\ conn[pendingOps'[i].conn].open
               /\ pendingOps'[i].conn = to[j]
    BY <2>2, <1>f, <1>c
  <2>3. i # n + m + 1
    BY <1>g
  <2> QED BY <2>1, <2>2, <2>3, <1>i
<1>6. CASE /\ sockets' = [sockets EXCEPT ![fd].reader = NoConn]
           /\ conn' = [conn EXCEPT ![r].sent = FALSE]
           /\ breach' = breach \cup Writing(to)
  <2>1. sockets[fd] \in SocketInfo
    BY <1>r, <1>t, Members
  <2>2. [sockets[fd] EXCEPT !.reader = NoConn] \in SocketInfo
    BY <2>1 DEF SocketInfo
  <2>3. sockets' \in [Fds -> SocketInfo \cup {NoSocket}]
    BY <1>6, <2>2, <1>t DEF TypeOK
  <2>4. /\ conn' \in [Conns -> [fd : Fds \cup {NoFd}, open : BOOLEAN,
                                sent : BOOLEAN, broken : BOOLEAN]]
        /\ \A d \in Conns : conn'[d].fd = conn[d].fd /\ conn'[d].open = conn[d].open
    BY <1>6, <1>t DEF TypeOK
  <2>5. /\ \A f \in Fds : InUse(f)' <=> InUse(f)
        /\ \A f \in Fds : InUse(f) =>
             /\ sockets'[f].conn = sockets[f].conn
             /\ sockets'[f].writer = sockets[f].writer /\ sockets'[f].offset = sockets[f].offset
             /\ sockets'[f].reader \in {sockets[f].reader, NoConn}
    BY <1>6, <2>1, <2>2, <1>t, NoSocketAssumption DEF TypeOK, InUse, SocketInfo
  <2>6. \A f \in Fds : InUse(f) => conn'[sockets[f].conn].open
    BY <2>4, <1>t, Members DEF SocketInv, Owner, SocketInfo
  <2>7. "queued write" \notin breach' =>
           /\ \A d \in Conns : conn'[d].open => InUse(conn[d].fd)'
           /\ \A i \in 1 .. Len(pendingOps') : pendingOps'[i].type = "write" =>
                conn'[pendingOps'[i].conn].open
    <3> SUFFICES ASSUME "queued write" \notin breach'
                 PROVE  /\ \A d \in Conns : conn'[d].open => InUse(conn[d].fd)'
                        /\ \A i \in 1 .. (n + m + 1) : pendingOps'[i].type = "write" =>
                             conn'[pendingOps'[i].conn].open
      BY <1>q
    <3>1. "queued write" \notin breach
      BY <1>3
    <3>2. \A d \in Conns : conn'[d].open => sockets'[conn'[d].fd] # NoSocket
      BY ZenonT(60), <3>1, <2>4, <2>5, <1>t DEF WriteInv, SocketInv, InUse
    <3>3. \A i \in 1 .. (n + m + 1) : pendingOps'[i].type = "write" =>
                             conn'[pendingOps'[i].conn].open
      BY <3>1, <1>5, <2>4
    <3> QED BY <3>2, <3>3 DEF InUse
  <2>8. TypeOK'
    BY <1>4, <2>3, <2>4
  <2> QED BY <2>4, <2>5, <2>6, <2>7, <2>8, <1>1, <1>2, <1>3, <1>b, <1>q, <1>r, <1>u, CallbackStep
<1>7. CASE /\ closeSocket(r)
           /\ breach' = breach \cup Writing(to)
                \cup Closing(Queued(r) \/ \E i \in 1 .. Len(to) : to[i] = r)
  <2>1. /\ sockets' \in [Fds -> SocketInfo \cup {NoSocket}]
        /\ conn' \in [Conns -> [fd : Fds \cup {NoFd}, open : BOOLEAN,
                                sent : BOOLEAN, broken : BOOLEAN]]
        /\ \A f \in Fds : InUse(f)' =>
             /\ f # conn[r].fd /\ InUse(f) /\ Owner(f) # r
             /\ sockets'[f] = sockets[f]
        /\ \A f \in Fds : InUse(f) /\ f # conn[r].fd => sockets'[f] = sockets[f]
        /\ \A d \in Conns : /\ conn'[d].fd = conn[d].fd
                            /\ conn'[d].open => d # r /\ conn[d].open
                            /\ d # r => conn'[d] = conn[d]
    BY <1>7, <1>r, CloseEffect
  <2>2. \A f \in Fds : InUse(f)' => conn'[sockets[f].conn].open
    BY <2>1, <1>t, Members DEF SocketInv, Owner, SocketInfo
  <2>3. "queued write" \notin breach' =>
           /\ \A d \in Conns : conn'[d].open => InUse(conn[d].fd)'
           /\ \A i \in 1 .. Len(pendingOps') : pendingOps'[i].type = "write" =>
                conn'[pendingOps'[i].conn].open
    <3> SUFFICES ASSUME "queued write" \notin breach'
                 PROVE  /\ \A d \in Conns : conn'[d].open => InUse(conn[d].fd)'
                        /\ \A i \in 1 .. (n + m + 1) : pendingOps'[i].type = "write" =>
                             conn'[pendingOps'[i].conn].open
      BY <1>q
    <3>1. "queued write" \notin breach /\ ~Queued(r) /\ \A j \in 1 .. m : to[j] # r
      BY <1>7, <1>n DEF Closing
    <3>2. \A d \in Conns : conn'[d].open => sockets'[conn'[d].fd] # NoSocket
      <4> SUFFICES ASSUME NEW d \in Conns, conn'[d].open
                   PROVE  sockets'[conn[d].fd] # NoSocket
        BY <2>1
      <4>1. d # r /\ conn[d].open /\ conn[d].fd \in Fds /\ InUse(conn[d].fd) /\ Owner(conn[d].fd) = d
        BY <3>1, <2>1, <1>t DEF WriteInv, SocketInv
      <4>2. conn[d].fd # conn[r].fd
        BY <4>1, <1>r DEF Owner
      <4> QED BY <4>1, <4>2, <2>1 DEF InUse
    <3>3. \A i \in 1 .. (n + m + 1) : pendingOps'[i].type = "write" =>
                             conn'[pendingOps'[i].conn].open
      <4> SUFFICES ASSUME NEW i \in 1 .. (n + m + 1), pendingOps'[i].type = "write"
                   PROVE  conn'[pendingOps'[i].conn].open
        OBVIOUS
      <4>1. pendingOps'[i].conn \in Conns /\ conn[pendingOps'[i].conn].open /\ pendingOps'[i].conn # r
        BY <3>1, <1>5
      <4> QED BY <4>1, <2>1
    <3> QED BY <3>2, <3>3 DEF InUse
  <2>4. TypeOK'
    BY <1>4, <2>1
  <2> QED BY <2>1, <2>2, <2>3, <2>4, <1>1, <1>2, <1>3, <1>b, <1>q, <1>r, <1>u, CallbackStep
<1> QED BY <1>o, <1>6, <1>7

(***************************************************************************)
(* A callback that closes a connection and queues nothing.                 *)
(***************************************************************************)
LEMMA CloseStep ==
  ASSUME PalInv, phase = "events", NEW c \in Conns, conn[c].fd \in Fds, closeSocket(c),
         breach' = breach \cup Closing(Queued(c)),
         lastRead' \in [callback : Conns \cup {NoConn}, source : Conns \cup {NoConn}],
         UNCHANGED <<accepting, pendingOps, phase, writeTo, wire>>,
         "queued write" \notin breach => Owner(conn[c].fd) = c
  PROVE  PalInv'
<1>t. TypeOK /\ QueueInv /\ SocketInv /\ ReadInv /\ WriteInv
  BY DEF PalInv
<1>1. /\ sockets' \in [Fds -> SocketInfo \cup {NoSocket}]
      /\ conn' \in [Conns -> [fd : Fds \cup {NoFd}, open : BOOLEAN,
                              sent : BOOLEAN, broken : BOOLEAN]]
      /\ \A f \in Fds : InUse(f)' =>
           /\ f # conn[c].fd /\ InUse(f) /\ Owner(f) # c
           /\ sockets'[f] = sockets[f]
      /\ \A f \in Fds : InUse(f) /\ f # conn[c].fd => sockets'[f] = sockets[f]
      /\ \A d \in Conns : /\ conn'[d].fd = conn[d].fd
                          /\ conn'[d].open => d # c /\ conn[d].open
                          /\ d # c => conn'[d] = conn[d]
  BY ZenonT(60), CloseEffect
<1>2. \A f \in Fds : InUse(f)' => conn'[sockets[f].conn].open
  BY <1>1, <1>t, Members DEF SocketInv, Owner, SocketInfo
<1>3. breach' \subseteq Breaches /\ breach \subseteq breach'
  BY <1>t DEF TypeOK, Closing, Breaches
<1>4. TypeOK'
  BY <1>1, <1>3, <1>t DEF TypeOK
<1>5. "queued write" \notin breach' =>
         /\ \A d \in Conns : conn'[d].open => InUse(conn[d].fd)'
         /\ \A i \in 1 .. Len(pendingOps') : pendingOps'[i].type = "write" =>
              conn'[pendingOps'[i].conn].open
  <2> SUFFICES ASSUME "queued write" \notin breach'
               PROVE  /\ \A d \in Conns : conn'[d].open => sockets'[conn'[d].fd] # NoSocket
                      /\ \A i \in Ops : pendingOps[i].type = "write" =>
                           conn'[pendingOps[i].conn].open
    BY DEF InUse, Ops
  <2>1. "queued write" \notin breach /\ ~Queued(c) /\ Owner(conn[c].fd) = c
    BY DEF Closing
  <2>2. \A d \in Conns : conn'[d].open => sockets'[conn'[d].fd] # NoSocket
    <3> SUFFICES ASSUME NEW d \in Conns, conn'[d].open
                 PROVE  sockets'[conn[d].fd] # NoSocket
      BY ZenonT(60), <1>1
    <3>1. d # c /\ conn[d].open /\ conn[d].fd \in Fds /\ InUse(conn[d].fd) /\ Owner(conn[d].fd) = d
      BY <2>1, <1>1, <1>t DEF WriteInv, SocketInv
    <3>2. conn[d].fd # conn[c].fd
      BY <3>1, <2>1
    <3> QED BY <3>1, <3>2, <1>1 DEF InUse
  <2>3. ASSUME NEW i \in Ops, pendingOps[i].type = "write"
        PROVE  conn'[pendingOps[i].conn].open
    <3>1. pendingOps[i].conn \in Conns /\ conn[pendingOps[i].conn].open /\ pendingOps[i].conn # c
      BY <2>1, <2>3, <1>t DEF WriteInv, QueueInv, Queued, Ops
    <3> QED BY <3>1, <1>1
  <2> QED BY <2>2, <2>3
<1>6. /\ \A w \in 1 .. Len(writeTo') : conn[writeTo'[w]].fd # NoFd
      /\ Len(pendingOps) <= Len(pendingOps') /\ Len(writeTo) <= Len(writeTo')
      /\ \A i \in 1 .. Len(pendingOps') : i \in Ops
  <2>1. pendingOps' = pendingOps /\ writeTo' = writeTo
    OBVIOUS
  <2>2. Len(pendingOps) \in Nat /\ Len(writeTo) \in Nat
    BY <1>t, Members
  <2>3. \A w \in 1 .. Len(writeTo) : conn[writeTo[w]].fd # NoFd
    BY <1>t DEF SocketInv
  <2> QED BY ONLY <2>1, <2>2, <2>3 DEF Ops
<1> QED BY <1>1, <1>2, <1>3, <1>4, <1>5, <1>6, CallbackStep

(***************************************************************************)
(* The end of a read: the connection of the callback is closed.            *)
(***************************************************************************)
LEMMA EndStep ==
  ASSUME PalInv, NEW fd \in Fds, handleReadableEnd(fd)
  PROVE  PalInv'
<1>1. PICK r \in Conns : r = sockets[fd].reader /\ r = sockets[fd].conn
        /\ conn[r].fd = fd /\ phase = "events"
  BY ReaderIsOwner DEF handleReadableEnd, InUse, Owner
<1>2. /\ closeSocket(r) /\ breach' = breach \cup Closing(Queued(r))
      /\ lastRead' = [callback |-> r, source |-> r]
      /\ UNCHANGED <<accepting, pendingOps, phase, writeTo, wire>>
  BY <1>1 DEF handleReadableEnd
<1> QED BY <1>1, <1>2, CloseStep DEF Owner

(***************************************************************************)
(* A write that fails: the connection of its callback is closed, or the    *)
(* slot is emptied.                                                        *)
(***************************************************************************)
LEMMA ErrorStep ==
  ASSUME PalInv, NEW fd \in Fds, handleWritableError(fd)
  PROVE  PalInv'
<1>t. TypeOK /\ QueueInv /\ SocketInv /\ ReadInv /\ WriteInv
  BY DEF PalInv
<1>u. /\ phase = "events" /\ InUse(fd) /\ sockets[fd].writer # NoWrite
      /\ UNCHANGED <<accepting, pendingOps, phase, writeTo, wire, lastRead>>
  BY DEF handleWritableError, InUse
<1>w. /\ sockets[fd].writer \in 1 .. Len(writeTo) /\ writeTo[sockets[fd].writer] \in Conns
      /\ sockets[fd] \in SocketInfo /\ sockets[fd].conn \in Conns
  BY <1>t, <1>u, Members DEF SocketInv, SocketInfo
<1>1. CASE /\ closeSocket(writeTo[sockets[fd].writer])
           /\ breach' = breach \cup Closing(Queued(writeTo[sockets[fd].writer]))
  <2>1. PICK c \in Conns : c = writeTo[sockets[fd].writer]
    BY <1>w
  <2>2. conn[c].fd \in Fds
    BY <2>1, <1>w, <1>t DEF SocketInv, TypeOK
  <2>3. "queued write" \notin breach => Owner(conn[c].fd) = c
    <3>1. conn[sockets[fd].conn].fd = fd
      BY <1>t, <1>u DEF SocketInv, Owner
    <3>2. "queued write" \notin breach => c = sockets[fd].conn
      BY <2>1, <1>t, <1>u DEF WriteInv, Owner
    <3> QED BY <3>1, <3>2 DEF Owner
  <2>4. lastRead' \in [callback : Conns \cup {NoConn}, source : Conns \cup {NoConn}]
    BY <1>u, <1>t DEF TypeOK
  <2> QED BY <1>1, <1>u, <2>1, <2>2, <2>3, <2>4, CloseStep
<1>2. CASE /\ sockets' = [sockets EXCEPT ![fd].writer = NoWrite, ![fd].offset = 0]
           /\ conn' = [conn EXCEPT ![sockets[fd].conn].broken = TRUE]
           /\ UNCHANGED breach
  <2> DEFINE info == [sockets[fd] EXCEPT !.writer = NoWrite, !.offset = 0]
  <2>1. /\ info \in SocketInfo
        /\ info.writer = NoWrite /\ info.offset = 0 /\ info.conn = sockets[fd].conn
        /\ info.reader = sockets[fd].reader
    <3>1. 0 \in 0 .. (Parts - 1)
      BY PalAssumption
    <3>2. [sockets[fd] EXCEPT !.writer = 0, !.offset = 0] \in SocketInfo
      BY ONLY <3>1, <1>w DEF SocketInfo, NoWrite
    <3> QED BY ONLY <3>2, <1>w DEF SocketInfo, NoWrite
  <2>2. sockets' = [sockets EXCEPT ![fd] = info]
    BY <1>2
  <2> HIDE DEF info
  <2>3. /\ sockets' \in [Fds -> SocketInfo \cup {NoSocket}]
        /\ sockets'[fd] = info /\ \A f \in Fds \ {fd} : sockets'[f] = sockets[f]
        /\ \A f \in Fds : InUse(f)' <=> InUse(f)
    BY <2>1, <2>2, <1>t, <1>u, NoSocketAssumption DEF TypeOK, InUse
  <2>4. /\ conn' \in [Conns -> [fd : Fds \cup {NoFd}, open : BOOLEAN,
                                sent : BOOLEAN, broken : BOOLEAN]]
        /\ \A d \in Conns : conn'[d].fd = conn[d].fd /\ conn'[d].open = conn[d].open
    BY ZenonT(60), <1>2, <1>w, <1>t DEF TypeOK
  <2>5. TypeOK'
    BY <2>3, <2>4, <1>2, <1>u, <1>t DEF TypeOK
  <2>6. \A f \in Fds : InUse(f)' =>
           /\ InUse(f) /\ sockets'[f].conn = sockets[f].conn
           /\ \/ sockets'[f].writer = sockets[f].writer /\ sockets'[f].offset = sockets[f].offset
              \/ sockets'[f].writer = NoWrite /\ sockets'[f].offset = 0
           /\ sockets'[f].reader \in {sockets[f].reader, NoConn}
           /\ conn'[sockets[f].conn].open
    <3> SUFFICES ASSUME NEW f \in Fds, InUse(f)
                 PROVE  /\ sockets'[f].conn = sockets[f].conn
                        /\ \/ sockets'[f].writer = sockets[f].writer /\ sockets'[f].offset = sockets[f].offset
                           \/ sockets'[f].writer = NoWrite /\ sockets'[f].offset = 0
                        /\ sockets'[f].reader \in {sockets[f].reader, NoConn}
                        /\ conn'[sockets[f].conn].open
      BY <2>3
    <3>1. conn'[sockets[f].conn].open
      BY <2>4, <1>t, Members DEF SocketInv, Owner, SocketInfo
    <3> QED BY <3>1, <2>1, <2>3
  <2>7. "queued write" \notin breach' =>
           /\ \A d \in Conns : conn'[d].open => InUse(conn[d].fd)'
           /\ \A i \in 1 .. Len(pendingOps') : pendingOps'[i].type = "write" =>
                conn'[pendingOps'[i].conn].open
    <3> SUFFICES ASSUME "queued write" \notin breach
                 PROVE  /\ \A d \in Conns : conn'[d].open => sockets'[conn'[d].fd] # NoSocket
                        /\ \A i \in Ops : pendingOps[i].type = "write" =>
                             conn'[pendingOps[i].conn].open
      BY <1>2, <1>u DEF InUse, Ops
    <3>1. \A d \in Conns : conn'[d].open => sockets'[conn'[d].fd] # NoSocket
      <4> SUFFICES ASSUME NEW d \in Conns, conn'[d].open
                   PROVE  InUse(conn[d].fd)' /\ conn'[d].fd = conn[d].fd
        BY DEF InUse
      <4>1. conn[d].open /\ conn'[d].fd = conn[d].fd
        BY <2>4
      <4>2. conn[d].fd \in Fds /\ InUse(conn[d].fd)
        BY <4>1, <1>t DEF WriteInv, SocketInv
      <4>3. sockets'[conn[d].fd] # NoSocket
        BY <4>2, <2>3 DEF InUse
      <4> QED BY <4>1, <4>3 DEF InUse
    <3>2. \A i \in Ops : pendingOps[i].type = "write" => conn'[pendingOps[i].conn].open
      BY <2>4, <1>t DEF WriteInv, QueueInv
    <3> QED BY <3>1, <3>2
  <2>8. /\ \A w \in 1 .. Len(writeTo') : conn[writeTo'[w]].fd # NoFd
        /\ Len(pendingOps) <= Len(pendingOps') /\ Len(writeTo) <= Len(writeTo')
        /\ \A i \in 1 .. Len(pendingOps') : i \in Ops
    BY <1>t, <1>u, Members DEF SocketInv, Ops
  <2> QED BY <2>4, <2>5, <2>6, <2>7, <2>8, <1>2, <1>u, CallbackStep
<1> QED BY <1>1, <1>2 DEF handleWritableError
(***************************************************************************)
(* write() sends a part: it is one of the buffer in the slot, which is a   *)
(* buffer of the socket's owner unless a connection was closed with a      *)
(* write queued.                                                           *)
(***************************************************************************)
LEMMA WriteStep ==
  ASSUME PalInv, NEW fd \in Fds, handleWritable(fd)
  PROVE  PalInv'
<1>t. TypeOK /\ QueueInv /\ SocketInv /\ ReadInv /\ WriteInv
  BY DEF PalInv
<1>u. /\ InUse(fd) /\ sockets[fd].writer # NoWrite
      /\ UNCHANGED <<accepting, pendingOps, phase, conn, writeTo, lastRead, breach>>
  BY DEF handleWritable, WritePart, InUse
<1>w. /\ sockets[fd] \in SocketInfo /\ sockets[fd].writer \in 1 .. Len(writeTo)
      /\ sockets[fd].writer \in Writes /\ sockets[fd].conn \in Conns
      /\ sockets[fd].offset \in 0 .. (Parts - 1)
  BY <1>t, <1>u, Members DEF SocketInv, SocketInfo
<1>b. PICK b : b = [write |-> sockets[fd].writer, part |-> sockets[fd].offset + 1]
  OBVIOUS
<1>c. PICK c \in Conns : c = sockets[fd].conn
  BY <1>w
<1>1. b \in [write : Writes, part : 1 .. Parts] /\ b.write = sockets[fd].writer
  <2>1. sockets[fd].offset + 1 \in 1 .. Parts
    BY <1>w, PalAssumption
  <2> QED BY <2>1, <1>b, <1>w
<1>2. /\ wire' \in [Conns -> Seq([write : Writes, part : 1 .. Parts])]
      /\ wire'[c] = Append(wire[c], b)
      /\ \A d \in Conns \ {c} : wire'[d] = wire[d]
  <2>1. wire \in [Conns -> Seq([write : Writes, part : 1 .. Parts])]
    BY <1>t DEF TypeOK
  <2>2. wire' = [wire EXCEPT ![c] = Append(wire[c], b)]
    BY <1>b, <1>c DEF handleWritable, WritePart
  <2>3. Append(wire[c], b) \in Seq([write : Writes, part : 1 .. Parts])
    <3>1. wire[c] \in Seq([write : Writes, part : 1 .. Parts])
      BY <2>1
    <3> QED BY ONLY <3>1, <1>1, AppendProperties
  <2> QED BY <2>1, <2>2, <2>3
<1>3. /\ Len(wire'[c]) = Len(wire[c]) + 1 /\ Len(wire[c]) \in Nat
      /\ \A i \in 1 .. Len(wire[c]) : wire'[c][i] = wire[c][i]
      /\ wire'[c][Len(wire[c]) + 1] = b
  <2>1. wire[c] \in Seq([write : Writes, part : 1 .. Parts])
    BY <1>t DEF TypeOK
  <2> QED BY ONLY <2>1, <1>1, <1>2
<1>4. PICK info \in SocketInfo :
        /\ sockets' = [sockets EXCEPT ![fd] = info]
        /\ info.conn = sockets[fd].conn /\ info.reader = sockets[fd].reader
        /\ \/ info.writer = NoWrite /\ info.offset = 0
           \/ info.writer = sockets[fd].writer
  <2>1. CASE sockets[fd].offset + 1 = Parts
    <3> DEFINE info == [sockets[fd] EXCEPT !.writer = NoWrite, !.offset = 0]
    <3>1. 0 \in 0 .. (Parts - 1)
      BY PalAssumption
    <3>2. info \in SocketInfo
      BY ONLY <3>1, <1>w DEF SocketInfo, NoWrite
    <3>3. /\ info.conn = sockets[fd].conn /\ info.reader = sockets[fd].reader
          /\ info.writer = NoWrite /\ info.offset = 0
      BY ONLY <1>w DEF SocketInfo, NoWrite
    <3>4. sockets' = [sockets EXCEPT ![fd] = info]
      BY <2>1 DEF handleWritable, WritePart
    <3> QED BY <3>2, <3>3, <3>4
  <2>2. CASE sockets[fd].offset + 1 # Parts
    <3> DEFINE info == [sockets[fd] EXCEPT !.offset = sockets[fd].offset + 1]
    <3>1. sockets[fd].offset + 1 \in 0 .. (Parts - 1)
      BY <2>2, <1>w, PalAssumption
    <3>2. info \in SocketInfo
      BY ONLY <3>1, <1>w DEF SocketInfo
    <3>3. /\ info.conn = sockets[fd].conn /\ info.reader = sockets[fd].reader
          /\ info.writer = sockets[fd].writer
      BY ONLY <1>w DEF SocketInfo
    <3>4. sockets' = [sockets EXCEPT ![fd] = info]
      BY <2>2 DEF handleWritable, WritePart
    <3> QED BY <3>2, <3>3, <3>4
  <2> QED BY <2>1, <2>2
<1>5. /\ sockets' \in [Fds -> SocketInfo \cup {NoSocket}]
      /\ \A f \in Fds : InUse(f)' <=> InUse(f)
      /\ sockets'[fd] = info /\ \A f \in Fds \ {fd} : sockets'[f] = sockets[f]
  BY <1>4, <1>t, <1>u, NoSocketAssumption DEF TypeOK, InUse
<1>6. \A f \in Fds : InUse(f) =>
        /\ sockets'[f].conn = sockets[f].conn /\ sockets'[f].reader = sockets[f].reader
        /\ \/ sockets'[f].writer = NoWrite /\ sockets'[f].offset = 0
           \/ sockets'[f].writer = sockets[f].writer /\ f = fd
           \/ sockets'[f] = sockets[f]
  BY <1>4, <1>5
<1>7. TypeOK'
  BY <1>2, <1>5, <1>u, <1>t DEF TypeOK
<1>8. QueueInv'
  BY <1>u, <1>t DEF QueueInv, Ops
<1>9. ReadInv'
  <2>1. \A f \in Fds : InUse(f)' => InUse(f) /\ sockets'[f].conn = sockets[f].conn
                                    /\ sockets'[f].reader = sockets[f].reader
    BY <1>5, <1>6
  <2> QED BY <2>1, <1>u, <1>t DEF ReadInv, ReadAt, OwnRead, Owner, Ops
<1>10. \A d \in Conns : \A i \in 1 .. Len(wire'[d]) :
         \/ i \in 1 .. Len(wire[d]) /\ wire'[d][i] = wire[d][i]
         \/ d = c /\ wire'[d][i] = b
  <2> SUFFICES ASSUME NEW d \in Conns, NEW i \in 1 .. Len(wire'[d])
               PROVE  \/ i \in 1 .. Len(wire[d]) /\ wire'[d][i] = wire[d][i]
                      \/ d = c /\ wire'[d][i] = b
    OBVIOUS
  <2>1. CASE d # c
    BY <2>1, <1>2
  <2>2. CASE d = c
    BY ONLY <2>2, <1>3, i \in 1 .. Len(wire'[d])
  <2> QED BY <2>1, <2>2
<1>11. SocketInv'
  <2>1. \A f \in Fds : InUse(f)' =>
          /\ conn[sockets'[f].conn].fd = f /\ conn[sockets'[f].conn].open
          /\ sockets'[f].writer # NoWrite => sockets'[f].writer \in 1 .. Len(writeTo)
          /\ sockets'[f].writer = NoWrite => sockets'[f].offset = 0
    BY <1>5, <1>6, <1>w, <1>u, <1>t DEF SocketInv, Owner
  <2>2. \A d \in Conns : conn[d].fd = NoFd => Len(wire'[d]) = 0
    <3>1. conn[c].fd # NoFd
      BY <1>c, <1>u, <1>t, PalAssumption DEF SocketInv, Owner
    <3> QED BY <3>1, <1>2, <1>t DEF SocketInv
  <2>3. \A d \in Conns : \A i \in 1 .. Len(wire'[d]) : wire'[d][i].write \in 1 .. Len(writeTo)
    <3>1. \A d \in Conns : \A i \in 1 .. Len(wire[d]) : wire[d][i].write \in 1 .. Len(writeTo)
      BY <1>t DEF SocketInv
    <3>2. b.write \in 1 .. Len(writeTo)
      BY <1>1, <1>w
    <3> QED BY ONLY <3>1, <3>2, <1>10
  <2> QED BY <2>1, <2>2, <2>3, <1>u, <1>t DEF SocketInv, InUse, Owner
<1>12. WriteInv'
  <2> SUFFICES ASSUME "queued write" \notin breach
               PROVE  /\ \A d \in Conns : conn[d].open => InUse(conn[d].fd)' /\ sockets'[conn[d].fd].conn = d
                      /\ \A f \in Fds : InUse(f)' /\ sockets'[f].writer # NoWrite =>
                           writeTo[sockets'[f].writer] = sockets'[f].conn
                      /\ \A i \in Ops : pendingOps[i].type = "write" =>
                           /\ conn[pendingOps[i].conn].open
                           /\ pendingOps[i].fd = conn[pendingOps[i].conn].fd
                      /\ \A d \in Conns : \A i \in 1 .. Len(wire'[d]) : writeTo[wire'[d][i].write] = d
    BY <1>u DEF WriteInv, WritesIsolated, Ops, Owner, InUse
  <2>1. \A d \in Conns : conn[d].open => InUse(conn[d].fd)' /\ sockets'[conn[d].fd].conn = d
    <3> SUFFICES ASSUME NEW d \in Conns, conn[d].open
                 PROVE  sockets'[conn[d].fd] # NoSocket /\ sockets'[conn[d].fd].conn = d
      BY <1>u DEF InUse
    <3>1. conn[d].fd \in Fds /\ InUse(conn[d].fd) /\ sockets[conn[d].fd].conn = d
      BY <1>t DEF WriteInv, SocketInv, Owner
    <3> QED BY <3>1, <1>5, <1>6 DEF InUse
  <2>2. \A f \in Fds : InUse(f)' /\ sockets'[f].writer # NoWrite =>
                           writeTo[sockets'[f].writer] = sockets'[f].conn
    BY <1>5, <1>6, <1>u, <1>t DEF WriteInv, Owner
  <2>3. \A d \in Conns : \A i \in 1 .. Len(wire'[d]) : writeTo[wire'[d][i].write] = d
    <3>1. writeTo[b.write] = c
      BY <1>1, <1>c, <1>u, <1>t DEF WriteInv, Owner
    <3>2. \A d \in Conns : \A i \in 1 .. Len(wire[d]) : writeTo[wire[d][i].write] = d
      BY <1>t DEF WriteInv, WritesIsolated
    <3> QED BY <3>1, <3>2, <1>10
  <2> QED BY <2>1, <2>2, <2>3, <1>t DEF WriteInv
<1> QED BY <1>7, <1>8, <1>9, <1>11, <1>12 DEF PalInv
(***************************************************************************)
(* Installing the operation at the head of the queue: a read for another   *)
(* connection than the socket's has the owner's behind it, and a write is  *)
(* for the socket's owner unless a connection was closed with a write      *)
(* queued.                                                                 *)
(***************************************************************************)
LEMMA InstallStep ==
  ASSUME PalInv, processPendingOp
  PROVE  PalInv'
<1>t. TypeOK /\ QueueInv /\ SocketInv /\ ReadInv /\ WriteInv
  BY DEF PalInv
<1>u. /\ phase = "ops" /\ pendingOps # << >> /\ pendingOps' = Tail(pendingOps)
      /\ UNCHANGED <<phase, conn, writeTo, wire, lastRead, breach>>
  BY DEF processPendingOp
<1>n. PICK n \in Nat : n = Len(pendingOps)
  BY <1>t, Members
<1>1. /\ n >= 1 /\ pendingOps' \in Seq(Op) /\ Len(pendingOps') = n - 1
      /\ Head(pendingOps) = pendingOps[1]
      /\ \A i \in 1 .. (n - 1) : pendingOps'[i] = pendingOps[i + 1]
  <2>1. pendingOps \in Seq(Op)
    BY <1>t DEF TypeOK
  <2> QED BY ONLY <2>1, <1>u, <1>n, HeadTailProperties
<1>2. /\ \A i \in 1 .. (n - 1) : i + 1 \in 1 .. n
      /\ \A j \in 2 .. n : j - 1 \in 1 .. (n - 1) /\ pendingOps'[j - 1] = pendingOps[j]
      /\ \A j \in 1 .. n : j = 1 \/ j \in 2 .. n
      /\ 1 \in 1 .. n
  BY ONLY <1>1, <1>n
<1>o. PICK op \in Op : op = pendingOps[1]
  BY <1>t, <1>n, <1>2, Members DEF Ops
<1>3. /\ op.type # "accept" => op.fd \in Fds /\ op.conn \in Conns
      /\ op.type = "write" => op.write \in 1 .. Len(writeTo) /\ writeTo[op.write] = op.conn
  BY <1>o, <1>n, <1>2, <1>t DEF QueueInv, Ops
<1>4. /\ sockets' \in [Fds -> SocketInfo \cup {NoSocket}] /\ accepting' \in BOOLEAN
      /\ \A f \in Fds : InUse(f)' <=> InUse(f)
      /\ \A f \in Fds : InUse(f) =>
           /\ sockets'[f].conn = sockets[f].conn
           /\ \/ sockets'[f].reader = sockets[f].reader /\ ~(op.type = "read" /\ op.fd = f)
              \/ sockets'[f].reader = op.conn /\ op.type = "read" /\ op.fd = f
           /\ \/ sockets'[f].writer = sockets[f].writer /\ sockets'[f].offset = sockets[f].offset
              \/ /\ sockets'[f].writer = op.write /\ sockets'[f].offset = 0
                 /\ op.type = "write" /\ op.fd = f
  <2>s. sockets \in [Fds -> SocketInfo \cup {NoSocket}] /\ accepting \in BOOLEAN
    BY <1>t DEF TypeOK
  <2>h. Head(pendingOps) = op
    BY <1>1, <1>o
  <2>1. CASE op.type = "accept"
    <3>1. sockets' = sockets /\ accepting' = TRUE
      BY <2>1, <2>h DEF processPendingOp
    <3> QED BY <2>1, <2>s, <3>1 DEF InUse
  <2>2. CASE op.type = "read" /\ sockets[op.fd] = NoSocket
    <3>1. sockets' = sockets /\ accepting' = accepting
      BY <2>2, <2>h DEF processPendingOp
    <3> QED BY <2>2, <2>s, <3>1 DEF InUse
  <2>3. CASE op.type = "read" /\ sockets[op.fd] # NoSocket
    <3> DEFINE info == [sockets[op.fd] EXCEPT !.reader = op.conn]
    <3>1. sockets' = [sockets EXCEPT ![op.fd] = info] /\ accepting' = accepting
      BY <2>3, <2>h DEF processPendingOp
    <3>2. sockets[op.fd] \in SocketInfo /\ op.fd \in Fds /\ op.conn \in Conns
      BY <2>3, <1>3, <2>s
    <3>3. info \in SocketInfo
      BY ONLY <3>2 DEF SocketInfo
    <3>4. /\ info.conn = sockets[op.fd].conn /\ info.reader = op.conn
          /\ info.writer = sockets[op.fd].writer /\ info.offset = sockets[op.fd].offset
      BY ONLY <3>2 DEF SocketInfo
    <3> HIDE DEF info
    <3>5. /\ sockets' \in [Fds -> SocketInfo \cup {NoSocket}]
          /\ sockets'[op.fd] = info /\ \A f \in Fds \ {op.fd} : sockets'[f] = sockets[f]
      BY ONLY <3>1, <3>2, <3>3, <2>s
    <3>6. \A f \in Fds : InUse(f)' <=> InUse(f)
      BY <3>3, <3>5, <2>3, NoSocketAssumption DEF InUse
    <3> QED BY <3>1, <3>4, <3>5, <3>6, <2>3, <2>s
  <2>4. CASE op.type = "write" /\ sockets[op.fd] = NoSocket
    <3>1. sockets' = sockets /\ accepting' = accepting
      BY <2>4, <2>h DEF processPendingOp
    <3> QED BY <2>4, <2>s, <3>1 DEF InUse
  <2>5. CASE op.type = "write" /\ sockets[op.fd] # NoSocket
    <3> DEFINE info == [sockets[op.fd] EXCEPT !.writer = op.write, !.offset = 0]
    <3>1. sockets' = [sockets EXCEPT ![op.fd] = info] /\ accepting' = accepting
      BY <2>5, <2>h DEF processPendingOp
    <3>2. /\ sockets[op.fd] \in SocketInfo /\ op.fd \in Fds
          /\ op.write \in Writes \cup {NoWrite} /\ 0 \in 0 .. (Parts - 1)
      BY <2>5, <1>3, <2>s, PalAssumption DEF Op
    <3>3. info \in SocketInfo
      BY ONLY <3>2 DEF SocketInfo
    <3>4. /\ info.conn = sockets[op.fd].conn /\ info.writer = op.write
          /\ info.reader = sockets[op.fd].reader /\ info.offset = 0
      BY ONLY <3>2 DEF SocketInfo
    <3> HIDE DEF info
    <3>5. /\ sockets' \in [Fds -> SocketInfo \cup {NoSocket}]
          /\ sockets'[op.fd] = info /\ \A f \in Fds \ {op.fd} : sockets'[f] = sockets[f]
      BY ONLY <3>1, <3>2, <3>3, <2>s
    <3>6. \A f \in Fds : InUse(f)' <=> InUse(f)
      BY <3>3, <3>5, <2>5, NoSocketAssumption DEF InUse
    <3> QED BY <3>1, <3>4, <3>5, <3>6, <2>5, <2>s
  <2> QED BY <2>1, <2>2, <2>3, <2>4, <2>5 DEF Op
<1>5. TypeOK'
  BY <1>1, <1>4, <1>u, <1>t DEF TypeOK
<1>6. QueueInv'
  <2>1. \A i \in 1 .. (n - 1) : pendingOps'[i] = pendingOps[i + 1] /\ i + 1 \in Ops
    BY <1>1, <1>2, <1>n DEF Ops
  <2> QED BY <2>1, <1>1, <1>u, <1>t DEF QueueInv, Ops
<1>7. SocketInv'
  <2>1. \A f \in Fds : InUse(f)' =>
          /\ conn[sockets'[f].conn].fd = f /\ conn[sockets'[f].conn].open
          /\ sockets'[f].writer # NoWrite => sockets'[f].writer \in 1 .. Len(writeTo)
          /\ sockets'[f].writer = NoWrite => sockets'[f].offset = 0
    BY <1>3, <1>4, <1>t DEF SocketInv, Owner
  <2> QED BY <2>1, <1>u, <1>t DEF SocketInv, InUse, Owner
<1>8. ReadInv'
  <2> SUFFICES ASSUME NEW f \in Fds, InUse(f)
               PROVE  /\ \A i \in 1 .. (n - 1) : ReadAt(i, f)' =>
                           OwnRead(i, f)' \/ \E j \in 1 .. (n - 1) : j > i /\ OwnRead(j, f)'
                      /\ \/ sockets'[f].reader = sockets[f].conn
                         \/ sockets'[f].reader = NoConn
                         \/ \E j \in 1 .. (n - 1) : OwnRead(j, f)'
    BY <1>1, <1>4, <1>u DEF ReadInv, Ops, Owner
  <2>o. sockets'[f].conn = sockets[f].conn
    BY <1>4
  <2>1. \A j \in 2 .. n : OwnRead(j, f) => OwnRead(j - 1, f)'
    <3> SUFFICES ASSUME NEW j \in 2 .. n, OwnRead(j, f) PROVE OwnRead(j - 1, f)'
      OBVIOUS
    <3>1. pendingOps'[j - 1] = pendingOps[j]
      BY <1>2
    <3> QED BY <3>1, <2>o DEF OwnRead, ReadAt, Owner
  <2>2. ASSUME NEW i \in 1 .. (n - 1), ReadAt(i, f)'
        PROVE  OwnRead(i, f)' \/ \E j \in 1 .. (n - 1) : j > i /\ OwnRead(j, f)'
    <3>1. i + 1 \in 2 .. n /\ i + 1 \in Ops /\ pendingOps'[i] = pendingOps[i + 1]
      BY <1>1, <1>2, <1>n DEF Ops
    <3>2. ReadAt(i + 1, f)
      BY <3>1, <2>2 DEF ReadAt
    <3>3. CASE OwnRead(i + 1, f)
      BY <3>3, <3>1, <2>o DEF OwnRead, ReadAt, Owner
    <3>4. CASE \E j \in Ops : j > i + 1 /\ OwnRead(j, f)
      <4>1. PICK j \in 1 .. n : j > i + 1 /\ OwnRead(j, f)
        BY <3>4, <1>n DEF Ops
      <4>2. j \in 2 .. n /\ j - 1 > i /\ j - 1 \in 1 .. (n - 1)
        BY ONLY <4>1, <3>1, i \in 1 .. (n - 1), <1>n
      <4>3. OwnRead(j - 1, f)'
        BY <4>1, <4>2, <2>1
      <4> QED BY <4>2, <4>3
    <3> QED BY <3>1, <3>2, <3>3, <3>4, <1>t DEF ReadInv
  <2>3. \/ sockets'[f].reader = sockets[f].conn
        \/ sockets'[f].reader = NoConn
        \/ \E j \in 1 .. (n - 1) : OwnRead(j, f)'
    <3>1. CASE op.type = "read" /\ op.fd = f /\ op.conn # sockets[f].conn
      <4>1. ReadAt(1, f) /\ ~OwnRead(1, f) /\ 1 \in Ops
        BY <3>1, <1>o, <1>2, <1>n DEF ReadAt, OwnRead, Owner, Ops
      <4>2. PICK j \in Ops : j > 1 /\ OwnRead(j, f)
        BY <4>1, <1>t DEF ReadInv
      <4>3. j \in 2 .. n /\ j - 1 \in 1 .. (n - 1)
        BY <4>2, <1>n DEF Ops
      <4> QED BY <4>2, <4>3, <2>1
    <3>2. CASE op.type = "read" /\ op.fd = f /\ op.conn = sockets[f].conn
      BY <3>2, <1>4
    <3>3. CASE ~(op.type = "read" /\ op.fd = f)
      <4>1. sockets'[f].reader = sockets[f].reader /\ ~OwnRead(1, f)
        BY <3>3, <1>4, <1>o DEF OwnRead, ReadAt
      <4>2. CASE \E j \in Ops : OwnRead(j, f)
        <5>1. PICK j \in Ops : OwnRead(j, f)
          BY <4>2
        <5>2. j \in 2 .. n
          BY <5>1, <4>1, <1>2, <1>n DEF Ops
        <5> QED BY <5>1, <5>2, <2>1, <1>2
      <4> QED BY <4>1, <4>2, <1>t DEF ReadInv, Owner
    <3> QED BY <3>1, <3>2, <3>3
  <2> QED BY <2>2, <2>3
<1>9. WriteInv'
  <2> SUFFICES ASSUME "queued write" \notin breach
               PROVE  /\ \A d \in Conns : conn[d].open => InUse(conn[d].fd)' /\ sockets'[conn[d].fd].conn = d
                      /\ \A f \in Fds : InUse(f)' /\ sockets'[f].writer # NoWrite =>
                           writeTo[sockets'[f].writer] = sockets'[f].conn
                      /\ \A i \in 1 .. (n - 1) : pendingOps'[i].type = "write" =>
                           /\ conn[pendingOps'[i].conn].open
                           /\ pendingOps'[i].fd = conn[pendingOps'[i].conn].fd
                      /\ \A d \in Conns : \A i \in 1 .. Len(wire[d]) : writeTo[wire[d][i].write] = d
    BY <1>1, <1>u DEF WriteInv, WritesIsolated, Ops, Owner, InUse
  <2>1. \A d \in Conns : conn[d].open => InUse(conn[d].fd)' /\ sockets'[conn[d].fd].conn = d
    <3> SUFFICES ASSUME NEW d \in Conns, conn[d].open
                 PROVE  sockets'[conn[d].fd] # NoSocket /\ sockets'[conn[d].fd].conn = d
      BY <1>u DEF InUse
    <3>1. conn[d].fd \in Fds /\ InUse(conn[d].fd) /\ sockets[conn[d].fd].conn = d
      BY <1>t DEF WriteInv, SocketInv, Owner
    <3> QED BY <3>1, <1>4 DEF InUse
  <2>2. ASSUME NEW f \in Fds, InUse(f), sockets'[f].writer # NoWrite
        PROVE  writeTo[sockets'[f].writer] = sockets'[f].conn
    <3>1. CASE op.type = "write" /\ op.fd = f /\ sockets'[f].writer = op.write
      <4>1. op.conn \in Conns /\ conn[op.conn].open /\ f = conn[op.conn].fd
        BY <3>1, <1>3, <1>o, <1>2, <1>n, <1>t DEF WriteInv, Ops
      <4>2. sockets[f].conn = op.conn
        BY <4>1, <1>t DEF WriteInv, Owner
      <4> QED BY <4>2, <3>1, <1>3, <1>4, <2>2
    <3>2. CASE sockets'[f].writer = sockets[f].writer
      BY ZenonT(60), <3>2, <2>2, <1>4, <1>t DEF WriteInv, Owner
    <3> QED BY <3>1, <3>2, <2>2, <1>4
  <2>3. \A i \in 1 .. (n - 1) : pendingOps'[i].type = "write" =>
                           /\ conn[pendingOps'[i].conn].open
                           /\ pendingOps'[i].fd = conn[pendingOps'[i].conn].fd
    <3>1. \A i \in 1 .. (n - 1) : pendingOps'[i] = pendingOps[i + 1] /\ i + 1 \in Ops
      BY <1>1, <1>2, <1>n DEF Ops
    <3>2. \A k \in Ops : pendingOps[k].type = "write" =>
             /\ conn[pendingOps[k].conn].open
             /\ pendingOps[k].fd = conn[pendingOps[k].conn].fd
      BY <1>t DEF WriteInv
    <3> QED BY ONLY <3>1, <3>2
  <2> QED BY <2>1, <2>2, <2>3, <1>4, <1>t DEF WriteInv, WritesIsolated
<1> QED BY <1>5, <1>6, <1>7, <1>8, <1>9 DEF PalInv

(***************************************************************************)
(* A peer that sends something, and the ends of the two phases of a turn:  *)
(* events are handled again only when the queue is empty, so a slot that   *)
(* holds the read of another connection is gone by then.                   *)
(***************************************************************************)
LEMMA TurnStep ==
  ASSUME PalInv,
         (\E c \in Conns : PeerSends(c)) \/ processEventsDone \/ processPendingOpsDone
  PROVE  PalInv'
<1>t. TypeOK /\ QueueInv /\ SocketInv /\ ReadInv /\ WriteInv
  BY DEF PalInv
<1>1. ASSUME NEW c \in Conns, PeerSends(c) PROVE PalInv'
  <2>1. /\ conn' \in [Conns -> [fd : Fds \cup {NoFd}, open : BOOLEAN,
                                sent : BOOLEAN, broken : BOOLEAN]]
        /\ \A d \in Conns : conn'[d].fd = conn[d].fd /\ conn'[d].open = conn[d].open
    BY <1>1, <1>t DEF PeerSends, TypeOK
  <2>u. UNCHANGED <<sockets, accepting, pendingOps, phase, writeTo, wire, lastRead, breach>>
    BY <1>1 DEF PeerSends
  <2>m. /\ \A fd \in Fds : InUse(fd) => Owner(fd) \in Conns
        /\ \A w \in 1 .. Len(writeTo) : writeTo[w] \in Conns
        /\ \A i \in Ops : pendingOps[i].type = "write" => pendingOps[i].conn \in Conns
    BY <1>t, Members DEF Owner, SocketInfo, QueueInv
  <2>2. TypeOK'
    BY <2>1, <2>u, <1>t DEF TypeOK
  <2>3. QueueInv' /\ ReadInv'
    BY <2>u, <1>t DEF QueueInv, ReadInv, ReadAt, OwnRead, Ops, InUse, Owner
  <2>4. SocketInv'
    BY <2>1, <2>u, <2>m, <1>t DEF SocketInv, InUse, Owner
  <2>5. WriteInv'
    <3>1. \A d \in Conns : conn'[d].open => conn[d].open /\ conn'[d].fd = conn[d].fd
      BY <2>1
    <3>2. \A i \in Ops : pendingOps[i].type = "write" =>
             /\ conn'[pendingOps[i].conn].fd = conn[pendingOps[i].conn].fd
             /\ conn'[pendingOps[i].conn].open = conn[pendingOps[i].conn].open
      BY <2>1, <2>m
    <3> QED BY ZenonT(60), <3>1, <3>2, <2>u, <1>t DEF WriteInv, WritesIsolated, InUse, Owner, Ops
  <2> QED BY <2>2, <2>3, <2>4, <2>5 DEF PalInv
<1>2. CASE processEventsDone
  <2>u. /\ UNCHANGED <<sockets, accepting, pendingOps, conn, writeTo, wire, lastRead, breach>>
        /\ phase = "events" /\ phase' = "ops"
    BY <1>2 DEF processEventsDone
  <2>1. TypeOK'
    BY <2>u, <1>t DEF TypeOK
  <2>2. QueueInv' /\ SocketInv' /\ WriteInv'
    BY <2>u, <1>t DEF QueueInv, SocketInv, WriteInv, WritesIsolated, Ops, InUse, Owner
  <2>3. ReadInv'
    BY <2>u, <1>t DEF ReadInv, ReadAt, OwnRead, Ops, InUse, Owner
  <2> QED BY <2>1, <2>2, <2>3 DEF PalInv
<1>3. CASE processPendingOpsDone
  <2>u. /\ UNCHANGED <<sockets, accepting, pendingOps, conn, writeTo, wire, lastRead, breach>>
        /\ Len(pendingOps) = 0 /\ phase' = "events"
    BY <1>3 DEF processPendingOpsDone
  <2>1. \A j : j \notin Ops
    BY <2>u DEF Ops
  <2>2. ReadInv'
    BY <2>1, <2>u, <1>t DEF ReadInv, Ops, InUse, Owner
  <2>3. TypeOK' /\ QueueInv' /\ SocketInv' /\ WriteInv'
    BY <2>u, <1>t DEF TypeOK, QueueInv, SocketInv, WriteInv,
             WritesIsolated, Ops, InUse, Owner
  <2> QED BY <2>2, <2>3 DEF PalInv
<1> QED BY <1>1, <1>2, <1>3

(***************************************************************************)
(* PalInv is an invariant of the network layer.                            *)
(***************************************************************************)
THEOREM PalInvariance == Spec => [](PalInv /\ ReadIsolated)
<1>1. Init => PalInv /\ ReadIsolated
  <2> SUFFICES ASSUME Init PROVE PalInv /\ ReadIsolated
    OBVIOUS
  <2>1. AcceptOp \in Op /\ AcceptOp.type = "accept" /\ AcceptOp.write = NoWrite
    BY DEF AcceptOp, Op
  <2>2. pendingOps \in Seq(Op) /\ Len(pendingOps) = 1 /\ pendingOps[1] = AcceptOp
    BY <2>1 DEF Init
  <2>3. TypeOK
    <3>1. /\ wire \in [Conns -> Seq([write : Writes, part : 1 .. Parts])]
          /\ writeTo \in Seq(Conns) /\ Len(writeTo) <= MaxWrites
      BY PalAssumption DEF Init
    <3>2. /\ sockets \in [Fds -> SocketInfo \cup {NoSocket}]
          /\ conn \in [Conns -> [fd : Fds \cup {NoFd}, open : BOOLEAN,
                                 sent : BOOLEAN, broken : BOOLEAN]]
      BY DEF Init
    <3>3. /\ lastRead \in [callback : Conns \cup {NoConn}, source : Conns \cup {NoConn}]
          /\ breach \subseteq Breaches /\ accepting \in BOOLEAN /\ phase \in {"events", "ops"}
      BY DEF Init
    <3> QED BY <3>1, <3>2, <3>3, <2>2 DEF TypeOK
  <2>4. QueueInv
    BY <2>1, <2>2 DEF QueueInv, Ops
  <2>5. SocketInv /\ ReadInv /\ WriteInv
    BY PalAssumption, <2>1, <2>2 DEF Init, SocketInv, ReadInv, WriteInv, WritesIsolated, InUse, Ops
  <2>6. ReadIsolated
    BY DEF Init, ReadIsolated
  <2> QED BY <2>3, <2>4, <2>5, <2>6 DEF PalInv
<1>2. PalInv /\ ReadIsolated /\ [Next]_vars => (PalInv /\ ReadIsolated)'
  <2> SUFFICES ASSUME PalInv, ReadIsolated, [Next]_vars PROVE PalInv' /\ ReadIsolated'
    OBVIOUS
  <2>1. ASSUME NEW c \in Conns, handleReadableServer(c) PROVE PalInv' /\ ReadIsolated'
    BY <2>1, AcceptStep DEF handleReadableServer, ReadIsolated
  <2>2. ASSUME NEW c \in Conns, PeerSends(c) PROVE PalInv' /\ ReadIsolated'
    BY <2>2, TurnStep DEF PeerSends, ReadIsolated
  <2>3. ASSUME NEW fd \in Fds, handleReadable(fd) PROVE PalInv' /\ ReadIsolated'
    <3>1. sockets[fd].reader = Owner(fd)
      BY <2>3, ReaderIsOwner DEF handleReadable, InUse
    <3>2. lastRead' = [callback |-> sockets[fd].reader, source |-> sockets[fd].conn]
      BY <2>3 DEF handleReadable
    <3> QED BY <2>3, <3>1, <3>2, ReadStep DEF ReadIsolated, Owner
  <2>4. ASSUME NEW fd \in Fds, handleReadableEnd(fd) PROVE PalInv' /\ ReadIsolated'
    <3>1. sockets[fd].reader = Owner(fd)
      BY <2>4, ReaderIsOwner DEF handleReadableEnd, InUse
    <3>2. lastRead' = [callback |-> sockets[fd].reader, source |-> sockets[fd].conn]
      BY <2>4 DEF handleReadableEnd
    <3> QED BY <2>4, <3>1, <3>2, EndStep DEF ReadIsolated, Owner
  <2>5. ASSUME NEW fd \in Fds, handleWritable(fd) PROVE PalInv' /\ ReadIsolated'
    BY <2>5, WriteStep DEF handleWritable, WritePart, ReadIsolated
  <2>6. ASSUME NEW fd \in Fds, handleWritableError(fd) PROVE PalInv' /\ ReadIsolated'
    BY <2>6, ErrorStep DEF handleWritableError, ReadIsolated
  <2>7. CASE Loop
    <3>1. CASE processPendingOp
      BY <3>1, InstallStep DEF processPendingOp, ReadIsolated
    <3>2. CASE processEventsDone \/ processPendingOpsDone
      BY <3>2, TurnStep DEF processEventsDone, processPendingOpsDone, ReadIsolated
    <3> QED BY <2>7, <3>1, <3>2 DEF Loop
  <2>8. CASE UNCHANGED vars
    <3>u. UNCHANGED <<sockets, accepting, pendingOps, phase, conn, writeTo, wire, lastRead, breach>>
      BY <2>8 DEF vars
    <3>1. TypeOK'
      BY <3>u DEF PalInv, TypeOK
    <3>2. QueueInv' /\ SocketInv' /\ WriteInv'
      BY <3>u DEF PalInv, QueueInv, SocketInv, WriteInv, WritesIsolated, Ops, InUse, Owner
    <3>3. ReadInv' /\ ReadIsolated'
      BY <3>u DEF PalInv, ReadInv, ReadAt, OwnRead, Ops, InUse, Owner, ReadIsolated
    <3> QED BY <3>1, <3>2, <3>3 DEF PalInv
  <2> QED BY <2>1, <2>2, <2>3, <2>4, <2>5, <2>6, <2>7, <2>8 DEF Next
<1> QED BY <1>1, <1>2, PTL DEF Spec

(***************************************************************************)
(* Connections are isolated from each other: a read callback runs with     *)
(* bytes of its own connection, and bytes reach only the connection they   *)
(* were written for unless one was closed with a write queued, however     *)
(* DarwinNetworkPAL reuses its descriptors.                                *)
(***************************************************************************)
THEOREM TransfersAreIsolated == Spec => []TransfersIsolated
<1>1. PalInv /\ ReadIsolated => TransfersIsolated
  BY DEF PalInv, WriteInv, TransfersIsolated, WritesIsolated
<1> QED BY <1>1, PalInvariance, PTL
(***************************************************************************)
(* Steps that send nothing and install nothing: the queue only grows, by   *)
(* one write at most for a connection that has none outstanding, and slots *)
(* are emptied only of connections that are closed or broken.              *)
(***************************************************************************)
LEMMA SlotsKept ==
  ASSUME PalInv, PalInv', SlotInv, breach = {}, breach' = {}, wire' = wire,
         Len(pendingOps) <= Len(pendingOps'), Len(writeTo) <= Len(writeTo'),
         \A i \in Ops : pendingOps'[i] = pendingOps[i],
         \A w \in 1 .. Len(writeTo) : writeTo'[w] = writeTo[w],
         \A i \in 1 .. Len(pendingOps') : i \notin Ops /\ pendingOps'[i].type = "write" =>
           /\ sockets'[pendingOps'[i].fd].writer = NoWrite
           /\ ~Queued(pendingOps'[i].conn)
           /\ \A j \in 1 .. Len(pendingOps') :
                j \notin Ops /\ pendingOps'[j].type = "write"
                  /\ pendingOps'[j].conn = pendingOps'[i].conn => j = i,
         \A w \in 1 .. Len(writeTo') : w \notin 1 .. Len(writeTo) =>
           \E i \in 1 .. Len(pendingOps') : pendingOps'[i].write = w,
         \A fd \in Fds : InUse(fd)' =>
           \/ /\ InUse(fd) /\ sockets'[fd].conn = sockets[fd].conn
              /\ sockets'[fd].writer = sockets[fd].writer /\ sockets'[fd].offset = sockets[fd].offset
              /\ ~conn'[sockets[fd].conn].broken => ~conn[sockets[fd].conn].broken
           \/ sockets'[fd].writer = NoWrite /\ conn'[sockets'[fd].conn].broken
           \/ /\ sockets'[fd].writer = NoWrite /\ sockets'[fd].offset = 0
              /\ Len(wire[sockets'[fd].conn]) = 0,
         \A fd \in Fds : InUse(fd) /\ sockets[fd].writer # NoWrite =>
           \/ InUse(fd)' /\ sockets'[fd].writer = sockets[fd].writer
           \/ ~conn'[sockets[fd].conn].open \/ conn'[sockets[fd].conn].broken,
         \A w \in 1 .. Len(writeTo) :
           conn'[writeTo[w]].open /\ ~conn'[writeTo[w]].broken =>
             conn[writeTo[w]].open /\ ~conn[writeTo[w]].broken
  PROVE  SlotInv'
<1>n. PICK n \in Nat, m \in Nat, l \in Nat, k \in Nat :
        n = Len(pendingOps) /\ m = Len(pendingOps') /\ l = Len(writeTo) /\ k = Len(writeTo')
  BY Members DEF PalInv, TypeOK
<1>o. Ops = 1 .. n /\ Ops' = 1 .. m /\ 1 .. n \subseteq 1 .. m /\ 1 .. l \subseteq 1 .. k
  BY <1>n DEF Ops
<1>q. /\ QueueInv /\ QueueInv' /\ SocketInv /\ SocketInv'
  BY DEF PalInv
<1>w. /\ \A fd \in Fds : InUse(fd) /\ sockets[fd].writer # NoWrite =>
           writeTo[sockets[fd].writer] = Owner(fd)
      /\ \A i \in Ops' : pendingOps'[i].type = "write" =>
           pendingOps'[i].fd \in Fds /\ sockets'[pendingOps'[i].fd] # NoSocket
  <2>1. /\ WriteInv /\ WriteInv' /\ "queued write" \notin breach /\ "queued write" \notin breach'
    BY DEF PalInv
  <2>2. ASSUME NEW i \in Ops', pendingOps'[i].type = "write"
        PROVE  pendingOps'[i].fd \in Fds /\ sockets'[pendingOps'[i].fd] # NoSocket
    <3>1. /\ pendingOps'[i].fd \in Fds /\ pendingOps'[i].conn \in Conns
          /\ conn'[pendingOps'[i].conn].open /\ pendingOps'[i].fd = conn'[pendingOps'[i].conn].fd
      BY <2>1, <2>2, <1>q DEF WriteInv, QueueInv
    <3>2. \A c \in Conns : conn'[c].open => sockets'[conn'[c].fd] # NoSocket
      BY <2>1 DEF WriteInv, InUse
    <3> QED BY <3>1, <3>2
  <2> QED BY <2>1, <2>2 DEF WriteInv
<1>1. ASSUME NEW i \in 1 .. m, NEW j \in 1 .. m, pendingOps'[i].type = "write",
             pendingOps'[j].type = "write", pendingOps'[i].conn = pendingOps'[j].conn
      PROVE  i = j
  <2>1. CASE i \in 1 .. n /\ j \in 1 .. n
    BY <1>1, <2>1, <1>o DEF SlotInv
  <2>2. CASE i \notin 1 .. n /\ j \in 1 .. n
    BY <1>1, <2>2, <1>n, <1>o DEF Queued
  <2>3. CASE i \in 1 .. n /\ j \notin 1 .. n
    BY <1>1, <2>3, <1>n, <1>o DEF Queued
  <2>4. CASE i \notin 1 .. n /\ j \notin 1 .. n
    BY <1>1, <2>4, <1>n, <1>o
  <2> QED BY <2>1, <2>2, <2>3, <2>4
<1>2. ASSUME NEW i \in 1 .. m, pendingOps'[i].type = "write"
      PROVE  sockets'[pendingOps'[i].fd].writer = NoWrite
  <2>1. CASE i \in 1 .. n
    <3>1. /\ pendingOps'[i] = pendingOps[i] /\ sockets[pendingOps[i].fd].writer = NoWrite
          /\ pendingOps[i].fd \in Fds /\ sockets'[pendingOps[i].fd] # NoSocket
      BY <2>1, <1>2, <1>o, <1>w DEF SlotInv
    <3> QED BY <3>1 DEF InUse
  <2>2. CASE i \notin 1 .. n
    BY <2>2, <1>2, <1>n, <1>o
  <2> QED BY <2>1, <2>2
<1>3. ASSUME NEW fd \in Fds, InUse(fd)', ~conn'[sockets'[fd].conn].broken
      PROVE  WireUpTo(Owner(fd), sockets[fd].writer, sockets[fd].offset)'
  <2>1. CASE /\ InUse(fd) /\ sockets'[fd].conn = sockets[fd].conn
             /\ sockets'[fd].writer = sockets[fd].writer /\ sockets'[fd].offset = sockets[fd].offset
             /\ ~conn[sockets[fd].conn].broken
    BY <2>1 DEF SlotInv, WireUpTo, Owner
  <2>2. CASE /\ sockets'[fd].writer = NoWrite /\ sockets'[fd].offset = 0
             /\ Len(wire[sockets'[fd].conn]) = 0
    BY <2>2 DEF WireUpTo, Owner
  <2> QED BY <2>1, <2>2, <1>3
<1>4. ASSUME NEW w \in 1 .. k, conn'[writeTo'[w]].open, ~conn'[writeTo'[w]].broken
      PROVE  Kept(w)'
  <2>1. CASE w \notin 1 .. l
    BY <2>1, <1>n DEF Kept
  <2>2. CASE w \in 1 .. l
    <3>1. writeTo'[w] = writeTo[w] /\ w \in Deliverable
      BY <2>2, <1>4, <1>n DEF Deliverable
    <3>2. Kept(w)
      BY <3>1 DEF SlotInv
    <3>3. CASE \E i \in 1 .. Len(pendingOps) : pendingOps[i].write = w
      <4>1. PICK i \in 1 .. n : pendingOps[i].write = w
        BY <3>3, <1>n
      <4>2. i \in 1 .. m /\ pendingOps'[i].write = w
        BY <4>1, <1>o
      <4> QED BY <4>2, <1>n DEF Kept
    <3>4. CASE \E fd \in Fds : sockets[fd] # NoSocket /\ sockets[fd].writer = w
      <4>1. PICK fd \in Fds : sockets[fd] # NoSocket /\ sockets[fd].writer = w
        BY <3>4
      <4>2. w # NoWrite /\ InUse(fd)
        BY <4>1 DEF NoWrite, InUse
      <4>3. writeTo[w] = sockets[fd].conn
        BY <4>1, <4>2, <1>w DEF Owner
      <4>4. InUse(fd)' /\ sockets'[fd].writer = w
        BY <4>1, <4>2, <4>3, <3>1, <1>4
      <4> QED BY <4>4 DEF Kept, InUse
    <3>5. CASE \E i \in 1 .. Len(wire[writeTo[w]]) :
                 wire[writeTo[w]][i] = [write |-> w, part |-> Parts]
      BY <3>1, <3>5 DEF Kept
    <3> QED BY <3>2, <3>3, <3>4, <3>5 DEF Kept
  <2> QED BY <2>1, <2>2
<1>5. \A c \in Conns : WireIntact(c)'
  BY DEF SlotInv, WireIntact
<1> QED BY <1>1, <1>2, <1>3, <1>4, <1>5, <1>n, <1>o DEF SlotInv, Deliverable, Owner

(***************************************************************************)
(* write() sends the next part: it follows the last one on the wire, and   *)
(* the buffer stays in the slot or has been sent to its end.               *)
(***************************************************************************)
LEMMA SendKeeps ==
  ASSUME PalInv, PalInv', SlotInv, breach = {}, NEW fd \in Fds, handleWritable(fd)
  PROVE  SlotInv'
<1>t. TypeOK /\ QueueInv /\ SocketInv /\ WriteInv
  BY DEF PalInv
<1>u. /\ InUse(fd) /\ sockets[fd].writer # NoWrite /\ ~conn[sockets[fd].conn].broken
      /\ UNCHANGED <<pendingOps, conn, writeTo, breach>>
  BY DEF handleWritable, WritePart, InUse
<1>w. PICK x, o \in Nat, c \in Conns :
        /\ x = sockets[fd].writer /\ o = sockets[fd].offset /\ c = sockets[fd].conn
        /\ o \in 0 .. (Parts - 1) /\ x \in 1 .. Len(writeTo) /\ writeTo[x] = c
  <2>1. /\ sockets[fd] \in SocketInfo /\ sockets[fd].writer \in 1 .. Len(writeTo)
        /\ sockets[fd].offset \in 0 .. (Parts - 1) /\ sockets[fd].conn \in Conns
    BY <1>t, <1>u, Members DEF SocketInv, SocketInfo
  <2>2. writeTo[sockets[fd].writer] = sockets[fd].conn
    BY <1>t, <1>u DEF WriteInv, Owner
  <2>3. sockets[fd].offset \in Nat
    BY <2>1, PalAssumption
  <2> QED BY <2>1, <2>2, <2>3
<1>b. PICK b \in [write : Writes, part : 1 .. Parts] : b = [write |-> x, part |-> o + 1]
  <2>1. o + 1 \in 1 .. Parts
    BY <1>w, PalAssumption
  <2>2. x \in Writes
    BY <1>w, <1>u, <1>t, Members DEF SocketInfo, NoWrite
  <2> QED BY <2>1, <2>2
<1>1. /\ wire'[c] = Append(wire[c], b)
      /\ \A d \in Conns \ {c} : wire'[d] = wire[d]
  BY <1>b, <1>w, <1>t DEF handleWritable, WritePart, TypeOK
<1>2. PICK n \in Nat :
        /\ n = Len(wire[c]) /\ Len(wire'[c]) = n + 1
        /\ \A i \in 1 .. n : wire'[c][i] = wire[c][i]
        /\ wire'[c][n + 1] = b
  <2>1. wire[c] \in Seq([write : Writes, part : 1 .. Parts])
    BY <1>t DEF TypeOK
  <2> QED BY ONLY <2>1, <1>1, <1>b
<1>3. /\ \A f \in Fds \ {fd} : sockets'[f] = sockets[f]
      /\ sockets'[fd].conn = c /\ InUse(fd)'
      /\ o + 1 = Parts => sockets'[fd].writer = NoWrite /\ sockets'[fd].offset = 0
      /\ o + 1 # Parts => sockets'[fd].writer = x /\ sockets'[fd].offset = o + 1
  <2>1. sockets \in [Fds -> SocketInfo \cup {NoSocket}] /\ sockets[fd] \in SocketInfo
    BY <1>t, <1>u, Members DEF TypeOK
  <2>2. CASE o + 1 = Parts
    <3>1. PICK info : info = [sockets[fd] EXCEPT !.writer = NoWrite, !.offset = 0]
      OBVIOUS
    <3>2. sockets' = [sockets EXCEPT ![fd] = info]
      BY <2>2, <3>1, <1>w DEF handleWritable, WritePart
    <3>3. info.conn = c /\ info.writer = NoWrite /\ info.offset = 0 /\ info \in SocketInfo
      <4>1. 0 \in 0 .. (Parts - 1)
        BY PalAssumption
      <4> QED BY <3>1, <2>1, <1>w, <4>1 DEF SocketInfo
    <3> QED BY <3>2, <3>3, <2>1, <2>2, NoSocketAssumption DEF InUse
  <2>3. CASE o + 1 # Parts
    <3>1. PICK info : info = [sockets[fd] EXCEPT !.offset = o + 1]
      OBVIOUS
    <3>2. sockets' = [sockets EXCEPT ![fd] = info]
      BY <2>3, <3>1, <1>w DEF handleWritable, WritePart
    <3>3. info.conn = c /\ info.writer = x /\ info.offset = o + 1 /\ info \in SocketInfo
      <4>1. o + 1 \in 0 .. (Parts - 1)
        BY <2>3, <1>w, PalAssumption
      <4> QED BY <3>1, <2>1, <1>w, <4>1 DEF SocketInfo
    <3> QED BY <3>2, <3>3, <2>1, <2>3, NoSocketAssumption DEF InUse
  <2> QED BY <2>2, <2>3
<1>4. \/ o = 0 /\ (n = 0 \/ wire[c][n].part = Parts)
      \/ o # 0 /\ n # 0 /\ wire[c][n] = [write |-> x, part |-> o]
  <2>1. WireUpTo(Owner(fd), sockets[fd].writer, sockets[fd].offset)
    BY <1>u DEF SlotInv, Owner
  <2> QED BY <2>1, <1>w, <1>2 DEF WireUpTo, Owner
<1>5. ASSUME NEW i \in Ops, pendingOps[i].type = "write"
      PROVE  sockets'[pendingOps[i].fd].writer = NoWrite
  <2>1. sockets[pendingOps[i].fd].writer = NoWrite /\ pendingOps[i].fd \in Fds
    BY <1>5, <1>t DEF SlotInv, QueueInv
  <2>2. pendingOps[i].fd # fd
    BY <2>1, <1>u
  <2> QED BY <2>1, <2>2, <1>3
<1>6. ASSUME NEW f \in Fds, InUse(f)', ~conn'[sockets'[f].conn].broken
      PROVE  WireUpTo(Owner(f), sockets[f].writer, sockets[f].offset)'
  <2>1. CASE f = fd
    <3>1. b.part = o + 1 /\ n + 1 # 0
      BY <1>b
    <3>2. CASE o + 1 = Parts
      BY <3>1, <3>2, <2>1, <1>2, <1>3 DEF WireUpTo, Owner
    <3>3. CASE o + 1 # Parts
      <4>1. o + 1 # 0
        OBVIOUS
      <4> QED BY <4>1, <3>1, <3>3, <2>1, <1>2, <1>3, <1>b DEF WireUpTo, Owner
    <3> QED BY <3>2, <3>3
  <2>2. CASE f # fd
    <3>1. sockets'[f] = sockets[f] /\ InUse(f)
      BY <2>2, <1>3, <1>6 DEF InUse
    <3>2. sockets[f].conn # c /\ sockets[f].conn \in Conns
      <4>1. conn[sockets[f].conn].fd = f /\ conn[sockets[fd].conn].fd = fd
        BY <3>1, <1>t, <1>u DEF SocketInv, Owner
      <4>2. sockets[f] \in SocketInfo
        BY <3>1, <1>t, Members
      <4> QED BY <4>1, <4>2, <2>2, <1>w DEF SocketInfo
    <3>3. WireUpTo(Owner(f), sockets[f].writer, sockets[f].offset)
      BY <3>1, <1>6, <1>u DEF SlotInv, Owner
    <3>4. wire'[sockets[f].conn] = wire[sockets[f].conn]
      BY <3>2, <1>1
    <3> QED BY <3>1, <3>3, <3>4 DEF WireUpTo, Owner
  <2> QED BY <2>1, <2>2
<1>7. ASSUME NEW w \in Deliverable PROVE Kept(w)'
  <2>0. w \in 1 .. Len(writeTo) /\ writeTo[w] \in Conns /\ Kept(w)
    BY <1>7, <1>t, Members DEF SlotInv, Deliverable
  <2>1. CASE \E i \in 1 .. Len(pendingOps) : pendingOps[i].write = w
    BY <2>1, <1>u DEF Kept
  <2>2. CASE \E f \in Fds : sockets[f] # NoSocket /\ sockets[f].writer = w
    <3>1. PICK f \in Fds : sockets[f] # NoSocket /\ sockets[f].writer = w
      BY <2>2
    <3>2. CASE f # fd
      BY <3>1, <3>2, <1>3 DEF Kept
    <3>3. CASE f = fd /\ o + 1 # Parts
      BY <3>1, <3>3, <1>3, <1>w DEF Kept, InUse
    <3>4. CASE f = fd /\ o + 1 = Parts
      <4>1. w = x /\ writeTo'[w] = c
        BY <3>1, <3>4, <1>w, <1>u
      <4>2. n + 1 \in 1 .. Len(wire'[c]) /\ wire'[c][n + 1] = [write |-> w, part |-> Parts]
        BY <4>1, <3>4, <1>2, <1>b
      <4> QED BY <4>1, <4>2 DEF Kept
    <3> QED BY <3>2, <3>3, <3>4
  <2>3. CASE \E i \in 1 .. Len(wire[writeTo[w]]) :
               wire[writeTo[w]][i] = [write |-> w, part |-> Parts]
    <3>1. PICK i \in 1 .. Len(wire[writeTo[w]]) :
            wire[writeTo[w]][i] = [write |-> w, part |-> Parts]
      BY <2>3
    <3>2. CASE writeTo[w] = c
      <4>1. i \in 1 .. n /\ i \in 1 .. (n + 1)
        BY <3>1, <3>2, <1>2
      <4>2. wire'[c][i] = [write |-> w, part |-> Parts]
        BY <4>1, <3>1, <3>2, <1>2
      <4> QED BY <4>1, <4>2, <3>2, <1>2, <1>u DEF Kept
    <3>3. CASE writeTo[w] # c
      <4>1. wire'[writeTo[w]] = wire[writeTo[w]] /\ writeTo' = writeTo
        BY <3>3, <2>0, <1>1, <1>u
      <4> QED BY <4>1, <3>1 DEF Kept
    <3> QED BY <3>2, <3>3
  <2> QED BY <2>0, <2>1, <2>2, <2>3 DEF Kept
<1>8. ASSUME NEW d \in Conns PROVE WireIntact(d)'
  <2>0. WireIntact(d)
    BY DEF SlotInv
  <2>1. CASE d # c
    BY <2>0, <2>1, <1>1 DEF WireIntact
  <2>2. CASE d = c
    <3>1. ASSUME NEW i \in 1 .. (n + 1), NEW a,
                 a = IF i = 1 THEN [write |-> NoWrite, part |-> Parts] ELSE wire'[c][i - 1]
          PROVE  \/ wire'[c][i].part = 1 /\ a.part = Parts
                 \/ wire'[c][i].part = a.part + 1 /\ wire'[c][i].write = a.write
      <4>1. CASE i # n + 1
        <5>1. i \in 1 .. n /\ (i # 1 => i - 1 \in 1 .. n)
          BY <4>1, <1>2
        <5>2. wire'[c][i] = wire[c][i]
              /\ a = IF i = 1 THEN [write |-> NoWrite, part |-> Parts] ELSE wire[c][i - 1]
          BY <5>1, <3>1, <1>2
        <5> QED BY <5>1, <5>2, <2>0, <2>2, <1>2 DEF WireIntact
      <4>2. CASE i = n + 1 /\ n = 0
        <5>1. o = 0 /\ a = [write |-> NoWrite, part |-> Parts] /\ wire'[c][i] = b
          BY <4>2, <3>1, <1>2, <1>4
        <5> QED BY <5>1, <1>b
      <4>3. CASE i = n + 1 /\ n # 0
        <5>1. i - 1 = n /\ i # 1 /\ n \in 1 .. n
          BY <4>3, <1>2
        <5>2. a = wire[c][n] /\ wire'[c][i] = b
          BY <5>1, <4>3, <3>1, <1>2
        <5>3. CASE o = 0
          BY <5>2, <5>3, <4>3, <1>4, <1>b
        <5>4. CASE o # 0
          BY <5>2, <5>4, <1>4, <1>b
        <5> QED BY <5>3, <5>4
      <4> QED BY <4>1, <4>2, <4>3
    <3>2. ASSUME NEW i \in 1 .. Len(wire'[c])
          PROVE  LET t == wire'[c][i]
                     a == IF i = 1 THEN [write |-> NoWrite, part |-> Parts] ELSE wire'[c][i - 1]
                 IN  \/ t.part = 1 /\ a.part = Parts
                     \/ t.part = a.part + 1 /\ t.write = a.write
      <4>1. PICK a : a = IF i = 1 THEN [write |-> NoWrite, part |-> Parts] ELSE wire'[c][i - 1]
        OBVIOUS
      <4>2. i \in 1 .. (n + 1)
        BY <1>2
      <4>3. \/ wire'[c][i].part = 1 /\ a.part = Parts
            \/ wire'[c][i].part = a.part + 1 /\ wire'[c][i].write = a.write
        BY <4>1, <4>2, <3>1
      <4> QED BY <4>1, <4>3
    <3> QED BY <3>2, <2>2 DEF WireIntact
  <2> QED BY <2>1, <2>2
<1>9. /\ Ops' = Ops /\ Deliverable' = Deliverable /\ breach' = {}
  BY <1>u DEF Ops, Deliverable
<1> QED BY <1>5, <1>6, <1>7, <1>8, <1>9, <1>u DEF SlotInv, Owner

(***************************************************************************)
(* A queued write is put into a slot that is empty: nothing is replaced.   *)
(***************************************************************************)
LEMMA InstallKeeps ==
  ASSUME PalInv, PalInv', SlotInv, breach = {}, processPendingOp
  PROVE  SlotInv'
<1>t. TypeOK /\ QueueInv /\ SocketInv /\ WriteInv /\ "queued write" \notin breach
  BY DEF PalInv
<1>u. /\ pendingOps # << >> /\ pendingOps' = Tail(pendingOps)
      /\ UNCHANGED <<conn, writeTo, wire, breach>>
  BY DEF processPendingOp
<1>n. PICK n \in Nat : n = Len(pendingOps)
  BY <1>t, Members
<1>1. /\ n >= 1 /\ Len(pendingOps') = n - 1 /\ Head(pendingOps) = pendingOps[1]
      /\ \A i \in 1 .. (n - 1) : pendingOps'[i] = pendingOps[i + 1]
  <2>1. pendingOps \in Seq(Op)
    BY <1>t DEF TypeOK
  <2> QED BY ONLY <2>1, <1>u, <1>n, HeadTailProperties
<1>2. /\ \A i \in 1 .. (n - 1) : i + 1 \in 1 .. n /\ i + 1 # 1
      /\ \A j \in 1 .. n : j # 1 => j - 1 \in 1 .. (n - 1) /\ pendingOps'[j - 1] = pendingOps[j]
      /\ \A i, j \in 1 .. (n - 1) : i + 1 = j + 1 => i = j
      /\ 1 \in 1 .. n /\ Ops = 1 .. n /\ Ops' = 1 .. (n - 1)
  BY <1>1, <1>n DEF Ops
<1>o. PICK op \in Op : op = pendingOps[1]
  BY <1>t, <1>n, <1>2, Members DEF Ops
<1>3. /\ op.type # "write" => op.write = NoWrite
      /\ op.type # "accept" => op.fd \in Fds
      /\ op.type = "write" => /\ op.conn \in Conns /\ InUse(op.fd) /\ Owner(op.fd) = op.conn
                              /\ sockets[op.fd].writer = NoWrite
  <2>1. /\ op.type # "write" => op.write = NoWrite
        /\ op.type # "accept" => op.fd \in Fds /\ op.conn \in Conns
    BY <1>o, <1>2, <1>t DEF QueueInv
  <2>2. op.type = "write" => /\ conn[op.conn].open /\ op.fd = conn[op.conn].fd
                             /\ sockets[op.fd].writer = NoWrite
    BY <1>o, <1>2, <1>t DEF WriteInv, SlotInv
  <2> QED BY <2>1, <2>2, <1>t DEF WriteInv
<1>s. sockets \in [Fds -> SocketInfo \cup {NoSocket}]
  BY <1>t DEF TypeOK
<1>4. ASSUME op.type # "write"
      PROVE  \A f \in Fds : /\ InUse(f)' <=> InUse(f)
                            /\ InUse(f) => /\ sockets'[f].conn = sockets[f].conn
                                           /\ sockets'[f].writer = sockets[f].writer
                                           /\ sockets'[f].offset = sockets[f].offset
  <2>1. CASE sockets' = sockets
    BY <2>1 DEF InUse
  <2>2. CASE /\ op.type = "read" /\ sockets[op.fd] # NoSocket
             /\ sockets' = [sockets EXCEPT ![op.fd].reader = op.conn]
    <3>1. sockets[op.fd] \in SocketInfo /\ op.fd \in Fds /\ op.conn \in Conns
      BY <2>2, <1>3, <1>s, <1>o, <1>2, <1>t DEF QueueInv
    <3>2. PICK info : info = [sockets[op.fd] EXCEPT !.reader = op.conn]
      OBVIOUS
    <3>3. /\ info \in SocketInfo /\ info.conn = sockets[op.fd].conn
          /\ info.writer = sockets[op.fd].writer /\ info.offset = sockets[op.fd].offset
      BY <3>1, <3>2 DEF SocketInfo
    <3>4. sockets' = [sockets EXCEPT ![op.fd] = info]
      BY <2>2, <3>1, <3>2
    <3> QED BY <3>1, <3>3, <3>4, <2>2, <1>s, NoSocketAssumption DEF InUse
  <2> QED BY <2>1, <2>2, <1>4, <1>1, <1>o DEF processPendingOp
<1>5. ASSUME op.type = "write"
      PROVE  /\ \A f \in Fds \ {op.fd} : sockets'[f] = sockets[f]
             /\ InUse(op.fd)' /\ sockets'[op.fd].conn = sockets[op.fd].conn
             /\ sockets'[op.fd].writer = op.write /\ sockets'[op.fd].offset = 0
  <2>1. sockets' = [sockets EXCEPT ![op.fd].writer = op.write, ![op.fd].offset = 0]
    BY <1>5, <1>1, <1>3, <1>o DEF processPendingOp, InUse
  <2>2. sockets[op.fd] \in SocketInfo /\ op.fd \in Fds /\ op.write \in Writes \cup {NoWrite}
    BY <1>5, <1>3, <1>s DEF InUse, Op
  <2>3. PICK info : info = [sockets[op.fd] EXCEPT !.writer = op.write, !.offset = 0]
    OBVIOUS
  <2>4. /\ info \in SocketInfo /\ info.conn = sockets[op.fd].conn
        /\ info.writer = op.write /\ info.offset = 0
    <3>1. 0 \in 0 .. (Parts - 1)
      BY PalAssumption
    <3> QED BY <3>1, <2>2, <2>3 DEF SocketInfo
  <2>5. sockets' = [sockets EXCEPT ![op.fd] = info]
    BY <2>1, <2>2, <2>3, <1>s
  <2> QED BY <2>2, <2>4, <2>5, <1>s, NoSocketAssumption DEF InUse
<1>6. \A f \in Fds : /\ InUse(f)' <=> InUse(f)
                     /\ InUse(f) => sockets'[f].conn = sockets[f].conn
                     /\ InUse(f) => \/ /\ sockets'[f].writer = sockets[f].writer
                                       /\ sockets'[f].offset = sockets[f].offset
                                    \/ /\ op.type = "write" /\ f = op.fd
                                       /\ sockets[f].writer = NoWrite
                                       /\ sockets'[f].offset = 0
  <2>1. CASE op.type = "write"
    BY <2>1, <1>3, <1>5 DEF InUse
  <2>2. CASE op.type # "write"
    BY <2>2, <1>4
  <2> QED BY <2>1, <2>2
<1>7. ASSUME NEW i \in 1 .. (n - 1), NEW j \in 1 .. (n - 1), pendingOps'[i].type = "write",
             pendingOps'[j].type = "write", pendingOps'[i].conn = pendingOps'[j].conn
      PROVE  i = j
  <2>1. /\ i + 1 \in Ops /\ j + 1 \in Ops
        /\ pendingOps'[i] = pendingOps[i + 1] /\ pendingOps'[j] = pendingOps[j + 1]
    BY <1>1, <1>2
  <2>2. i + 1 = j + 1
    BY <2>1, <1>7 DEF SlotInv
  <2> QED BY <2>2, <1>2
<1>8. ASSUME NEW i \in 1 .. (n - 1), pendingOps'[i].type = "write"
      PROVE  sockets'[pendingOps'[i].fd].writer = NoWrite
  <2>1. PICK j \in 1 .. n : j = i + 1 /\ j # 1 /\ pendingOps'[i] = pendingOps[j]
    BY <1>1, <1>2
  <2>2. /\ sockets[pendingOps[j].fd].writer = NoWrite /\ pendingOps[j].conn \in Conns
        /\ pendingOps[j].fd \in Fds /\ conn[pendingOps[j].conn].open
        /\ pendingOps[j].fd = conn[pendingOps[j].conn].fd
    BY <2>1, <1>8, <1>2, <1>t DEF SlotInv, QueueInv, WriteInv
  <2>3. InUse(pendingOps[j].fd) /\ Owner(pendingOps[j].fd) = pendingOps[j].conn
    BY <2>2, <1>t DEF WriteInv
  <2>4. ~(op.type = "write" /\ op.fd = pendingOps[j].fd)
    <3>1. SUFFICES ASSUME op.type = "write", op.fd = pendingOps[j].fd PROVE FALSE
      OBVIOUS
    <3>2. op.conn = pendingOps[j].conn
      BY <3>1, <2>3, <1>3
    <3> QED BY <3>1, <3>2, <2>1, <1>8, <1>o, <1>2 DEF SlotInv
  <2> QED BY <2>1, <2>2, <2>3, <2>4, <1>6
<1>9. ASSUME NEW f \in Fds, InUse(f)', ~conn'[sockets'[f].conn].broken
      PROVE  WireUpTo(Owner(f), sockets[f].writer, sockets[f].offset)'
  <2>1. InUse(f) /\ sockets'[f].conn = sockets[f].conn /\ ~conn[sockets[f].conn].broken
    BY <1>9, <1>6, <1>u
  <2>2. WireUpTo(Owner(f), sockets[f].writer, sockets[f].offset)
    BY <2>1 DEF SlotInv, Owner
  <2>3. CASE sockets'[f].writer = sockets[f].writer /\ sockets'[f].offset = sockets[f].offset
    BY <2>1, <2>2, <2>3, <1>u DEF WireUpTo, Owner
  <2>4. CASE sockets[f].writer = NoWrite /\ sockets'[f].offset = 0
    <3>1. sockets[f].offset = 0
      BY <2>1, <2>4, <1>t DEF SocketInv
    <3> QED BY <3>1, <2>1, <2>2, <2>4, <1>u DEF WireUpTo, Owner
  <2> QED BY <2>1, <2>3, <2>4, <1>6
<1>10. ASSUME NEW w \in Deliverable PROVE Kept(w)'
  <2>0. w \in 1 .. Len(writeTo) /\ Kept(w) /\ w # NoWrite
    BY <1>10 DEF SlotInv, Deliverable, NoWrite
  <2>1. CASE \E i \in 1 .. Len(pendingOps) : pendingOps[i].write = w
    <3>1. PICK i \in 1 .. n : pendingOps[i].write = w
      BY <2>1, <1>n
    <3>2. CASE i # 1
      <4>1. i - 1 \in 1 .. (n - 1) /\ pendingOps'[i - 1].write = w
        BY <3>1, <3>2, <1>2
      <4> QED BY <4>1, <1>1 DEF Kept
    <3>3. CASE i = 1
      <4>1. op.type = "write" /\ op.write = w
        BY <3>1, <3>3, <2>0, <1>3, <1>o
      <4> QED BY <4>1, <1>3, <1>5 DEF Kept, InUse
    <3> QED BY <3>2, <3>3
  <2>2. CASE \E f \in Fds : sockets[f] # NoSocket /\ sockets[f].writer = w
    <3>1. PICK f \in Fds : InUse(f) /\ sockets[f].writer = w
      BY <2>2 DEF InUse
    <3>2. InUse(f)' /\ sockets'[f].writer = w
      BY <3>1, <2>0, <1>6
    <3> QED BY <3>2 DEF Kept, InUse
  <2>3. CASE \E i \in 1 .. Len(wire[writeTo[w]]) :
               wire[writeTo[w]][i] = [write |-> w, part |-> Parts]
    BY <2>3, <1>u DEF Kept
  <2> QED BY <2>0, <2>1, <2>2, <2>3 DEF Kept
<1>11. \A c \in Conns : WireIntact(c)'
  BY <1>u DEF SlotInv, WireIntact
<1>12. Deliverable' = Deliverable
  BY <1>u DEF Deliverable
<1> QED BY <1>2, <1>7, <1>8, <1>9, <1>10, <1>11, <1>12 DEF SlotInv, Owner

(***************************************************************************)
(* A new client has sent and was sent nothing.                             *)
(***************************************************************************)
LEMMA AcceptKeeps ==
  ASSUME PalInv, PalInv', SlotInv, breach = {}, NEW c \in Conns, handleReadableServer(c)
  PROVE  SlotInv'
<1>t. TypeOK /\ SocketInv /\ pendingOps \in Seq(Op)
  BY DEF PalInv, TypeOK
<1>u. /\ conn[c].fd = NoFd /\ breach' = {} /\ UNCHANGED <<writeTo, wire>>
      /\ Len(wire[c]) = 0
  BY <1>t DEF handleReadableServer, SocketInv
<1>n. PICK n \in Nat, l \in Nat : n = Len(pendingOps) /\ l = Len(writeTo)
  BY <1>t, Members
<1>v. \A w \in 1 .. l : writeTo[w] \in Conns /\ writeTo[w] # c
  BY <1>n, <1>t, <1>u, Members DEF SocketInv
<1>a. AcceptOp \in Op /\ AcceptOp.type = "accept"
  BY DEF AcceptOp, Op
<1>1. ASSUME NEW fd \in Fds, sockets[fd] = NoSocket,
             sockets' = [sockets EXCEPT ![fd] =
               [conn |-> c, reader |-> NoConn, writer |-> NoWrite, offset |-> 0]],
             conn' = [conn EXCEPT ![c].fd = fd, ![c].open = TRUE],
             pendingOps' = pendingOps \o <<ReadOp(c, fd), AcceptOp>>
      PROVE  SlotInv'
  <2>1. PICK more : more = <<ReadOp(c, fd), AcceptOp>>
    OBVIOUS
  <2>2. ReadOp(c, fd) \in Op /\ ReadOp(c, fd).type = "read"
    BY DEF ReadOp, Op
  <2>3. /\ more \in Seq(Op) /\ Len(more) = 2
        /\ more[1] = ReadOp(c, fd) /\ more[2] = AcceptOp
    BY <2>1, <2>2, <1>a
  <2>4. /\ Len(pendingOps') = Len(pendingOps) + Len(more)
        /\ \A i \in 1 .. Len(pendingOps) : pendingOps'[i] = pendingOps[i]
        /\ \A i \in 1 .. Len(more) : pendingOps'[Len(pendingOps) + i] = more[i]
    <3>1. pendingOps' = pendingOps \o more
      BY <1>1, <2>1
    <3>2. pendingOps \in Seq(Op) /\ more \in Seq(Op)
      BY <1>t, <2>3
    <3> QED BY ONLY <3>1, <3>2, Concatenation
  <2>5. Len(pendingOps') = n + 2 /\ \A i \in 1 .. (n + 2) : i \notin 1 .. n => i = n + 1 \/ i = n + 2
    BY <2>3, <2>4, <1>n
  <2>6. \A i \in 1 .. (n + 2) : i \notin 1 .. n => pendingOps'[i].type # "write"
    <3>1. pendingOps'[n + 1] = ReadOp(c, fd) /\ pendingOps'[n + 2] = AcceptOp
      BY <2>3, <2>4, <1>n
    <3> QED BY <3>1, <2>5, <2>2, <1>a
  <2>7. /\ \A f \in Fds \ {fd} : sockets'[f] = sockets[f]
        /\ sockets'[fd].conn = c /\ sockets'[fd].writer = NoWrite /\ sockets'[fd].offset = 0
    BY <1>1, <1>t DEF TypeOK
  <2>8. \A d \in Conns : d # c => conn'[d] = conn[d]
    BY <1>1, <1>t DEF TypeOK
  <2>9. \A f \in Fds : InUse(f) => /\ sockets[f].conn \in Conns /\ sockets[f].conn # c
                                   /\ f # fd
    <3>1. \A f \in Fds : InUse(f) => conn[sockets[f].conn].fd = f /\ f # NoFd
      BY <1>t, PalAssumption DEF SocketInv, Owner
    <3>2. \A f \in Fds : InUse(f) => sockets[f] \in SocketInfo
      BY <1>t, Members
    <3> QED BY <3>1, <3>2, <1>u, <1>1 DEF SocketInfo, InUse
  <2>10. \A f \in Fds : InUse(f)' =>
           \/ /\ InUse(f) /\ sockets'[f].conn = sockets[f].conn
              /\ sockets'[f].writer = sockets[f].writer /\ sockets'[f].offset = sockets[f].offset
              /\ ~conn'[sockets[f].conn].broken => ~conn[sockets[f].conn].broken
           \/ sockets'[f].writer = NoWrite /\ conn'[sockets'[f].conn].broken
           \/ /\ sockets'[f].writer = NoWrite /\ sockets'[f].offset = 0
              /\ Len(wire[sockets'[f].conn]) = 0
    BY <2>7, <2>8, <2>9, <1>u DEF InUse
  <2>11. \A f \in Fds : InUse(f) /\ sockets[f].writer # NoWrite =>
           \/ InUse(f)' /\ sockets'[f].writer = sockets[f].writer
           \/ ~conn'[sockets[f].conn].open \/ conn'[sockets[f].conn].broken
    BY <2>7, <2>9 DEF InUse
  <2>12. \A w \in 1 .. Len(writeTo) :
           conn'[writeTo[w]].open /\ ~conn'[writeTo[w]].broken =>
             conn[writeTo[w]].open /\ ~conn[writeTo[w]].broken
    BY <2>8, <1>v, <1>n
  <2>13. Len(pendingOps) <= Len(pendingOps') /\ Len(writeTo) <= Len(writeTo')
    BY <2>5, <1>n, <1>u
  <2>14. \A i \in Ops : pendingOps'[i] = pendingOps[i]
    BY <2>4 DEF Ops
  <2>15. \A i \in 1 .. Len(pendingOps') : ~(i \notin Ops /\ pendingOps'[i].type = "write")
    BY <2>5, <2>6, <1>n DEF Ops
  <2> QED BY <2>10, <2>11, <2>12, <2>13, <2>14, <2>15, <1>u, SlotsKept
<1>2. CASE pendingOps' = Append(pendingOps, AcceptOp) /\ UNCHANGED <<sockets, conn>>
  <2>1. /\ Len(pendingOps') = n + 1 /\ \A i \in 1 .. n : pendingOps'[i] = pendingOps[i]
        /\ pendingOps'[n + 1] = AcceptOp
    BY ONLY <1>2, <1>t, <1>n, <1>a, AppendProperties
  <2>2. \A i \in 1 .. (n + 1) : i \notin 1 .. n => i = n + 1
    BY <1>n
  <2>3. Len(pendingOps) <= Len(pendingOps') /\ Len(writeTo) <= Len(writeTo')
    BY <2>1, <1>n, <1>u
  <2>4. \A i \in Ops : pendingOps'[i] = pendingOps[i]
    BY <2>1, <1>n DEF Ops
  <2>5. \A i \in 1 .. Len(pendingOps') : ~(i \notin Ops /\ pendingOps'[i].type = "write")
    BY <2>1, <2>2, <1>n, <1>a DEF Ops
  <2>6. \A f \in Fds : InUse(f)' <=> InUse(f)
    BY <1>2 DEF InUse
  <2> QED BY <2>3, <2>4, <2>5, <2>6, <1>2, <1>u, SlotsKept
<1> QED BY <1>1, <1>2 DEF handleReadableServer

(***************************************************************************)
(* Closing a connection without a write queued for it empties its slot,    *)
(* and its buffers are no longer owed.                                     *)
(***************************************************************************)
LEMMA CloseKeeps ==
  ASSUME PalInv, PalInv', SlotInv, breach = {}, breach' = {}, NEW c \in Conns,
         conn[c].fd \in Fds, Owner(conn[c].fd) = c, closeSocket(c),
         UNCHANGED <<pendingOps, writeTo, wire>>
  PROVE  SlotInv'
<1>t. TypeOK /\ SocketInv
  BY DEF PalInv
<1>n. Len(pendingOps) \in Nat /\ Len(writeTo) \in Nat
  BY <1>t, Members
<1>1. /\ \A fd \in Fds : InUse(fd)' =>
            /\ fd # conn[c].fd /\ InUse(fd) /\ Owner(fd) # c
            /\ sockets'[fd] = sockets[fd]
      /\ \A fd \in Fds : InUse(fd) /\ fd # conn[c].fd => sockets'[fd] = sockets[fd]
      /\ \A d \in Conns : /\ conn'[d].fd = conn[d].fd
                          /\ conn'[d].broken = conn[d].broken
                          /\ conn'[d].open => d # c /\ conn[d].open
                          /\ d # c => conn'[d] = conn[d]
  BY CloseEffect
<1>2. \A fd \in Fds : InUse(fd) => sockets[fd].conn \in Conns
  BY <1>t, Members DEF SocketInfo
<1>3. \A f \in Fds : InUse(f)' =>
        /\ InUse(f) /\ sockets'[f].conn = sockets[f].conn
        /\ sockets'[f].writer = sockets[f].writer /\ sockets'[f].offset = sockets[f].offset
        /\ ~conn'[sockets[f].conn].broken => ~conn[sockets[f].conn].broken
  BY <1>1, <1>2
<1>4. \A f \in Fds : InUse(f) /\ sockets[f].writer # NoWrite =>
        \/ InUse(f)' /\ sockets'[f].writer = sockets[f].writer
        \/ ~conn'[sockets[f].conn].open \/ conn'[sockets[f].conn].broken
  BY <1>1, <1>2 DEF InUse, Owner
<1>5. \A w \in 1 .. Len(writeTo) :
        conn'[writeTo[w]].open /\ ~conn'[writeTo[w]].broken =>
          conn[writeTo[w]].open /\ ~conn[writeTo[w]].broken
  BY <1>1, <1>t, Members
<1>6. /\ Len(pendingOps) <= Len(pendingOps') /\ Len(writeTo) <= Len(writeTo')
      /\ \A i \in 1 .. Len(pendingOps') : i \in Ops
  BY <1>n DEF Ops
<1> QED BY <1>3, <1>4, <1>5, <1>6, SlotsKept

(***************************************************************************)
(* The end of a connection, and a write that fails.                        *)
(***************************************************************************)
LEMMA FailureKeeps ==
  ASSUME PalInv, PalInv', SlotInv, breach = {}, breach' = {}, NEW fd \in Fds,
         handleReadableEnd(fd) \/ handleWritableError(fd)
  PROVE  SlotInv'
<1>t. TypeOK /\ SocketInv /\ WriteInv /\ "queued write" \notin breach
  BY DEF PalInv
<1>1. CASE handleReadableEnd(fd)
  <2>1. PICK r \in Conns : r = sockets[fd].reader /\ r = sockets[fd].conn /\ conn[r].fd = fd
    BY <1>1, ReaderIsOwner DEF handleReadableEnd, InUse, Owner
  <2>2. closeSocket(r) /\ UNCHANGED <<pendingOps, writeTo, wire>>
    BY <1>1, <2>1 DEF handleReadableEnd
  <2> QED BY <2>1, <2>2, CloseKeeps DEF Owner
<1>2. CASE handleWritableError(fd)
  <2>u. /\ InUse(fd) /\ sockets[fd].writer # NoWrite
        /\ UNCHANGED <<pendingOps, writeTo, wire>>
    BY <1>2 DEF handleWritableError, InUse
  <2>w. PICK c \in Conns : /\ c = writeTo[sockets[fd].writer] /\ c = sockets[fd].conn
                           /\ conn[c].fd = fd /\ sockets[fd] \in SocketInfo
    <3>1. sockets[fd] \in SocketInfo /\ conn[sockets[fd].conn].fd = fd
      BY <1>t, <2>u, Members DEF SocketInv, Owner
    <3>2. writeTo[sockets[fd].writer] = sockets[fd].conn
      BY <1>t, <2>u DEF WriteInv, Owner
    <3> QED BY <3>1, <3>2 DEF SocketInfo
  <2>1. CASE closeSocket(writeTo[sockets[fd].writer])
    BY <2>1, <2>u, <2>w, CloseKeeps DEF Owner
  <2>2. CASE /\ sockets' = [sockets EXCEPT ![fd].writer = NoWrite, ![fd].offset = 0]
             /\ conn' = [conn EXCEPT ![sockets[fd].conn].broken = TRUE]
    <3>1. PICK info : info = [sockets[fd] EXCEPT !.writer = NoWrite, !.offset = 0]
      OBVIOUS
    <3>2. info.writer = NoWrite /\ info.conn = c
      BY <3>1, <2>w DEF SocketInfo
    <3>3. sockets'[fd] = info /\ \A f \in Fds \ {fd} : sockets'[f] = sockets[f]
      BY <3>1, <2>2, <1>t DEF TypeOK
    <3>4. /\ conn'[c].broken
          /\ \A d \in Conns : d # c => conn'[d] = conn[d]
          /\ \A d \in Conns : ~conn'[d].broken => conn'[d] = conn[d]
      BY <2>2, <2>w, <1>t DEF TypeOK
    <3>5. \A f \in Fds : InUse(f) => sockets[f].conn \in Conns
      BY <1>t, Members DEF SocketInfo
    <3>6. \A f \in Fds : InUse(f)' =>
           \/ /\ InUse(f) /\ sockets'[f].conn = sockets[f].conn
              /\ sockets'[f].writer = sockets[f].writer /\ sockets'[f].offset = sockets[f].offset
              /\ ~conn'[sockets[f].conn].broken => ~conn[sockets[f].conn].broken
           \/ sockets'[f].writer = NoWrite /\ conn'[sockets'[f].conn].broken
      BY <3>2, <3>3, <3>4, <3>5 DEF InUse
    <3>7. \A f \in Fds : InUse(f) /\ sockets[f].writer # NoWrite =>
           \/ InUse(f)' /\ sockets'[f].writer = sockets[f].writer
           \/ ~conn'[sockets[f].conn].open \/ conn'[sockets[f].conn].broken
      BY <3>3, <3>4, <2>w DEF InUse
    <3>8. \A w \in 1 .. Len(writeTo) :
            conn'[writeTo[w]].open /\ ~conn'[writeTo[w]].broken =>
              conn[writeTo[w]].open /\ ~conn[writeTo[w]].broken
      BY <3>4, <1>t, Members
    <3>9. /\ Len(pendingOps) <= Len(pendingOps') /\ Len(writeTo) <= Len(writeTo')
          /\ \A i \in 1 .. Len(pendingOps') : i \in Ops
      BY <2>u, <1>t, Members DEF Ops
    <3> QED BY <3>6, <3>7, <3>8, <3>9, <2>u, SlotsKept
  <2> QED BY <1>2, <2>1, <2>2 DEF handleWritableError
<1> QED BY <1>1, <1>2

(***************************************************************************)
(* A read callback that commits no breach writes to connections that have  *)
(* nothing outstanding, to each once, and not to the one it closes.        *)
(***************************************************************************)
LEMMA ReadKeeps ==
  ASSUME PalInv, PalInv', SlotInv, breach = {}, breach' = {}, NEW fd \in Fds, handleReadable(fd)
  PROVE  SlotInv'
<1>r. PICK r \in Conns : r = sockets[fd].reader /\ r = sockets[fd].conn
        /\ conn[r].fd = fd /\ conn[r].open /\ InUse(fd)
  BY ReaderIsOwner DEF handleReadable, InUse, Owner
<1>t. TypeOK /\ SocketInv /\ WriteInv /\ "queued write" \notin breach
  BY DEF PalInv
<1>u. wire' = wire
  BY DEF handleReadable
<1>o. PICK to \in Bursts(r) :
        /\ writeTo' = writeTo \o to
        /\ pendingOps' = pendingOps \o Append(WriteOps(to), ReadOp(r, conn[r].fd))
        /\ \/ /\ sockets' = [sockets EXCEPT ![fd].reader = NoConn]
              /\ conn' = [conn EXCEPT ![r].sent = FALSE]
              /\ breach' = breach \cup Writing(to)
           \/ /\ closeSocket(r)
              /\ breach' = breach \cup Writing(to)
                   \cup Closing(Queued(r) \/ \E i \in 1 .. Len(to) : to[i] = r)
  BY <1>r DEF handleReadable
<1>b. /\ to \in Seq(Conns)
      /\ \A i \in 1 .. Len(to) : conn[to[i]].open \/ to[i] = r
      /\ Len(writeTo') = Len(writeTo) + Len(to)
      /\ \A w \in 1 .. Len(writeTo) : writeTo'[w] = writeTo[w]
      /\ Len(pendingOps') = Len(pendingOps) + Len(to) + 1
      /\ \A i \in Ops : pendingOps'[i] = pendingOps[i]
      /\ \A i \in 1 .. Len(to) :
           pendingOps'[Len(pendingOps) + i] = WriteOp(to[i], Len(writeTo) + i)
      /\ pendingOps'[Len(pendingOps) + Len(to) + 1] = ReadOp(r, conn[r].fd)
  <2>1. conn[r].fd \in Fds
    BY <1>r
  <2> QED BY ZenonT(60), <2>1, <1>o, BurstQueued
<1>n. PICK n \in Nat, m \in Nat, l \in Nat :
        n = Len(pendingOps) /\ m = Len(to) /\ l = Len(writeTo)
  <2>1. Len(pendingOps) \in Nat /\ Len(writeTo) \in Nat
    BY <1>t, Members
  <2>2. Len(to) \in Nat
    BY <1>b
  <2> QED BY <2>1, <2>2
<1>q. /\ Len(pendingOps) <= Len(pendingOps') /\ Len(writeTo) <= Len(writeTo')
      /\ Len(writeTo') = l + m /\ Len(pendingOps') = n + m + 1
  BY <1>b, <1>n
<1>w. /\ \A j \in 1 .. m : to[j] \in Conns /\ conn[to[j]].open /\ ~Outstanding(to[j])
      /\ \A i, j \in 1 .. m : to[i] = to[j] => i = j
  <2>1. \A j \in 1 .. m : to[j] \in Conns /\ conn[to[j]].open
    BY <1>b, <1>n, <1>r
  <2>2. "second write" \notin Writing(to)
    BY <1>o
  <2> QED BY <2>1, <2>2, <1>n DEF Writing
<1>s. \A j \in 1 .. m : /\ ~Queued(to[j]) /\ conn[to[j]].fd \in Fds /\ InUse(conn[to[j]].fd)
                        /\ sockets[conn[to[j]].fd].writer = NoWrite
                        /\ sockets[conn[to[j]].fd].conn = to[j]
  <2>1. \A j \in 1 .. m : /\ conn[to[j]].fd \in Fds /\ InUse(conn[to[j]].fd)
                          /\ sockets[conn[to[j]].fd].conn = to[j]
    BY <1>w, <1>t DEF SocketInv, WriteInv, Owner
  <2> QED BY <2>1, <1>w DEF Outstanding, InUse
<1>f. \A j \in 1 .. m : /\ pendingOps'[n + j].type = "write"
                        /\ pendingOps'[n + j].write = l + j
                        /\ pendingOps'[n + j].conn = to[j]
                        /\ pendingOps'[n + j].fd = conn[to[j]].fd
  <2>1. \A j \in 1 .. m : pendingOps'[n + j] = WriteOp(to[j], l + j)
    BY <1>b, <1>n
  <2>2. \A c, w : /\ WriteOp(c, w).type = "write" /\ WriteOp(c, w).write = w
                  /\ WriteOp(c, w).conn = c /\ WriteOp(c, w).fd = conn[c].fd
    BY DEF WriteOp
  <2> QED BY <2>1, <2>2
<1>g. pendingOps'[n + m + 1].type = "read"
  BY <1>b, <1>n DEF ReadOp
<1>i. /\ \A i \in 1 .. (n + m + 1) : i \notin 1 .. n /\ pendingOps'[i].type = "write" =>
           \E j \in 1 .. m : i = n + j
      /\ \A w \in 1 .. (l + m) : w \notin 1 .. l => \E j \in 1 .. m : w = l + j
      /\ \A j \in 1 .. m : n + j \in 1 .. (n + m + 1)
  <2>1. \A i \in 1 .. (n + m + 1) : i \in 1 .. n \/ (i - n \in 1 .. m /\ i = n + (i - n)) \/ i = n + m + 1
    BY <1>n
  <2>2. \A w \in 1 .. (l + m) : w \in 1 .. l \/ (w - l \in 1 .. m /\ w = l + (w - l))
    BY <1>n
  <2>3. \A j \in 1 .. m : n + j \in 1 .. (n + m + 1)
    BY <1>n
  <2> QED BY <2>1, <2>2, <2>3, <1>g
<1>1. \A w \in 1 .. Len(writeTo') : w \notin 1 .. Len(writeTo) =>
        \E i \in 1 .. Len(pendingOps') : pendingOps'[i].write = w
  <2> SUFFICES ASSUME NEW w \in 1 .. (l + m), w \notin 1 .. l
               PROVE  \E i \in 1 .. (n + m + 1) : pendingOps'[i].write = w
    BY <1>n, <1>q
  <2>1. PICK j \in 1 .. m : w = l + j
    BY <1>i
  <2> QED BY <2>1, <1>i, <1>f
<1>2. ASSUME \A j \in 1 .. m : sockets'[conn[to[j]].fd].writer = NoWrite
      PROVE  \A i \in 1 .. Len(pendingOps') : i \notin Ops /\ pendingOps'[i].type = "write" =>
               /\ sockets'[pendingOps'[i].fd].writer = NoWrite
               /\ ~Queued(pendingOps'[i].conn)
               /\ \A j \in 1 .. Len(pendingOps') :
                    j \notin Ops /\ pendingOps'[j].type = "write"
                      /\ pendingOps'[j].conn = pendingOps'[i].conn => j = i
  <2> SUFFICES ASSUME NEW i \in 1 .. (n + m + 1), i \notin 1 .. n, pendingOps'[i].type = "write"
               PROVE  /\ sockets'[pendingOps'[i].fd].writer = NoWrite
                      /\ ~Queued(pendingOps'[i].conn)
                      /\ \A j \in 1 .. (n + m + 1) :
                           j \notin 1 .. n /\ pendingOps'[j].type = "write"
                             /\ pendingOps'[j].conn = pendingOps'[i].conn => j = i
    BY <1>n, <1>q DEF Ops
  <2>1. PICK k \in 1 .. m : i = n + k
    BY <1>i
  <2>2. ASSUME NEW j \in 1 .. (n + m + 1), j \notin 1 .. n, pendingOps'[j].type = "write",
               pendingOps'[j].conn = pendingOps'[i].conn
        PROVE  j = i
    <3>1. PICK h \in 1 .. m : j = n + h
      BY <2>2, <1>i
    <3>2. to[h] = to[k]
      BY <3>1, <2>1, <2>2, <1>f
    <3> QED BY <3>1, <3>2, <2>1, <1>w
  <2> QED BY <2>1, <2>2, <1>2, <1>f, <1>s
<1>3. \A f \in Fds : InUse(f) => sockets[f].conn \in Conns
  BY <1>t, Members DEF SocketInfo
<1>4. CASE /\ sockets' = [sockets EXCEPT ![fd].reader = NoConn]
           /\ conn' = [conn EXCEPT ![r].sent = FALSE]
  <2>1. sockets \in [Fds -> SocketInfo \cup {NoSocket}] /\ sockets[fd] \in SocketInfo
    BY <1>r, <1>t, Members DEF TypeOK
  <2>2. PICK info : info = [sockets[fd] EXCEPT !.reader = NoConn]
    OBVIOUS
  <2>3. /\ info \in SocketInfo /\ info.conn = sockets[fd].conn
        /\ info.writer = sockets[fd].writer /\ info.offset = sockets[fd].offset
    BY <2>1, <2>2 DEF SocketInfo
  <2>4. sockets' = [sockets EXCEPT ![fd] = info]
    BY <1>4, <2>1, <2>2
  <2>5. \A f \in Fds : /\ InUse(f)' <=> InUse(f)
                       /\ InUse(f) => /\ sockets'[f].conn = sockets[f].conn
                                      /\ sockets'[f].writer = sockets[f].writer
                                      /\ sockets'[f].offset = sockets[f].offset
    BY <2>1, <2>3, <2>4, <1>r, NoSocketAssumption DEF InUse
  <2>6. \A d \in Conns : conn'[d].open = conn[d].open /\ conn'[d].broken = conn[d].broken
    BY <1>4, <1>t DEF TypeOK
  <2>7. \A j \in 1 .. m : sockets'[conn[to[j]].fd].writer = NoWrite
    BY <2>5, <1>s
  <2>8. \A w \in 1 .. Len(writeTo) :
          conn'[writeTo[w]].open /\ ~conn'[writeTo[w]].broken =>
            conn[writeTo[w]].open /\ ~conn[writeTo[w]].broken
    BY <2>6, <1>t, Members
  <2>9. \A f \in Fds : InUse(f) /\ ~conn'[sockets[f].conn].broken => ~conn[sockets[f].conn].broken
    BY <2>6, <1>3
  <2> QED BY <2>5, <2>7, <2>8, <2>9, <1>1, <1>2, <1>b, <1>q, <1>u, SlotsKept
<1>5. CASE closeSocket(r) /\ breach' = breach \cup Writing(to)
                   \cup Closing(Queued(r) \/ \E i \in 1 .. Len(to) : to[i] = r)
  <2>1. /\ \A f \in Fds : InUse(f)' =>
              /\ f # conn[r].fd /\ InUse(f) /\ Owner(f) # r
              /\ sockets'[f] = sockets[f]
        /\ \A f \in Fds : InUse(f) /\ f # conn[r].fd => sockets'[f] = sockets[f]
        /\ \A d \in Conns : /\ conn'[d].broken = conn[d].broken
                            /\ conn'[d].open => d # r /\ conn[d].open
    <3>1. conn[r].fd \in Fds
      BY <1>r
    <3> QED BY <3>1, <1>5, CloseEffect
  <2>2. \A j \in 1 .. m : to[j] # r
    <3>1. "queued write" \notin Closing(Queued(r) \/ \E i \in 1 .. Len(to) : to[i] = r)
      BY <1>5
    <3> QED BY <3>1, <1>n DEF Closing
  <2>3. \A j \in 1 .. m : sockets'[conn[to[j]].fd].writer = NoWrite
    <3> SUFFICES ASSUME NEW j \in 1 .. m PROVE sockets'[conn[to[j]].fd].writer = NoWrite
      OBVIOUS
    <3>1. conn[to[j]].fd # conn[r].fd
      BY <2>2, <1>s, <1>r
    <3> QED BY <3>1, <2>1, <1>s
  <2>4. \A f \in Fds : InUse(f)' =>
          /\ InUse(f) /\ sockets'[f].conn = sockets[f].conn
          /\ sockets'[f].writer = sockets[f].writer /\ sockets'[f].offset = sockets[f].offset
          /\ ~conn'[sockets[f].conn].broken => ~conn[sockets[f].conn].broken
    BY <2>1, <1>3
  <2>5. \A f \in Fds : InUse(f) /\ sockets[f].writer # NoWrite =>
          \/ InUse(f)' /\ sockets'[f].writer = sockets[f].writer
          \/ ~conn'[sockets[f].conn].open \/ conn'[sockets[f].conn].broken
    BY <2>1, <1>r, <1>3 DEF InUse
  <2>6. \A w \in 1 .. Len(writeTo) :
          conn'[writeTo[w]].open /\ ~conn'[writeTo[w]].broken =>
            conn[writeTo[w]].open /\ ~conn[writeTo[w]].broken
    BY <2>1, <1>t, Members
  <2> QED BY <2>3, <2>4, <2>5, <2>6, <1>1, <1>2, <1>b, <1>q, <1>u, SlotsKept
<1> QED BY <1>o, <1>4, <1>5

(***************************************************************************)
(* The remaining steps leave the queue, the slots and the wire alone.      *)
(***************************************************************************)
LEMMA TurnKeeps ==
  ASSUME PalInv, PalInv', SlotInv, breach = {},
         \/ \E c \in Conns : PeerSends(c)
         \/ processEventsDone \/ processPendingOpsDone \/ UNCHANGED vars
  PROVE  SlotInv'
<1>t. TypeOK
  BY DEF PalInv
<1>u. UNCHANGED <<sockets, pendingOps, writeTo, wire, breach>>
  BY DEF PeerSends, processEventsDone, processPendingOpsDone, vars
<1>1. \A d \in Conns : conn'[d].open = conn[d].open /\ conn'[d].broken = conn[d].broken
  <2>1. CASE \E c \in Conns : PeerSends(c)
    BY <2>1, <1>t DEF PeerSends, TypeOK
  <2>2. CASE conn' = conn
    BY <2>2
  <2> QED BY <2>1, <2>2 DEF processEventsDone, processPendingOpsDone, vars
<1>2. /\ \A f \in Fds : InUse(f)' <=> InUse(f)
      /\ \A f \in Fds : InUse(f) /\ ~conn'[sockets[f].conn].broken => ~conn[sockets[f].conn].broken
  BY <1>1, <1>u, <1>t, Members DEF SocketInfo, InUse
<1>3. \A w \in 1 .. Len(writeTo) :
        conn'[writeTo[w]].open /\ ~conn'[writeTo[w]].broken =>
          conn[writeTo[w]].open /\ ~conn[writeTo[w]].broken
  BY <1>1, <1>t, Members
<1>4. /\ Len(pendingOps) <= Len(pendingOps') /\ Len(writeTo) <= Len(writeTo')
      /\ \A i \in 1 .. Len(pendingOps') : i \in Ops
  BY <1>u, <1>t, Members DEF Ops
<1> QED BY <1>2, <1>3, <1>4, <1>u, SlotsKept

(***************************************************************************)
(* A buffer written by DarwinNetworkPAL::asyncWrite to a connection that   *)
(* works is not lost, and buffers are sent whole and one after the other,  *)
(* as long as the callbacks write to a connection one buffer at a time.    *)
(***************************************************************************)
THEOREM NoWriteIsLost == Spec => []NoWriteLost
<1>1. Init => SlotInv
  <2> SUFFICES ASSUME Init PROVE SlotInv
    OBVIOUS
  <2>1. Len(pendingOps) = 1 /\ pendingOps[1] = AcceptOp /\ AcceptOp.type = "accept"
    BY DEF Init, AcceptOp
  <2>2. \A i \in Ops : pendingOps[i].type # "write"
    BY <2>1 DEF Ops
  <2>3. /\ \A fd \in Fds : ~InUse(fd)
        /\ \A c \in Conns : WireIntact(c)
        /\ \A w : w \notin Deliverable
    BY DEF Init, InUse, WireIntact, Deliverable
  <2> QED BY <2>2, <2>3 DEF SlotInv
<1>2. SlotInv /\ PalInv /\ PalInv' /\ [Next]_vars => SlotInv'
  <2> SUFFICES ASSUME SlotInv, PalInv, PalInv', [Next]_vars, breach' = {} PROVE SlotInv'
    BY SMTT(60) DEF SlotInv
  <2>1. breach = {}
    BY ZenonT(60) DEF Next, Loop, vars, handleReadableServer, PeerSends, handleReadable, handleReadableEnd,
           handleWritable, WritePart, handleWritableError, processEventsDone, processPendingOp,
           processPendingOpsDone
  <2> QED BY <2>1, AcceptKeeps, TurnKeeps, ReadKeeps, FailureKeeps, SendKeeps, InstallKeeps
          DEF Next, Loop
<1>3. SlotInv => NoWriteLost
  BY DEF SlotInv, NoWriteLost
<1> QED BY <1>1, <1>2, <1>3, PalInvariance, PTL DEF Spec
=============================================================================
