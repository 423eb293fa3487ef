---------------------------- MODULE LinuxNetworkPAL ----------------------------
(***************************************************************************)
(* pal::linux::LinuxNetworkPAL: edge-triggered epoll, operations queued by *)
(* any thread and installed by the event loop at the start of each turn.   *)
(* One listening socket and one client; epoll and the sockets are external *)
(* and modelled by how the PAL uses them: an edge is reported once, and    *)
(* EPOLL_CTL_MOD reports what is ready again.                              *)
(***************************************************************************)
EXTENDS Naturals, Sequences

CONSTANTS
  MaxArrivals,   \* bound: connections, and pieces of data of the client
  MaxAsync       \* bound: operations of each type
ASSUME LinuxAssumption == MaxArrivals \in Nat /\ MaxAsync \in Nat

VARIABLES
  lnOps,       \* pendingOps_
  lnBatch,     \* the operations of this turn that are still to be installed
  lnCallback,  \* acceptCallback, readCallback and writeCallback are set
  lnInterest,  \* the events each socket is registered for
  lnEdge,      \* events epoll has to report
  lnEvents,    \* events of this turn that are still to be handled
  lnWaiting,   \* connections to accept, data to read
  lnSpace,     \* the client's socket takes data
  lnListed,    \* the client is in sockets_
  lnPeerOpen,  \* the client has not closed its end
  lnAsked,     \* operations queued, per type
  lnStuck      \* the loop waits for socketsMutex_, which it holds

linuxVars == <<lnOps, lnBatch, lnCallback, lnInterest, lnEdge, lnEvents, lnWaiting,
               lnSpace, lnListed, lnPeerOpen, lnAsked, lnStuck>>

OpTypes == {"accept", "read", "write"}
SocketOf(type) == IF type = "accept" THEN "server" ELSE "client"
Readable(s) == lnWaiting[s] > 0 \/ (s = "client" /\ ~lnPeerOpen)

\* What is ready on s, of the events it is registered for.
ReadyEvents(s, interest) ==
  {e \in interest : IF e = "in" THEN Readable(s) ELSE lnSpace}

LinuxInit ==
  /\ lnOps = <<>> /\ lnBatch = <<>>
  /\ lnCallback = [type \in OpTypes |-> FALSE]
  /\ lnInterest = [server |-> {"in"}, client |-> {}]
  /\ lnEdge = [server |-> {}, client |-> {}]
  /\ lnEvents = [server |-> {}, client |-> {}]
  /\ lnWaiting = [server |-> 0, client |-> 0]
  /\ lnSpace = TRUE
  /\ lnListed = FALSE
  /\ lnPeerOpen = TRUE
  /\ lnAsked = [type \in OpTypes |-> 0]
  /\ lnStuck = FALSE

-----------------------------------------------------------------------------
(* The peers and the callers.                                               *)

arrive(s) ==
  /\ lnWaiting[s] < MaxArrivals /\ (s = "client" => lnListed /\ lnPeerOpen)
  /\ lnWaiting' = [lnWaiting EXCEPT ![s] = @ + 1]
  /\ lnEdge' = [lnEdge EXCEPT ![s] = @ \union (lnInterest[s] \cap {"in"})]
  /\ UNCHANGED <<lnOps, lnBatch, lnCallback, lnInterest, lnEvents, lnSpace, lnListed,
                 lnPeerOpen, lnAsked, lnStuck>>

takeSent ==
  /\ ~lnSpace /\ lnSpace' = TRUE
  /\ lnEdge' = [lnEdge EXCEPT !.client = @ \union (lnInterest.client \cap {"out"})]
  /\ UNCHANGED <<lnOps, lnBatch, lnCallback, lnInterest, lnEvents, lnWaiting, lnListed,
                 lnPeerOpen, lnAsked, lnStuck>>

peerCloses ==
  /\ lnListed /\ lnPeerOpen /\ lnPeerOpen' = FALSE
  /\ lnEdge' = [lnEdge EXCEPT !.client = @ \union (lnInterest.client \cap {"in"})]
  /\ UNCHANGED <<lnOps, lnBatch, lnCallback, lnInterest, lnEvents, lnWaiting, lnSpace,
                 lnListed, lnAsked, lnStuck>>

\* asyncAccept, asyncRead and asyncWrite; a caller has one of each at a time.
async(type) ==
  /\ lnAsked[type] < MaxAsync /\ ~lnCallback[type]
  /\ \A i \in 1..Len(lnOps) : lnOps[i] # type
  /\ \A i \in 1..Len(lnBatch) : lnBatch[i] # type
  /\ type = "accept" \/ lnListed
  /\ lnOps' = Append(lnOps, type)
  /\ lnAsked' = [lnAsked EXCEPT ![type] = @ + 1]
  /\ UNCHANGED <<lnBatch, lnCallback, lnInterest, lnEdge, lnEvents, lnWaiting, lnSpace,
                 lnListed, lnPeerOpen, lnStuck>>

\* closeSocket by another thread, while the loop does not hold the lock.
closeClient ==
  /\ lnListed /\ ~lnStuck
  /\ lnListed' = FALSE
  /\ lnCallback' = [lnCallback EXCEPT !["read"] = FALSE, !["write"] = FALSE]
  /\ lnInterest' = [lnInterest EXCEPT !.client = {}]
  /\ lnEdge' = [lnEdge EXCEPT !.client = {}]
  /\ lnWaiting' = [lnWaiting EXCEPT !.client = 0]
  /\ UNCHANGED <<lnOps, lnBatch, lnEvents, lnSpace, lnPeerOpen, lnAsked, lnStuck>>

-----------------------------------------------------------------------------
(* The event loop.                                                          *)

Looping == ~lnStuck
BetweenTurns == lnBatch = <<>> /\ lnEvents = [server |-> {}, client |-> {}]

takeOps ==
  /\ Looping /\ BetweenTurns /\ lnOps # <<>>
  /\ lnBatch' = lnOps /\ lnOps' = <<>>
  /\ UNCHANGED <<lnCallback, lnInterest, lnEdge, lnEvents, lnWaiting, lnSpace, lnListed,
                 lnPeerOpen, lnAsked, lnStuck>>

\* registerWithEpoll with EPOLL_CTL_MOD.
Register(s, interest) ==
  /\ lnInterest' = [lnInterest EXCEPT ![s] = interest]
  /\ lnEdge' = [lnEdge EXCEPT ![s] = ReadyEvents(s, interest)]

\* Mutant: a read on a socket that is registered already is not registered again.
installOnce ==
  LET type == Head(lnBatch) IN
  /\ lnCallback' = [lnCallback EXCEPT ![type] = TRUE]
  /\ IF type = "write" THEN Register("client", {"in", "out"})
     ELSE UNCHANGED <<lnInterest, lnEdge>>

\* The callback is stored and the socket registered, for reading only or for
\* both.  A read after a write takes the write's event away.
install ==
  LET type == Head(lnBatch) IN
  /\ lnCallback' = [lnCallback EXCEPT ![type] = TRUE]
  /\ Register(SocketOf(type), IF type = "write" THEN {"in", "out"} ELSE {"in"})

processPendingOps ==
  /\ Looping /\ lnBatch # <<>>
  /\ lnBatch' = Tail(lnBatch)
  /\ \/ (Head(lnBatch) = "accept" \/ lnListed) /\ install
     \/ Head(lnBatch) # "accept" /\ ~lnListed       \* the callback gets an error
        /\ UNCHANGED <<lnCallback, lnInterest, lnEdge>>
  /\ UNCHANGED <<lnOps, lnEvents, lnWaiting, lnSpace, lnListed, lnPeerOpen, lnAsked, lnStuck>>

processEvents ==
  /\ Looping /\ BetweenTurns /\ lnOps = <<>>
  /\ lnEdge # [server |-> {}, client |-> {}]
  /\ lnEvents' = lnEdge
  /\ lnEdge' = [server |-> {}, client |-> {}]
  /\ UNCHANGED <<lnOps, lnBatch, lnCallback, lnInterest, lnWaiting, lnSpace, lnListed,
                 lnPeerOpen, lnAsked, lnStuck>>

Handled(s, e) == lnEvents' = [lnEvents EXCEPT ![s] = @ \ {e}]

\* One connection is accepted per event, and then only asyncAccept registers
\* the listening socket again.  A second client is accepted and not followed.
handleAccept ==
  /\ Looping /\ "in" \in lnEvents.server
  /\ Handled("server", "in")
  /\ IF lnCallback["accept"] /\ lnWaiting.server > 0
     THEN /\ lnWaiting' = [lnWaiting EXCEPT !.server = @ - 1]
          /\ lnCallback' = [lnCallback EXCEPT !["accept"] = FALSE]
     ELSE UNCHANGED <<lnWaiting, lnCallback>>
  /\ IF lnCallback["accept"] /\ lnWaiting.server > 0 /\ ~lnListed
     THEN /\ lnListed' = TRUE /\ lnPeerOpen' = TRUE /\ lnSpace' = TRUE
          /\ lnInterest' = [lnInterest EXCEPT !.client = {"in"}]
     ELSE UNCHANGED <<lnListed, lnPeerOpen, lnSpace, lnInterest>>
  /\ UNCHANGED <<lnOps, lnBatch, lnEdge, lnAsked, lnStuck>>

\* The callback runs with socketsMutex_ held: one that queues operations
\* returns, one that closes a socket never does.
CallUnderLock == lnStuck' \in BOOLEAN

handleRead ==
  /\ Looping /\ "in" \in lnEvents.client /\ lnListed
  /\ lnCallback["read"] /\ Readable("client")
  /\ Handled("client", "in")
  /\ lnCallback' = [lnCallback EXCEPT !["read"] = FALSE]
  /\ lnWaiting' = [lnWaiting EXCEPT !.client = IF @ = 0 THEN 0 ELSE @ - 1]
  /\ CallUnderLock
  /\ UNCHANGED <<lnOps, lnBatch, lnInterest, lnEdge, lnSpace, lnListed, lnPeerOpen, lnAsked>>

\* Nobody reads, the socket is gone, or read() says EAGAIN.
passOverRead ==
  /\ Looping /\ "in" \in lnEvents.client
  /\ ~(lnListed /\ lnCallback["read"] /\ Readable("client"))
  /\ Handled("client", "in")
  /\ UNCHANGED <<lnOps, lnBatch, lnCallback, lnInterest, lnEdge, lnWaiting, lnSpace,
                 lnListed, lnPeerOpen, lnAsked, lnStuck>>

\* The rest of the data is written: the socket is registered for reading.
handleWritable ==
  /\ Looping /\ lnEvents.client = {"out"} /\ lnListed /\ lnCallback["write"] /\ lnSpace
  /\ Handled("client", "out")
  /\ lnCallback' = [lnCallback EXCEPT !["write"] = FALSE]
  /\ Register("client", {"in"})
  /\ lnSpace' \in BOOLEAN /\ CallUnderLock
  /\ UNCHANGED <<lnOps, lnBatch, lnWaiting, lnListed, lnPeerOpen, lnAsked>>

\* A part is written and the socket is full, or there is nothing to write.
writePart ==
  /\ Looping /\ lnEvents.client = {"out"}
  /\ Handled("client", "out")
  /\ lnSpace' = IF lnListed /\ lnCallback["write"] THEN FALSE ELSE lnSpace
  /\ UNCHANGED <<lnOps, lnBatch, lnCallback, lnInterest, lnEdge, lnWaiting, lnListed,
                 lnPeerOpen, lnAsked, lnStuck>>

LinuxLoop == takeOps \/ processPendingOps \/ processEvents \/ handleAccept \/ handleRead
             \/ passOverRead \/ handleWritable \/ writePart

LinuxNext ==
  \/ LinuxLoop \/ takeSent \/ peerCloses \/ closeClient
  \/ \E s \in {"server", "client"} : arrive(s)
  \/ \E type \in OpTypes : async(type)

\* The loop runs, and the client takes what it is sent; a buffer is finite, so
\* that a socket with room ends up taking the rest of it.
LinuxFair ==
  /\ WF_linuxVars(LinuxLoop) /\ WF_linuxVars(takeSent) /\ SF_linuxVars(handleWritable)

LinuxSpec == LinuxInit /\ [][LinuxNext]_linuxVars /\ LinuxFair

-----------------------------------------------------------------------------

\* No wake-up is lost to the edge trigger: while a callback waits for
\* something that is there, its event is reported or about to be.  This rests
\* on every installation registering the socket again.
EdgesNotLost ==
  /\ lnCallback["accept"] /\ lnWaiting.server > 0 =>
       "in" \in lnEdge.server \union lnEvents.server
  /\ lnCallback["read"] /\ lnListed /\ Readable("client") =>
       "in" \in lnEdge.client \union lnEvents.client \/ lnStuck

\* What network_pal.hpp says of asyncWrite: "The callback is invoked when the
\* data has been written or an error occurs", for a client that stays.
WriteAnswered ==
  lnCallback["write"] ~> (~lnCallback["write"] \/ lnStuck \/ ~lnPeerOpen)

===============================================================================
