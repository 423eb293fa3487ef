--------------------------- MODULE StreamDirectory --------------------------
(***************************************************************************)
(* What stream-key ownership promises: a key has at most one owner, only   *)
(* a connection that found the key free becomes its owner, and only the    *)
(* owner gives it up.  The abstract specification CommandHandler is        *)
(* shown to implement.                                                     *)
(***************************************************************************)
CONSTANTS Keys, Conns, NoConn

VARIABLES
  owner,   \* the connection publishing each key, or NoConn
  actor    \* the connection whose command was processed last, or NoConn

vars == <<owner, actor>>

Init ==
  /\ owner = [k \in Keys |-> NoConn]
  /\ actor = NoConn

Acquire(c, k) ==
  /\ owner[k] = NoConn
  /\ owner' = [owner EXCEPT ![k] = c]
  /\ actor' = c

Release(c, k) ==
  /\ owner[k] = c
  /\ owner' = [owner EXCEPT ![k] = NoConn]
  /\ actor' = c

Other(c) ==
  /\ actor' = c
  /\ UNCHANGED owner

Next ==
  \E c \in Conns :
    \/ \E k \in Keys : Acquire(c, k) \/ Release(c, k)
    \/ Other(c)

Spec == Init /\ [][Next]_vars
=============================================================================
