------------------------ MODULE MessageAssemblerProofs ------------------------
(***************************************************************************)
(* Proofs about the assembler.  The chunk streams share nothing, so the    *)
(* invariant speaks of one stream: its buffer holds the bytes sent so far  *)
(* of the message under way, and what was handed on is what was sent.      *)
(***************************************************************************)
EXTENDS MessageAssembler, SequenceTheorems, TLAPS


\* What the assembler holds of a stream, what the sender has under way, and
\* a message sent to its end.
Types == AssemblyTypes \union {0}
Holding == [expected : Nat, type : Types, buffer : Seq(Nat), started : BOOLEAN]
UnderWay == [id : Nat, type : Types, length : Nat, left : Nat]
Whole == Types \X Nat \X Nat

\* A message as the callback gets it, when its bytes are all its own.
Handed(m) == <<m[1], [j \in 1..m[2] |-> m[3]], categorizeMessageType(m[1])>>

Rebuilt(w, out) ==
  /\ w \in Seq(Whole)
  /\ out = [k \in 1..Len(w) |-> Handed(w[k])]

\* The buffer holds the bytes sent so far of the message under way.
Follows(a, m) ==
  /\ a \in Holding /\ m \in UnderWay
  /\ m = NoMessage => ~a.started /\ a.buffer = <<>>
  /\ m # NoMessage =>
       /\ m.left > 0 /\ m.left <= m.length
       /\ a.started /\ a.expected = m.length /\ a.type = m.type
       /\ Len(a.buffer) = m.length - m.left
       /\ \A j \in 1..(m.length - m.left) : a.buffer[j] = m.id

\* Every stream by itself follows its sender and has handed on what was sent.
AssemblyInv ==
  /\ sent \in [AssemblyStreams -> Nat]
  /\ DOMAIN assembly = AssemblyStreams /\ DOMAIN sending = AssemblyStreams
  /\ DOMAIN whole = AssemblyStreams /\ DOMAIN assembled = AssemblyStreams
  /\ \A c \in AssemblyStreams : Follows(assembly[c], sending[c]) /\ Rebuilt(whole[c], assembled[c])

(***************************************************************************)
(* A message sent to its end and handed on with its own bytes.             *)
(***************************************************************************)
LEMMA AppendRebuilt ==
  ASSUME NEW w, NEW out, Rebuilt(w, out), NEW m \in Whole
  PROVE  Rebuilt(Append(w, m), Append(out, Handed(m)))
<1> DEFINE n == Len(w)
           f == [k \in 1..n |-> Handed(w[k])]
<1>1. w \in Seq(Whole) /\ n \in Nat /\ out = f
  BY DEF Rebuilt
<1>2. /\ Append(w, m) \in Seq(Whole) /\ Len(Append(w, m)) = n + 1
      /\ Append(w, m)[n + 1] = m
      /\ \A k \in 1..n : Append(w, m)[k] = w[k]
  BY <1>1
<1> DEFINE H == {Handed(w[k]) : k \in 1..n} \union {Handed(m)}
<1>3. f \in [1..n -> H] /\ Handed(m) \in H
  OBVIOUS
<1>4. f \in Seq(H) /\ Len(f) = n
  BY <1>1, <1>3
<1>5. \A k \in 1..n : f[k] = Handed(w[k])
  OBVIOUS
<1> HIDE DEF f, H, n
<1>6. /\ Append(f, Handed(m)) \in Seq(H) /\ Len(Append(f, Handed(m))) = n + 1
      /\ Append(f, Handed(m))[n + 1] = Handed(m)
      /\ \A k \in 1..n : Append(f, Handed(m))[k] = Handed(w[k])
  BY <1>1, <1>3, <1>4, <1>5
<1>7. ASSUME NEW k \in 1..(n + 1) PROVE Append(f, Handed(m))[k] = Handed(Append(w, m)[k])
  <2>1. CASE k = n + 1
    BY <2>1, <1>2, <1>6
  <2>2. CASE k # n + 1
    <3>1. k \in 1..n
      BY <2>2, <1>1
    <3> QED BY <3>1, <1>2, <1>6
  <2> QED BY <2>1, <2>2
<1>8. DOMAIN Append(f, Handed(m)) = 1..(n + 1)
  BY <1>6
<1>9. Append(f, Handed(m)) = [k \in 1..(n + 1) |-> Append(f, Handed(m))[k]]
  <2> DEFINE h == Append(f, Handed(m))
  <2>1. h \in Seq(H) /\ DOMAIN h = 1..(n + 1)
    BY <1>6, <1>8
  <2> HIDE DEF h
  <2>2. h = [k \in 1..(n + 1) |-> h[k]]
    BY <2>1
  <2> QED BY <2>2 DEF h
<1>10. Append(f, Handed(m)) = [k \in 1..(n + 1) |-> Handed(Append(w, m)[k])]
  BY <1>7, <1>9
<1> QED BY <1>1, <1>2, <1>10 DEF Rebuilt

(***************************************************************************)
(* Bytes of one message appended to a buffer that holds its bytes only.    *)
(***************************************************************************)
LEMMA SameBytes ==
  ASSUME NEW b \in Seq(Nat), NEW n \in Nat, NEW id \in Nat,
         \A j \in 1..Len(b) : b[j] = id
  PROVE  /\ b \o [i \in 1..n |-> id] \in Seq(Nat)
         /\ Len(b \o [i \in 1..n |-> id]) = Len(b) + n
         /\ \A j \in 1..(Len(b) + n) : (b \o [i \in 1..n |-> id])[j] = id
         /\ b \o [i \in 1..n |-> id] = [j \in 1..(Len(b) + n) |-> id]
<1> DEFINE g == [i \in 1..n |-> id]
           s == b \o g
           l == Len(b)
<1>1. g \in Seq(Nat) /\ Len(g) = n /\ \A i \in 1..n : g[i] = id
  OBVIOUS
<1> HIDE DEF g
<1>2. /\ s \in Seq(Nat) /\ Len(s) = l + n /\ l \in Nat /\ DOMAIN s = 1..(l + n)
      /\ \A j \in 1..(l + n) : s[j] = IF j <= l THEN b[j] ELSE g[j - l]
  BY <1>1
<1> HIDE DEF s, l
<1>3. ASSUME NEW j \in 1..(l + n) PROVE s[j] = id
  <2>1. CASE j <= l
    BY <2>1, <1>2 DEF l
  <2>2. CASE ~(j <= l)
    <3>1. j - l \in 1..n
      BY <2>2, <1>2
    <3> QED BY <3>1, <2>2, <1>1, <1>2
  <2> QED BY <2>1, <2>2
<1>4. s = [j \in 1..(l + n) |-> s[j]]
  BY <1>2
<1>5. s = [j \in 1..(l + n) |-> id]
  BY <1>3, <1>4
<1> QED BY <1>2, <1>3, <1>5 DEF s, l, g

(***************************************************************************)
(* A message has a category if and only if its type is known.              *)
(***************************************************************************)
LEMMA Categorized ==
  ASSUME NEW type
  PROVE  categorizeMessageType(type) # "Unknown" <=> isKnownMessageType(type)
<1>1. isKnownMessageType(type) <=> \E c \in DOMAIN Categories : type \in Categories[c]
  BY DEF isKnownMessageType
<1>2. "Unknown" \notin DOMAIN Categories
  BY DEF Categories
<1>3. CASE \E c \in DOMAIN Categories : type \in Categories[c]
  <2>1. categorizeMessageType(type) \in DOMAIN Categories
    BY <1>3 DEF categorizeMessageType
  <2> QED BY <1>1, <1>2, <1>3, <2>1
<1>4. CASE ~ \E c \in DOMAIN Categories : type \in Categories[c]
  <2>1. categorizeMessageType(type) = "Unknown"
    BY <1>4 DEF categorizeMessageType
  <2> QED BY <1>1, <1>4, <2>1
<1> QED BY <1>3, <1>4

(***************************************************************************)
(* An assembler state after its reset.                                     *)
(***************************************************************************)
LEMMA Emptied ==
  ASSUME NEW a \in Holding
  PROVE  /\ [a EXCEPT !.buffer = <<>>, !.started = FALSE] \in Holding
         /\ ~[a EXCEPT !.buffer = <<>>, !.started = FALSE].started
         /\ [a EXCEPT !.buffer = <<>>, !.started = FALSE].buffer = <<>>
<1>0. <<>> \in Seq(Nat)
  OBVIOUS
<1>1. PICK none \in Seq(Nat) : none = <<>>
  BY <1>0
<1>2. PICK no \in BOOLEAN : no = FALSE
  OBVIOUS
<1>3. /\ [a EXCEPT !.buffer = none, !.started = no] \in Holding
      /\ [a EXCEPT !.buffer = none, !.started = no].started = no
      /\ [a EXCEPT !.buffer = none, !.started = no].buffer = none
  BY DEF Holding
<1> QED BY <1>1, <1>2, <1>3

(***************************************************************************)
(* Nothing under way, and nothing pending.                                 *)
(***************************************************************************)
LEMMA Resting ==
  /\ NoMessage \in UnderWay
  /\ Follows(NotStarted, NoMessage)
  /\ \A a \in Holding : Follows([a EXCEPT !.buffer = <<>>, !.started = FALSE], NoMessage)
<1>1. NoMessage \in UnderWay
  BY DEF NoMessage, UnderWay, Types
<1>2. NotStarted \in Holding /\ ~NotStarted.started /\ NotStarted.buffer = <<>>
  BY DEF NotStarted, Holding, Types
<1>3. ASSUME NEW a \in Holding PROVE Follows([a EXCEPT !.buffer = <<>>, !.started = FALSE], NoMessage)
  <2> DEFINE b == [a EXCEPT !.buffer = <<>>, !.started = FALSE]
  <2>1. b \in Holding /\ ~b.started /\ b.buffer = <<>>
    BY Emptied
  <2> HIDE DEF b
  <2>2. Follows(b, NoMessage)
    BY <1>1, <2>1 DEF Follows
  <2> QED BY <2>2 DEF b
<1> QED BY <1>1, <1>2, <1>3 DEF Follows

(***************************************************************************)
(* A chunk continues the message under way with its bytes, and only with the *)
(* last of them is the message handed on.                                  *)
(***************************************************************************)
LEMMA ChunkTaken ==
  ASSUME AssemblyInv, NEW c \in AssemblyStreams, NEW type \in AssemblyTypes,
         NEW length \in 0..MaxBody, NEW n \in 0..MaxBody, sendChunk(c, type, length, n)
  PROVE  AssemblyInv'
<1>0. /\ sent \in [AssemblyStreams -> Nat] /\ sent[c] \in Nat
      /\ Follows(assembly[c], sending[c]) /\ Rebuilt(whole[c], assembled[c])
      /\ type \in Types /\ length \in Nat /\ n \in Nat
  BY AssemblyAssumption DEF AssemblyInv, Types
<1> DEFINE fresh == [id |-> sent[c] + 1, type |-> type, length |-> length, left |-> length]
<1>1. PICK m : m = IF sending[c] = NoMessage THEN fresh ELSE sending[c]
  OBVIOUS
<1>2. /\ n <= m.left /\ (n > 0 \/ m.left = 0)
      /\ processChunk(c, m, n)
      /\ sending' = [sending EXCEPT ![c] = IF n = m.left THEN NoMessage ELSE [m EXCEPT !.left = @ - n]]
      /\ IF n = m.left
         THEN /\ sent' = [sent EXCEPT ![c] = @ + 1]
              /\ whole' = [whole EXCEPT ![c] = Append(@, <<m.type, m.length, m.id>>)]
         ELSE UNCHANGED <<sent, whole>>
  BY <1>1 DEF sendChunk
<1>3. fresh \in UnderWay /\ fresh.left = length /\ fresh.length = length
  BY <1>0 DEF UnderWay
<1> HIDE DEF fresh
<1>4. /\ m \in UnderWay /\ m.left <= m.length
      /\ sending[c] = NoMessage => m.left = m.length
      /\ sending[c] # NoMessage => m = sending[c]
  BY <1>0, <1>1, <1>3 DEF Follows
<1>5. m.id \in Nat /\ m.type \in Types /\ m.length \in Nat /\ m.left \in Nat
  BY <1>4 DEF UnderWay
<1> DEFINE opened == [assembly[c] EXCEPT !.expected = m.length, !.type = m.type, !.started = TRUE]
<1>6. PICK begun : begun = IF assembly[c].started THEN assembly[c] ELSE opened
  OBVIOUS
<1>7. /\ begun \in Holding /\ begun.started /\ begun.expected = m.length /\ begun.type = m.type
      /\ Len(begun.buffer) = m.length - m.left
      /\ \A j \in 1..Len(begun.buffer) : begun.buffer[j] = m.id
  <2>1. CASE sending[c] = NoMessage
    <3>1. assembly[c] \in Holding /\ ~assembly[c].started /\ assembly[c].buffer = <<>>
      BY <1>0, <2>1 DEF Follows
    <3>2. begun = opened
      BY <3>1, <1>6
    <3>3. /\ opened \in Holding /\ opened.started /\ opened.expected = m.length
          /\ opened.type = m.type /\ opened.buffer = <<>>
      BY <3>1, <1>5 DEF Holding
    <3> HIDE DEF opened
    <3>4. Len(<<>>) = m.length - m.left /\ \A j \in 1..Len(<<>>) : FALSE
      BY <2>1, <1>4, <1>5
    <3> QED BY <3>2, <3>3, <3>4
  <2>2. CASE sending[c] # NoMessage
    <3>1. /\ assembly[c] \in Holding /\ assembly[c].started /\ assembly[c].expected = m.length
          /\ assembly[c].type = m.type /\ Len(assembly[c].buffer) = m.length - m.left
          /\ \A j \in 1..(m.length - m.left) : assembly[c].buffer[j] = m.id
      BY <1>0, <1>4, <2>2 DEF Follows
    <3> QED BY <3>1, <1>6
  <2> QED BY <2>1, <2>2
<1> HIDE DEF opened
<1> DEFINE bytes == begun.buffer \o [i \in 1..n |-> m.id]
<1>8. /\ bytes \in Seq(Nat) /\ Len(bytes) = m.length - m.left + n
      /\ \A j \in 1..(m.length - m.left + n) : bytes[j] = m.id
      /\ bytes = [j \in 1..(m.length - m.left + n) |-> m.id]
  <2>1. begun.buffer \in Seq(Nat)
    BY <1>7 DEF Holding
  <2>2. PICK b \in Seq(Nat) : b = begun.buffer
    BY <2>1
  <2>3. Len(b) = m.length - m.left /\ Len(b) \in Nat
    BY <1>7, <2>2
  <2>4. PICK id \in Nat : id = m.id
    BY <1>5
  <2>5. \A j \in 1..Len(b) : b[j] = id
    BY <1>7, <2>2, <2>4
  <2>6. bytes = b \o [i \in 1..n |-> id]
    BY <2>2, <2>4
  <2>7. /\ b \o [i \in 1..n |-> id] \in Seq(Nat)
        /\ Len(b \o [i \in 1..n |-> id]) = Len(b) + n
        /\ \A j \in 1..(Len(b) + n) : (b \o [i \in 1..n |-> id])[j] = id
        /\ b \o [i \in 1..n |-> id] = [j \in 1..(Len(b) + n) |-> id]
    BY <2>5, <1>0, SameBytes
  <2> HIDE DEF bytes
  <2>8. /\ bytes \in Seq(Nat) /\ Len(bytes) = Len(b) + n
        /\ \A j \in 1..(Len(b) + n) : bytes[j] = id
        /\ bytes = [j \in 1..(Len(b) + n) |-> id]
    BY <2>6, <2>7
  <2> QED BY <2>3, <2>4, <2>8
<1>9. PICK state : state = [begun EXCEPT !.buffer = bytes]
  OBVIOUS
<1>10. IF n = m.left \/ Len(state.buffer) >= state.expected
       THEN completeMessage(c, state)
       ELSE assembly' = [assembly EXCEPT ![c] = state] /\ UNCHANGED assembled
  BY <1>2, <1>6, <1>9 DEF processChunk, opened
<1> HIDE DEF bytes
<1>11. /\ state \in Holding /\ state.started /\ state.expected = m.length /\ state.type = m.type
       /\ state.buffer = bytes
  BY <1>7, <1>8, <1>9 DEF Holding
<1>12. n = m.left \/ Len(state.buffer) >= state.expected <=> n = m.left
  BY <1>0, <1>2, <1>4, <1>5, <1>8, <1>11
<1>13. CASE n = m.left
  <2> DEFINE given == <<m.type, m.length, m.id>>
             rest == [state EXCEPT !.buffer = <<>>, !.started = FALSE]
  <2>1. completeMessage(c, state)
    BY <1>10, <1>13
  <2>2. given \in Whole /\ Handed(given) = <<m.type, [j \in 1..m.length |-> m.id], categorizeMessageType(m.type)>>
    BY <1>5 DEF Whole, Handed
  <2>3. state.buffer = [j \in 1..m.length |-> m.id]
    <3>1. m.length - m.left + n = m.length
      BY <1>5, <1>13
    <3> QED BY <3>1, <1>8, <1>11
  <2>4. assembled' = [assembled EXCEPT ![c] = Append(@, Handed(given))]
    BY <2>1, <2>2, <2>3, <1>11 DEF completeMessage
  <2>5. assembly' = [assembly EXCEPT ![c] = rest] /\ rest \in Holding /\ ~rest.started /\ rest.buffer = <<>>
    BY <2>1, <1>11, Emptied DEF completeMessage
  <2> HIDE DEF rest
  <2>6. /\ sending' = [sending EXCEPT ![c] = NoMessage]
        /\ sent' = [sent EXCEPT ![c] = @ + 1]
        /\ whole' = [whole EXCEPT ![c] = Append(@, given)]
    BY <1>2, <1>13
  <2>7. Rebuilt(Append(whole[c], given), Append(assembled[c], Handed(given)))
    BY <1>0, <2>2, AppendRebuilt
  <2> HIDE DEF given
  <2>8. Follows(rest, NoMessage)
    <3>1. NoMessage \in UnderWay
      BY DEF NoMessage, UnderWay, Types
    <3> QED BY <3>1, <2>5 DEF Follows
  <2>9. ASSUME NEW d \in AssemblyStreams
        PROVE  Follows(assembly'[d], sending'[d]) /\ Rebuilt(whole'[d], assembled'[d])
    <3>1. CASE d = c
      BY <3>1, <2>4, <2>5, <2>6, <2>7, <2>8 DEF AssemblyInv
    <3>2. CASE d # c
      <4>1. /\ assembly'[d] = assembly[d] /\ sending'[d] = sending[d]
            /\ whole'[d] = whole[d] /\ assembled'[d] = assembled[d]
        BY <3>2, <2>4, <2>5, <2>6 DEF AssemblyInv
      <4> QED BY <4>1 DEF AssemblyInv
    <3> QED BY <3>1, <3>2
  <2>10. /\ DOMAIN assembly' = AssemblyStreams /\ DOMAIN sending' = AssemblyStreams
         /\ DOMAIN whole' = AssemblyStreams /\ DOMAIN assembled' = AssemblyStreams
    BY <2>4, <2>5, <2>6 DEF AssemblyInv
  <2>11. sent' \in [AssemblyStreams -> Nat]
    BY <1>0, <2>6
  <2> QED BY <2>9, <2>10, <2>11 DEF AssemblyInv
<1>14. CASE n # m.left
  <2> DEFINE rest == [m EXCEPT !.left = @ - n]
  <2>1. /\ assembly' = [assembly EXCEPT ![c] = state] /\ assembled' = assembled
        /\ sending' = [sending EXCEPT ![c] = rest] /\ sent' = sent /\ whole' = whole
    BY <1>2, <1>10, <1>12, <1>14
  <2>2. /\ rest \in UnderWay /\ rest.left = m.left - n /\ rest.id = m.id
        /\ rest.type = m.type /\ rest.length = m.length
    BY SMTT(30), <1>0, <1>2, <1>4, <1>5 DEF UnderWay
  <2> HIDE DEF rest
  <2>3. rest.left > 0 /\ rest.left <= rest.length /\ rest.length - rest.left = m.length - m.left + n
    BY <2>2, <1>0, <1>2, <1>4, <1>5, <1>14
  <2>4. Follows(state, rest)
    <3>1. rest # NoMessage
      BY <2>3 DEF NoMessage
    <3>2. Len(state.buffer) = rest.length - rest.left
      BY <2>3, <1>8, <1>11
    <3>3. \A j \in 1..(rest.length - rest.left) : state.buffer[j] = rest.id
      BY <2>2, <2>3, <1>8, <1>11
    <3> QED BY <3>1, <3>2, <3>3, <2>2, <2>3, <1>11 DEF Follows
  <2>5. ASSUME NEW d \in AssemblyStreams
        PROVE  Follows(assembly'[d], sending'[d])
    <3>1. CASE d = c
      BY <3>1, <2>1, <2>4 DEF AssemblyInv
    <3>2. CASE d # c
      <4>1. assembly'[d] = assembly[d] /\ sending'[d] = sending[d]
        BY <3>2, <2>1 DEF AssemblyInv
      <4> QED BY <4>1 DEF AssemblyInv
    <3> QED BY <3>1, <3>2
  <2>6. DOMAIN assembly' = AssemblyStreams /\ DOMAIN sending' = AssemblyStreams
    BY <2>1 DEF AssemblyInv
  <2> QED BY <2>1, <2>5, <2>6 DEF AssemblyInv
<1> QED BY <1>13, <1>14

(***************************************************************************)
(* The messages the callback gets are those sent to their end, in order, each *)
(* with its own bytes, type and category, for any number of chunk streams, any *)
(* lengths and any interleaving of chunks, aborts and clears.              *)
(***************************************************************************)
THEOREM MessagesAreReassembled == AssemblySpec => []Reassembled
<1>1. AssemblyInit => AssemblyInv
  <2> SUFFICES ASSUME AssemblyInit PROVE AssemblyInv
    OBVIOUS
  <2>1. Rebuilt(<<>>, <<>>)
    <3>1. <<>> = [k \in 1..Len(<<>>) |-> Handed(<<>>[k])]
      OBVIOUS
    <3> QED BY <3>1 DEF Rebuilt
  <2> QED BY <2>1, Resting DEF AssemblyInit, AssemblyInv
<1>2. AssemblyInv /\ [AssemblyNext]_assemblyVars => AssemblyInv'
  <2> SUFFICES ASSUME AssemblyInv, [AssemblyNext]_assemblyVars PROVE AssemblyInv'
    OBVIOUS
  <2>1. CASE UNCHANGED assemblyVars
    BY <2>1 DEF assemblyVars, AssemblyInv
  <2>2. CASE clearAssembly
    <3>1. ASSUME NEW c \in AssemblyStreams PROVE Follows(assembly'[c], sending'[c])
      BY <2>2, Resting DEF clearAssembly
    <3>2. sent' \in [AssemblyStreams -> Nat]
      BY <2>2 DEF clearAssembly, AssemblyInv
    <3> QED BY <2>2, <3>1, <3>2 DEF clearAssembly, AssemblyInv
  <2>3. ASSUME NEW c \in AssemblyStreams, abortMessage(c) PROVE AssemblyInv'
    <3> DEFINE rest == [assembly[c] EXCEPT !.buffer = <<>>, !.started = FALSE]
    <3>1. /\ assembly' = [assembly EXCEPT ![c] = rest] /\ sending' = [sending EXCEPT ![c] = NoMessage]
          /\ sent' = [sent EXCEPT ![c] = @ + 1] /\ whole' = whole /\ assembled' = assembled
      BY <2>3 DEF abortMessage
    <3>2. Follows(rest, NoMessage)
      BY Resting DEF AssemblyInv, Follows
    <3> HIDE DEF rest
    <3>3. ASSUME NEW d \in AssemblyStreams PROVE Follows(assembly'[d], sending'[d])
      <4>1. CASE d = c
        BY <4>1, <3>1, <3>2 DEF AssemblyInv
      <4>2. CASE d # c
        <5>1. assembly'[d] = assembly[d] /\ sending'[d] = sending[d]
          BY <4>2, <3>1 DEF AssemblyInv
        <5> QED BY <5>1 DEF AssemblyInv
      <4> QED BY <4>1, <4>2
    <3>4. DOMAIN assembly' = AssemblyStreams /\ DOMAIN sending' = AssemblyStreams
      BY <3>1 DEF AssemblyInv
    <3>5. sent' \in [AssemblyStreams -> Nat]
      BY <3>1 DEF AssemblyInv
    <3> QED BY <3>1, <3>3, <3>4, <3>5 DEF AssemblyInv
  <2>4. ASSUME NEW c \in AssemblyStreams, NEW type \in AssemblyTypes, NEW length \in 0..MaxBody,
               NEW n \in 0..MaxBody, sendChunk(c, type, length, n)
        PROVE  AssemblyInv'
    BY <2>4, ChunkTaken
  <2> QED BY <2>1, <2>2, <2>3, <2>4 DEF AssemblyNext
<1>3. AssemblyInv => Reassembled
  <2> SUFFICES ASSUME AssemblyInv, NEW c \in AssemblyStreams
               PROVE  /\ assembled[c] = [k \in DOMAIN whole[c] |-> Handed(whole[c][k])]
                      /\ assembly[c].started <=> sending[c] # NoMessage
                      /\ \A k \in DOMAIN assembled[c] :
                           assembled[c][k][3] # "Unknown" <=> isKnownMessageType(assembled[c][k][1])
    BY DEF Reassembled, Handed
  <2>1. DOMAIN whole[c] = 1..Len(whole[c]) /\ assembled[c] = [k \in 1..Len(whole[c]) |-> Handed(whole[c][k])]
    BY DEF AssemblyInv, Rebuilt
  <2>2. assembly[c].started <=> sending[c] # NoMessage
    BY DEF AssemblyInv, Follows
  <2>3. ASSUME NEW k \in DOMAIN assembled[c]
        PROVE  assembled[c][k][3] # "Unknown" <=> isKnownMessageType(assembled[c][k][1])
    <3>1. assembled[c][k] = Handed(whole[c][k])
      BY <2>1
    <3>2. PICK t : t = whole[c][k][1]
      OBVIOUS
    <3>3. assembled[c][k][1] = t /\ assembled[c][k][3] = categorizeMessageType(t)
      BY <3>1, <3>2 DEF Handed
    <3> QED BY <3>3, Categorized
  <2> QED BY <2>1, <2>2, <2>3
<1> QED BY <1>1, <1>2, <1>3, PTL DEF AssemblySpec
=============================================================================
