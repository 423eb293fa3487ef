------------------------------ MODULE AMFCodec ------------------------------
(***************************************************************************)
(* protocol::AMFCodec.  Values are encoded to and decoded from a sequence  *)
(* of small numbers: a length, a count, and the eight bytes of a double    *)
(* are one number each, and a short length wraps at LengthWrap.  The AMF3  *)
(* side is U29, scaled to GroupBits bits per byte, and the integers built  *)
(* on it.  The reference table of the decoder lives from call to call.     *)
(***************************************************************************)
EXTENDS Integers, Sequences, FiniteSets, SequencesExt

CONSTANTS
  LengthWrap,       \* 2^16: a string that is not shorter is a long string
  MaxDepth,         \* MAX_NESTING_DEPTH
  GroupBits,        \* 7
  MaxCalls          \* bound: decode calls
ASSUME AMFAssumption == LengthWrap \in Nat \ {0} /\ MaxDepth \in Nat /\ GroupBits \in Nat /\ MaxCalls \in Nat

VARIABLES references,     \* size of amf0ObjectReferences_
          lastInput, lastBytes, lastResult, lastBefore, amfCalls    \* history: the last call
amfVars == <<references, lastInput, lastBytes, lastResult, lastBefore, amfCalls>>

\* A value is <<type>> or <<type, payload>>; the payload of an object is a
\* sequence of <<name, value>>, as std::map orders them.
Markers == [Number |-> 0, Boolean |-> 1, String |-> 2, Object |-> 3, Null |-> 5, Undefined |-> 6,
            Reference |-> 7, ECMAArray |-> 8, ObjectEnd |-> 9, StrictArray |-> 10, Date |-> 11, LongString |-> 12]

-----------------------------------------------------------------------------
(* Encoding.                                                               *)

RECURSIVE encodeAMF0Value(_)

encodeAMF0String(s) ==
  (IF Len(s) > LengthWrap - 1 THEN <<Markers.LongString, Len(s)>> ELSE <<Markers.String, Len(s)>>) \o s

\* The length of a name is cut to sixteen bits.
encodeName(n) == <<Len(n) % LengthWrap>> \o n

encodeAMF0Object(ps) ==
  <<Markers.Object>> \o FlattenSeq([i \in DOMAIN ps |-> encodeName(ps[i][1]) \o encodeAMF0Value(ps[i][2])])
    \o <<0, Markers.ObjectEnd>>

encodeAMF0Array(es) ==
  <<Markers.StrictArray, Len(es)>> \o FlattenSeq([i \in DOMAIN es |-> encodeAMF0Value(es[i])])

\* Dates and references have no encoding and become null.
encodeAMF0Value(v) ==
  CASE v[1] \in {"Null", "Undefined"} -> <<Markers[v[1]]>>
    [] v[1] \in {"Boolean", "Number"} -> <<Markers[v[1]], v[2]>>
    [] v[1] = "String" -> encodeAMF0String(v[2])
    [] v[1] \in {"Object", "ECMAArray"} -> encodeAMF0Object(v[2])
    [] v[1] = "StrictArray" -> encodeAMF0Array(v[2])
    [] OTHER -> <<Markers.Null>>

-----------------------------------------------------------------------------
(* Decoding at position p: ok, the value, the next position and the size   *)
(* of the reference table.                                                 *)

RECURSIVE decodeAMF0Value(_, _, _, _), decodeProperties(_, _, _, _, _), decodeElements(_, _, _, _, _, _)

\* What nested values added to the table before the error stays there.
Refused(refs) == [ok |-> FALSE, value |-> <<>>, next |-> 0, refs |-> refs]
Decoded(v, p, refs) == [ok |-> TRUE, value |-> v, next |-> p, refs |-> refs]

decodeAMF0String(bytes, p, refs) ==
  IF p + 1 <= Len(bytes) /\ p + 1 + bytes[p + 1] <= Len(bytes)
  THEN Decoded(<<"String", SubSeq(bytes, p + 2, p + 1 + bytes[p + 1])>>, p + 2 + bytes[p + 1], refs)
  ELSE Refused(refs)

\* The name, then the value; the later of two equal names wins.
decodeProperties(bytes, p, depth, refs, ps) ==
  IF p + 1 <= Len(bytes) /\ bytes[p] = 0 /\ bytes[p + 1] = Markers.ObjectEnd
  THEN Decoded(ps, p + 2, refs + 1)
  ELSE IF p > Len(bytes) THEN Refused(refs)
  ELSE LET name  == decodeAMF0String(bytes, p - 1, refs)
           value == IF name.ok THEN decodeAMF0Value(bytes, name.next, depth + 1, refs) ELSE name
           old   == SelectSeq(ps, LAMBDA x : x[1] # name.value[2])
       IN  IF value.ok
           THEN decodeProperties(bytes, value.next, depth, value.refs, Append(old, <<name.value[2], value.value>>))
           ELSE value

\* Mutant: the nesting depth is not passed on.
decodeElementsFlat(bytes, p, count, depth, refs, es) ==
  IF count = 0 \/ p > Len(bytes) THEN Decoded(es, p, refs + 1)
  ELSE LET value == decodeAMF0Value(bytes, p, depth, refs)
       IN  IF value.ok
           THEN decodeElements(bytes, value.next, count - 1, depth, value.refs, Append(es, value.value))
           ELSE value

\* Ends, without an error, also where the input ends.
decodeElements(bytes, p, count, depth, refs, es) ==
  IF count = 0 \/ p > Len(bytes) THEN Decoded(es, p, refs + 1)
  ELSE LET value == decodeAMF0Value(bytes, p, depth + 1, refs)
       IN  IF value.ok
           THEN decodeElements(bytes, value.next, count - 1, depth, value.refs, Append(es, value.value))
           ELSE value

\* A date has a time zone after it; a reference names an object already decoded.
decodeDateOrReference(bytes, p, refs) ==
  IF bytes[p] = Markers.Date /\ p + 2 <= Len(bytes) THEN Decoded(<<"Date", bytes[p + 1]>>, p + 3, refs)
  ELSE IF bytes[p] = Markers.Reference /\ p + 1 <= Len(bytes) /\ bytes[p + 1] < refs
  THEN Decoded(<<"Reference", bytes[p + 1]>>, p + 2, refs)
  ELSE Refused(refs)

Typed(type, r) == IF r.ok THEN [r EXCEPT !.value = <<type, @>>] ELSE r

decodeAMF0Value(bytes, p, depth, refs) ==
  IF depth > MaxDepth \/ p > Len(bytes) THEN Refused(refs)
  ELSE LET marker == bytes[p]
           has(n) == p + n <= Len(bytes)
       IN
  CASE marker = Markers.Null      -> Decoded(<<"Null">>, p + 1, refs)
    [] marker = Markers.Undefined -> Decoded(<<"Undefined">>, p + 1, refs)
    [] marker = Markers.Boolean   -> IF has(1) THEN Decoded(<<"Boolean", IF bytes[p + 1] = 0 THEN 0 ELSE 1>>, p + 2, refs) ELSE Refused(refs)
    [] marker = Markers.Number    -> IF has(1) THEN Decoded(<<"Number", bytes[p + 1]>>, p + 2, refs) ELSE Refused(refs)
    [] marker \in {Markers.Date, Markers.Reference} -> decodeDateOrReference(bytes, p, refs)
    [] marker \in {Markers.String, Markers.LongString} -> decodeAMF0String(bytes, p, refs)
    [] marker = Markers.Object    -> Typed("Object", decodeProperties(bytes, p + 1, depth, refs, <<>>))
    [] marker = Markers.ECMAArray -> IF has(1) THEN Typed("ECMAArray", decodeProperties(bytes, p + 2, depth, refs, <<>>)) ELSE Refused(refs)
    [] marker = Markers.StrictArray ->
         IF has(1) THEN Typed("StrictArray", decodeElements(bytes, p + 2, bytes[p + 1], depth, refs, <<>>)) ELSE Refused(refs)
    [] OTHER -> Refused(refs)

-----------------------------------------------------------------------------
(* U29: three bytes of GroupBits bits with a flag, then a whole byte.      *)

Group == 2^GroupBits
U29Max == Group^3 * 2 * Group - 1
Continued(n) == (n % Group) + Group

encodeU29(n) ==
  CASE n < Group   -> <<n>>
    [] n < Group^2 -> <<Continued(n \div Group), n % Group>>
    [] n < Group^3 -> <<Continued(n \div Group^2), Continued(n \div Group), n % Group>>
    [] OTHER       -> <<Continued(n \div (2 * Group^3)), Continued(n \div (2 * Group^2)),
                        Continued(n \div (2 * Group)), n % (2 * Group)>>

\* The number and the bytes read; 0 bytes when the input ends too early.
RECURSIVE readU29(_, _, _)
readU29(bytes, i, n) ==
  IF i > Len(bytes) THEN <<0, 0>>
  ELSE IF i = 4 THEN <<n * 2 * Group + bytes[4], 4>>
  ELSE IF bytes[i] < Group THEN <<n * Group + bytes[i], i>>
  ELSE readU29(bytes, i + 1, n * Group + (bytes[i] % Group))
decodeU29(bytes) == readU29(bytes, 1, 0)

\* An integer is sent as an unsigned one of the same width.
encodeInteger(n) == encodeU29(IF n < 0 THEN n + U29Max + 1 ELSE n)
decodeInteger(bytes) == LET n == decodeU29(bytes)[1] IN IF n >= (U29Max + 1) \div 2 THEN n - U29Max - 1 ELSE n

-----------------------------------------------------------------------------

AMFScalars == {<<"Null">>, <<"Undefined">>, <<"Boolean", 0>>, <<"Number", 9>>, <<"String", <<>>>>,
               <<"String", <<1, 9>>>>, <<"String", <<1, 2, 3, 4>>>>, <<"Date", 1>>, <<"Reference", 0>>}
AMFNames == {<<0>>, <<1>>, <<3, 3, 3, 3>>}     \* the last one too long for its length
Nested(S) == {<<"StrictArray", <<a>>>> : a \in S} \union {<<"StrictArray", <<a, a>>>> : a \in S}
     \union {<<t, <<<<n, a>>>>>> : t \in {"Object", "ECMAArray"}, n \in AMFNames, a \in S}
AMFFlat == AMFScalars \union Nested(AMFScalars) \union {<<"StrictArray", <<>>>>, <<"Object", <<>>>>,
             <<"Object", <<<<<<0>>, <<"Null">>>>, <<<<1>>, <<"Number", 9>>>>>>>>}
AMFValues == AMFFlat \union {<<"StrictArray", <<a, b>>>> : a \in Nested({<<"Number", 9>>}), b \in {<<"Null">>, <<"Object", <<>>>>}}
     \union Nested(Nested({<<"Null">>})) \union Nested(Nested(Nested({<<"Null">>})))

\* How a peer sends what the encoder does not: ECMA arrays, dates, references.
PeerForm(v) ==
  CASE v[1] = "ECMAArray" -> <<Markers.ECMAArray, Len(v[2])>> \o Tail(encodeAMF0Object(v[2]))
    [] v[1] = "Date"      -> <<Markers.Date, v[2], 0>>
    [] v[1] = "Reference" -> <<Markers.Reference, v[2]>>
    [] OTHER              -> encodeAMF0Value(v)

AMFInit ==
  /\ references = 0 /\ amfCalls = 0
  /\ lastInput = <<"Null">> /\ lastBytes = <<Markers.Null>>
  /\ lastResult = Decoded(<<"Null">>, 2, 0) /\ lastBefore = 0

decodeAMF0(v, bytes) ==
  /\ amfCalls < MaxCalls /\ amfCalls' = amfCalls + 1
  /\ lastResult' = decodeAMF0Value(bytes, 1, 0, references)
  /\ lastInput' = v /\ lastBytes' = bytes /\ lastBefore' = references
  /\ references' = lastResult'.refs

resetReferenceTables ==
  /\ references > 0 /\ references' = 0
  /\ UNCHANGED <<lastInput, lastBytes, lastResult, lastBefore, amfCalls>>

AMFNext ==
  \/ resetReferenceTables
  \/ \E v \in AMFValues : decodeAMF0(v, encodeAMF0Value(v)) \/ decodeAMF0(v, PeerForm(v))

-----------------------------------------------------------------------------

RECURSIVE Canonical(_), NestedDepth(_), LongName(_), Complex(_)
Parts(v) == CASE v[1] = "StrictArray" -> v[2]
              [] v[1] \in {"Object", "ECMAArray"} -> [i \in DOMAIN v[2] |-> v[2][i][2]]
              [] OTHER -> <<>>
\* What a receiver can get of a value: an object for an ECMA array, null for a
\* date or a reference.
Canonical(v) ==
  CASE v[1] = "StrictArray" -> <<v[1], [i \in DOMAIN v[2] |-> Canonical(v[2][i])]>>
    [] v[1] \in {"Object", "ECMAArray"} -> <<"Object", [i \in DOMAIN v[2] |-> <<v[2][i][1], Canonical(v[2][i][2])>>]>>
    [] v[1] \in {"Date", "Reference"} -> <<"Null">>
    [] OTHER -> v
NestedDepth(v) == IF Parts(v) = <<>> THEN 0
                  ELSE LET ds == {NestedDepth(Parts(v)[i]) : i \in DOMAIN Parts(v)}
                       IN  1 + CHOOSE d \in ds : \A e \in ds : e <= d
LongName(v) == \/ v[1] \in {"Object", "ECMAArray"} /\ \E i \in DOMAIN v[2] : Len(v[2][i][1]) >= LengthWrap
               \/ \E i \in DOMAIN Parts(v) : LongName(Parts(v)[i])
Complex(v) == (IF v[1] \in {"StrictArray", "Object", "ECMAArray"} THEN 1 ELSE 0)
              + FoldSeq(LAMBDA a, n : Complex(a) + n, 0, Parts(v))

(***************************************************************************)
(* Decoding what was encoded gives back the value (an object for an ECMA   *)
(* array, null for a date or a reference), and what a peer sent gives back *)
(* these too; all of the input is consumed and one reference is added for  *)
(* each object and array in it.  A value nested deeper than the limit, and *)
(* a reference to an object not yet decoded, are refused.  Excepted are    *)
(* names too long for their length.  A proper prefix is refused unless     *)
(* what is missing are elements of a strict array.  U29 gives back every   *)
(* number and integers keep their sign; no prefix of a number is accepted. *)
(***************************************************************************)
RoundTrip ==
  LET v == lastInput
      own == lastBytes = encodeAMF0Value(v)
      cut(n) == decodeAMF0Value(SubSeq(lastBytes, 1, n), 1, 0, lastBefore)
      sent == IF own THEN Canonical(v)
              ELSE IF v[1] = "ECMAArray" THEN <<v[1], Canonical(v)[2]>> ELSE v
      known == v[1] = "Reference" /\ ~own => v[2] < lastBefore
  IN  /\ ~LongName(v) =>
           /\ lastResult.ok <=> NestedDepth(v) <= MaxDepth /\ known
           /\ lastResult.ok => /\ lastResult.value = sent /\ lastResult.next = Len(lastBytes) + 1
                               /\ lastResult.refs = lastBefore + Complex(v)
           /\ \A n \in 0..(Len(lastBytes) - 1) : cut(n).ok => v[1] = "StrictArray" /\ cut(n).value # sent
      /\ amfCalls = 0 =>
           /\ \A n \in 0..U29Max : /\ decodeU29(encodeU29(n)) = <<n, Len(encodeU29(n))>>
                                   /\ \A k \in 0..(Len(encodeU29(n)) - 1) : decodeU29(SubSeq(encodeU29(n), 1, k)) = <<0, 0>>
           /\ \A n \in -((U29Max + 1) \div 2)..((U29Max - 1) \div 2) : decodeInteger(encodeInteger(n)) = n
=============================================================================
