------------------------------ MODULE MediaProofs ------------------------------
(***************************************************************************)
(* Proofs for MCMedia: the distribution of a stream to its subscribers,    *)
(* the cache a newcomer starts from, the queue of a subscriber, and the    *)
(* recognition of media, for any sets of subscribers, frames, threads and  *)
(* configurations.  Each component has an inductive invariant of its own   *)
(* (DistributionInv, CacheInv, QueueInv, HandlerInv); OneComponent lifts   *)
(* its steps to those of the composition.                                  *)
(***************************************************************************)
EXTENDS MCMedia, FiniteSetTheorems, SequenceTheorems, WellFoundedInduction, TLAPS

-----------------------------------------------------------------------------
(* Numbers, finite sets and sequences *)

\* Every nonempty set of naturals has a least element: the induction the proofs need.
LEMMA LeastNat ==
  ASSUME NEW B, B \subseteq Nat, B # {}
  PROVE  \E n \in B : \A m \in B : n <= m
<1> DEFINE T == {0 .. n : n \in B}
<1>1. T \subseteq FiniteSubsetsOf(Nat) /\ T # {}
  <2>1. ASSUME NEW n \in B
        PROVE  0 .. n \in FiniteSubsetsOf(Nat)
    <3>1. n \in Int /\ IsFiniteSet(0 .. n)
      BY FS_Interval
    <3> QED BY <3>1 DEF FiniteSubsetsOf
  <2> QED BY <2>1
<1>2. PICK x \in T : \A y \in T : ~ (<<y, x>> \in StrictSubsetOrdering(Nat))
  <2> HIDE DEF T
  <2> QED BY <1>1, FS_StrictSubsetOrderingWellFounded, WFMin
<1>3. PICK n \in B : x = 0 .. n
  OBVIOUS
<1>4. ASSUME NEW m \in B
      PROVE  n <= m
  <2> SUFFICES ASSUME m < n PROVE FALSE
    OBVIOUS
  <2>1. (0 .. m) \in T /\ 0 .. m \subseteq 0 .. n /\ 0 .. m # 0 .. n
    OBVIOUS
  <2>2. 0 .. m \in SUBSET Nat /\ 0 .. n \in SUBSET Nat
    OBVIOUS
  <2>3. <<0 .. m, 0 .. n>> \in StrictSubsetOrdering(Nat)
    BY <2>1, <2>2 DEF StrictSubsetOrdering
  <2> QED BY <1>2, <1>3, <2>1, <2>3
<1> QED BY <1>4

\* A finite set of integers has a maximum and a minimum.
LEMMA FiniteExtremes ==
  ASSUME NEW S, S \subseteq Int, IsFiniteSet(S), S # {}
  PROVE  /\ Max(S) \in S /\ \A y \in S : y <= Max(S)
         /\ Min(S) \in S /\ \A y \in S : Min(S) <= y
<1> DEFINE Good(U) == /\ \E x \in U : \A y \in U : y <= x
                      /\ \E x \in U : \A y \in U : x <= y
           T == {U \in FiniteSubsetsOf(Int) : U # {} /\ ~ Good(U)}
<1>1. ASSUME T # {}
      PROVE  FALSE
  <2>1. PICK U \in T : \A V \in T : ~ (<<V, U>> \in StrictSubsetOrdering(Int))
    <3>1. T \subseteq FiniteSubsetsOf(Int)
      OBVIOUS
    <3> HIDE DEF T
    <3> QED BY <1>1, <3>1, FS_StrictSubsetOrderingWellFounded, WFMin
  <2>2. U \subseteq Int /\ IsFiniteSet(U) /\ U # {} /\ ~ Good(U)
    BY DEF FiniteSubsetsOf
  <2>3. PICK u \in U : TRUE
    BY <2>2
  <2> DEFINE V == U \ {u}
  <2>4. V \subseteq Int /\ IsFiniteSet(V) /\ <<V, U>> \in StrictSubsetOrdering(Int)
    BY <2>2, <2>3, FS_RemoveElement DEF StrictSubsetOrdering
  <2>5. V \notin T
    BY <2>1, <2>4
  <2>6. V = {} \/ Good(V)
    BY <2>4, <2>5 DEF FiniteSubsetsOf
  <2>7. CASE V = {}
    <3>1. \A y \in U : y = u
      BY <2>7
    <3>2. u \in Int
      BY <2>2, <2>3
    <3> QED BY <2>2, <2>3, <3>1, <3>2
  <2>8. CASE Good(V)
    <3>1. PICK x \in V : \A y \in V : y <= x
      BY <2>8
    <3>2. PICK w \in V : \A y \in V : w <= y
      BY <2>8
    <3>3. x \in Int /\ w \in Int /\ u \in Int /\ x \in U /\ w \in U /\ \A y \in U : y = u \/ y \in V
      BY <2>2, <2>3, <3>1, <3>2
    <3>4. \E z \in U : \A y \in U : y <= z
      <4>1. CASE u <= x
        BY <3>1, <3>3, <4>1
      <4>2. CASE x < u
        <5>1. \A y \in V : y \in Int /\ y <= u
          BY <2>4, <3>1, <3>3, <4>2
        <5> QED BY <2>3, <3>3, <5>1
      <4> QED BY <3>3, <4>1, <4>2
    <3>5. \E z \in U : \A y \in U : z <= y
      <4>1. CASE w <= u
        BY <3>2, <3>3, <4>1
      <4>2. CASE u < w
        <5>1. \A y \in V : y \in Int /\ u <= y
          BY <2>4, <3>2, <3>3, <4>2
        <5> QED BY <2>3, <3>3, <5>1
      <4> QED BY <3>3, <4>1, <4>2
    <3> QED BY <2>2, <3>4, <3>5
  <2> QED BY <2>6, <2>7, <2>8
<1>2. Good(S)
  BY <1>1 DEF FiniteSubsetsOf
<1>3. \E x \in S : \A y \in S : x >= y
  BY <1>2
<1> QED BY <1>2, <1>3 DEF Max, Min

-----------------------------------------------------------------------------
(* The frames of a buffer and their sizes *)

\* Positions of keyframes.
LEMMA KeyframesFinite ==
  ASSUME NEW F, NEW s \in Seq(F)
  PROVE  /\ Keyframes(s) \subseteq 1 .. Len(s) /\ Keyframes(s) \subseteq Int
         /\ IsFiniteSet(Keyframes(s)) /\ Cardinality(Keyframes(s)) \in Nat
<1>1. Keyframes(s) \subseteq 1 .. Len(s) /\ Len(s) \in Nat
  BY DEF Keyframes
<1>2. IsFiniteSet(1 .. Len(s))
  BY <1>1, FS_Interval
<1> QED BY <1>1, <1>2, FS_Subset, FS_CardinalityType

\* A cut keeps the frames from a position on.
LEMMA FromIs ==
  ASSUME NEW F, NEW s \in Seq(F), NEW b \in 1 .. Len(s) + 1
  PROVE  /\ From(s, b) \in Seq(F) /\ Len(From(s, b)) = Len(s) + 1 - b
         /\ \A i \in 1 .. Len(s) + 1 - b : From(s, b)[i] = s[b + i - 1]
         /\ SubSeq(s, 1, b - 1) \in Seq(F) /\ Len(SubSeq(s, 1, b - 1)) = b - 1
         /\ \A i \in 1 .. b - 1 : SubSeq(s, 1, b - 1)[i] = s[i]
<1>1. Len(s) \in Nat /\ b \in Nat
  OBVIOUS
<1>2. \A i \in 1 .. Len(s) : s[i] \in F
  OBVIOUS
<1>3. \A i \in b .. Len(s) : i \in 1 .. Len(s)
  BY <1>1
<1>4. \A i \in 1 .. b - 1 : i \in 1 .. Len(s)
  BY <1>1
<1> QED BY <1>1, <1>2, <1>3, <1>4 DEF From

\* The keyframes of a cut are those behind it, those before it are given up.
LEMMA KeyframesOfCut ==
  ASSUME NEW F, NEW s \in Seq(F), NEW b \in 1 .. Len(s) + 1
  PROVE  /\ Keyframes(From(s, b)) = {i \in 1 .. Len(s) + 1 - b : b + i - 1 \in Keyframes(s)}
         /\ Cardinality(Keyframes(From(s, b))) = Cardinality({k \in Keyframes(s) : b <= k})
         /\ Keyframes(SubSeq(s, 1, b - 1)) = {k \in Keyframes(s) : k < b}
<1> DEFINE behind == {k \in Keyframes(s) : b <= k}
           f      == [k \in behind |-> k - b + 1]
<1>1. Len(s) \in Nat /\ b \in Nat
  OBVIOUS
<1>2. Keyframes(From(s, b)) = {i \in 1 .. Len(s) + 1 - b : b + i - 1 \in Keyframes(s)}
  <2>1. /\ Len(From(s, b)) = Len(s) + 1 - b
        /\ \A i \in 1 .. Len(s) + 1 - b : From(s, b)[i] = s[b + i - 1]
    BY FromIs
  <2>2. \A i \in 1 .. Len(s) + 1 - b : b + i - 1 \in 1 .. Len(s)
    BY <1>1
  <2> QED BY <2>1, <2>2 DEF Keyframes
<1>3. Keyframes(SubSeq(s, 1, b - 1)) = {k \in Keyframes(s) : k < b}
  <2>1. Len(SubSeq(s, 1, b - 1)) = b - 1 /\ \A i \in 1 .. b - 1 : SubSeq(s, 1, b - 1)[i] = s[i]
    BY FromIs
  <2>2. \A i : i \in 1 .. b - 1 <=> i \in 1 .. Len(s) /\ i < b
    BY <1>1
  <2> QED BY <2>1, <2>2 DEF Keyframes
<1>4. behind \subseteq 1 .. Len(s) /\ IsFiniteSet(behind)
  BY KeyframesFinite, FS_Subset
<1>5. f \in Bijection(behind, Keyframes(From(s, b)))
  <2>1. \A k \in behind : k - b + 1 \in Keyframes(From(s, b))
    BY <1>1, <1>2, <1>4
  <2>2. \A k, l \in behind : k - b + 1 = l - b + 1 => k = l
    BY <1>1, <1>4
  <2>3. \A i \in Keyframes(From(s, b)) : \E k \in behind : k - b + 1 = i
    <3> TAKE i \in Keyframes(From(s, b))
    <3>1. b + i - 1 \in behind /\ (b + i - 1) - b + 1 = i
      BY <1>1, <1>2
    <3> QED BY <3>1
  <2>4. f \in [behind -> Keyframes(From(s, b))]
    BY <2>1
  <2>5. \A k, l \in behind : f[k] = f[l] => k = l
    BY <2>2
  <2>6. \A i \in Keyframes(From(s, b)) : \E k \in behind : f[k] = i
    BY <2>3
  <2> HIDE DEF f, behind
  <2>7. f \in Injection(behind, Keyframes(From(s, b)))
    BY <2>4, <2>5 DEF Injection, IsInjective
  <2>8. f \in Surjection(behind, Keyframes(From(s, b)))
    BY <2>4, <2>6 DEF Surjection
  <2> QED BY <2>7, <2>8 DEF Bijection
<1>6. Cardinality(Keyframes(From(s, b))) = Cardinality(behind)
  BY <1>4, <1>5, FS_Bijection DEF ExistsBijection
<1> QED BY <1>2, <1>3, <1>6

\* A later cut is no larger; a cut and what it gives up make up the whole.
LEMMA BytesOfCut ==
  ASSUME NEW F, NEW s \in Seq(F), NEW b \in 1 .. Len(s) + 1
  PROVE  /\ Bytes(s) \in Nat /\ Bytes(From(s, b)) \in Nat
         /\ Bytes(SubSeq(s, 1, b - 1)) + Bytes(From(s, b)) = Bytes(s)
         /\ \A c \in b .. Len(s) + 1 : Bytes(From(s, c)) <= Bytes(From(s, b))
<1> DEFINE kf == Keyframes(s)
           Behind(c) == {k \in kf : c <= k}
           before == {k \in kf : k < b}
<1>1. Len(s) \in Nat /\ b \in Nat /\ Len(From(s, b)) = Len(s) + 1 - b /\ Len(SubSeq(s, 1, b - 1)) = b - 1
  BY FromIs
<1>2. kf \subseteq Int /\ IsFiniteSet(kf) /\ Cardinality(kf) \in Nat
  BY KeyframesFinite
<1>3. \A c : IsFiniteSet(Behind(c)) /\ Cardinality(Behind(c)) \in Nat
  BY <1>2, FS_Subset, FS_CardinalityType
<1>4. IsFiniteSet(before) /\ Cardinality(before) \in Nat
  BY <1>2, FS_Subset, FS_CardinalityType
<1>5. Cardinality(kf) = Cardinality(before) + Cardinality(Behind(b))
  <2>1. kf = before \cup Behind(b) /\ before \cap Behind(b) = {}
    BY <1>1, <1>2
  <2>2. Cardinality(before \cap Behind(b)) = 0
    BY <2>1, FS_EmptySet
  <2> HIDE DEF before, Behind, kf
  <2>3. Cardinality(before \cup Behind(b)) =
          Cardinality(before) + Cardinality(Behind(b)) - Cardinality(before \cap Behind(b))
    BY <1>3, <1>4, FS_Union
  <2> QED BY <1>3, <1>4, <2>1, <2>2, <2>3
<1>6. Bytes(From(s, b)) = Len(s) + 1 - b + Cardinality(Behind(b))
  BY <1>1, KeyframesOfCut DEF Bytes
<1>7. Bytes(SubSeq(s, 1, b - 1)) = b - 1 + Cardinality(before)
  BY <1>1, KeyframesOfCut DEF Bytes
<1>8. ASSUME NEW c \in b .. Len(s) + 1
      PROVE  Bytes(From(s, c)) <= Bytes(From(s, b))
  <2>1. c \in 1 .. Len(s) + 1 /\ c \in Int /\ b <= c
    BY <1>1
  <2>2. Bytes(From(s, c)) = Len(s) + 1 - c + Cardinality(Behind(c))
    BY ZenonT(40), <2>1, KeyframesOfCut, FromIs DEF Bytes
  <2>3. Behind(c) \subseteq Behind(b)
    BY <1>1, <1>2, <2>1
  <2>4. Cardinality(Behind(c)) <= Cardinality(Behind(b))
    BY <1>3, <2>3, FS_Subset
  <2> HIDE DEF Behind
  <2> QED BY <1>1, <1>3, <1>6, <2>1, <2>2, <2>4
<1>9. Bytes(s) = Len(s) + Cardinality(kf)
  BY DEF Bytes
<1> HIDE DEF before, Behind, kf
<1>10. Bytes(s) \in Nat /\ Bytes(From(s, b)) \in Nat
  BY <1>1, <1>2, <1>3, <1>6, <1>9
<1>11. Bytes(SubSeq(s, 1, b - 1)) + Bytes(From(s, b)) = Bytes(s)
  BY <1>1, <1>2, <1>3, <1>4, <1>5, <1>6, <1>7, <1>9
<1> QED BY <1>8, <1>10, <1>11

\* A frame that is appended adds its size, and a position if it is a keyframe.
LEMMA BytesOfAppend ==
  ASSUME NEW F, NEW s \in Seq(F), NEW f \in F
  PROVE  /\ Bytes(Append(s, f)) = Bytes(s) + FrameSize(f.kind)
         /\ Keyframes(Append(s, f)) =
              Keyframes(s) \cup (IF f.kind = "keyframe" THEN {Len(s) + 1} ELSE {})
<1>1. Len(s) \in Nat /\ Len(Append(s, f)) = Len(s) + 1 /\ Append(s, f)[Len(s) + 1] = f
      /\ \A i \in 1 .. Len(s) : Append(s, f)[i] = s[i]
  OBVIOUS
<1>2. \A i \in 1 .. Len(s) + 1 : i \in 1 .. Len(s) \/ i = Len(s) + 1
  BY <1>1
<1>3. Keyframes(Append(s, f)) = Keyframes(s) \cup (IF f.kind = "keyframe" THEN {Len(s) + 1} ELSE {})
  BY <1>1, <1>2 DEF Keyframes
<1>4. Keyframes(s) \subseteq 1 .. Len(s) /\ IsFiniteSet(Keyframes(s)) /\ Cardinality(Keyframes(s)) \in Nat
  BY KeyframesFinite
<1>5. Len(s) + 1 \notin Keyframes(s)
  BY <1>1, <1>4
<1>6. Cardinality(Keyframes(Append(s, f))) =
        Cardinality(Keyframes(s)) + (IF f.kind = "keyframe" THEN 1 ELSE 0)
  <2>1. CASE f.kind = "keyframe"
    BY <1>3, <1>4, <1>5, <2>1, FS_AddElement
  <2>2. CASE f.kind # "keyframe"
    BY <1>3, <1>4, <2>2
  <2> QED BY <2>1, <2>2
<1> QED BY <1>1, <1>3, <1>4, <1>6 DEF Bytes, FrameSize

\* Cutting what was cut.
LEMMA CutOfCut ==
  ASSUME NEW F, NEW s \in Seq(F), NEW b \in 1 .. Len(s) + 1, NEW k \in b .. Len(s) + 1
  PROVE  From(From(s, b), k - b + 1) = From(s, k)
<1> DEFINE t == From(s, b)
<1>1. Len(s) \in Nat /\ b \in Nat /\ k \in 1 .. Len(s) + 1 /\ b <= k
  OBVIOUS
<1>2. t \in Seq(F) /\ Len(t) = Len(s) + 1 - b /\ \A i \in 1 .. Len(s) + 1 - b : t[i] = s[b + i - 1]
  BY <1>1, FromIs
<1> HIDE DEF t
<1>3. k - b + 1 \in 1 .. Len(t) + 1
  BY <1>1, <1>2
<1>4. /\ From(t, k - b + 1) \in Seq(F) /\ Len(From(t, k - b + 1)) = Len(t) + 1 - (k - b + 1)
      /\ \A i \in 1 .. Len(t) + 1 - (k - b + 1) : From(t, k - b + 1)[i] = t[(k - b + 1) + i - 1]
  BY <1>2, <1>3, FromIs
<1>5. /\ From(s, k) \in Seq(F) /\ Len(From(s, k)) = Len(s) + 1 - k
      /\ \A i \in 1 .. Len(s) + 1 - k : From(s, k)[i] = s[k + i - 1]
  BY <1>1, FromIs
<1>6. Len(t) + 1 - (k - b + 1) = Len(s) + 1 - k
  BY <1>1, <1>2
<1>7. ASSUME NEW i \in 1 .. Len(s) + 1 - k
      PROVE  From(t, k - b + 1)[i] = From(s, k)[i]
  <2>1. (k - b + 1) + i - 1 \in 1 .. Len(s) + 1 - b /\ b + ((k - b + 1) + i - 1) - 1 = k + i - 1
    BY <1>1
  <2>2. From(t, k - b + 1)[i] = t[(k - b + 1) + i - 1]
    BY <1>4, <1>6
  <2> QED BY <1>2, <1>5, <2>1, <2>2
<1>8. From(t, k - b + 1) = From(s, k)
  BY <1>4, <1>5, <1>6, <1>7, SeqEqual
<1> QED BY <1>8 DEF t

-----------------------------------------------------------------------------
(* GOPBuffer *)

LastKey(s) == IF Keyframes(s) = {} THEN 0 ELSE Max(Keyframes(s))

\* LastKey is the position of the last keyframe, 0 if there is none.
LEMMA LastKeyIs ==
  ASSUME NEW F, NEW s \in Seq(F)
  PROVE  /\ LastKey(s) \in 0 .. Len(s)
         /\ LastKey(s) = 0 <=> Keyframes(s) = {}
         /\ LastKey(s) # 0 => LastKey(s) \in Keyframes(s)
         /\ \A k \in Keyframes(s) : k <= LastKey(s)
         /\ \A k \in Keyframes(s) : (\A j \in Keyframes(s) : j <= k) => LastKey(s) = k
<1>1. Keyframes(s) \subseteq 1 .. Len(s) /\ Keyframes(s) \subseteq Int /\ IsFiniteSet(Keyframes(s)) /\ Len(s) \in Nat
  BY KeyframesFinite
<1>2. CASE Keyframes(s) = {}
  BY <1>1, <1>2 DEF LastKey
<1>3. CASE Keyframes(s) # {}
  <2>1. Max(Keyframes(s)) \in Keyframes(s) /\ \A y \in Keyframes(s) : y <= Max(Keyframes(s))
    BY <1>1, <1>3, FiniteExtremes
  <2>2. LastKey(s) = Max(Keyframes(s))
    BY <1>3 DEF LastKey
  <2> QED BY <1>1, <1>3, <2>1, <2>2
<1> QED BY <1>2, <1>3

\* A cut keeps the last keyframe or has none.
LEMMA LastKeyOfCut ==
  ASSUME NEW F, NEW s \in Seq(F), NEW b \in 1 .. Len(s) + 1
  PROVE  LastKey(From(s, b)) = IF b <= LastKey(s) THEN LastKey(s) - b + 1 ELSE 0
<1>1. Len(s) \in Nat /\ b \in Nat /\ From(s, b) \in Seq(F) /\ LastKey(s) \in 0 .. Len(s)
  BY FromIs, LastKeyIs
<1>2. Keyframes(From(s, b)) = {i \in 1 .. Len(s) + 1 - b : b + i - 1 \in Keyframes(s)}
  BY KeyframesOfCut
<1>3. \A k \in Keyframes(s) : k \in Int /\ k <= LastKey(s)
  BY KeyframesFinite, LastKeyIs
<1>4. CASE b <= LastKey(s)
  <2>1. LastKey(s) \in Keyframes(s)
    BY <1>1, <1>4, LastKeyIs
  <2>2. LastKey(s) - b + 1 \in Keyframes(From(s, b))
    BY <1>1, <1>2, <1>4, <2>1
  <2>3. \A j \in Keyframes(From(s, b)) : j <= LastKey(s) - b + 1
    BY <1>1, <1>2, <1>3
  <2>4. LastKey(From(s, b)) = LastKey(s) - b + 1
    BY <1>1, <2>2, <2>3, LastKeyIs
  <2> QED BY <1>4, <2>4
<1>5. CASE ~ (b <= LastKey(s))
  <2>1. Keyframes(From(s, b)) = {}
    BY <1>1, <1>2, <1>3, <1>5
  <2> QED BY <1>5, <2>1 DEF LastKey
<1> QED BY <1>4, <1>5

\* A keyframe that arrives is the last one; any other frame leaves the last where it is.
LEMMA LastKeyOfAppend ==
  ASSUME NEW F, NEW s \in Seq(F), NEW f \in F
  PROVE  LastKey(Append(s, f)) = IF f.kind = "keyframe" THEN Len(s) + 1 ELSE LastKey(s)
<1>1. Keyframes(Append(s, f)) = Keyframes(s) \cup (IF f.kind = "keyframe" THEN {Len(s) + 1} ELSE {})
  BY BytesOfAppend
<1>2. Append(s, f) \in Seq(F) /\ Len(s) \in Nat /\ Keyframes(s) \subseteq 1 .. Len(s)
  BY KeyframesFinite
<1>3. CASE f.kind = "keyframe"
  <2>1. Len(s) + 1 \in Keyframes(Append(s, f)) /\ \A j \in Keyframes(Append(s, f)) : j <= Len(s) + 1
    BY <1>1, <1>2, <1>3
  <2> QED BY <1>2, <1>3, <2>1, LastKeyIs
<1>4. CASE f.kind # "keyframe"
  BY <1>1, <1>4 DEF LastKey
<1> QED BY <1>3, <1>4

Cache(F, C) ==
  [frames : Seq(F), bytes : Nat, lastKeyframe : Nat, metadata : BOOLEAN, headers : BOOLEAN, config : C]

\* The members of a buffer agree: the bytes and the last keyframe are those of the frames.
Agrees(g) == g.bytes = Bytes(g.frames) /\ g.lastKeyframe = LastKey(g.frames)

\* A cut of a buffer whose members agree is one.
LEMMA EvictTo ==
  ASSUME NEW F, NEW C, NEW g \in Cache(F, C), Agrees(g), NEW b \in 1 .. Len(g.frames) + 1
  PROVE  /\ evictTo(g, b) \in Cache(F, C) /\ Agrees(evictTo(g, b))
         /\ evictTo(g, b).frames = From(g.frames, b) /\ evictTo(g, b).config = g.config
<1> DEFINE e == evictTo(g, b)
<1>1. g.frames \in Seq(F)
  BY DEF Cache
<1>2. e = [g EXCEPT !.frames = From(g.frames, b), !.bytes = g.bytes - Bytes(SubSeq(g.frames, 1, b - 1)),
                    !.lastKeyframe = LastKey(From(g.frames, b))]
  BY DEF evictTo, updateKeyframeIndex, LastKey, Cache
<1>3. From(g.frames, b) \in Seq(F) /\ SubSeq(g.frames, 1, b - 1) \in Seq(F)
  BY <1>1, FromIs
<1>4. LastKey(From(g.frames, b)) \in Nat
  BY <1>3, LastKeyIs
<1>5. 1 \in 1 .. Len(SubSeq(g.frames, 1, b - 1)) + 1
  BY <1>3
<1>6. /\ Bytes(SubSeq(g.frames, 1, b - 1)) + Bytes(From(g.frames, b)) = Bytes(g.frames)
      /\ Bytes(From(g.frames, b)) \in Nat /\ Bytes(g.frames) \in Nat
  BY <1>1, BytesOfCut
<1>7. Bytes(SubSeq(g.frames, 1, b - 1)) \in Nat
  BY <1>3, <1>5, BytesOfCut
<1>8. g.bytes - Bytes(SubSeq(g.frames, 1, b - 1)) = Bytes(From(g.frames, b))
  BY <1>6, <1>7 DEF Agrees
<1>9. e.frames = From(g.frames, b) /\ e.bytes = Bytes(From(g.frames, b)) /\ e.config = g.config
      /\ e.lastKeyframe = LastKey(From(g.frames, b)) /\ e \in Cache(F, C)
  BY <1>2, <1>3, <1>4, <1>6, <1>8 DEF Cache
<1> QED BY <1>9 DEF Agrees

\* What is left is within the limit, or its last group alone exceeds it.
Bounded(g) ==
  \/ g.bytes <= g.config.maxBytes
  \/ LastKey(g.frames) # 0 /\ Bytes(From(g.frames, LastKey(g.frames))) > g.config.maxBytes

\* The front goes as far as the limit asks for.
LEMMA FrontBoundary ==
  ASSUME NEW F, NEW s \in Seq(F), NEW config, config.maxBytes \in Nat
  PROVE  /\ frontBoundary(s, config) \in 1 .. Len(s) + 1
         /\ Bytes(From(s, frontBoundary(s, config))) <= config.maxBytes
         /\ \A k \in 1 .. frontBoundary(s, config) - 1 : Bytes(From(s, k)) > config.maxBytes
<1> DEFINE S == {b \in 1 .. Len(s) + 1 : Bytes(From(s, b)) <= config.maxBytes}
<1>1. Len(s) \in Nat /\ Len(s) + 1 \in 1 .. Len(s) + 1
  OBVIOUS
<1>2. Len(From(s, Len(s) + 1)) = 0
  BY <1>1, FromIs
<1>3. Bytes(From(s, Len(s) + 1)) = 0
  <2> DEFINE t == From(s, Len(s) + 1)
  <2>1. Len(t) = 0
    BY <1>2
  <2> HIDE DEF t
  <2>2. Keyframes(t) = {} /\ Cardinality({}) = 0
    BY <2>1, FS_EmptySet DEF Keyframes
  <2>3. Bytes(t) = 0
    BY <2>1, <2>2 DEF Bytes
  <2> QED BY <2>3 DEF t
<1>4. S # {} /\ S \subseteq Int
  BY <1>1, <1>3
<1>5. IsFiniteSet(S)
  <2>1. IsFiniteSet(1 .. Len(s) + 1) /\ S \in SUBSET (1 .. Len(s) + 1)
    BY <1>1, FS_Interval
  <2> HIDE DEF S
  <2> QED BY <2>1, FS_Subset
<1>6. Min(S) \in S /\ \A y \in S : Min(S) <= y
  BY <1>4, <1>5, FiniteExtremes
<1>7. ASSUME NEW k \in 1 .. Min(S) - 1
      PROVE  Bytes(From(s, k)) > config.maxBytes
  <2>1. k \in 1 .. Len(s) + 1 /\ k \notin S
    BY <1>1, <1>6
  <2>2. Bytes(From(s, k)) \in Nat /\ ~ (Bytes(From(s, k)) <= config.maxBytes)
    BY <2>1, BytesOfCut
  <2> QED BY <2>2
<1> QED BY <1>6, <1>7 DEF frontBoundary

\* With several keyframes the last one stays, and the limit is met unless its group exceeds it.
LEMMA GopBoundary ==
  ASSUME NEW F, NEW s \in Seq(F), NEW config, config.maxBytes \in Nat, Cardinality(Keyframes(s)) > 1
  PROVE  /\ gopBoundary(s, config) \in 1 .. LastKey(s)
         /\ \/ Bytes(From(s, gopBoundary(s, config))) <= config.maxBytes
            \/ Bytes(From(s, LastKey(s))) > config.maxBytes
<1> DEFINE kfs        == Keyframes(s)
           Fitting(b) == Bytes(From(s, b)) <= config.maxBytes
           candidates == {b \in kfs \ {Min(kfs)} :
                            \/ Max(Times(s)) - Min(Times(From(s, b))) >= config.minDuration
                            \/ Fitting(b) /\ b = Max(kfs)}
           fitting    == {b \in candidates : Fitting(b)}
<1>1. /\ kfs \subseteq 1 .. Len(s) /\ kfs \subseteq Int /\ IsFiniteSet(kfs) /\ Len(s) \in Nat
      /\ Cardinality(kfs) \in Nat
  BY KeyframesFinite
<1>2. kfs # {} /\ \A x : kfs # {x}
  <2>1. ASSUME kfs = {} PROVE FALSE
    <3>1. Cardinality({}) = 0
      BY FS_EmptySet
    <3> QED BY <2>1, <3>1
  <2>2. ASSUME NEW x, kfs = {x} PROVE FALSE
    <3>1. Cardinality({x}) = 1
      BY FS_Singleton
    <3> HIDE DEF kfs
    <3>2. Cardinality(kfs) > 1
      BY DEF kfs
    <3> QED BY <2>2, <3>1, <3>2
  <2> QED BY <2>1, <2>2
<1>3. LastKey(s) = Max(kfs) /\ Max(kfs) \in kfs /\ \A y \in kfs : y <= Max(kfs)
  BY <1>1, <1>2, FiniteExtremes DEF LastKey
<1>4. Min(kfs) \in kfs /\ \A y \in kfs : Min(kfs) <= y
  BY <1>1, <1>2, FiniteExtremes
<1>5. Max(kfs) # Min(kfs)
  <2>1. PICK y \in kfs : y # Min(kfs)
    <3> DEFINE m == Min(kfs)
    <3>1. kfs # {m} /\ m \in kfs
      BY <1>2, <1>4
    <3> HIDE DEF m, kfs
    <3>2. \E y \in kfs : y # m
      BY <3>1
    <3> QED BY <3>2 DEF m
  <2> QED BY <1>1, <1>3, <1>4, <2>1
<1>6. gopBoundary(s, config) = IF fitting # {} THEN Min(fitting) ELSE Max(candidates \cup {1})
  BY DEF gopBoundary
<1>7. candidates \subseteq kfs /\ fitting \subseteq candidates
  OBVIOUS
<1>8. CASE fitting # {}
  <2>1. IsFiniteSet(fitting) /\ fitting \subseteq Int
    BY <1>1, <1>7, FS_Subset
  <2>2. Min(fitting) \in fitting
    BY <1>8, <2>1, FiniteExtremes
  <2>3. gopBoundary(s, config) \in kfs /\ Fitting(gopBoundary(s, config))
    BY <1>6, <1>8, <2>2
  <2> QED BY <1>1, <1>3, <2>3
<1>9. CASE fitting = {}
  <2>1. candidates \cup {1} \subseteq 1 .. LastKey(s) /\ candidates \cup {1} # {}
    BY <1>1, <1>3, <1>7
  <2>2. IsFiniteSet(candidates \cup {1})
    <3> HIDE DEF candidates, kfs
    <3>1. IsFiniteSet(candidates)
      BY <1>1, <1>7, FS_Subset
    <3> QED BY <3>1, FS_AddElement
  <2>3. Max(candidates \cup {1}) \in candidates \cup {1}
    <3>1. candidates \cup {1} \subseteq Int
      BY <2>1
    <3> HIDE DEF candidates
    <3> QED BY <2>1, <2>2, <3>1, FiniteExtremes
  <2>4. Max(kfs) \notin fitting /\ Max(kfs) \in kfs \ {Min(kfs)}
    BY <1>3, <1>5, <1>9
  <2>5. ~ Fitting(Max(kfs))
    BY <2>4
  <2>6. LastKey(s) \in 1 .. Len(s) + 1
    BY <1>1, <1>3
  <2>7. Bytes(From(s, LastKey(s))) \in Nat
    BY <2>6, BytesOfCut
  <2>8. Bytes(From(s, LastKey(s))) > config.maxBytes
    BY <1>3, <2>5, <2>7
  <2>9. gopBoundary(s, config) = Max(candidates \cup {1})
    BY <1>6, <1>9
  <2>10. gopBoundary(s, config) \in 1 .. LastKey(s)
    BY <2>1, <2>3, <2>9
  <2> QED BY <2>8, <2>10
<1> QED BY <1>8, <1>9

\* Evicting cuts the front: the last keyframe goes only if its group exceeds the limit.
LEMMA EvictIs ==
  ASSUME NEW F, NEW C, NEW g \in Cache(F, C), Agrees(g), g.config.maxBytes \in Nat
  PROVE  \E b \in 1 .. Len(g.frames) + 1 :
           /\ evictOldFrames(g) \in Cache(F, C) /\ Agrees(evictOldFrames(g))
           /\ evictOldFrames(g).frames = From(g.frames, b)
           /\ evictOldFrames(g).config = g.config
           /\ LastKey(g.frames) \in 1 .. b - 1 =>
                Bytes(From(g.frames, LastKey(g.frames))) > g.config.maxBytes
           /\ Bounded(evictOldFrames(g))
<1> DEFINE s == g.frames
           e == evictOldFrames(g)
           k == LastKey(s)
<1>1. s \in Seq(F) /\ Len(s) \in Nat
  BY DEF Cache
<1>2. k \in 0 .. Len(s)
  BY <1>1, LastKeyIs
<1>3. CASE ~ needsEviction(g)
  <2>1. e = g
    BY <1>3 DEF evictOldFrames
  <2>2. 1 \in 1 .. Len(s) + 1 /\ From(s, 1) = s
    BY <1>1 DEF From
  <2>3. g.bytes <= g.config.maxBytes
    <3>1. g.bytes \in Nat
      BY DEF Cache
    <3> QED BY <1>3, <3>1 DEF needsEviction
  <2>4. ~ (k \in 1 .. 1 - 1)
    BY <1>2
  <2> QED BY <2>1, <2>2, <2>3, <2>4 DEF Bounded
<1>4. CASE needsEviction(g) /\ Cardinality(Keyframes(s)) < 2
  <2> DEFINE b == frontBoundary(s, g.config)
  <2>1. e = evictTo(g, b)
    BY <1>4 DEF evictOldFrames
  <2>2. /\ b \in 1 .. Len(s) + 1 /\ Bytes(From(s, b)) <= g.config.maxBytes
        /\ \A i \in 1 .. b - 1 : Bytes(From(s, i)) > g.config.maxBytes
    BY <1>1, FrontBoundary
  <2> HIDE DEF b
  <2>3. e \in Cache(F, C) /\ Agrees(e) /\ e.frames = From(s, b) /\ e.config = g.config
    BY <2>1, <2>2, EvictTo
  <2>4. Bounded(e)
    BY <2>2, <2>3 DEF Bounded, Agrees
  <2> QED BY <2>2, <2>3, <2>4
<1>5. CASE needsEviction(g) /\ ~ (Cardinality(Keyframes(s)) < 2)
  <2> DEFINE b == gopBoundary(s, g.config)
  <2>1. e = evictTo(g, b)
    BY <1>5 DEF evictOldFrames
  <2>2. Cardinality(Keyframes(s)) > 1
    BY <1>1, <1>5, KeyframesFinite
  <2>3. /\ b \in 1 .. k
        /\ Bytes(From(s, b)) <= g.config.maxBytes \/ Bytes(From(s, k)) > g.config.maxBytes
    BY <1>1, <2>2, GopBoundary
  <2> HIDE DEF b
  <2>4. b \in 1 .. Len(s) + 1 /\ ~ (k \in 1 .. b - 1)
    BY <1>1, <1>2, <2>3
  <2>5. e \in Cache(F, C) /\ Agrees(e) /\ e.frames = From(s, b) /\ e.config = g.config
    BY <2>1, <2>4, EvictTo
  <2>6. LastKey(e.frames) = k - b + 1 /\ k - b + 1 \in 1 .. Len(e.frames)
    <3>1. LastKey(From(s, b)) = k - b + 1
      BY <1>1, <2>3, <2>4, LastKeyOfCut
    <3>2. Len(From(s, b)) = Len(s) + 1 - b
      BY <1>1, <2>4, FromIs
    <3> QED BY <1>1, <1>2, <2>3, <2>5, <3>1, <3>2
  <2>7. From(e.frames, k - b + 1) = From(s, k)
    BY <1>1, <1>2, <2>3, <2>4, <2>5, <2>6, CutOfCut
  <2>8. Bounded(e)
    <3>1. CASE Bytes(From(s, b)) <= g.config.maxBytes
      BY <2>5, <3>1 DEF Bounded, Agrees
    <3>2. CASE Bytes(From(s, k)) > g.config.maxBytes
      <4>1. LastKey(e.frames) # 0
        BY <2>6
      <4> QED BY <2>5, <2>6, <2>7, <3>2, <4>1 DEF Bounded
    <3> QED BY <2>3, <3>1, <3>2
  <2> QED BY <2>4, <2>5, <2>8
<1> QED BY <1>3, <1>4, <1>5

\* GOPBuffer::push and setConfig.
LEMMA PushIs ==
  ASSUME NEW F, NEW C, NEW g \in Cache(F, C), Agrees(g), g.config.maxBytes \in Nat, NEW f \in F
  PROVE  LET s == Append(g.frames, f)
         IN  \E b \in 1 .. Len(s) + 1 :
               /\ gopPush(g, f) \in Cache(F, C) /\ Agrees(gopPush(g, f))
               /\ gopPush(g, f).frames = From(s, b)
               /\ gopPush(g, f).config = g.config
               /\ LastKey(s) \in 1 .. b - 1 => Bytes(From(s, LastKey(s))) > g.config.maxBytes
               /\ Bounded(gopPush(g, f))
<1> DEFINE s == Append(g.frames, f)
           h == [g EXCEPT !.frames = Append(@, f), !.bytes = @ + FrameSize(f.kind),
                          !.lastKeyframe = IF f.kind = "keyframe" THEN Len(g.frames) + 1 ELSE @]
<1>1. gopPush(g, f) = evictOldFrames(h)
  BY DEF gopPush
<1>2. g.frames \in Seq(F) /\ s \in Seq(F) /\ Len(g.frames) \in Nat
  BY DEF Cache
<1>3. h.frames = s /\ h.config = g.config /\ h \in Cache(F, C)
  <2>1. Append(g.frames, f) \in Seq(F)
    BY <1>2
  <2>2. g.bytes + FrameSize(f.kind) \in Nat
    BY DEF Cache, FrameSize
  <2>3. (IF f.kind = "keyframe" THEN Len(g.frames) + 1 ELSE g.lastKeyframe) \in Nat
    BY <1>2 DEF Cache
  <2> QED BY <2>1, <2>2, <2>3 DEF Cache
<1>4. h.bytes = g.bytes + FrameSize(f.kind)
      /\ h.lastKeyframe = IF f.kind = "keyframe" THEN Len(g.frames) + 1 ELSE g.lastKeyframe
  BY DEF Cache
<1>5. Agrees(h)
  <2>1. Bytes(s) = Bytes(g.frames) + FrameSize(f.kind)
    BY <1>2, BytesOfAppend
  <2>2. LastKey(s) = IF f.kind = "keyframe" THEN Len(g.frames) + 1 ELSE LastKey(g.frames)
    BY <1>2, LastKeyOfAppend
  <2> QED BY <1>3, <1>4, <2>1, <2>2 DEF Agrees
<1>6. PICK b \in 1 .. Len(h.frames) + 1 :
           /\ evictOldFrames(h) \in Cache(F, C) /\ Agrees(evictOldFrames(h))
           /\ evictOldFrames(h).frames = From(h.frames, b)
           /\ evictOldFrames(h).config = h.config
           /\ LastKey(h.frames) \in 1 .. b - 1 =>
                Bytes(From(h.frames, LastKey(h.frames))) > h.config.maxBytes
           /\ Bounded(evictOldFrames(h))
  <2> HIDE DEF h
  <2> QED BY <1>3, <1>5, EvictIs
<1> HIDE DEF h, s
<1> QED BY <1>1, <1>3, <1>6 DEF s

\* New limits cut the front likewise.
LEMMA SetConfigIs ==
  ASSUME NEW F, NEW C, NEW g \in Cache(F, C), Agrees(g), NEW c \in C, c.maxBytes \in Nat
  PROVE  \E b \in 1 .. Len(g.frames) + 1 :
           /\ gopSetConfig(g, c) \in Cache(F, C) /\ Agrees(gopSetConfig(g, c))
           /\ gopSetConfig(g, c).frames = From(g.frames, b)
           /\ gopSetConfig(g, c).config = c
           /\ LastKey(g.frames) \in 1 .. b - 1 =>
                Bytes(From(g.frames, LastKey(g.frames))) > c.maxBytes
           /\ Bounded(gopSetConfig(g, c))
<1> DEFINE h == [g EXCEPT !.config = c]
<1>1. gopSetConfig(g, c) = evictOldFrames(h)
  BY DEF gopSetConfig
<1>2. h \in Cache(F, C) /\ h.frames = g.frames /\ h.config = c /\ Agrees(h)
  BY DEF Cache, Agrees
<1> HIDE DEF h
<1> QED BY <1>1, <1>2, EvictIs

\* What a newcomer is given: nothing, or the frames from the last keyframe on.
LEMMA CopyIs ==
  ASSUME NEW F, NEW C, NEW g \in Cache(F, C), Agrees(g)
  PROVE  getFromLastKeyframe(g) =
           IF LastKey(g.frames) = 0 THEN <<>> ELSE From(g.frames, LastKey(g.frames))
BY DEF getFromLastKeyframe, Agrees

-----------------------------------------------------------------------------
(* MediaDistribution *)

PublisherSteps == {"idle", "bare", "cached", "live", "pushed", "sending", "unlisted", "eof", "removing", "closing"}
JoinSteps == {"idle", "checked", "added", "headers", "frames"}
Frames == [kind : {"keyframe", "inter", "audio", "data"}, n : Nat, time : Nat, round : Nat]

\* The types.
DistributionTypes ==
  /\ listed \in BOOLEAN /\ round \in 0 .. MaxRounds /\ cacheOf \in 0 .. round
  /\ gops \in [Rounds -> Cache(Frames, {GopConfig})]
  /\ subscribers \subseteq Subs /\ told \subseteq Subs
  /\ pub \in [pc : PublisherSteps, frame : Frames \cup {0}, todo : SUBSET Subs]
  /\ join \in [Subs -> [pc : JoinSteps, todo : Seq(Frames), cache : 0 .. MaxRounds]]
  /\ sent \in Seq(Frames) /\ given \in [Subs -> Seq(Frames)]
  /\ home \in [Subs -> [round : 0 .. MaxRounds, frames : Nat]]
  /\ strained \in [Subs -> SUBSET {"distribution", "end", "stale"}]

\* Where the publisher's thread is tells what the tables hold.
PublisherPhase ==
  /\ At("idle") \/ At("cached") \/ At("unlisted") => ~ listed
  /\ At("bare") \/ At("live") \/ At("pushed") \/ At("sending") \/ At("closing") => listed
  /\ ~ At("idle") => round > 0
  /\ At("bare") => cacheOf < round
  /\ ~ At("idle") /\ ~ At("bare") => cacheOf = round
  /\ At("bare") \/ At("cached") => sent = <<>>
  /\ At("pushed") \/ At("sending") => sent # <<>> /\ pub.frame = sent[Len(sent)]

\* The frames of the publication, in order.
SentInOrder == \A i \in 1 .. Len(sent) : sent[i].n = i /\ sent[i].round = round

\* The end of the sequence t.
Ending(s, t) == \E b \in 1 .. Len(t) + 1 : s = From(t, b)

\* The cache on the air holds the newest frames, and no keyframe only if there is nothing to
\* start from.
CachesCurrent ==
  /\ \A r \in Rounds : Agrees(gops[r])
  /\ cacheOf = round /\ round > 0 =>
       /\ Ending(gops[round].frames, sent)
       /\ LastKey(gops[round].frames) = 0 => NothingToStartFrom(sent)

\* The thread of a subscriber that joins holds a cache that is or was on the air.
JoinsCurrent ==
  \A s \in Subs : /\ join[s].cache <= cacheOf
                  /\ join[s].pc = "headers" => join[s].cache > 0
                  /\ join[s].pc \in {"idle", "checked", "added"} => join[s].cache = 0 /\ join[s].todo = <<>>
                  /\ s \notin subscribers => given[s] = <<>>
                  /\ Joining(s) /\ join[s].cache = 0 => join[s].pc \in {"added", "frames"}

\* A subscriber whose join did not overlap the end is told of it and then removed.
EndReaches ==
  \A s \in subscribers : "end" \notin strained[s] =>
    /\ pub.pc \notin {"idle", "cached", "closing"}
    /\ home[s].round = round /\ home[s].frames <= Len(sent)
    /\ At("eof") => s \in told \cup pub.todo
    /\ At("removing") => s \in told /\ s \in pub.todo

\* The frame in hand is still to be pushed to s.
Pending(s) == At("pushed") \/ (At("sending") /\ s \in pub.todo)

\* A subscriber that joined after h frames of t has been given those up to the n-th in g: its own,
\* or none yet, as the n-th is the one before it starts.
FedUpTo(g, h, t, n) ==
  /\ n \in 0 .. Len(t)
  /\ \/ /\ g # <<>> /\ n > 0 /\ g[Len(g)].n = n
        /\ \E i \in 1 .. Len(g) : g[i].n \in 1 .. h + 1
     \/ /\ \A i \in 1 .. Len(g) : g[i].n = 0
        /\ n <= h
        /\ n = h => NothingToStartFrom(SubSeq(t, 1, n))
        /\ n < h => t[n + 1].kind = "keyframe"

\* The same for the subscriber s as it is.
UpTo(s, n) == FedUpTo(given[s], home[s].frames, sent, n)

HeadersOnly(q) == \A i \in 1 .. Len(q) : q[i].n = 0 /\ q[i].round = round

\* How far the join of s has come.
Progress(s) ==
  /\ Joining(s) => home[s].frames = Len(sent) /\ ~ At("pushed") /\ ~ At("sending")
  /\ join[s].pc = "added" => given[s] = <<>>
  /\ join[s].pc = "headers" \/ (join[s].pc = "frames" /\ join[s].cache # 0) =>
       join[s].cache = round /\ HeadersOnly(given[s]) /\ HeadersOnly(join[s].todo)
  /\ join[s].pc = "frames" /\ join[s].cache = 0 =>
       Ending(join[s].todo, sent) /\ UpTo(s, Len(sent) - Len(join[s].todo))
  /\ ~ Joining(s) => UpTo(s, IF Pending(s) THEN Len(sent) - 1 ELSE Len(sent))

\* What an undisturbed subscriber has been given: headers and frames of its own publication,
\* in order, from a keyframe on.
GivenOwn(s) ==
  /\ \A i \in 1 .. Len(given[s]) : LET f == given[s][i] IN
       f.round = round /\ (f.n = 0 \/ (f.n \in 1 .. Len(sent) /\ f = sent[f.n]))
  /\ InOrder(given[s])
  /\ \A i \in 1 .. Len(given[s]) : Begins(given[s], i) =>
       given[s][i].kind = "keyframe" \/ NothingToStartFrom(SubSeq(sent, 1, given[s][i].n - 1))

FedInOrder == \A s \in Subs : Undisturbed(s) => Progress(s) /\ GivenOwn(s)

\* The distribution's inductive invariant.
DistributionInv ==
  /\ DistributionTypes /\ PublisherPhase /\ SentInOrder /\ CachesCurrent /\ JoinsCurrent
  /\ EndReaches /\ FedInOrder

\* A frame the model makes up is one.
LEMMA FrameType ==
  ASSUME NEW kind \in {"keyframe", "inter", "audio", "data"}, NEW n \in Nat, NEW r \in Nat
  PROVE  /\ Frame(kind, n, r) \in Frames
         /\ Frame(kind, n, r).kind = kind /\ Frame(kind, n, r).n = n /\ Frame(kind, n, r).round = r
<1>1. n % TimeSpace \in Nat
  BY MediaAssumption
<1> QED BY <1>1 DEF Frame, Frames

\* A buffer that is made.
LEMMA NewCache ==
  ASSUME NEW F, NEW C, NEW c \in C
  PROVE  /\ NewGOPBuffer(c) \in Cache(F, C) /\ Agrees(NewGOPBuffer(c))
         /\ NewGOPBuffer(c).frames = <<>> /\ NewGOPBuffer(c).config = c
         /\ NewGOPBuffer(c).bytes = 0
<1>1. Keyframes(<<>>) = {} /\ Cardinality({}) = 0 /\ Len(<<>>) = 0
  BY FS_EmptySet DEF Keyframes
<1>2. Bytes(<<>>) = 0 /\ LastKey(<<>>) = 0
  BY <1>1 DEF Bytes, LastKey
<1>3. <<>> \in Seq(F)
  OBVIOUS
<1> QED BY <1>2, <1>3 DEF NewGOPBuffer, Cache, Agrees

\* The frames a newcomer is given are frames of the cache.
LEMMA CopyType ==
  ASSUME NEW F, NEW C, NEW g \in Cache(F, C), Agrees(g)
  PROVE  getFromLastKeyframe(g) \in Seq(F)
<1>1. g.frames \in Seq(F) /\ LastKey(g.frames) \in 0 .. Len(g.frames)
  BY LastKeyIs DEF Cache
<1>2. CASE LastKey(g.frames) = 0
  BY <1>2, CopyIs, EmptySeq
<1>3. CASE LastKey(g.frames) # 0
  <2>1. LastKey(g.frames) \in 1 .. Len(g.frames) + 1
    BY <1>1, <1>3
  <2>2. From(g.frames, LastKey(g.frames)) \in Seq(F)
    BY <1>1, <2>1, FromIs
  <2> QED BY <1>3, <2>2, CopyIs
<1> QED BY <1>2, <1>3

\* The caches keep their type and agree.
LEMMA CachesStep ==
  ASSUME DistributionInv, MediaNext
  PROVE  gops' \in [Rounds -> Cache(Frames, {GopConfig})] /\ \A r \in Rounds : Agrees(gops'[r])
<1> DEFINE K == Cache(Frames, {GopConfig})
<1>1. gops \in [Rounds -> K] /\ \A r \in Rounds : Agrees(gops[r])
  BY DEF DistributionInv, DistributionTypes, CachesCurrent
<1>2. GopConfig.maxBytes \in Nat
  BY MediaAssumption
<1>3. CASE UNCHANGED gops
  BY <1>1, <1>3
<1>4. ASSUME setGOPBuffer PROVE gops' \in [Rounds -> K] /\ \A r \in Rounds : Agrees(gops'[r])
  <2>1. NewGOPBuffer(GopConfig) \in K /\ Agrees(NewGOPBuffer(GopConfig))
    BY NewCache
  <2>2. \A r \in Rounds : \/ gops'[r] = gops[r]
                          \/ gops'[r] = NewGOPBuffer(GopConfig)
    BY <1>4 DEF setGOPBuffer
  <2>3. gops' = [r \in Rounds |-> gops'[r]]
    BY <1>4 DEF setGOPBuffer
  <2> QED BY <1>1, <2>1, <2>2, <2>3
<1>5. ASSUME setMetadata \/ setSequenceHeaders
      PROVE  gops' \in [Rounds -> K] /\ \A r \in Rounds : Agrees(gops'[r])
  <2>1. ASSUME NEW g \in K, Agrees(g)
        PROVE  /\ [g EXCEPT !.metadata = TRUE] \in K /\ Agrees([g EXCEPT !.metadata = TRUE])
               /\ [g EXCEPT !.headers = TRUE] \in K /\ Agrees([g EXCEPT !.headers = TRUE])
    BY <2>1 DEF Cache, Agrees
  <2>2. /\ gops' \in [Rounds -> K]
        /\ \A r \in Rounds : gops'[r] = gops[r] \/ gops'[r] = [gops[r] EXCEPT !.metadata = TRUE]
                             \/ gops'[r] = [gops[r] EXCEPT !.headers = TRUE]
    <3> HIDE DEF K
    <3> QED BY <1>1, <1>5, <2>1 DEF setMetadata, setSequenceHeaders
  <2> HIDE DEF K
  <2> QED BY ZenonT(40), <1>1, <2>1, <2>2
<1>6. ASSUME NEW kind \in Published, distribute(kind)
      PROVE  gops' \in [Rounds -> K] /\ \A r \in Rounds : Agrees(gops'[r])
  <2> DEFINE f == Frame(kind, Len(sent) + 1, round)
  <2>1. f \in Frames
    <3>1. kind \in {"keyframe", "inter", "audio", "data"}
      BY MediaAssumption
    <3>2. Len(sent) + 1 \in Nat /\ round \in Nat
      BY MediaAssumption DEF DistributionInv, DistributionTypes
    <3> QED BY <3>1, <3>2, FrameType
  <2>2. ASSUME NEW r \in Rounds
        PROVE  gopPush(gops[r], f) \in K /\ Agrees(gopPush(gops[r], f))
    <3>1. gops[r] \in K /\ Agrees(gops[r])
      BY <1>1
    <3>2. gops[r].config.maxBytes \in Nat
      BY <1>2, <3>1 DEF Cache
    <3> HIDE DEF f
    <3> QED BY <2>1, <3>1, <3>2, PushIs
  <2>3. gops' = [gops EXCEPT ![cacheOf] = gopPush(@, f)]
    BY <1>6 DEF distribute
  <2> HIDE DEF f, K
  <2> QED BY <1>1, <2>2, <2>3
<1>7. UNCHANGED gops \/ setGOPBuffer \/ setMetadata \/ setSequenceHeaders
      \/ \E kind \in Published : distribute(kind)
  BY DEF MediaNext, PublisherNext, SubscriberNext, list, getSubscribersForStream, distributed, onStreamEnd,
     onStreamEnded, ended, unlist, sendFrame, emitStreamEOF, removeEnded, check, alreadyExists,
     addSubscriber, leave, takeMetadata, takeHeaders, takeFrames, sendCached, joined
<1> QED BY <1>3, <1>4, <1>5, <1>6, <1>7

\* A subscriber that is removed leaves nothing behind.
LEMMA RemovedTypes ==
  ASSUME DistributionTypes, NEW s \in Subs, removeSubscriber(s)
  PROVE  /\ subscribers' \subseteq Subs /\ told' \subseteq Subs
         /\ given' \in [Subs -> Seq(Frames)]
         /\ home' \in [Subs -> [round : 0 .. MaxRounds, frames : Nat]]
         /\ strained' \in [Subs -> SUBSET {"distribution", "end", "stale"}]
<1>1. <<>> \in Seq(Frames) /\ [round |-> 0, frames |-> 0] \in [round : 0 .. MaxRounds, frames : Nat]
  BY MediaAssumption
<1> QED BY <1>1 DEF DistributionTypes, removeSubscriber

\* A frame that is given has the type of one.
LEMMA PushedTypes ==
  ASSUME DistributionTypes, NEW s \in Subs, NEW f \in Frames, pushToSubscriber(s, f)
  PROVE  given' \in [Subs -> Seq(Frames)]
<1>1. given[s] \in Seq(Frames)
  BY DEF DistributionTypes
<1>2. Append(given[s], f) \in Seq(Frames)
  BY <1>1
<1> QED BY <1>2 DEF DistributionTypes, pushToSubscriber

\* Types are kept by every step of the distribution.
LEMMA TypesStep ==
  ASSUME DistributionInv, MediaNext
  PROVE  DistributionTypes'
<1> USE MediaAssumption
<1>1. DistributionTypes /\ PublisherPhase /\ JoinsCurrent
  BY DEF DistributionInv
<1>2. gops' \in [Rounds -> Cache(Frames, {GopConfig})]
  BY CachesStep
<1>3. <<>> \in Seq(Frames)
  OBVIOUS
<1>4. ASSUME list \/ setGOPBuffer \/ setMetadata \/ setSequenceHeaders \/ getSubscribersForStream \/ distributed
             \/ onStreamEnd \/ onStreamEnded \/ ended \/ unlist
      PROVE  DistributionTypes'
  <2>1. /\ round' \in 0 .. MaxRounds /\ cacheOf' \in 0 .. round' /\ listed' \in BOOLEAN /\ sent' \in Seq(Frames)
        /\ UNCHANGED <<subscribers, told, given, home, strained, join>>
    <3>1. /\ round \in 0 .. MaxRounds /\ cacheOf \in 0 .. round /\ listed \in BOOLEAN /\ sent \in Seq(Frames)
          /\ MaxRounds \in Nat
      BY <1>1 DEF DistributionTypes
    <3>2. CASE list
      BY <1>3, <3>1, <3>2 DEF list, members
    <3>3. CASE setGOPBuffer
      BY <1>3, <3>1, <3>3 DEF setGOPBuffer, members
    <3>4. CASE ~ list /\ ~ setGOPBuffer
      BY <1>4, <3>1, <3>4 DEF setMetadata, setSequenceHeaders, snapshot,
         getSubscribersForStream, distributed, onStreamEnd, onStreamEnded, ended, unlist, stream, members
    <3> QED BY <3>2, <3>3, <3>4
  <2>2. pub' \in [pc : PublisherSteps, frame : Frames \cup {0}, todo : SUBSET Subs]
    BY <1>1, <1>4 DEF DistributionTypes, list, setGOPBuffer, setMetadata, setSequenceHeaders, snapshot, Goto,
       getSubscribersForStream, distributed, onStreamEnd, onStreamEnded, ended, unlist, PublisherSteps
  <2> QED BY <1>1, <1>2, <2>1, <2>2 DEF DistributionTypes
<1>5. ASSUME NEW kind \in Published, distribute(kind)
      PROVE  DistributionTypes'
  <2> DEFINE f == Frame(kind, Len(sent) + 1, round)
  <2>1. f \in Frames
    <3>1. kind \in {"keyframe", "inter", "audio", "data"}
      OBVIOUS
    <3>2. Len(sent) + 1 \in Nat /\ round \in Nat
      BY <1>1 DEF DistributionTypes
    <3> QED BY <3>1, <3>2, FrameType
  <2>2. Append(sent, f) \in Seq(Frames)
    BY <1>1, <2>1 DEF DistributionTypes
  <2>3. /\ sent' = Append(sent, f) /\ pub' = [pub EXCEPT !.pc = "pushed", !.frame = f]
        /\ UNCHANGED <<listed, round, cacheOf, subscribers, home, told, join>>
    BY <1>5 DEF distribute, stream
  <2>4. strained' \in [Subs -> SUBSET {"distribution", "end", "stale"}]
    BY <1>1, <1>5 DEF distribute, DistributionTypes
  <2>5. given' \in [Subs -> Seq(Frames)]
    <3>1. \A s \in Subs : given[s] \in Seq(Frames)
      BY <1>1 DEF DistributionTypes
    <3> QED BY <1>3, <1>5, <3>1 DEF distribute
  <2> HIDE DEF f
  <2>6. pub' \in [pc : PublisherSteps, frame : Frames \cup {0}, todo : SUBSET Subs]
    BY <1>1, <2>1, <2>3 DEF DistributionTypes, PublisherSteps
  <2> QED BY <1>1, <1>2, <2>2, <2>3, <2>4, <2>5, <2>6 DEF DistributionTypes
<1>6. ASSUME NEW s \in Subs, sendFrame(s)
      PROVE  DistributionTypes'
  <2>1. pub.frame \in Frames
    <3>1. sent # <<>> /\ sent \in Seq(Frames) /\ pub.frame = sent[Len(sent)]
      BY <1>1, <1>6 DEF sendFrame, PublisherPhase, DistributionTypes, At
    <3>2. Len(sent) \in 1 .. Len(sent)
      BY <3>1
    <3> QED BY <3>1, <3>2
  <2>2. given' \in [Subs -> Seq(Frames)]
    BY <1>1, <1>6, <2>1, PushedTypes DEF sendFrame
  <2> QED BY <1>1, <1>2, <1>6, <2>2 DEF DistributionTypes, sendFrame, stream
<1>7. ASSUME NEW s \in Subs, emitStreamEOF(s)
      PROVE  DistributionTypes'
  BY <1>1, <1>2, <1>7 DEF DistributionTypes, emitStreamEOF, stream
<1>8. ASSUME NEW s \in Subs, removeEnded(s) \/ leave(s)
      PROVE  DistributionTypes'
  <2>1. removeSubscriber(s)
    BY <1>8 DEF removeEnded, leave
  <2>2. /\ UNCHANGED <<listed, round, cacheOf, join, sent>>
        /\ pub' = pub \/ pub' = [pub EXCEPT !.todo = @ \ {s}]
    BY <1>8 DEF removeEnded, leave, stream
  <2>3. /\ subscribers' \subseteq Subs /\ told' \subseteq Subs
        /\ given' \in [Subs -> Seq(Frames)]
        /\ home' \in [Subs -> [round : 0 .. MaxRounds, frames : Nat]]
        /\ strained' \in [Subs -> SUBSET {"distribution", "end", "stale"}]
    BY <1>1, <2>1, RemovedTypes
  <2>4. pub' \in [pc : PublisherSteps, frame : Frames \cup {0}, todo : SUBSET Subs]
    <3> DEFINE R == [pc : PublisherSteps, frame : Frames \cup {0}, todo : SUBSET Subs]
    <3>1. pub \in R
      BY <1>1 DEF DistributionTypes
    <3>2. [pub EXCEPT !.todo = @ \ {s}] \in R
      BY <3>1
    <3> HIDE DEF R
    <3>3. pub' \in R
      BY <2>2, <3>1, <3>2
    <3> QED BY <3>3 DEF R
  <2> QED BY <1>1, <1>2, <2>2, <2>3, <2>4 DEF DistributionTypes
<1>9. ASSUME NEW s \in Subs, check(s) \/ alreadyExists(s) \/ joined(s) \/ takeHeaders(s) \/ takeFrames(s)
      PROVE  DistributionTypes'
  <2> DEFINE J == [pc : JoinSteps, todo : Seq(Frames), cache : 0 .. MaxRounds]
  <2>1. join \in [Subs -> J] /\ join[s] \in J
    BY <1>1 DEF DistributionTypes
  <2>2. UNCHANGED <<listed, round, cacheOf, subscribers, given, home, told, strained, pub, sent>>
    BY <1>9 DEF check, alreadyExists, joined, takeHeaders, takeFrames, stream, members
  <2>3. CASE check(s) \/ alreadyExists(s) \/ joined(s)
    <3>1. PICK pc \in JoinSteps : join' = [join EXCEPT ![s].pc = pc]
      BY <2>3 DEF check, alreadyExists, joined, JoinSteps
    <3>2. join' \in [Subs -> J]
      BY <2>1, <3>1
    <3> QED BY <1>1, <1>2, <2>2, <3>2 DEF DistributionTypes
  <2>4. CASE takeHeaders(s)
    <3>1. join[s].pc = "headers"
      BY <2>4 DEF takeHeaders
    <3>2. join[s].cache \in Nat
      BY <2>1
    <3> DEFINE q == IF Cached(s).headers
                    THEN <<header("keyframe", join[s].cache), header("audio", join[s].cache)>> ELSE <<>>
    <3>3. header("keyframe", join[s].cache) \in Frames /\ header("audio", join[s].cache) \in Frames
      BY <3>2, FrameType DEF header
    <3>4. q \in Seq(Frames)
      BY <1>3, <3>3
    <3>5. join' = [join EXCEPT ![s].pc = "frames", ![s].todo = q]
      BY <2>4 DEF takeHeaders
    <3> HIDE DEF q
    <3>6. join' \in [Subs -> J]
      BY <2>1, <3>4, <3>5 DEF JoinSteps
    <3> QED BY <1>1, <1>2, <2>2, <3>6 DEF DistributionTypes
  <2>5. CASE takeFrames(s)
    <3> DEFINE q == getFromLastKeyframe(Cached(s))
    <3>1. join[s].cache \in Rounds
      BY <2>1, <2>5 DEF takeFrames, Rounds
    <3>2. Cached(s) \in Cache(Frames, {GopConfig}) /\ Agrees(Cached(s))
      BY <1>1, <3>1 DEF Cached, DistributionInv, DistributionTypes, CachesCurrent
    <3>3. q \in Seq(Frames)
      BY <3>2, CopyType
    <3>4. join' = [join EXCEPT ![s].todo = q, ![s].cache = 0]
      BY <2>5 DEF takeFrames
    <3> HIDE DEF q
    <3>5. [join[s] EXCEPT !.todo = q, !.cache = 0] \in J
      <4> DEFINE j == join[s]
      <4>1. j \in J /\ 0 \in 0 .. MaxRounds
        BY <2>1
      <4> HIDE DEF j
      <4>2. [j EXCEPT !.todo = q, !.cache = 0] \in J
        BY <3>3, <4>1
      <4> QED BY <4>2 DEF j
    <3>6. join' = [join EXCEPT ![s] = [join[s] EXCEPT !.todo = q, !.cache = 0]]
      BY <2>1, <3>4
    <3> HIDE DEF J
    <3>7. join' \in [Subs -> J]
      BY <2>1, <3>5, <3>6
    <3> QED BY <1>1, <1>2, <2>2, <3>7 DEF DistributionTypes, J
  <2> QED BY <1>9, <2>3, <2>4, <2>5
<1>10. ASSUME NEW s \in Subs, addSubscriber(s)
       PROVE  DistributionTypes'
  <2>1. Len(sent) \in Nat /\ round \in 0 .. MaxRounds
    BY <1>1 DEF DistributionTypes
  <2>2. home' \in [Subs -> [round : 0 .. MaxRounds, frames : Nat]]
    BY <1>1, <1>10, <2>1 DEF DistributionTypes, addSubscriber
  <2>3. strained' \in [Subs -> SUBSET {"distribution", "end", "stale"}]
    BY <1>1, <1>10 DEF DistributionTypes, addSubscriber
  <2>4. join' \in [Subs -> [pc : JoinSteps, todo : Seq(Frames), cache : 0 .. MaxRounds]]
    <3> DEFINE J == [pc : JoinSteps, todo : Seq(Frames), cache : 0 .. MaxRounds]
    <3>1. join \in [Subs -> J]
      BY <1>1 DEF DistributionTypes
    <3>2. join' = [join EXCEPT ![s].pc = "added"]
      BY <1>10 DEF addSubscriber
    <3>3. [join[s] EXCEPT !.pc = "added"] \in J
      <4>1. join[s] \in J /\ "added" \in JoinSteps
        BY <3>1 DEF JoinSteps
      <4> QED BY <4>1
    <3>4. join' = [join EXCEPT ![s] = [join[s] EXCEPT !.pc = "added"]]
      BY <3>1, <3>2
    <3> HIDE DEF J
    <3>5. join' \in [Subs -> J]
      BY <3>1, <3>3, <3>4
    <3> QED BY <3>5 DEF J
  <2> QED BY <1>1, <1>2, <1>10, <2>2, <2>3, <2>4 DEF DistributionTypes, addSubscriber, stream
<1>11. ASSUME NEW s \in Subs, takeMetadata(s)
       PROVE  DistributionTypes'
  <2> DEFINE q == IF gops[cacheOf].metadata THEN <<header("data", cacheOf)>> ELSE <<>>
             j == IF cacheOf = 0 THEN [pc |-> "idle", todo |-> <<>>, cache |-> 0]
                  ELSE [pc |-> "headers", cache |-> cacheOf, todo |-> q]
             J == [pc : JoinSteps, todo : Seq(Frames), cache : 0 .. MaxRounds]
  <2>1. cacheOf \in 0 .. MaxRounds /\ cacheOf \in Nat
    BY <1>1 DEF DistributionTypes
  <2>2. q \in Seq(Frames)
    <3>1. header("data", cacheOf) \in Frames
      BY <2>1, FrameType DEF header
    <3> QED BY <1>3, <3>1
  <2>3. join' = [join EXCEPT ![s] = j]
    BY <1>11 DEF takeMetadata
  <2> HIDE DEF q
  <2>4. j \in J
    BY <1>3, <2>1, <2>2 DEF JoinSteps
  <2> HIDE DEF j
  <2>5. join' \in [Subs -> J]
    BY <1>1, <2>3, <2>4 DEF DistributionTypes
  <2>6. strained' \in [Subs -> SUBSET {"distribution", "end", "stale"}]
    BY <1>1, <1>11 DEF DistributionTypes, takeMetadata
  <2> QED BY <1>1, <1>2, <1>11, <2>5, <2>6 DEF DistributionTypes, takeMetadata, stream
<1>12. ASSUME NEW s \in Subs, sendCached(s)
       PROVE  DistributionTypes'
  <2>1. join[s].todo \in Seq(Frames) /\ join[s].todo # <<>>
    BY <1>1, <1>12 DEF DistributionTypes, sendCached
  <2>2. Head(join[s].todo) \in Frames /\ Tail(join[s].todo) \in Seq(Frames)
    BY <2>1
  <2>3. given' \in [Subs -> Seq(Frames)]
    BY <1>1, <1>12, <2>2, PushedTypes DEF sendCached
  <2>4. join' \in [Subs -> [pc : JoinSteps, todo : Seq(Frames), cache : 0 .. MaxRounds]]
    <3> DEFINE J == [pc : JoinSteps, todo : Seq(Frames), cache : 0 .. MaxRounds]
               q == Tail(join[s].todo)
    <3>1. join \in [Subs -> J]
      BY <1>1 DEF DistributionTypes
    <3>2. q \in Seq(Frames) /\ join' = [join EXCEPT ![s].todo = q]
      BY <1>12, <2>2 DEF sendCached
    <3> HIDE DEF q
    <3>3. [join[s] EXCEPT !.todo = q] \in J
      BY <3>1, <3>2
    <3>4. join' = [join EXCEPT ![s] = [join[s] EXCEPT !.todo = q]]
      BY <3>1, <3>2
    <3> HIDE DEF J
    <3>5. join' \in [Subs -> J]
      BY <3>1, <3>3, <3>4
    <3> QED BY <3>5 DEF J
  <2> QED BY <1>1, <1>2, <1>12, <2>3, <2>4 DEF DistributionTypes, sendCached, stream
<1> QED BY <1>4, <1>5, <1>6, <1>7, <1>8, <1>9, <1>10, <1>11, <1>12 DEF MediaNext, PublisherNext, SubscriberNext

\* The publisher's thread alone changes its position, the frames and the registry's entry.
LEMMA SubscribersStep ==
  ASSUME NEW s \in Subs, SubscriberNext(s)
  PROVE  UNCHANGED <<listed, round, cacheOf, sent, pub, gops>>
BY DEF SubscriberNext, check, alreadyExists, addSubscriber, leave, takeMetadata, takeHeaders, takeFrames,
   sendCached, joined, stream, members

\* The publisher and the registry agree on the phase of the publication.
LEMMA PhaseStep ==
  ASSUME DistributionInv, MediaNext
  PROVE  PublisherPhase' /\ SentInOrder'
<1>1. PublisherPhase /\ SentInOrder
  BY DEF DistributionInv
<1>2. /\ listed \in BOOLEAN /\ round \in Nat /\ cacheOf \in 0 .. round /\ sent \in Seq(Frames)
      /\ pub \in [pc : PublisherSteps, frame : Frames \cup {0}, todo : SUBSET Subs]
  BY MediaAssumption DEF DistributionInv, DistributionTypes
<1>3. <<>> \in Seq(Frames) /\ \A i \in 1 .. Len(<<>>) : FALSE
  OBVIOUS
<1>4. CASE UNCHANGED <<listed, round, cacheOf, sent, pub>>
  BY <1>1, <1>4 DEF PublisherPhase, SentInOrder, At
<1>5. CASE list
  <2>1. PublisherPhase'
    BY <1>1, <1>2, <1>5 DEF list, PublisherPhase, At, Goto
  <2>2. SentInOrder'
    <3>1. sent' = <<>> \/ (sent' = sent /\ round' = round)
      BY <1>5 DEF list
    <3> QED BY <1>1, <1>3, <3>1 DEF SentInOrder
  <2> QED BY <2>1, <2>2
<1>6. CASE setGOPBuffer
  <2>1. PublisherPhase'
    BY <1>1, <1>2, <1>6 DEF setGOPBuffer, PublisherPhase, At, Goto
  <2>2. SentInOrder'
    <3>1. sent' = <<>> \/ (sent' = sent /\ round' = round)
      BY <1>6 DEF setGOPBuffer
    <3> QED BY <1>1, <1>3, <3>1 DEF SentInOrder
  <2> QED BY <2>1, <2>2
<1>7. ASSUME NEW kind \in Published, distribute(kind)
      PROVE  PublisherPhase' /\ SentInOrder'
  <2> DEFINE f == Frame(kind, Len(sent) + 1, round)
  <2>1. f \in Frames /\ f.n = Len(sent) + 1 /\ f.round = round
    <3>1. kind \in {"keyframe", "inter", "audio", "data"}
      BY MediaAssumption
    <3>2. Len(sent) + 1 \in Nat
      BY <1>2
    <3> QED BY <1>2, <3>1, <3>2, FrameType
  <2>2. /\ sent' = Append(sent, f) /\ pub' = [pub EXCEPT !.pc = "pushed", !.frame = f]
        /\ UNCHANGED <<listed, round, cacheOf>> /\ At("live")
    BY <1>7 DEF distribute, stream
  <2> HIDE DEF f
  <2>3. /\ Len(sent') = Len(sent) + 1 /\ sent' # <<>> /\ sent'[Len(sent) + 1] = f
        /\ \A i \in 1 .. Len(sent) : sent'[i] = sent[i]
    BY <1>2, <2>1, <2>2
  <2>4. pub'.pc = "pushed" /\ pub'.frame = f
    BY <1>2, <2>2
  <2>5. PublisherPhase'
    BY <1>1, <2>2, <2>3, <2>4 DEF PublisherPhase, At
  <2>6. SentInOrder'
    <3>1. \A i \in 1 .. Len(sent) + 1 : i \in 1 .. Len(sent) \/ i = Len(sent) + 1
      BY <1>2
    <3> QED BY <1>1, <2>1, <2>2, <2>3, <3>1 DEF SentInOrder
  <2> QED BY <2>5, <2>6
<1>8. ASSUME setMetadata \/ setSequenceHeaders \/ getSubscribersForStream \/ distributed \/ onStreamEnd
             \/ onStreamEnded \/ ended \/ unlist
             \/ \E s \in Subs : sendFrame(s) \/ emitStreamEOF(s) \/ removeEnded(s)
      PROVE  PublisherPhase' /\ SentInOrder'
  <2>1. UNCHANGED <<sent, round, cacheOf>>
    BY <1>8 DEF setMetadata, setSequenceHeaders, getSubscribersForStream, distributed, onStreamEnd,
       onStreamEnded, ended, unlist, sendFrame, emitStreamEOF, removeEnded, stream
  <2>2. CASE unlist \/ ended
    <3>1. PublisherPhase'
      BY <1>1, <1>2, <2>1, <2>2 DEF unlist, ended, PublisherPhase, At, Goto, stream
    <3> QED BY <1>1, <2>1, <3>1 DEF SentInOrder
  <2>3. CASE setMetadata \/ setSequenceHeaders \/ getSubscribersForStream \/ distributed \/ onStreamEnd \/ onStreamEnded
    <3>1. PublisherPhase'
      BY <1>1, <1>2, <2>1, <2>3 DEF setMetadata, setSequenceHeaders, getSubscribersForStream, distributed,
         onStreamEnd, onStreamEnded, snapshot, PublisherPhase, At, Goto, stream
    <3> QED BY <1>1, <2>1, <3>1 DEF SentInOrder
  <2>4. ASSUME NEW s \in Subs, sendFrame(s) \/ emitStreamEOF(s) \/ removeEnded(s)
        PROVE  PublisherPhase' /\ SentInOrder'
    <3>1. pub' = [pub EXCEPT !.todo = @ \ {s}] /\ UNCHANGED listed
      BY <2>4 DEF sendFrame, emitStreamEOF, removeEnded, stream
    <3>2. pub'.pc = pub.pc /\ pub'.frame = pub.frame
      BY <1>2, <3>1
    <3> QED BY <1>1, <2>1, <3>1, <3>2 DEF PublisherPhase, SentInOrder, At
  <2> QED BY <1>8, <2>2, <2>3, <2>4
<1> QED BY <1>4, <1>5, <1>6, <1>7, <1>8, SubscribersStep DEF MediaNext, PublisherNext

\* What is appended to the stream leaves its beginning.
LEMMA PrefixOfAppend ==
  ASSUME NEW F, NEW s \in Seq(F), NEW f \in F, NEW n \in 0 .. Len(s)
  PROVE  SubSeq(Append(s, f), 1, n) = SubSeq(s, 1, n)
<1>1. Len(s) \in Nat /\ n \in Int /\ 1 \in Int /\ Append(s, f) \in Seq(F) /\ Len(Append(s, f)) = Len(s) + 1
  OBVIOUS
<1>2. \A i \in 1 .. n : s[i] \in F /\ Append(s, f)[i] = s[i] /\ Append(s, f)[i] \in F
  BY <1>1
<1>3. /\ SubSeq(s, 1, n) \in Seq(F) /\ Len(SubSeq(s, 1, n)) = n
      /\ \A i \in 1 .. n : SubSeq(s, 1, n)[i] = s[i]
  BY <1>1, <1>2
<1>4. /\ SubSeq(Append(s, f), 1, n) \in Seq(F) /\ Len(SubSeq(Append(s, f), 1, n)) = n
      /\ \A i \in 1 .. n : SubSeq(Append(s, f), 1, n)[i] = Append(s, f)[i]
  BY <1>1, <1>2
<1> QED BY <1>2, <1>3, <1>4, SeqEqual

\* A cut of a stream that grows is the cut of the stream, grown.
LEMMA CutOfAppend ==
  ASSUME NEW F, NEW s \in Seq(F), NEW f \in F, NEW k \in 1 .. Len(s) + 1
  PROVE  Bytes(From(Append(s, f), k)) >= Bytes(From(s, k)) /\ From(Append(s, f), k) = Append(From(s, k), f)
<1>1. Len(s) \in Nat /\ Append(s, f) \in Seq(F) /\ Len(Append(s, f)) = Len(s) + 1 /\ Append(s, f)[Len(s) + 1] = f
      /\ \A i \in 1 .. Len(s) : Append(s, f)[i] = s[i]
  OBVIOUS
<1>2. k \in 1 .. Len(Append(s, f)) + 1
  BY <1>1
<1>3. /\ From(s, k) \in Seq(F) /\ Len(From(s, k)) = Len(s) + 1 - k
      /\ \A i \in 1 .. Len(s) + 1 - k : From(s, k)[i] = s[k + i - 1]
  BY <1>2, FromIs
<1>4. /\ From(Append(s, f), k) \in Seq(F) /\ Len(From(Append(s, f), k)) = Len(s) + 2 - k
      /\ \A i \in 1 .. Len(s) + 2 - k : From(Append(s, f), k)[i] = Append(s, f)[k + i - 1]
  <2> DEFINE a == Append(s, f)
  <2>1. a \in Seq(F) /\ k \in 1 .. Len(a) + 1 /\ Len(a) + 1 - k = Len(s) + 2 - k
    BY <1>1, <1>2
  <2> HIDE DEF a
  <2>2. /\ From(a, k) \in Seq(F) /\ Len(From(a, k)) = Len(a) + 1 - k
        /\ \A i \in 1 .. Len(a) + 1 - k : From(a, k)[i] = a[k + i - 1]
    BY <2>1, FromIs
  <2> QED BY <2>1, <2>2 DEF a
<1>5. /\ Append(From(s, k), f) \in Seq(F) /\ Len(Append(From(s, k), f)) = Len(s) + 2 - k
      /\ Append(From(s, k), f)[Len(s) + 2 - k] = f
      /\ \A i \in 1 .. Len(s) + 1 - k : Append(From(s, k), f)[i] = From(s, k)[i]
  BY <1>1, <1>2, <1>3
<1>6. ASSUME NEW i \in 1 .. Len(s) + 2 - k
      PROVE  From(Append(s, f), k)[i] = Append(From(s, k), f)[i]
  <2>1. CASE i \in 1 .. Len(s) + 1 - k
    <3>1. k + i - 1 \in 1 .. Len(s)
      BY <1>1, <1>2, <2>1
    <3> QED BY <1>1, <1>3, <1>4, <1>5, <2>1, <3>1
  <2>2. CASE i = Len(s) + 2 - k
    <3>1. k + i - 1 = Len(s) + 1
      BY <1>1, <1>2, <2>2
    <3> QED BY <1>1, <1>4, <1>5, <2>2, <3>1
  <2>3. i \in 1 .. Len(s) + 1 - k \/ i = Len(s) + 2 - k
    BY <1>1, <1>2
  <2> QED BY <2>1, <2>2, <2>3
<1>7. From(Append(s, f), k) = Append(From(s, k), f)
  BY <1>4, <1>5, <1>6, SeqEqual
<1>8. Bytes(Append(From(s, k), f)) = Bytes(From(s, k)) + FrameSize(f.kind)
  BY <1>3, BytesOfAppend
<1>9. Bytes(From(s, k)) \in Nat /\ FrameSize(f.kind) \in Nat
  BY <1>2, BytesOfCut DEF FrameSize
<1> QED BY <1>7, <1>8, <1>9

\* Nothing to start from: no keyframe, or a last group that exceeds the limit.
LEMMA NothingIs ==
  ASSUME NEW F, NEW s \in Seq(F)
  PROVE  NothingToStartFrom(s) <=> \/ LastKey(s) = 0
                                   \/ Bytes(From(s, LastKey(s))) > GopConfig.maxBytes
<1>1. LastKey(s) = 0 <=> Keyframes(s) = {}
  BY LastKeyIs
<1>2. Keyframes(s) # {} => LastKey(s) = Max(Keyframes(s))
  BY DEF LastKey
<1> QED BY <1>1, <1>2 DEF NothingToStartFrom

\* A group that exceeds the limit exceeds it until the next keyframe.
LEMMA NothingGrows ==
  ASSUME NEW F, NEW s \in Seq(F), NEW f \in F, f.kind # "keyframe", NothingToStartFrom(s)
  PROVE  NothingToStartFrom(Append(s, f))
<1>1. Append(s, f) \in Seq(F) /\ LastKey(Append(s, f)) = LastKey(s) /\ LastKey(s) \in 0 .. Len(s) /\ Len(s) \in Nat
  BY LastKeyOfAppend, LastKeyIs
<1>2. CASE LastKey(s) = 0
  BY <1>1, <1>2, NothingIs
<1>3. CASE LastKey(s) # 0
  <2>1. LastKey(s) \in 1 .. Len(s) + 1 /\ LastKey(s) \in 1 .. Len(Append(s, f)) + 1
    BY <1>1, <1>3
  <2>2. Bytes(From(s, LastKey(s))) > GopConfig.maxBytes
    BY <1>3, NothingIs
  <2>3. Bytes(From(Append(s, f), LastKey(s))) >= Bytes(From(s, LastKey(s)))
    BY <2>1, CutOfAppend
  <2>4. Bytes(From(Append(s, f), LastKey(s))) \in Nat /\ Bytes(From(s, LastKey(s))) \in Nat
    BY <1>1, <2>1, BytesOfCut
  <2>5. Bytes(From(Append(s, f), LastKey(s))) > GopConfig.maxBytes
    BY <2>2, <2>3, <2>4, MediaAssumption
  <2> QED BY <1>1, <2>5, NothingIs
<1> QED BY <1>2, <1>3

\* A frame pushed to a cache that holds the newest frames: it holds them again, and a keyframe
\* unless there is nothing to start from.
LEMMA PushedCache ==
  ASSUME NEW g \in Cache(Frames, {GopConfig}), Agrees(g), NEW s \in Seq(Frames), NEW f \in Frames,
         Ending(g.frames, s), LastKey(g.frames) = 0 => NothingToStartFrom(s)
  PROVE  /\ Ending(gopPush(g, f).frames, Append(s, f))
         /\ LastKey(gopPush(g, f).frames) = 0 => NothingToStartFrom(Append(s, f))
<1> DEFINE h == gopPush(g, f)
           t == Append(s, f)
           q == Append(g.frames, f)
<1>1. PICK a \in 1 .. Len(s) + 1 : g.frames = From(s, a)
  BY DEF Ending
<1>2. Len(s) \in Nat /\ t \in Seq(Frames) /\ Len(t) = Len(s) + 1 /\ a \in 1 .. Len(t) + 1
  OBVIOUS
<1>3. q = From(t, a) /\ g.frames \in Seq(Frames) /\ q \in Seq(Frames) /\ Len(q) = Len(t) + 1 - a
  <2>1. q = From(t, a)
    BY <1>1, CutOfAppend
  <2>2. g.frames \in Seq(Frames)
    BY DEF Cache
  <2>3. Len(From(t, a)) = Len(t) + 1 - a
    <3> HIDE DEF t
    <3> QED BY <1>2, FromIs
  <2>4. q \in Seq(Frames)
    BY <2>2
  <2> HIDE DEF t, q
  <2> QED BY <2>1, <2>2, <2>3, <2>4
<1>4. PICK b \in 1 .. Len(q) + 1 :
        /\ h.frames = From(q, b)
        /\ LastKey(q) \in 1 .. b - 1 => Bytes(From(q, LastKey(q))) > GopConfig.maxBytes
  <2>1. g.config = GopConfig /\ g.config.maxBytes \in Nat
    BY MediaAssumption DEF Cache
  <2> QED BY <2>1, PushIs
<1> HIDE DEF h, t, q
<1>5. \A k \in 1 .. Len(q) + 1 : k + a - 1 \in 1 .. Len(t) + 1 /\ From(q, k) = From(t, k + a - 1)
  <2> TAKE k \in 1 .. Len(q) + 1
  <2>1. k + a - 1 \in a .. Len(t) + 1 /\ (k + a - 1) - a + 1 = k /\ k + a - 1 \in 1 .. Len(t) + 1
    BY <1>2, <1>3
  <2>2. From(From(t, a), (k + a - 1) - a + 1) = From(t, k + a - 1)
    BY <1>2, <2>1, CutOfCut
  <2> QED BY <1>3, <2>1, <2>2
<1>6. Ending(h.frames, t)
  BY <1>4, <1>5 DEF Ending
<1>7. ASSUME LastKey(h.frames) = 0
      PROVE  NothingToStartFrom(t)
  <2>1. LastKey(q) \in 0 .. Len(q)
    BY <1>3, LastKeyIs
  <2>2. LastKey(q) < b
    <3>1. LastKey(h.frames) = IF b <= LastKey(q) THEN LastKey(q) - b + 1 ELSE 0
      BY <1>3, <1>4, LastKeyOfCut
    <3> QED BY <1>2, <1>3, <1>7, <2>1, <3>1
  <2>3. CASE LastKey(q) = 0
    <3>1. LastKey(q) = IF f.kind = "keyframe" THEN Len(g.frames) + 1 ELSE LastKey(g.frames)
      BY <1>3, LastKeyOfAppend DEF q
    <3>2. Len(g.frames) + 1 # 0
      BY <1>3
    <3>3. f.kind # "keyframe" /\ NothingToStartFrom(s)
      BY <2>3, <3>1, <3>2
    <3> QED BY <3>3, NothingGrows DEF t
  <2>4. CASE LastKey(q) # 0
    <3>1. Bytes(From(q, LastKey(q))) > GopConfig.maxBytes
      BY <1>2, <1>3, <1>4, <2>1, <2>2, <2>4
    <3>2. LastKey(q) = IF a <= LastKey(t) THEN LastKey(t) - a + 1 ELSE 0
      BY <1>2, <1>3, LastKeyOfCut
    <3>3. LastKey(t) \in Nat
      BY <1>2, LastKeyIs
    <3>4. LastKey(t) = LastKey(q) + a - 1 /\ LastKey(q) \in 1 .. Len(q) + 1
      <4> DEFINE lq == LastKey(q)
                 lt == LastKey(t)
                 n == Len(q)
      <4>1. a \in Nat /\ lt \in Nat /\ n \in Nat /\ lq \in 0 .. n /\ lq # 0
            /\ lq = IF a <= lt THEN lt - a + 1 ELSE 0
        BY <1>2, <1>3, <2>1, <2>4, <3>2, <3>3
      <4> HIDE DEF lq, lt, n
      <4>2. lt = lq + a - 1 /\ lq \in 1 .. n + 1
        BY <4>1
      <4> QED BY <4>2 DEF lq, lt, n
    <3>5. From(q, LastKey(q)) = From(t, LastKey(t))
      BY <1>5, <3>4
    <3> QED BY <1>2, <3>1, <3>5, NothingIs
  <2> QED BY <1>2, <1>3, <2>1, <2>3, <2>4
<1> QED BY <1>6, <1>7 DEF h, t

\* The stream's cache stays the one of the current publication, with its last group.
LEMMA CurrentStep ==
  ASSUME DistributionInv, MediaNext
  PROVE  CachesCurrent'
<1>1. CachesCurrent /\ PublisherPhase /\ JoinsCurrent
  BY DEF DistributionInv
<1>2. /\ round \in Nat /\ round <= MaxRounds /\ cacheOf \in Nat /\ cacheOf <= round /\ sent \in Seq(Frames)
      /\ gops \in [Rounds -> Cache(Frames, {GopConfig})]
      /\ pub.pc \in PublisherSteps
  <2>1. DistributionTypes /\ MaxRounds \in Nat
    BY MediaAssumption DEF DistributionInv
  <2>2. round \in 0 .. MaxRounds /\ cacheOf \in 0 .. round
    BY <2>1 DEF DistributionTypes
  <2>3. pub.pc \in PublisherSteps
    BY <2>1 DEF DistributionTypes
  <2>4. sent \in Seq(Frames) /\ gops \in [Rounds -> Cache(Frames, {GopConfig})]
    BY <2>1 DEF DistributionTypes
  <2>5. round \in Nat /\ round <= MaxRounds /\ cacheOf \in Nat /\ cacheOf <= round
    BY <2>1, <2>2
  <2> QED BY <2>3, <2>4, <2>5
<1>3. \A r \in Rounds : Agrees(gops'[r])
  BY CachesStep
<1>4. DistributionTypes'
  BY TypesStep
<1>5. CASE UNCHANGED <<round, cacheOf, sent, gops>>
  BY <1>1, <1>3, <1>5 DEF CachesCurrent
<1>6. CASE list
  <2>1. CASE At("cached")
    BY <1>1, <1>3, <1>6, <2>1 DEF list, CachesCurrent, At
  <2>2. CASE ~ At("cached")
    <3>1. round' = round + 1 /\ cacheOf' = cacheOf
      BY <1>6, <2>2 DEF list
    <3>2. cacheOf' # round'
      BY <1>2, <3>1
    <3> QED BY <1>3, <3>2 DEF CachesCurrent
  <2> QED BY <2>1, <2>2
<1>7. CASE setGOPBuffer
  <2>1. round' \in Rounds /\ round' > cacheOf
    <3>1. CASE At("bare")
      BY <1>1, <1>2, <1>7, <3>1 DEF setGOPBuffer, PublisherPhase, Rounds, At
    <3>2. CASE ~ At("bare")
      BY <1>1, <1>2, <1>7, <3>2, MediaAssumption DEF setGOPBuffer, PublisherPhase, Rounds, At
    <3> QED BY <3>1, <3>2
  <2>2. \A s \in Subs : join[s].cache # round'
    <3>1. \A s \in Subs : join[s].cache <= cacheOf /\ join[s].cache \in Nat
      BY <1>1, MediaAssumption DEF JoinsCurrent, DistributionInv, DistributionTypes
    <3> QED BY <1>2, <2>1, <3>1
  <2>3. gops'[round'] = NewGOPBuffer(GopConfig)
    BY <1>7, <2>1, <2>2 DEF setGOPBuffer
  <2>4. gops'[round'].frames = <<>>
    BY <2>3 DEF NewGOPBuffer
  <2>5. sent' = <<>>
    BY <1>1, <1>7 DEF setGOPBuffer, PublisherPhase
  <2>6. <<>> \in Seq(Frames) /\ 1 \in 1 .. Len(<<>>) + 1 /\ From(<<>>, 1) = <<>>
    BY DEF From
  <2>7. Ending(<<>>, <<>>)
    BY <2>6 DEF Ending
  <2>8. NothingToStartFrom(<<>>)
    <3>1. Keyframes(<<>>) = {}
      BY DEF Keyframes
    <3> QED BY <3>1 DEF NothingToStartFrom
  <2> QED BY <1>3, <2>4, <2>5, <2>7, <2>8 DEF CachesCurrent
<1>8. ASSUME setMetadata \/ setSequenceHeaders
      PROVE  CachesCurrent'
  <2>1. UNCHANGED <<round, cacheOf, sent>>
    BY <1>8 DEF setMetadata, setSequenceHeaders, stream
  <2>2. \A r \in Rounds : gops'[r].frames = gops[r].frames
    <3>1. \A r \in Rounds : gops[r] \in Cache(Frames, {GopConfig})
      BY <1>2
    <3>2. \A r \in Rounds : gops'[r] = gops[r] \/ gops'[r] = [gops[r] EXCEPT !.metadata = TRUE]
                             \/ gops'[r] = [gops[r] EXCEPT !.headers = TRUE]
      BY <1>2, <1>8 DEF setMetadata, setSequenceHeaders
    <3> QED BY <3>1, <3>2 DEF Cache
  <2>3. round > 0 => round \in Rounds
    BY <1>2, MediaAssumption DEF Rounds
  <2> QED BY <1>1, <1>2, <1>3, <2>1, <2>2, <2>3 DEF CachesCurrent
<1>9. ASSUME NEW kind \in Published, distribute(kind)
      PROVE  CachesCurrent'
  <2> DEFINE f == Frame(kind, Len(sent) + 1, round)
  <2>1. cacheOf = round /\ round > 0
    BY <1>1, <1>2, <1>9 DEF distribute, PublisherPhase, At
  <2>2. round \in Rounds
    BY <1>2, <2>1, MediaAssumption DEF Rounds
  <2>3. f \in Frames
    <3>1. kind \in {"keyframe", "inter", "audio", "data"} /\ Len(sent) + 1 \in Nat
      BY <1>2, MediaAssumption
    <3> QED BY <1>2, <3>1, FrameType
  <2>4. gops'[round] = gopPush(gops[round], f) /\ sent' = Append(sent, f) /\ round' = round /\ cacheOf' = round
    BY <1>2, <1>9, <2>1, <2>2 DEF distribute, stream
  <2>5. gops[round] \in Cache(Frames, {GopConfig}) /\ Agrees(gops[round])
    BY <1>1, <1>2, <2>2 DEF CachesCurrent
  <2>6. Ending(gops[round].frames, sent) /\ (LastKey(gops[round].frames) = 0 => NothingToStartFrom(sent))
    BY <1>1, <2>1 DEF CachesCurrent
  <2> HIDE DEF f
  <2>7. /\ Ending(gopPush(gops[round], f).frames, Append(sent, f))
        /\ LastKey(gopPush(gops[round], f).frames) = 0 => NothingToStartFrom(Append(sent, f))
    BY <1>2, <2>3, <2>5, <2>6, PushedCache
  <2> QED BY <1>3, <2>4, <2>7 DEF CachesCurrent
<1>10. ASSUME getSubscribersForStream \/ distributed \/ onStreamEnd
             \/ onStreamEnded \/ ended \/ unlist
             \/ \E s \in Subs : sendFrame(s) \/ emitStreamEOF(s) \/ removeEnded(s)
       PROVE  UNCHANGED <<round, cacheOf, sent, gops>>
  BY <1>10 DEF getSubscribersForStream, distributed, onStreamEnd,
       onStreamEnded, ended, unlist, sendFrame, emitStreamEOF, removeEnded, stream
<1> QED BY <1>5, <1>6, <1>7, <1>8, <1>9, <1>10, SubscribersStep DEF MediaNext, PublisherNext

\* The types, in the form the steps use.
LEMMA TypeFacts ==
  ASSUME DistributionInv
  PROVE  /\ MaxRounds \in Nat /\ round \in Nat /\ round <= MaxRounds /\ cacheOf \in Nat /\ cacheOf <= round
         /\ sent \in Seq(Frames) /\ Len(sent) \in Nat /\ listed \in BOOLEAN
         /\ pub \in [pc : PublisherSteps, frame : Frames \cup {0}, todo : SUBSET Subs]
         /\ pub.pc \in PublisherSteps /\ pub.todo \subseteq Subs
         /\ subscribers \subseteq Subs /\ told \subseteq Subs
         /\ join \in [Subs -> [pc : JoinSteps, todo : Seq(Frames), cache : 0 .. MaxRounds]]
         /\ given \in [Subs -> Seq(Frames)]
         /\ home \in [Subs -> [round : 0 .. MaxRounds, frames : Nat]]
         /\ strained \in [Subs -> SUBSET {"distribution", "end", "stale"}]
         /\ \A s \in Subs : /\ join[s].pc \in JoinSteps /\ join[s].todo \in Seq(Frames) /\ join[s].cache \in Nat
                            /\ given[s] \in Seq(Frames) /\ home[s].frames \in Nat
<1>1. DistributionTypes /\ MaxRounds \in Nat
  BY MediaAssumption DEF DistributionInv
<1>2. round \in 0 .. MaxRounds /\ cacheOf \in 0 .. round
  BY <1>1 DEF DistributionTypes
<1>3. round \in Nat /\ round <= MaxRounds /\ cacheOf \in Nat /\ cacheOf <= round
  BY <1>1, <1>2
<1>4. /\ sent \in Seq(Frames) /\ listed \in BOOLEAN /\ subscribers \subseteq Subs /\ told \subseteq Subs
      /\ pub \in [pc : PublisherSteps, frame : Frames \cup {0}, todo : SUBSET Subs]
      /\ join \in [Subs -> [pc : JoinSteps, todo : Seq(Frames), cache : 0 .. MaxRounds]]
      /\ given \in [Subs -> Seq(Frames)]
      /\ home \in [Subs -> [round : 0 .. MaxRounds, frames : Nat]]
      /\ strained \in [Subs -> SUBSET {"distribution", "end", "stale"}]
  BY <1>1 DEF DistributionTypes
<1>5. Len(sent) \in Nat
  BY <1>4
<1>6. pub.pc \in PublisherSteps /\ pub.todo \subseteq Subs
  BY <1>4
<1>7. ASSUME NEW s \in Subs
      PROVE  /\ join[s].pc \in JoinSteps /\ join[s].todo \in Seq(Frames) /\ join[s].cache \in Nat
             /\ given[s] \in Seq(Frames) /\ home[s].frames \in Nat
  BY <1>1, <1>4
<1> QED BY <1>1, <1>3, <1>4, <1>5, <1>6, <1>7

\* The steps of the publisher's thread leave the joins alone.
LEMMA PublisherStep ==
  ASSUME PublisherNext
  PROVE  UNCHANGED join
BY DEF PublisherNext, list, setGOPBuffer, setMetadata, setSequenceHeaders, distribute, getSubscribersForStream,
   distributed, onStreamEnd, onStreamEnded, ended, unlist, sendFrame, emitStreamEOF, removeEnded

\* One thread's call at a time: the other subscribers' joins and feeds are left alone.
LEMMA OthersStep ==
  ASSUME DistributionInv, NEW s \in Subs, SubscriberNext(s)
  PROVE  /\ \A t \in Subs \ {s} : /\ join'[t] = join[t] /\ given'[t] = given[t] /\ home'[t] = home[t]
                                  /\ strained'[t] = strained[t]
                                  /\ t \in subscribers' <=> t \in subscribers
                                  /\ t \in told' <=> t \in told
<1>1. /\ join \in [Subs -> [pc : JoinSteps, todo : Seq(Frames), cache : 0 .. MaxRounds]]
      /\ given \in [Subs -> Seq(Frames)]
      /\ home \in [Subs -> [round : 0 .. MaxRounds, frames : Nat]]
      /\ strained \in [Subs -> SUBSET {"distribution", "end", "stale"}]
  BY TypeFacts
<1>2. CASE check(s) \/ alreadyExists(s) \/ joined(s) \/ takeHeaders(s) \/ takeFrames(s)
  BY <1>1, <1>2 DEF check, alreadyExists, joined, takeHeaders, takeFrames, members
<1>3. CASE addSubscriber(s)
  BY <1>1, <1>3 DEF addSubscriber
<1>4. CASE leave(s)
  BY <1>1, <1>4 DEF leave, removeSubscriber
<1>5. CASE takeMetadata(s)
  BY <1>1, <1>5 DEF takeMetadata
<1>6. CASE sendCached(s)
  BY <1>1, <1>6 DEF sendCached, pushToSubscriber
<1> QED BY <1>2, <1>3, <1>4, <1>5, <1>6 DEF SubscriberNext

\* What the steps of the publisher's thread do to a subscriber.
LEMMA PublisherOnSubscriber ==
  ASSUME DistributionInv, PublisherNext, NEW s \in Subs
  PROVE  \/ UNCHANGED <<subscribers, given, home, strained, told>>
         \/ /\ \E kind \in Published : distribute(kind)
            /\ UNCHANGED <<subscribers, home, told>>
            /\ strained'[s] = strained[s] \cup (IF Joining(s) THEN {"distribution"} ELSE {})
            /\ given'[s] = IF strained'[s] = {} THEN given[s] ELSE <<>>
         \/ /\ \E t \in Subs : sendFrame(t) /\ (t # s => given'[s] = given[s])
            /\ UNCHANGED <<subscribers, home, strained, told>>
         \/ /\ \E t \in Subs : emitStreamEOF(t)
            /\ UNCHANGED <<subscribers, given, home, strained>>
         \/ /\ \E t \in Subs : removeEnded(t) /\ t # s
            /\ given'[s] = given[s] /\ home'[s] = home[s] /\ strained'[s] = strained[s]
            /\ s \in subscribers' <=> s \in subscribers
            /\ s \in told' <=> s \in told
         \/ /\ removeEnded(s) /\ s \notin subscribers' /\ given'[s] = <<>>
<1>1. /\ given \in [Subs -> Seq(Frames)]
      /\ home \in [Subs -> [round : 0 .. MaxRounds, frames : Nat]]
      /\ strained \in [Subs -> SUBSET {"distribution", "end", "stale"}]
  BY TypeFacts
<1>2. CASE list \/ setGOPBuffer \/ setMetadata \/ setSequenceHeaders \/ getSubscribersForStream
           \/ distributed \/ onStreamEnd \/ onStreamEnded \/ ended \/ unlist
  BY <1>2 DEF list, setGOPBuffer, setMetadata, setSequenceHeaders, getSubscribersForStream,
     distributed, onStreamEnd, onStreamEnded, ended, unlist, members
<1>3. CASE \E kind \in Published : distribute(kind)
  <2>1. /\ UNCHANGED <<subscribers, home, told>>
        /\ strained'[s] = strained[s] \cup (IF Joining(s) THEN {"distribution"} ELSE {})
        /\ given'[s] = IF strained'[s] = {} THEN given[s] ELSE <<>>
    BY <1>1, <1>3 DEF distribute
  <2> QED BY <1>3, <2>1
<1>4. ASSUME NEW t \in Subs, sendFrame(t)
      PROVE  /\ t # s => given'[s] = given[s]
             /\ UNCHANGED <<subscribers, home, strained, told>>
  BY <1>1, <1>4 DEF sendFrame, pushToSubscriber
<1>5. ASSUME NEW t \in Subs, emitStreamEOF(t)
      PROVE  UNCHANGED <<subscribers, given, home, strained>>
  BY <1>5 DEF emitStreamEOF
<1>6. ASSUME NEW t \in Subs, removeEnded(t), t # s
      PROVE  /\ given'[s] = given[s] /\ home'[s] = home[s] /\ strained'[s] = strained[s]
             /\ s \in subscribers' <=> s \in subscribers
             /\ s \in told' <=> s \in told
  BY <1>1, <1>6 DEF removeEnded, removeSubscriber
<1>7. CASE removeEnded(s)
  BY <1>1, <1>7 DEF removeEnded, removeSubscriber
<1> QED BY <1>2, <1>3, <1>4, <1>5, <1>6, <1>7 DEF PublisherNext

\* The thread of a subscriber that joins still holds a cache that is or was on the air.
LEMMA JoinsStep ==
  ASSUME DistributionInv, MediaNext
  PROVE  JoinsCurrent'
<1> DEFINE JC(s) == /\ join[s].cache <= cacheOf
                    /\ join[s].pc = "headers" => join[s].cache > 0
                    /\ join[s].pc \in {"idle", "checked", "added"} => join[s].cache = 0 /\ join[s].todo = <<>>
                    /\ s \notin subscribers => given[s] = <<>>
                    /\ Joining(s) /\ join[s].cache = 0 => join[s].pc \in {"added", "frames"}
<1>1. \A s \in Subs : JC(s)
  BY DEF DistributionInv, JoinsCurrent
<1>2. /\ join \in [Subs -> [pc : JoinSteps, todo : Seq(Frames), cache : 0 .. MaxRounds]]
      /\ \A s \in Subs : join[s].cache \in Nat /\ given[s] \in Seq(Frames)
      /\ cacheOf \in Nat /\ round \in Nat /\ cacheOf <= round
  BY TypeFacts
<1>3. cacheOf' \in Nat /\ cacheOf' >= cacheOf
  <2>1. cacheOf' = cacheOf \/ setGOPBuffer
    BY SubscribersStep DEF MediaNext, PublisherNext, list, setMetadata, setSequenceHeaders, distribute,
       getSubscribersForStream, distributed, onStreamEnd, onStreamEnded, ended, unlist, sendFrame, emitStreamEOF,
       removeEnded, stream
  <2>2. ASSUME setGOPBuffer PROVE cacheOf' \in Nat /\ cacheOf' >= cacheOf
    <3>1. cacheOf' = round' /\ (round' = round \/ round' = round + 1)
      BY <2>2 DEF setGOPBuffer
    <3> QED BY <1>2, <3>1
  <2> QED BY <1>2, <2>1, <2>2
<1>4. ASSUME PublisherNext, NEW s \in Subs
      PROVE  JC(s)'
  <2>1. UNCHANGED join
    BY <1>4, PublisherStep
  <2>2. s \notin subscribers' => given'[s] = <<>>
    <3>1. CASE s \in subscribers
      <4>1. s \notin subscribers' => removeEnded(s) /\ given'[s] = <<>>
        BY <1>4, <3>1, PublisherOnSubscriber
      <4> QED BY <4>1
    <3>2. CASE s \notin subscribers
      <4>1. given[s] = <<>>
        BY <1>1, <3>2
      <4>2. \A t \in Subs : sendFrame(t) => given'[s] = given[s]
        BY <1>2, <3>2, TypeFacts DEF sendFrame, pushToSubscriber
      <4>3. given'[s] = given[s] \/ given'[s] = <<>>
        BY <1>4, <4>2, PublisherOnSubscriber
      <4> QED BY <4>1, <4>3
    <3> QED BY <3>1, <3>2
  <2> QED BY <1>1, <1>2, <1>3, <2>1, <2>2 DEF Joining
<1>5. ASSUME NEW s \in Subs, SubscriberNext(s), NEW t \in Subs
      PROVE  JC(t)'
  <2>1. UNCHANGED cacheOf
    BY <1>5, SubscribersStep
  <2>2. CASE t # s
    <3>1. /\ join'[t] = join[t] /\ given'[t] = given[t]
          /\ t \in subscribers' <=> t \in subscribers
      BY <1>5, <2>2, OthersStep
    <3> QED BY <1>1, <2>1, <3>1 DEF Joining
  <2>3. CASE t = s
    <3> SUFFICES JC(s)'
      BY <2>3
    <3>1. JC(s) /\ join[s].cache \in Nat
      BY <1>1, <1>2
    <3>2. CASE check(s)
      BY <1>2, <3>1, <3>2 DEF check, Joining, members, stream
    <3>3. CASE alreadyExists(s)
      BY <1>2, <3>1, <3>3 DEF alreadyExists, Joining, members, stream
    <3>4. CASE addSubscriber(s)
      BY <1>2, <3>1, <3>4 DEF addSubscriber, Joining, stream
    <3>5. CASE leave(s)
      <4>1. given \in [Subs -> Seq(Frames)]
        BY TypeFacts
      <4> QED BY <1>2, <3>1, <3>5, <4>1 DEF leave, removeSubscriber, Joining, stream
    <3>6. CASE takeMetadata(s)
      <4>1. /\ join' = [join EXCEPT ![s] = join'[s]]
            /\ \/ cacheOf = 0 /\ join'[s].pc = "idle" /\ join'[s].cache = 0 /\ join'[s].todo = <<>>
               \/ cacheOf # 0 /\ join'[s].pc = "headers" /\ join'[s].cache = cacheOf
        BY <1>2, <3>6 DEF takeMetadata
      <4>2. UNCHANGED <<subscribers, given>>
        BY <3>6 DEF takeMetadata
      <4> QED BY <1>2, <2>1, <3>1, <4>1, <4>2 DEF Joining
    <3>7. CASE takeHeaders(s)
      <4>1. join'[s].pc = "frames" /\ join'[s].cache = join[s].cache
        BY <1>2, <3>7 DEF takeHeaders
      <4>2. UNCHANGED <<subscribers, given>>
        BY <3>7 DEF takeHeaders, members
      <4> QED BY <1>2, <2>1, <3>1, <4>1, <4>2 DEF Joining
    <3>8. CASE takeFrames(s)
      <4>1. join'[s].pc = "frames" /\ join'[s].cache = 0
        BY <1>2, <3>8 DEF takeFrames
      <4>2. UNCHANGED <<subscribers, given>>
        BY <3>8 DEF takeFrames, members
      <4> QED BY <1>2, <2>1, <3>1, <4>1, <4>2 DEF Joining
    <3>9. CASE sendCached(s)
      <4>1. join'[s].pc = join[s].pc /\ join'[s].cache = join[s].cache /\ join[s].pc \notin {"idle", "checked", "added"}
        BY <1>2, <3>1, <3>9 DEF sendCached
      <4>2. UNCHANGED subscribers /\ (s \notin subscribers => given'[s] = given[s])
        BY <3>9 DEF sendCached, pushToSubscriber
      <4> QED BY <1>2, <2>1, <3>1, <4>1, <4>2 DEF Joining
    <3>10. CASE joined(s)
      <4>1. join'[s].pc = "idle" /\ join'[s].cache = 0 /\ join'[s].todo = <<>>
        BY <1>2, <3>10 DEF joined
      <4>2. UNCHANGED <<subscribers, given>>
        BY <3>10 DEF joined, members
      <4> QED BY <1>2, <2>1, <3>1, <4>1, <4>2 DEF Joining
    <3> QED BY <1>5, <2>3, <3>2, <3>3, <3>4, <3>5, <3>6, <3>7, <3>8, <3>9, <3>10 DEF SubscriberNext
  <2> QED BY <2>2, <2>3
<1>6. \A s \in Subs : JC(s)'
  BY <1>4, <1>5 DEF MediaNext
<1> QED BY <1>6 DEF JoinsCurrent

\* Who is still in the tables has been told of the end, or joined during it.
LEMMA EndStep ==
  ASSUME DistributionInv, MediaNext
  PROVE  EndReaches'
<1> DEFINE ER(s) == /\ pub.pc \notin {"idle", "cached", "closing"}
                    /\ home[s].round = round /\ home[s].frames <= Len(sent)
                    /\ At("eof") => s \in told \cup pub.todo
                    /\ At("removing") => s \in told /\ s \in pub.todo
<1>1. PublisherPhase /\ \A s \in subscribers : "end" \notin strained[s] => ER(s)
  BY DEF DistributionInv, EndReaches
<1>2. /\ pub \in [pc : PublisherSteps, frame : Frames \cup {0}, todo : SUBSET Subs]
      /\ subscribers \subseteq Subs /\ sent \in Seq(Frames) /\ Len(sent) \in Nat /\ round \in Nat
      /\ home \in [Subs -> [round : 0 .. MaxRounds, frames : Nat]]
      /\ strained \in [Subs -> SUBSET {"distribution", "end", "stale"}]
      /\ join \in [Subs -> [pc : JoinSteps, todo : Seq(Frames), cache : 0 .. MaxRounds]]
      /\ \A s \in Subs : home[s].frames \in Nat
  BY TypeFacts
<1>3. subscribers' \subseteq Subs
  BY TypesStep DEF DistributionTypes
<1>4. ASSUME PublisherNext, NEW s \in subscribers', "end" \notin strained'[s]
      PROVE  ER(s)'
  <2>1. s \in Subs
    BY <1>3
  <2>2. s \in subscribers /\ "end" \notin strained[s] /\ home'[s] = home[s]
    BY <1>4, <2>1, PublisherOnSubscriber
  <2>3. ER(s)
    BY <1>1, <2>2
  <2>4. CASE list
    BY <1>1, <1>2, <2>2, <2>3, <2>4 DEF list, At, Goto, PublisherPhase
  <2>5. CASE setGOPBuffer
    BY <1>1, <1>2, <2>2, <2>3, <2>5 DEF setGOPBuffer, At, Goto, PublisherPhase
  <2>6. CASE setMetadata \/ setSequenceHeaders
    BY <1>2, <2>2, <2>3, <2>6 DEF setMetadata, setSequenceHeaders, stream, members, At
  <2>7. ASSUME NEW kind \in Published, distribute(kind)
        PROVE  ER(s)'
    <3>1. pub'.pc = "pushed" /\ round' = round
      BY <1>2, <2>7 DEF distribute, stream
    <3>2. Len(sent') = Len(sent) + 1
      BY <1>2, <2>7 DEF distribute
    <3> QED BY <1>2, <2>1, <2>2, <2>3, <3>1, <3>2 DEF At
  <2>8. CASE getSubscribersForStream \/ distributed \/ unlist
    BY ZenonT(40), <1>2, <2>2, <2>3, <2>8 DEF getSubscribersForStream, distributed, unlist, snapshot, Goto, stream, members, At
  <2>9. CASE onStreamEnd \/ onStreamEnded
    BY <1>2, <2>2, <2>3, <2>9 DEF onStreamEnd, onStreamEnded, snapshot, stream, members, At
  <2>10. CASE ended
    BY <1>2, <2>2, <2>3, <2>10 DEF ended, At
  <2>11. ASSUME NEW t \in Subs, sendFrame(t) \/ emitStreamEOF(t) \/ removeEnded(t)
         PROVE  ER(s)'
    <3>1. pub' = [pub EXCEPT !.todo = @ \ {t}] /\ UNCHANGED <<round, sent>>
      BY <2>11 DEF sendFrame, emitStreamEOF, removeEnded, stream
    <3>2. pub'.pc = pub.pc /\ pub'.todo = pub.todo \ {t}
      BY <1>2, <3>1
    <3>3. CASE sendFrame(t)
      BY <2>2, <2>3, <3>1, <3>2, <3>3 DEF sendFrame, At
    <3>4. CASE emitStreamEOF(t)
      BY <2>2, <2>3, <3>1, <3>2, <3>4 DEF emitStreamEOF, At
    <3>5. CASE removeEnded(t)
      BY <1>4, <2>2, <2>3, <3>1, <3>2, <3>5 DEF removeEnded, removeSubscriber, At
    <3> QED BY <2>11, <3>3, <3>4, <3>5
  <2> QED BY <1>4, <2>4, <2>5, <2>6, <2>7, <2>8, <2>9, <2>10, <2>11 DEF PublisherNext
<1>5. ASSUME NEW t \in Subs, SubscriberNext(t), NEW s \in subscribers', "end" \notin strained'[s]
      PROVE  ER(s)'
  <2>1. s \in Subs /\ UNCHANGED <<round, sent, pub, listed>>
    BY <1>3, <1>5, SubscribersStep
  <2>2. CASE s # t
    <3>1. /\ home'[s] = home[s] /\ strained'[s] = strained[s]
          /\ s \in subscribers' <=> s \in subscribers
          /\ s \in told' <=> s \in told
      BY <1>5, <2>1, <2>2, OthersStep
    <3>2. ER(s)
      BY <1>1, <1>5, <3>1
    <3> QED BY <2>1, <3>1, <3>2 DEF At
  <2>3. CASE s = t
    <3>1. SubscriberNext(s)
      BY <1>5, <2>3
    <3>2. CASE addSubscriber(s)
      <4>1. /\ home'[s].round = round /\ home'[s].frames = Len(sent)
            /\ strained'[s] = (IF pub.pc \in {"pushed", "sending"} THEN {"distribution"} ELSE {})
                  \cup (IF ~ listed \/ pub.pc \in {"eof", "removing", "closing"} THEN {"end"} ELSE {})
        BY <1>2, <2>1, <3>2 DEF addSubscriber
      <4>2. listed /\ pub.pc \notin {"eof", "removing", "closing"}
        BY <1>5, <4>1
      <4>3. pub.pc \notin {"idle", "cached"}
        BY <1>1, <4>2 DEF PublisherPhase, At
      <4> QED BY <1>2, <2>1, <4>1, <4>2, <4>3 DEF At
    <3>3. CASE ~ addSubscriber(s)
      <4>1. s \in subscribers /\ "end" \notin strained[s] /\ home'[s] = home[s] /\ told' = told
        <5>1. CASE leave(s)
          BY <1>5, <5>1 DEF leave, removeSubscriber
        <5>2. CASE takeMetadata(s)
          BY <1>2, <1>5, <2>1, <5>2 DEF takeMetadata
        <5>3. CASE ~ leave(s) /\ ~ takeMetadata(s)
          BY <1>5, <3>1, <3>3, <5>3 DEF SubscriberNext, check, alreadyExists, takeHeaders, takeFrames, sendCached,
             joined, members
        <5> QED BY <5>1, <5>2, <5>3
      <4>2. ER(s)
        BY <1>1, <4>1
      <4> QED BY <2>1, <4>1, <4>2 DEF At
    <3> QED BY <3>2, <3>3
  <2> QED BY <2>2, <2>3
<1>6. EndReaches'
  BY <1>4, <1>5 DEF MediaNext, EndReaches
<1> QED BY <1>6

\* A frame pushed to s is appended to what it has been given.
LEMMA GivenIs ==
  ASSUME DistributionInv, NEW s \in Subs, NEW f \in Frames, given' = [given EXCEPT ![s] = Append(@, f)]
  PROVE  /\ given'[s] \in Seq(Frames) /\ Len(given[s]) \in Nat /\ Len(given'[s]) = Len(given[s]) + 1
         /\ given'[s][Len(given[s]) + 1] = f /\ \A i \in 1 .. Len(given[s]) : given'[s][i] = given[s][i]
         /\ \A i \in 1 .. Len(given[s]) + 1 : i \in 1 .. Len(given[s]) \/ i = Len(given[s]) + 1
<1>1. given'[s] = Append(given[s], f) /\ given[s] \in Seq(Frames)
  BY TypeFacts
<1> QED BY <1>1

\* The next frame of its publication: s has been given one more, in order.
LEMMA NextFrame ==
  ASSUME DistributionInv, NEW s \in Subs, NEW m \in Nat, m < Len(sent), UpTo(s, m), GivenOwn(s),
         given' = [given EXCEPT ![s] = Append(@, sent[m + 1])], UNCHANGED <<sent, round, home>>
  PROVE  UpTo(s, m + 1)' /\ GivenOwn(s)'
<1> DEFINE f == sent[m + 1]
           q == given[s]
           k == Len(given[s])
<1>1. sent \in Seq(Frames) /\ Len(sent) \in Nat /\ home[s].frames \in Nat /\ q \in Seq(Frames)
  BY TypeFacts
<1>2. m + 1 \in 1 .. Len(sent) /\ f \in Frames /\ f.n = m + 1 /\ f.round = round
  BY <1>1 DEF DistributionInv, SentInOrder
<1>3. /\ given'[s] \in Seq(Frames) /\ k \in Nat /\ Len(given'[s]) = k + 1
      /\ given'[s][k + 1] = f /\ \A i \in 1 .. k : given'[s][i] = q[i]
      /\ \A i \in 1 .. k + 1 : i \in 1 .. k \/ i = k + 1
  BY <1>2, GivenIs
<1>4. \/ q # <<>> /\ m > 0 /\ q[k].n = m /\ \E i \in 1 .. k : q[i].n \in 1 .. home[s].frames + 1
      \/ /\ \A i \in 1 .. k : q[i].n = 0
         /\ m <= home[s].frames
         /\ f.kind = "keyframe" \/ NothingToStartFrom(SubSeq(sent, 1, m))
  BY <1>1 DEF UpTo, FedUpTo
<1>5. UpTo(s, m + 1)'
  <2>1. \E i \in 1 .. k + 1 : given'[s][i].n \in 1 .. home[s].frames + 1
    <3>1. CASE \E i \in 1 .. k : q[i].n \in 1 .. home[s].frames + 1
      <4>1. PICK i \in 1 .. k : q[i].n \in 1 .. home[s].frames + 1
        BY <3>1
      <4>2. i \in 1 .. k + 1 /\ given'[s][i] = q[i]
        BY <1>3
      <4> QED BY <4>1, <4>2
    <3>2. CASE m <= home[s].frames
      <4>1. k + 1 \in 1 .. k + 1 /\ m + 1 \in 1 .. home[s].frames + 1
        BY <1>1, <1>3, <3>2
      <4> QED BY <1>2, <1>3, <4>1
    <3> QED BY <1>4, <3>1, <3>2
  <2>2. given'[s] # <<>> /\ m + 1 > 0 /\ given'[s][Len(given'[s])].n = m + 1 /\ m + 1 \in 0 .. Len(sent)
    BY <1>1, <1>2, <1>3
  <2> QED BY <1>3, <2>1, <2>2 DEF UpTo, FedUpTo
<1>6. GivenOwn(s)'
  <2>1. ASSUME NEW i \in 1 .. k + 1
        PROVE  LET g == given'[s][i] IN g.round = round /\ (g.n = 0 \/ (g.n \in 1 .. Len(sent) /\ g = sent[g.n]))
    BY <1>2, <1>3 DEF GivenOwn
  <2>2. InOrder(given'[s])
    <3>1. ASSUME NEW i \in 1 .. k
          PROVE  given'[s][i].n = 0 \/ given'[s][i + 1].n = given'[s][i].n + 1
      <4>1. CASE i = k
        <5>1. q[k].n = 0 \/ (q[k].n = m /\ m > 0)
          BY <1>3, <1>4, <4>1
        <5> QED BY <1>2, <1>3, <4>1, <5>1
      <4>2. CASE i # k
        <5>1. i \in 1 .. k - 1 /\ i + 1 \in 1 .. k
          BY <1>3, <4>2
        <5>2. q[i].n = 0 \/ q[i + 1].n = q[i].n + 1
          BY <5>1 DEF GivenOwn, InOrder
        <5> QED BY <1>3, <5>1, <5>2
      <4> QED BY <4>1, <4>2
    <3>2. (k + 1) - 1 = k
      BY <1>3
    <3> QED BY <1>3, <3>1, <3>2 DEF InOrder
  <2>3. ASSUME NEW i \in 1 .. k + 1, Begins(given'[s], i)
        PROVE  given'[s][i].kind = "keyframe" \/ NothingToStartFrom(SubSeq(sent, 1, given'[s][i].n - 1))
    <3>1. CASE i \in 1 .. k
      <4>1. Begins(q, i)
        <5>1. i = 1 \/ i - 1 \in 1 .. k
          BY <1>3, <3>1
        <5> QED BY <1>3, <2>3, <3>1, <5>1 DEF Begins
      <4> QED BY <1>3, <3>1, <4>1 DEF GivenOwn
    <3>2. CASE i = k + 1
      <4>1. ~ (q # <<>> /\ m > 0 /\ q[k].n = m)
        <5>1. q # <<>> => k # 0
          BY <1>1, EmptySeq
        <5>2. i = 1 \/ (i - 1 = k /\ k \in 1 .. k)
          BY <1>3, <3>2
        <5>3. i = 1 \/ q[k].n = 0
          BY <1>3, <2>3, <3>2, <5>2 DEF Begins
        <5> QED BY <1>3, <3>2, <5>1, <5>3
      <4>2. f.kind = "keyframe" \/ NothingToStartFrom(SubSeq(sent, 1, m))
        BY <1>4, <4>1
      <4>3. f.n - 1 = m
        BY <1>2
      <4> QED BY <1>3, <3>2, <4>2, <4>3
    <3> QED BY <1>3, <3>1, <3>2
  <2> QED BY <1>3, <2>1, <2>2, <2>3 DEF GivenOwn
<1> QED BY <1>5, <1>6

\* A header of its publication, as long as s has been given headers only.
LEMMA NextHeader ==
  ASSUME DistributionInv, NEW s \in Subs, NEW f \in Frames, f.n = 0, f.round = round, HeadersOnly(given[s]),
         given' = [given EXCEPT ![s] = Append(@, f)], UNCHANGED <<sent, round, home>>
  PROVE  HeadersOnly(given[s])' /\ GivenOwn(s)'
<1> DEFINE k == Len(given[s])
<1>1. /\ given'[s] \in Seq(Frames) /\ k \in Nat /\ Len(given'[s]) = k + 1
      /\ given'[s][k + 1] = f /\ \A i \in 1 .. k : given'[s][i] = given[s][i]
      /\ \A i \in 1 .. k + 1 : i \in 1 .. k \/ i = k + 1
  BY GivenIs
<1>2. \A i \in 1 .. k + 1 : given'[s][i].n = 0 /\ given'[s][i].round = round
  BY <1>1 DEF HeadersOnly
<1>3. HeadersOnly(given[s])'
  BY <1>1, <1>2 DEF HeadersOnly
<1>4. \A i \in 1 .. (k + 1) - 1 : i \in 1 .. k + 1
  BY <1>1
<1> QED BY <1>1, <1>2, <1>3, <1>4 DEF GivenOwn, InOrder, Begins

\* Nothing about s or the stream changes.
LEMMA FeedKept ==
  ASSUME DistributionInv, NEW s \in Subs, Progress(s) /\ GivenOwn(s), UNCHANGED <<sent, round>>,
         given'[s] = given[s], home'[s] = home[s], join'[s] = join[s], Pending(s)' <=> Pending(s),
         Joining(s) => pub'.pc \notin {"pushed", "sending"}
  PROVE  Progress(s)' /\ GivenOwn(s)'
<1>1. UpTo(s, IF Pending(s) THEN Len(sent) - 1 ELSE Len(sent))'
        <=> UpTo(s, IF Pending(s) THEN Len(sent) - 1 ELSE Len(sent))
  BY DEF UpTo
<1>2. UpTo(s, Len(sent) - Len(join[s].todo))' <=> UpTo(s, Len(sent) - Len(join[s].todo))
  BY DEF UpTo
<1>3. Progress(s)'
  <2> DEFINE A == UpTo(s, IF Pending(s) THEN Len(sent) - 1 ELSE Len(sent))
             B == UpTo(s, Len(sent) - Len(join[s].todo))
  <2>1. (A' <=> A) /\ (B' <=> B)
    BY <1>1, <1>2
  <2>2. Progress(s) <=>
          /\ Joining(s) => home[s].frames = Len(sent) /\ ~ At("pushed") /\ ~ At("sending")
          /\ join[s].pc = "added" => given[s] = <<>>
          /\ join[s].pc = "headers" \/ (join[s].pc = "frames" /\ join[s].cache # 0) =>
               join[s].cache = round /\ HeadersOnly(given[s]) /\ HeadersOnly(join[s].todo)
          /\ join[s].pc = "frames" /\ join[s].cache = 0 => Ending(join[s].todo, sent) /\ B
          /\ ~ Joining(s) => A
    BY DEF Progress
  <2>3. Progress(s)' <=>
          /\ Joining(s)' => home'[s].frames = Len(sent') /\ ~ At("pushed")' /\ ~ At("sending")'
          /\ join'[s].pc = "added" => given'[s] = <<>>
          /\ join'[s].pc = "headers" \/ (join'[s].pc = "frames" /\ join'[s].cache # 0) =>
               join'[s].cache = round' /\ HeadersOnly(given[s])' /\ HeadersOnly(join[s].todo)'
          /\ join'[s].pc = "frames" /\ join'[s].cache = 0 => Ending(join[s].todo, sent)' /\ B'
          /\ ~ Joining(s)' => A'
    BY DEF Progress
  <2>4. /\ HeadersOnly(given[s])' <=> HeadersOnly(given[s])
        /\ HeadersOnly(join[s].todo)' <=> HeadersOnly(join[s].todo)
        /\ Ending(join[s].todo, sent)' <=> Ending(join[s].todo, sent)
        /\ Joining(s)' <=> Joining(s)
    BY DEF HeadersOnly, Ending, Joining
  <2> HIDE DEF A, B
  <2> QED BY <2>1, <2>2, <2>3, <2>4 DEF At
<1>4. GivenOwn(s)'
  BY DEF GivenOwn, InOrder, Begins
<1> QED BY <1>3, <1>4

\* What Progress says of a subscriber that has joined, and of one that joins.
LEMMA ProgressIs ==
  ASSUME DistributionInv, NEW s \in Subs
  PROVE  /\ Progress(s) /\ ~ Joining(s) /\ Pending(s) => UpTo(s, Len(sent) - 1)
         /\ Progress(s) /\ ~ Joining(s) /\ ~ Pending(s) => UpTo(s, Len(sent))
         /\ ~ Joining(s) /\ Pending(s) /\ UpTo(s, Len(sent) - 1) => Progress(s)
         /\ ~ Joining(s) /\ ~ Pending(s) /\ UpTo(s, Len(sent)) => Progress(s)
<1>1. Joining(s) <=> join[s].pc \in {"added", "headers", "frames"}
  BY DEF Joining
<1> QED BY <1>1 DEF Progress

\* A distribution puts the newest frame before a subscriber that has all of the former ones.
LEMMA FeedDistributed ==
  ASSUME DistributionInv, NEW s \in Subs, NEW kind \in Published, distribute(kind),
         Undisturbed(s), Progress(s) /\ GivenOwn(s),
         given'[s] = given[s], home'[s] = home[s], join'[s] = join[s], ~ Joining(s)
  PROVE  Progress(s)' /\ GivenOwn(s)'
<1> DEFINE f == Frame(kind, Len(sent) + 1, round)
           m == Len(sent)
<1>1. /\ sent \in Seq(Frames) /\ m \in Nat /\ given[s] \in Seq(Frames) /\ home[s].frames \in Nat
      /\ pub \in [pc : PublisherSteps, frame : Frames \cup {0}, todo : SUBSET Subs]
      /\ round \in Nat
  BY TypeFacts
<1>2. f \in Frames
  <2>1. kind \in {"keyframe", "inter", "audio", "data"} /\ m + 1 \in Nat
    BY <1>1, MediaAssumption
  <2> QED BY <1>1, <2>1, FrameType
<1>3. /\ sent' = Append(sent, f) /\ pub' = [pub EXCEPT !.pc = "pushed", !.frame = f] /\ round' = round
      /\ At("live")
  BY DEF distribute, stream
<1> HIDE DEF f
<1>4. pub'.pc = "pushed" /\ pub.pc = "live"
  BY <1>1, <1>3 DEF At
<1>5. Pending(s)' /\ ~ Pending(s) /\ ~ Joining(s)'
  BY <1>4 DEF Pending, At, Joining
<1>6. UpTo(s, m)
  BY <1>5, ProgressIs
<1>7. /\ Len(sent') = m + 1 /\ sent' \in Seq(Frames) /\ sent'[m + 1] = f
      /\ \A i \in 1 .. m : sent'[i] = sent[i]
      /\ \A n \in 0 .. m : SubSeq(sent', 1, n) = SubSeq(sent, 1, n)
  <2>1. \A n \in 0 .. m : SubSeq(Append(sent, f), 1, n) = SubSeq(sent, 1, n)
    BY <1>1, <1>2, PrefixOfAppend
  <2> QED BY <1>1, <1>2, <1>3, <2>1
<1>8. FedUpTo(given'[s], home'[s].frames, sent', m)
  <2>1. FedUpTo(given[s], home[s].frames, sent, m)
    BY <1>6 DEF UpTo
  <2>2. m \in 0 .. m + 1 /\ m \in 0 .. m
    BY <1>1
  <2>3. m < home[s].frames => FALSE
    BY <1>1 DEF DistributionInv, EndReaches, Undisturbed
  <2> QED BY <1>1, <1>7, <2>1, <2>2, <2>3 DEF FedUpTo
<1>9. UpTo(s, Len(sent) - 1)'
  <2>1. Len(sent') - 1 = m
    BY <1>1, <1>7
  <2> QED BY <1>8, <2>1 DEF UpTo
<1>10. Progress(s)'
  BY <1>5, <1>9 DEF Progress, Joining
<1>11. GivenOwn(s)'
  <2> DEFINE q == given[s]
  <2>1. ASSUME NEW i \in 1 .. Len(q)
        PROVE  q[i].round = round /\ (q[i].n = 0 \/ (q[i].n \in 1 .. m + 1 /\ q[i] = sent'[q[i].n]))
    <3>1. q[i].round = round /\ (q[i].n = 0 \/ (q[i].n \in 1 .. m /\ q[i] = sent[q[i].n]))
      BY <2>1 DEF GivenOwn
    <3> QED BY <1>1, <1>7, <3>1
  <2>2. ASSUME NEW i \in 1 .. Len(q), Begins(q, i)
        PROVE  q[i].kind = "keyframe" \/ NothingToStartFrom(SubSeq(sent', 1, q[i].n - 1))
    <3>1. q[i].n = 0 \/ q[i].n \in 1 .. m
      BY <2>2 DEF GivenOwn
    <3>2. q[i].n - 1 \in 0 .. m
      BY <1>1, <2>2, <3>1 DEF Begins
    <3>3. q[i].kind = "keyframe" \/ NothingToStartFrom(SubSeq(sent, 1, q[i].n - 1))
      BY <2>2 DEF GivenOwn
    <3> QED BY <1>7, <3>2, <3>3
  <2>3. InOrder(q)
    BY DEF GivenOwn
  <2> HIDE DEF q
  <2>4. given'[s] = q
    BY DEF q
  <2> QED BY <1>3, <1>7, <2>1, <2>2, <2>3, <2>4 DEF GivenOwn
<1> QED BY <1>10, <1>11

\* The newest frame is pushed to s.
LEMMA FeedSent ==
  ASSUME DistributionInv, NEW s \in Subs, sendFrame(s), Undisturbed(s), Progress(s) /\ GivenOwn(s),
         UNCHANGED <<home, join, round>>
  PROVE  Progress(s)' /\ GivenOwn(s)'
<1>1. /\ sent \in Seq(Frames) /\ Len(sent) \in Nat
      /\ pub \in [pc : PublisherSteps, frame : Frames \cup {0}, todo : SUBSET Subs]
  BY TypeFacts
<1>2. /\ sent # <<>> /\ pub.frame = sent[Len(sent)] /\ pub.pc = "sending" /\ s \in pub.todo
      /\ UNCHANGED <<sent, join>> /\ pub' = [pub EXCEPT !.todo = @ \ {s}]
      /\ given' = [given EXCEPT ![s] = Append(@, pub.frame)]
  BY DEF sendFrame, DistributionInv, PublisherPhase, At, pushToSubscriber, Undisturbed
<1>3. PICK m \in Nat : m < Len(sent) /\ m + 1 = Len(sent) /\ m = Len(sent) - 1
  BY <1>1, <1>2
<1>4. Pending(s) /\ ~ Joining(s)
  BY <1>2 DEF Pending, At, Progress
<1>5. UpTo(s, m)
  BY <1>3, <1>4, ProgressIs
<1>6. UpTo(s, m + 1)' /\ GivenOwn(s)'
  BY <1>2, <1>3, <1>5, NextFrame
<1>7. ~ Pending(s)' /\ ~ Joining(s)'
  <2>1. pub'.pc = "sending" /\ s \notin pub'.todo
    BY <1>1, <1>2
  <2> QED BY <1>2, <1>4, <2>1 DEF Pending, At, Joining
<1>8. UpTo(s, Len(sent))'
  BY <1>2, <1>3, <1>6 DEF UpTo
<1>9. Progress(s)'
  BY <1>7, <1>8 DEF Progress, Joining
<1> QED BY <1>6, <1>9

\* The steps of the publisher's thread.
LEMMA FeedPublisher ==
  ASSUME DistributionInv, PublisherNext, NEW s \in Subs, Undisturbed(s)'
  PROVE  Progress(s)' /\ GivenOwn(s)'
<1>1. UNCHANGED join
  BY PublisherStep
<1>2. /\ s \in subscribers /\ strained[s] = {} /\ home'[s] = home[s]
      /\ pub.pc \notin {"idle", "cached", "closing"}
  <2>1. s \in subscribers /\ strained[s] = {} /\ home'[s] = home[s]
    BY PublisherOnSubscriber DEF Undisturbed
  <2> QED BY <2>1 DEF DistributionInv, EndReaches
<1>3. Undisturbed(s) /\ Progress(s) /\ GivenOwn(s)
  BY <1>2 DEF DistributionInv, FedInOrder, Undisturbed
<1>4. pub \in [pc : PublisherSteps, frame : Frames \cup {0}, todo : SUBSET Subs]
  BY TypeFacts
<1>5. Joining(s) => pub.pc \notin {"pushed", "sending"}
  BY <1>3 DEF Progress, At
<1>6. ASSUME NEW kind \in Published, distribute(kind)
      PROVE  Progress(s)' /\ GivenOwn(s)'
  <2>1. strained'[s] = strained[s] \cup (IF Joining(s) THEN {"distribution"} ELSE {})
        /\ given'[s] = IF strained'[s] = {} THEN given[s] ELSE <<>>
    <3>1. strained \in [Subs -> SUBSET {"distribution", "end", "stale"}]
      BY TypeFacts
    <3> QED BY <1>6, <3>1 DEF distribute
  <2>2. given'[s] = given[s] /\ ~ Joining(s)
    BY <1>2, <2>1 DEF Undisturbed
  <2> QED BY <1>1, <1>2, <1>3, <1>6, <2>2, FeedDistributed
<1>7. ASSUME sendFrame(s)
      PROVE  Progress(s)' /\ GivenOwn(s)'
  <2>1. UNCHANGED <<home, round>>
    BY <1>7 DEF sendFrame, stream
  <2> QED BY <1>1, <1>3, <1>7, <2>1, FeedSent
<1>8. ASSUME /\ UNCHANGED <<sent, round>> /\ given'[s] = given[s]
             /\ Pending(s)' <=> Pending(s)
             /\ pub'.pc \in {"pushed", "sending"} => pub.pc \in {"pushed", "sending"}
      PROVE  Progress(s)' /\ GivenOwn(s)'
  <2>1. join'[s] = join[s] /\ (Joining(s) => pub'.pc \notin {"pushed", "sending"})
    BY <1>1, <1>5, <1>8
  <2> QED BY <1>2, <1>3, <1>8, <2>1, FeedKept
<1>9. CASE setGOPBuffer \/ list
  <2>1. UNCHANGED <<sent, round, given>> /\ pub'.pc = "live" /\ pub.pc = "bare"
    BY <1>2, <1>4, <1>9 DEF setGOPBuffer, list, At, Goto, members
  <2>2. Pending(s)' <=> Pending(s)
    BY <2>1 DEF Pending, At
  <2> QED BY <1>8, <2>1, <2>2
<1>10. CASE setMetadata \/ setSequenceHeaders
  <2>1. UNCHANGED <<sent, round, given, pub>>
    BY <1>10 DEF setMetadata, setSequenceHeaders, stream, members
  <2>2. Pending(s)' <=> Pending(s)
    BY <2>1 DEF Pending, At
  <2> QED BY <1>8, <2>1, <2>2
<1>11. CASE getSubscribersForStream
  <2>1. UNCHANGED <<sent, round, given>> /\ pub'.pc = "sending" /\ pub'.todo = subscribers /\ pub.pc = "pushed"
    BY <1>4, <1>11 DEF getSubscribersForStream, snapshot, stream, members, At
  <2>2. Pending(s)' <=> Pending(s)
    BY <1>2, <2>1 DEF Pending, At
  <2> QED BY <1>8, <2>1, <2>2
<1>12. CASE distributed \/ unlist \/ ended
  <2>1. UNCHANGED <<sent, round, given>> /\ pub'.pc \notin {"pushed", "sending"}
        /\ pub.pc # "pushed" /\ (pub.pc = "sending" => pub.todo = {})
    BY <1>4, <1>12 DEF distributed, unlist, ended, Goto, stream, members, At
  <2>2. Pending(s)' <=> Pending(s)
    BY <2>1 DEF Pending, At
  <2> QED BY <1>8, <2>1, <2>2
<1>13. CASE onStreamEnd \/ onStreamEnded
  <2>1. UNCHANGED <<sent, round, given>> /\ pub'.pc \notin {"pushed", "sending"}
        /\ pub.pc \notin {"pushed", "sending"}
    BY <1>4, <1>13 DEF onStreamEnd, onStreamEnded, snapshot, stream, members, At
  <2>2. Pending(s)' <=> Pending(s)
    BY <2>1 DEF Pending, At
  <2> QED BY <1>8, <2>1, <2>2
<1>14. ASSUME NEW t \in Subs, t # s, sendFrame(t)
       PROVE  Progress(s)' /\ GivenOwn(s)'
  <2>1. UNCHANGED <<sent, round>> /\ pub'.pc = pub.pc /\ pub'.todo = pub.todo \ {t}
    BY <1>4, <1>14 DEF sendFrame, stream
  <2>2. given'[s] = given[s]
    <3>1. given \in [Subs -> Seq(Frames)]
      BY TypeFacts
    <3> QED BY <1>14, <3>1 DEF sendFrame, pushToSubscriber
  <2>3. Pending(s)' <=> Pending(s)
    BY <1>14, <2>1 DEF Pending, At
  <2> QED BY <1>8, <2>1, <2>2, <2>3
<1>15. ASSUME NEW t \in Subs, emitStreamEOF(t) \/ removeEnded(t)
       PROVE  Progress(s)' /\ GivenOwn(s)'
  <2>1. UNCHANGED <<sent, round>> /\ pub'.pc = pub.pc /\ pub.pc \notin {"pushed", "sending"}
    BY <1>4, <1>15 DEF emitStreamEOF, removeEnded, stream, At
  <2>2. given'[s] = given[s]
    <3>1. given \in [Subs -> Seq(Frames)]
      BY TypeFacts
    <3>2. removeEnded(t) => t # s
      BY DEF removeEnded, removeSubscriber, Undisturbed
    <3> QED BY <1>15, <3>1, <3>2 DEF emitStreamEOF, removeEnded, removeSubscriber
  <2>3. Pending(s)' <=> Pending(s)
    BY <2>1 DEF Pending, At
  <2> QED BY <1>8, <2>1, <2>2, <2>3
<1> QED BY <1>6, <1>7, <1>9, <1>10, <1>11, <1>12, <1>13, <1>14, <1>15 DEF PublisherNext

\* The frames a newcomer takes from the cache are the newest, from a keyframe on; none only if
\* there is nothing to start from.
LEMMA CopyFeeds ==
  ASSUME NEW g \in Cache(Frames, {GopConfig}), Agrees(g), NEW t \in Seq(Frames), Ending(g.frames, t),
         LastKey(g.frames) = 0 => NothingToStartFrom(t),
         NEW q \in Seq(Frames), \A i \in 1 .. Len(q) : q[i].n = 0
  PROVE  /\ Ending(getFromLastKeyframe(g), t)
         /\ FedUpTo(q, Len(t), t, Len(t) - Len(getFromLastKeyframe(g)))
<1> DEFINE k == LastKey(g.frames)
<1>1. g.frames \in Seq(Frames) /\ Len(t) \in Nat
  BY DEF Cache
<1>2. k \in 0 .. Len(g.frames) /\ (k # 0 => k \in Keyframes(g.frames))
  BY <1>1, LastKeyIs
<1>3. CASE k = 0
  <2>1. getFromLastKeyframe(g) = <<>>
    BY <1>3, CopyIs
  <2>2. From(t, Len(t) + 1) = <<>>
    <3>1. Len(t) + 1 \in 1 .. Len(t) + 1 /\ Len(t) + 1 - (Len(t) + 1) = 0
      BY <1>1
    <3>2. From(t, Len(t) + 1) \in Seq(Frames) /\ Len(From(t, Len(t) + 1)) = 0
      BY <3>1, FromIs
    <3> QED BY <3>2, EmptySeq
  <2>3. Ending(<<>>, t)
    BY <1>1, <2>2 DEF Ending
  <2>4. NothingToStartFrom(SubSeq(t, 1, Len(t)))
    <3>1. SubSeq(t, 1, Len(t)) = t
      BY <1>1
    <3> QED BY <1>3, <3>1
  <2>5. Len(<<>>) = 0 /\ Len(t) - 0 = Len(t) /\ Len(t) \in 0 .. Len(t) /\ ~ (Len(t) < Len(t))
    BY <1>1
  <2> QED BY <2>1, <2>3, <2>4, <2>5 DEF FedUpTo
<1>4. CASE k # 0
  <2>1. PICK a \in 1 .. Len(t) + 1 : g.frames = From(t, a)
    BY DEF Ending
  <2>2. Len(g.frames) = Len(t) + 1 - a /\ \A i \in 1 .. Len(t) + 1 - a : g.frames[i] = t[a + i - 1]
    BY <2>1, FromIs
  <2> HIDE DEF k
  <2>3. k \in 1 .. Len(t) + 1 - a /\ g.frames[k].kind = "keyframe"
    BY <1>1, <1>2, <1>4, <2>2 DEF Keyframes
  <2> DEFINE b == a + k - 1
             c == getFromLastKeyframe(g)
  <2>4. b \in 1 .. Len(t) /\ b \in a .. Len(t) + 1 /\ b \in 1 .. Len(t) + 1 /\ b - a + 1 = k
        /\ Len(t) - (Len(t) + 1 - b) = b - 1 /\ b - 1 \in 0 .. Len(t) /\ b - 1 < Len(t) /\ (b - 1) + 1 = b
    BY <1>1, <2>3
  <2>5. t[b].kind = "keyframe"
    BY <2>2, <2>3
  <2> HIDE DEF b
  <2>6. c = From(t, b)
    <3>1. c = From(g.frames, k)
      BY <1>4, CopyIs DEF k
    <3>2. From(From(t, a), b - a + 1) = From(t, b)
      BY <2>4, CutOfCut
    <3> QED BY <2>1, <2>4, <3>1, <3>2
  <2> HIDE DEF c
  <2>7. Len(c) = Len(t) + 1 - b /\ Ending(c, t)
    BY <2>4, <2>6, FromIs DEF Ending
  <2>8. FedUpTo(q, Len(t), t, b - 1)
    BY <1>1, <2>4, <2>5 DEF FedUpTo
  <2> QED BY <2>4, <2>7, <2>8 DEF c
<1> QED BY <1>3, <1>4

\* The first of the frames that are left is the next of the stream.
LEMMA CachedNext ==
  ASSUME NEW t \in Seq(Frames), NEW todo \in Seq(Frames), todo # <<>>, Ending(todo, t)
  PROVE  \E n \in Nat : /\ n < Len(t) /\ n = Len(t) - Len(todo) /\ Head(todo) = t[n + 1]
                        /\ Ending(Tail(todo), t) /\ Len(t) - Len(Tail(todo)) = n + 1
<1>1. PICK b \in 1 .. Len(t) + 1 : todo = From(t, b)
  BY DEF Ending
<1>2. Len(t) \in Nat /\ Len(todo) = Len(t) + 1 - b /\ \A i \in 1 .. Len(t) + 1 - b : todo[i] = t[b + i - 1]
  <2>1. /\ Len(From(t, b)) = Len(t) + 1 - b
        /\ \A i \in 1 .. Len(t) + 1 - b : From(t, b)[i] = t[b + i - 1]
    BY FromIs
  <2>2. Len(t) \in Nat
    OBVIOUS
  <2> QED BY <1>1, <2>1, <2>2
<1>3. Len(todo) # 0 /\ Len(todo) \in Nat
  BY EmptySeq
<1>4. b \in 1 .. Len(t) /\ 1 \in 1 .. Len(t) + 1 - b /\ b + 1 - 1 = b /\ b + 1 \in 1 .. Len(t) + 1
  BY <1>2, <1>3
<1>5. Head(todo) = t[b]
  BY <1>2, <1>4
<1>6. Tail(todo) \in Seq(Frames) /\ Len(Tail(todo)) = Len(todo) - 1
      /\ \A i \in 1 .. Len(todo) - 1 : Tail(todo)[i] = todo[i + 1]
  BY <1>3
<1>7. /\ From(t, b + 1) \in Seq(Frames) /\ Len(From(t, b + 1)) = Len(t) + 1 - (b + 1)
      /\ \A i \in 1 .. Len(t) + 1 - (b + 1) : From(t, b + 1)[i] = t[b + 1 + i - 1]
  BY <1>4, FromIs
<1>8. Tail(todo) = From(t, b + 1)
  <2>1. ASSUME NEW i \in 1 .. Len(todo) - 1
        PROVE  Tail(todo)[i] = From(t, b + 1)[i]
    <3>1. i + 1 \in 1 .. Len(t) + 1 - b /\ i \in 1 .. Len(t) + 1 - (b + 1) /\ b + (i + 1) - 1 = b + 1 + i - 1
      BY <1>2, <1>4
    <3> QED BY <1>2, <1>6, <1>7, <3>1
  <2>2. Len(todo) - 1 = Len(t) + 1 - (b + 1)
    BY <1>2, <1>4
  <2> QED BY <1>6, <1>7, <2>1, <2>2, SeqEqual
<1>9. Ending(Tail(todo), t)
  BY <1>4, <1>8 DEF Ending
<1>10. b - 1 \in Nat /\ b - 1 < Len(t) /\ b - 1 = Len(t) - Len(todo) /\ (b - 1) + 1 = b
       /\ Len(t) - Len(Tail(todo)) = (b - 1) + 1
  BY <1>2, <1>4, <1>6
<1> QED BY <1>5, <1>9, <1>10

\* The steps of a subscriber's own thread.
LEMMA FeedJoining ==
  ASSUME DistributionInv, NEW s \in Subs, Undisturbed(s)',
         takeMetadata(s) \/ takeHeaders(s) \/ takeFrames(s) \/ sendCached(s)
  PROVE  Progress(s)' /\ GivenOwn(s)'
<1>1. /\ round \in Nat /\ cacheOf \in Nat /\ cacheOf <= round /\ sent \in Seq(Frames) /\ Len(sent) \in Nat
      /\ join \in [Subs -> [pc : JoinSteps, todo : Seq(Frames), cache : 0 .. MaxRounds]]
      /\ join[s].todo \in Seq(Frames) /\ join[s].cache \in Nat /\ given[s] \in Seq(Frames)
      /\ home[s].frames \in Nat /\ MaxRounds \in Nat /\ round <= MaxRounds
      /\ strained \in [Subs -> SUBSET {"distribution", "end", "stale"}]
  BY TypeFacts
<1>2. UNCHANGED <<round, cacheOf, sent, pub, gops, subscribers, home>>
  BY DEF takeMetadata, takeHeaders, takeFrames, sendCached, stream, members
<1>3. s \in subscribers /\ strained[s] = {} /\ Undisturbed(s)
  <2>1. strained[s] \subseteq strained'[s]
    BY <1>1 DEF takeMetadata, takeHeaders, takeFrames, sendCached, members
  <2> QED BY <1>2, <2>1 DEF Undisturbed
<1>4. Progress(s) /\ GivenOwn(s)
  BY <1>3 DEF DistributionInv, FedInOrder
<1>5. join[s].cache <= cacheOf
      /\ (join[s].pc = "headers" => join[s].cache > 0)
      /\ (join[s].pc \in {"idle", "checked", "added"} => join[s].cache = 0 /\ join[s].todo = <<>>)
  BY DEF DistributionInv, JoinsCurrent
<1>6. pub.pc \notin {"idle", "cached", "closing"} /\ round > 0
  <2>1. pub.pc \notin {"idle", "cached", "closing"}
    BY <1>3 DEF DistributionInv, EndReaches
  <2> QED BY <2>1 DEF DistributionInv, PublisherPhase, At
<1>7. Joining(s)
  BY <1>1, <1>5 DEF takeMetadata, takeHeaders, takeFrames, sendCached, Joining, JoinSteps
<1>8. home[s].frames = Len(sent) /\ ~ At("pushed") /\ ~ At("sending")
  BY <1>4, <1>7 DEF Progress
<1>9. given' = given => GivenOwn(s)'
  BY <1>2, <1>4 DEF GivenOwn, InOrder, Begins
<1>10. CASE takeMetadata(s)
  <2> DEFINE q == IF gops[cacheOf].metadata THEN <<header("data", cacheOf)>> ELSE <<>>
  <2>1. cacheOf = round /\ given' = given /\ join[s].pc = "added"
    <3>1. strained'[s] = strained[s] \cup (IF cacheOf # round THEN {"stale"} ELSE {})
      BY <1>1, <1>10 DEF takeMetadata
    <3> QED BY <1>10, <3>1 DEF takeMetadata, Undisturbed
  <2>2. join'[s].pc = "headers" /\ join'[s].cache = round /\ join'[s].todo = q
    BY <1>1, <1>6, <1>10, <2>1 DEF takeMetadata
  <2>3. HeadersOnly(q)
    <3>1. header("data", round) \in Frames /\ header("data", round).n = 0 /\ header("data", round).round = round
      BY <1>1, FrameType DEF header
    <3>2. q = <<>> \/ q = <<header("data", round)>>
      BY <2>1
    <3> QED BY <3>1, <3>2 DEF HeadersOnly
  <2> HIDE DEF q
  <2>4. given[s] = <<>>
    BY <1>4, <2>1 DEF Progress
  <2>5. HeadersOnly(given[s])
    BY <2>4 DEF HeadersOnly
  <2>6. Progress(s)'
    BY <1>2, <1>8, <2>1, <2>2, <2>3, <2>5 DEF Progress, Joining, At, HeadersOnly
  <2> QED BY <1>9, <2>1, <2>6
<1>11. CASE takeHeaders(s)
  <2> DEFINE q == IF Cached(s).headers
                  THEN <<header("keyframe", join[s].cache), header("audio", join[s].cache)>> ELSE <<>>
  <2>1. join[s].pc = "headers" /\ given' = given
    BY <1>11 DEF takeHeaders, members
  <2>2. join[s].cache = round /\ HeadersOnly(given[s])
    BY <1>4, <2>1 DEF Progress
  <2>3. join'[s].pc = "frames" /\ join'[s].cache = round /\ join'[s].todo = q
    BY <1>1, <1>11, <2>2 DEF takeHeaders
  <2>4. HeadersOnly(q)
    <3>1. /\ header("keyframe", round) \in Frames /\ header("audio", round) \in Frames
          /\ header("keyframe", round).n = 0 /\ header("keyframe", round).round = round
          /\ header("audio", round).n = 0 /\ header("audio", round).round = round
      BY SMTT(30), <1>1, FrameType DEF header
    <3>2. q = <<>> \/ q = <<header("keyframe", round), header("audio", round)>>
      BY <2>2
    <3> QED BY <3>1, <3>2 DEF HeadersOnly
  <2> HIDE DEF q
  <2>5. Progress(s)'
    BY <1>2, <1>6, <1>8, <2>1, <2>2, <2>3, <2>4 DEF Progress, Joining, At, HeadersOnly
  <2> QED BY <1>9, <2>1, <2>5
<1>12. CASE takeFrames(s)
  <2> DEFINE g == gops[round]
             q == getFromLastKeyframe(g)
  <2>1. join[s].pc = "frames" /\ join[s].cache # 0 /\ given' = given
    BY <1>12 DEF takeFrames, members
  <2>2. join[s].cache = round /\ HeadersOnly(given[s]) /\ cacheOf = round
    BY <1>1, <1>4, <1>5, <2>1 DEF Progress
  <2>3. join'[s].pc = "frames" /\ join'[s].cache = 0 /\ join'[s].todo = q
    BY <1>1, <1>12, <2>2 DEF takeFrames, Cached
  <2>4. g \in Cache(Frames, {GopConfig}) /\ Agrees(g) /\ Ending(g.frames, sent)
        /\ (LastKey(g.frames) = 0 => NothingToStartFrom(sent))
    <3>1. round \in Rounds
      BY <1>1, <1>6 DEF Rounds
    <3>2. CachesCurrent /\ gops \in [Rounds -> Cache(Frames, {GopConfig})]
      BY DEF DistributionInv, DistributionTypes
    <3> QED BY <1>6, <2>2, <3>1, <3>2 DEF CachesCurrent
  <2> HIDE DEF g
  <2>5. Ending(q, sent) /\ FedUpTo(given[s], Len(sent), sent, Len(sent) - Len(q))
    <3>1. \A i \in 1 .. Len(given[s]) : given[s][i].n = 0
      BY <2>2 DEF HeadersOnly
    <3> QED BY <1>1, <2>4, <3>1, CopyFeeds
  <2> HIDE DEF q
  <2>6. Ending(join[s].todo, sent)' /\ UpTo(s, Len(sent) - Len(join[s].todo))'
    BY <1>2, <1>8, <2>1, <2>3, <2>5 DEF UpTo, Ending
  <2>7. Progress(s)'
    BY <1>2, <1>8, <2>3, <2>6 DEF Progress, Joining, At
  <2> QED BY <1>9, <2>1, <2>7
<1>13. CASE sendCached(s)
  <2> DEFINE todo == join[s].todo
             f == Head(todo)
  <2>1. todo \in Seq(Frames) /\ todo # <<>> /\ f \in Frames /\ Tail(todo) \in Seq(Frames)
    BY <1>1, <1>13 DEF sendCached
  <2>2. /\ given' = [given EXCEPT ![s] = Append(@, f)]
        /\ join'[s].pc = join[s].pc /\ join'[s].cache = join[s].cache /\ join'[s].todo = Tail(todo)
    BY <1>1, <1>3, <1>13 DEF sendCached, pushToSubscriber
  <2>3. join[s].pc \in {"headers", "frames"}
    BY <1>1, <1>5, <2>1 DEF JoinSteps
  <2> HIDE DEF f
  <2>4. CASE join[s].pc = "headers" \/ (join[s].pc = "frames" /\ join[s].cache # 0)
    <3>1. join[s].cache = round /\ HeadersOnly(given[s]) /\ HeadersOnly(todo)
      BY <1>4, <2>4 DEF Progress
    <3>2. f.n = 0 /\ f.round = round /\ HeadersOnly(Tail(todo))
      <4>1. /\ Len(todo) \in Nat /\ Len(todo) # 0 /\ Head(todo) = todo[1] /\ Len(Tail(todo)) = Len(todo) - 1
            /\ \A i \in 1 .. Len(todo) - 1 : Tail(todo)[i] = todo[i + 1]
        BY <2>1, EmptySeq
      <4>2. 1 \in 1 .. Len(todo) /\ \A i \in 1 .. Len(todo) - 1 : i + 1 \in 1 .. Len(todo)
        BY <4>1
      <4> QED BY <3>1, <4>1, <4>2 DEF HeadersOnly, f
    <3>3. HeadersOnly(given[s])' /\ GivenOwn(s)'
      BY <1>2, <2>1, <2>2, <3>1, <3>2, NextHeader
    <3>4. HeadersOnly(join[s].todo)'
      BY <1>2, <2>2, <3>2 DEF HeadersOnly
    <3>5. Progress(s)'
      BY <1>2, <1>6, <1>8, <2>2, <2>4, <3>1, <3>3, <3>4 DEF Progress, Joining, At
    <3> QED BY <3>3, <3>5
  <2>5. CASE join[s].pc = "frames" /\ join[s].cache = 0
    <3>1. Ending(todo, sent) /\ UpTo(s, Len(sent) - Len(todo))
      BY <1>4, <2>5 DEF Progress
    <3>2. PICK n \in Nat : /\ n < Len(sent) /\ n = Len(sent) - Len(todo) /\ f = sent[n + 1]
                           /\ Ending(Tail(todo), sent) /\ Len(sent) - Len(Tail(todo)) = n + 1
      BY <1>1, <2>1, <3>1, CachedNext DEF f
    <3>3. UpTo(s, n)
      BY <3>1, <3>2
    <3>4. UpTo(s, n + 1)' /\ GivenOwn(s)'
      BY <1>2, <1>4, <2>2, <3>2, <3>3, NextFrame
    <3>5. Ending(join[s].todo, sent)' /\ UpTo(s, Len(sent) - Len(join[s].todo))'
      BY <1>2, <2>2, <3>2, <3>4 DEF UpTo, Ending
    <3>6. Progress(s)'
      BY <1>2, <1>8, <2>2, <2>5, <3>5 DEF Progress, Joining, At
    <3> QED BY <3>4, <3>6
  <2> QED BY <2>3, <2>4, <2>5
<1> QED BY <1>10, <1>11, <1>12, <1>13

\* A subscriber's step keeps what it has been fed in order.
LEMMA FeedSubscriber ==
  ASSUME DistributionInv, NEW s \in Subs, NEW t \in Subs, SubscriberNext(t), Undisturbed(s)'
  PROVE  Progress(s)' /\ GivenOwn(s)'
<1>1. UNCHANGED <<listed, round, cacheOf, sent, pub, gops>>
  BY SubscribersStep
<1>2. /\ join \in [Subs -> [pc : JoinSteps, todo : Seq(Frames), cache : 0 .. MaxRounds]]
      /\ home \in [Subs -> [round : 0 .. MaxRounds, frames : Nat]]
      /\ strained \in [Subs -> SUBSET {"distribution", "end", "stale"}]
      /\ sent \in Seq(Frames) /\ Len(sent) \in Nat
      /\ join[s].cache \in Nat
  BY TypeFacts
<1>3. Pending(s)' <=> Pending(s)
  BY <1>1 DEF Pending, At
<1>4. ASSUME Undisturbed(s), given'[s] = given[s], home'[s] = home[s], join'[s] = join[s]
      PROVE  Progress(s)' /\ GivenOwn(s)'
  <2>1. Progress(s) /\ GivenOwn(s)
    BY <1>4 DEF DistributionInv, FedInOrder
  <2>2. Joining(s) => pub'.pc \notin {"pushed", "sending"}
    BY <1>1, <2>1 DEF Progress, At
  <2> QED BY <1>1, <1>3, <1>4, <2>1, <2>2, FeedKept
<1>5. CASE s # t
  <2>1. /\ join'[s] = join[s] /\ given'[s] = given[s] /\ home'[s] = home[s] /\ strained'[s] = strained[s]
        /\ s \in subscribers' <=> s \in subscribers
    BY <1>5, OthersStep
  <2> QED BY <1>4, <2>1 DEF Undisturbed
<1>6. CASE s = t
  <2> SUFFICES ASSUME SubscriberNext(s) PROVE Progress(s)' /\ GivenOwn(s)'
    BY <1>6
  <2>1. CASE takeMetadata(s) \/ takeHeaders(s) \/ takeFrames(s) \/ sendCached(s)
    BY <2>1, FeedJoining
  <2>2. CASE leave(s)
    BY <2>2 DEF leave, removeSubscriber, Undisturbed
  <2>3. CASE check(s) \/ alreadyExists(s) \/ joined(s)
    <3>1. Undisturbed(s) /\ UNCHANGED <<given, home>>
      BY <2>3 DEF check, alreadyExists, joined, Undisturbed, members
    <3>2. Progress(s) /\ GivenOwn(s)
      BY <3>1 DEF DistributionInv, FedInOrder
    <3>3. join'[s].pc \in {"idle", "checked"}
      BY <1>2, <2>3 DEF check, alreadyExists, joined
    <3>4. UpTo(s, IF Pending(s) THEN Len(sent) - 1 ELSE Len(sent))
      <4>1. CASE check(s) \/ alreadyExists(s)
        <5>1. ~ Joining(s)
          BY <4>1 DEF check, alreadyExists, Joining
        <5> QED BY <3>2, <5>1 DEF Progress
      <4>2. CASE joined(s)
        <5>1. join[s].pc = "frames" /\ join[s].todo = <<>> /\ join[s].cache = 0
          BY <4>2 DEF joined
        <5>2. ~ Pending(s) /\ UpTo(s, Len(sent) - Len(join[s].todo))
          BY <3>2, <5>1 DEF Progress, Joining, Pending
        <5>3. Len(sent) - Len(join[s].todo) = Len(sent)
          BY <1>2, <5>1
        <5> QED BY <5>2, <5>3
      <4> QED BY <2>3, <4>1, <4>2
    <3>5. UpTo(s, IF Pending(s) THEN Len(sent) - 1 ELSE Len(sent))'
      BY <1>1, <1>3, <3>1, <3>4 DEF UpTo
    <3>6. Progress(s)'
      BY <3>3, <3>5 DEF Progress, Joining
    <3>7. GivenOwn(s)'
      BY <1>1, <3>1, <3>2 DEF GivenOwn, InOrder, Begins
    <3> QED BY <3>6, <3>7
  <2>4. CASE addSubscriber(s)
    <3>1. /\ strained'[s] = (IF pub.pc \in {"pushed", "sending"} THEN {"distribution"} ELSE {})
               \cup (IF ~ listed \/ pub.pc \in {"eof", "removing", "closing"} THEN {"end"} ELSE {})
          /\ home'[s].frames = Len(sent) /\ join'[s].pc = "added" /\ join'[s].cache = join[s].cache
          /\ given' = given
      BY <1>1, <1>2, <2>4 DEF addSubscriber
    <3>2. pub.pc \notin {"pushed", "sending"}
      BY <3>1 DEF Undisturbed
    <3>3. given[s] = <<>>
      BY <2>4 DEF addSubscriber, DistributionInv, JoinsCurrent
    <3>4. Progress(s)'
      BY <1>1, <3>1, <3>2, <3>3 DEF Progress, Joining, At
    <3>5. GivenOwn(s)'
      <4>1. given'[s] = <<>>
        BY <3>1, <3>3
      <4>2. \A i \in 1 .. Len(<<>>) : FALSE
        OBVIOUS
      <4>3. \A i \in 1 .. Len(<<>>) - 1 : FALSE
        OBVIOUS
      <4> QED BY <4>1, <4>2, <4>3 DEF GivenOwn, InOrder
    <3> QED BY <3>4, <3>5
  <2> QED BY <2>1, <2>2, <2>3, <2>4 DEF SubscriberNext
<1> QED BY <1>5, <1>6

\* The invariant is inductive.
LEMMA DistributionStep ==
  ASSUME DistributionInv, [MediaNext]_distributionVars
  PROVE  DistributionInv'
<1>1. CASE MediaNext
  <2>1. FedInOrder'
    BY <1>1, FeedPublisher, FeedSubscriber DEF MediaNext, FedInOrder
  <2> QED BY <1>1, <2>1, TypesStep, PhaseStep, CurrentStep, JoinsStep, EndStep DEF DistributionInv
<1>2. CASE UNCHANGED distributionVars
  <2> USE <1>2 DEF distributionVars
  <2>1. DistributionTypes'
    BY DEF DistributionInv, DistributionTypes
  <2>2. PublisherPhase' /\ SentInOrder'
    BY DEF DistributionInv, PublisherPhase, SentInOrder, At
  <2>3. CachesCurrent'
    BY DEF DistributionInv, CachesCurrent
  <2>4. JoinsCurrent' /\ EndReaches'
    BY DEF DistributionInv, JoinsCurrent, EndReaches, Joining, At
  <2>5. ASSUME NEW s \in Subs, Undisturbed(s)'
        PROVE  Progress(s)' /\ GivenOwn(s)'
    <3>1. Undisturbed(s)
      BY <2>5 DEF Undisturbed
    <3>2. Progress(s) /\ GivenOwn(s)
      BY <3>1 DEF DistributionInv, FedInOrder
    <3>3. Pending(s)' <=> Pending(s)
      BY DEF Pending, At
    <3>4. Joining(s) => pub'.pc \notin {"pushed", "sending"}
      BY <3>2 DEF Progress, At
    <3> QED BY <3>2, <3>3, <3>4, FeedKept
  <2> QED BY <2>1, <2>2, <2>3, <2>4, <2>5 DEF DistributionInv, FedInOrder
<1> QED BY <1>1, <1>2

\* Nothing is published at first.
LEMMA DistributionStart ==
  ASSUME MediaInit
  PROVE  DistributionInv
<1>1. <<>> \in Seq(Frames) /\ MaxRounds \in Nat /\ Len(<<>>) = 0
  BY MediaAssumption
<1>2. NewGOPBuffer(GopConfig) \in Cache(Frames, {GopConfig}) /\ Agrees(NewGOPBuffer(GopConfig))
  BY NewCache
<1>3. gops \in [Rounds -> Cache(Frames, {GopConfig})] /\ \A r \in Rounds : Agrees(gops[r])
  BY <1>2 DEF MediaInit
<1>4. DistributionTypes
  <2>1. /\ listed \in BOOLEAN /\ round \in 0 .. MaxRounds /\ cacheOf \in 0 .. round
        /\ subscribers \subseteq Subs /\ told \subseteq Subs
    <3>1. listed = FALSE /\ round = 0 /\ cacheOf = 0 /\ subscribers = {} /\ told = {}
      BY DEF MediaInit
    <3>2. round \in 0 .. MaxRounds
      BY <1>1, <3>1
    <3>3. cacheOf \in 0 .. round
      BY <3>1
    <3> QED BY <3>1, <3>2, <3>3
  <2>2. /\ pub \in [pc : PublisherSteps, frame : Frames \cup {0}, todo : SUBSET Subs]
        /\ join \in [Subs -> [pc : JoinSteps, todo : Seq(Frames), cache : 0 .. MaxRounds]]
    BY <1>1 DEF MediaInit, PublisherSteps, JoinSteps
  <2>3. sent \in Seq(Frames) /\ given \in [Subs -> Seq(Frames)]
    <3> DEFINE Q == Seq(Frames)
    <3>1. <<>> \in Q
      BY <1>1
    <3> HIDE DEF Q
    <3>2. sent \in Q /\ given \in [Subs -> Q]
      BY <3>1 DEF MediaInit
    <3> QED BY <3>2 DEF Q
  <2>4. home \in [Subs -> [round : 0 .. MaxRounds, frames : Nat]]
    <3>1. [round |-> 0, frames |-> 0] \in [round : 0 .. MaxRounds, frames : Nat]
      BY <1>1
    <3> QED BY <3>1 DEF MediaInit
  <2>5. strained \in [Subs -> SUBSET {"distribution", "end", "stale"}]
    BY DEF MediaInit
  <2> QED BY <1>3, <2>1, <2>2, <2>3, <2>4, <2>5 DEF DistributionTypes
<1>5. PublisherPhase
  BY DEF MediaInit, PublisherPhase, At
<1>6. SentInOrder
  BY <1>1 DEF MediaInit, SentInOrder
<1>7. CachesCurrent
  BY <1>3 DEF MediaInit, CachesCurrent
<1>8. JoinsCurrent
  BY DEF MediaInit, JoinsCurrent, Joining
<1>9. EndReaches /\ FedInOrder
  BY DEF MediaInit, EndReaches, FedInOrder, Undisturbed
<1> QED BY <1>4, <1>5, <1>6, <1>7, <1>8, <1>9 DEF DistributionInv

\* What the invariant says of the feeds.
LEMMA FeedsFollow ==
  ASSUME DistributionInv
  PROVE  FeedComplete /\ StartsAtKeyframe /\ OwnPublication /\ NoOrphans /\ EndIsAnnounced
<1>1. ASSUME NEW s \in Subs, Undisturbed(s)
      PROVE  Progress(s) /\ GivenOwn(s) /\ home[s].round = round
  <2>1. s \in subscribers /\ "end" \notin strained[s]
    BY <1>1 DEF Undisturbed
  <2> QED BY <1>1, <2>1 DEF DistributionInv, FedInOrder, EndReaches
<1>2. FeedComplete
  <2> SUFFICES ASSUME NEW s \in Subs, Undisturbed(s), pub.pc \in {"live", "unlisted", "eof"},
                      home[s].frames < Len(sent)
               PROVE  /\ \E i \in 1 .. Len(given[s]) : given[s][i].n \in 1 .. home[s].frames + 1
                      /\ given[s][Len(given[s])].n = Len(sent)
    BY <1>1 DEF FeedComplete, GivenOwn
  <2>1. home[s].frames \in Nat /\ Len(sent) \in Nat
    BY TypeFacts
  <2>2. ~ Joining(s) /\ ~ Pending(s)
    BY <1>1, <2>1 DEF Progress, Pending, At
  <2>3. UpTo(s, Len(sent))
    BY <1>1, <2>2, ProgressIs
  <2> QED BY <2>1, <2>3 DEF UpTo, FedUpTo
<1>3. StartsAtKeyframe
  BY <1>1 DEF StartsAtKeyframe, GivenOwn
<1>4. OwnPublication
  BY <1>1 DEF OwnPublication, GivenOwn
<1>5. NoOrphans
  BY DEF NoOrphans, DistributionInv, EndReaches, At
<1>6. EndIsAnnounced
  BY DEF EndIsAnnounced, DistributionInv, EndReaches, At
<1> QED BY <1>2, <1>3, <1>4, <1>5, <1>6

\* Every component sees its own steps only.
LEMMA OneComponent ==
  ASSUME [StreamingNext]_streamingVars
  PROVE  /\ [MediaNext]_distributionVars /\ [BuffersNext /\ focus = "buffers"]_bufferVars
         /\ [HandlerNext]_handlerVars /\ UNCHANGED focus
<1>1. CASE UNCHANGED streamingVars
  BY <1>1 DEF streamingVars
<1>2. CASE StreamingNext
  BY <1>2 DEF StreamingNext, Elsewhere
<1> QED BY <1>1, <1>2

\* MediaDistribution: a subscriber whose join is undisturbed gets the frames of its own publication
\* from a keyframe on, none twice and none left out, however its join, the relay and the end of the
\* stream interleave; only one that joined during the end is left in the tables.
THEOREM FeedsAreWhole == StreamingSpec => []FeedWhole
<1>1. StreamingInit => DistributionInv
  BY DistributionStart DEF StreamingInit
<1>2. DistributionInv /\ [StreamingNext]_streamingVars => DistributionInv'
  BY OneComponent, DistributionStep
<1>3. DistributionInv => FeedWhole
  BY FeedsFollow DEF FeedWhole
<1> QED BY <1>1, <1>2, <1>3, PTL DEF StreamingSpec

-----------------------------------------------------------------------------
(* MediaBuffers: the cache *)

Arrivals == [kind : Kinds, n : Nat, time : Nat]

\* The cache holds the newest frames, numbered one after the other, and counts them right; as long
\* as the group of pictures on the air has fitted, that group is what a newcomer is offered.
CacheInv ==
  /\ count \in Nat /\ gop \in Cache(Arrivals, GopConfigs) /\ Agrees(gop) /\ Bounded(gop)
  /\ tail \in Seq(Arrivals)
  /\ \A i \in 1 .. Len(gop.frames) : gop.frames[i].n = count - Len(gop.frames) + i
  /\ whole => /\ tail # <<>> /\ Fits(tail, gop.config)
              /\ LastKey(gop.frames) # 0 /\ tail = From(gop.frames, LastKey(gop.frames))

\* The next frame.
LEMMA ArrivalType ==
  ASSUME NEW kind \in Kinds, NEW n \in Nat
  PROVE  Pushed(kind, n) \in Arrivals /\ Pushed(kind, n).kind = kind /\ Pushed(kind, n).n = n
<1>1. n % QueueTimes \in Nat
  BY BuffersAssumption
<1> QED BY <1>1 DEF Pushed, Arrivals

\* A cut that keeps a last group that fits.
LEMMA GroupKept ==
  ASSUME NEW F, NEW s \in Seq(F), NEW b \in 1 .. Len(s) + 1, NEW max \in Nat, LastKey(s) # 0,
         Bytes(From(s, LastKey(s))) <= max,
         LastKey(s) \in 1 .. b - 1 => Bytes(From(s, LastKey(s))) > max
  PROVE  /\ LastKey(From(s, b)) # 0
         /\ From(From(s, b), LastKey(From(s, b))) = From(s, LastKey(s))
<1> DEFINE k == LastKey(s)
           m == Bytes(From(s, k))
<1>1. k \in 0 .. Len(s) /\ Len(s) \in Nat
  BY LastKeyIs
<1>2. k \in 1 .. Len(s) + 1
  BY <1>1
<1>3. m \in Nat
  BY <1>2, BytesOfCut
<1>4. m <= max /\ k # 0 /\ (k \in 1 .. b - 1 => m > max)
  OBVIOUS
<1>5. LastKey(From(s, b)) = IF b <= k THEN k - b + 1 ELSE 0
  BY LastKeyOfCut
<1> HIDE DEF k, m
<1>6. b <= k /\ k \in b .. Len(s) + 1 /\ k - b + 1 # 0
  BY <1>1, <1>2, <1>3, <1>4
<1>7. From(From(s, b), k - b + 1) = From(s, k)
  BY <1>6, CutOfCut
<1> QED BY <1>5, <1>6, <1>7 DEF k

\* Frames numbered one after the other up to c stay so in a cut.
LEMMA NumbersOfCut ==
  ASSUME NEW s \in Seq(Arrivals), NEW c \in Nat, NEW b \in 1 .. Len(s) + 1,
         \A i \in 1 .. Len(s) : s[i].n = c - Len(s) + i
  PROVE  \A i \in 1 .. Len(From(s, b)) : From(s, b)[i].n = c - Len(From(s, b)) + i
<1>1. /\ Len(From(s, b)) = Len(s) + 1 - b /\ Len(s) \in Nat
      /\ \A i \in 1 .. Len(s) + 1 - b : From(s, b)[i] = s[b + i - 1]
  <2>1. Len(s) \in Nat
    OBVIOUS
  <2> QED BY <2>1, FromIs
<1>2. ASSUME NEW i \in 1 .. Len(s) + 1 - b
      PROVE  From(s, b)[i].n = c - (Len(s) + 1 - b) + i
  <2>1. b + i - 1 \in 1 .. Len(s) /\ c - Len(s) + (b + i - 1) = c - (Len(s) + 1 - b) + i
    BY <1>1
  <2> QED BY <1>1, <2>1
<1> QED BY <1>1, <1>2

\* Every call keeps the cache's invariant.
LEMMA CacheStep ==
  ASSUME CacheInv, BuffersNext
  PROVE  CacheInv'
<1>1. /\ count \in Nat /\ gop \in Cache(Arrivals, GopConfigs) /\ Agrees(gop) /\ Bounded(gop)
      /\ tail \in Seq(Arrivals)
      /\ \A i \in 1 .. Len(gop.frames) : gop.frames[i].n = count - Len(gop.frames) + i
      /\ whole => /\ tail # <<>> /\ Fits(tail, gop.config)
                  /\ LastKey(gop.frames) # 0 /\ tail = From(gop.frames, LastKey(gop.frames))
  BY DEF CacheInv
<1>2. gop.frames \in Seq(Arrivals) /\ gop.config \in GopConfigs /\ gop.config.maxBytes \in Nat
      /\ Len(gop.frames) \in Nat
  <2>1. gop.frames \in Seq(Arrivals) /\ gop.config \in GopConfigs
    BY <1>1 DEF Cache
  <2> QED BY <2>1, BuffersAssumption
<1>3. ASSUME NEW kind \in Kinds, push(kind)
      PROVE  CacheInv'
  <2> DEFINE f == Pushed(kind, count + 1)
             s == Append(gop.frames, f)
  <2>1. count + 1 \in Nat
    BY <1>1
  <2>2. f \in Arrivals /\ f.kind = kind /\ f.n = count + 1
    BY <2>1, ArrivalType
  <2>3. /\ count' = count + 1 /\ gop' = gopPush(gop, f)
        /\ tail' = IF kind = "keyframe" THEN <<f>> ELSE IF tail = <<>> THEN <<>> ELSE Append(tail, f)
        /\ whole' = ((kind = "keyframe" \/ whole) /\ Fits(tail', gop.config))
    BY <1>3 DEF push
  <2> HIDE DEF f
  <2>4. /\ s \in Seq(Arrivals) /\ Len(s) = Len(gop.frames) + 1 /\ s[Len(gop.frames) + 1] = f
        /\ \A i \in 1 .. Len(gop.frames) : s[i] = gop.frames[i]
    BY <1>2, <2>2
  <2>5. PICK b \in 1 .. Len(s) + 1 :
          /\ gop' \in Cache(Arrivals, GopConfigs) /\ Agrees(gop')
          /\ gop'.frames = From(s, b) /\ gop'.config = gop.config
          /\ LastKey(s) \in 1 .. b - 1 => Bytes(From(s, LastKey(s))) > gop.config.maxBytes
          /\ Bounded(gop')
    BY <1>1, <1>2, <2>2, <2>3, PushIs
  <2>6. LastKey(s) = IF kind = "keyframe" THEN Len(gop.frames) + 1 ELSE LastKey(gop.frames)
    BY <1>2, <2>2, LastKeyOfAppend
  <2> HIDE DEF s
  <2>7. \A i \in 1 .. Len(s) : s[i].n = (count + 1) - Len(s) + i
    <3> TAKE i \in 1 .. Len(s)
    <3>1. i \in 1 .. Len(gop.frames) \/ i = Len(gop.frames) + 1
      BY <1>2, <2>4
    <3>2. CASE i \in 1 .. Len(gop.frames)
      <4>1. s[i].n = count - Len(gop.frames) + i
        BY <1>1, <2>4, <3>2
      <4> QED BY <1>1, <1>2, <2>4, <4>1
    <3>3. CASE i = Len(gop.frames) + 1
      <4>1. s[i].n = count + 1
        BY <2>2, <2>4, <3>3
      <4>2. Len(s) = i /\ i \in Int
        BY <1>2, <2>4, <3>3
      <4>3. (count + 1) - i + i = count + 1
        BY <2>1, <4>2
      <4> QED BY <4>1, <4>2, <4>3
    <3> QED BY <3>1, <3>2, <3>3
  <2>8. \A i \in 1 .. Len(gop'.frames) : gop'.frames[i].n = count' - Len(gop'.frames) + i
    <3> DEFINE c == count + 1
    <3>1. c \in Nat
      BY <2>1
    <3>2. count' = c
      BY <2>3
    <3>3. \A i \in 1 .. Len(s) : s[i].n = c - Len(s) + i
      BY <2>7
    <3> HIDE DEF c
    <3>4. \A i \in 1 .. Len(From(s, b)) : From(s, b)[i].n = c - Len(From(s, b)) + i
      BY <2>4, <3>1, <3>3, NumbersOfCut
    <3> QED BY <2>5, <3>2, <3>4
  <2>9. tail' \in Seq(Arrivals)
    BY <1>1, <2>2, <2>3
  <2>10. ASSUME whole'
         PROVE  tail' # <<>> /\ LastKey(s) # 0 /\ tail' = From(s, LastKey(s))
    <3>1. CASE kind = "keyframe"
      <4> DEFINE n == Len(gop.frames) + 1
      <4>1. n \in 1 .. Len(s) + 1 /\ Len(s) + 1 - n = 1 /\ n # 0 /\ n + 1 - 1 = n
        BY <1>2, <2>4
      <4>2. From(s, n) \in Seq(Arrivals) /\ Len(From(s, n)) = 1 /\ From(s, n)[1] = s[n + 1 - 1]
        <5> HIDE DEF n
        <5>1. 1 \in 1 .. 1
          OBVIOUS
        <5>2. /\ From(s, n) \in Seq(Arrivals) /\ Len(From(s, n)) = Len(s) + 1 - n
              /\ \A i \in 1 .. Len(s) + 1 - n : From(s, n)[i] = s[n + i - 1]
          BY <2>4, <4>1, FromIs
        <5> QED BY <4>1, <5>1, <5>2
      <4>3. From(s, n)[1] = f
        BY <2>4, <4>1, <4>2
      <4> HIDE DEF n
      <4>4. From(s, n) = <<f>>
        <5>1. <<f>> \in Seq(Arrivals) /\ Len(<<f>>) = 1 /\ <<f>>[1] = f
          BY <2>2
        <5>2. \A i \in 1 .. 1 : From(s, n)[i] = <<f>>[i]
          BY <4>3, <5>1
        <5> QED BY <4>2, <5>1, <5>2, SeqEqual
      <4>5. LastKey(s) = n /\ tail' = <<f>>
        BY <2>3, <2>6, <3>1 DEF n
      <4> QED BY <4>1, <4>4, <4>5
    <3>2. CASE kind # "keyframe"
      <4> DEFINE k == LastKey(gop.frames)
      <4>1. tail # <<>> /\ k # 0 /\ tail = From(gop.frames, k) /\ LastKey(s) = k /\ tail' = Append(tail, f)
        BY <1>1, <2>3, <2>6, <2>10, <3>2
      <4>2. k \in 1 .. Len(gop.frames) + 1
        <5>1. k \in 0 .. Len(gop.frames)
          BY <1>2, LastKeyIs
        <5> QED BY <1>2, <4>1, <5>1
      <4> HIDE DEF k
      <4>3. From(s, k) = Append(From(gop.frames, k), f)
        BY <1>2, <2>2, <4>2, CutOfAppend DEF s
      <4>4. tail' # <<>>
        BY <1>1, <2>2, <4>1
      <4> QED BY <4>1, <4>3, <4>4
    <3> QED BY <3>1, <3>2
  <2>11. ASSUME whole'
         PROVE  /\ tail' # <<>> /\ Fits(tail', gop'.config)
                /\ LastKey(gop'.frames) # 0 /\ tail' = From(gop'.frames, LastKey(gop'.frames))
    <3>1. Fits(tail', gop.config)
      BY <2>3, <2>11
    <3>2. Bytes(From(s, LastKey(s))) <= gop.config.maxBytes
      BY <2>10, <2>11, <3>1 DEF Fits
    <3> QED BY <1>2, <2>4, <2>5, <2>10, <2>11, <3>1, <3>2, GroupKept
  <2> QED BY <2>1, <2>3, <2>5, <2>8, <2>9, <2>11 DEF CacheInv
<1>4. ASSUME NEW config \in GopConfigs, setGopConfig(config)
      PROVE  CacheInv'
  <2> DEFINE s == gop.frames
  <2>1. config.maxBytes \in Nat
    BY BuffersAssumption
  <2>2. gop' = gopSetConfig(gop, config) /\ whole' = (whole /\ Fits(tail, config)) /\ UNCHANGED <<count, tail>>
    BY <1>4 DEF setGopConfig
  <2>3. PICK b \in 1 .. Len(s) + 1 :
          /\ gop' \in Cache(Arrivals, GopConfigs) /\ Agrees(gop')
          /\ gop'.frames = From(s, b) /\ gop'.config = config
          /\ LastKey(s) \in 1 .. b - 1 => Bytes(From(s, LastKey(s))) > config.maxBytes
          /\ Bounded(gop')
    <3>1. \E b \in 1 .. Len(gop.frames) + 1 :
            /\ gopSetConfig(gop, config) \in Cache(Arrivals, GopConfigs) /\ Agrees(gopSetConfig(gop, config))
            /\ gopSetConfig(gop, config).frames = From(gop.frames, b)
            /\ gopSetConfig(gop, config).config = config
            /\ LastKey(gop.frames) \in 1 .. b - 1 =>
                 Bytes(From(gop.frames, LastKey(gop.frames))) > config.maxBytes
            /\ Bounded(gopSetConfig(gop, config))
      BY <1>1, <2>1, SetConfigIs
    <3> QED BY <2>2, <3>1
  <2>4. \A i \in 1 .. Len(gop'.frames) : gop'.frames[i].n = count' - Len(gop'.frames) + i
    <3> HIDE DEF s
    <3>1. s \in Seq(Arrivals) /\ \A i \in 1 .. Len(s) : s[i].n = count - Len(s) + i
      BY <1>1, <1>2 DEF s
    <3>2. \A i \in 1 .. Len(From(s, b)) : From(s, b)[i].n = count - Len(From(s, b)) + i
      BY <1>1, <3>1, NumbersOfCut
    <3> QED BY <2>2, <2>3, <3>2
  <2>5. ASSUME whole'
        PROVE  /\ tail' # <<>> /\ Fits(tail', gop'.config)
               /\ LastKey(gop'.frames) # 0 /\ tail' = From(gop'.frames, LastKey(gop'.frames))
    <3>1. whole /\ Fits(tail, config) /\ LastKey(s) # 0 /\ tail = From(s, LastKey(s)) /\ tail # <<>>
      BY <1>1, <2>2, <2>5
    <3>2. Bytes(From(s, LastKey(s))) <= config.maxBytes
      BY <3>1 DEF Fits
    <3> HIDE DEF s
    <3>3. s \in Seq(Arrivals)
      BY <1>2 DEF s
    <3> QED BY <2>1, <2>2, <2>3, <3>1, <3>2, <3>3, GroupKept
  <2> QED BY <1>1, <2>2, <2>3, <2>4, <2>5 DEF CacheInv
<1>5. CASE clearGop
  <2>1. whole' = FALSE /\ UNCHANGED <<count, tail>> /\ gop' \in {gopClear(gop), gopReset(gop)}
    BY <1>5 DEF clearGop
  <2>2. Keyframes(<<>>) = {} /\ Bytes(<<>>) = 0 /\ LastKey(<<>>) = 0
    <3>1. Keyframes(<<>>) = {} /\ Cardinality({}) = 0 /\ Len(<<>>) = 0
      BY FS_EmptySet DEF Keyframes
    <3>2. Bytes(<<>>) = 0
      BY <3>1 DEF Bytes
    <3> QED BY <3>1, <3>2 DEF LastKey
  <2>3. <<>> \in Seq(Arrivals) /\ \A i \in 1 .. Len(<<>>) : FALSE
    OBVIOUS
  <2>4. /\ gop' \in Cache(Arrivals, GopConfigs)
        /\ gop'.frames = <<>> /\ gop'.bytes = 0 /\ gop'.lastKeyframe = 0 /\ gop'.config = gop.config
    <3>1. CASE gop' = gopClear(gop)
      BY <1>1, <2>3, <3>1 DEF gopClear, Cache
    <3>2. CASE gop' = gopReset(gop)
      BY <1>2, <2>3, <3>2, NewCache DEF gopReset, NewGOPBuffer
    <3> QED BY <2>1, <3>1, <3>2
  <2>5. Agrees(gop') /\ Bounded(gop')
    BY <1>2, <2>2, <2>4 DEF Agrees, Bounded
  <2> QED BY <1>1, <2>1, <2>3, <2>4, <2>5 DEF CacheInv
<1>6. CASE UNCHANGED <<gop, count, tail, whole>>
  BY <1>6 DEF CacheInv
<1>7. ASSUME pop \/ clearSubscriber \/ resetStatistics \/ resetSubscriber
             \/ \E config \in SubConfigs : setSubscriberConfig(config)
      PROVE  UNCHANGED <<gop, count, tail, whole>>
  BY <1>7 DEF pop, clearSubscriber, resetStatistics, resetSubscriber, setSubscriberConfig
<1> QED BY <1>3, <1>4, <1>5, <1>6, <1>7 DEF BuffersNext

\* An empty cache satisfies it.
LEMMA CacheStart ==
  ASSUME BuffersInit
  PROVE  CacheInv
<1>1. PICK c \in GopConfigs : gop = NewGOPBuffer(c)
  BY DEF BuffersInit
<1>2. /\ gop \in Cache(Arrivals, GopConfigs) /\ Agrees(gop) /\ gop.frames = <<>> /\ gop.bytes = 0
      /\ gop.config = c
  BY <1>1, NewCache
<1>3. c.maxBytes \in Nat
  BY BuffersAssumption
<1>4. <<>> \in Seq(Arrivals) /\ \A i \in 1 .. Len(<<>>) : FALSE
  OBVIOUS
<1>5. Bounded(gop)
  BY <1>2, <1>3 DEF Bounded
<1>6. count = 0 /\ tail = <<>> /\ whole = FALSE
  BY DEF BuffersInit
<1> QED BY <1>2, <1>4, <1>5, <1>6 DEF CacheInv

\* The invariant says what CacheSound asks for.
LEMMA CacheFollows ==
  ASSUME CacheInv
  PROVE  CacheHoldsLatestGop /\ CacheBounded
<1> DEFINE k == LastKey(gop.frames)
           s == getFromLastKeyframe(gop)
<1>1. /\ gop.frames \in Seq(Arrivals) /\ gop \in Cache(Arrivals, GopConfigs) /\ Agrees(gop) /\ Bounded(gop)
      /\ count \in Nat /\ Len(gop.frames) \in Nat
      /\ \A i \in 1 .. Len(gop.frames) : gop.frames[i].n = count - Len(gop.frames) + i
  BY DEF CacheInv, Cache
<1>2. s = IF k = 0 THEN <<>> ELSE From(gop.frames, k)
  BY <1>1, CopyIs
<1>3. k \in 0 .. Len(gop.frames) /\ (k # 0 => k \in Keyframes(gop.frames))
  BY <1>1, LastKeyIs
<1>4. whole => s = tail
  BY <1>2 DEF CacheInv
<1>5. ASSUME s # <<>>
      PROVE  s[1].kind = "keyframe" /\ (\A i \in 1 .. Len(s) - 1 : s[i + 1].n = s[i].n + 1) /\ Last(s).n = count
  <2> HIDE DEF k
  <2>1. k # 0 /\ s = From(gop.frames, k) /\ k \in 1 .. Len(gop.frames) + 1 /\ k \in 1 .. Len(gop.frames)
    BY <1>1, <1>2, <1>3, <1>5
  <2>2. /\ Len(s) = Len(gop.frames) + 1 - k
        /\ \A i \in 1 .. Len(gop.frames) + 1 - k : s[i] = gop.frames[k + i - 1]
    <3>1. /\ Len(From(gop.frames, k)) = Len(gop.frames) + 1 - k
          /\ \A i \in 1 .. Len(gop.frames) + 1 - k : From(gop.frames, k)[i] = gop.frames[k + i - 1]
      BY <1>1, <2>1, FromIs
    <3> QED BY <2>1, <3>1
  <2>3. \A i \in 1 .. Len(s) : s[i].n = count - Len(s) + i
    <3>1. \A i \in 1 .. Len(From(gop.frames, k)) :
            From(gop.frames, k)[i].n = count - Len(From(gop.frames, k)) + i
      BY <1>1, <2>1, NumbersOfCut
    <3> HIDE DEF s
    <3> QED BY <2>1, <3>1
  <2> HIDE DEF s
  <2>4. Len(s) \in Nat /\ Len(s) \in 1 .. Len(s) /\ 1 \in 1 .. Len(gop.frames) + 1 - k /\ k + 1 - 1 = k
    BY <1>1, <2>1, <2>2
  <2>5. s[1].kind = "keyframe"
    BY <1>3, <2>1, <2>2, <2>4 DEF Keyframes
  <2>6. \A i \in 1 .. Len(s) - 1 : s[i + 1].n = s[i].n + 1
    <3> TAKE i \in 1 .. Len(s) - 1
    <3>1. i \in 1 .. Len(s) /\ i + 1 \in 1 .. Len(s)
      BY <2>4
    <3>2. s[i].n = count - Len(s) + i /\ s[i + 1].n = count - Len(s) + (i + 1)
      BY <2>3, <3>1
    <3> QED BY <1>1, <2>4, <3>2
  <2>7. Last(s).n = count
    <3>1. s[Len(s)].n = count - Len(s) + Len(s)
      BY <2>3, <2>4
    <3> QED BY <1>1, <2>4, <3>1 DEF Last
  <2> QED BY <2>5, <2>6, <2>7
<1>6. CacheHoldsLatestGop
  BY <1>4, <1>5 DEF CacheHoldsLatestGop
<1>7. gop.bytes = Bytes(gop.frames)
  BY <1>1 DEF Agrees
<1>8. gop.bytes <= gop.config.maxBytes \/ ~ Fits(s, gop.config)
  <2>1. CASE k # 0 /\ Bytes(From(gop.frames, k)) > gop.config.maxBytes
    <3>1. gop.config.maxBytes \in Nat
      BY <1>1, BuffersAssumption DEF Cache
    <3>2. k \in 1 .. Len(gop.frames) + 1
      BY <1>1, <1>3, <2>1
    <3>3. Bytes(From(gop.frames, k)) \in Nat
      BY <1>1, <3>2, BytesOfCut
    <3> DEFINE m == Bytes(From(gop.frames, k))
    <3> HIDE DEF m
    <3>4. m > gop.config.maxBytes /\ m \in Nat
      BY <2>1, <3>3 DEF m
    <3>5. ~ (m <= gop.config.maxBytes)
      BY <3>1, <3>4
    <3>6. Bytes(s) = m
      BY <1>2, <2>1 DEF m
    <3> HIDE DEF s
    <3> QED BY <3>5, <3>6 DEF Fits
  <2> QED BY <1>1, <2>1 DEF Bounded
<1> QED BY <1>6, <1>7, <1>8 DEF CacheBounded

-----------------------------------------------------------------------------
(* MediaBuffers: the queue *)

\* Taking positions out of a sequence: the others stay, in order.
LEMMA WithoutIs ==
  ASSUME NEW F, NEW s \in Seq(F), NEW I
  PROVE  /\ Without(s, I) \in Seq(F)
         /\ IsFiniteSet((1 .. Len(s)) \ I) /\ Len(Without(s, I)) = Cardinality((1 .. Len(s)) \ I)
         /\ \E p \in Bijection(1 .. Len(Without(s, I)), (1 .. Len(s)) \ I) :
              /\ \A j \in 1 .. Len(Without(s, I)) : Without(s, I)[j] = s[p[j]]
              /\ \A j, k \in 1 .. Len(Without(s, I)) : j < k => p[j] < p[k]
<1> DEFINE kept == (1 .. Len(s)) \ I
           Below(i) == {k \in kept : k <= i}
           Rank(i) == Cardinality(Below(i))
           n == Cardinality(kept)
           p == [j \in 1 .. n |-> CHOOSE i \in kept : Rank(i) = j]
<1>1. kept \subseteq Int /\ IsFiniteSet(kept) /\ n \in Nat /\ kept \subseteq 1 .. Len(s)
  <2>1. Len(s) \in Nat
    OBVIOUS
  <2>2. IsFiniteSet(1 .. Len(s))
    BY <2>1, FS_Interval
  <2> QED BY <2>2, FS_Subset, FS_CardinalityType
<1>0. \A i \in kept : i \in Int /\ i <= i
  <2> TAKE i \in kept
  <2>1. i \in 1 .. Len(s) /\ Len(s) \in Nat
    OBVIOUS
  <2> QED BY <2>1
<1> HIDE DEF kept
<1>2. \A i \in kept : IsFiniteSet(Below(i)) /\ Rank(i) \in 1 .. n
  <2> TAKE i \in kept
  <2>1. Below(i) \in SUBSET kept /\ i \in Below(i)
    BY <1>0
  <2>2. IsFiniteSet(Below(i)) /\ Rank(i) \in Nat /\ Rank(i) <= n
    <3> HIDE DEF Below
    <3> QED BY <1>1, <2>1, FS_Subset, FS_CardinalityType
  <2>3. Rank(i) # 0
    <3> HIDE DEF Below
    <3> QED BY <2>1, <2>2, FS_EmptySet
  <2> QED BY <1>1, <2>2, <2>3
<1>3. \A i, k \in kept : i < k => Rank(i) < Rank(k)
  <2> SUFFICES ASSUME NEW i \in kept, NEW k \in kept, i < k
               PROVE  Rank(i) < Rank(k)
    OBVIOUS
  <2>1. Below(i) \subseteq Below(k) /\ k \in Below(k) /\ k \notin Below(i)
    <3>1. \A x \in kept : x \in Int
      BY <1>0
    <3>2. \A x \in kept : x <= i => x <= k /\ x # k
      BY <3>1
    <3>3. k <= k
      BY <1>0
    <3> QED BY <3>2, <3>3
  <2> HIDE DEF Below
  <2>2. IsFiniteSet(Below(k)) /\ Rank(i) \in Nat /\ Rank(k) \in Nat
    BY <1>2
  <2>3. Rank(i) <= Rank(k) /\ Rank(i) # Rank(k)
    BY <2>1, <2>2, FS_Subset
  <2> QED BY <2>2, <2>3
<1> HIDE DEF Rank
<1>4. \A j \in 1 .. n : \E i \in kept : Rank(i) = j
  <2> DEFINE f == [i \in kept |-> Rank(i)]
  <2>1. f \in [kept -> 1 .. n] /\ \A i \in kept : f[i] = Rank(i)
    BY <1>2
  <2> HIDE DEF f
  <2>2. \A i, k \in kept : f[i] = f[k] => i = k
    <3> SUFFICES ASSUME NEW i \in kept, NEW k \in kept, Rank(i) = Rank(k)
                 PROVE  i = k
      BY <2>1
    <3>1. Rank(i) \in Int /\ Rank(k) \in Int /\ i \in Int /\ k \in Int
      <4> HIDE DEF n
      <4>1. Rank(i) \in 1 .. n /\ Rank(k) \in 1 .. n
        BY <1>2
      <4> QED BY <1>1, <4>1
    <3>2. ~ (i < k) /\ ~ (k < i)
      BY <1>3, <3>1
    <3> QED BY <3>1, <3>2
  <2>3. f \in Injection(kept, 1 .. n)
    BY <2>1, <2>2 DEF Injection, IsInjective
  <2>4. IsFiniteSet(1 .. n) /\ Cardinality(1 .. n) = n
    <3>1. ASSUME NEW m \in Nat PROVE IsFiniteSet(1 .. m) /\ Cardinality(1 .. m) = m
      <4>1. 1 \in Int /\ m \in Int /\ (IF 1 > m THEN 0 ELSE m - 1 + 1) = m
        OBVIOUS
      <4> QED BY <4>1, FS_Interval
    <3>2. n \in Nat
      BY <1>1
    <3> HIDE DEF n
    <3> QED BY <3>1, <3>2
  <2>5. f \in Surjection(kept, 1 .. n)
    <3> DEFINE T == 1 .. n
    <3>1. IsFiniteSet(T) /\ Cardinality(T) = Cardinality(kept)
      BY <2>4
    <3> HIDE DEF T, n
    <3>2. f \in Injection(kept, T)
      BY <2>3 DEF T
    <3>3. f \in Surjection(kept, T)
      BY <3>1, <3>2, FS_Injection
    <3> QED BY <3>3 DEF T
  <2> QED BY <2>1, <2>5 DEF Surjection
<1>5. \A j \in 1 .. n : p[j] \in kept /\ Rank(p[j]) = j
  BY <1>4
<1>6. p \in [1 .. n -> kept]
  BY <1>5
<1>7. Without(s, I) = [j \in 1 .. n |-> s[p[j]]]
  BY DEF Without, Rank, kept
<1> HIDE DEF p
<1>8. \A j, k \in 1 .. n : j < k => p[j] < p[k]
  <2> SUFFICES ASSUME NEW j \in 1 .. n, NEW k \in 1 .. n, j < k, ~ (p[j] < p[k])
               PROVE  FALSE
    OBVIOUS
  <2>1. p[j] \in kept /\ p[k] \in kept /\ p[j] \in Int /\ p[k] \in Int /\ Rank(p[j]) = j /\ Rank(p[k]) = k
    BY <1>1, <1>5
  <2>2. p[k] < p[j] \/ p[k] = p[j]
    BY <2>1
  <2> QED BY <1>1, <1>3, <2>1, <2>2
<1>9. p \in Bijection(1 .. n, kept)
  <2>1. \A j, k \in 1 .. n : p[j] = p[k] => j = k
    BY <1>5
  <2>2. \A i \in kept : \E j \in 1 .. n : p[j] = i
    <3> TAKE i \in kept
    <3> DEFINE j == Rank(i)
    <3>1. j \in 1 .. n
      BY <1>2
    <3>2. p[j] \in kept /\ Rank(p[j]) = j
      BY <1>5, <3>1
    <3>3. i \in Int /\ p[j] \in Int /\ j \in Int
      <4> HIDE DEF j, n
      <4>1. i \in Int /\ p[j] \in Int
        BY <1>0, <3>2
      <4>2. j \in Int
        BY <1>1, <3>1
      <4> QED BY <4>1, <4>2
    <3>4. ~ (i < p[j]) /\ ~ (p[j] < i)
      BY <1>3, <3>2, <3>3
    <3> QED BY <3>1, <3>3, <3>4
  <2>3. p \in Injection(1 .. n, kept)
    BY <1>6, <2>1 DEF Injection, IsInjective
  <2>4. p \in Surjection(1 .. n, kept)
    BY <1>6, <2>2 DEF Surjection
  <2> QED BY <2>3, <2>4 DEF Bijection
<1>10. Without(s, I) \in Seq(F) /\ Len(Without(s, I)) = n
  <2>1. \A j \in 1 .. n : s[p[j]] \in F
    <3>1. \A i \in 1 .. Len(s) : s[i] \in F
      OBVIOUS
    <3> QED BY <1>1, <1>5, <3>1
  <2> QED BY <1>1, <1>7, <2>1
<1>11. \A j \in 1 .. n : Without(s, I)[j] = s[p[j]]
  BY <1>7
<1> HIDE DEF n
<1>12. Len(Without(s, I)) = n
  BY <1>10
<1> QED BY <1>1, <1>8, <1>9, <1>10, <1>11, <1>12 DEF n, kept

\* Frames that are no keyframes are taken out: what is left and what is gone make up the whole.
LEMMA WithoutCounts ==
  ASSUME NEW F, NEW s \in Seq(F), NEW I \in SUBSET (1 .. Len(s)), I \cap Keyframes(s) = {}
  PROVE  /\ Cardinality(I) \in Nat /\ Cardinality(I) <= Len(s)
         /\ Without(s, I) \in Seq(F) /\ Len(Without(s, I)) = Len(s) - Cardinality(I)
         /\ Bytes(Without(s, I)) = Bytes(s) - Cardinality(I)
         /\ Only(s, I) \in Seq(F) /\ Len(Only(s, I)) = Cardinality(I) /\ Bytes(Only(s, I)) = Cardinality(I)
         /\ \A j \in 1 .. Len(Only(s, I)) : \E i \in I : Only(s, I)[j] = s[i]
<1> DEFINE P == 1 .. Len(s)
           t == Without(s, I)
           g == Only(s, I)
           c == Cardinality(I)
           n == Len(s)
<1>1. n \in Nat /\ IsFiniteSet(P) /\ Cardinality(P) = n
  <2>1. n \in Nat /\ 1 \in Int /\ n \in Int
    OBVIOUS
  <2>2. Cardinality(P) = IF 1 > n THEN 0 ELSE n - 1 + 1
    BY <2>1, FS_Interval
  <2>3. (IF 1 > n THEN 0 ELSE n - 1 + 1) = n
    BY <2>1
  <2> QED BY <2>1, <2>2, <2>3, FS_Interval
<1>2. IsFiniteSet(I) /\ c \in Nat /\ c <= n
  <2> HIDE DEF P
  <2>1. I \in SUBSET P
    BY DEF P
  <2>2. IsFiniteSet(I) /\ Cardinality(I) <= Cardinality(P)
    BY <1>1, <2>1, FS_Subset
  <2>3. Cardinality(I) \in Nat
    BY <2>2, FS_CardinalityType
  <2> QED BY <1>1, <2>2, <2>3
<1>3. Cardinality(P \ I) = n - c
  <2>1. P \cap I = I
    OBVIOUS
  <2> HIDE DEF P
  <2>2. Cardinality(P \ I) = Cardinality(P) - Cardinality(P \cap I)
    BY <1>1, FS_Difference
  <2> QED BY <1>1, <2>1, <2>2
<1>4. t \in Seq(F) /\ Len(t) = n - c
  <2>1. Without(s, I) \in Seq(F) /\ Len(Without(s, I)) = Cardinality((1 .. Len(s)) \ I)
    BY WithoutIs
  <2> QED BY <1>3, <2>1
<1>5. P \ (P \ I) = I
  OBVIOUS
<1>6. g \in Seq(F) /\ Len(g) = c /\ \A j \in 1 .. Len(g) : \E i \in I : g[j] = s[i]
  <2> DEFINE J == P \ I
             w == Without(s, J)
  <2>1. g = w
    BY DEF Only
  <2>2. P \ J = I
    BY <1>5
  <2> HIDE DEF J
  <2>3. /\ w \in Seq(F) /\ Len(w) = Cardinality(P \ J)
        /\ \E p \in Bijection(1 .. Len(w), P \ J) :
             /\ \A j \in 1 .. Len(w) : w[j] = s[p[j]]
             /\ \A j, k \in 1 .. Len(w) : j < k => p[j] < p[k]
    BY WithoutIs
  <2> HIDE DEF w
  <2>4. PICK p \in Bijection(1 .. Len(w), I) : \A j \in 1 .. Len(w) : w[j] = s[p[j]]
    BY <2>2, <2>3
  <2>5. \A j \in 1 .. Len(w) : p[j] \in I
    BY <2>4 DEF Bijection, Injection
  <2> QED BY <2>1, <2>2, <2>3, <2>4, <2>5
<1>7. Keyframes(g) = {}
  <2> HIDE DEF g
  <2>1. \A i \in I : s[i].kind # "keyframe"
    BY DEF Keyframes
  <2> QED BY <1>6, <2>1 DEF Keyframes
<1>8. Bytes(g) = c
  <2>1. Cardinality({}) = 0
    BY FS_EmptySet
  <2> QED BY <1>2, <1>6, <1>7, <2>1 DEF Bytes
<1>9. Cardinality(Keyframes(t)) = Cardinality(Keyframes(s))
  <2>1. /\ Len(t) \in Nat
        /\ \E p \in Bijection(1 .. Len(t), P \ I) :
             /\ \A j \in 1 .. Len(t) : t[j] = s[p[j]]
             /\ \A j, k \in 1 .. Len(t) : j < k => p[j] < p[k]
    <3>1. Len(Without(s, I)) \in Nat
      BY <1>4
    <3> QED BY <3>1, WithoutIs
  <2>2. t \in Seq(F)
    BY <1>4
  <2> HIDE DEF t
  <2>3. PICK p \in Bijection(1 .. Len(t), P \ I) : \A j \in 1 .. Len(t) : t[j] = s[p[j]]
    BY <2>1
  <2>4. /\ p \in [1 .. Len(t) -> P \ I] /\ \A j, k \in 1 .. Len(t) : p[j] = p[k] => j = k
        /\ \A i \in P \ I : \E j \in 1 .. Len(t) : p[j] = i
    BY DEF Bijection, Injection, IsInjective, Surjection
  <2> DEFINE q == [j \in Keyframes(t) |-> p[j]]
  <2>5. Keyframes(t) = {j \in 1 .. Len(t) : p[j] \in Keyframes(s)}
    <3>1. \A j \in 1 .. Len(t) : p[j] \in P /\ t[j] = s[p[j]]
      BY <2>3, <2>4
    <3> QED BY <3>1 DEF Keyframes
  <2>6. Keyframes(s) \subseteq P \ I
    BY DEF Keyframes
  <2>7. q \in [Keyframes(t) -> Keyframes(s)] /\ \A j \in Keyframes(t) : q[j] = p[j]
    BY <2>5
  <2> HIDE DEF q, P
  <2>8. q \in Injection(Keyframes(t), Keyframes(s))
    BY <2>4, <2>5, <2>7 DEF Injection, IsInjective
  <2>9. q \in Surjection(Keyframes(t), Keyframes(s))
    <3>1. \A i \in Keyframes(s) : \E j \in Keyframes(t) : q[j] = i
      BY <2>4, <2>5, <2>6, <2>7
    <3> QED BY <2>7, <3>1 DEF Surjection
  <2>10. q \in Bijection(Keyframes(t), Keyframes(s))
    BY <2>8, <2>9 DEF Bijection
  <2> QED BY <2>2, <2>10, KeyframesFinite, FS_Bijection DEF ExistsBijection
<1>10. Bytes(t) = Bytes(s) - c
  <2>1. Cardinality(Keyframes(s)) \in Nat
    BY KeyframesFinite
  <2> HIDE DEF t, c
  <2>2. Bytes(t) = Len(t) + Cardinality(Keyframes(t)) /\ Bytes(s) = n + Cardinality(Keyframes(s))
    BY DEF Bytes
  <2> DEFINE ks == Cardinality(Keyframes(s))
  <2>3. Bytes(t) = (n - c) + ks /\ Bytes(s) = n + ks /\ ks \in Nat
    BY <1>4, <1>9, <2>1, <2>2
  <2> HIDE DEF ks, n
  <2> QED BY <1>1, <1>2, <2>3
<1> QED BY <1>2, <1>4, <1>6, <1>8, <1>10

\* Frames of two kinds, counted by kind.
LEMMA TwoKinds ==
  ASSUME NEW F, NEW t \in Seq(F), \A j \in 1 .. Len(t) : t[j].kind \in {"inter", "audio"}
  PROVE  /\ \A k : Cardinality({j \in 1 .. Len(t) : t[j].kind = k}) \in Nat
         /\ Cardinality({j \in 1 .. Len(t) : t[j].kind = "inter"})
              + Cardinality({j \in 1 .. Len(t) : t[j].kind = "audio"}) = Len(t)
<1> DEFINE P == 1 .. Len(t)
           Of(k) == {j \in P : t[j].kind = k}
<1>1. Len(t) \in Nat /\ IsFiniteSet(P) /\ Cardinality(P) = Len(t)
  <2> DEFINE n == Len(t)
  <2>1. n \in Nat /\ 1 \in Int /\ n \in Int
    OBVIOUS
  <2> HIDE DEF n
  <2>2. Cardinality(1 .. n) = IF 1 > n THEN 0 ELSE n - 1 + 1
    BY <2>1, FS_Interval
  <2>3. (IF 1 > n THEN 0 ELSE n - 1 + 1) = n
    BY <2>1
  <2>4. IsFiniteSet(1 .. n)
    BY <2>1, FS_Interval
  <2> QED BY <2>1, <2>2, <2>3, <2>4 DEF n
<1>2. \A k : Of(k) \in SUBSET P
  OBVIOUS
<1>3. Of("inter") \cup Of("audio") = P /\ Of("inter") \cap Of("audio") = {}
  OBVIOUS
<1> HIDE DEF Of, P
<1>4. \A k : IsFiniteSet(Of(k)) /\ Cardinality(Of(k)) \in Nat
  BY <1>1, <1>2, FS_Subset, FS_CardinalityType
<1>5. Cardinality(Of("inter")) + Cardinality(Of("audio")) = Len(t)
  <2>1. Cardinality({}) = 0
    BY FS_EmptySet
  <2>2. Cardinality(Of("inter") \cup Of("audio"))
          = Cardinality(Of("inter")) + Cardinality(Of("audio")) - Cardinality(Of("inter") \cap Of("audio"))
    BY <1>4, FS_Union
  <2>3. Cardinality(Of("inter")) \in Nat /\ Cardinality(Of("audio")) \in Nat
    BY <1>4
  <2> DEFINE a == Cardinality(Of("inter"))
             b == Cardinality(Of("audio"))
  <2>4. Len(t) = a + b - 0 /\ a \in Nat /\ b \in Nat
    BY <1>1, <1>3, <2>1, <2>2, <2>3
  <2> HIDE DEF a, b
  <2>5. a + b = Len(t)
    BY <2>4
  <2> QED BY <2>5 DEF a, b
<1> QED BY <1>4, <1>5 DEF Of, P

\* The times of a sequence's frames.
LEMMA TimesFinite ==
  ASSUME NEW s \in Seq(Arrivals)
  PROVE  IsFiniteSet(Times(s)) /\ Times(s) \subseteq Int /\ (s # <<>> => Times(s) # {})
<1> DEFINE P == 1 .. Len(s)
           T == {s[i].time : i \in P}
           f == [i \in P |-> s[i].time]
<1>1. Len(s) \in Nat /\ IsFiniteSet(P) /\ \A i \in P : s[i] \in Arrivals
  <2>1. Len(s) \in Nat
    OBVIOUS
  <2>2. \A i \in P : s[i] \in Arrivals
    OBVIOUS
  <2> QED BY <2>1, <2>2, FS_Interval
<1>2. \A i \in P : s[i].time \in Nat
  BY <1>1 DEF Arrivals
<1>3. T \subseteq Int
  BY <1>2
<1>4. f \in Surjection(P, T)
  <2>1. f \in [P -> T] /\ \A i \in P : f[i] = s[i].time
    OBVIOUS
  <2>2. \A x \in T : \E i \in P : x = s[i].time
    OBVIOUS
  <2> HIDE DEF f, T
  <2>3. \A x \in T : \E i \in P : f[i] = x
    BY <2>1, <2>2
  <2> QED BY <2>1, <2>3 DEF Surjection
<1>5. IsFiniteSet(T)
  <2> HIDE DEF f, T, P
  <2> QED BY <1>1, <1>4, FS_Surjection
<1>6. s # <<>> => T # {}
  <2>1. s # <<>> => Len(s) # 0
    BY EmptySeq
  <2>2. s # <<>> => 1 \in P
    BY <1>1, <2>1
  <2> QED BY <2>2
<1> QED BY <1>3, <1>5, <1>6 DEF Times

\* Fewer times, no longer duration.
LEMMA DurationOfPart ==
  ASSUME NEW s \in Seq(Arrivals), NEW t \in Seq(Arrivals), Times(t) \subseteq Times(s)
  PROVE  Duration(t) \in Nat /\ Duration(s) \in Nat /\ Duration(t) <= Duration(s)
<1>1. ASSUME NEW q \in Seq(Arrivals), q # <<>>
      PROVE  /\ Max(Times(q)) \in Times(q) /\ \A y \in Times(q) : y <= Max(Times(q))
             /\ Min(Times(q)) \in Times(q) /\ \A y \in Times(q) : Min(Times(q)) <= y
             /\ Max(Times(q)) \in Int /\ Min(Times(q)) \in Int
             /\ Duration(q) = Max(Times(q)) - Min(Times(q)) /\ Duration(q) \in Nat
  <2> DEFINE T == Times(q)
  <2>1. IsFiniteSet(T) /\ T \subseteq Int /\ T # {}
    BY <1>1, TimesFinite
  <2> HIDE DEF T
  <2>2. /\ Max(T) \in T /\ \A y \in T : y <= Max(T)
        /\ Min(T) \in T /\ \A y \in T : Min(T) <= y
    BY <2>1, FiniteExtremes
  <2>3. Max(T) \in Int /\ Min(T) \in Int
    BY <2>1, <2>2
  <2>4. Min(T) <= Max(T)
    BY <2>2
  <2>5. Max(T) - Min(T) \in Nat
    BY <2>3, <2>4
  <2>6. Duration(q) = Max(T) - Min(T)
    BY <1>1 DEF Duration, T
  <2> QED BY <2>2, <2>3, <2>5, <2>6 DEF T
<1>2. Duration(<<>>) = 0
  BY DEF Duration
<1>3. \A q \in Seq(Arrivals) : Duration(q) \in Nat
  BY <1>1, <1>2
<1>4. CASE t = <<>>
  <2>1. Duration(s) \in Nat /\ Duration(t) = 0
    BY <1>2, <1>3, <1>4
  <2> QED BY <2>1
<1>5. CASE t # <<>>
  <2>1. s # <<>>
    <3>1. Times(<<>>) = {}
      BY DEF Times
    <3> QED BY <1>5, <3>1, TimesFinite
  <2> DEFINE a == Max(Times(s))
             b == Min(Times(s))
             c == Max(Times(t))
             d == Min(Times(t))
  <2>2. c \in Times(s) /\ d \in Times(s)
    BY <1>1, <1>5
  <2>3. c <= a /\ b <= d
    BY <1>1, <2>1, <2>2
  <2>4. a \in Int /\ b \in Int /\ c \in Int /\ d \in Int
    BY <1>1, <1>5, <2>1
  <2>5. Duration(s) = a - b /\ Duration(t) = c - d
    BY <1>1, <1>5, <2>1
  <2> HIDE DEF a, b, c, d
  <2>6. c - d <= a - b
    BY <2>3, <2>4
  <2> QED BY <1>3, <2>5, <2>6
<1> QED BY <1>4, <1>5

\* What is left has times of the whole.
LEMMA TimesOfWithout ==
  ASSUME NEW s \in Seq(Arrivals), NEW I
  PROVE  Times(Without(s, I)) \subseteq Times(s)
<1>1. PICK p \in Bijection(1 .. Len(Without(s, I)), (1 .. Len(s)) \ I) :
              /\ \A j \in 1 .. Len(Without(s, I)) : Without(s, I)[j] = s[p[j]]
              /\ \A j, k \in 1 .. Len(Without(s, I)) : j < k => p[j] < p[k]
  BY WithoutIs
<1> DEFINE t == Without(s, I)
<1>2. \A j \in 1 .. Len(t) : p[j] \in 1 .. Len(s)
  BY DEF Bijection, Injection
<1>3. \A j \in 1 .. Len(t) : t[j].time = s[p[j]].time
  BY <1>1
<1> HIDE DEF t
<1>4. Times(t) \subseteq Times(s)
  BY <1>2, <1>3 DEF Times
<1> QED BY <1>4 DEF t

\* Taking nothing out.
LEMMA WithoutNothing ==
  ASSUME NEW s \in Seq(Arrivals)
  PROVE  Without(s, {}) = s
<1> DEFINE t == Without(s, {})
           n == Len(s)
<1>1. t \in Seq(Arrivals) /\ Len(t) = n /\ n \in Nat
  <2>1. {} \in SUBSET (1 .. Len(s)) /\ {} \cap Keyframes(s) = {} /\ Cardinality({}) = 0
    BY FS_EmptySet
  <2>2. Without(s, {}) \in Seq(Arrivals) /\ Len(Without(s, {})) = Len(s) - Cardinality({})
    BY <2>1, WithoutCounts
  <2> QED BY <2>1, <2>2
<1>2. PICK p \in Bijection(1 .. Len(t), (1 .. Len(s)) \ {}) :
              /\ \A j \in 1 .. Len(t) : t[j] = s[p[j]]
              /\ \A j, k \in 1 .. Len(t) : j < k => p[j] < p[k]
  BY WithoutIs
<1> HIDE DEF t
<1>3. /\ p \in [1 .. n -> 1 .. n] /\ \A j, k \in 1 .. n : j < k => p[j] < p[k]
      /\ \A j \in 1 .. n : t[j] = s[p[j]]
  <2>1. p \in [1 .. Len(t) -> (1 .. Len(s)) \ {}]
    BY <1>2 DEF Bijection, Injection
  <2>2. (1 .. Len(s)) \ {} = 1 .. n
    OBVIOUS
  <2> QED BY <1>1, <1>2, <2>1, <2>2
<1> HIDE DEF n
<1>4. \A j \in 1 .. n : j <= p[j]
  <2> DEFINE B == {j \in 1 .. n : p[j] < j}
  <2> SUFFICES ASSUME B # {} PROVE FALSE
    BY <1>1, <1>3
  <2>1. B \subseteq Nat
    BY <1>1
  <2>2. PICK j \in B : \A m \in B : j <= m
    <3> HIDE DEF B
    <3> QED BY <2>1, LeastNat
  <2>3. p[j] \in 1 .. n /\ p[j] < j /\ j \in 1 .. n
    BY <1>3
  <2>4. p[p[j]] < p[j]
    BY <1>3, <2>3
  <2>5. p[j] \in B
    BY <2>3, <2>4
  <2> QED BY <1>1, <2>2, <2>3, <2>5
<1>5. \A j \in 1 .. n : p[j] <= j
  <2> DEFINE B == {m \in 1 .. n : n - m + 1 \in 1 .. n /\ p[n - m + 1] > n - m + 1}
  <2> SUFFICES ASSUME NEW j \in 1 .. n, p[j] > j PROVE FALSE
    BY <1>1, <1>3
  <2>0. n - j + 1 \in 1 .. n /\ n - (n - j + 1) + 1 = j
    BY <1>1
  <2>1. B \subseteq Nat /\ n - j + 1 \in B
    BY <1>1, <2>0
  <2>2. PICK m \in B : \A k \in B : m <= k
    <3> HIDE DEF B
    <3> QED BY <2>1, LeastNat
  <2> DEFINE i == n - m + 1
             k == n - p[i] + 1
  <2>3. i \in 1 .. n /\ p[i] > i /\ p[i] \in 1 .. n /\ m \in 1 .. n
    BY <1>3
  <2>4. p[p[i]] > p[i]
    <3> HIDE DEF i
    <3> QED BY <1>1, <1>3, <2>3
  <2>5. k \in 1 .. n /\ n - k + 1 = p[i] /\ k < m
    <3> DEFINE q == p[i]
    <3>1. i \in 1 .. n /\ q > i /\ q \in 1 .. n /\ m \in 1 .. n /\ i = n - m + 1
      BY <2>3
    <3> HIDE DEF q, i
    <3>2. n - q + 1 \in 1 .. n /\ n - (n - q + 1) + 1 = q /\ n - q + 1 < m
      BY <1>1, <3>1
    <3> QED BY <3>2 DEF q
  <2> HIDE DEF k
  <2>6. k \in B
    BY <2>3, <2>4, <2>5
  <2> QED BY <1>1, <2>2, <2>3, <2>5, <2>6
<1>6. \A j \in 1 .. n : t[j] = s[j]
  <2> TAKE j \in 1 .. n
  <2>1. p[j] \in 1 .. n /\ j <= p[j] /\ p[j] <= j
    BY <1>3, <1>4, <1>5
  <2>2. p[j] = j
    BY <1>1, <2>1
  <2> QED BY <1>3, <2>2
<1>7. t = s
  <2>1. Len(s) = n /\ Len(t) = n
    BY <1>1 DEF n
  <2> QED BY <1>1, <1>6, <2>1, SeqEqual
<1> QED BY <1>7 DEF t

Queue(F, C) == [frames : Seq(F), bytes : Int, processed : Nat, dropped : [Kinds -> Nat], config : C]

DroppableIn(b) == {i \in 1 .. Len(b.frames) : Droppable(b.frames[i], b.config)}

\* A drop is counted under the frame's kind.
LEMMA RecordIs ==
  ASSUME NEW C, NEW b \in Queue(Arrivals, C), NEW s \in Seq(Arrivals),
         \A j \in 1 .. Len(s) : s[j].kind \in {"inter", "audio"}
  PROVE  /\ recordDroppedFrames(b, s) \in Queue(Arrivals, C)
         /\ recordDroppedFrames(b, s).frames = b.frames /\ recordDroppedFrames(b, s).bytes = b.bytes
         /\ recordDroppedFrames(b, s).config = b.config
         /\ recordDroppedFrames(b, s).processed = b.processed
         /\ recordDroppedFrames(b, s).dropped["inter"] + recordDroppedFrames(b, s).dropped["audio"]
              = b.dropped["inter"] + b.dropped["audio"] + Len(s)
<1> DEFINE N(k) == Cardinality({i \in 1 .. Len(s) : s[i].kind = k})
           D == [k \in Kinds |-> b.dropped[k] + N(k)]
           r == recordDroppedFrames(b, s)
<1>1. (\A k : N(k) \in Nat) /\ N("inter") + N("audio") = Len(s)
  BY TwoKinds
<1> HIDE DEF N
<1>2. b.dropped \in [Kinds -> Nat]
  BY DEF Queue
<1>3. D \in [Kinds -> Nat] /\ D["inter"] = b.dropped["inter"] + N("inter")
      /\ D["audio"] = b.dropped["audio"] + N("audio")
  <2>1. "inter" \in Kinds /\ "audio" \in Kinds
    BY DEF Kinds
  <2>2. \A k \in Kinds : b.dropped[k] + N(k) \in Nat
    BY <1>1, <1>2
  <2> QED BY <2>1, <2>2
<1>4. r = [b EXCEPT !.dropped = D]
  BY DEF recordDroppedFrames, N
<1> HIDE DEF D, r
<1>5. r \in Queue(Arrivals, C) /\ r.frames = b.frames /\ r.bytes = b.bytes /\ r.config = b.config
      /\ r.processed = b.processed /\ r.dropped = D
  BY <1>3, <1>4 DEF Queue
<1>6. D["inter"] + D["audio"] = b.dropped["inter"] + b.dropped["audio"] + Len(s)
  <2> DEFINE x == b.dropped["inter"]
             y == b.dropped["audio"]
             u == N("inter")
             v == N("audio")
  <2>1. x \in Nat /\ y \in Nat /\ u \in Nat /\ v \in Nat
    BY <1>1, <1>2 DEF Kinds
  <2>2. D["inter"] = x + u /\ D["audio"] = y + v /\ u + v = Len(s)
    BY <1>1, <1>3
  <2> HIDE DEF x, y, u, v
  <2>3. (x + u) + (y + v) = x + y + (u + v)
    BY <2>1
  <2>4. D["inter"] + D["audio"] = x + y + Len(s)
    BY <2>2, <2>3
  <2> QED BY <2>4 DEF x, y
<1> QED BY <1>5, <1>6 DEF r

\* SubscriberBuffer::enforceBufferLimit: droppable frames go, none if the limit is met, and all of
\* them if it is not met then; bytes and statistics follow.
LEMMA EnforceIs ==
  ASSUME NEW C, \A x \in C : x.maxDuration \in Nat, NEW b \in Queue(Arrivals, C), b.bytes = Bytes(b.frames)
  PROVE  \E I \in SUBSET DroppableIn(b) :
           LET c == enforceBufferLimit(b)
           IN  /\ c \in Queue(Arrivals, C) /\ c.bytes = Bytes(c.frames)
               /\ c.config = b.config /\ c.processed = b.processed
               /\ c.frames = Without(b.frames, I)
               /\ Duration(c.frames) <= c.config.maxDuration \/ I = DroppableIn(b)
               /\ Duration(b.frames) <= b.config.maxDuration => I = {}
               /\ Len(c.frames) + (c.dropped["inter"] + c.dropped["audio"])
                    = Len(b.frames) + (b.dropped["inter"] + b.dropped["audio"])
<1> DEFINE s == b.frames
           P == 1 .. Len(s)
           droppable == DroppableIn(b)
           max == b.config.maxDuration
           Oldest(k) == {i \in droppable : Cardinality({j \in droppable : j <= i}) <= k}
           n == Cardinality(droppable)
           enough == {k \in 0 .. n : Duration(Without(s, Oldest(k))) <= max}
           m == Min(enough \cup {n})
           I == Oldest(m)
           gone == Only(s, I)
           d == [b EXCEPT !.frames = Without(@, I), !.bytes = @ - Bytes(gone)]
           c == enforceBufferLimit(b)
<1>1. s \in Seq(Arrivals) /\ max \in Nat /\ b.config \in C /\ b.bytes \in Int
  BY DEF Queue
<1>2. droppable \subseteq P /\ IsFiniteSet(droppable) /\ n \in Nat
  <2>1. droppable \in SUBSET P /\ Len(s) \in Nat
    BY <1>1 DEF DroppableIn
  <2>2. IsFiniteSet(P)
    BY <2>1, FS_Interval
  <2>3. IsFiniteSet(droppable)
    BY <2>1, <2>2, FS_Subset
  <2> QED BY <2>1, <2>3, FS_CardinalityType
<1>3. \A i \in droppable : s[i].kind \in {"inter", "audio"}
  BY DEF DroppableIn, Droppable
<1>4. c = recordDroppedFrames(d, gone)
  BY DEF enforceBufferLimit, DroppableIn
<1> HIDE DEF droppable, P
<1>5. m \in enough \cup {n} /\ \A k \in enough \cup {n} : m <= k
  <2> DEFINE E == enough \cup {n}
  <2>1. E \in SUBSET (0 .. n) /\ E \subseteq Int /\ E # {}
    BY <1>2
  <2>2. IsFiniteSet(E)
    <3>1. IsFiniteSet(0 .. n)
      BY <1>2, FS_Interval
    <3> HIDE DEF E
    <3> QED BY <2>1, <3>1, FS_Subset
  <2> HIDE DEF E
  <2>3. Min(E) \in E /\ \A k \in E : Min(E) <= k
    BY <2>1, <2>2, FiniteExtremes
  <2> QED BY <2>3 DEF E
<1>6. \A i \in droppable : Cardinality({j \in droppable : j <= i}) \in 1 .. n
  <2> TAKE i \in droppable
  <2> DEFINE R == {j \in droppable : j <= i}
  <2>1. R \in SUBSET droppable /\ i \in R
    <3>1. i \in P /\ i <= i
      BY <1>1, <1>2 DEF P
    <3> QED BY <3>1
  <2> HIDE DEF R
  <2>2. IsFiniteSet(R) /\ Cardinality(R) <= n
    BY <1>2, <2>1, FS_Subset
  <2>3. Cardinality(R) \in Nat /\ Cardinality(R) # 0
    BY <2>1, <2>2, FS_CardinalityType, FS_EmptySet
  <2>4. Cardinality(R) \in 1 .. n
    BY <1>2, <2>2, <2>3
  <2> QED BY <2>4 DEF R
<1>7. Oldest(n) = droppable /\ Oldest(0) = {}
  <2> DEFINE R(i) == Cardinality({j \in droppable : j <= i})
  <2>1. \A i \in droppable : R(i) \in 1 .. n
    BY <1>6
  <2> HIDE DEF R, n
  <2>2. \A i \in droppable : R(i) <= n /\ ~ (R(i) <= 0)
    BY <1>2, <2>1
  <2> QED BY <2>2 DEF R
<1> HIDE DEF m
<1>8. I \subseteq droppable
  OBVIOUS
<1>9. Duration(Without(s, I)) <= max \/ I = droppable
  <2>1. CASE m \in enough
    BY <2>1
  <2>2. CASE m = n
    BY <1>7, <2>2
  <2> QED BY <1>5, <2>1, <2>2
<1>10. ASSUME Duration(s) <= max
       PROVE  I = {}
  <2>1. Without(s, Oldest(0)) = s
    BY <1>1, <1>7, WithoutNothing
  <2>2. 0 \in enough
    BY <1>2, <1>10, <2>1
  <2>3. m <= 0 /\ m \in 0 .. n
    BY <1>2, <1>5, <2>2
  <2>4. m = 0
    BY <1>2, <2>3
  <2> QED BY <1>7, <2>4
<1> HIDE DEF Oldest, enough, I
<1>11. /\ Without(s, I) \in Seq(Arrivals) /\ Cardinality(I) \in Nat
       /\ Len(Without(s, I)) = Len(s) - Cardinality(I)
       /\ Bytes(Without(s, I)) = Bytes(s) - Cardinality(I)
       /\ gone \in Seq(Arrivals) /\ Len(gone) = Cardinality(I) /\ Bytes(gone) = Cardinality(I)
       /\ \A j \in 1 .. Len(gone) : gone[j].kind \in {"inter", "audio"}
  <2>1. I \in SUBSET (1 .. Len(s)) /\ I \cap Keyframes(s) = {}
    BY <1>2, <1>3, <1>8 DEF P, Keyframes
  <2>2. /\ Without(s, I) \in Seq(Arrivals) /\ Cardinality(I) \in Nat
        /\ Len(Without(s, I)) = Len(s) - Cardinality(I)
        /\ Bytes(Without(s, I)) = Bytes(s) - Cardinality(I)
        /\ gone \in Seq(Arrivals) /\ Len(gone) = Cardinality(I) /\ Bytes(gone) = Cardinality(I)
        /\ \A j \in 1 .. Len(gone) : \E i \in I : gone[j] = s[i]
    <3> HIDE DEF s
    <3> QED BY <1>1, <2>1, WithoutCounts
  <2>3. \A j \in 1 .. Len(gone) : gone[j].kind \in {"inter", "audio"}
    <3> HIDE DEF gone
    <3> QED BY <1>3, <1>8, <2>2
  <2> HIDE DEF gone
  <2> QED BY <2>2, <2>3
<1> HIDE DEF gone
<1>12. d \in Queue(Arrivals, C) /\ d.frames = Without(s, I) /\ d.bytes = b.bytes - Bytes(gone)
       /\ d.config = b.config /\ d.processed = b.processed /\ d.dropped = b.dropped
  <2> DEFINE t == Without(s, I)
             y == b.bytes - Bytes(gone)
  <2>1. t \in Seq(Arrivals) /\ y \in Int
    BY <1>1, <1>11
  <2>2. d = [b EXCEPT !.frames = t, !.bytes = y]
    OBVIOUS
  <2> HIDE DEF t, y, d
  <2>3. d \in Queue(Arrivals, C) /\ d.frames = t /\ d.bytes = y
       /\ d.config = b.config /\ d.processed = b.processed /\ d.dropped = b.dropped
    BY <2>1, <2>2 DEF Queue
  <2> QED BY <2>3 DEF t, y
<1> HIDE DEF d, c
<1>13. /\ c \in Queue(Arrivals, C) /\ c.frames = d.frames /\ c.bytes = d.bytes /\ c.config = d.config
       /\ c.processed = d.processed
       /\ c.dropped["inter"] + c.dropped["audio"] = d.dropped["inter"] + d.dropped["audio"] + Len(gone)
  BY <1>4, <1>11, <1>12, RecordIs
<1>14. c.bytes = Bytes(c.frames)
  BY <1>11, <1>12, <1>13
<1>15. Len(c.frames) + (c.dropped["inter"] + c.dropped["audio"])
         = Len(b.frames) + (b.dropped["inter"] + b.dropped["audio"])
  <2> DEFINE x == b.dropped["inter"]
             y == b.dropped["audio"]
             u == Cardinality(I)
             v == Len(s)
  <2>1. x \in Nat /\ y \in Nat /\ u \in Nat /\ v \in Nat
    <3>1. b.dropped \in [Kinds -> Nat]
      BY DEF Queue
    <3> QED BY <1>1, <1>11, <3>1 DEF Kinds
  <2>2. c.dropped["inter"] + c.dropped["audio"] = x + y + u /\ Len(c.frames) = v - u
    BY <1>11, <1>12, <1>13
  <2> HIDE DEF x, y, u, v
  <2>3. (v - u) + (x + y + u) = v + (x + y)
    BY <2>1
  <2>4. Len(c.frames) + (c.dropped["inter"] + c.dropped["audio"]) = v + (x + y)
    BY <2>2, <2>3
  <2> QED BY <2>4 DEF x, y, v
<1>16. I \in SUBSET DroppableIn(b)
  BY <1>8 DEF droppable
<1> QED BY <1>9, <1>10, <1>12, <1>13, <1>14, <1>15, <1>16 DEF c, droppable

\* Numbered in order of publication, none above n.
Ordered(s, n) ==
  /\ \A i \in 1 .. Len(s) : s[i].n <= n
  /\ \A i, j \in 1 .. Len(s) : i < j => s[i].n < s[j].n

Losses(b) == b.dropped["inter"] + b.dropped["audio"]

\* A queue of frames up to n that counts its bytes right and has those of o, which it may not drop.
Sane(b, n, o) ==
  /\ b \in Queue(Arrivals, SubConfigs) /\ b.bytes = Bytes(b.frames) /\ Ordered(b.frames, n)
  /\ o \subseteq {f \in ToSet(b.frames) : Kept(f, b.config)}

AtLimit(b) ==
  \/ Duration(b.frames) <= b.config.maxDuration
  \/ \A i \in 1 .. Len(b.frames) : Kept(b.frames[i], b.config)

\* The queue of the subscriber: each call keeps it sane, enforces the limit and counts the drops.
QueueInv ==
  /\ count \in Nat /\ popped \in Int /\ Sane(buffer, count, owed) /\ AtLimit(buffer)
  /\ buffer.processed = popped + (Len(buffer.frames) + Losses(buffer))

\* The types of a queue's members.
LEMMA QueueTypes ==
  ASSUME NEW b \in Queue(Arrivals, SubConfigs)
  PROVE  /\ b.frames \in Seq(Arrivals) /\ b.bytes \in Int /\ b.processed \in Nat
         /\ b.dropped \in [Kinds -> Nat] /\ b.config \in SubConfigs /\ b.config.maxDuration \in Nat
         /\ Losses(b) \in Nat
<1>1. /\ b.frames \in Seq(Arrivals) /\ b.bytes \in Int /\ b.processed \in Nat
      /\ b.dropped \in [Kinds -> Nat] /\ b.config \in SubConfigs
  BY DEF Queue
<1>2. "inter" \in Kinds /\ "audio" \in Kinds
  BY DEF Kinds
<1>3. b.dropped["inter"] \in Nat /\ b.dropped["audio"] \in Nat
  BY <1>1, <1>2
<1>4. Losses(b) \in Nat
  BY <1>3 DEF Losses
<1>5. b.config.maxDuration \in Nat
  BY <1>1, BuffersAssumption
<1> QED BY <1>1, <1>4, <1>5

\* Enforcing the limit keeps the order and the frames that may not be dropped.
LEMMA EnforceKeeps ==
  ASSUME NEW b, NEW n \in Nat, NEW o, Sane(b, n, o)
  PROVE  LET c == enforceBufferLimit(b)
         IN  /\ Sane(c, n, o) /\ AtLimit(c) /\ c.processed = b.processed
             /\ Len(c.frames) + Losses(c) = Len(b.frames) + Losses(b)
             /\ Duration(b.frames) <= b.config.maxDuration => c.frames = b.frames
<1> DEFINE c == enforceBufferLimit(b)
           s == b.frames
<1>1. /\ b \in Queue(Arrivals, SubConfigs) /\ b.bytes = Bytes(s) /\ Ordered(s, n)
      /\ o \subseteq {f \in ToSet(s) : Kept(f, b.config)} /\ s \in Seq(Arrivals)
  BY QueueTypes DEF Sane
<1>2. \A x \in SubConfigs : x.maxDuration \in Nat
  BY BuffersAssumption
<1>3. PICK I \in SUBSET DroppableIn(b) :
        /\ c \in Queue(Arrivals, SubConfigs) /\ c.bytes = Bytes(c.frames)
        /\ c.config = b.config /\ c.processed = b.processed
        /\ c.frames = Without(s, I)
        /\ Duration(c.frames) <= c.config.maxDuration \/ I = DroppableIn(b)
        /\ Duration(s) <= b.config.maxDuration => I = {}
        /\ Len(c.frames) + Losses(c) = Len(s) + Losses(b)
  BY <1>1, <1>2, EnforceIs DEF Losses
<1> HIDE DEF c, s
<1>4. PICK p \in Bijection(1 .. Len(c.frames), (1 .. Len(s)) \ I) :
        /\ \A j \in 1 .. Len(c.frames) : c.frames[j] = s[p[j]]
        /\ \A j, k \in 1 .. Len(c.frames) : j < k => p[j] < p[k]
  <2>1. \E p \in Bijection(1 .. Len(Without(s, I)), (1 .. Len(s)) \ I) :
          /\ \A j \in 1 .. Len(Without(s, I)) : Without(s, I)[j] = s[p[j]]
          /\ \A j, k \in 1 .. Len(Without(s, I)) : j < k => p[j] < p[k]
    BY <1>1, WithoutIs
  <2>2. c.frames = Without(s, I)
    BY <1>3
  <2> QED BY <2>1, <2>2
<1>5. /\ \A j \in 1 .. Len(c.frames) : p[j] \in (1 .. Len(s)) \ I
      /\ \A i \in (1 .. Len(s)) \ I : \E j \in 1 .. Len(c.frames) : p[j] = i
  BY <1>4 DEF Bijection, Injection, Surjection
<1>6. Ordered(c.frames, n)
  <2>1. \A j \in 1 .. Len(c.frames) : c.frames[j].n <= n
    BY <1>1, <1>4, <1>5 DEF Ordered
  <2>2. ASSUME NEW j \in 1 .. Len(c.frames), NEW k \in 1 .. Len(c.frames), j < k
        PROVE  c.frames[j].n < c.frames[k].n
    <3>1. p[j] < p[k] /\ p[j] \in 1 .. Len(s) /\ p[k] \in 1 .. Len(s)
      BY <1>4, <1>5, <2>2
    <3>2. s[p[j]].n < s[p[k]].n
      BY <1>1, <3>1 DEF Ordered
    <3> QED BY <1>4, <3>2
  <2> QED BY <2>1, <2>2 DEF Ordered
<1>7. DOMAIN s = 1 .. Len(s) /\ DOMAIN c.frames = 1 .. Len(c.frames)
  BY <1>1, <1>3, QueueTypes
<1>8. o \subseteq {f \in ToSet(c.frames) : Kept(f, c.config)}
  <2> SUFFICES ASSUME NEW f \in o
               PROVE  f \in ToSet(c.frames) /\ Kept(f, c.config)
    OBVIOUS
  <2>1. PICK i \in 1 .. Len(s) : f = s[i]
    BY <1>1, <1>7 DEF ToSet
  <2>2. Kept(f, b.config)
    BY <1>1
  <2>3. i \notin I
    BY <1>3, <2>1, <2>2 DEF DroppableIn, Kept, s
  <2>4. PICK j \in 1 .. Len(c.frames) : p[j] = i
    BY <1>5, <2>1, <2>3
  <2>5. c.frames[j] = f
    BY <1>4, <2>1, <2>4
  <2> QED BY <1>3, <1>7, <2>2, <2>4, <2>5 DEF ToSet
<1>9. AtLimit(c)
  <2>1. CASE I = DroppableIn(b)
    <3>1. ASSUME NEW j \in 1 .. Len(c.frames)
          PROVE  Kept(c.frames[j], c.config)
      <4>1. p[j] \in 1 .. Len(s) /\ p[j] \notin I /\ c.frames[j] = s[p[j]]
        BY <1>4, <1>5
      <4> QED BY <1>3, <2>1, <4>1 DEF DroppableIn, Kept, s
    <3> QED BY <3>1 DEF AtLimit
  <2> QED BY <1>3, <2>1 DEF AtLimit
<1>10. Duration(s) <= b.config.maxDuration => c.frames = s
  BY <1>1, <1>3, WithoutNothing
<1>11. Sane(c, n, o)
  BY <1>3, <1>6, <1>8 DEF Sane
<1> QED BY <1>3, <1>9, <1>10, <1>11 DEF c, s

\* A new frame at the end of the queue.
LEMMA AppendKeeps ==
  ASSUME NEW b, NEW n \in Nat, NEW o, Sane(b, n, o), NEW f \in Arrivals, f.n = n + 1
  PROVE  LET a == [b EXCEPT !.processed = @ + 1, !.frames = Append(@, f),
                            !.bytes = @ + FrameSize(f.kind)]
         IN  /\ Sane(a, n + 1, IF Kept(f, b.config) THEN o \cup {f} ELSE o)
             /\ a.processed = b.processed + 1 /\ a.frames = Append(b.frames, f)
             /\ a.config = b.config /\ Losses(a) = Losses(b)
<1> DEFINE s == b.frames
           t == Append(s, f)
           y == b.bytes + FrameSize(f.kind)
           q == b.processed + 1
           a == [b EXCEPT !.processed = q, !.frames = t, !.bytes = y]
<1>1. /\ b \in Queue(Arrivals, SubConfigs) /\ b.bytes = Bytes(s) /\ Ordered(s, n)
      /\ o \subseteq {x \in ToSet(s) : Kept(x, b.config)}
      /\ s \in Seq(Arrivals) /\ b.bytes \in Int /\ b.processed \in Nat
  BY QueueTypes DEF Sane
<1>2. t \in Seq(Arrivals) /\ Len(t) = Len(s) + 1 /\ Len(s) \in Nat
      /\ t[Len(s) + 1] = f /\ \A i \in 1 .. Len(s) : t[i] = s[i]
  <2> HIDE DEF s
  <2> QED BY <1>1
<1>3. y \in Int /\ q \in Nat /\ y = Bytes(t)
  <2>1. FrameSize(f.kind) \in Nat
    BY DEF FrameSize
  <2>2. Bytes(t) = Bytes(s) + FrameSize(f.kind)
    <3> HIDE DEF s
    <3> QED BY <1>1, BytesOfAppend
  <2> QED BY <1>1, <2>1, <2>2
<1> HIDE DEF s, t, y, q
<1>4. /\ a \in Queue(Arrivals, SubConfigs) /\ a.frames = t /\ a.bytes = y /\ a.processed = q
      /\ a.config = b.config /\ a.dropped = b.dropped
  BY <1>1, <1>2, <1>3 DEF Queue
<1>5. Ordered(t, n + 1)
  <2>1. ASSUME NEW i \in 1 .. Len(t)
        PROVE  t[i].n <= n + 1
    <3>1. CASE i \in 1 .. Len(s)
      <4>1. s[i] \in Arrivals /\ s[i].n <= n
        BY <1>1, <3>1 DEF Ordered
      <4>2. s[i].n \in Nat
        BY <4>1 DEF Arrivals
      <4> QED BY <1>2, <3>1, <4>1, <4>2
    <3>2. CASE i = Len(s) + 1
      BY <1>2, <3>2
    <3> QED BY <1>2, <3>1, <3>2
  <2>2. ASSUME NEW i \in 1 .. Len(t), NEW j \in 1 .. Len(t), i < j
        PROVE  t[i].n < t[j].n
    <3>1. i \in 1 .. Len(s) /\ (j \in 1 .. Len(s) \/ j = Len(s) + 1)
      BY <1>2, <2>2
    <3>2. s[i] \in Arrivals /\ s[i].n <= n
      BY <1>1, <3>1 DEF Ordered
    <3>3. s[i].n \in Nat
      BY <3>2 DEF Arrivals
    <3>4. CASE j \in 1 .. Len(s)
      BY <1>1, <1>2, <2>2, <3>1, <3>4 DEF Ordered
    <3>5. CASE j = Len(s) + 1
      BY <1>2, <3>1, <3>2, <3>3, <3>5
    <3> QED BY <3>1, <3>4, <3>5
  <2> QED BY <2>1, <2>2 DEF Ordered
<1>6. ToSet(s) \cup {f} \subseteq ToSet(t)
  <2>1. DOMAIN s = 1 .. Len(s) /\ DOMAIN t = 1 .. Len(t) /\ Len(s) + 1 \in 1 .. Len(t)
    BY <1>1, <1>2
  <2>2. \A i \in 1 .. Len(s) : i \in 1 .. Len(t)
    BY <1>2
  <2> QED BY <1>2, <2>1, <2>2 DEF ToSet
<1>7. (IF Kept(f, b.config) THEN o \cup {f} ELSE o) \subseteq {x \in ToSet(t) : Kept(x, a.config)}
  BY <1>1, <1>4, <1>6
<1> HIDE DEF a
<1>8. Sane(a, n + 1, IF Kept(f, b.config) THEN o \cup {f} ELSE o) /\ Losses(a) = Losses(b)
  BY <1>3, <1>4, <1>5, <1>7 DEF Sane, Losses
<1> QED BY <1>4, <1>8 DEF a, s, t, y, q

\* SubscriberBuffer::push: a video frame is turned away and counted, any other frame is taken in;
\* if it fits in, nothing is displaced.
LEMMA PushKeeps ==
  ASSUME NEW b, NEW n \in Nat, NEW o, Sane(b, n, o), AtLimit(b), NEW f \in Arrivals, f.n = n + 1
  PROVE  LET c == bufferPush(b, f)
         IN  /\ Sane(c, n + 1, IF Kept(f, b.config) THEN o \cup {f} ELSE o) /\ AtLimit(c)
             /\ c.processed = b.processed + 1
             /\ Len(c.frames) + Losses(c) = Len(b.frames) + Losses(b) + 1
             /\ ~ shouldDropFrame(b, f) /\ Duration(Append(b.frames, f)) <= b.config.maxDuration
                  => Len(c.frames) = Len(b.frames) + 1
<1> DEFINE c == bufferPush(b, f)
           a == [b EXCEPT !.processed = @ + 1, !.frames = Append(@, f),
                          !.bytes = @ + FrameSize(f.kind)]
           v == [b EXCEPT !.processed = @ + 1]
           w == IF Kept(f, b.config) THEN o \cup {f} ELSE o
           l == Len(b.frames)
           x == Losses(b)
<1>1. /\ b \in Queue(Arrivals, SubConfigs) /\ b.bytes = Bytes(b.frames) /\ Ordered(b.frames, n)
      /\ o \subseteq {g \in ToSet(b.frames) : Kept(g, b.config)}
      /\ b.frames \in Seq(Arrivals) /\ b.processed \in Nat /\ x \in Nat /\ l \in Nat
  BY QueueTypes DEF Sane
<1>2. c = IF shouldDropFrame(b, f) THEN recordDroppedFrames(v, <<f>>) ELSE enforceBufferLimit(a)
  BY DEF bufferPush
<1>3. CASE shouldDropFrame(b, f)
  <2> DEFINE s == <<f>>
             q == b.processed + 1
  <2>1. s \in Seq(Arrivals) /\ Len(s) = 1 /\ f.kind = "inter" /\ \A j \in 1 .. Len(s) : s[j] = f
    BY <1>3 DEF shouldDropFrame
  <2>2. q \in Nat
    BY <1>1
  <2>3. v = [b EXCEPT !.processed = q]
    OBVIOUS
  <2> HIDE DEF s, q, v
  <2>4. /\ v \in Queue(Arrivals, SubConfigs) /\ v.frames = b.frames /\ v.bytes = b.bytes
        /\ v.config = b.config /\ v.dropped = b.dropped /\ v.processed = q
    BY <1>1, <2>2, <2>3 DEF Queue
  <2>5. \A j \in 1 .. Len(s) : s[j].kind \in {"inter", "audio"}
    BY <2>1
  <2>6. c = recordDroppedFrames(v, s)
    BY <1>2, <1>3 DEF s
  <2> HIDE DEF c
  <2>7. /\ c \in Queue(Arrivals, SubConfigs) /\ c.frames = v.frames /\ c.bytes = v.bytes
        /\ c.config = v.config /\ c.processed = v.processed
        /\ c.dropped["inter"] + c.dropped["audio"] = v.dropped["inter"] + v.dropped["audio"] + Len(s)
    BY <2>1, <2>4, <2>5, <2>6, RecordIs
  <2>8. Losses(c) = x + 1
    BY <2>1, <2>4, <2>7 DEF Losses
  <2>9. Ordered(c.frames, n + 1)
    <3>1. ASSUME NEW i \in 1 .. l
          PROVE  b.frames[i].n <= n + 1
      <4>1. b.frames[i] \in Arrivals /\ b.frames[i].n <= n
        BY <1>1 DEF Ordered
      <4>2. b.frames[i].n \in Nat
        BY <4>1 DEF Arrivals
      <4> QED BY <4>1, <4>2
    <3> QED BY <1>1, <2>4, <2>7, <3>1 DEF Ordered
  <2>10. w = o
    BY <2>1 DEF Kept, Droppable
  <2>11. Sane(c, n + 1, w)
    BY <1>1, <2>4, <2>7, <2>9, <2>10 DEF Sane
  <2>12. AtLimit(c)
    BY <2>4, <2>7 DEF AtLimit
  <2>13. Len(c.frames) + Losses(c) = l + x + 1
    <3>1. Len(c.frames) = l
      BY <2>4, <2>7
    <3> HIDE DEF l, x
    <3> QED BY <1>1, <2>8, <3>1
  <2>14. c.processed = b.processed + 1
    BY <2>4, <2>7 DEF q
  <2> QED BY <1>3, <2>11, <2>12, <2>13, <2>14 DEF c
<1>4. CASE ~ shouldDropFrame(b, f)
  <2>1. /\ Sane(a, n + 1, w) /\ a.processed = b.processed + 1 /\ a.frames = Append(b.frames, f)
        /\ a.config = b.config /\ Losses(a) = x
    BY ZenonT(40), AppendKeeps
  <2>2. n + 1 \in Nat /\ Len(Append(b.frames, f)) = l + 1
    BY <1>1
  <2>3. c = enforceBufferLimit(a)
    BY <1>2, <1>4
  <2> HIDE DEF a, w, c
  <2>4. /\ Sane(c, n + 1, w) /\ AtLimit(c) /\ c.processed = a.processed
        /\ Len(c.frames) + Losses(c) = Len(a.frames) + Losses(a)
        /\ Duration(a.frames) <= a.config.maxDuration => c.frames = a.frames
    BY <2>1, <2>2, <2>3, EnforceKeeps
  <2>5. Len(c.frames) + Losses(c) = l + x + 1
    <3>1. Len(c.frames) + Losses(c) = l + 1 + x
      BY <2>1, <2>2, <2>4
    <3> HIDE DEF l, x
    <3> QED BY <1>1, <3>1
  <2>6. Duration(Append(b.frames, f)) <= b.config.maxDuration => Len(c.frames) = l + 1
    BY <2>1, <2>2, <2>4
  <2> QED BY <2>1, <2>4, <2>5, <2>6 DEF c, w
<1> QED BY <1>3, <1>4

\* SubscriberBuffer::pop: the oldest frame leaves.
LEMMA PopKeeps ==
  ASSUME NEW b, NEW n \in Nat, NEW o, Sane(b, n, o), AtLimit(b), b.frames # <<>>
  PROVE  LET c == bufferPop(b)
         IN  /\ Sane(c, n, o \ {Head(b.frames)}) /\ AtLimit(c)
             /\ c.processed = b.processed /\ Losses(c) = Losses(b)
             /\ Len(c.frames) = Len(b.frames) - 1
<1> DEFINE s == b.frames
           t == Tail(s)
           y == b.bytes - FrameSize(Head(s).kind)
           c == bufferPop(b)
           l == Len(s)
<1>1. /\ b \in Queue(Arrivals, SubConfigs) /\ b.bytes = Bytes(s) /\ Ordered(s, n)
      /\ o \subseteq {x \in ToSet(s) : Kept(x, b.config)}
      /\ s \in Seq(Arrivals) /\ b.bytes \in Int
  BY QueueTypes DEF Sane
<1>2. c = [b EXCEPT !.frames = t, !.bytes = y]
  BY DEF bufferPop
<1> HIDE DEF s, c
<1>3. l \in Nat /\ l # 0 /\ s # <<>>
  <2>1. s # <<>>
    BY DEF s
  <2> QED BY <1>1, <2>1, EmptySeq
<1>4. t \in Seq(Arrivals) /\ Len(t) = l - 1 /\ Head(s) = s[1] /\ \A i \in 1 .. l - 1 : t[i] = s[i + 1]
  BY <1>1, <1>3
<1>5. y \in Int /\ y = Bytes(t)
  <2>1. Head(s) \in Arrivals /\ 1 \in 1 .. l
    BY <1>1, <1>3, <1>4
  <2>2. FrameSize(Head(s).kind) \in Nat
    BY DEF FrameSize
  <2>3. Bytes(s) = FrameSize(Head(s).kind) + Bytes(t) /\ Bytes(t) \in Nat
    <3>1. 2 \in 1 .. l + 1 /\ l + 1 - 2 = l - 1
      BY <1>3
    <3>2. /\ From(s, 2) \in Seq(Arrivals) /\ Len(From(s, 2)) = l - 1
          /\ \A i \in 1 .. l - 1 : From(s, 2)[i] = s[2 + i - 1]
      <4>1. /\ From(s, 2) \in Seq(Arrivals) /\ Len(From(s, 2)) = Len(s) + 1 - 2
            /\ \A i \in 1 .. Len(s) + 1 - 2 : From(s, 2)[i] = s[2 + i - 1]
        BY <1>1, <3>1, FromIs
      <4> QED BY <3>1, <4>1
    <3>3. \A i \in 1 .. l - 1 : From(s, 2)[i] = t[i]
      <4>1. \A i \in 1 .. l - 1 : 2 + i - 1 = i + 1
        BY <1>3
      <4> QED BY <1>4, <3>2, <4>1
    <3>4. From(s, 2) = t
      <4> HIDE DEF t
      <4> QED BY <1>4, <3>2, <3>3, SeqEqual
    <3> DEFINE h == SubSeq(s, 1, 2 - 1)
    <3>5. h \in Seq(Arrivals) /\ Len(h) = 1 /\ h[1] = s[1]
      <4>1. /\ h \in Seq(Arrivals) /\ Len(h) = 2 - 1
            /\ \A i \in 1 .. 2 - 1 : h[i] = s[i]
        BY <1>1, <3>1, FromIs
      <4> QED BY <4>1
    <3>6. Bytes(h) + Bytes(From(s, 2)) = Bytes(s) /\ Bytes(From(s, 2)) \in Nat
      BY <1>1, <3>1, BytesOfCut
    <3> HIDE DEF h
    <3>7. Bytes(h) = FrameSize(Head(s).kind)
      <4>1. Keyframes(h) = IF s[1].kind = "keyframe" THEN {1} ELSE {}
        BY <3>5 DEF Keyframes
      <4>2. Cardinality({1}) = 1 /\ Cardinality({}) = 0
        BY FS_Singleton, FS_EmptySet
      <4> QED BY <1>4, <3>5, <4>1, <4>2 DEF Bytes, FrameSize
    <3> QED BY <3>4, <3>6, <3>7
  <2> QED BY <1>1, <2>2, <2>3
<1> HIDE DEF t, y
<1>6. /\ c \in Queue(Arrivals, SubConfigs) /\ c.frames = t /\ c.bytes = y /\ c.processed = b.processed
      /\ c.config = b.config /\ c.dropped = b.dropped
  BY <1>1, <1>2, <1>4, <1>5 DEF Queue
<1>7. Ordered(t, n)
  <2> HIDE DEF l
  <2>1. ASSUME NEW i \in 1 .. Len(t)
        PROVE  t[i].n <= n
    BY <1>1, <1>3, <1>4 DEF Ordered, l
  <2>2. ASSUME NEW i \in 1 .. Len(t), NEW j \in 1 .. Len(t), i < j
        PROVE  t[i].n < t[j].n
    <3>1. i + 1 \in 1 .. l /\ j + 1 \in 1 .. l /\ i + 1 < j + 1 /\ t[i] = s[i + 1] /\ t[j] = s[j + 1]
      BY <1>3, <1>4, <2>2
    <3> QED BY <1>1, <3>1 DEF Ordered, l
  <2> QED BY <2>1, <2>2 DEF Ordered
<1>8. ToSet(s) \ {Head(s)} \subseteq ToSet(t) /\ Times(t) \subseteq Times(s)
      /\ \A j \in 1 .. Len(t) : \E i \in 1 .. l : t[j] = s[i]
  <2>1. DOMAIN s = 1 .. l /\ DOMAIN t = 1 .. Len(t)
    BY <1>1, <1>4
  <2>2. \A i \in 1 .. l : i = 1 \/ (i - 1 \in 1 .. Len(t) /\ t[i - 1] = s[i])
    BY <1>3, <1>4
  <2>3. \A j \in 1 .. Len(t) : j + 1 \in 1 .. l /\ t[j] = s[j + 1]
    BY <1>3, <1>4
  <2>4. ASSUME NEW f \in ToSet(s) \ {Head(s)}
        PROVE  f \in ToSet(t)
    <3>1. PICK i \in 1 .. l : f = s[i]
      BY <2>1 DEF ToSet
    <3>2. i # 1
      BY <1>4, <2>4, <3>1
    <3> QED BY <2>1, <2>2, <3>1, <3>2 DEF ToSet
  <2>5. Times(t) \subseteq Times(s)
    BY <2>3 DEF Times
  <2> QED BY <2>3, <2>4, <2>5
<1>9. Sane(c, n, o \ {Head(s)})
  BY <1>1, <1>5, <1>6, <1>7, <1>8 DEF Sane
<1>10. AtLimit(c)
  <2>1. CASE Duration(s) <= b.config.maxDuration
    <3>1. Duration(t) <= Duration(s) /\ Duration(t) \in Nat /\ Duration(s) \in Nat
      BY <1>1, <1>4, <1>8, DurationOfPart
    <3>2. b.config.maxDuration \in Nat
      BY <1>1, QueueTypes
    <3>3. Duration(t) <= b.config.maxDuration
      BY <2>1, <3>1, <3>2
    <3> QED BY <1>6, <3>3 DEF AtLimit
  <2>2. CASE \A i \in 1 .. l : Kept(s[i], b.config)
    BY <1>6, <1>8, <2>2 DEF AtLimit
  <2> QED BY <2>1, <2>2 DEF AtLimit, s
<1>11. Losses(c) = Losses(b) /\ Len(c.frames) = l - 1
  BY <1>4, <1>6 DEF Losses
<1> QED BY <1>6, <1>9, <1>10, <1>11 DEF c, s

\* SubscriberBuffer::setConfig: what the new configuration no longer preserves is not owed any more.
LEMMA SetLimitKeeps ==
  ASSUME NEW b \in Queue(Arrivals, SubConfigs), NEW n \in Nat, NEW o, Sane(b, n, o),
         NEW k \in SubConfigs, NEW p \in SUBSET o, \A f \in p : Kept(f, k)
  PROVE  LET c == bufferSetConfig(b, k)
         IN  /\ Sane(c, n, p) /\ AtLimit(c) /\ c.processed = b.processed
             /\ Len(c.frames) + Losses(c) = Len(b.frames) + Losses(b)
<1> DEFINE a == [b EXCEPT !.config = k]
           c == bufferSetConfig(b, k)
<1>1. /\ b.bytes = Bytes(b.frames) /\ Ordered(b.frames, n)
      /\ o \subseteq {x \in ToSet(b.frames) : Kept(x, b.config)}
  BY DEF Sane
<1>2. /\ a \in Queue(Arrivals, SubConfigs) /\ a.frames = b.frames /\ a.bytes = b.bytes
      /\ a.processed = b.processed /\ a.config = k /\ a.dropped = b.dropped
  BY DEF Queue
<1>3. c = enforceBufferLimit(a)
  BY DEF bufferSetConfig
<1> HIDE DEF a, c
<1>4. Sane(a, n, p) /\ Losses(a) = Losses(b)
  BY <1>1, <1>2 DEF Sane, Losses
<1>5. /\ Sane(c, n, p) /\ AtLimit(c) /\ c.processed = a.processed
      /\ Len(c.frames) + Losses(c) = Len(a.frames) + Losses(a)
  BY <1>3, <1>4, EnforceKeeps
<1> QED BY <1>2, <1>4, <1>5 DEF c

\* No frames, no bytes.
LEMMA BytesOfNothing ==
  ASSUME NEW F
  PROVE  Bytes(<<>>) = 0
<1>1. Keyframes(<<>>) = {}
  BY DEF Keyframes
<1>2. Cardinality({}) = 0 /\ <<>> \in Seq(F) /\ Len(<<>>) = 0
  BY FS_EmptySet
<1>3. Bytes(<<>>) = 0 + 0
  BY <1>1, <1>2 DEF Bytes
<1> QED BY <1>3

\* SubscriberBuffer::clear.
LEMMA ClearKeeps ==
  ASSUME NEW b, NEW n \in Nat, NEW o, Sane(b, n, o)
  PROVE  LET c == bufferClear(b)
         IN  /\ Sane(c, n, {}) /\ AtLimit(c) /\ c.processed = b.processed
             /\ c.frames = <<>> /\ Losses(c) = Losses(b)
<1> DEFINE c == bufferClear(b)
           e == <<>>
           y == 0
<1>1. b \in Queue(Arrivals, SubConfigs) /\ c = [b EXCEPT !.frames = e, !.bytes = y]
      /\ e \in Seq(Arrivals) /\ y \in Int
  BY DEF Sane, bufferClear
<1> HIDE DEF c, e, y
<1>2. /\ c \in Queue(Arrivals, SubConfigs) /\ c.frames = e /\ c.bytes = y
      /\ c.processed = b.processed /\ c.config = b.config /\ c.dropped = b.dropped
  BY <1>1 DEF Queue
<1>3. Bytes(<<>>) = 0
  BY BytesOfNothing
<1>4. Ordered(<<>>, n)
  BY DEF Ordered
<1>5. Sane(c, n, {}) /\ Losses(c) = Losses(b)
  BY <1>2, <1>3, <1>4 DEF Sane, Losses, e, y
<1>6. AtLimit(c)
  BY <1>2, QueueTypes DEF AtLimit, Duration, e
<1> QED BY <1>2, <1>5, <1>6 DEF c, e

\* SubscriberBuffer::resetStatistics: the counts start again, the frames stay.
LEMMA ResetKeeps ==
  ASSUME NEW b, NEW n \in Nat, NEW o, Sane(b, n, o), AtLimit(b)
  PROVE  LET c == bufferResetStatistics(b)
         IN  /\ Sane(c, n, o) /\ AtLimit(c) /\ c.processed = 0
             /\ c.frames = b.frames /\ Losses(c) = 0
<1> DEFINE z == [k \in Kinds |-> 0]
           c == bufferResetStatistics(b)
<1>1. /\ b \in Queue(Arrivals, SubConfigs) /\ b.bytes = Bytes(b.frames) /\ Ordered(b.frames, n)
      /\ o \subseteq {x \in ToSet(b.frames) : Kept(x, b.config)}
      /\ c = [b EXCEPT !.processed = 0, !.dropped = z]
  BY DEF Sane, bufferResetStatistics
<1>2. z \in [Kinds -> Nat] /\ z["inter"] + z["audio"] = 0
  <2>1. "inter" \in Kinds /\ "audio" \in Kinds
    BY DEF Kinds
  <2> QED BY <2>1
<1> HIDE DEF c, z
<1>3. /\ c \in Queue(Arrivals, SubConfigs) /\ c.frames = b.frames /\ c.bytes = b.bytes
      /\ c.processed = 0 /\ c.config = b.config /\ c.dropped = z
  BY <1>1, <1>2 DEF Queue
<1>4. Sane(c, n, o) /\ AtLimit(c) /\ Losses(c) = 0
  BY <1>1, <1>2, <1>3 DEF Sane, AtLimit, Losses
<1> QED BY <1>3, <1>4 DEF c

\* An empty queue satisfies the invariant.
LEMMA QueueStart ==
  ASSUME BuffersInit
  PROVE  QueueInv
<1>1. PICK config \in SubConfigs : buffer = NewBuffer(config)
  BY DEF BuffersInit
<1>2. count = 0 /\ owed = {} /\ popped = 0
  BY DEF BuffersInit
<1> DEFINE z == [k \in Kinds |-> 0]
<1>3. z \in [Kinds -> Nat] /\ z["inter"] + z["audio"] = 0
  <2>1. "inter" \in Kinds /\ "audio" \in Kinds
    BY DEF Kinds
  <2> QED BY <2>1
<1>4. buffer = [frames |-> <<>>, bytes |-> 0, processed |-> 0, dropped |-> z, config |-> config]
  BY <1>1 DEF NewBuffer
<1> HIDE DEF z
<1>5. /\ buffer \in Queue(Arrivals, SubConfigs) /\ buffer.frames = <<>> /\ buffer.bytes = 0
      /\ buffer.processed = 0 /\ buffer.config = config /\ buffer.dropped = z
  BY <1>3, <1>4 DEF Queue
<1>6. Losses(buffer) = 0 /\ Ordered(<<>>, 0)
  BY <1>3, <1>5 DEF Losses, Ordered
<1>7. Bytes(<<>>) = 0
  BY BytesOfNothing
<1>8. Sane(buffer, 0, {}) /\ AtLimit(buffer)
  BY <1>5, <1>6, <1>7 DEF Sane, AtLimit
<1> QED BY <1>2, <1>5, <1>6, <1>8 DEF QueueInv

\* Every call keeps the queue's invariant.
LEMMA QueueStep ==
  ASSUME QueueInv, BuffersNext
  PROVE  QueueInv'
<1> DEFINE b == buffer
           c == buffer'
           l == Len(b.frames)
           x == Losses(b)
<1>1. /\ count \in Nat /\ popped \in Int /\ Sane(b, count, owed) /\ AtLimit(b)
      /\ b.processed = popped + (l + x) /\ l \in Nat /\ x \in Nat /\ b.processed \in Nat
  <2>1. b \in Queue(Arrivals, SubConfigs)
    BY DEF QueueInv, Sane
  <2>2. l \in Nat /\ x \in Nat /\ b.processed \in Nat
    BY <2>1, QueueTypes
  <2> QED BY <2>2 DEF QueueInv
<1> SUFFICES /\ count' \in Nat /\ popped' \in Int /\ Sane(c, count', owed') /\ AtLimit(c)
             /\ c.processed = popped' + (Len(c.frames) + Losses(c))
  BY DEF QueueInv, Sane, AtLimit, Losses
<1> HIDE DEF b, c
<1>2. CASE \E kind \in Kinds : push(kind)
  <2>1. PICK kind \in Kinds : push(kind)
    BY <1>2
  <2> DEFINE f == Pushed(kind, count + 1)
  <2>2. count' = count + 1 /\ popped' = popped /\ c = bufferPush(b, f)
        /\ owed' = IF Kept(f, b.config) THEN owed \cup {f} ELSE owed
    BY <2>1 DEF push, b, c
  <2>3. f \in Arrivals /\ f.n = count + 1
    BY <1>1, ArrivalType
  <2> HIDE DEF f
  <2>4. /\ Sane(c, count + 1, owed') /\ AtLimit(c)
        /\ c.processed = b.processed + 1 /\ Len(c.frames) + Losses(c) = l + x + 1
    BY <1>1, <2>2, <2>3, PushKeeps
  <2> HIDE DEF l, x
  <2>5. b.processed + 1 = popped + (l + x + 1)
    BY <1>1
  <2> QED BY <1>1, <2>2, <2>4, <2>5
<1>3. CASE pop
  <2>1. /\ b.frames # <<>> /\ c = bufferPop(b) /\ owed' = owed \ {Head(b.frames)}
        /\ popped' = popped + 1 /\ count' = count
    BY <1>3 DEF pop, b, c
  <2>2. /\ Sane(c, count, owed') /\ AtLimit(c) /\ c.processed = b.processed
        /\ Losses(c) = x /\ Len(c.frames) = l - 1
    BY <1>1, <2>1, PopKeeps
  <2> HIDE DEF l, x
  <2>3. popped + (l + x) = (popped + 1) + ((l - 1) + x)
    BY <1>1
  <2> QED BY <1>1, <2>1, <2>2, <2>3
<1>4. CASE clearSubscriber
  <2>1. c = bufferClear(b) /\ owed' = {} /\ popped' = popped + l /\ count' = count
    BY <1>4 DEF clearSubscriber, b, c
  <2>2. /\ Sane(c, count, {}) /\ AtLimit(c) /\ c.processed = b.processed
        /\ c.frames = <<>> /\ Losses(c) = x
    BY <1>1, <2>1, ClearKeeps
  <2>3. Len(c.frames) = 0
    BY <2>2
  <2> HIDE DEF l, x
  <2>4. popped + (l + x) = (popped + l) + (0 + x)
    BY <1>1
  <2> QED BY <1>1, <2>1, <2>2, <2>3, <2>4
<1>5. CASE resetStatistics
  <2>1. c = bufferResetStatistics(b) /\ owed' = owed /\ popped' = - l /\ count' = count
    BY <1>5 DEF resetStatistics, b, c
  <2>2. /\ Sane(c, count, owed) /\ AtLimit(c) /\ c.processed = 0
        /\ c.frames = b.frames /\ Losses(c) = 0
    BY <1>1, <2>1, ResetKeeps
  <2>3. Len(c.frames) = l
    BY <2>2
  <2> HIDE DEF l, x
  <2>4. - l + (l + 0) = 0 /\ - l \in Int
    BY <1>1
  <2> QED BY <1>1, <2>1, <2>2, <2>3, <2>4
<1>6. CASE resetSubscriber
  <2>1. c = bufferResetStatistics(bufferClear(b)) /\ owed' = {} /\ popped' = 0 /\ count' = count
    BY <1>6 DEF resetSubscriber, bufferReset, b, c
  <2> DEFINE e == bufferClear(b)
  <2>2. Sane(e, count, {}) /\ AtLimit(e) /\ e.frames = <<>>
    BY <1>1, ClearKeeps
  <2> HIDE DEF e
  <2>3. c = bufferResetStatistics(e)
    BY <2>1 DEF e
  <2>4. /\ Sane(c, count, {}) /\ AtLimit(c) /\ c.processed = 0
        /\ c.frames = e.frames /\ Losses(c) = 0
    BY <1>1, <2>2, <2>3, ResetKeeps
  <2>5. Len(c.frames) = 0
    BY <2>2, <2>4
  <2> QED BY <1>1, <2>1, <2>4, <2>5
<1>7. CASE clearGop \/ \E config \in GopConfigs : setGopConfig(config)
  <2>1. c = b /\ count' = count /\ owed' = owed /\ popped' = popped
    BY <1>7 DEF clearGop, setGopConfig, b, c
  <2> QED BY <1>1, <2>1
<1>8. CASE \E config \in SubConfigs : setSubscriberConfig(config)
  <2>1. PICK k \in SubConfigs : setSubscriberConfig(k)
    BY <1>8
  <2> DEFINE o == {f \in owed : Kept(f, k)}
  <2>2. c = bufferSetConfig(b, k) /\ owed' = o /\ popped' = popped /\ count' = count
    BY <2>1 DEF setSubscriberConfig, b, c
  <2>3. o \in SUBSET owed /\ (\A f \in o : Kept(f, k)) /\ b \in Queue(Arrivals, SubConfigs)
    BY <1>1 DEF Sane
  <2> HIDE DEF o
  <2>4. /\ Sane(c, count, o) /\ AtLimit(c) /\ c.processed = b.processed
        /\ Len(c.frames) + Losses(c) = l + x
    BY ZenonT(40), <1>1, <2>2, <2>3, SetLimitKeeps
  <2> QED BY <1>1, <2>2, <2>4
<1> QED BY <1>2, <1>3, <1>4, <1>5, <1>6, <1>7, <1>8 DEF BuffersNext

\* The invariant says what QueueSound asks for.
LEMMA QueueFollows ==
  ASSUME QueueInv
  PROVE  QueueBounded /\ ContinuityKept /\ DropsAccounted
<1>1. Sane(buffer, count, owed) /\ buffer \in Queue(Arrivals, SubConfigs)
  BY DEF QueueInv, Sane
<1>2. QueueBounded
  BY DEF QueueInv, AtLimit, QueueBounded
<1>3. ContinuityKept
  BY <1>1 DEF Sane, Ordered, ContinuityKept
<1>4. DropsAccounted
  <2> DEFINE l == Len(buffer.frames)
             x == buffer.dropped["inter"]
             y == buffer.dropped["audio"]
  <2>1. buffer.frames \in Seq(Arrivals) /\ buffer.dropped \in [Kinds -> Nat]
    BY <1>1, QueueTypes
  <2>2. "inter" \in Kinds /\ "audio" \in Kinds
    BY DEF Kinds
  <2>3. l \in Nat /\ x \in Nat /\ y \in Nat /\ popped \in Int
    BY <2>1, <2>2 DEF QueueInv
  <2>4. buffer.processed = popped + (l + (x + y))
    BY DEF QueueInv, Losses
  <2> HIDE DEF l, x, y
  <2>5. buffer.processed = popped + l + x + y
    BY <2>3, <2>4
  <2> QED BY <1>1, <2>5 DEF Sane, DropsAccounted, l, x, y
<1> QED BY <1>2, <1>3, <1>4

\* A frame that fits in is taken in: metadata is never turned away, and the time of a frame does
\* not depend on its kind.
LEMMA OverflowOnly ==
  ASSUME QueueInv, BuffersNext
  PROVE  DropsOnlyOnOverflow
<1> DEFINE config == buffer.config
           d == Pushed("data", count')
<1> SUFFICES ASSUME count' = count + 1,
                    Duration(Append(buffer.frames, d)) <= config.maxDuration,
                    config.maxSize = 0 \/ buffer.bytes <= config.maxSize
             PROVE  Len(buffer'.frames) = Len(buffer.frames) + 1
  BY DEF DropsOnlyOnOverflow
<1>1. /\ count \in Nat /\ Sane(buffer, count, owed) /\ AtLimit(buffer)
      /\ buffer \in Queue(Arrivals, SubConfigs)
  BY DEF QueueInv, Sane
<1>2. buffer.frames \in Seq(Arrivals) /\ config.maxDuration \in Nat /\ config.maxSize \in Nat
      /\ buffer.bytes \in Int
  <2>1. config \in SubConfigs
    BY <1>1, QueueTypes
  <2> QED BY <1>1, <2>1, QueueTypes, BuffersAssumption
<1>3. PICK kind \in Kinds : push(kind)
  <2>1. count' # count
    BY <1>1
  <2> QED BY <2>1 DEF BuffersNext, pop, clearSubscriber, resetStatistics, resetSubscriber, clearGop,
                      setSubscriberConfig, setGopConfig
<1> DEFINE f == Pushed(kind, count + 1)
           s == Append(buffer.frames, f)
           t == Append(buffer.frames, d)
<1>4. buffer' = bufferPush(buffer, f)
  BY <1>3 DEF push
<1>5. f \in Arrivals /\ f.n = count + 1 /\ d \in Arrivals /\ d.time = f.time
  <2>1. "data" \in Kinds /\ count + 1 \in Nat
    BY <1>1 DEF Kinds
  <2>2. f.time = (count + 1) % QueueTimes /\ d.time = (count + 1) % QueueTimes
    BY DEF Pushed
  <2> QED BY <2>1, <2>2, ArrivalType
<1> HIDE DEF d, f, config
<1>6. /\ s \in Seq(Arrivals) /\ t \in Seq(Arrivals) /\ Len(s) = Len(t)
      /\ \A i \in 1 .. Len(s) : s[i].time = t[i].time
      /\ \A i \in 1 .. Len(buffer.frames) : i \in 1 .. Len(s) /\ buffer.frames[i] = s[i]
  BY <1>2, <1>5
<1>7. Times(s) = Times(t) /\ Times(buffer.frames) \subseteq Times(s)
  <2> HIDE DEF s, t
  <2> QED BY <1>6 DEF Times
<1>8. Duration(s) <= config.maxDuration
  <2>1. Duration(t) <= config.maxDuration
    OBVIOUS
  <2>2. Duration(s) \in Nat /\ Duration(t) \in Nat /\ Duration(s) <= Duration(t)
    <3> HIDE DEF s, t
    <3> QED BY <1>6, <1>7, DurationOfPart
  <2> QED BY <1>2, <2>1, <2>2
<1>9. Duration(buffer.frames) <= config.maxDuration
  <2>1. /\ Duration(buffer.frames) \in Nat /\ Duration(s) \in Nat
        /\ Duration(buffer.frames) <= Duration(s)
    <3> HIDE DEF s
    <3> QED BY <1>2, <1>6, <1>7, DurationOfPart
  <2> QED BY <1>2, <1>8, <2>1
<1>10. ~ shouldDropFrame(buffer, f)
  <2>1. ~ (Duration(buffer.frames) > config.maxDuration)
    <3>1. Duration(buffer.frames) \in Nat
      BY <1>2, DurationOfPart
    <3> QED BY <1>2, <1>9, <3>1
  <2>2. ~ (config.maxSize > 0 /\ buffer.bytes > config.maxSize)
    BY <1>2
  <2> QED BY <2>1, <2>2 DEF shouldDropFrame, config
<1>11. Len(bufferPush(buffer, f).frames) = Len(buffer.frames) + 1
  BY <1>1, <1>5, <1>8, <1>10, PushKeeps DEF config
<1> QED BY <1>4, <1>11

-----------------------------------------------------------------------------
(* MediaHandler *)

Messages == VideoMessages \cup AudioMessages \cup DataMessages

VideoState == [codec : {"Unknown", "H264", "H265", "AV1"}, header : Nat, key : BOOLEAN, nal : {"IDR", "none"}]

AudioState == [codec : {"Unknown", "AAC", "Opus"}, header : Nat]

\* A keyframe by its frame type or by its NAL unit.
IsKey(m) == m.media = "Video" /\ (m.key \/ (HasNAL(m) /\ m.nal = "IDR"))

Held(f) == UNION {{f[t][i] : i \in DOMAIN f[t]} : t \in HandlerThreads}

HandlerTypes ==
  /\ video \in VideoState /\ audio \in AudioState
  /\ handled \in Seq(Messages \X BOOLEAN \X BOOLEAN)
  /\ sinceReset \in 1 .. Len(handled) + 1
  /\ forwarding \in [HandlerThreads -> {<<>>} \cup {<<i>> : i \in 1 .. Len(handled)}]

\* Types, and what MediaHandled says: the headers are the newest, keyframes are reported, and every
\* accepted message is forwarded or held by the thread that will forward it.
HandlerInv == HandlerTypes /\ MediaHandled

\* The message m is processed, accepted (a) or not, a keyframe reported (r) or not.
Takes(m, a, r) ==
  /\ m \in Messages /\ a \in BOOLEAN /\ r \in BOOLEAN
  /\ handled' = Append(handled, <<m, a, r>>)
  /\ video' \in VideoState /\ audio' \in AudioState
  /\ video'.header = IF a /\ m \in VideoHeaders THEN Message ELSE video.header
  /\ audio'.header = IF a /\ m \in AudioHeaders THEN Message ELSE audio.header
  /\ a => (r <=> IsKey(m))

\* MediaHandler::processStandardVideo.
LEMMA StandardIs ==
  ASSUME HandlerTypes, NEW m \in VideoMessages, processStandardVideo(m), UNCHANGED audio
  PROVE  \E a, r \in BOOLEAN : Takes(m, a, r)
<1> DEFINE a == ~(m.format = "AVC" /\ m.size = 0)
           named == [video EXCEPT !.key = m.key, !.codec = IF m.format = "AVC" THEN "H264" ELSE @]
           nal == IF HasNAL(m) THEN m.nal ELSE video.nal
           k == m.key \/ (HasNAL(m) /\ nal = "IDR")
           h == IF m.format = "AVC" /\ m.packet = "header" THEN Message ELSE video.header
           parsed == [named EXCEPT !.nal = nal, !.key = k, !.header = h]
           c == IF m.format = "AVC" THEN "H264" ELSE video.codec
<1>1. /\ m.media = "Video" /\ m.key \in BOOLEAN /\ m.nal \in {"IDR", "none"}
      /\ m.packet \in {"header", "frame"} /\ m.size \in Nat
  BY DEF VideoMessages
<1>2. /\ video \in VideoState /\ audio \in AudioState /\ Message \in Nat /\ video.nal \in {"IDR", "none"}
      /\ video.header \in Nat /\ video.codec \in {"Unknown", "H264", "H265", "AV1"}
  BY DEF HandlerTypes, VideoState, Message
<1>3. /\ m.format \in {"AVC", "other"} /\ video' = IF m.format = "AVC" /\ m.size = 0 THEN named ELSE parsed
      /\ handled' = Append(handled, <<m, a, a /\ parsed.key>>)
  BY DEF processStandardVideo
<1>4. c \in {"Unknown", "H264", "H265", "AV1"} /\ nal \in {"IDR", "none"} /\ h \in Nat /\ k \in BOOLEAN
  BY <1>1, <1>2
<1>5. named = [video EXCEPT !.key = m.key, !.codec = c]
  BY <1>2 DEF VideoState
<1>6. k <=> IsKey(m)
  BY <1>1 DEF IsKey
<1>7. m \in VideoHeaders <=> m.format # "other" /\ m.packet = "header"
  BY DEF VideoHeaders
<1>8. m \notin AudioHeaders
  BY <1>1 DEF AudioHeaders, AudioMessages
<1>9. h = IF m.format = "AVC" /\ m.packet = "header" THEN Message ELSE video.header
  OBVIOUS
<1>10. a \in BOOLEAN /\ (a <=> ~(m.format = "AVC" /\ m.size = 0))
  OBVIOUS
<1>11. parsed = [named EXCEPT !.nal = nal, !.key = k, !.header = h]
  OBVIOUS
<1> HIDE DEF a, named, nal, k, h, c, parsed
<1>12. named \in VideoState /\ named.header = video.header
  BY <1>1, <1>2, <1>4, <1>5 DEF VideoState
<1>13. parsed \in VideoState /\ parsed.header = h /\ parsed.key = k
  BY <1>4, <1>11, <1>12 DEF VideoState
<1>14. video' \in VideoState /\ video'.header = IF a /\ m \in VideoHeaders THEN Message ELSE video.header
  BY <1>3, <1>7, <1>9, <1>10, <1>12, <1>13
<1>15. audio' \in AudioState /\ audio'.header = IF a /\ m \in AudioHeaders THEN Message ELSE audio.header
  BY <1>2, <1>8
<1> DEFINE r == a /\ parsed.key
<1>16. r \in BOOLEAN /\ (a => (r <=> IsKey(m))) /\ handled' = Append(handled, <<m, a, r>>)
  BY <1>3, <1>4, <1>6, <1>10, <1>13
<1> HIDE DEF r
<1>17. m \in Messages
  BY DEF Messages
<1>18. Takes(m, a, r)
  BY <1>10, <1>14, <1>15, <1>16, <1>17 DEF Takes
<1> QED BY <1>10, <1>16, <1>18

\* MediaHandler::processEnhancedVideo.
LEMMA EnhancedIs ==
  ASSUME HandlerTypes, NEW m \in VideoMessages, processEnhancedVideo(m), UNCHANGED audio
  PROVE  \E a, r \in BOOLEAN : Takes(m, a, r)
<1> DEFINE a == m.size > 0
           nal == IF HasNAL(m) THEN m.nal ELSE video.nal
           k == m.key \/ (HasNAL(m) /\ nal = "IDR")
           h == IF m.packet = "header" THEN Message ELSE video.header
           c == CodecOf(m.format)
           parsed == [video EXCEPT !.codec = c, !.nal = nal, !.key = k, !.header = h]
<1>1. /\ m.media = "Video" /\ m.key \in BOOLEAN /\ m.nal \in {"IDR", "none"}
      /\ m.packet \in {"header", "frame"} /\ m.size \in Nat
  BY DEF VideoMessages
<1>2. /\ video \in VideoState /\ audio \in AudioState /\ Message \in Nat /\ video.nal \in {"IDR", "none"}
      /\ video.header \in Nat /\ video.codec \in {"Unknown", "H264", "H265", "AV1"}
  BY DEF HandlerTypes, VideoState, Message
<1>3. /\ m.format \in {"hvc1", "av01"} /\ video' = IF m.size = 0 THEN video ELSE parsed
      /\ handled' = Append(handled, <<m, a, a /\ parsed.key>>)
  BY DEF processEnhancedVideo, ExtendedFormats
<1>4. nal \in {"IDR", "none"} /\ h \in Nat /\ k \in BOOLEAN
  BY <1>1, <1>2
<1>5. c \in {"Unknown", "H264", "H265", "AV1"}
  BY <1>3 DEF CodecOf
<1>6. k <=> IsKey(m)
  BY <1>1 DEF IsKey
<1>7. m \in VideoHeaders <=> m.packet = "header"
  BY <1>3 DEF VideoHeaders
<1>8. m \notin AudioHeaders
  BY <1>1 DEF AudioHeaders, AudioMessages
<1>9. h = IF m.packet = "header" THEN Message ELSE video.header
  OBVIOUS
<1>10. a \in BOOLEAN /\ (a <=> m.size # 0)
  BY <1>1
<1>11. parsed = [video EXCEPT !.codec = c, !.nal = nal, !.key = k, !.header = h]
  OBVIOUS
<1> HIDE DEF a, nal, k, h, c, parsed
<1>12. parsed \in VideoState /\ parsed.header = h /\ parsed.key = k
  BY <1>2, <1>4, <1>5, <1>11 DEF VideoState
<1>13. video' \in VideoState /\ video'.header = IF a /\ m \in VideoHeaders THEN Message ELSE video.header
  BY <1>2, <1>3, <1>7, <1>9, <1>10, <1>12
<1>14. audio' \in AudioState /\ audio'.header = IF a /\ m \in AudioHeaders THEN Message ELSE audio.header
  BY <1>2, <1>8
<1> DEFINE r == a /\ parsed.key
<1>15. r \in BOOLEAN /\ (a => (r <=> IsKey(m))) /\ handled' = Append(handled, <<m, a, r>>)
  BY <1>3, <1>4, <1>6, <1>10, <1>12
<1> HIDE DEF r
<1>16. m \in Messages
  BY DEF Messages
<1>17. Takes(m, a, r)
  BY <1>10, <1>13, <1>14, <1>15, <1>16 DEF Takes
<1> QED BY <1>10, <1>15, <1>17

\* MediaHandler::processAudio.
LEMMA AudioIs ==
  ASSUME HandlerTypes, NEW m \in AudioMessages, processAudio(m)
  PROVE  \E a, r \in BOOLEAN : Takes(m, a, r)
<1> DEFINE a == m.size > 0
           h == IF m.format = "Opus" \/ m.packet = "header" THEN Message ELSE audio.header
<1>1. /\ m.media = "Audio" /\ m.format \in {"AAC", "Opus", "other"}
      /\ m.packet \in {"header", "frame"} /\ m.size \in Nat
  BY DEF AudioMessages
<1>2. video \in VideoState /\ audio \in AudioState /\ Message \in Nat /\ audio.header \in Nat
  BY DEF HandlerTypes, AudioState, Message
<1>3. /\ audio' = IF m.size = 0 \/ m.format = "other" THEN audio ELSE [codec |-> m.format, header |-> h]
      /\ handled' = Append(handled, <<m, a, FALSE>>) /\ video' = video
  BY DEF processAudio
<1>4. h \in Nat
  BY <1>2
<1>5. m \in AudioHeaders <=> m.format = "Opus" \/ (m.format = "AAC" /\ m.packet = "header")
  BY DEF AudioHeaders
<1>6. m \notin VideoHeaders
  BY <1>1 DEF VideoHeaders, VideoMessages
<1>7. a \in BOOLEAN /\ (a <=> m.size # 0)
  BY <1>1
<1>8. h = IF m.format = "Opus" \/ m.packet = "header" THEN Message ELSE audio.header
  OBVIOUS
<1> HIDE DEF a, h
<1>9. audio' \in AudioState /\ audio'.header = IF a /\ m \in AudioHeaders THEN Message ELSE audio.header
  <2>1. CASE m.size = 0 \/ m.format = "other"
    BY <1>1, <1>2, <1>3, <1>5, <1>7, <2>1
  <2>2. CASE ~ (m.size = 0 \/ m.format = "other")
    <3>1. audio' = [codec |-> m.format, header |-> h] /\ m.format \in {"AAC", "Opus"} /\ a
      BY <1>1, <1>3, <1>7, <2>2
    <3>2. audio' \in AudioState /\ audio'.header = h
      BY <1>4, <3>1 DEF AudioState
    <3> QED BY <1>5, <1>8, <3>1, <3>2
  <2> QED BY <2>1, <2>2
<1>10. video' \in VideoState /\ video'.header = IF a /\ m \in VideoHeaders THEN Message ELSE video.header
  BY <1>2, <1>3, <1>6
<1>11. ~ IsKey(m) /\ m \in Messages
  BY <1>1 DEF IsKey, Messages
<1>12. Takes(m, a, FALSE)
  BY <1>3, <1>7, <1>9, <1>10, <1>11 DEF Takes
<1> QED BY <1>7, <1>12

\* MediaHandler::processData.
LEMMA DataIs ==
  ASSUME HandlerTypes, NEW m \in DataMessages, processData(m)
  PROVE  \E a, r \in BOOLEAN : Takes(m, a, r)
<1>1. m.media = "Data" /\ video \in VideoState /\ audio \in AudioState
  BY DEF DataMessages, HandlerTypes
<1>2. handled' = Append(handled, <<m, TRUE, FALSE>>) /\ video' = video /\ audio' = audio
  BY DEF processData
<1>3. m \notin VideoHeaders /\ m \notin AudioHeaders
  BY <1>1 DEF VideoHeaders, VideoMessages, AudioHeaders, AudioMessages
<1>4. ~ IsKey(m) /\ m \in Messages
  BY <1>1 DEF IsKey, Messages
<1>5. Takes(m, TRUE, FALSE)
  BY <1>1, <1>2, <1>3, <1>4 DEF Takes
<1> QED BY <1>5

\* The newest of a set of positions to which a later one is added, or of none.
LEMMA NewestIs ==
  ASSUME NEW n \in Nat, n # 0, NEW S \in SUBSET (1 .. n - 1)
  PROVE  Newest(S \cup {n}) = n /\ Newest({}) = NoHeader
<1> DEFINE R == S \cup {n}
<1>1. n \in R /\ \A j \in R : j <= n /\ j \in Int
  OBVIOUS
<1>2. \A i \in R : (\A j \in R : j <= i) => i = n
  BY <1>1
<1>3. Newest(R) = CHOOSE i \in R : \A j \in R : j <= i
  BY <1>1 DEF Newest
<1> HIDE DEF R
<1>4. (CHOOSE i \in R : \A j \in R : j <= i) = n
  BY <1>1, <1>2
<1>5. Newest({}) = NoHeader
  BY DEF Newest
<1> QED BY <1>3, <1>4, <1>5 DEF R

\* A message is recorded: those accepted since the reset grow by it, if it is accepted and counts.
LEMMA AcceptedStep ==
  ASSUME HandlerTypes, NEW m, NEW a \in BOOLEAN, NEW r \in BOOLEAN, Takes(m, a, r),
         UNCHANGED sinceReset, NEW M
  PROVE  Newest(Accepted(M))' = IF a /\ m \in M THEN Message ELSE Newest(Accepted(M))
<1> DEFINE l == Len(handled)
           H == Messages \X BOOLEAN \X BOOLEAN
           e == <<m, a, r>>
           S == Accepted(M)
           T == Accepted(M)'
<1>1. handled \in Seq(H) /\ l \in Nat /\ sinceReset \in 1 .. l + 1 /\ sinceReset' = sinceReset
  BY DEF HandlerTypes
<1>2. handled' = Append(handled, e) /\ e[1] = m /\ e[2] = a
  BY DEF Takes
<1> HIDE DEF e, H
<1>3. Len(handled') = l + 1 /\ handled'[l + 1] = e /\ \A i \in 1 .. l : handled'[i] = handled[i]
  BY <1>1, <1>2
<1>4. S = {i \in sinceReset .. l : handled[i][2] /\ handled[i][1] \in M}
  BY DEF Accepted
<1>5. T = {i \in sinceReset .. l + 1 : handled'[i][2] /\ handled'[i][1] \in M}
  BY <1>1, <1>3 DEF Accepted
<1> HIDE DEF S, T
<1>6. \A i \in sinceReset .. l : i \in T <=> i \in S
  BY <1>1, <1>3, <1>4, <1>5
<1>7. l + 1 \in T <=> (a /\ m \in M)
  BY <1>1, <1>2, <1>3, <1>5
<1>8. T = IF a /\ m \in M THEN S \cup {l + 1} ELSE S
  <2>1. S \subseteq sinceReset .. l
    BY <1>4
  <2>2. T \subseteq (sinceReset .. l) \cup {l + 1}
    BY <1>1, <1>5
  <2>3. l + 1 \notin S
    BY <1>1, <2>1
  <2> DEFINE n == l + 1
             R == sinceReset .. l
  <2>4. /\ \A i \in R : i \in T <=> i \in S
        /\ n \in T <=> (a /\ m \in M)
        /\ S \subseteq R /\ T \subseteq R \cup {n} /\ n \notin S
    BY <1>6, <1>7, <2>1, <2>2, <2>3
  <2> HIDE DEF n, R
  <2>5. CASE a /\ m \in M
    BY <2>4, <2>5 DEF n
  <2>6. CASE ~ (a /\ m \in M)
    BY <2>4, <2>6 DEF n
  <2> QED BY <2>5, <2>6
<1>9. S \in SUBSET (1 .. (l + 1) - 1) /\ l + 1 \in Nat /\ l + 1 # 0
  BY <1>1, <1>4
<1>10. Newest(S \cup {l + 1}) = l + 1
  <2> DEFINE n == l + 1
  <2>1. S \in SUBSET (1 .. n - 1) /\ n \in Nat /\ n # 0
    BY <1>9
  <2> HIDE DEF n
  <2>2. Newest(S \cup {n}) = n
    BY <2>1, NewestIs
  <2> QED BY <2>2 DEF n
<1>11. Newest(T) = IF a /\ m \in M THEN l + 1 ELSE Newest(S)
  BY <1>8, <1>10
<1>12. Newest(Accepted(M))' = Newest(T)
  BY DEF T, Newest
<1> QED BY <1>11, <1>12 DEF Message, S

\* The messages held by threads.
LEMMA HeldIs ==
  ASSUME NEW l \in Nat, NEW f \in [HandlerThreads -> {<<>>} \cup {<<i>> : i \in 1 .. l}]
  PROVE  \A i : i \in Held(f) <=> \E t \in HandlerThreads : f[t] = <<i>>
<1>1. \A t \in HandlerThreads : f[t] = <<>> \/ \E k \in 1 .. l : f[t] = <<k>>
  OBVIOUS
<1>2. ASSUME NEW i, NEW t \in HandlerThreads
      PROVE  (\E j \in DOMAIN f[t] : f[t][j] = i) <=> f[t] = <<i>>
  <2>1. CASE f[t] = <<>>
    <3>1. DOMAIN f[t] = {} /\ <<>> # <<i>>
      BY <2>1
    <3> QED BY <2>1, <3>1
  <2>2. CASE \E k \in 1 .. l : f[t] = <<k>>
    <3>1. PICK k : f[t] = <<k>>
      BY <2>2
    <3>2. DOMAIN f[t] = {1} /\ f[t][1] = k
      BY <3>1
    <3>3. <<k>> = <<i>> <=> k = i
      OBVIOUS
    <3> QED BY <3>1, <3>2, <3>3
  <2> QED BY <1>1, <2>1, <2>2
<1> QED BY <1>2 DEF Held

\* MediaHandled in terms of these.
LEMMA HandledIs ==
  MediaHandled <=>
    /\ video.header = Newest(Accepted(VideoHeaders))
    /\ audio.header = Newest(Accepted(AudioHeaders))
    /\ \A i \in DOMAIN handled : handled[i][2] => (handled[i][3] <=> IsKey(handled[i][1]))
    /\ forwards \cup Held(forwarding) = {i \in DOMAIN handled : handled[i][2]}
BY DEF MediaHandled, IsKey, Held

\* Nothing is processed at first.
LEMMA HandlerStart ==
  ASSUME HandlerInit
  PROVE  HandlerInv
<1>1. /\ video = NoVideo /\ audio = NoAudio /\ handled = <<>> /\ sinceReset = 1 /\ forwards = {}
      /\ forwarding = [t \in HandlerThreads |-> <<>>]
  BY DEF HandlerInit
<1>2. /\ video \in VideoState /\ audio \in AudioState /\ video.header = NoHeader
      /\ audio.header = NoHeader
  BY <1>1 DEF NoVideo, NoAudio, NoHeader, VideoState, AudioState
<1>3. handled \in Seq(Messages \X BOOLEAN \X BOOLEAN) /\ Len(handled) = 0 /\ DOMAIN handled = {}
  BY <1>1
<1>4. sinceReset \in 1 .. Len(handled) + 1
  BY <1>1, <1>3
<1>5. forwarding \in [HandlerThreads -> {<<>>} \cup {<<i>> : i \in 1 .. Len(handled)}]
  BY <1>1
<1>6. HandlerTypes
  BY <1>2, <1>3, <1>4, <1>5 DEF HandlerTypes
<1>7. \A M : Newest(Accepted(M)) = NoHeader
  <2> TAKE M
  <2>1. Accepted(M) = {}
    BY <1>1, <1>3 DEF Accepted
  <2> QED BY <2>1 DEF Newest
<1>8. Held(forwarding) = {}
  <2>1. \A t \in HandlerThreads : \A i : forwarding[t] # <<i>>
    BY <1>1
  <2>2. \A i : i \notin Held(forwarding)
    BY <1>1, <1>3, <1>5, <2>1, HeldIs
  <2> QED BY <2>2
<1>9. MediaHandled
  BY <1>1, <1>2, <1>3, <1>7, <1>8, HandledIs
<1> QED BY <1>6, <1>9 DEF HandlerInv

\* A message is processed by the thread t.
LEMMA TakesStep ==
  ASSUME HandlerInv, NEW t \in HandlerThreads, forwarding[t] = <<>>,
         NEW m, NEW a \in BOOLEAN, NEW r \in BOOLEAN, Takes(m, a, r),
         forwarding' = [forwarding EXCEPT ![t] = IF a THEN <<Message>> ELSE <<>>],
         UNCHANGED <<sinceReset, forwards>>
  PROVE  HandlerInv'
<1> DEFINE l == Len(handled)
           H == Messages \X BOOLEAN \X BOOLEAN
           e == <<m, a, r>>
           w == IF a THEN <<l + 1>> ELSE <<>>
<1>1. /\ handled \in Seq(H) /\ l \in Nat /\ sinceReset \in 1 .. l + 1 /\ sinceReset' = sinceReset
      /\ forwards' = forwards /\ DOMAIN handled = 1 .. l
      /\ forwarding \in [HandlerThreads -> {<<>>} \cup {<<i>> : i \in 1 .. l}]
  BY DEF HandlerInv, HandlerTypes
<1>2. handled' = Append(handled, e) /\ e[1] = m /\ e[2] = a /\ e[3] = r /\ e \in H
  BY DEF Takes
<1>3. forwarding' = [forwarding EXCEPT ![t] = w]
  BY DEF Message
<1>4. HandlerTypes /\ MediaHandled
  BY DEF HandlerInv
<1> HIDE DEF e, H
<1>5. /\ handled' \in Seq(H) /\ Len(handled') = l + 1 /\ handled'[l + 1] = e
      /\ (\A i \in 1 .. l : handled'[i] = handled[i]) /\ DOMAIN handled' = 1 .. l + 1
  BY <1>1, <1>2
<1>6. /\ w \in {<<>>} \cup {<<i>> : i \in 1 .. l + 1}
      /\ \A x \in {<<>>} \cup {<<i>> : i \in 1 .. l} : x \in {<<>>} \cup {<<i>> : i \in 1 .. l + 1}
  <2>1. l + 1 \in 1 .. l + 1 /\ \A i \in 1 .. l : i \in 1 .. l + 1
    BY <1>1
  <2> QED BY <2>1
<1>7. forwarding' \in [HandlerThreads -> {<<>>} \cup {<<i>> : i \in 1 .. l + 1}]
  <2> DEFINE A == {<<>>} \cup {<<i>> : i \in 1 .. l}
             B == {<<>>} \cup {<<i>> : i \in 1 .. l + 1}
  <2>1. forwarding \in [HandlerThreads -> A] /\ w \in B /\ \A x \in A : x \in B
    BY <1>1, <1>6
  <2> HIDE DEF A, B, w
  <2>2. forwarding' \in [HandlerThreads -> B]
    BY <1>3, <2>1
  <2> QED BY <2>2 DEF B
<1>8. HandlerTypes'
  <2>1. sinceReset' \in 1 .. Len(handled') + 1
    BY <1>1, <1>5
  <2>2. video' \in VideoState /\ audio' \in AudioState
    BY DEF Takes
  <2>3. forwarding' \in [HandlerThreads -> {<<>>} \cup {<<i>> : i \in 1 .. Len(handled')}]
    BY <1>5, <1>7
  <2> QED BY <1>5, <2>1, <2>2, <2>3 DEF HandlerTypes, H
<1>9. /\ video'.header = Newest(Accepted(VideoHeaders))'
      /\ audio'.header = Newest(Accepted(AudioHeaders))'
  <2>1. /\ video.header = Newest(Accepted(VideoHeaders))
        /\ audio.header = Newest(Accepted(AudioHeaders))
    BY <1>4, HandledIs
  <2>2. \A M : Newest(Accepted(M))' = IF a /\ m \in M THEN Message ELSE Newest(Accepted(M))
    BY <1>1, <1>4, AcceptedStep
  <2>3. /\ video'.header = IF a /\ m \in VideoHeaders THEN Message ELSE video.header
        /\ audio'.header = IF a /\ m \in AudioHeaders THEN Message ELSE audio.header
    BY DEF Takes
  <2>4. Newest(Accepted(VideoHeaders))' = IF a /\ m \in VideoHeaders THEN Message ELSE Newest(Accepted(VideoHeaders))
    BY <1>1, <1>4, AcceptedStep
  <2>5. Newest(Accepted(AudioHeaders))' = IF a /\ m \in AudioHeaders THEN Message ELSE Newest(Accepted(AudioHeaders))
    BY <1>1, <1>4, AcceptedStep
  <2> QED BY <2>1, <2>3, <2>4, <2>5
<1>10. \A i \in DOMAIN handled' : handled'[i][2] => (handled'[i][3] <=> IsKey(handled'[i][1]))
  <2>1. \A i \in 1 .. l : handled[i][2] => (handled[i][3] <=> IsKey(handled[i][1]))
    BY <1>1, <1>4, HandledIs
  <2>2. a => (r <=> IsKey(m))
    BY DEF Takes
  <2>3. ASSUME NEW i \in 1 .. l + 1
        PROVE  handled'[i][2] => (handled'[i][3] <=> IsKey(handled'[i][1]))
    <3>1. CASE i \in 1 .. l
      BY <1>5, <2>1, <3>1
    <3>2. CASE i = l + 1
      BY <1>2, <1>5, <2>2, <3>2
    <3> QED BY <1>1, <3>1, <3>2
  <2> QED BY <1>5, <2>3
<1>11. forwards' \cup Held(forwarding') = {i \in DOMAIN handled' : handled'[i][2]}
  <2> DEFINE n == l + 1
             P == Held(forwarding)
             Q == Held(forwarding')
  <2>1. \A i : i \in P <=> \E s \in HandlerThreads : forwarding[s] = <<i>>
    BY <1>1, HeldIs
  <2>2. \A i : i \in Q <=> \E s \in HandlerThreads : forwarding'[s] = <<i>>
    <3>1. n \in Nat /\ forwarding' \in [HandlerThreads -> {<<>>} \cup {<<i>> : i \in 1 .. n}]
      BY <1>1, <1>7
    <3> HIDE DEF n, w
    <3> QED BY <3>1, HeldIs
  <2>3. \A s \in HandlerThreads : forwarding'[s] = IF s = t THEN w ELSE forwarding[s]
    BY <1>1, <1>3
  <2>4. \A i : <<>> # <<i>> /\ (<<n>> = <<i>> <=> n = i)
    OBVIOUS
  <2>5. w = IF a THEN <<n>> ELSE <<>>
    OBVIOUS
  <2> HIDE DEF P, Q, w, n
  <2>6. \A i : i \in Q <=> (i \in P \/ (a /\ i = n))
    <3> TAKE i
    <3>1. ASSUME i \in P
          PROVE  i \in Q
      <4>1. PICK s \in HandlerThreads : forwarding[s] = <<i>>
        BY <2>1, <3>1
      <4>2. s # t
        BY <2>4, <4>1
      <4> QED BY <2>2, <2>3, <4>1, <4>2
    <3>2. ASSUME a, i = n
          PROVE  i \in Q
      BY <2>2, <2>3, <2>5, <3>2
    <3>3. ASSUME i \in Q
          PROVE  i \in P \/ (a /\ i = n)
      <4>1. PICK s \in HandlerThreads : forwarding'[s] = <<i>>
        BY <2>2, <3>3
      <4>2. CASE s = t
        <5>1. w = <<i>>
          BY <2>3, <4>1, <4>2
        <5> QED BY <2>4, <2>5, <5>1
      <4>3. CASE s # t
        BY <2>1, <2>3, <4>1, <4>3
      <4> QED BY <4>2, <4>3
    <3> QED BY <3>1, <3>2, <3>3
  <2>7. forwards \cup P = {i \in 1 .. l : handled[i][2]}
    BY <1>1, <1>4, HandledIs DEF P
  <2>8. \A i : i \in 1 .. l + 1 <=> (i \in 1 .. l \/ i = n)
    BY <1>1 DEF n
  <2>9. handled'[n][2] = a /\ \A i \in 1 .. l : handled'[i][2] = handled[i][2]
    BY <1>2, <1>5 DEF n
  <2> HIDE DEF l
  <2>10. \A i : i \in forwards \cup Q <=> (i \in 1 .. l + 1 /\ handled'[i][2])
    <3> TAKE i
    <3>1. i \in forwards \cup P <=> (i \in 1 .. l /\ handled[i][2])
      BY <2>7
    <3>2. i \in forwards \cup Q <=> (i \in forwards \cup P \/ (a /\ i = n))
      BY <2>6
    <3>3. i \in 1 .. l => handled'[i][2] = handled[i][2]
      BY <2>9
    <3>4. i = n => handled'[i][2] = a
      BY <2>9
    <3> QED BY <2>8, <3>1, <3>2, <3>3, <3>4
  <2>11. forwards \cup Q = {i \in 1 .. l + 1 : handled'[i][2]}
    BY <2>10
  <2> QED BY <1>1, <1>5, <2>11 DEF Q, l
<1>12. MediaHandled'
  BY <1>9, <1>10, <1>11 DEF MediaHandled, IsKey, Held
<1> QED BY <1>8, <1>12 DEF HandlerInv

\* MediaHandler::forwardMedia: a thread forwards what it holds.
LEMMA ForwardStep ==
  ASSUME HandlerInv, NEW t \in HandlerThreads, forwardMedia(t)
  PROVE  HandlerInv'
<1> DEFINE l == Len(handled)
           w == <<>>
<1>1. /\ handled \in Seq(Messages \X BOOLEAN \X BOOLEAN) /\ l \in Nat
      /\ forwarding \in [HandlerThreads -> {<<>>} \cup {<<i>> : i \in 1 .. l}]
      /\ HandlerTypes /\ MediaHandled
  BY DEF HandlerInv, HandlerTypes
<1>2. /\ forwarding[t] # <<>> /\ forwards' = forwards \cup {forwarding[t][1]}
      /\ forwarding' = [forwarding EXCEPT ![t] = <<>>]
      /\ UNCHANGED <<video, audio, handled, sinceReset>>
  BY DEF forwardMedia
<1>3. PICK k \in 1 .. l : forwarding[t] = <<k>>
  BY <1>1, <1>2
<1>4. forwards' = forwards \cup {k}
  BY <1>2, <1>3
<1>5. forwarding' \in [HandlerThreads -> {<<>>} \cup {<<i>> : i \in 1 .. l}]
  <2> DEFINE A == {<<>>} \cup {<<i>> : i \in 1 .. l}
  <2>1. forwarding \in [HandlerThreads -> A] /\ w \in A
    BY <1>1
  <2> HIDE DEF A, w
  <2>2. forwarding' = [forwarding EXCEPT ![t] = w]
    BY <1>2 DEF w
  <2>3. forwarding' \in [HandlerThreads -> A]
    BY <2>1, <2>2
  <2> QED BY <2>3 DEF A
<1>6. HandlerTypes'
  BY <1>1, <1>2, <1>5 DEF HandlerTypes
<1>7. forwards' \cup Held(forwarding') = forwards \cup Held(forwarding)
  <2> DEFINE P == Held(forwarding)
             Q == Held(forwarding')
  <2>1. \A i : i \in P <=> \E s \in HandlerThreads : forwarding[s] = <<i>>
    BY <1>1, HeldIs
  <2>2. \A i : i \in Q <=> \E s \in HandlerThreads : forwarding'[s] = <<i>>
    BY <1>1, <1>5, HeldIs
  <2>3. \A s \in HandlerThreads : forwarding'[s] = IF s = t THEN <<>> ELSE forwarding[s]
    BY <1>1, <1>2
  <2> HIDE DEF P, Q
  <2>4. ASSUME NEW i \in P
        PROVE  i = k \/ i \in Q
    <3>1. PICK s \in HandlerThreads : forwarding[s] = <<i>>
      BY <2>1
    <3>2. <<i>> = <<k>> => i = k
      OBVIOUS
    <3> QED BY <1>3, <2>2, <2>3, <3>1, <3>2
  <2>5. ASSUME NEW i \in Q
        PROVE  i \in P
    <3>1. PICK s \in HandlerThreads : forwarding'[s] = <<i>>
      BY <2>2
    <3>2. <<>> # <<i>>
      OBVIOUS
    <3> QED BY <2>1, <2>3, <3>1, <3>2
  <2>6. k \in P
    BY <1>3, <2>1
  <2>7. forwards' \cup Q = forwards \cup P
    BY <1>4, <2>4, <2>5, <2>6
  <2> QED BY <2>7 DEF P, Q
<1>8. MediaHandled'
  <2>1. /\ forwards \cup Held(forwarding) = {i \in DOMAIN handled : handled[i][2]}
        /\ video.header = Newest(Accepted(VideoHeaders))
        /\ audio.header = Newest(Accepted(AudioHeaders))
        /\ \A i \in DOMAIN handled : handled[i][2] => (handled[i][3] <=> IsKey(handled[i][1]))
    BY <1>1, HandledIs
  <2>2. \A M : Accepted(M)' = Accepted(M)
    BY <1>2 DEF Accepted
  <2>3. /\ video'.header = Newest(Accepted(VideoHeaders)')
        /\ audio'.header = Newest(Accepted(AudioHeaders)')
    BY <1>2, <2>1, <2>2
  <2>4. forwards' \cup Held(forwarding') = {i \in DOMAIN handled' : handled'[i][2]}
    BY <1>2, <1>7, <2>1
  <2>5. \A i \in DOMAIN handled' : handled'[i][2] => (handled'[i][3] <=> IsKey(handled'[i][1]))
    BY <1>2, <2>1
  <2> QED BY <2>3, <2>4, <2>5 DEF MediaHandled, IsKey, Held, Newest
<1> QED BY <1>6, <1>8 DEF HandlerInv

\* MediaHandler::reset.
LEMMA ResetStep ==
  ASSUME HandlerInv, resetHandler
  PROVE  HandlerInv'
<1>1. /\ handled \in Seq(Messages \X BOOLEAN \X BOOLEAN) /\ Len(handled) \in Nat
      /\ HandlerTypes /\ MediaHandled
  BY DEF HandlerInv, HandlerTypes
<1>2. /\ video' = NoVideo /\ audio' = NoAudio /\ sinceReset' = Len(handled) + 1
      /\ UNCHANGED <<forwarding, handled, forwards>>
  BY DEF resetHandler, Message
<1>3. /\ video' \in VideoState /\ audio' \in AudioState /\ video'.header = NoHeader
      /\ audio'.header = NoHeader
  BY <1>2 DEF NoVideo, NoAudio, NoHeader, VideoState, AudioState
<1>4. sinceReset' \in 1 .. Len(handled) + 1
  BY <1>1, <1>2
<1>5. HandlerTypes'
  BY <1>1, <1>2, <1>3, <1>4 DEF HandlerTypes
<1>6. \A M : Accepted(M)' = {}
  <2>1. \A i : i \notin (Len(handled) + 1) .. Len(handled)
    BY <1>1
  <2> QED BY <1>2, <2>1 DEF Accepted
<1>7. Newest({}) = NoHeader
  BY DEF Newest
<1>8. MediaHandled'
  <2>1. /\ forwards \cup Held(forwarding) = {i \in DOMAIN handled : handled[i][2]}
        /\ \A i \in DOMAIN handled : handled[i][2] => (handled[i][3] <=> IsKey(handled[i][1]))
    BY <1>1, HandledIs
  <2>2. /\ video'.header = Newest(Accepted(VideoHeaders)')
        /\ audio'.header = Newest(Accepted(AudioHeaders)')
    BY <1>3, <1>6, <1>7
  <2> QED BY <1>2, <2>1, <2>2 DEF MediaHandled, IsKey, Held, Newest
<1> QED BY <1>5, <1>8 DEF HandlerInv

\* Every step keeps the handler's invariant.
LEMMA HandlerStep ==
  ASSUME HandlerInv, HandlerNext
  PROVE  HandlerInv'
<1>1. CASE resetHandler
  BY <1>1, ResetStep
<1>2. ASSUME NEW t \in HandlerThreads, forwardMedia(t)
      PROVE  HandlerInv'
  BY <1>2, ForwardStep
<1>3. ASSUME NEW t \in HandlerThreads, processMedia(t)
      PROVE  HandlerInv'
  <2>1. forwarding[t] = <<>> /\ UNCHANGED <<sinceReset, forwards>> /\ HandlerTypes
    BY <1>3 DEF processMedia, HandlerInv
  <2>2. \E m : \E a, r \in BOOLEAN : Takes(m, a, r)
    <3>1. CASE \E m \in VideoMessages :
                 (processStandardVideo(m) \/ processEnhancedVideo(m)) /\ UNCHANGED <<audio, metadata>>
      BY <2>1, <3>1, StandardIs, EnhancedIs
    <3>2. CASE \E m \in AudioMessages : processAudio(m)
      BY <2>1, <3>2, AudioIs
    <3>3. CASE \E m \in DataMessages : processData(m)
      BY <2>1, <3>3, DataIs
    <3> QED BY <1>3, <3>1, <3>2, <3>3 DEF processMedia
  <2>3. PICK m : \E a, r \in BOOLEAN : Takes(m, a, r)
    BY <2>2
  <2>4. PICK a \in BOOLEAN, r \in BOOLEAN : Takes(m, a, r)
    BY <2>3
  <2>5. forwarding' = [forwarding EXCEPT ![t] = IF a THEN <<Message>> ELSE <<>>]
    <3> DEFINE H == Messages \X BOOLEAN \X BOOLEAN
               e == <<m, a, r>>
    <3>1. handled \in Seq(H) /\ handled' = Append(handled, e) /\ e[2] = a
      BY <2>1, <2>4 DEF HandlerTypes, Takes
    <3> HIDE DEF H, e
    <3>2. handled'[Message] = e
      BY <3>1 DEF Message
    <3>3. forwarding' = [forwarding EXCEPT ![t] = IF handled'[Message][2] THEN <<Message>> ELSE <<>>]
      BY <1>3 DEF processMedia
    <3> QED BY <3>1, <3>2, <3>3
  <2> QED BY <2>1, <2>4, <2>5, TakesStep
<1> QED BY <1>1, <1>2, <1>3 DEF HandlerNext

-----------------------------------------------------------------------------
(* The runs' properties *)

\* GOPBuffer: whatever is pushed, and whatever limits are set meanwhile, the cache offers the group
\* of pictures on the air, whole if it has fitted, and exceeds its size only while that group does.
THEOREM CachesAreSound == StreamingSpec => []CacheSound
<1>1. StreamingInit => CacheInv
  BY CacheStart DEF StreamingInit
<1>2. CacheInv /\ [StreamingNext]_streamingVars => CacheInv'
  <2> SUFFICES ASSUME CacheInv, [StreamingNext]_streamingVars
               PROVE  CacheInv'
    OBVIOUS
  <2>1. CASE BuffersNext
    BY <2>1, CacheStep
  <2>2. CASE UNCHANGED bufferVars
    BY <2>2 DEF CacheInv, bufferVars
  <2> QED BY <2>1, <2>2, OneComponent
<1>3. CacheInv => CacheSound
  BY CacheFollows DEF CacheSound
<1> QED BY <1>1, <1>2, <1>3, PTL DEF StreamingSpec

\* The queue's invariant holds in every state.
LEMMA QueueHolds == StreamingSpec => []QueueInv
<1>1. StreamingInit => QueueInv
  BY QueueStart DEF StreamingInit
<1>2. QueueInv /\ [StreamingNext]_streamingVars => QueueInv'
  <2> SUFFICES ASSUME QueueInv, [StreamingNext]_streamingVars
               PROVE  QueueInv'
    OBVIOUS
  <2>1. CASE BuffersNext
    BY <2>1, QueueStep
  <2>2. CASE UNCHANGED bufferVars
    BY <2>2 DEF QueueInv, bufferVars
  <2> QED BY <2>1, <2>2, OneComponent
<1> QED BY <1>1, <1>2, PTL DEF StreamingSpec

\* SubscriberBuffer: through any calls the queue keeps to its limit as far as it may drop, loses no
\* keyframe and no audio it is told to preserve, stays in order and accounts for every frame.
THEOREM QueuesAreSound == StreamingSpec => []QueueSound
<1>1. QueueInv => QueueSound
  BY QueueFollows DEF QueueSound
<1> QED BY <1>1, QueueHolds, PTL

\* Nothing is lost silently: a frame that fits in a queue is taken in and displaces none, and no
\* subscriber is removed at the end of a stream that has not been told.
THEOREM LossesAreTold == StreamingSpec => NothingLostSilently
<1>1. StreamingInit => DistributionInv
  BY DistributionStart DEF StreamingInit
<1>2. DistributionInv /\ [StreamingNext]_streamingVars => DistributionInv'
  BY OneComponent, DistributionStep
<1>3. DistributionInv => EndIsAnnounced
  BY FeedsFollow
<1>4. QueueInv /\ [StreamingNext]_streamingVars => DropsOnlyOnOverflow
  <2> SUFFICES ASSUME QueueInv, [StreamingNext]_streamingVars
               PROVE  DropsOnlyOnOverflow
    OBVIOUS
  <2>1. CASE BuffersNext
    BY <2>1, OverflowOnly
  <2>2. CASE UNCHANGED bufferVars
    BY <2>2 DEF DropsOnlyOnOverflow, QueueInv, bufferVars
  <2> QED BY <2>1, <2>2, OneComponent
<1>5. DistributionInv /\ QueueInv /\ [StreamingNext]_streamingVars
        => [DropsOnlyOnOverflow /\ EndIsAnnounced]_streamingVars
  BY <1>3, <1>4
<1> QED BY <1>1, <1>2, <1>5, QueueHolds, PTL DEF StreamingSpec, NothingLostSilently

\* MediaHandler: for any messages, threads and resets the kept headers are those of the newest
\* accepted header messages, every keyframe is reported and nothing else is, and all that is
\* accepted, and nothing that is refused, is forwarded or about to be.
THEOREM MediaIsHandled == StreamingSpec => []MediaHandled
<1>1. StreamingInit => HandlerInv
  BY HandlerStart DEF StreamingInit
<1>2. HandlerInv /\ [StreamingNext]_streamingVars => HandlerInv'
  <2> SUFFICES ASSUME HandlerInv, [StreamingNext]_streamingVars
               PROVE  HandlerInv'
    OBVIOUS
  <2>1. CASE HandlerNext
    BY <2>1, HandlerStep
  <2>2. CASE UNCHANGED handlerVars
    <3>1. /\ HandlerTypes /\ MediaHandled
          /\ UNCHANGED <<video, audio, forwarding, handled, sinceReset, forwards>>
      BY <2>2 DEF HandlerInv, handlerVars
    <3>2. HandlerTypes'
      BY <3>1 DEF HandlerTypes
    <3>3. \A M : Accepted(M)' = Accepted(M)
      BY <3>1 DEF Accepted
    <3>4. /\ video'.header = Newest(Accepted(VideoHeaders)')
          /\ audio'.header = Newest(Accepted(AudioHeaders)')
      BY <3>1, <3>3 DEF MediaHandled
    <3>5. MediaHandled'
      BY <3>1, <3>4 DEF MediaHandled, Newest
    <3> QED BY <3>2, <3>5 DEF HandlerInv
  <2> QED BY <2>1, <2>2, OneComponent
<1>3. HandlerInv => MediaHandled
  BY DEF HandlerInv
<1> QED BY <1>1, <1>2, <1>3, PTL DEF StreamingSpec
===============================================================================
