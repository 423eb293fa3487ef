------------------------------ MODULE GOPBuffer ------------------------------
(***************************************************************************)
(* streaming::GOPBuffer, the cache a new subscriber of a stream starts     *)
(* from.  Every method holds the buffer's mutex throughout, so a method is *)
(* an operator on the record of the buffer's members.  A frame is what     *)
(* BufferedFrame tells about it: kind, timestamp and size, and its number  *)
(* in the order of publication (0 for a header made up by the server).     *)
(***************************************************************************)
EXTENDS Integers, Sequences, SequencesExt, FiniteSets, FiniteSetsExt

\* Keyframes are larger than the frames between them.
FrameSize(kind) == IF kind = "keyframe" THEN 2 ELSE 1

Times(s) == {s[i].time : i \in 1 .. Len(s)}

\* Newest minus oldest timestamp, whatever the order of the frames.
Duration(s) == IF s = <<>> THEN 0 ELSE Max(Times(s)) - Min(Times(s))

Keyframes(s) == {i \in 1 .. Len(s) : s[i].kind = "keyframe"}

\* The sum of the frames' sizes: one each, and one more for a keyframe.
Bytes(s) == Len(s) + Cardinality(Keyframes(s))

From(s, i) == SubSeq(s, i, Len(s))

\* lastKeyframe is 0 where hasKeyframe_ is false.
NewGOPBuffer(config) ==
  [frames |-> <<>>, bytes |-> 0, lastKeyframe |-> 0, metadata |-> FALSE, headers |-> FALSE,
   config |-> config]

\* Mutant: the position of the keyframe is not looked up again.
keyframeIndexStale(g) == g

updateKeyframeIndex(g) ==
  [g EXCEPT !.lastKeyframe = IF Keyframes(g.frames) = {} THEN 0 ELSE Max(Keyframes(g.frames))]

\* The frames before position b are given up.
evictTo(g, b) ==
  updateKeyframeIndex([g EXCEPT !.frames = From(@, b),
                                !.bytes = @ - Bytes(SubSeq(g.frames, 1, b - 1))])

\* Where a buffer with less than two keyframes is cut: as late as its size asks for.
frontBoundary(s, config) == Min({b \in 1 .. Len(s) + 1 : Bytes(From(s, b)) <= config.maxBytes})

\* Mutant: the duration is kept even if the last group would fit.
gopBoundaryTimid(s, config) ==
  Max({1} \cup {b \in Keyframes(s) \ {Min(Keyframes(s))} :
                  Max(Times(s)) - Min(Times(From(s, b))) >= config.minDuration})

\* Where a buffer with several keyframes is cut: at the first later keyframe behind which
\* enough time and few enough bytes are left; else at the last with enough time.
gopBoundary(s, config) ==
  LET kfs        == Keyframes(s)
      Fits(b)    == Bytes(From(s, b)) <= config.maxBytes
      candidates == {b \in kfs \ {Min(kfs)} :
                       \/ Max(Times(s)) - Min(Times(From(s, b))) >= config.minDuration
                       \/ Fits(b) /\ b = Max(kfs)}
      fitting    == {b \in candidates : Fits(b)}
  IN  IF fitting # {} THEN Min(fitting) ELSE Max(candidates \cup {1})

needsEviction(g) ==
  g.bytes > g.config.maxBytes \/ Duration(g.frames) > 2 * g.config.minDuration

evictOldFrames(g) ==
  IF ~ needsEviction(g)
  THEN g
  ELSE evictTo(g, IF Cardinality(Keyframes(g.frames)) < 2
                  THEN frontBoundary(g.frames, g.config)
                  ELSE gopBoundary(g.frames, g.config))

gopPush(g, f) ==
  evictOldFrames([g EXCEPT !.frames = Append(@, f),
                           !.bytes = @ + FrameSize(f.kind),
                           !.lastKeyframe = IF f.kind = "keyframe" THEN Len(g.frames) + 1 ELSE @])

\* Mutant: the copy begins one frame late.
copyBeginsLate(g) == IF g.lastKeyframe = 0 THEN <<>> ELSE From(g.frames, g.lastKeyframe + 1)

getFromLastKeyframe(g) == IF g.lastKeyframe = 0 THEN <<>> ELSE From(g.frames, g.lastKeyframe)

gopSetConfig(g, config) == evictOldFrames([g EXCEPT !.config = config])

\* clear keeps metadata and headers, reset does not.
gopClear(g) == [g EXCEPT !.frames = <<>>, !.bytes = 0, !.lastKeyframe = 0]

gopReset(g) == NewGOPBuffer(g.config)
==============================================================================
