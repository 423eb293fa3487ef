----------------------------- MODULE MediaHandler -----------------------------
(***************************************************************************)
(* streaming::MediaHandler.  A message is what its header bytes say: the   *)
(* format, the frame type, the packet type, whether the payload is long    *)
(* enough, and the type of the first NAL unit.  Processing is under mutex_ *)
(* (keyframe and metadata callbacks included); forwarding is not, and      *)
(* reads the forward callback without it.                                  *)
(***************************************************************************)
EXTENDS Naturals, Sequences, FiniteSets

CONSTANTS
  HandlerThreads,     \* threads that process media or reset
  MaxMessages         \* bound: messages processed
ASSUME HandlerAssumption == MaxMessages \in Nat

VARIABLES
  video,         \* videoCodec_, hasVideoSeqHeader_, lastFrameIsKeyframe_, lastNALUnitType_, header
  audio,         \* audioCodec_, hasAudioSeqHeader_, header
  enhanced,      \* isEnhancedRTMP_
  metadata,      \* hasMetadata_
  forwarding,    \* per thread: messages accepted and not yet forwarded
  handled,       \* history: messages processed: <<message, accepted, keyframe reported>>
  sinceReset,    \* history: first message after the last reset
  forwards       \* history: messages forwarded, as positions in handled
handlerVars == <<video, audio, enhanced, metadata, forwarding, handled, sinceReset, forwards>>

VideoFormats == {"AVC", "other", "hvc1", "av01"}
ExtendedFormats == {"hvc1", "av01"}
\* size: 0 too short to be accepted, 1 accepted, 2 long enough for a NAL unit
VideoMessages == [media : {"Video"}, format : VideoFormats, key : BOOLEAN,
                  packet : {"header", "frame"}, size : 0..2, nal : {"IDR", "none"}]
AudioMessages == [media : {"Audio"}, format : {"AAC", "Opus", "other"}, packet : {"header", "frame"}, size : 0..1]
DataMessages == [media : {"Data"}]
NoHeader == 0

NoVideo == [codec |-> "Unknown", header |-> NoHeader, key |-> FALSE, nal |-> "none"]
NoAudio == [codec |-> "Unknown", header |-> NoHeader]

HandlerInit ==
  /\ video = NoVideo /\ audio = NoAudio /\ enhanced = FALSE /\ metadata = FALSE
  /\ forwarding = [t \in HandlerThreads |-> <<>>]
  /\ handled = <<>> /\ sinceReset = 1 /\ forwards = {}

Message == Len(handled) + 1     \* the message being processed

CodecOf(format) == CASE format = "AVC" -> "H264" [] format = "hvc1" -> "H265"
                     [] format = "av01" -> "AV1" [] OTHER -> "Unknown"

\* Formats whose first NAL unit is looked at, in frames long enough.
HasNAL(m) == m.format \in {"AVC", "hvc1"} /\ m.packet = "frame" /\ m.size = 2

\* A short AVC payload is refused after the codec and the key flag were set;
\* a short extended one before anything was.
processStandardVideo(m) ==
  LET named  == [video EXCEPT !.key = m.key, !.codec = IF m.format = "AVC" THEN "H264" ELSE @]
      nal    == IF HasNAL(m) THEN m.nal ELSE video.nal
      parsed == [named EXCEPT !.nal = nal, !.key = m.key \/ (HasNAL(m) /\ nal = "IDR"),
                              !.header = IF m.format = "AVC" /\ m.packet = "header" THEN Message ELSE @]
  IN  /\ m.format \in {"AVC", "other"}
      /\ UNCHANGED enhanced
      /\ video' = IF m.format = "AVC" /\ m.size = 0 THEN named ELSE parsed
      /\ LET accepted == ~(m.format = "AVC" /\ m.size = 0)
         IN  handled' = Append(handled, <<m, accepted, accepted /\ parsed.key>>)

\* Mutant: the header of an extended stream is not kept.
processEnhancedNoHeader(m) ==
  /\ m.format \in ExtendedFormats
  /\ enhanced' = (enhanced \/ m.size > 0)
  /\ video' = IF m.size = 0 THEN video ELSE [video EXCEPT !.codec = CodecOf(m.format), !.key = m.key]
  /\ handled' = Append(handled, <<m, m.size > 0, m.size > 0 /\ m.key>>)

processEnhancedVideo(m) ==
  LET nal    == IF HasNAL(m) THEN m.nal ELSE video.nal
      parsed == [video EXCEPT !.codec = CodecOf(m.format), !.nal = nal,
                              !.key = m.key \/ (HasNAL(m) /\ nal = "IDR"),
                              !.header = IF m.packet = "header" THEN Message ELSE @]
  IN  /\ m.format \in ExtendedFormats
      /\ enhanced' = (enhanced \/ m.size > 0)
      /\ video' = IF m.size = 0 THEN video ELSE parsed
      /\ handled' = Append(handled, <<m, m.size > 0, m.size > 0 /\ parsed.key>>)

\* Every Opus payload replaces the header.
processAudio(m) ==
  /\ audio' = IF m.size = 0 \/ m.format = "other" THEN audio
              ELSE [codec |-> m.format,
                    header |-> IF m.format = "Opus" \/ m.packet = "header" THEN Message ELSE audio.header]
  /\ handled' = Append(handled, <<m, m.size > 0, FALSE>>)
  /\ UNCHANGED <<video, enhanced, metadata>>

processData(m) ==
  /\ metadata' = TRUE
  /\ handled' = Append(handled, <<m, TRUE, FALSE>>)
  /\ UNCHANGED <<video, audio, enhanced>>

processMedia(t) ==
  /\ forwarding[t] = <<>> /\ Len(handled) < MaxMessages
  /\ \/ \E m \in VideoMessages :
          (processStandardVideo(m) \/ processEnhancedVideo(m)) /\ UNCHANGED <<audio, metadata>>
     \/ \E m \in AudioMessages : processAudio(m)
     \/ \E m \in DataMessages : processData(m)
  /\ forwarding' = [forwarding EXCEPT ![t] = IF handled'[Message][2] THEN <<Message>> ELSE <<>>]
  /\ UNCHANGED <<sinceReset, forwards>>

forwardMedia(t) ==
  /\ forwarding[t] # <<>>
  /\ forwards' = forwards \union {forwarding[t][1]}
  /\ forwarding' = [forwarding EXCEPT ![t] = <<>>]
  /\ UNCHANGED <<video, audio, enhanced, metadata, handled, sinceReset>>

resetHandler ==
  /\ sinceReset < Message
  /\ video' = NoVideo /\ audio' = NoAudio /\ enhanced' = FALSE /\ metadata' = FALSE
  /\ sinceReset' = Message
  /\ UNCHANGED <<forwarding, handled, forwards>>

HandlerNext == resetHandler \/ \E t \in HandlerThreads : processMedia(t) \/ forwardMedia(t)

-----------------------------------------------------------------------------

Newest(S) == IF S = {} THEN NoHeader ELSE CHOOSE i \in S : \A j \in S : j <= i
Accepted(M) == {i \in sinceReset..Len(handled) : handled[i][2] /\ handled[i][1] \in M}

VideoHeaders == {m \in VideoMessages : m.format # "other" /\ m.packet = "header"}
AudioHeaders == {m \in AudioMessages : m.format = "Opus" \/ (m.format = "AAC" /\ m.packet = "header")}

(***************************************************************************)
(* After any mixture of formats, refused payloads and resets, the cached   *)
(* video and audio headers are those of the last accepted header message   *)
(* since the reset, whichever format it had; a keyframe is reported for    *)
(* every accepted video frame that is one by its frame type or its NAL     *)
(* unit and for no other; nothing refused is forwarded, and every accepted *)
(* message is forwarded or about to be.                                    *)
(***************************************************************************)
MediaHandled ==
  /\ video.header = Newest(Accepted(VideoHeaders))
  /\ audio.header = Newest(Accepted(AudioHeaders))
  /\ \A i \in DOMAIN handled : handled[i][2] =>
       LET m == handled[i][1] IN
       handled[i][3] <=> m.media = "Video" /\ (m.key \/ (HasNAL(m) /\ m.nal = "IDR"))
  /\ forwards \union UNION {{forwarding[t][i] : i \in DOMAIN forwarding[t]} : t \in HandlerThreads}
       = {i \in DOMAIN handled : handled[i][2]}
=============================================================================
