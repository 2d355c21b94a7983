----------------------------- MODULE AudioBuffer -----------------------------
(***************************************************************************)
(* updateAudioBuffer: the client's buffer is filled with the decoded audio, *)
(* frame after frame of whatever size, and with silence where there is     *)
(* none (VideoDecoder.cpp:297-392).                                        *)
(*                                                                         *)
(* The bytes of the decoded audio are numbered from 1; a byte of silence   *)
(* is 0.  The method runs on the client's thread and shares nothing with   *)
(* the decode thread but the packets it fetches, see PacketQueues.         *)
(***************************************************************************)
EXTENDS Integers, FiniteSets

CONSTANTS
  BufferSize,   \* VIDEOPLAYER_AUDIO_BUFFER_SIZE
  SilenceSize,  \* the bytes of silence played at a time, 1024 in the code
  Capacity,     \* the bytes of audioDecodingBuffer
  MaxBytes,     \* bound: the bytes of the decoded audio
  MaxOffset     \* bound: how often silence is played before the audio ends

ASSUME BufferSizeAssumption == BufferSize \in Nat \ {0}
ASSUME CapacityAssumption == Capacity \in Nat
ASSUME SilenceSizeAssumption == SilenceSize \in 1 .. Capacity
ASSUME MaxBytesAssumption == MaxBytes \in Nat
ASSUME MaxOffsetAssumption == MaxOffset \in Nat

VARIABLES
  pc,                \* where the client is: "idle", "loop" or "copy"
  sizeLeft,          \* the local variable: what is left of the buffer
  audioBuffer,
  audioDecodingBuffer,  \* the number of its first byte, 0 for silence
  audioDecodedSize,
  audioDecodedUsed,
  audioOutputEnded,
  timestampOffset,   \* in units of secPerKbBlock
  decoded,           \* the bytes decoded so far
  before             \* the decoded bytes in the buffers of earlier calls

decoding == <<audioDecodingBuffer, audioDecodedSize, audioOutputEnded, timestampOffset, decoded>>
vars == <<pc, sizeLeft, audioBuffer, audioDecodedUsed, before, decoding>>

Offsets == 0 .. BufferSize - 1
Silence == 0

Filled == BufferSize - sizeLeft

\* The i-th byte of audioDecodingBuffer.
DecodedByte(i) == IF audioDecodingBuffer = Silence THEN Silence ELSE audioDecodingBuffer + i

\* How many bytes of the buffer up to offset i are not silence.
Sounding(i) == Cardinality({j \in 0 .. i : audioBuffer[j] # Silence})

-----------------------------------------------------------------------------
UpdateAudioBuffer ==
  /\ pc = "idle" /\ pc' = "loop"
  /\ sizeLeft' = BufferSize
  /\ before' = before + Sounding(BufferSize - 1)
  /\ UNCHANGED <<audioBuffer, audioDecodedUsed, decoding>>

NoDataLeft == pc = "loop" /\ sizeLeft > 0 /\ audioDecodedUsed >= audioDecodedSize

\* Faulty: what was used of the last frame is not forgotten.
KeepUsed == UNCHANGED audioDecodedUsed

ResetUsed == audioDecodedUsed' = 0

\* decodeAudio converts a frame into audioDecodingBuffer, at most all of it.
DecodeFrame ==
  /\ NoDataLeft
  /\ ~audioOutputEnded
  /\ \E size \in 1 .. Capacity :
       /\ decoded + size =< MaxBytes
       /\ audioDecodingBuffer' = decoded + 1
       /\ audioDecodedSize' = size
       /\ decoded' = decoded + size
  /\ ResetUsed
  /\ pc' = "copy"
  /\ UNCHANGED <<sizeLeft, audioBuffer, audioOutputEnded, timestampOffset, before>>

\* Faulty: silence has the length of the frame before it.
SilenceOfLastFrame == UNCHANGED audioDecodedSize

SilenceDecoded == audioDecodedSize' = SilenceSize

\* There is no frame: the audio has ended, now or earlier, or the converter gave
\* no samples for one, whose size is then an error.  Before the end the video is
\* put off by as much.
PlaySilence ==
  /\ NoDataLeft
  /\ audioOutputEnded' \in {TRUE, audioOutputEnded}
  /\ timestampOffset' = timestampOffset + IF audioOutputEnded' THEN 0 ELSE 1
  /\ timestampOffset' =< MaxOffset
  /\ audioDecodingBuffer' = Silence
  /\ SilenceDecoded
  /\ ResetUsed
  /\ pc' = "copy"
  /\ UNCHANGED <<sizeLeft, audioBuffer, decoded, before>>

DataLeft ==
  /\ pc = "loop" /\ sizeLeft > 0 /\ audioDecodedUsed < audioDecodedSize
  /\ pc' = "copy"
  /\ UNCHANGED <<sizeLeft, audioBuffer, audioDecodedUsed, before, decoding>>

\* Faulty: a frame is copied whole.
LengthUncut == audioDecodedSize - audioDecodedUsed

\* Never more than what is left of the buffer.
LengthToCopy ==
  LET rest == audioDecodedSize - audioDecodedUsed
  IN IF rest > sizeLeft THEN sizeLeft ELSE rest

Copy ==
  /\ pc = "copy" /\ pc' = "loop"
  /\ audioBuffer' = [i \in Offsets |->
       IF i \in Filled .. Filled + LengthToCopy - 1
       THEN DecodedByte(audioDecodedUsed + i - Filled) ELSE audioBuffer[i]]
  /\ sizeLeft' = sizeLeft - LengthToCopy
  /\ audioDecodedUsed' = audioDecodedUsed + LengthToCopy
  /\ UNCHANGED <<before, decoding>>

Return ==
  /\ pc = "loop" /\ sizeLeft =< 0
  /\ pc' = "idle"
  /\ UNCHANGED <<sizeLeft, audioBuffer, audioDecodedUsed, before, decoding>>

-----------------------------------------------------------------------------
Init ==
  /\ pc = "idle"
  /\ sizeLeft = 0
  /\ audioBuffer = [i \in Offsets |-> Silence]
  /\ audioDecodingBuffer = Silence
  /\ audioDecodedSize = 0 /\ audioDecodedUsed = 0
  /\ audioOutputEnded = FALSE
  /\ timestampOffset = 0
  /\ decoded = 0 /\ before = 0

Fill == DecodeFrame \/ PlaySilence \/ DataLeft \/ Copy \/ Return

Next == UpdateAudioBuffer \/ Fill

Spec == Init /\ [][Next]_vars

\* A call that was made runs on.
FairSpec == Spec /\ WF_vars(Fill)

-----------------------------------------------------------------------------
(* Properties. *)

\* Type correctness of the buffers' bookkeeping.
TypeOK ==
  /\ pc \in {"idle", "loop", "copy"}
  /\ sizeLeft \in 0 .. BufferSize
  /\ audioBuffer \in [Offsets -> 0 .. MaxBytes]
  /\ audioDecodingBuffer \in 0 .. MaxBytes
  /\ audioDecodedSize \in 0 .. Capacity /\ audioDecodedUsed \in 0 .. Capacity
  /\ audioOutputEnded \in BOOLEAN
  /\ timestampOffset \in 0 .. MaxOffset
  /\ decoded \in 0 .. MaxBytes /\ before \in 0 .. MaxBytes

\* memcpy stays within both buffers and makes progress, whatever sizes the
\* frames have and whatever an earlier call left over (VideoDecoder.cpp:329-338).
CopyInBounds ==
  pc = "copy" =>
    /\ LengthToCopy > 0
    /\ Filled + LengthToCopy =< BufferSize
    /\ audioDecodedUsed + LengthToCopy =< audioDecodedSize

\* The buffers of all calls, one after the other and silence apart, are the
\* decoded audio: no byte is lost, repeated or out of order where a frame spans
\* two calls or a call several frames (VideoDecoder.cpp:297-340).
AudioContinues ==
  \A i \in 0 .. Filled - 1 :
    audioBuffer[i] # Silence => audioBuffer[i] = before + Sounding(i)

\* Every call returns, also when the audio has ended.
Returns == pc = "loop" ~> pc = "idle"
=============================================================================
