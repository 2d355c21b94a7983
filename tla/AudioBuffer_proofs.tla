-------------------------- MODULE AudioBuffer_proofs --------------------------
(***************************************************************************)
(* Theorems about updateAudioBuffer, for every size of the buffer, of the  *)
(* silence, of the decoding buffer and of the frames.                      *)
(***************************************************************************)
EXTENDS AudioBuffer, FiniteSetTheorems, TLAPS

-----------------------------------------------------------------------------
(* The inductive invariant. *)

\* How many of the decoded bytes were handed out.
Copied ==
  decoded - IF audioDecodingBuffer = Silence THEN 0 ELSE audioDecodedSize - audioDecodedUsed

BoundsInv ==
  /\ audioDecodedUsed =< audioDecodedSize
  /\ pc = "idle" => sizeLeft = 0
  /\ pc = "copy" => sizeLeft > 0 /\ audioDecodedUsed < audioDecodedSize

DataInv ==
  /\ audioDecodingBuffer # Silence => audioDecodingBuffer + audioDecodedSize = decoded + 1
  /\ before + Sounding(Filled - 1) = Copied
  /\ AudioContinues

Inv == TypeOK /\ BoundsInv /\ DataInv

-----------------------------------------------------------------------------
(* Counting the bytes that are not silence. *)

Count(f, i) == Cardinality({j \in 0 .. i : f[j] # Silence})

\* A count is a number.
LEMMA CountType ==
  ASSUME NEW f, NEW i \in Int
  PROVE  Count(f, i) \in Nat
<1>1. IsFiniteSet(0 .. i)
  BY FS_Interval
<1>2. IsFiniteSet({j \in 0 .. i : f[j] # Silence})
  BY <1>1, FS_Subset
<1> QED BY <1>2, FS_CardinalityType DEF Count

\* Nothing is counted in an empty prefix.
LEMMA CountNone ==
  ASSUME NEW f
  PROVE  Count(f, -1) = 0
<1>1. {j \in 0 .. -1 : f[j] # Silence} = {}
  OBVIOUS
<1> QED BY <1>1, FS_EmptySet DEF Count

\* Bytes that stay keep their count.
LEMMA CountSame ==
  ASSUME NEW f, NEW g, NEW i \in Int, \A j \in 0 .. i : g[j] = f[j]
  PROVE  Count(g, i) = Count(f, i)
<1>1. {j \in 0 .. i : g[j] # Silence} = {j \in 0 .. i : f[j] # Silence}
  OBVIOUS
<1> QED BY <1>1 DEF Count

\* Silence that is appended does not count.
LEMMA CountSilence ==
  ASSUME NEW f, NEW g, NEW a \in Nat, NEW i \in Int, i >= a - 1,
         \A j \in 0 .. a - 1 : g[j] = f[j],
         \A j \in a .. i : g[j] = Silence
  PROVE  Count(g, i) = Count(f, a - 1)
<1>1. {j \in 0 .. i : g[j] # Silence} = {j \in 0 .. a - 1 : f[j] # Silence}
  OBVIOUS
<1> QED BY <1>1 DEF Count

\* Of decoded bytes that are appended each one counts.
LEMMA CountDecoded ==
  ASSUME NEW f, NEW g, NEW a \in Nat, NEW i \in Int, i >= a - 1,
         \A j \in 0 .. a - 1 : g[j] = f[j],
         \A j \in a .. i : g[j] # Silence
  PROVE  Count(g, i) = Count(f, a - 1) + (i - a + 1)
<1> DEFINE S == {j \in 0 .. a - 1 : f[j] # Silence}
           T == a .. i
<1>1. {j \in 0 .. i : g[j] # Silence} = S \cup T
  OBVIOUS
<1>2. IsFiniteSet(S)
  <2>1. IsFiniteSet(0 .. a - 1)
    BY FS_Interval
  <2> QED BY <2>1, FS_Subset
<1>3. IsFiniteSet(T) /\ Cardinality(T) = i - a + 1
  BY FS_Interval
<1>4. Cardinality(S \cup T) = Cardinality(S) + Cardinality(T)
  <2>1. S \cap T = {}
    OBVIOUS
  <2>2. Cardinality(S \cap T) = 0
    BY <2>1, FS_EmptySet
  <2>3. Cardinality(S \cup T) = Cardinality(S) + Cardinality(T) - Cardinality(S \cap T)
    BY <1>2, <1>3, FS_Union
  <2>4. Cardinality(S) \in Nat /\ Cardinality(T) \in Nat
    BY <1>2, <1>3, FS_CardinalityType
  <2> HIDE DEF S, T
  <2> QED BY <2>2, <2>3, <2>4
<1> QED BY <1>1, <1>3, <1>4 DEF Count

-----------------------------------------------------------------------------
(* Every step preserves the invariant. *)

\* The constants are numbers.
LEMMA Constants ==
  /\ BufferSize \in Nat \ {0} /\ SilenceSize \in 1 .. Capacity
  /\ Capacity \in Nat /\ MaxBytes \in Nat /\ MaxOffset \in Nat
BY BufferSizeAssumption, SilenceSizeAssumption, CapacityAssumption, MaxBytesAssumption,
   MaxOffsetAssumption

\* The decoder's audio starts with silence and nothing decoded.
LEMMA InitInv == Init => Inv
<1> SUFFICES ASSUME Init PROVE Inv
  OBVIOUS
<1>1. TypeOK
  <2>1. 0 \in 0 .. MaxBytes /\ 0 \in 0 .. Capacity /\ 0 \in 0 .. MaxOffset /\ 0 \in 0 .. BufferSize
    BY Constants
  <2>2. audioBuffer \in [Offsets -> 0 .. MaxBytes]
    BY <2>1 DEF Init, Silence
  <2> QED BY <2>1, <2>2 DEF Init, TypeOK, Silence
<1>2. BoundsInv
  BY DEF Init, BoundsInv
<1>3. Filled - 1 = BufferSize - 1
  BY Constants DEF Init, Filled
<1>4. \A i \in Offsets : audioBuffer[i] = Silence
  BY DEF Init
<1>5. Sounding(Filled - 1) = 0
  <2>1. {j \in 0 .. BufferSize - 1 : audioBuffer[j] # Silence} = {}
    BY <1>4 DEF Offsets
  <2> QED BY <2>1, <1>3, FS_EmptySet DEF Sounding
<1>6. DataInv
  BY <1>3, <1>4, <1>5 DEF Init, DataInv, Copied, AudioContinues, Silence, Offsets
<1> QED BY <1>1, <1>2, <1>6 DEF Inv

\* A call starts over with the whole buffer.
LEMMA UpdateAudioBufferStep == Inv /\ UpdateAudioBuffer => Inv'
<1> SUFFICES ASSUME Inv, UpdateAudioBuffer PROVE Inv'
  OBVIOUS
<1> USE DEF UpdateAudioBuffer, decoding
<1>1. sizeLeft = 0 /\ Filled = BufferSize /\ Filled' = 0 /\ (Filled - 1)' = -1
  BY Constants DEF Inv, BoundsInv, Filled
<1>2. Sounding(BufferSize - 1) \in Nat
  BY CountType, Constants DEF Sounding, Count
<1>3. before' = Copied /\ Copied' = Copied
  BY <1>1 DEF Inv, DataInv, Copied
<1>4. before' \in 0 .. MaxBytes
  BY <1>2, <1>3, Constants DEF Inv, TypeOK, BoundsInv, Copied
<1>5. TypeOK'
  BY <1>4, Constants DEF Inv, TypeOK
<1>6. BoundsInv'
  BY DEF Inv, BoundsInv
<1>7. Sounding(Filled - 1)' = 0
  BY <1>1, CountNone DEF Sounding, Count
<1>8. DataInv'
  BY <1>1, <1>3, <1>4, <1>7 DEF Inv, DataInv, AudioContinues
<1> QED BY <1>5, <1>6, <1>8 DEF Inv

\* Decoding leaves what was handed out as it was.
LEMMA DecodeStep == Inv /\ (DecodeFrame \/ PlaySilence \/ DataLeft \/ Return) => Inv'
<1> SUFFICES ASSUME Inv, DecodeFrame \/ PlaySilence \/ DataLeft \/ Return PROVE Inv'
  OBVIOUS
<1> USE DEF NoDataLeft, ResetUsed, SilenceDecoded, decoding
<1>1. UNCHANGED <<sizeLeft, audioBuffer, before>>
  BY DEF DecodeFrame, PlaySilence, DataLeft, Return
<1>2. TypeOK'
  <2>1. CASE DecodeFrame
    BY <2>1, Constants DEF DecodeFrame, Inv, TypeOK
  <2>2. CASE PlaySilence
    <3>1. audioOutputEnded' \in BOOLEAN
      BY <2>2, Zenon DEF PlaySilence, Inv, TypeOK
    <3>2. timestampOffset' \in 0 .. MaxOffset
      <4>1. timestampOffset' \in {timestampOffset, timestampOffset + 1}
        BY <2>2 DEF PlaySilence, Inv, TypeOK
      <4> QED BY <4>1, <2>2, Constants DEF PlaySilence, Inv, TypeOK
    <3>3. /\ pc' = "copy" /\ audioDecodingBuffer' \in 0 .. MaxBytes
          /\ audioDecodedSize' \in 0 .. Capacity /\ audioDecodedUsed' \in 0 .. Capacity
          /\ UNCHANGED <<sizeLeft, audioBuffer, decoded, before>>
      BY <2>2, Constants DEF PlaySilence, Silence
    <3> QED BY <3>1, <3>2, <3>3 DEF Inv, TypeOK
  <2>3. CASE DataLeft \/ Return
    BY <2>3 DEF DataLeft, Return, Inv, TypeOK
  <2> QED BY <2>1, <2>2, <2>3
<1>3. BoundsInv'
  <2>1. CASE DecodeFrame
    BY <2>1, Constants DEF DecodeFrame, Inv, TypeOK, BoundsInv
  <2>2. CASE PlaySilence
    BY <2>2, Constants DEF PlaySilence, Inv, TypeOK, BoundsInv
  <2>3. CASE DataLeft \/ Return
    BY <2>3, Constants DEF DataLeft, Return, Inv, TypeOK, BoundsInv
  <2> QED BY <2>1, <2>2, <2>3
<1>4. /\ Copied' = Copied
      /\ (audioDecodingBuffer # Silence => audioDecodingBuffer + audioDecodedSize = decoded + 1)'
  <2>1. CASE DecodeFrame
    BY <2>1, Constants DEF DecodeFrame, Inv, TypeOK, BoundsInv, DataInv, Copied, Silence
  <2>2. CASE PlaySilence
    BY <2>2, Constants DEF PlaySilence, Inv, TypeOK, BoundsInv, DataInv, Copied, Silence
  <2>3. CASE DataLeft \/ Return
    BY <2>3 DEF DataLeft, Return, Inv, DataInv, Copied
  <2> QED BY <2>1, <2>2, <2>3
<1>5. DataInv'
  BY <1>1, <1>4 DEF Inv, DataInv, AudioContinues, Sounding, Filled
<1> QED BY <1>2, <1>3, <1>5 DEF Inv

\* What is about to be copied fits, in the buffer and in the decoded audio.
LEMMA CopyFits ==
  ASSUME Inv, pc = "copy"
  PROVE  /\ Filled \in Nat /\ LengthToCopy \in Nat \ {0}
         /\ LengthToCopy =< sizeLeft /\ sizeLeft \in 0 .. BufferSize
         /\ Filled + LengthToCopy =< BufferSize
         /\ audioDecodedUsed + LengthToCopy =< audioDecodedSize
BY Constants DEF Inv, TypeOK, BoundsInv, Filled, LengthToCopy

\* A byte that is copied is silence, or one of those decoded.
LEMMA CopiedByte ==
  ASSUME Inv, NEW i \in audioDecodedUsed .. audioDecodedSize - 1
  PROVE  /\ audioDecodingBuffer = Silence => DecodedByte(i) = Silence
         /\ audioDecodingBuffer # Silence =>
              DecodedByte(i) = audioDecodingBuffer + i /\ DecodedByte(i) # Silence
         /\ DecodedByte(i) \in 0 .. MaxBytes
BY Constants DEF Inv, TypeOK, DataInv, DecodedByte, Silence

\* Copying continues the audio where it stopped.
LEMMA CopyStep == Inv /\ Copy => Inv'
<1> SUFFICES ASSUME Inv, Copy PROVE Inv'
  OBVIOUS
<1> DEFINE f == Filled
           n == LengthToCopy
           u == audioDecodedUsed
<1>1. /\ f \in Nat /\ n \in Nat \ {0} /\ n =< sizeLeft /\ sizeLeft \in 0 .. BufferSize
      /\ f + n =< BufferSize /\ u + n =< audioDecodedSize /\ f = BufferSize - sizeLeft
  BY CopyFits DEF Copy, Filled
<1>2. /\ pc' = "loop" /\ sizeLeft' = sizeLeft - n /\ audioDecodedUsed' = u + n
      /\ UNCHANGED <<before, decoding>>
  BY DEF Copy
<1>3. u \in Nat /\ u < audioDecodedSize /\ audioDecodedSize \in 0 .. Capacity
  BY Constants, <1>1 DEF Inv, TypeOK
<1>4. Filled' = f + n
  BY <1>1, <1>2, Constants DEF Filled
<1>5. \A i \in Offsets :
         audioBuffer'[i] = IF i \in f .. f + n - 1 THEN DecodedByte(u + i - f) ELSE audioBuffer[i]
  BY DEF Copy
<1>6. /\ \A i \in 0 .. f - 1 : i \in Offsets /\ audioBuffer'[i] = audioBuffer[i]
      /\ \A i \in f .. f + n - 1 :
           /\ i \in Offsets /\ audioBuffer'[i] = DecodedByte(u + i - f)
           /\ u + i - f \in u .. audioDecodedSize - 1
  BY <1>1, <1>3, <1>5, Constants DEF Offsets
<1>7. TypeOK'
  <2>1. audioBuffer' \in [Offsets -> 0 .. MaxBytes]
    <3>1. \A i \in Offsets : audioBuffer'[i] \in 0 .. MaxBytes
      BY <1>5, <1>6, CopiedByte DEF Inv, TypeOK
    <3> QED BY <3>1 DEF Copy
  <2>2. sizeLeft' \in 0 .. BufferSize /\ audioDecodedUsed' \in 0 .. Capacity
    BY <1>1, <1>2, <1>3, Constants
  <2> QED BY <2>1, <2>2, <1>2 DEF Inv, TypeOK, decoding
<1>8. BoundsInv'
  BY <1>1, <1>2 DEF BoundsInv, decoding
<1>9. DataInv'
  <2>1. before \in Nat /\ before + Count(audioBuffer, f - 1) = Copied
    BY DEF Inv, TypeOK, DataInv, Sounding, Count
  <2>2. \A i \in Int : Sounding(i)' = Count(audioBuffer', i)
    BY DEF Sounding, Count
  <2>3. \A i \in 0 .. f - 1 : Sounding(i)' = Sounding(i)
    <3> SUFFICES ASSUME NEW i \in 0 .. f - 1 PROVE Count(audioBuffer', i) = Count(audioBuffer, i)
      BY DEF Sounding, Count
    <3>1. \A j \in 0 .. i : audioBuffer'[j] = audioBuffer[j]
      BY <1>1, <1>6
    <3> QED BY <3>1, <1>1, CountSame
  <2>4. (Filled - 1)' = f + n - 1
    BY <1>1, <1>2, Constants DEF Filled
  <2>5. CASE audioDecodingBuffer = Silence
    <3>1. \A i \in f .. f + n - 1 : audioBuffer'[i] = Silence
      BY <1>6, <2>5, CopiedByte
    <3>2. Count(audioBuffer', f + n - 1) = Count(audioBuffer, f - 1)
      BY <1>1, <1>6, <3>1, CountSilence
    <3>3. Sounding(Filled - 1)' = Count(audioBuffer', f + n - 1)
      BY <2>4 DEF Sounding, Count
    <3>4. Copied' = Copied
      BY <1>2, <2>5 DEF Copied, decoding
    <3>5. AudioContinues'
      BY <1>1, <1>2, <1>4, <1>6, <2>3, <3>1 DEF Inv, DataInv, AudioContinues
    <3> QED BY <1>2, <2>1, <2>5, <3>2, <3>3, <3>4, <3>5 DEF DataInv, decoding
  <2>6. CASE audioDecodingBuffer # Silence
    <3>1. \A i \in f .. f + n - 1 :
             audioBuffer'[i] = audioDecodingBuffer + (u + i - f) /\ audioBuffer'[i] # Silence
      BY <1>6, <2>6, CopiedByte
    <3>2. \A i \in f .. f + n - 1 :
             Count(audioBuffer', i) = Count(audioBuffer, f - 1) + (i - f + 1)
      <4> SUFFICES ASSUME NEW i \in f .. f + n - 1
                   PROVE  Count(audioBuffer', i) = Count(audioBuffer, f - 1) + (i - f + 1)
        OBVIOUS
      <4>1. i \in Int /\ i >= f - 1 /\ \A j \in f .. i : j \in f .. f + n - 1
        BY <1>1
      <4> QED BY <1>1, <1>6, <3>1, <4>1, CountDecoded
    <3>3. Count(audioBuffer, f - 1) \in Nat
      BY <1>1, CountType
    <3>4. /\ audioDecodingBuffer + audioDecodedSize = decoded + 1
          /\ audioDecodingBuffer \in Nat /\ decoded \in Nat
          /\ Copied = decoded - (audioDecodedSize - u)
          /\ Copied' = decoded - (audioDecodedSize - (u + n))
      BY <1>2, <2>6, Constants DEF Inv, TypeOK, DataInv, Copied, decoding
    <3>5. \A i \in f .. f + n - 1 : audioBuffer'[i] = before + Count(audioBuffer', i)
      BY <1>1, <1>3, <2>1, <3>1, <3>2, <3>3, <3>4
    <3>6. Count(audioBuffer', f + n - 1) = Count(audioBuffer, f - 1) + n
      BY <1>1, <3>2, <3>3
    <3>7. (before + Sounding(Filled - 1) = Copied)'
      <4>1. Sounding(Filled - 1)' = Count(audioBuffer', f + n - 1)
        BY <2>4 DEF Sounding, Count
      <4> QED BY <1>1, <1>2, <1>3, <2>1, <3>3, <3>4, <3>6, <4>1
    <3>8. AudioContinues'
      <4> SUFFICES ASSUME NEW i \in 0 .. f + n - 1, audioBuffer'[i] # Silence
                   PROVE  audioBuffer'[i] = before + Sounding(i)'
        BY <1>2, <2>4 DEF AudioContinues
      <4>1. CASE i \in 0 .. f - 1
        BY <4>1, <1>6, <2>3 DEF Inv, DataInv, AudioContinues
      <4>2. CASE i \in f .. f + n - 1
        BY <4>2, <2>2, <3>5
      <4> QED BY <1>1, <4>1, <4>2
    <3> QED BY <1>2, <2>6, <3>4, <3>7, <3>8 DEF DataInv, decoding
  <2> QED BY <2>5, <2>6
<1> QED BY <1>7, <1>8, <1>9 DEF Inv

\* Every step of updateAudioBuffer, or of anything else, preserves the invariant.
LEMMA NextInv == Inv /\ [Next]_vars => Inv'
<1>1. CASE UNCHANGED vars
  BY <1>1 DEF vars, decoding, Inv, TypeOK, BoundsInv, DataInv, AudioContinues, Sounding,
              Filled, Copied
<1>2. Next <=> \/ UpdateAudioBuffer \/ Copy
               \/ (DecodeFrame \/ PlaySilence \/ DataLeft \/ Return)
  BY DEF Next, Fill
<1> QED BY <1>1, <1>2, UpdateAudioBufferStep, DecodeStep, CopyStep

-----------------------------------------------------------------------------
(* The theorems. *)

\* The invariant holds in every state of updateAudioBuffer's calls.
THEOREM Invariant == Spec => []Inv
BY InitInv, NextInv, PTL DEF Spec

\* The bookkeeping of updateAudioBuffer keeps its types.
THEOREM TypeCorrect == Spec => []TypeOK
<1>1. Inv => TypeOK
  BY DEF Inv
<1> QED BY <1>1, Invariant, PTL

\* memcpy stays within both buffers and makes progress, whatever the sizes are.
THEOREM CopiesInBounds == Spec => []CopyInBounds
<1>1. Inv => CopyInBounds
  BY CopyFits DEF CopyInBounds
<1> QED BY <1>1, Invariant, PTL

\* The buffers of all calls are the decoded audio, silence apart: no byte of it
\* is lost, repeated or out of order.
THEOREM AudioIsContinued == Spec => []AudioContinues
<1>1. Inv => AudioContinues
  BY DEF Inv, DataInv
<1> QED BY <1>1, Invariant, PTL

-----------------------------------------------------------------------------
(* How soon a call returns. *)

\* The steps that are left of a call, at most: each copy fills a byte or more, and
\* between two copies there is one decision.
StepsLeft == 2 * sizeLeft + (IF pc = "loop" THEN 1 ELSE 0)

\* Every step of a call takes it nearer to its return.
ReturnsSoon == [][pc # "idle" => StepsLeft' < StepsLeft]_vars

\* The loop of updateAudioBuffer goes round at most once for each byte of the
\* buffer, whatever frames are decoded and also when there are none any more: no
\* frame, silence or rest of one is of no use to it (VideoDecoder.cpp:300-339).
THEOREM CallsReturnSoon == Spec => ReturnsSoon
<1>1. ASSUME Inv, Inv', [Next]_vars, pc # "idle", vars' # vars
      PROVE  StepsLeft' < StepsLeft
  <2>1. PICK n \in Nat, m \in Nat : n = sizeLeft /\ m = sizeLeft'
    BY <1>1 DEF Inv, TypeOK
  <2>2. CASE DecodeFrame \/ PlaySilence \/ DataLeft
    <3>1. pc = "loop" /\ pc' = "copy" /\ m = n
      BY <2>1, <2>2 DEF DecodeFrame, PlaySilence, DataLeft, NoDataLeft
    <3>2. 2 * n < 2 * n + 1
      OBVIOUS
    <3> QED BY <2>1, <3>1, <3>2 DEF StepsLeft
  <2>3. CASE Copy
    <3>1. pc = "copy" /\ pc' = "loop" /\ sizeLeft' = sizeLeft - LengthToCopy
      BY <2>3 DEF Copy
    <3>2. /\ LengthToCopy \in Int /\ LengthToCopy > 0
      <4>1. sizeLeft > 0 /\ audioDecodedUsed < audioDecodedSize
        BY <1>1, <3>1 DEF Inv, BoundsInv
      <4>2. audioDecodedUsed \in Int /\ audioDecodedSize \in Int /\ sizeLeft \in Int
        BY <1>1, Constants DEF Inv, TypeOK
      <4> QED BY <4>1, <4>2 DEF LengthToCopy
    <3>3. m < n
      BY <2>1, <3>1, <3>2
    <3>4. 2 * m + 1 < 2 * n
      BY <3>3
    <3> QED BY <2>1, <3>1, <3>4 DEF StepsLeft
  <2>4. CASE Return
    <3>1. pc = "loop" /\ pc' = "idle" /\ m = n
      BY <2>1, <2>4 DEF Return
    <3>2. 2 * n < 2 * n + 1
      OBVIOUS
    <3> QED BY <2>1, <3>1, <3>2 DEF StepsLeft
  <2> QED BY <1>1, <2>2, <2>3, <2>4 DEF Next, Fill, UpdateAudioBuffer
<1>2. Inv /\ Inv' /\ [Next]_vars => [pc # "idle" => StepsLeft' < StepsLeft]_vars
  BY <1>1
<1> QED BY <1>2, Invariant, PTL DEF Spec, ReturnsSoon
=============================================================================
