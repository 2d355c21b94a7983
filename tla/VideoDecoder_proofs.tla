------------------------ MODULE VideoDecoder_proofs ------------------------
(***************************************************************************)
(* Theorems about the native video decoder, for every size of the ring and *)
(* every number of packets.                                                *)
(***************************************************************************)
EXTENDS VideoDecoder, FrameSequences, TLAPS

-----------------------------------------------------------------------------
(* The index arithmetic of the ring. *)

\* A remainder is a slot.
LEMMA ModRange ==
  ASSUME NEW n \in Nat \ {0}, NEW a \in Int
  PROVE  a % n \in 0 .. n - 1
OBVIOUS

\* No multiple of n lies strictly between 0 and n.
LEMMA NoMultipleBetween ==
  ASSUME NEW n \in Nat \ {0}, NEW d \in Int
  PROVE  n * d \notin 1 .. n - 1
<1>1. CASE d =< 0
  BY <1>1
<1>2. CASE d >= 1
  BY <1>2
<1> QED BY <1>1, <1>2

\* Two frames less than n apart are in different slots of a ring of n.
LEMMA ModDistinct ==
  ASSUME NEW n \in Nat \ {0}, NEW a \in Int, NEW b \in Int, a < b, b - a < n
  PROVE  a % n # b % n
<1>1. /\ a \div n \in Int /\ a = n * (a \div n) + (a % n)
      /\ b \div n \in Int /\ b = n * (b \div n) + (b % n)
  OBVIOUS
<1>2. PICK q \in Int, r \in Int : a = n * q + (a % n) /\ b = n * r + (b % n)
  BY <1>1
<1>3. a % n = b % n => b - a = n * (r - q)
  BY <1>2, ModRange
<1>4. n * (r - q) \notin 1 .. n - 1
  BY NoMultipleBetween
<1> QED BY <1>3, <1>4

\* The slots of the tail and of the write position are slots.
LEMMA IndexRange ==
  ASSUME TypeOK
  PROVE  getReadIndex \in Slots /\ getWriteIndex \in Slots
<1>1. NumFrames \in Nat \ {0}
  BY NumFramesAssumption
<1>2. currentFrameDisplayed \in Int /\ totalFramesBuffered + 1 \in Int
  BY DEF TypeOK
<1>3. /\ currentFrameDisplayed % NumFrames \in 0 .. NumFrames - 1
      /\ (totalFramesBuffered + 1) % NumFrames \in 0 .. NumFrames - 1
  BY <1>1, <1>2, ModRange
<1> QED BY <1>3 DEF getReadIndex, getWriteIndex, Slots

-----------------------------------------------------------------------------
(* Type correctness. *)

\* The object as loadContainer finds it is well typed.
LEMMA TypeInit == Init => TypeOK
<1> SUFFICES ASSUME Init PROVE TypeOK
  OBVIOUS
<1>1. codec \in [packets : Nat, frames : Nat, draining : BOOLEAN]
  BY PacketsAssumption DEF Init, Stream!Init
<1>2. rgbFrames \in [Slots -> Int]
  BY DEF Init
<1> QED BY <1>1, <1>2 DEF Init, TypeOK, DecodePoints, ClientPoints

\* No step of either thread leaves the types.
LEMMA TypeStep == TypeOK /\ [Next]_vars => TypeOK'
<1> SUFFICES ASSUME TypeOK, [Next]_vars PROVE TypeOK'
  OBVIOUS
<1> USE DEF TypeOK, DecodePoints, ClientPoints
<1>1. CASE RunStart \/ DecodeLock \/ WaitReturns
  BY <1>1 DEF RunStart, DecodeLock, WaitReturns, DecodeStep, DecodeOnly, Lock
<1>2. CASE DecodeUnlock \/ Wait \/ RunUnlock
  BY <1>2 DEF DecodeUnlock, Wait, RunUnlock, DecodeStep, DecodeOnly, Unlock
<1>3. CASE CheckFull \/ CheckEnded \/ CheckBreak \/ Cleanup \/ SpuriousWakeup \/ internalRunEnds
  <2>1. CASE CheckFull
    BY <2>1 DEF CheckFull, DecodeOnly
  <2>2. CASE CheckEnded
    BY <2>2 DEF CheckEnded, DecodeOnly
  <2>3. CASE CheckBreak
    BY <2>3 DEF CheckBreak, DecodeOnly
  <2>4. CASE Cleanup
    BY <2>4 DEF Cleanup, DecodeStep, DecodeOnly
  <2>5. CASE SpuriousWakeup
    BY <2>5 DEF SpuriousWakeup, DecodeStep, DecodeOnly
  <2>6. CASE internalRunEnds
    BY <2>6 DEF internalRunEnds, DecodeStep, DecodeOnly
  <2> QED BY <1>3, <2>1, <2>2, <2>3, <2>4, <2>5, <2>6
<1>4. CASE ReceiveAgain
  <2>1. codec \in [packets : Nat, frames : Nat, draining : BOOLEAN]
    OBVIOUS
  <2>2. CASE Stream!Announce
    <3>1. codec' \in [packets : Nat, frames : Nat, draining : BOOLEAN]
      BY <2>1, <2>2 DEF Stream!Announce
    <3> QED BY <1>4, <3>1 DEF ReceiveAgain, DecodeStep, DecodeOnly
  <2>3. CASE Stream!Feed
    <3>1. PICK n \in FramesPerPacket : codec' = [codec EXCEPT !.packets = @ - 1, !.frames = @ + n]
      BY <2>3 DEF Stream!Feed
    <3>2. codec.packets - 1 \in Nat /\ codec.frames + n \in Nat
      BY <2>1, <2>3, FramesPerPacketAssumption DEF Stream!Feed
    <3>3. codec' \in [packets : Nat, frames : Nat, draining : BOOLEAN]
      BY <2>1, <3>1, <3>2
    <3> QED BY <1>4, <3>3 DEF ReceiveAgain, DecodeStep, DecodeOnly
  <2> QED BY <1>4, <2>2, <2>3 DEF ReceiveAgain
<1>5. CASE ReceiveEnd \/ Publish
  <2>1. CASE ReceiveEnd
    BY <2>1 DEF ReceiveEnd, DecodeStep, DecodeOnly
  <2>2. CASE Publish
    BY <2>2 DEF Publish, DecodeStep, DecodeOnly
  <2> QED BY <1>5, <2>1, <2>2
<1>6. CASE ReceiveFrame
  <2>1. /\ codec \in [packets : Nat, frames : Nat, draining : BOOLEAN]
        /\ rgbFrames \in [Slots -> Int] /\ Torn \in Int
    BY DEF Torn
  <2>2. codec.frames - 1 \in Nat
    BY <1>6, <2>1 DEF ReceiveFrame, Stream!Give
  <2>3. codec' \in [packets : Nat, frames : Nat, draining : BOOLEAN]
    BY <1>6, <2>1, <2>2 DEF ReceiveFrame, Stream!Give
  <2>4. rgbFrames' \in [Slots -> Int]
    BY <1>6, <2>1 DEF ReceiveFrame
  <2> QED BY <1>6, <2>3, <2>4 DEF ReceiveFrame, DecodeStep, DecodeOnly
<1>7. CASE Scale
  <2>1. rgbFrames \in [Slots -> Int] /\ totalFramesBuffered + 1 \in Int
    OBVIOUS
  <2>2. rgbFrames' \in [Slots -> Int]
    BY <1>7, <2>1 DEF Scale
  <2> QED BY <1>7, <2>2 DEF Scale, DecodeStep, DecodeOnly
<1>8. CASE StartThread \/ SetRunning \/ NextVideoFrame
  <2>1. CASE StartThread
    BY <2>1 DEF StartThread, ClientStep, ClientOnly, thread
  <2>2. CASE SetRunning
    BY <2>2 DEF SetRunning, ClientStep, ClientOnly, thread
  <2>3. CASE NextVideoFrame
    BY <2>3 DEF NextVideoFrame, ClientOnly, thread
  <2> QED BY <1>8, <2>1, <2>2, <2>3
<1>9. CASE ReadEnded \/ ReadTotal
  BY <1>9, IndexRange DEF ReadEnded, ReadTotal, ClientStep, ClientOnly, thread, NULL
<1>10. CASE ClientLock \/ DtorLock \/ Advance
  BY <1>10 DEF ClientLock, DtorLock, Advance, ClientStep, ClientOnly, Lock, thread
<1>11. CASE ClientUnlock \/ DtorUnlock
  BY <1>11, IndexRange DEF ClientUnlock, DtorUnlock, ClientStep, ClientOnly, Unlock, thread
<1>12. CASE ClientSignal \/ DtorSignal
  BY <1>12 DEF ClientSignal, DtorSignal, ClientStep, ClientOnly, Signal, thread
<1>13. CASE Delete \/ DtorEnd \/ DtorJoin \/ DtorWait \/ DtorFree
  <2>1. CASE Delete
    BY <2>1 DEF Delete, ClientStep, ClientOnly, thread
  <2>2. CASE DtorEnd
    BY <2>2 DEF DtorEnd, ClientStep, ClientOnly, thread
  <2>3. CASE DtorJoin \/ DtorWait
    BY <2>3 DEF DtorJoin, DtorWait, ClientStep, ClientOnly, thread
  <2>4. CASE DtorFree
    BY <2>4 DEF DtorFree, ClientStep, ClientOnly, thread
  <2> QED BY <1>13, <2>1, <2>2, <2>3, <2>4
<1>14. CASE Gone \/ UNCHANGED vars
  BY <1>14 DEF Gone, vars, thread
<1> QED
  BY <1>1, <1>2, <1>3, <1>4, <1>5, <1>6, <1>7, <1>8, <1>9, <1>10, <1>11, <1>12, <1>13, <1>14
  DEF Next, DecodeThread, ClientCall, Receive

\* Every field of the decoder keeps its type whatever the two threads do.
THEOREM TypeCorrect == Spec => []TypeOK
BY TypeInit, TypeStep, PTL DEF Spec

-----------------------------------------------------------------------------
(* The ring. *)

\* Where the decode thread has found room for a frame, and the client a frame.
LoopBody == {"checkEnded", "unlock", "receive", "scale", "publish"}
Taking == {"lock", "advance"}

\* The decode thread enters the loop's body only with room for a frame and
\* nobody but it can take that room away; the client is past its check only
\* with a frame to take; the slot being written is the one after the head.
RingInv ==
  /\ FramesInOrder
  /\ dpc \in LoopBody => getNumBuffered =< NumFrames - 2
  /\ rpc \in Taking => hasFrameBuffered
  /\ dpc = "publish" => rgbFrames[getWriteIndex] = totalFramesBuffered + 1

\* A slot is written only while it holds no frame from the tail to the head.
LEMMA WriteSlotFree ==
  ASSUME TypeOK, getNumBuffered =< NumFrames - 2,
         NEW k \in currentFrameDisplayed .. totalFramesBuffered
  PROVE  k % NumFrames # getWriteIndex
<1>1. NumFrames \in Nat \ {0}
  BY NumFramesAssumption
<1> DEFINE next == totalFramesBuffered + 1
<1>2. k \in Int /\ next \in Int /\ k < next /\ next - k < NumFrames
  BY <1>1 DEF TypeOK, getNumBuffered
<1>3. getWriteIndex = next % NumFrames
  BY DEF getWriteIndex
<1> HIDE DEF next
<1> QED BY <1>1, <1>2, <1>3, ModDistinct

\* A step that leaves the ring alone and enters neither critical part keeps it.
LEMMA RingKept ==
  ASSUME RingInv, UNCHANGED <<totalFramesBuffered, currentFrameDisplayed, rgbFrames>>,
         dpc' \in LoopBody => dpc \in LoopBody, dpc' = "publish" => dpc = "publish",
         rpc' \in Taking => rpc \in Taking
  PROVE  RingInv'
BY DEF RingInv, FramesInOrder, hasFrameBuffered, getNumBuffered, getWriteIndex, LoopBody, Taking

\* An empty ring over cleared slots satisfies the ring's invariant.
LEMMA RingInit == Init => RingInv
<1> SUFFICES ASSUME Init PROVE RingInv
  OBVIOUS
<1>1. 0 % NumFrames \in Slots
  BY ModRange, NumFramesAssumption DEF Slots
<1>2. FramesInOrder
  BY <1>1, NumFramesAssumption DEF Init, FramesInOrder, getNumBuffered
<1> QED BY <1>2 DEF Init, RingInv, LoopBody, Taking

\* Every step keeps it: the decode thread writes only a free slot and publishes
\* only a finished frame, and the client only moves the tail up to the head.
LEMMA RingStep == TypeOK /\ RingInv /\ [Next]_vars => RingInv'
<1> SUFFICES ASSUME TypeOK, RingInv, [Next]_vars PROVE RingInv'
  OBVIOUS
<1>1. CASE RunStart \/ DecodeLock \/ WaitReturns \/ DecodeUnlock \/ Wait \/ RunUnlock
  BY <1>1, RingKept DEF RunStart, DecodeLock, WaitReturns, DecodeUnlock, Wait, RunUnlock,
     DecodeStep, DecodeOnly, LoopBody
<1>2. CASE CheckEnded \/ CheckBreak \/ SpuriousWakeup \/ Cleanup \/ internalRunEnds
  BY <1>2, RingKept DEF CheckEnded, CheckBreak, SpuriousWakeup, Cleanup, internalRunEnds,
     DecodeStep, DecodeOnly, LoopBody
<1>3. CASE ReceiveAgain \/ ReceiveEnd
  BY <1>3, RingKept DEF ReceiveAgain, ReceiveEnd, DecodeStep, DecodeOnly, LoopBody
<1>4. CASE CheckFull
  BY <1>4, NumFramesAssumption DEF CheckFull, DecodeOnly, RingInv, FramesInOrder, TypeOK,
     hasFrameBuffered, ringFull, getNumBuffered, LoopBody, Taking
<1>5. CASE ReceiveFrame
  <2>1. \A k \in currentFrameDisplayed .. totalFramesBuffered : k % NumFrames # getWriteIndex
    BY <1>5, WriteSlotFree DEF ReceiveFrame, DecodeStep, RingInv, LoopBody
  <2>2. \A k \in currentFrameDisplayed .. totalFramesBuffered :
          rgbFrames'[k % NumFrames] = rgbFrames[k % NumFrames]
    BY <1>5, <2>1 DEF ReceiveFrame, TypeOK
  <2> QED BY <1>5, <2>2 DEF ReceiveFrame, DecodeStep, DecodeOnly, RingInv, FramesInOrder,
             hasFrameBuffered, getNumBuffered, LoopBody, Taking
<1>6. CASE Scale
  <2>1. \A k \in currentFrameDisplayed .. totalFramesBuffered : k % NumFrames # getWriteIndex
    BY <1>6, WriteSlotFree DEF Scale, DecodeStep, RingInv, LoopBody
  <2>2. \A k \in currentFrameDisplayed .. totalFramesBuffered :
          rgbFrames'[k % NumFrames] = rgbFrames[k % NumFrames]
    BY <1>6, <2>1 DEF Scale, TypeOK
  <2>3. rgbFrames'[getWriteIndex] = totalFramesBuffered + 1
    BY <1>6, IndexRange DEF Scale, TypeOK
  <2> QED BY <1>6, <2>2, <2>3 DEF Scale, DecodeStep, DecodeOnly, RingInv, FramesInOrder,
             hasFrameBuffered, getNumBuffered, getWriteIndex, LoopBody, Taking
<1>7. CASE Publish
  <2>1. rgbFrames[(totalFramesBuffered + 1) % NumFrames] = totalFramesBuffered + 1
    BY <1>7 DEF Publish, DecodeStep, RingInv, getWriteIndex
  <2>2. /\ totalFramesBuffered' = totalFramesBuffered + 1
        /\ currentFrameDisplayed' = currentFrameDisplayed /\ rgbFrames' = rgbFrames
    BY <1>7 DEF Publish, DecodeOnly
  <2>3. getNumBuffered \in 0 .. NumFrames - 2
    BY <1>7 DEF Publish, DecodeStep, RingInv, FramesInOrder, LoopBody
  <2>4. FramesInOrder'
    BY <2>1, <2>2, <2>3, NumFramesAssumption DEF RingInv, FramesInOrder, getNumBuffered, TypeOK
  <2> QED BY <1>7, <2>2, <2>4 DEF Publish, DecodeStep, DecodeOnly, RingInv, hasFrameBuffered,
             getNumBuffered, LoopBody, Taking, TypeOK
<1>8. CASE NextVideoFrame
  BY <1>8 DEF NextVideoFrame, ClientOnly, RingInv, FramesInOrder, hasFrameBuffered,
     getNumBuffered, getWriteIndex, LoopBody, Taking
<1>9. CASE Advance
  <2>1. /\ totalFramesBuffered' = totalFramesBuffered /\ rgbFrames' = rgbFrames
        /\ currentFrameDisplayed' = currentFrameDisplayed + 1 /\ dpc' = dpc /\ rpc' = "signal"
    BY <1>9 DEF Advance, ClientStep, ClientOnly
  <2>2. getNumBuffered \in 1 .. NumFrames - 1
    BY <1>9, NumFramesAssumption
       DEF Advance, ClientStep, RingInv, FramesInOrder, hasFrameBuffered, Taking
  <2>3. FramesInOrder'
    BY <2>1, <2>2, NumFramesAssumption DEF RingInv, FramesInOrder, getNumBuffered, TypeOK
  <2> QED BY <2>1, <2>3, NumFramesAssumption
          DEF RingInv, getNumBuffered, getWriteIndex, Taking, TypeOK
<1>10. CASE StartThread \/ SetRunning \/ ReadEnded \/ ReadTotal \/ ClientLock \/ ClientUnlock
  BY <1>10, RingKept DEF StartThread, SetRunning, ReadEnded, ReadTotal, ClientLock, ClientUnlock,
     ClientStep, ClientOnly, LoopBody, Taking
<1>11. CASE ClientSignal \/ DtorSignal
  BY <1>11, RingKept DEF ClientSignal, DtorSignal, Signal, ClientStep, ClientOnly, LoopBody, Taking
<1>12. CASE Delete \/ DtorLock \/ DtorEnd \/ DtorUnlock \/ DtorJoin \/ DtorWait \/ DtorFree
  BY <1>12, RingKept DEF Delete, DtorLock, DtorEnd, DtorUnlock, DtorJoin, DtorWait, DtorFree,
     ClientStep, ClientOnly, LoopBody, Taking
<1>13. CASE Gone \/ UNCHANGED vars
  BY <1>13, RingKept DEF Gone, vars
<1> QED
  BY <1>1, <1>2, <1>3, <1>4, <1>5, <1>6, <1>7, <1>8, <1>9, <1>10, <1>11, <1>12, <1>13
  DEF Next, DecodeThread, ClientCall, Receive

\* The ring's invariant: the frames from tail to head are in their slots in
\* order, room is left for the one being written, and a client that found a
\* frame still has it when it takes it (VideoDecoder.cpp:270-295, 449-459).
THEOREM RingCorrect == Spec => []RingInv
<1>1. TypeOK /\ RingInv /\ [Next]_vars => RingInv'
  BY RingStep
<1> QED BY <1>1, RingInit, TypeCorrect, PTL DEF Spec

\* The ring holds exactly the frames from the one shown to the newest, in order.
THEOREM FramesStayInOrder == Spec => []FramesInOrder
<1>1. RingInv => FramesInOrder
  BY DEF RingInv
<1> QED BY <1>1, RingCorrect, PTL

-----------------------------------------------------------------------------
(* The frame the client holds. *)

\* The buffer a caller holds is the slot at the tail.
HeldInv ==
  /\ rpc \in {"load", "setRunning"} => buffer = NULL
  /\ rpc = "idle" /\ buffer # NULL => buffer = getReadIndex

\* No step of the decode thread touches what HeldInv speaks of.
LEMMA DecodeKeepsHeld == HeldInv /\ (DecodeThread \/ SpuriousWakeup) => HeldInv'
<1> SUFFICES ASSUME HeldInv, DecodeThread \/ SpuriousWakeup PROVE HeldInv'
  OBVIOUS
<1>1. DecodeOnly
  BY DEF DecodeThread, SpuriousWakeup, RunStart, CheckFull, CheckEnded, DecodeUnlock, Receive,
     ReceiveAgain, ReceiveEnd, ReceiveFrame, Scale, Publish, DecodeLock, CheckBreak, Wait,
     WaitReturns, RunUnlock, Cleanup, internalRunEnds
<1> QED BY <1>1 DEF DecodeOnly, HeldInv, getReadIndex

\* No step lets the held buffer differ from the slot of the tail.
LEMMA HeldStep == HeldInv /\ [Next]_vars => HeldInv'
<1> SUFFICES ASSUME HeldInv, [Next]_vars PROVE HeldInv'
  OBVIOUS
<1> USE DEF HeldInv, getReadIndex
<1>1. CASE DecodeThread \/ SpuriousWakeup
  BY <1>1, DecodeKeepsHeld
<1>2. CASE StartThread \/ SetRunning \/ NextVideoFrame
  BY <1>2 DEF StartThread, SetRunning, NextVideoFrame, ClientStep
<1>3. CASE ReadEnded
  BY <1>3 DEF ReadEnded
<1>4. CASE ReadTotal
  BY <1>4 DEF ReadTotal, ClientStep
<1>5. CASE ClientLock \/ Advance \/ ClientSignal
  BY <1>5 DEF ClientLock, Advance, ClientSignal, ClientStep
<1>6. CASE ClientUnlock
  BY <1>6 DEF ClientUnlock, ClientStep
<1>7. CASE Delete \/ DtorLock \/ DtorEnd \/ DtorSignal \/ DtorUnlock \/ DtorJoin \/ DtorWait \/ DtorFree
  BY <1>7 DEF Delete, DtorLock, DtorEnd, DtorSignal, DtorUnlock, DtorJoin, DtorWait, DtorFree, ClientStep
<1>8. CASE Gone \/ UNCHANGED vars
  BY <1>8 DEF Gone, vars
<1> QED
  BY <1>1, <1>2, <1>3, <1>4, <1>5, <1>6, <1>7, <1>8 DEF Next, ClientCall

\* Only ReceiveFrame and Scale change a slot, and only a free one.
LEMMA HeldSlotKept ==
  ASSUME TypeOK, RingInv, HeldInv, [Next]_vars, rpc = "idle", buffer # NULL
  PROVE  rgbFrames'[buffer] = rgbFrames[buffer]
<1>1. CASE ReceiveFrame \/ Scale
  <2>1. currentFrameDisplayed \in currentFrameDisplayed .. totalFramesBuffered
    BY NumFramesAssumption DEF TypeOK, RingInv, FramesInOrder, getNumBuffered
  <2>2. getNumBuffered =< NumFrames - 2
    BY <1>1 DEF ReceiveFrame, Scale, DecodeStep, RingInv, LoopBody
  <2>3. buffer # getWriteIndex
    BY <2>1, <2>2, WriteSlotFree DEF HeldInv, getReadIndex
  <2> QED BY <1>1, <2>3, IndexRange DEF ReceiveFrame, Scale, HeldInv, TypeOK
<1>2. CASE ~(ReceiveFrame \/ Scale)
  <2>1. rgbFrames' = rgbFrames
    BY <1>2 DEF Next, vars, DecodeThread, SpuriousWakeup, RunStart, CheckFull, CheckEnded,
       DecodeUnlock, Receive, ReceiveAgain, ReceiveEnd, Publish, DecodeLock, CheckBreak, Wait,
       WaitReturns, RunUnlock, Cleanup, internalRunEnds, ClientCall, StartThread, SetRunning,
       NextVideoFrame, ReadEnded, ReadTotal, ClientLock, Advance, ClientSignal, ClientUnlock,
       Delete, DtorLock, DtorEnd, DtorSignal, DtorUnlock, DtorJoin, DtorWait, DtorFree, ClientOnly, Gone
  <2> QED BY <2>1
<1> QED BY <1>1, <1>2

\* The pixels a caller was handed stay as they are until its next call.
THEOREM HeldFrameStays == Spec => HeldFrameStable
<1>1. Init => HeldInv
  BY DEF Init, HeldInv
<1>2. HeldInv /\ [Next]_vars => HeldInv'
  BY HeldStep
<1>3. TypeOK /\ RingInv /\ HeldInv /\ [Next]_vars
        => [rpc = "idle" /\ buffer # NULL => rgbFrames'[buffer] = rgbFrames[buffer]]_vars
  BY HeldSlotKept
<1> QED BY <1>1, <1>2, <1>3, TypeCorrect, RingCorrect, PTL DEF Spec, HeldFrameStable

\* The frame the client was handed, by a call that took one or by one that repeats
\* the last, is the one the tail counts: its number is how many frames were taken.
HandedInOrder == rpc = "idle" /\ buffer # NULL => rgbFrames[buffer] = currentFrameDisplayed

\* So ReturnsDecodedFrame fails only before the first frame was taken: afterwards
\* nextVideoFrame never returns a slot without a complete frame in it, whatever it
\* read of the ring without the mutex (VideoDecoder.cpp:283-294).
THEOREM HandsOutInOrder == Spec => []HandedInOrder
<1>1. Init => HeldInv
  BY DEF Init, HeldInv
<1>2. HeldInv /\ [Next]_vars => HeldInv'
  BY HeldStep
<1>3. TypeOK /\ FramesInOrder /\ HeldInv => HandedInOrder
  <2> SUFFICES ASSUME TypeOK, FramesInOrder, HeldInv, rpc = "idle", buffer # NULL
               PROVE  rgbFrames[buffer] = currentFrameDisplayed
    BY DEF HandedInOrder
  <2>1. currentFrameDisplayed \in currentFrameDisplayed .. totalFramesBuffered
    BY NumFramesAssumption DEF TypeOK, FramesInOrder, getNumBuffered
  <2>2. rgbFrames[currentFrameDisplayed % NumFrames] = currentFrameDisplayed
    BY <2>1 DEF FramesInOrder
  <2> QED BY <2>2 DEF HeldInv, getReadIndex
<1> QED BY <1>1, <1>2, <1>3, TypeCorrect, FramesStayInOrder, PTL DEF Spec

-----------------------------------------------------------------------------
(* The destructor and the thread. *)

\* While the decode thread may still touch the object, running is set, except
\* before start() has set it; so a join() that finds it reset has nothing to
\* wait for.
ThreadInv ==
  /\ rpc = "load" => dpc = "none"
  /\ dpc \notin {"none", "done"} => running \/ rpc = "setRunning"
  /\ rpc \notin {"dFree", "deleted"} => ~detached
  /\ NoUseAfterFree

\* No step separates the running flag from the life of the thread.
LEMMA ThreadStep == TypeOK /\ ThreadInv /\ [Next]_vars => ThreadInv'
<1> SUFFICES ASSUME TypeOK, ThreadInv, [Next]_vars PROVE ThreadInv'
  OBVIOUS
<1> USE DEF ThreadInv, NoUseAfterFree
<1>1. CASE RunStart \/ DecodeLock \/ WaitReturns \/ DecodeUnlock \/ Wait \/ RunUnlock
  BY <1>1 DEF RunStart, DecodeLock, WaitReturns, DecodeUnlock, Wait, RunUnlock, DecodeStep, DecodeOnly
<1>2. CASE CheckFull \/ CheckEnded \/ CheckBreak \/ SpuriousWakeup \/ Cleanup
  BY <1>2 DEF CheckFull, CheckEnded, CheckBreak, SpuriousWakeup, Cleanup, DecodeStep, DecodeOnly
<1>3. CASE Receive \/ Scale \/ Publish
  BY <1>3 DEF Receive, ReceiveAgain, ReceiveEnd, ReceiveFrame, Scale, Publish, DecodeStep, DecodeOnly
<1>4. CASE internalRunEnds
  BY <1>4 DEF internalRunEnds, DecodeStep, DecodeOnly
<1>5. CASE StartThread
  BY <1>5 DEF StartThread, ClientStep, thread
<1>6. CASE SetRunning \/ NextVideoFrame \/ ReadEnded \/ ReadTotal
  BY <1>6 DEF SetRunning, NextVideoFrame, ReadEnded, ReadTotal, ClientStep, thread
<1>7. CASE ClientLock \/ Advance \/ ClientUnlock \/ Delete
  BY <1>7 DEF ClientLock, Advance, ClientUnlock, Delete, ClientStep, thread
<1>8. CASE ClientSignal \/ DtorSignal
  BY <1>8 DEF ClientSignal, DtorSignal, Signal, ClientStep, thread
<1>9. CASE DtorLock \/ DtorEnd \/ DtorUnlock
  BY <1>9 DEF DtorLock, DtorEnd, DtorUnlock, ClientStep, thread
<1>10. CASE DtorJoin \/ DtorWait
  BY <1>10 DEF DtorJoin, DtorWait, ClientStep, TypeOK, thread
<1>11. CASE DtorFree
  BY <1>11 DEF DtorFree, ClientStep
<1>12. CASE Gone \/ UNCHANGED vars
  BY <1>12 DEF Gone, vars, thread
<1> QED
  BY <1>1, <1>2, <1>3, <1>4, <1>5, <1>6, <1>7, <1>8, <1>9, <1>10, <1>11, <1>12
  DEF Next, DecodeThread, ClientCall

\* The thread and its flags keep in step.
LEMMA ThreadIsKept == Spec => []ThreadInv
<1>1. Init => ThreadInv
  BY DEF Init, ThreadInv, NoUseAfterFree
<1>2. TypeOK /\ ThreadInv /\ [Next]_vars => ThreadInv'
  BY ThreadStep
<1> QED BY <1>1, <1>2, TypeCorrect, PTL DEF Spec

\* The destructor frees nothing that run() still uses, though join() skips the
\* wait when running is reset.
THEOREM NothingUsedAfterFree == Spec => []NoUseAfterFree
<1>1. ThreadInv => NoUseAfterFree
  BY DEF ThreadInv
<1> QED BY <1>1, ThreadIsKept, PTL

-----------------------------------------------------------------------------
(* The wakeup protocol, as long as no unlock takes the mutex from the client. *)

\* The client owns the mutex in its critical sections, and the decode thread
\* owns it from the moment it finds the ring full until it waits.
MutexInv ==
  /\ decodeMutex = "render" <=>
       rpc \in {"advance", "signal", "unlock", "dEnd", "dSignal", "dUnlock"}
  /\ dpc = "checkFull" => decodeMutex = "decode" \/ getNumBuffered =< NumFrames - 2
  /\ dpc = "checkBreak" => videoOutputEnded \/ (decodeMutex = "decode" /\ ringFull)
  /\ dpc = "wait" => decodeMutex = "decode" /\ ringFull /\ ~videoOutputEnded
  /\ NoLostWakeup

\* Unless it steals the lock, an unlock of the decode thread leaves it to the client.
LEMMA UnlockSpares ==
  ASSUME TypeOK, Unlock("decode"), UNCHANGED rpc, ~StealsLock
  PROVE  decodeMutex' = IF decodeMutex = "render" THEN "render" ELSE "free"
BY DEF Unlock, TypeOK, StealsLock

\* No other step breaks what the wakeups rest on: in particular the client never
\* unlocks a mutex it does not own.
LEMMA MutexStep ==
  ASSUME TypeOK, RingInv, MutexInv, [Next]_vars, [~StealsLock]_vars
  PROVE  MutexInv'
<1> USE DEF MutexInv, NoLostWakeup, ringFull, getNumBuffered
<1>1. CASE RunStart \/ DecodeLock \/ WaitReturns
  BY <1>1 DEF RunStart, DecodeLock, WaitReturns, Lock, DecodeStep, DecodeOnly
<1>2. CASE DecodeUnlock \/ RunUnlock
  <2>1. UNCHANGED rpc /\ Unlock("decode") /\ dpc' # dpc
    BY <1>2 DEF DecodeUnlock, RunUnlock, DecodeStep, DecodeOnly
  <2>2. decodeMutex' = IF decodeMutex = "render" THEN "render" ELSE "free"
    BY <2>1, UnlockSpares DEF vars
  <2> QED BY <1>2, <2>2 DEF DecodeUnlock, RunUnlock, DecodeStep, DecodeOnly
<1>3. CASE Wait
  BY <1>3 DEF Wait, Unlock, DecodeStep, DecodeOnly
<1>4. CASE CheckFull
  BY <1>4, NumFramesAssumption DEF CheckFull, DecodeOnly, TypeOK
<1>5. CASE CheckEnded
  BY <1>5 DEF CheckEnded, DecodeOnly
<1>6. CASE CheckBreak
  BY <1>6 DEF CheckBreak, DecodeOnly
<1>7. CASE ReceiveAgain
  BY <1>7 DEF ReceiveAgain, DecodeStep, DecodeOnly, RingInv, LoopBody
<1>8. CASE ReceiveEnd
  BY <1>8 DEF ReceiveEnd, DecodeStep, DecodeOnly
<1>9. CASE ReceiveFrame \/ Scale \/ Publish
  BY <1>9 DEF ReceiveFrame, Scale, Publish, DecodeStep, DecodeOnly
<1>10. CASE SpuriousWakeup \/ Cleanup \/ internalRunEnds
  BY <1>10 DEF SpuriousWakeup, Cleanup, internalRunEnds, DecodeStep, DecodeOnly
<1>11. CASE StartThread \/ SetRunning
  BY <1>11 DEF StartThread, SetRunning, ClientStep, ClientOnly
<1>12. CASE NextVideoFrame \/ ReadEnded \/ ReadTotal \/ Delete
  BY <1>12 DEF NextVideoFrame, ReadEnded, ReadTotal, Delete, ClientStep, ClientOnly
<1>13. CASE ClientLock \/ DtorLock
  BY <1>13 DEF ClientLock, DtorLock, Lock, ClientStep, ClientOnly
<1>14. CASE Advance
  BY <1>14, NumFramesAssumption DEF Advance, ClientStep, ClientOnly, TypeOK
<1>15. CASE ClientSignal \/ DtorSignal
  BY <1>15 DEF ClientSignal, DtorSignal, Signal, ClientStep, ClientOnly
<1>16. CASE ClientUnlock \/ DtorUnlock
  BY <1>16 DEF ClientUnlock, DtorUnlock, Unlock, ClientStep, ClientOnly
<1>17. CASE DtorEnd
  BY <1>17 DEF DtorEnd, ClientStep, ClientOnly
<1>18. CASE DtorJoin \/ DtorWait \/ DtorFree
  BY <1>18 DEF DtorJoin, DtorWait, DtorFree, ClientStep, ClientOnly
<1>19. CASE Gone \/ UNCHANGED vars
  BY <1>19 DEF Gone, vars
<1> QED
  BY <1>1, <1>2, <1>3, <1>4, <1>5, <1>6, <1>7, <1>8, <1>9, <1>10, <1>11, <1>12, <1>13, <1>14,
     <1>15, <1>16, <1>17, <1>18, <1>19
  DEF Next, DecodeThread, ClientCall, Receive

\* Whatever the mutex does about foreign unlocks, a wakeup is lost only after an
\* unlock of run(), at line 419 behind its continue or at line 467 behind its break,
\* has released the lock the client was holding: every signal comes with the
\* mutex held, and the decode thread holds it from its check of the ring to its
\* wait.  decoder_delete_hangs shows such an unlock.
THEOREM OnlyStolenLocksLoseWakeups == Spec /\ [][~StealsLock]_vars => []NoLostWakeup
<1>1. Init => MutexInv
  BY DEF Init, MutexInv, NoLostWakeup
<1>2. TypeOK /\ RingInv /\ MutexInv /\ [Next]_vars /\ [~StealsLock]_vars => MutexInv'
  BY MutexStep
<1>3. MutexInv => NoLostWakeup
  BY DEF MutexInv
<1> QED BY <1>1, <1>2, <1>3, TypeCorrect, RingCorrect, PTL DEF Spec

-----------------------------------------------------------------------------
(* The decoder implements the abstract one. *)

\* The values DecodedVideo's variables are mapped to.
MappedQueue == [i \in 1 .. getNumBuffered |-> rgbFrames[(currentFrameDisplayed + i) % NumFrames]]
MappedShown == rgbFrames[getReadIndex]
InHand == IF dpc \in {"scale", "publish"} THEN 1 ELSE 0
MappedCodec ==
  [packets |-> codec.packets, frames |-> codec.frames + InHand, draining |-> codec.draining]

\* What they are, by FramesInOrder.
Mapped ==
  /\ getNumBuffered \in Nat /\ currentFrameDisplayed \in Nat
  /\ totalFramesBuffered = currentFrameDisplayed + getNumBuffered
  /\ MappedQueue = FramesAfter(currentFrameDisplayed, getNumBuffered)
  /\ MappedShown = currentFrameDisplayed

\* In a well-typed state with its frames in order, the mapped queue is the
\* frames after the one shown.
LEMMA MappedLemma == TypeOK /\ FramesInOrder => Mapped
<1> SUFFICES ASSUME TypeOK, FramesInOrder PROVE Mapped
  OBVIOUS
<1>1. /\ getNumBuffered \in Nat /\ currentFrameDisplayed \in Nat
      /\ totalFramesBuffered = currentFrameDisplayed + getNumBuffered
  BY NumFramesAssumption DEF TypeOK, FramesInOrder, getNumBuffered
<1>2. currentFrameDisplayed \in currentFrameDisplayed .. totalFramesBuffered
  BY <1>1
<1>3. \A i \in 1 .. getNumBuffered :
        currentFrameDisplayed + i \in currentFrameDisplayed .. totalFramesBuffered
  BY <1>1
<1>4. \A i \in 1 .. getNumBuffered :
        rgbFrames[(currentFrameDisplayed + i) % NumFrames] = currentFrameDisplayed + i
  BY <1>3 DEF FramesInOrder
<1> QED BY <1>1, <1>2, <1>4
        DEF FramesInOrder, FramesAfter, getReadIndex, Mapped, MappedQueue, MappedShown

\* With no frame in hand the stream is as the codec has it; with one in hand it
\* has one more to come, and giving it leaves what the codec has.
MappedStream ==
  /\ InHand = 0 => MappedCodec = codec
  /\ InHand = 1 => /\ MappedCodec.frames > 0
                   /\ [MappedCodec EXCEPT !.frames = MappedCodec.frames - 1] = codec

\* That is so because the codec's frames are a number.
LEMMA MappedStreamLemma == TypeOK => MappedStream
<1> SUFFICES ASSUME TypeOK PROVE MappedStream
  OBVIOUS
<1>1. codec \in [packets : Nat, frames : Nat, draining : BOOLEAN]
  BY DEF TypeOK
<1>2. /\ codec = [packets |-> codec.packets, frames |-> codec.frames, draining |-> codec.draining]
      /\ codec.frames \in Nat
  BY <1>1
<1>3. ASSUME InHand = 0 PROVE MappedCodec = codec
  <2>1. codec.frames + InHand = codec.frames
    BY <1>2, <1>3
  <2> QED BY <1>2, <2>1 DEF MappedCodec
<1>4. ASSUME InHand = 1
      PROVE  /\ MappedCodec.frames > 0
             /\ [MappedCodec EXCEPT !.frames = MappedCodec.frames - 1] = codec
  <2>1. MappedCodec.frames = codec.frames + 1
    BY <1>4 DEF MappedCodec
  <2>2. MappedCodec.frames > 0 /\ MappedCodec.frames - 1 = codec.frames
    BY <1>2, <2>1
  <2>3. \A x : [MappedCodec EXCEPT !.frames = x]
                 = [packets |-> codec.packets, frames |-> x, draining |-> codec.draining]
    BY DEF MappedCodec
  <2> QED BY <1>2, <2>2, <2>3
<1> QED BY <1>3, <1>4 DEF MappedStream

\* An initial state of the decoder is one of the abstract one.
LEMMA VideoInit == Init => Video!Init
<1> SUFFICES ASSUME Init PROVE Video!Init
  OBVIOUS
<1>1. TypeOK /\ Mapped
  BY TypeInit, RingInit, MappedLemma DEF RingInv
<1>2. getNumBuffered = 0 /\ currentFrameDisplayed = 0 /\ InHand = 0
  BY DEF Init, getNumBuffered, InHand
<1>3. MappedQueue = <<>> /\ MappedShown = 0
  BY <1>1, <1>2, FramesAfterFacts DEF Mapped
<1>4. Video!Ring!Init
  BY <1>3 DEF Init, Video!Ring!Init, MappedQueue, MappedShown
<1>5. MappedCodec = [packets |-> Packets, frames |-> 0, draining |-> FALSE]
  BY <1>1, <1>2, MappedStreamLemma DEF MappedStream, Init, Stream!Init
<1>6. Video!Source!Init
  BY <1>5 DEF Video!Source!Init, MappedCodec, InHand
<1> QED BY <1>4, <1>6 DEF Video!Init

\* A frame that is published is put into the queue.
LEMMA PublishPuts ==
  ASSUME TypeOK, RingInv, Mapped, Mapped', Publish
  PROVE  Video!Ring!Put
<1> USE DEF Mapped
<1>1. /\ totalFramesBuffered' = totalFramesBuffered + 1
      /\ currentFrameDisplayed' = currentFrameDisplayed /\ videoOutputEnded' = videoOutputEnded
  BY DEF Publish, DecodeOnly
<1>2. getNumBuffered' = getNumBuffered + 1 /\ getNumBuffered =< NumFrames - 2
  BY <1>1 DEF Publish, DecodeStep, RingInv, LoopBody, getNumBuffered
<1>3. MappedQueue' = Append(MappedQueue, totalFramesBuffered + 1)
  BY <1>1, <1>2, FramesAfterFacts
<1>4. Len(MappedQueue) < NumFrames - 1 /\ MappedShown' = MappedShown
  BY <1>1, <1>2, FramesAfterFacts, NumFramesAssumption
<1> QED BY <1>1, <1>3, <1>4 DEF Video!Ring!Put, MappedQueue, MappedShown

\* Advancing the tail takes the oldest frame.
LEMMA AdvanceTakes ==
  ASSUME TypeOK, RingInv, Mapped, Mapped', Advance
  PROVE  Video!Ring!Take
<1> USE DEF Mapped
<1>1. /\ totalFramesBuffered' = totalFramesBuffered
      /\ currentFrameDisplayed' = currentFrameDisplayed + 1 /\ videoOutputEnded' = videoOutputEnded
  BY DEF Advance, ClientOnly
<1>2. getNumBuffered' = getNumBuffered - 1 /\ getNumBuffered > 0
  BY <1>1 DEF Advance, ClientStep, RingInv, Taking, hasFrameBuffered, getNumBuffered
<1>3. /\ MappedQueue # <<>>
      /\ MappedQueue' = Tail(MappedQueue) /\ MappedShown' = Head(MappedQueue)
  BY <1>1, <1>2, FramesAfterFacts
<1> QED BY <1>1, <1>3 DEF Video!Ring!Take, MappedQueue, MappedShown

\* What is on neither side of the ring does not show.
LEMMA RingUnseen ==
  ASSUME Mapped, Mapped', UNCHANGED <<totalFramesBuffered, currentFrameDisplayed>>
  PROVE  MappedQueue' = MappedQueue /\ MappedShown' = MappedShown
BY DEF Mapped, getNumBuffered

\* A step of the decoder is a step of the abstract one or a stutter of it.
LEMMA VideoStep ==
  ASSUME TypeOK, RingInv, ThreadInv, Mapped, Mapped', MappedStream, MappedStream', [Next]_vars
  PROVE  [Video!Next]_(Video!vars)
<1>1. CASE Publish
  <2>1. InHand = 1 /\ InHand' = 0 /\ codec' = codec
    BY <1>1 DEF Publish, DecodeStep, InHand
  <2>2. MappedCodec' = codec'
    BY <2>1 DEF MappedStream
  <2>3. /\ MappedCodec.frames > 0
        /\ MappedCodec' = [MappedCodec EXCEPT !.frames = MappedCodec.frames - 1]
    BY <2>1, <2>2 DEF MappedStream
  <2>4. Video!Source!Give
    BY <2>3 DEF Video!Source!Give, MappedCodec, InHand
  <2>5. Video!Ring!Put
    BY <1>1, PublishPuts
  <2> QED BY <2>4, <2>5 DEF Video!Decode, Video!Next
<1>2. CASE Advance
  <2>1. InHand' = InHand /\ codec' = codec
    BY <1>2 DEF Advance, ClientOnly, InHand
  <2>2. MappedCodec' = MappedCodec
    BY <2>1 DEF MappedCodec
  <2>3. Video!Ring!Take
    BY <1>2, AdvanceTakes
  <2> QED BY <2>2, <2>3 DEF Video!Show, Video!Next, MappedCodec, InHand
<1>3. CASE ReceiveEnd \/ DtorEnd
  <2>1. /\ UNCHANGED <<totalFramesBuffered, currentFrameDisplayed, codec>>
        /\ videoOutputEnded' = TRUE /\ InHand' = InHand
    BY <1>3 DEF ReceiveEnd, DtorEnd, DecodeStep, DecodeOnly, ClientOnly, InHand
  <2>2. MappedQueue' = MappedQueue /\ MappedShown' = MappedShown /\ MappedCodec' = MappedCodec
    BY <2>1, RingUnseen DEF MappedCodec
  <2>3. Video!Ring!End
    BY <2>1, <2>2 DEF Video!Ring!End, MappedQueue, MappedShown
  <2> QED BY <2>2, <2>3 DEF Video!End, Video!Next, MappedCodec, InHand
<1>4. CASE ReceiveAgain
  <2>1. /\ UNCHANGED <<totalFramesBuffered, currentFrameDisplayed, videoOutputEnded>>
        /\ InHand = 0 /\ InHand' = 0
        /\ Stream!Feed \/ Stream!Announce
    BY <1>4 DEF ReceiveAgain, DecodeStep, DecodeOnly, InHand
  <2>2. MappedCodec = codec /\ MappedCodec' = codec'
    BY <2>1 DEF MappedStream
  <2>3. MappedQueue' = MappedQueue /\ MappedShown' = MappedShown
    BY <2>1, RingUnseen
  <2>4. Video!Source!Feed \/ Video!Source!Announce
    BY <2>1, <2>2 DEF Stream!Feed, Stream!Announce, Video!Source!Feed, Video!Source!Announce,
      MappedCodec, InHand
  <2> QED BY <2>1, <2>3, <2>4 DEF Video!Send, Video!Next, MappedQueue, MappedShown
<1>5. CASE ReceiveFrame
  <2>1. /\ UNCHANGED <<totalFramesBuffered, currentFrameDisplayed, videoOutputEnded>>
        /\ InHand = 0 /\ InHand' = 1 /\ Stream!Give
    BY <1>5 DEF ReceiveFrame, DecodeStep, DecodeOnly, InHand
  <2>2. codec \in [packets : Nat, frames : Nat, draining : BOOLEAN]
    BY DEF TypeOK
  <2>3. /\ codec'.packets = codec.packets /\ codec'.draining = codec.draining
        /\ codec'.frames = codec.frames - 1
    BY <2>1, <2>2 DEF Stream!Give
  <2>4. codec'.frames + InHand' = codec.frames + InHand
    <3>1. codec.frames \in Nat
      BY <2>2
    <3>2. PICK n \in Nat : n = codec.frames
      BY <3>1
    <3>3. (n - 1) + 1 = n + 0
      OBVIOUS
    <3> QED BY <2>1, <2>3, <3>2, <3>3
  <2>5. MappedQueue' = MappedQueue /\ MappedShown' = MappedShown /\ MappedCodec' = MappedCodec
    BY <2>1, <2>3, <2>4, RingUnseen DEF MappedCodec
  <2> QED BY <2>1, <2>5 DEF Video!vars, MappedQueue, MappedShown, MappedCodec, InHand
<1>6. CASE ~(Publish \/ Advance \/ ReceiveEnd \/ DtorEnd \/ ReceiveAgain \/ ReceiveFrame)
  <2>1. UNCHANGED <<totalFramesBuffered, currentFrameDisplayed, videoOutputEnded, codec>>
    BY <1>6 DEF Next, vars, DecodeThread, SpuriousWakeup, RunStart, CheckFull, CheckEnded,
       DecodeUnlock, Receive, Scale, DecodeLock, CheckBreak, Wait,
       WaitReturns, RunUnlock, Cleanup, internalRunEnds, ClientCall, StartThread, SetRunning,
       NextVideoFrame, ReadEnded, ReadTotal, ClientLock, ClientSignal, ClientUnlock,
       Delete, DtorLock, DtorSignal, DtorUnlock, DtorJoin, DtorWait, DtorFree, DecodeOnly, ClientOnly, Gone
  <2>2. InHand' = InHand
    <3> USE DEF InHand
    <3>1. CASE ClientSignal \/ DtorSignal
      BY <3>1 DEF ClientSignal, DtorSignal, Signal
    <3>2. CASE StartThread
      BY <3>2 DEF StartThread, ClientStep, ThreadInv
    <3>3. CASE RunStart \/ DecodeUnlock \/ Scale \/ DecodeLock \/ Wait \/ WaitReturns \/ RunUnlock
      BY <3>3 DEF RunStart, DecodeUnlock, Scale, DecodeLock, Wait, WaitReturns, RunUnlock, DecodeStep
    <3>4. CASE CheckFull \/ CheckEnded \/ CheckBreak
      BY <3>4 DEF CheckFull, CheckEnded, CheckBreak
    <3>5. CASE Cleanup \/ internalRunEnds \/ SpuriousWakeup
      BY <3>5 DEF Cleanup, internalRunEnds, SpuriousWakeup, DecodeStep
    <3>6. CASE UNCHANGED dpc
      BY <3>6
    <3> QED BY <1>6, <3>1, <3>2, <3>3, <3>4, <3>5, <3>6 DEF Next, vars, DecodeThread, Receive,
       ClientCall, SetRunning, NextVideoFrame, ReadEnded, ReadTotal, ClientLock, ClientUnlock,
       Delete, DtorLock, DtorUnlock, DtorJoin, DtorWait, DtorFree, Gone
  <2>3. MappedQueue' = MappedQueue /\ MappedShown' = MappedShown /\ MappedCodec' = MappedCodec
    BY <2>1, <2>2, RingUnseen DEF MappedCodec
  <2> QED BY <2>1, <2>3 DEF Video!vars, MappedQueue, MappedShown, MappedCodec, InHand
<1> QED BY <1>1, <1>2, <1>3, <1>4, <1>5, <1>6

\* The decoder implements the abstract one: the frames come out in the order they
\* were decoded, each once, at most NumFrames - 1 ahead of the one shown, and every
\* frame the codec gives is among them.
THEOREM DecoderImplementsVideo == Spec => ImplementsVideo
<1>1. TypeOK /\ RingInv => Mapped /\ MappedStream
  BY MappedLemma, MappedStreamLemma DEF RingInv
<1>2. TypeOK /\ RingInv /\ ThreadInv /\ Mapped /\ Mapped' /\ MappedStream /\ MappedStream'
        /\ [Next]_vars
        => [Video!Next]_(Video!vars)
  BY VideoStep
<1> QED BY <1>1, <1>2, VideoInit, TypeCorrect, RingCorrect, ThreadIsKept, PTL
        DEF Spec, ImplementsVideo, Video!Spec

-----------------------------------------------------------------------------
(* What follows from the abstract specification. *)

Promise == INSTANCE DecodedVideo_proofs WITH
  Capacity <- NumFrames - 1, codec <- MappedCodec, queue <- MappedQueue, shown <- MappedShown,
  produced <- totalFramesBuffered, ended <- videoOutputEnded

\* What is proved of the abstract specification holds of the decoder.
LEMMA PromiseIsKept == Spec => Promise!Spec
<1> USE DEF MappedCodec, MappedQueue, MappedShown, InHand
<1>1. Video!Init => Promise!Init
  BY DEF Video!Init, Promise!Init, Video!Source!Init, Promise!Source!Init,
    Video!Ring!Init, Promise!Ring!Init
<1>2. [Video!Next]_(Video!vars) => [Promise!Next]_(Promise!vars)
  BY DEF Video!Next, Promise!Next, Video!vars, Promise!vars, Video!Send, Promise!Send,
    Video!Decode, Promise!Decode, Video!Show, Promise!Show, Video!End, Promise!End,
    Video!Source!Feed, Promise!Source!Feed, Video!Source!Announce, Promise!Source!Announce,
    Video!Source!Give, Promise!Source!Give, Video!Ring!Put, Promise!Ring!Put,
    Video!Ring!Take, Promise!Ring!Take, Video!Ring!End, Promise!Ring!End
<1> QED BY <1>1, <1>2, DecoderImplementsVideo, PTL DEF ImplementsVideo, Video!Spec, Promise!Spec

\* The frames buffered so far, the one in hand and those still in the codec are
\* those of the packets it was sent: if each has at least so many and at most so
\* many, then they are as many.
FramesConserved(least, most) ==
  LET decoded == Packets - codec.packets
  IN totalFramesBuffered + InHand + codec.frames \in least * decoded .. most * decoded

\* Whatever the two threads do to the ring meanwhile, no frame of a packet is lost
\* on its way into the ring and none is buffered twice, also when the client ends
\* the video (VideoDecoder.cpp:408-466).
THEOREM FramesAreConserved ==
  ASSUME NEW least \in Nat, NEW most \in Nat, FramesPerPacket \subseteq least .. most
  PROVE  Spec => []FramesConserved(least, most)
<1>1. Promise!Spec => []Promise!Conserved(least, most)
  BY Promise!FramesAreConserved, PacketsAssumption
<1>2. TypeOK /\ Promise!Conserved(least, most) => FramesConserved(least, most)
  <2> SUFFICES ASSUME TypeOK, Promise!Conserved(least, most) PROVE FramesConserved(least, most)
    OBVIOUS
  <2>1. codec.frames \in Nat /\ InHand \in Nat /\ totalFramesBuffered \in Nat
    BY DEF TypeOK, InHand
  <2>2. MappedCodec.packets = codec.packets /\ MappedCodec.frames = codec.frames + InHand
    BY DEF MappedCodec
  <2>3. totalFramesBuffered + MappedCodec.frames = totalFramesBuffered + InHand + codec.frames
    BY <2>1, <2>2
  <2> QED BY <2>2, <2>3 DEF Promise!Conserved, FramesConserved
<1> QED BY <1>1, <1>2, PromiseIsKept, TypeCorrect, PTL

-----------------------------------------------------------------------------
(* How soon the decode thread returns. *)

\* The steps that are left to it, at most, once the video has ended.
StepsLeft ==
  [p \in DecodePoints |->
    CASE p = "none" -> 12 [] p = "unlock" -> 11 [] p = "receive" -> 10
      [] p \in {"scale", "wait"} -> 9 [] p \in {"publish", "blocked"} -> 8
      [] p \in {"start", "lock", "relock"} -> 7 [] p = "checkFull" -> 6 [] p = "checkEnded" -> 5
      [] p = "checkBreak" -> 4 [] p = "unlockEnd" -> 3 [] p = "cleanup" -> 2
      [] p = "finish" -> 1 [] p = "done" -> 0]

\* Once the video was ended, by either thread and at whatever point of its loop,
\* every step takes the decode thread nearer to its return: it decodes at most one
\* more frame and waits at most once more (VideoDecoder.cpp:408-472).
StopsSoon == [][videoOutputEnded => dpc' = dpc \/ StepsLeft[dpc'] < StepsLeft[dpc]]_vars

\* So join() waits for a bounded number of steps, provided that the thread is not
\* left asleep, see OnlyStolenLocksLoseWakeups.
THEOREM ThreadStopsSoon == Spec => StopsSoon
<1>1. ASSUME ThreadInv, [Next]_vars, videoOutputEnded
      PROVE  dpc' = dpc \/ StepsLeft[dpc'] < StepsLeft[dpc]
  <2> DEFINE S == StepsLeft
  <2> SUFFICES dpc' = dpc \/ S[dpc'] < S[dpc]
    OBVIOUS
  <2>0. /\ S["none"] = 12 /\ S["unlock"] = 11 /\ S["receive"] = 10 /\ S["scale"] = 9
        /\ S["wait"] = 9 /\ S["publish"] = 8 /\ S["blocked"] = 8 /\ S["start"] = 7
        /\ S["lock"] = 7 /\ S["relock"] = 7 /\ S["checkFull"] = 6 /\ S["checkEnded"] = 5
        /\ S["checkBreak"] = 4 /\ S["unlockEnd"] = 3 /\ S["cleanup"] = 2 /\ S["finish"] = 1
        /\ S["done"] = 0
    BY DEF StepsLeft, DecodePoints
  <2> HIDE DEF S
  <2>1. CASE RunStart \/ CheckFull \/ CheckEnded \/ DecodeUnlock
    <3>1. \/ dpc = "start" /\ dpc' = "checkFull"
          \/ dpc = "checkFull" /\ dpc' \in {"checkBreak", "checkEnded"}
          \/ dpc = "checkEnded" /\ dpc' = "checkBreak"
          \/ dpc = "unlock" /\ dpc' = "receive"
      BY <1>1, <2>1 DEF RunStart, CheckFull, CheckEnded, DecodeUnlock, DecodeStep
    <3> QED BY <2>0, <3>1
  <2>2. CASE Receive \/ Scale \/ Publish \/ DecodeLock
    <3>1. \/ dpc = "receive" /\ dpc' \in {"checkFull", "checkBreak", "scale"}
          \/ dpc = "scale" /\ dpc' = "publish"
          \/ dpc = "publish" /\ dpc' = "lock"
          \/ dpc = "lock" /\ dpc' = "checkFull"
      BY <2>2 DEF Receive, ReceiveAgain, ReceiveEnd, ReceiveFrame, Scale, Publish, DecodeLock, DecodeStep
    <3> QED BY <2>0, <3>1
  <2>3. CASE CheckBreak \/ Wait \/ WaitReturns \/ SpuriousWakeup
    <3>1. \/ dpc = "checkBreak" /\ dpc' = "unlockEnd"
          \/ dpc = "wait" /\ dpc' = "blocked"
          \/ dpc = "blocked" /\ dpc' = "relock"
          \/ dpc = "relock" /\ dpc' = "checkFull"
      BY <1>1, <2>3 DEF CheckBreak, Wait, WaitReturns, SpuriousWakeup, DecodeStep
    <3> QED BY <2>0, <3>1
  <2>4. CASE RunUnlock \/ Cleanup \/ internalRunEnds
    <3>1. \/ dpc = "unlockEnd" /\ dpc' = "cleanup"
          \/ dpc = "cleanup" /\ dpc' = "finish"
          \/ dpc = "finish" /\ dpc' = "done"
      BY <2>4 DEF RunUnlock, Cleanup, internalRunEnds, DecodeStep
    <3> QED BY <2>0, <3>1
  <2>5. CASE ClientSignal \/ DtorSignal
    <3>1. dpc' = dpc \/ (dpc = "blocked" /\ dpc' = "relock")
      BY <2>5 DEF ClientSignal, DtorSignal, Signal
    <3> QED BY <2>0, <3>1
  <2>6. CASE StartThread
    <3>1. dpc' = dpc \/ (dpc = "none" /\ dpc' = "start")
      BY <1>1, <2>6 DEF StartThread, ClientStep, ThreadInv
    <3> QED BY <2>0, <3>1
  <2>7. CASE UNCHANGED dpc
    BY <2>7
  <2> QED BY <1>1, <2>1, <2>2, <2>3, <2>4, <2>5, <2>6, <2>7
          DEF Next, DecodeThread, ClientCall, vars, SetRunning, NextVideoFrame, ReadEnded, ReadTotal,
          ClientLock, Advance, ClientUnlock, Delete, DtorLock, DtorEnd, DtorUnlock, DtorJoin,
          DtorWait, DtorFree, Gone
<1> QED BY <1>1, ThreadIsKept, PTL DEF Spec, StopsSoon
=============================================================================
