---------------------------- MODULE VideoDecoder ----------------------------
(***************************************************************************)
(* The native video decoder: the decode thread that fills the ring of RGB  *)
(* frames and the thread of the client that takes frames out of it and     *)
(* finally deletes the object (jni/VideoDecoder.cpp, Thread.cpp, Mutex.hpp *)
(* and CondVar.hpp).                                                       *)
(*                                                                         *)
(* Every read or write of a field both threads use, and every call on      *)
(* decodeMutex or decodeCondvar, is a step of its own.  Memory is          *)
(* sequentially consistent: the counters are changed with full barriers,   *)
(* and each flag only ever goes from FALSE to TRUE.                        *)
(***************************************************************************)
EXTENDS Integers

CONSTANTS
  NumFrames,        \* VIDEOPLAYER_VIDEO_NUM_BUFFERED_FRAMES, the slots of the ring
  Packets,          \* the number of video packets in the container
  FramesPerPacket,  \* how many frames a packet may have
  ForeignUnlock     \* what unlocking a mutex another thread owns may do: POSIX
                    \* leaves it undefined, so a subset of {"releases", "refused"}

ASSUME NumFramesAssumption == NumFrames \in Nat \ {0, 1}
ASSUME PacketsAssumption == Packets \in Nat
ASSUME FramesPerPacketAssumption == FramesPerPacket \subseteq Nat
ASSUME ForeignUnlockAssumption == ForeignUnlock \in SUBSET {"releases", "refused"}

VARIABLES
  dpc,                    \* where the decode thread is in run()
  rpc,                    \* where the client's thread is in the object's methods
  decodeMutex,            \* the owner of decodeMutex, or "free"
  videoOutputEnded,
  totalFramesBuffered,    \* head of the ring
  currentFrameDisplayed,  \* tail of the ring
  rgbFrames,              \* the ring: what each slot's pixels and pts show
  buffer,                 \* the slot nextVideoFrame returned last, or NULL
  codec,                  \* the stream of packets and frames, see CodedStream
  running, detached,      \* the fields of Thread
  cancelled               \* pthread_cancel was called on threadId

thread == <<running, detached, cancelled>>
counters == <<totalFramesBuffered, currentFrameDisplayed>>
vars == <<dpc, rpc, decodeMutex, videoOutputEnded, totalFramesBuffered,
          currentFrameDisplayed, rgbFrames, buffer, codec, running, detached, cancelled>>

Slots == 0 .. NumFrames - 1

\* What the loops of PacketQueues and the codec do for this thread.
Stream == INSTANCE CodedStream

\* A slot shows 0 before anything was decoded into it, k when it holds the
\* k-th frame of the video, and Torn while sws_scale is writing it.
Torn == -1
NULL == -1

DecodePoints == {"none", "start", "checkFull", "checkEnded", "unlock", "receive",
                 "scale", "publish", "lock", "checkBreak", "wait", "blocked",
                 "relock", "unlockEnd", "cleanup", "finish", "done"}
ClientPoints == {"load", "setRunning", "idle", "readEnded", "readTotal", "lock",
                 "advance", "signal", "unlock", "dLock", "dEnd", "dSignal",
                 "dUnlock", "dJoin", "dWait", "dFree", "deleted"}

-----------------------------------------------------------------------------
(* The ring. *)

getReadIndex == currentFrameDisplayed % NumFrames

\* Faulty: the slot of the newest frame is written again.
getWriteIndexNoGap == totalFramesBuffered % NumFrames

getWriteIndex == (totalFramesBuffered + 1) % NumFrames

getNumBuffered == totalFramesBuffered - currentFrameDisplayed

hasFrameBuffered == getNumBuffered >= 1

\* Faulty: no slot is left empty.
ringFullNoGap == getNumBuffered = NumFrames

ringFull == getNumBuffered = NumFrames - 1

-----------------------------------------------------------------------------
(* decodeMutex and decodeCondvar.  The mutex has the default type, which    *)
(* does not know its owner: unlock by a thread that does not hold it is     *)
(* undefined.                                                               *)

Lock(t) == decodeMutex = "free" /\ decodeMutex' = t

Unlock(t) ==
  \/ decodeMutex \in {t, "free"} /\ decodeMutex' = "free"
  \/ decodeMutex \notin {t, "free"} /\ "releases" \in ForeignUnlock /\ decodeMutex' = "free"
  \/ decodeMutex \notin {t, "free"} /\ "refused" \in ForeignUnlock /\ UNCHANGED decodeMutex

\* Faulty: nobody is woken.
SignalNobody == UNCHANGED dpc

\* pthread_cond_signal wakes the decode thread if it is waiting, and is
\* forgotten otherwise.
Signal == dpc' = IF dpc = "blocked" THEN "relock" ELSE dpc

-----------------------------------------------------------------------------
(* The decode thread: run(), and internalRun() around it. *)

DecodeStep(from, to) == dpc = from /\ dpc' = to

DecodeOnly == UNCHANGED <<rpc, currentFrameDisplayed, buffer, detached, cancelled>>

RunStart ==
  /\ DecodeStep("start", "checkFull")
  /\ Lock("decode")
  /\ DecodeOnly
  /\ UNCHANGED <<videoOutputEnded, totalFramesBuffered, rgbFrames, codec, running>>

\* The inner loop's condition: isBuffered() reads the counters and, on a ring
\* that is not full, videoOutputEnded; a flag found set ends the loop whatever
\* hasFrameBuffered() says, because the condition tests it again.
CheckFull ==
  /\ dpc = "checkFull"
  /\ dpc' = IF ringFull THEN "checkBreak" ELSE "checkEnded"
  /\ DecodeOnly
  /\ UNCHANGED <<decodeMutex, videoOutputEnded, totalFramesBuffered, rgbFrames, codec, running>>

CheckEnded ==
  /\ dpc = "checkEnded"
  /\ dpc' = IF videoOutputEnded THEN "checkBreak" ELSE "unlock"
  /\ DecodeOnly
  /\ UNCHANGED <<decodeMutex, videoOutputEnded, totalFramesBuffered, rgbFrames, codec, running>>

DecodeUnlock ==
  /\ DecodeStep("unlock", "receive")
  /\ Unlock("decode")
  /\ DecodeOnly
  /\ UNCHANGED <<videoOutputEnded, totalFramesBuffered, rgbFrames, codec, running>>

\* Faulty: the end of the container is not noticed.
ReceiveAgainForever ==
  /\ DecodeStep("receive", "checkFull")
  /\ codec' = [codec EXCEPT !.packets = @ - 1]
  /\ DecodeOnly
  /\ UNCHANGED <<decodeMutex, videoOutputEnded, totalFramesBuffered, rgbFrames, running>>

\* avcodec_receive_frame wants input: one packet, or the end of the stream, is
\* sent and the loop continues, without decodeMutex.
ReceiveAgain ==
  /\ DecodeStep("receive", "checkFull")
  /\ Stream!Feed \/ Stream!Announce
  /\ DecodeOnly
  /\ UNCHANGED <<decodeMutex, videoOutputEnded, totalFramesBuffered, rgbFrames, running>>

\* A decoding error or the end of the stream: the loop is left, still without
\* decodeMutex.
ReceiveEnd ==
  /\ DecodeStep("receive", "checkBreak")
  /\ videoOutputEnded' = TRUE
  /\ DecodeOnly
  /\ UNCHANGED <<decodeMutex, totalFramesBuffered, rgbFrames, codec, running>>

ReceiveFrame ==
  /\ DecodeStep("receive", "scale")
  /\ Stream!Give
  /\ rgbFrames' = [rgbFrames EXCEPT ![getWriteIndex] = Torn]
  /\ DecodeOnly
  /\ UNCHANGED <<decodeMutex, videoOutputEnded, totalFramesBuffered, running>>

Scale ==
  /\ DecodeStep("scale", "publish")
  /\ rgbFrames' = [rgbFrames EXCEPT ![getWriteIndex] = totalFramesBuffered + 1]
  /\ DecodeOnly
  /\ UNCHANGED <<decodeMutex, videoOutputEnded, totalFramesBuffered, codec, running>>

\* Faulty: a frame that is ready after the video was ended is dropped.
PublishUnlessEnded ==
  /\ DecodeStep("publish", "lock")
  /\ totalFramesBuffered' = totalFramesBuffered + (IF videoOutputEnded THEN 0 ELSE 1)
  /\ DecodeOnly
  /\ UNCHANGED <<decodeMutex, videoOutputEnded, rgbFrames, codec, running>>

Publish ==
  /\ DecodeStep("publish", "lock")
  /\ totalFramesBuffered' = totalFramesBuffered + 1
  /\ DecodeOnly
  /\ UNCHANGED <<decodeMutex, videoOutputEnded, rgbFrames, codec, running>>

DecodeLock ==
  /\ DecodeStep("lock", "checkFull")
  /\ Lock("decode")
  /\ DecodeOnly
  /\ UNCHANGED <<videoOutputEnded, totalFramesBuffered, rgbFrames, codec, running>>

CheckBreak ==
  /\ dpc = "checkBreak"
  /\ dpc' = IF videoOutputEnded THEN "unlockEnd" ELSE "wait"
  /\ DecodeOnly
  /\ UNCHANGED <<decodeMutex, videoOutputEnded, totalFramesBuffered, rgbFrames, codec, running>>

\* pthread_cond_wait gives the mutex up and blocks, in one step.
Wait ==
  /\ DecodeStep("wait", "blocked")
  /\ Unlock("decode")
  /\ DecodeOnly
  /\ UNCHANGED <<videoOutputEnded, totalFramesBuffered, rgbFrames, codec, running>>

SpuriousWakeup ==
  /\ DecodeStep("blocked", "relock")
  /\ DecodeOnly
  /\ UNCHANGED <<decodeMutex, videoOutputEnded, totalFramesBuffered, rgbFrames, codec, running>>

WaitReturns ==
  /\ DecodeStep("relock", "checkFull")
  /\ Lock("decode")
  /\ DecodeOnly
  /\ UNCHANGED <<videoOutputEnded, totalFramesBuffered, rgbFrames, codec, running>>

RunUnlock ==
  /\ DecodeStep("unlockEnd", "cleanup")
  /\ Unlock("decode")
  /\ DecodeOnly
  /\ UNCHANGED <<videoOutputEnded, totalFramesBuffered, rgbFrames, codec, running>>

Cleanup ==
  /\ DecodeStep("cleanup", "finish")
  /\ DecodeOnly
  /\ UNCHANGED <<decodeMutex, videoOutputEnded, totalFramesBuffered, rgbFrames, codec, running>>

internalRunEnds ==
  /\ DecodeStep("finish", "done")
  /\ running' = FALSE
  /\ DecodeOnly
  /\ UNCHANGED <<decodeMutex, videoOutputEnded, totalFramesBuffered, rgbFrames, codec>>

-----------------------------------------------------------------------------
(* The client's thread: the end of loadContainer, nextVideoFrame and the    *)
(* destructor.                                                              *)

ClientStep(from, to) == rpc = from /\ rpc' = to

ClientOnly == UNCHANGED <<totalFramesBuffered, rgbFrames, codec>>

\* start(): pthread_create, whose failure loadContainer ignores, and only then
\* running = true.
StartThread ==
  /\ \/ ClientStep("load", "setRunning") /\ dpc' = "start"
     \/ ClientStep("load", "idle") /\ UNCHANGED dpc
  /\ ClientOnly
  /\ UNCHANGED <<decodeMutex, videoOutputEnded, currentFrameDisplayed, buffer, thread>>

SetRunning ==
  /\ ClientStep("setRunning", "idle")
  /\ running' = TRUE
  /\ ClientOnly
  /\ UNCHANGED <<dpc, decodeMutex, videoOutputEnded, currentFrameDisplayed, buffer, detached, cancelled>>

NextVideoFrame ==
  /\ rpc = "idle"
  /\ rpc' = IF hasFrameBuffered THEN "lock" ELSE "readEnded"
  /\ ClientOnly
  /\ UNCHANGED <<dpc, decodeMutex, videoOutputEnded, currentFrameDisplayed, buffer, thread>>

ReadEnded ==
  /\ rpc = "readEnded"
  /\ rpc' = IF videoOutputEnded THEN "idle" ELSE "readTotal"
  /\ buffer' = IF videoOutputEnded THEN NULL ELSE buffer
  /\ ClientOnly
  /\ UNCHANGED <<dpc, decodeMutex, videoOutputEnded, currentFrameDisplayed, thread>>

\* Nothing was ever buffered: NULL; otherwise the frame shown already.
ReadTotal ==
  /\ ClientStep("readTotal", "idle")
  /\ buffer' = IF totalFramesBuffered = 0 THEN NULL ELSE getReadIndex
  /\ ClientOnly
  /\ UNCHANGED <<dpc, decodeMutex, videoOutputEnded, currentFrameDisplayed, thread>>

\* Faulty: decodeMutex is not taken around the counter and the signal.
ClientLockNothing ==
  /\ ClientStep("lock", "advance")
  /\ ClientOnly
  /\ UNCHANGED <<dpc, decodeMutex, videoOutputEnded, currentFrameDisplayed, buffer, thread>>

ClientLock ==
  /\ ClientStep("lock", "advance")
  /\ Lock("render")
  /\ ClientOnly
  /\ UNCHANGED <<dpc, videoOutputEnded, currentFrameDisplayed, buffer, thread>>

Advance ==
  /\ ClientStep("advance", "signal")
  /\ currentFrameDisplayed' = currentFrameDisplayed + 1
  /\ ClientOnly
  /\ UNCHANGED <<dpc, decodeMutex, videoOutputEnded, buffer, thread>>

ClientSignal ==
  /\ ClientStep("signal", "unlock")
  /\ Signal
  /\ ClientOnly
  /\ UNCHANGED <<decodeMutex, videoOutputEnded, currentFrameDisplayed, buffer, thread>>

ClientUnlock ==
  /\ ClientStep("unlock", "idle")
  /\ Unlock("render")
  /\ buffer' = getReadIndex
  /\ ClientOnly
  /\ UNCHANGED <<dpc, videoOutputEnded, currentFrameDisplayed, thread>>

\* The client deletes the object and forgets the buffer it was given.
Delete ==
  /\ ClientStep("idle", "dLock")
  /\ buffer' = NULL
  /\ ClientOnly
  /\ UNCHANGED <<dpc, decodeMutex, videoOutputEnded, currentFrameDisplayed, thread>>

\* Faulty: the flag is set and signalled without decodeMutex.
DtorLockNothing ==
  /\ ClientStep("dLock", "dEnd")
  /\ ClientOnly
  /\ UNCHANGED <<dpc, decodeMutex, videoOutputEnded, currentFrameDisplayed, buffer, thread>>

DtorLock ==
  /\ ClientStep("dLock", "dEnd")
  /\ Lock("render")
  /\ ClientOnly
  /\ UNCHANGED <<dpc, videoOutputEnded, currentFrameDisplayed, buffer, thread>>

DtorEnd ==
  /\ ClientStep("dEnd", "dSignal")
  /\ videoOutputEnded' = TRUE
  /\ ClientOnly
  /\ UNCHANGED <<dpc, decodeMutex, currentFrameDisplayed, buffer, thread>>

DtorSignal ==
  /\ ClientStep("dSignal", "dUnlock")
  /\ Signal
  /\ ClientOnly
  /\ UNCHANGED <<decodeMutex, videoOutputEnded, currentFrameDisplayed, buffer, thread>>

DtorUnlock ==
  /\ ClientStep("dUnlock", "dJoin")
  /\ Unlock("render")
  /\ ClientOnly
  /\ UNCHANGED <<dpc, videoOutputEnded, currentFrameDisplayed, buffer, thread>>

\* Faulty: the thread is detached instead of joined.
DtorJoinDetaches ==
  /\ ClientStep("dJoin", "dFree")
  /\ detached' = (detached \/ running)
  /\ ClientOnly
  /\ UNCHANGED <<dpc, decodeMutex, videoOutputEnded, currentFrameDisplayed, buffer, running, cancelled>>

\* join() decides by running whether it waits: a thread that has returned by then
\* is not waited for, one that returns during the wait is.
DtorJoin ==
  /\ rpc = "dJoin"
  /\ rpc' = IF running /\ ~detached THEN "dWait" ELSE "dFree"
  /\ ClientOnly
  /\ UNCHANGED <<dpc, decodeMutex, videoOutputEnded, currentFrameDisplayed, buffer, thread>>

\* pthread_join returns once the thread has, which reset running on its way.
DtorWait ==
  /\ ClientStep("dWait", "dFree")
  /\ dpc = "done"
  /\ detached' = TRUE
  /\ ClientOnly
  /\ UNCHANGED <<dpc, decodeMutex, videoOutputEnded, currentFrameDisplayed, buffer, running, cancelled>>

\* The rest of the destructor frees everything run() uses; ~Thread follows.
DtorFree ==
  /\ ClientStep("dFree", "deleted")
  /\ detached' = (detached \/ running)
  /\ cancelled' = running
  /\ ClientOnly
  /\ UNCHANGED <<dpc, decodeMutex, videoOutputEnded, currentFrameDisplayed, buffer, running>>

\* Nothing is left to do once the object is gone and the thread has returned.
Gone == rpc = "deleted" /\ dpc \in {"none", "done"} /\ UNCHANGED vars

-----------------------------------------------------------------------------
Init ==
  /\ dpc = "none"
  /\ rpc = "load"
  /\ decodeMutex = "free"
  /\ videoOutputEnded = FALSE
  /\ totalFramesBuffered = 0
  /\ currentFrameDisplayed = 0
  /\ rgbFrames = [s \in Slots |-> 0]
  /\ buffer = NULL
  /\ Stream!Init
  /\ running = FALSE
  /\ detached = FALSE
  /\ cancelled = FALSE

Receive == ReceiveAgain \/ ReceiveEnd \/ ReceiveFrame

DecodeThread ==
  \/ RunStart \/ CheckFull \/ CheckEnded \/ DecodeUnlock
  \/ Receive \/ Scale \/ Publish \/ DecodeLock
  \/ CheckBreak \/ Wait \/ WaitReturns
  \/ RunUnlock \/ Cleanup \/ internalRunEnds

\* The steps of a method that was called: load, nextVideoFrame or the destructor.
ClientCall ==
  \/ StartThread \/ SetRunning
  \/ ReadEnded \/ ReadTotal
  \/ ClientLock \/ Advance \/ ClientSignal \/ ClientUnlock
  \/ DtorLock \/ DtorEnd \/ DtorSignal \/ DtorUnlock \/ DtorJoin \/ DtorWait \/ DtorFree

Next ==
  \/ DecodeThread \/ SpuriousWakeup
  \/ ClientCall \/ NextVideoFrame \/ Delete
  \/ Gone

Spec == Init /\ [][Next]_vars

\* Both threads keep running and a mutex that is free again and again is got in
\* the end.  A call that was made goes on, but the client need not make another
\* one, and spurious wakeups need not happen.
DecodeLocks == RunStart \/ DecodeLock \/ WaitReturns
ClientLocks == ClientLock \/ DtorLock

FairSpec ==
  /\ Spec
  /\ WF_vars(DecodeThread) /\ WF_vars(ClientCall)
  /\ SF_vars(DecodeLocks) /\ SF_vars(ClientLocks)
-----------------------------------------------------------------------------
(* Properties. *)

\* Type correctness of the decoder's fields.
TypeOK ==
  /\ dpc \in DecodePoints /\ rpc \in ClientPoints
  /\ decodeMutex \in {"free", "decode", "render"}
  /\ totalFramesBuffered \in Nat /\ currentFrameDisplayed \in Nat
  /\ rgbFrames \in [Slots -> Int]
  /\ buffer \in Slots \cup {NULL}
  /\ codec \in [packets : Nat, frames : Nat, draining : BOOLEAN]
  /\ videoOutputEnded \in BOOLEAN
  /\ running \in BOOLEAN /\ detached \in BOOLEAN /\ cancelled \in BOOLEAN

\* The frames between the tail and the head are in their slots, complete and in
\* the order of the video: each call of nextVideoFrame that advances shows the
\* next frame, and neither thread's unlocked reads of the counters let the
\* writer lap the reader (VideoDecoder.cpp:270-295, 449-459).
FramesInOrder ==
  /\ getNumBuffered \in 0 .. NumFrames - 1
  /\ \A k \in currentFrameDisplayed .. totalFramesBuffered : rgbFrames[k % NumFrames] = k

\* The pixels of the buffer the client was handed do not change while it uses
\* them, that is until its next call (VideoDecoder.h:39: the single empty
\* element is a protection).
HeldFrameStable ==
  [][rpc = "idle" /\ buffer # NULL => rgbFrames'[buffer] = rgbFrames[buffer]]_vars

\* From the codec to the client nothing is dropped, repeated or reordered: what
\* every thread does to the codec, the counters and the slots is a step of
\* DecodedVideo or changes nothing it tells apart.  A frame counts as decoded when
\* it is published; until then the one in hand is still to come, also when the
\* destructor ends the video meanwhile (VideoDecoder.h:176-186, VideoDecoder.cpp:
\* 442-461).
Video == INSTANCE DecodedVideo WITH
  Capacity <- NumFrames - 1,
  codec <- [packets |-> codec.packets,
            frames |-> codec.frames + (IF dpc \in {"scale", "publish"} THEN 1 ELSE 0),
            draining |-> codec.draining],
  queue <- [i \in 1 .. getNumBuffered |-> rgbFrames[(currentFrameDisplayed + i) % NumFrames]],
  shown <- rgbFrames[getReadIndex],
  produced <- totalFramesBuffered,
  ended <- videoOutputEnded

ImplementsVideo == Video!Spec

\* Nothing the destructor frees is used by a decode thread that still runs,
\* although join() does not wait once running is reset.
NoUseAfterFree == rpc \in {"dFree", "deleted"} => dpc \in {"none", "done"}

\* The decode thread sleeps only on a full ring of a video nobody ended, or the
\* client is about to wake it: no wakeup is lost.
NoLostWakeup ==
  dpc = "blocked" =>
    /\ ringFull \/ rpc = "signal"
    /\ videoOutputEnded => rpc = "dSignal"

\* An unlock of run() releases decodeMutex while the client holds it
\* (VideoDecoder.cpp:419, 467).
StealsLock == decodeMutex = "render" /\ decodeMutex' = "free" /\ UNCHANGED rpc

\* An empty ring is filled again, or the video ends: a thread that was started
\* does not leave the client without frames.
Refills ==
  (dpc # "none" /\ ~hasFrameBuffered) ~> (hasFrameBuffered \/ videoOutputEnded)

\* Deleting the decoder finishes: the decode thread is woken up and stopped
\* (VideoDecoder.cpp:67).
DeleteFinishes == rpc = "dLock" ~> rpc = "deleted"

\* The disposed decoder's thread was joined or detached, so that its stack is
\* given back (VideoDecoder.java:35: "with it cleanup everything").  A thread that
\* returns while join() waits for it is; one that returned before is not.
ThreadReclaimed == rpc = "deleted" /\ dpc = "done" => detached

\* The frame nextVideoFrame returns is one of the video (VideoDecoder.java:199).
ReturnsDecodedFrame == rpc = "idle" /\ buffer # NULL => rgbFrames[buffer] > 0
=============================================================================
