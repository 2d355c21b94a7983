------------------------------ MODULE Decoding ------------------------------
(***************************************************************************)
(* A loaded decoder as a whole: the demultiplexing and decoding loops of   *)
(* PacketQueues, the ring of frames between the decode thread and the      *)
(* client, and the reader the container is read through, which run() gives *)
(* back when it returns (VideoDecoder.cpp, VideoDecoder.java).             *)
(*                                                                         *)
(* The client is one thread: it calls nextVideoFrame, updateAudioBuffer    *)
(* and finally the destructor.                                             *)
(***************************************************************************)
EXTENDS PacketQueues

CONSTANT RingSize   \* the frames that can be buffered ahead of the one shown

ASSUME RingSizeAssumption == RingSize \in Nat \ {0}

VARIABLES
  queue, shown, produced,  \* the ring, see FrameQueue
  asleep,                  \* the decode thread found the ring full and waits
  reader,                  \* the callback's data still refers to the reader
  deleted                  \* the client has called the destructor

ring == <<queue, shown, produced>>
whole == <<vars, ring, asleep, reader, deleted>>

\* The decoder's promise, which VideoDecoder implements step by step.
Ring == INSTANCE FrameQueue WITH Capacity <- RingSize, ended <- outputEnded["video"]

-----------------------------------------------------------------------------
(* The decode thread. *)

\* The thread goes on with room in the ring, or once the video has ended.
Room == Len(queue) < RingSize \/ outputEnded["video"]

VideoFrame == ReceiveFrame("video") /\ Ring!Put /\ UNCHANGED <<asleep, reader, deleted>>

VideoStep ==
  /\ \/ ~asleep /\ Room /\ TestEnded("video")
     \/ ReceiveEnd("video") \/ ReceiveAgain("video") \/ Fetch("video")
  /\ UNCHANGED <<ring, asleep, reader, deleted>>

\* The check of a full ring and the wait behind it.
FallAsleep ==
  /\ ~asleep /\ asleep' = TRUE
  /\ pc["video"] = "test" /\ ~Room
  /\ UNCHANGED <<vars, ring, reader, deleted>>

\* A signal, or no reason.  The signal of NextVideoFrame or Delete may be lost, see
\* VideoDecoder, so that neither has to be followed by this step.
WakeUp ==
  /\ asleep /\ asleep' = FALSE
  /\ UNCHANGED <<vars, ring, reader, deleted>>

\* Behind its loop run() calls cleanupFunc, which deletes the reference to the
\* reader.
Cleanup ==
  /\ pc["video"] \in Ends
  /\ reader /\ reader' = FALSE
  /\ UNCHANGED <<vars, ring, asleep, deleted>>

-----------------------------------------------------------------------------
(* The client. *)

AudioStep ==
  /\ TestEnded("audio") \/ Receive("audio") \/ Fetch("audio")
  /\ UNCHANGED <<ring, asleep, reader, deleted>>

UpdateAudioBuffer ==
  /\ ~deleted
  /\ CallAudio
  /\ UNCHANGED <<ring, asleep, reader, deleted>>

NextVideoFrame ==
  /\ ~deleted /\ pc["audio"] \in {"idle"} \cup Ends
  /\ UNCHANGED <<vars, asleep, reader, deleted>>
  /\ Ring!Take

Delete ==
  /\ ~deleted /\ deleted' = TRUE
  /\ Destroy
  /\ UNCHANGED <<ring, asleep, reader>>

Lock(t) == LockPackets(t) /\ UNCHANGED <<ring, asleep, reader, deleted>>

\* The decode thread has returned and the client is through.
Finished == deleted /\ ~reader /\ UNCHANGED whole

-----------------------------------------------------------------------------
WholeInit ==
  /\ Init
  /\ queue = <<>> /\ shown = 0 /\ produced = 0
  /\ asleep = FALSE /\ reader = TRUE /\ deleted = FALSE

WholeNext ==
  \/ VideoFrame \/ VideoStep \/ FallAsleep \/ WakeUp \/ Cleanup
  \/ AudioStep \/ (\E t \in Threads : Lock(t))
  \/ UpdateAudioBuffer \/ NextVideoFrame \/ Delete
  \/ Finished

\* Both threads run on, and get a mutex that is free again and again; the client
\* need not make another call, and nothing promises that a sleeping thread is woken.
WholeSpec ==
  /\ WholeInit /\ [][WholeNext]_whole
  /\ WF_whole(VideoFrame \/ VideoStep \/ FallAsleep) /\ WF_whole(Cleanup) /\ WF_whole(AudioStep)
  /\ \A t \in Threads : SF_whole(Lock(t))

-----------------------------------------------------------------------------
(* Properties. *)

\* The container is read only while the reader is there, although the decode
\* thread gives it back when the video ends and the client may still fetch audio:
\* a video that ended in good order leaves nothing to read.  Only an error of the
\* video, of its codec or of a read of its thread, leaves audio to be read through
\* callback data that is zeroed (VideoDecoder.java:118, VideoDecoder.cpp:469-471).
ReadsLiveReader ==
  \A t \in Threads : pc[t] = "read" /\ ~reader =>
    \/ container.position = Packets
    \/ pc["video"] = "error" \/ "video" \in container.failed

\* For the video, container, queue, codec and ring together do what DecodedVideo
\* promises, and the loop that VideoDecoder models in detail works on the same
\* stream.  Audio decodes its own, with no ring behind it.
Video == INSTANCE DecodedVideo WITH
  FramesPerPacket <- {FramesOf(p) : p \in PacketKinds},
  Capacity <- RingSize,
  codec <- [packets |-> Packets - sent["video"], frames |-> FramesLeft(codec["video"]),
            draining |-> codec["video"].eof],
  ended <- outputEnded["video"]

AudioStream == INSTANCE CodedStream WITH
  FramesPerPacket <- {FramesOf(p) : p \in PacketKinds},
  codec <- [packets |-> Packets - sent["audio"], frames |-> FramesLeft(codec["audio"]),
            draining |-> codec["audio"].eof]

ImplementsStreams == Video!Spec /\ AudioStream!Spec

\* The container is read ahead for one stream at a time: while packets wait in
\* both queues, a thread that found its queue empty is about to take the one it
\* has read, so nothing more is read (VideoDecoder.cpp:346-362, 424-439).
ReadsOnDemand ==
  (\A t \in Threads : packets[t] # <<>>) =>
    \E t \in Threads :
      /\ Len(packets[t]) = 1 /\ packet[t] = NULL
      /\ pc[t] \in {"unlock", "lock", "empty", "take"}

\* How far a thread is from its next frame or its end, at most: what is still to be
\* read, and what is queued, in hand or still to be announced, weighs more than the
\* steps it takes within a round of the loop.
Unread == Packets - container.position
Unsent(t) ==
  Len(packets[t]) + (IF packet[t] = NULL THEN 0 ELSE 1) + (IF codec[t].eof THEN 0 ELSE 1)
Round(t) ==
  CASE pc[t] = "test" -> 9
    [] pc[t] = "receive" -> 8
    [] pc[t] = "lock" -> 7
    [] pc[t] = "empty" -> 6
    [] pc[t] \in {"read", "take"} -> 5
    [] pc[t] = "unlock" -> IF FetchesMore(t) THEN 8 ELSE 4
    [] pc[t] = "send" -> 3
    [] pc[t] \in {"idle"} \cup Ends -> 0

Distance(t) == 20 * Unread + 10 * Unsent(t) + Round(t)

\* Every step a thread takes on the way to its next frame brings it nearer, and
\* nothing the other thread or the client does sets it back: no loop of run or
\* decodeAudio goes round more often than the container has packets
\* (VideoDecoder.cpp:344-362, 422-439).
ComesNearer ==
  [][\A t \in Threads :
       \/ Distance(t)' < Distance(t)
       \/ Distance(t)' = Distance(t) /\ pc'[t] = pc[t]
       \/ ReceiveFrame(t)
       \/ t = "audio" /\ CallAudio]_whole

\* A call of updateAudioBuffer returns whatever the decode thread does, also when
\* that sleeps on a full ring or waits in its own fetch loop.
AudioReturns == pc["audio"] = "test" ~> pc["audio"] \in {"idle"} \cup Ends

\* The video comes to its end, unless the client leaves frames in the ring for good,
\* or the decode thread is never woken beside an empty one, which is what
\* VideoDecoder!Refills excludes: neither a codec that is not drained nor an audio
\* client keeps the decode thread from it.
VideoGoesOn ==
  \/ <>(pc["video"] \in Ends)
  \/ <>[](queue # <<>>)
  \/ <>[](asleep /\ queue = <<>>)

\* The destructor's join returns and the reader is given back, wherever the decode
\* thread is in its fetch loop, also when it waits for packetMutex or is about to
\* find the ring full.  That a thread which found it full before is woken is not
\* said here: its signal may be lost (VideoDecoder.cpp:67-73, 463-465).
DeleteReturns == deleted /\ ~asleep ~> pc["video"] \in Ends /\ ~reader
=============================================================================
