---------------------------- MODULE DecodedVideo ----------------------------
(***************************************************************************)
(* What the native decoder promises from the container to the client: the  *)
(* stream that is decoded (CodedStream) and the queue the client takes the *)
(* frames from (FrameQueue), joined.  A frame leaves the codec if and only *)
(* if it enters the queue: none is dropped, repeated or made up between    *)
(* the two, however the decoder is ended (VideoDecoder.cpp:267-297 and     *)
(* 408-472).                                                               *)
(***************************************************************************)
EXTENDS Naturals, Sequences

CONSTANTS
  Packets,          \* the number of packets of the video
  FramesPerPacket,  \* how many frames a packet may have
  Capacity          \* the frames that can be buffered ahead of the one shown

VARIABLES
  codec,                          \* see CodedStream
  queue, shown, produced, ended   \* see FrameQueue

Source == INSTANCE CodedStream
Ring == INSTANCE FrameQueue

vars == <<codec, queue, shown, produced, ended>>

Init == Source!Init /\ Ring!Init

\* The codec is sent a packet or the end of the stream.
Send ==
  /\ Source!Feed \/ Source!Announce
  /\ UNCHANGED <<queue, shown, produced, ended>>

\* The frame the codec gives is the next one in the queue.
Decode == Source!Give /\ Ring!Put

Show == Ring!Take /\ UNCHANGED codec

End == Ring!End /\ UNCHANGED codec

Next == Send \/ Decode \/ Show \/ End

Spec == Init /\ [][Next]_vars
=============================================================================
