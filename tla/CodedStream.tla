---------------------------- MODULE CodedStream -----------------------------
(***************************************************************************)
(* What a codec and the demultiplexer promise the loop that decodes a      *)
(* stream: each packet of the container is decoded at most once, the loop  *)
(* is given no more frames than its packets have, and after the end was    *)
(* announced nothing is decoded but what was sent before.                  *)
(***************************************************************************)
EXTENDS Naturals

CONSTANTS
  Packets,         \* the number of packets of the stream
  FramesPerPacket  \* how many frames a packet may have

VARIABLE codec     \* the packets and frames still to come, and whether the end
                   \* of the stream was announced

Init == codec = [packets |-> Packets, frames |-> 0, draining |-> FALSE]

\* The next packet is sent to the codec.
Feed ==
  /\ codec.packets > 0 /\ ~codec.draining
  /\ \E frames \in FramesPerPacket :
       codec' = [codec EXCEPT !.packets = @ - 1, !.frames = @ + frames]

\* The end is announced: nothing more can be read.
Announce ==
  /\ ~codec.draining
  /\ codec' = [codec EXCEPT !.draining = TRUE]

\* The codec gives a frame.
Give ==
  /\ codec.frames > 0
  /\ codec' = [codec EXCEPT !.frames = @ - 1]

Next == Feed \/ Announce \/ Give

Spec == Init /\ [][Next]_codec
=============================================================================
