---------------------------- MODULE CodecContext ----------------------------
(***************************************************************************)
(* avcodec_send_packet and avcodec_receive_frame of the FFmpeg built with  *)
(* the decoder, as operators on the context of a codec (FFmpeg/libavcodec: *)
(* decode.c, bsf.c and the filter that splits the packets of VP9).         *)
(*                                                                         *)
(* Of a packet only what the calls tell apart is kept: what its pieces     *)
(* give in turn, a frame or an error, leaving out the pieces that give     *)
(* neither, and how many of its frames the codec delays until it is        *)
(* drained.  thread_count is 1: decoding is done within the calls.         *)
(***************************************************************************)
EXTENDS Integers, Sequences, FiniteSets

Gives == {"frame", "error"}
AnyPacket == [gives : Seq(Gives), delayed : Nat]

\* Where a packet may be missing, it is in a sequence of at most one; an empty
\* packet that is sent is the end of the stream.

\* buffer_pkt is the packet the bitstream filter has not begun to split, pieces
\* the rest of the one it has, eof that it was sent the end; delayed counts the
\* frames in the codec, and buffer_frame is a frame decoded in advance.
Contexts ==
  [buffer_pkt : Seq(AnyPacket), pieces : Seq(Gives), eof : BOOLEAN, delayed : Nat,
   buffer_frame : BOOLEAN, draining : BOOLEAN, draining_done : BOOLEAN]

NewContext ==
  [buffer_pkt |-> <<>>, pieces |-> <<>>, eof |-> FALSE, delayed |-> 0,
   buffer_frame |-> FALSE, draining |-> FALSE, draining_done |-> FALSE]

\* The filter begins the packet that waits, unless it was sent the end.
BeginPacket(c) ==
  IF c.pieces = <<>> /\ ~c.eof /\ c.buffer_pkt # <<>>
  THEN [c EXCEPT !.buffer_pkt = <<>>, !.pieces = c.buffer_pkt[1].gives,
                 !.delayed = @ + c.buffer_pkt[1].delayed]
  ELSE c

\* Faulty: the delayed frames are forgotten.
DrainNothing(c) ==
  [ret |-> "eof", codec |-> [c EXCEPT !.draining = TRUE, !.draining_done = TRUE]]

\* From empty packets a codec makes the frames it delayed.
Drain(c) ==
  IF c.delayed > 0
  THEN [ret |-> "frame", codec |-> [c EXCEPT !.draining = TRUE, !.delayed = @ - 1]]
  ELSE [ret |-> "eof", codec |-> [c EXCEPT !.draining = TRUE, !.draining_done = TRUE]]

decode_receive_frame_internal(c) ==
  LET begun == BeginPacket(c)
  IN IF begun.pieces # <<>>
     THEN [ret |-> Head(begun.pieces), codec |-> [begun EXCEPT !.pieces = Tail(@)]]
     ELSE IF begun.eof THEN Drain(begun) ELSE [ret |-> "again", codec |-> begun]

\* One frame is decoded in advance; of what else happens the caller is told
\* errors only.
DecodeAhead(c) ==
  LET decoded == decode_receive_frame_internal(c)
  IN IF c.buffer_frame
     THEN [ret |-> "ok", codec |-> c]
     ELSE [ret |-> IF decoded.ret = "error" THEN "error" ELSE "ok",
           codec |-> [decoded.codec EXCEPT !.buffer_frame = (decoded.ret = "frame")]]

avcodec_send_packet(c, packet) ==
  CASE c.draining -> [ret |-> "eof", codec |-> c]
    [] ~c.draining /\ packet = <<>> -> DecodeAhead([c EXCEPT !.eof = TRUE])
    [] ~c.draining /\ packet # <<>> /\ c.eof -> [ret |-> "invalid", codec |-> c]
    [] ~c.draining /\ packet # <<>> /\ ~c.eof ->
         IF c.buffer_pkt # <<>>
         THEN [ret |-> "again", codec |-> c]
         ELSE DecodeAhead([c EXCEPT !.buffer_pkt = packet])

\* Faulty: a frame decoded in advance is passed over.
ReceivePastBuffered(c) == decode_receive_frame_internal([c EXCEPT !.buffer_frame = FALSE])

avcodec_receive_frame(c) ==
  IF c.buffer_frame
  THEN [ret |-> "frame", codec |-> [c EXCEPT !.buffer_frame = FALSE]]
  ELSE decode_receive_frame_internal(c)

\* How many frames are still to come out of pieces, a packet or a context.
FramesIn(pieces) == Cardinality({i \in DOMAIN pieces : pieces[i] = "frame"})
FramesOf(packet) == packet.delayed + FramesIn(packet.gives)
FramesLeft(c) ==
  c.delayed + FramesIn(c.pieces) + (IF c.buffer_frame THEN 1 ELSE 0)
    + (IF c.buffer_pkt = <<>> THEN 0 ELSE FramesOf(c.buffer_pkt[1]))
=============================================================================
