----------------------------- MODULE FrameQueue -----------------------------
(***************************************************************************)
(* What the native decoder promises its client: the frames of the video    *)
(* come out of a bounded queue in order, each exactly once, and the frame  *)
(* shown stays the same until the next one is taken (VideoDecoder.h:97-107 *)
(* and 176-186).                                                           *)
(***************************************************************************)
EXTENDS Naturals, Sequences

CONSTANT Capacity   \* the frames that can be buffered ahead of the one shown

VARIABLES
  queue,     \* the frames decoded and not shown yet, oldest first
  shown,     \* the frame on display, 0 before the first
  produced,  \* how many frames were decoded
  ended      \* decoding was ended, by the video or by the client

vars == <<queue, shown, produced, ended>>

Init == queue = <<>> /\ shown = 0 /\ produced = 0 /\ ended = FALSE

\* The decoder adds the next frame of the video.
Put ==
  /\ Len(queue) < Capacity
  /\ queue' = Append(queue, produced + 1)
  /\ produced' = produced + 1
  /\ UNCHANGED <<shown, ended>>

\* The client takes the oldest frame.
Take ==
  /\ queue # <<>>
  /\ shown' = Head(queue)
  /\ queue' = Tail(queue)
  /\ UNCHANGED <<produced, ended>>

End ==
  /\ ended' = TRUE
  /\ UNCHANGED <<queue, shown, produced>>

Next == Put \/ Take \/ End

Spec == Init /\ [][Next]_vars
=============================================================================
