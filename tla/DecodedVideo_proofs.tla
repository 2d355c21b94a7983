------------------------- MODULE DecodedVideo_proofs -------------------------
(***************************************************************************)
(* What follows from the promise of the decoder alone, and so holds of     *)
(* everything that implements it: the queue and the stream it is joined    *)
(* from, the order of the frames, and that none is lost or made up.        *)
(***************************************************************************)
EXTENDS DecodedVideo, FrameSequences

Types ==
  /\ codec \in [packets : 0 .. Packets, frames : Nat, draining : BOOLEAN]
  /\ produced \in Nat

\* The frames in the queue are the ones after the one shown, up to the last one
\* decoded, and no more than there is room for.
Ordered ==
  /\ shown \in Nat /\ Len(queue) \in 0 .. Capacity
  /\ produced = shown + Len(queue)
  /\ queue = FramesAfter(shown, Len(queue))

\* If every packet has at least so many frames and at most so many, then so have
\* the packets that were decoded, counting what is still in the codec.
Conserved(least, most) ==
  LET decoded == Packets - codec.packets
  IN produced + codec.frames \in least * decoded .. most * decoded

-----------------------------------------------------------------------------
\* The parts keep their types.
LEMMA TypesAreKept ==
  ASSUME Packets \in Nat, FramesPerPacket \subseteq Nat
  PROVE  Spec => []Types
<1>1. Init => Types
  BY DEF Init, Source!Init, Ring!Init, Types
<1>2. ASSUME Types, [Next]_vars PROVE Types'
  <2> USE DEF Types
  <2>1. CASE Send
    <3>1. CASE Source!Feed
      <4>1. PICK n \in FramesPerPacket : codec' = [codec EXCEPT !.packets = @ - 1, !.frames = @ + n]
        BY <3>1 DEF Source!Feed
      <4>2. codec.packets - 1 \in 0 .. Packets /\ codec.frames + n \in Nat
        BY <1>2, <3>1 DEF Source!Feed
      <4>3. codec' \in [packets : 0 .. Packets, frames : Nat, draining : BOOLEAN]
        BY <1>2, <4>1, <4>2
      <4> QED BY <1>2, <2>1, <4>3 DEF Send
    <3>2. CASE Source!Announce
      <4>1. codec' \in [packets : 0 .. Packets, frames : Nat, draining : BOOLEAN]
        BY <1>2, <3>2 DEF Source!Announce
      <4> QED BY <1>2, <2>1, <4>1 DEF Send
    <3> QED BY <2>1, <3>1, <3>2 DEF Send
  <2>2. CASE Decode
    <3>1. codec.frames - 1 \in Nat
      BY <1>2, <2>2 DEF Decode, Source!Give
    <3>2. codec' \in [packets : 0 .. Packets, frames : Nat, draining : BOOLEAN]
      BY <1>2, <2>2, <3>1 DEF Decode, Source!Give
    <3> QED BY <1>2, <2>2, <3>2 DEF Decode, Ring!Put
  <2>3. CASE Show
    BY <1>2, <2>3 DEF Show, Ring!Take
  <2>4. CASE End \/ UNCHANGED vars
    BY <1>2, <2>4 DEF End, Ring!End, vars
  <2> QED BY <1>2, <2>1, <2>2, <2>3, <2>4 DEF Next
<1> QED BY <1>1, <1>2, PTL DEF Spec

\* The joined behaviour is one of the queue that the player is built on.
THEOREM QueueIsImplemented == Spec => Ring!Spec
<1>1. Init => Ring!Init
  BY DEF Init
<1>2. [Next]_vars => [Ring!Next]_(Ring!vars)
  BY DEF Next, Send, Decode, Show, End, vars, Ring!Next, Ring!vars
<1> QED BY <1>1, <1>2, PTL DEF Spec, Ring!Spec

\* It is also one of the stream alone, whatever becomes of the queue.
THEOREM SourceIsImplemented == Spec => Source!Spec
<1>1. Init => Source!Init
  BY DEF Init
<1>2. [Next]_vars => [Source!Next]_codec
  BY DEF Next, Send, Decode, Show, End, vars, Source!Next
<1> QED BY <1>1, <1>2, PTL DEF Spec, Source!Spec

\* The client sees the frames in the order they were decoded, each once, and the
\* queue holds just those it has not seen: nothing is dropped when it is full and
\* nothing repeated when it is empty.
THEOREM FramesAreOrdered == ASSUME Capacity \in Nat PROVE Spec => []Ordered
<1>1. Init => Ordered
  <2> SUFFICES ASSUME Init PROVE Ordered
    OBVIOUS
  <2>1. queue = <<>> /\ shown = 0 /\ produced = 0 /\ Len(queue) = 0
    BY DEF Init, Ring!Init
  <2> QED BY <2>1, FramesAfterFacts DEF Ordered
<1>2. ASSUME Ordered, [Next]_vars PROVE Ordered'
  <2>1. PICK n \in Nat : n = Len(queue)
    BY <1>2 DEF Ordered
  <2>2. /\ shown \in Nat /\ produced = shown + n /\ queue = FramesAfter(shown, n)
        /\ n \in 0 .. Capacity
    BY <1>2, <2>1 DEF Ordered
  <2>3. CASE Decode
    <3>0. n < Capacity /\ shown' = shown /\ produced' = produced + 1
      BY <2>1, <2>3 DEF Decode, Ring!Put
    <3>1. n + 1 \in 0 .. Capacity
      BY <2>2, <3>0
    <3>2. queue' = FramesAfter(shown, n + 1)
      BY <2>2, <2>3, FramesAfterFacts DEF Decode, Ring!Put
    <3>3. Len(queue') = n + 1
      BY <2>2, <3>2, FramesAfterFacts
    <3>4. produced' = shown' + (n + 1)
      BY <2>2, <3>0
    <3> QED BY <2>2, <3>0, <3>1, <3>2, <3>3, <3>4 DEF Ordered
  <2>4. CASE Show
    <3>1. n > 0
      BY <2>1, <2>2, <2>4, FramesAfterFacts DEF Show, Ring!Take
    <3>2. shown' = shown + 1 /\ queue' = FramesAfter(shown + 1, n - 1) /\ produced' = produced
      BY <2>2, <2>4, <3>1, FramesAfterFacts DEF Show, Ring!Take
    <3>3. Len(queue') = n - 1
      <4>1. shown + 1 \in Nat /\ n - 1 \in Nat
        BY <2>2, <3>1
      <4>2. Len(FramesAfter(shown + 1, n - 1)) = n - 1
        BY <4>1, FramesAfterFacts
      <4> QED BY <3>2, <4>2
    <3>4. n - 1 \in 0 .. Capacity /\ produced' = shown' + (n - 1)
      BY <2>2, <3>1, <3>2
    <3> QED BY <2>2, <3>2, <3>3, <3>4 DEF Ordered
  <2>5. CASE Send \/ End \/ UNCHANGED vars
    <3>1. UNCHANGED <<queue, shown, produced>>
      BY <2>5 DEF Send, End, Ring!End, vars
    <3> QED BY <1>2, <3>1 DEF Ordered
  <2> QED BY <1>2, <2>3, <2>4, <2>5 DEF Next
<1> QED BY <1>1, <1>2, PTL DEF Spec

\* Multiplying by one packet more adds its share.
LEMMA OneMore ==
  ASSUME NEW a \in Nat, NEW d \in Nat
  PROVE  a * (d + 1) = a * d + a /\ a * d \in Nat
OBVIOUS

\* Every frame of every packet that was decoded was put into the queue or is still
\* to come out of the codec, and no other was: with packets of at least so many and
\* at most so many frames, the client's frames are as many.
THEOREM FramesAreConserved ==
  ASSUME Packets \in Nat, NEW least \in Nat, NEW most \in Nat, FramesPerPacket \subseteq least .. most
  PROVE  Spec => []Conserved(least, most)
<1>1. FramesPerPacket \subseteq Nat
  OBVIOUS
<1>2. Spec => []Types
  BY <1>1, TypesAreKept
<1>3. Init => Conserved(least, most)
  BY DEF Init, Source!Init, Ring!Init, Conserved
<1>4. ASSUME Types, Conserved(least, most), [Next]_vars
      PROVE  Conserved(least, most)'
  <2>1. PICK d \in Nat, f \in Nat, q \in Nat :
          d = Packets - codec.packets /\ f = codec.frames /\ q = produced
    BY <1>4 DEF Types
  <2>2. q + f \in least * d .. most * d
    BY <1>4, <2>1 DEF Conserved
  <2>3. codec \in [packets : 0 .. Packets, frames : Nat, draining : BOOLEAN]
    BY <1>4 DEF Types
  <2>4. CASE Send
    <3>1. CASE Source!Feed
      <4>1. PICK n \in FramesPerPacket :
              codec' = [codec EXCEPT !.packets = @ - 1, !.frames = @ + n]
        BY <3>1 DEF Source!Feed
      <4>2. codec'.packets = codec.packets - 1 /\ codec'.frames = f + n
        BY <2>1, <2>3, <4>1
      <4>3. Packets - codec'.packets = d + 1 /\ n \in least .. most
        BY <2>1, <2>3, <4>2
      <4>4. /\ least * (d + 1) = least * d + least /\ least * d \in Nat
            /\ most * (d + 1) = most * d + most /\ most * d \in Nat
        BY OneMore
      <4>5. PICK l \in Nat, m \in Nat : l = least * d /\ m = most * d
        BY <4>4
      <4>6. q + (f + n) \in l + least .. m + most
        BY <2>2, <4>3, <4>5
      <4> QED BY <2>1, <2>4, <4>2, <4>3, <4>4, <4>5, <4>6 DEF Send, Conserved
    <3>2. CASE Source!Announce
      <4>1. codec'.packets = codec.packets /\ codec'.frames = codec.frames
        BY <2>3, <3>2 DEF Source!Announce
      <4> QED BY <1>4, <2>4, <4>1 DEF Send, Conserved
    <3> QED BY <2>4, <3>1, <3>2 DEF Send
  <2>5. CASE Decode
    <3>1. codec'.packets = codec.packets /\ codec'.frames = f - 1 /\ produced' = q + 1
      BY <2>1, <2>3, <2>5 DEF Decode, Source!Give, Ring!Put
    <3>2. produced' + codec'.frames = q + f
      BY <3>1
    <3> QED BY <2>1, <2>2, <3>1, <3>2 DEF Conserved
  <2>6. CASE Show \/ End \/ UNCHANGED vars
    <3>1. UNCHANGED <<codec, produced>>
      BY <2>6 DEF Show, Ring!Take, End, Ring!End, vars
    <3> QED BY <1>4, <3>1 DEF Conserved
  <2> QED BY <1>4, <2>4, <2>5, <2>6 DEF Next
<1> QED BY <1>2, <1>3, <1>4, PTL DEF Spec
=============================================================================
