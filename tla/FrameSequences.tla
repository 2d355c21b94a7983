--------------------------- MODULE FrameSequences ---------------------------
(***************************************************************************)
(* Frames are numbered as they are decoded: what is buffered in order is   *)
(* the frames after the one shown.  The proofs about the decoder and about *)
(* the player rest on these facts.                                         *)
(***************************************************************************)
EXTENDS Integers, Sequences, SequenceTheorems, TLAPS

\* The n frames that follow frame c.
FramesAfter(c, n) == [i \in 1 .. n |-> c + i]

\* Queueing and taking, in terms of the frames that follow.
LEMMA FramesAfterFacts ==
  ASSUME NEW c \in Nat, NEW n \in Nat
  PROVE  /\ FramesAfter(c, n) \in Seq(Nat)
         /\ Len(FramesAfter(c, n)) = n
         /\ FramesAfter(c, 0) = <<>>
         /\ Append(FramesAfter(c, n), c + n + 1) = FramesAfter(c, n + 1)
         /\ n > 0 => /\ FramesAfter(c, n) # <<>>
                     /\ Head(FramesAfter(c, n)) = c + 1
                     /\ Tail(FramesAfter(c, n)) = FramesAfter(c + 1, n - 1)
<1>1. FramesAfter(c, n) \in Seq(Nat) /\ Len(FramesAfter(c, n)) = n
  BY DEF FramesAfter
<1>2. FramesAfter(c, 0) = <<>>
  BY DEF FramesAfter
<1>3. Append(FramesAfter(c, n), c + n + 1) = FramesAfter(c, n + 1)
  BY <1>1 DEF FramesAfter
<1>4. ASSUME n > 0
      PROVE  /\ FramesAfter(c, n) # <<>>
             /\ Head(FramesAfter(c, n)) = c + 1
             /\ Tail(FramesAfter(c, n)) = FramesAfter(c + 1, n - 1)
  <2>1. FramesAfter(c, n) # <<>>
    BY <1>1, <1>4
  <2>2. Head(FramesAfter(c, n)) = c + 1
    BY <1>1, <1>4 DEF FramesAfter
  <2>3. /\ FramesAfter(c + 1, n - 1) \in Seq(Nat)
        /\ Len(FramesAfter(c + 1, n - 1)) = n - 1
    BY <1>4 DEF FramesAfter
  <2>4. /\ Tail(FramesAfter(c, n)) \in Seq(Nat)
        /\ Len(Tail(FramesAfter(c, n))) = n - 1
        /\ \A i \in 1 .. n - 1 : Tail(FramesAfter(c, n))[i] = FramesAfter(c, n)[i + 1]
    BY <1>1, <2>1, HeadTailProperties
  <2>5. \A i \in 1 .. n - 1 : FramesAfter(c, n)[i + 1] = FramesAfter(c + 1, n - 1)[i]
    BY <1>4 DEF FramesAfter
  <2>6. Tail(FramesAfter(c, n)) = FramesAfter(c + 1, n - 1)
    BY <2>3, <2>4, <2>5, SeqEqual
  <2> QED BY <2>1, <2>2, <2>6
<1> QED BY <1>1, <1>2, <1>3, <1>4
=============================================================================
