--------------------------- MODULE Streams_proofs ---------------------------
(***************************************************************************)
(* Container, queues, codecs and ring together implement the promise the   *)
(* ring's decoding loop is modelled with: no call of a codec loses or      *)
(* makes up a frame, and a frame that is given is put into the ring, so    *)
(* every step of Decoding is one of DecodedVideo or none.                  *)
(***************************************************************************)
EXTENDS Decoding_proofs, FrameSequences, FunctionTheorems

-----------------------------------------------------------------------------
(* Counting frames. *)

One(ret) == IF ret = "frame" THEN 1 ELSE 0
Ahead(buffer_frame) == IF buffer_frame THEN 1 ELSE 0
Waiting(buffer_pkt) == IF buffer_pkt = <<>> THEN 0 ELSE FramesOf(buffer_pkt[1])

FrameIndices(s) == {i \in 1 .. Len(s) : s[i] = "frame"}

\* The frames of a sequence of pieces are a number.
LEMMA FramesInType ==
  ASSUME NEW s \in Seq(Gives)
  PROVE  /\ IsFiniteSet(FrameIndices(s)) /\ FramesIn(s) = Cardinality(FrameIndices(s))
         /\ FramesIn(s) \in Nat
<1>1. Len(s) \in Nat /\ DOMAIN s = 1 .. Len(s)
  OBVIOUS
<1>2. IsFiniteSet(1 .. Len(s))
  BY <1>1, FS_Interval
<1>3. FrameIndices(s) \in SUBSET (1 .. Len(s))
  BY DEF FrameIndices
<1>4. IsFiniteSet(FrameIndices(s))
  BY <1>2, <1>3, FS_Subset
<1>5. FramesIn(s) = Cardinality(FrameIndices(s))
  BY <1>1 DEF FramesIn, FrameIndices
<1> QED BY <1>4, <1>5, FS_CardinalityType

\* Where there are no pieces there is no frame.
LEMMA NoFrames == FramesIn(<<>>) = 0
<1>1. {i \in DOMAIN <<>> : <<>>[i] = "frame"} = {}
  OBVIOUS
<1> QED BY <1>1, FS_EmptySet DEF FramesIn

\* Beginning with the first element or with the second makes a difference of one
\* frame if the first is one.
LEMMA FramesInTail ==
  ASSUME NEW s \in Seq(Gives), s # <<>>
  PROVE  FramesIn(s) = FramesIn(Tail(s)) + One(Head(s))
<1> DEFINE A == FrameIndices(s)
           B == FrameIndices(Tail(s))
           C == {i \in A : i # 1}
<1>1. /\ Len(s) \in Nat \ {0} /\ Tail(s) \in Seq(Gives) /\ Len(Tail(s)) = Len(s) - 1
      /\ Head(s) = s[1] /\ \A i \in 1 .. Len(s) - 1 : Tail(s)[i] = s[i + 1]
  OBVIOUS
<1>2. IsFiniteSet(A) /\ FramesIn(s) = Cardinality(A)
  BY FramesInType
<1>3. IsFiniteSet(B) /\ FramesIn(Tail(s)) = Cardinality(B) /\ Cardinality(B) \in Nat
  BY <1>1, FramesInType
<1>4. Cardinality(C) = Cardinality(B) /\ IsFiniteSet(C)
  <2> DEFINE f == [i \in B |-> i + 1]
  <2>1. \A i \in B : i \in 1 .. Len(s) - 1 /\ s[i + 1] = "frame"
    BY <1>1 DEF FrameIndices
  <2>2. f \in [B -> C]
    BY <1>1, <2>1 DEF FrameIndices
  <2>3. \A a, b \in B : f[a] = f[b] => a = b
    BY <2>1
  <2>4. \A j \in C : \E i \in B : f[i] = j
    <3> SUFFICES ASSUME NEW j \in C PROVE \E i \in B : f[i] = j
      OBVIOUS
    <3>1. j \in 2 .. Len(s) /\ s[j] = "frame"
      BY <1>1 DEF FrameIndices
    <3>2. j - 1 \in 1 .. Len(s) - 1 /\ (j - 1) + 1 = j
      BY <1>1, <3>1
    <3>3. Tail(s)[j - 1] = "frame"
      BY <1>1, <3>1, <3>2
    <3>4. j - 1 \in B
      BY <1>1, <3>2, <3>3 DEF FrameIndices
    <3> QED BY <3>2, <3>4
  <2> HIDE DEF f, B, C
  <2>5. f \in Bijection(B, C)
    BY <2>2, <2>3, <2>4, Fun_IsBij
  <2>6. ExistsBijection(B, C)
    BY <2>5 DEF ExistsBijection
  <2> QED BY <1>3, <2>6, FS_Bijection
<1>5. CASE s[1] = "frame"
  <2>1. A = C \cup {1} /\ 1 \notin C
    BY <1>1, <1>5 DEF FrameIndices
  <2> HIDE DEF A, C, B
  <2>2. Cardinality(A) = Cardinality(C) + 1
    BY <1>4, <2>1, FS_AddElement
  <2> QED BY <1>1, <1>2, <1>3, <1>4, <1>5, <2>2 DEF One
<1>6. CASE s[1] # "frame"
  <2>1. A = C
    BY <1>6 DEF FrameIndices
  <2> HIDE DEF A, C, B
  <2> QED BY <1>1, <1>2, <1>3, <1>4, <1>6, <2>1 DEF One
<1> QED BY <1>5, <1>6

\* What is left in a context is a number, the sum over its four places.
LEMMA LeftType ==
  ASSUME NEW c, CodecInv(c)
  PROVE  /\ c.delayed \in Nat /\ FramesIn(c.pieces) \in Nat
         /\ Ahead(c.buffer_frame) \in Nat /\ Waiting(c.buffer_pkt) \in Nat
         /\ FramesLeft(c) \in Nat
         /\ FramesLeft(c) = c.delayed + FramesIn(c.pieces) + Ahead(c.buffer_frame)
                              + Waiting(c.buffer_pkt)
<1>1. c.delayed \in Nat /\ c.pieces \in Seq(Gives) /\ c.buffer_pkt \in Seq(AnyPacket)
  BY DEF CodecInv, Contexts
<1>2. FramesIn(c.pieces) \in Nat
  BY <1>1, FramesInType
<1>3. Ahead(c.buffer_frame) \in Nat
  BY DEF Ahead
<1>4. Waiting(c.buffer_pkt) \in Nat
  <2>1. CASE c.buffer_pkt = <<>>
    BY <2>1 DEF Waiting
  <2>2. CASE c.buffer_pkt # <<>>
    <3>1. c.buffer_pkt[1] \in AnyPacket
      BY <1>1, <2>2
    <3>2. c.buffer_pkt[1].delayed \in Nat /\ c.buffer_pkt[1].gives \in Seq(Gives)
      BY <3>1 DEF AnyPacket
    <3>3. FramesIn(c.buffer_pkt[1].gives) \in Nat
      BY <3>2, FramesInType
    <3> QED BY <2>2, <3>2, <3>3 DEF Waiting, FramesOf
  <2> QED BY <2>1, <2>2
<1>5. FramesLeft(c) = c.delayed + FramesIn(c.pieces) + Ahead(c.buffer_frame)
                        + Waiting(c.buffer_pkt)
  BY DEF FramesLeft, Ahead, Waiting
<1> QED BY <1>1, <1>2, <1>3, <1>4, <1>5

\* The frames of a packet that is begun are moved.
LEMMA BeginLeft ==
  ASSUME NEW c, CodecInv(c)
  PROVE  FramesLeft(BeginPacket(c)) = FramesLeft(c)
<1> DEFINE b == BeginPacket(c)
<1>1. CASE c.pieces = <<>> /\ ~c.eof /\ c.buffer_pkt # <<>>
  <2> DEFINE p == c.buffer_pkt[1]
  <2>1. c \in Contexts /\ p \in AnyPacket
    BY <1>1 DEF CodecInv, Contexts
  <2>2. b = [c EXCEPT !.buffer_pkt = <<>>, !.pieces = p.gives, !.delayed = @ + p.delayed]
    BY <1>1 DEF BeginPacket
  <2>3. /\ b.buffer_pkt = <<>> /\ b.pieces = p.gives /\ b.delayed = c.delayed + p.delayed
        /\ b.buffer_frame = c.buffer_frame
    BY <2>1, <2>2 DEF Contexts
  <2>4. Waiting(c.buffer_pkt) = p.delayed + FramesIn(p.gives) /\ Waiting(b.buffer_pkt) = 0
    BY <1>1, <2>3 DEF Waiting, FramesOf
  <2>5. p.delayed \in Nat /\ FramesIn(p.gives) \in Nat
    BY <2>1, FramesInType DEF AnyPacket
  <2>6. CodecInv(b)
    BY BeginKeeps
  <2> HIDE DEF b, p
  <2>7. FramesLeft(b) = b.delayed + FramesIn(b.pieces) + Ahead(b.buffer_frame)
                          + Waiting(b.buffer_pkt)
    BY <2>6, LeftType
  <2>8. /\ c.delayed \in Nat /\ Ahead(c.buffer_frame) \in Nat /\ FramesIn(c.pieces) = 0
        /\ FramesLeft(c) = c.delayed + FramesIn(c.pieces) + Ahead(c.buffer_frame)
                             + Waiting(c.buffer_pkt)
    BY <1>1, LeftType, NoFrames
  <2>9. FramesLeft(b) = FramesLeft(c)
    BY <2>3, <2>4, <2>5, <2>7, <2>8
  <2> QED BY <2>9 DEF b
<1>2. CASE ~(c.pieces = <<>> /\ ~c.eof /\ c.buffer_pkt # <<>>)
  BY <1>2 DEF BeginPacket
<1> QED BY <1>1, <1>2

\* A frame that a codec gives when it is drained was delayed in it.
LEMMA DrainLeft ==
  ASSUME NEW c, CodecInv(c), c.eof
  PROVE  FramesLeft(c) = FramesLeft(Drain(c).codec) + One(Drain(c).ret)
<1> DEFINE d == Drain(c).codec
<1>1. c \in Contexts /\ CodecInv(d)
  BY DrainKeeps DEF CodecInv
<1>2. /\ d.pieces = c.pieces /\ d.buffer_frame = c.buffer_frame /\ d.buffer_pkt = c.buffer_pkt
      /\ \/ d.delayed = c.delayed - 1 /\ Drain(c).ret = "frame"
         \/ d.delayed = c.delayed /\ Drain(c).ret = "eof"
  BY <1>1 DEF Drain, Contexts
<1> HIDE DEF d
<1>3. FramesLeft(d) = d.delayed + FramesIn(d.pieces) + Ahead(d.buffer_frame)
                        + Waiting(d.buffer_pkt)
  BY <1>1, LeftType
<1>4. /\ c.delayed \in Nat /\ FramesIn(c.pieces) \in Nat /\ Ahead(c.buffer_frame) \in Nat
      /\ Waiting(c.buffer_pkt) \in Nat
      /\ FramesLeft(c) = c.delayed + FramesIn(c.pieces) + Ahead(c.buffer_frame)
                           + Waiting(c.buffer_pkt)
  BY LeftType
<1>5. FramesLeft(c) = FramesLeft(d) + One(Drain(c).ret)
  BY <1>2, <1>3, <1>4 DEF One
<1> QED BY <1>5 DEF d

\* Decoding once takes away just the frame it gives.
LEMMA InternalLeft ==
  ASSUME NEW c, CodecInv(c)
  PROVE  LET d == decode_receive_frame_internal(c)
         IN FramesLeft(c) = FramesLeft(d.codec) + One(d.ret)
<1> DEFINE b == BeginPacket(c)
           d == decode_receive_frame_internal(c)
<1>1. CodecInv(b) /\ FramesLeft(b) = FramesLeft(c) /\ CodecInv(d.codec)
  BY BeginKeeps, BeginLeft, InternalKeeps
<1> HIDE DEF b
<1>2. CASE b.pieces # <<>>
  <2>1. d = [ret |-> Head(b.pieces), codec |-> [b EXCEPT !.pieces = Tail(@)]]
    BY <1>2 DEF decode_receive_frame_internal, b
  <2> DEFINE e == d.codec
  <2>2. b \in Contexts /\ e = [b EXCEPT !.pieces = Tail(b.pieces)] /\ d.ret = Head(b.pieces)
    BY <1>1, <2>1 DEF CodecInv
  <2>3. /\ e.pieces = Tail(b.pieces) /\ e.buffer_frame = b.buffer_frame
        /\ e.delayed = b.delayed /\ e.buffer_pkt = b.buffer_pkt
    BY <2>2 DEF Contexts
  <2>4. FramesIn(b.pieces) = FramesIn(e.pieces) + One(d.ret)
    <3>1. b.pieces \in Seq(Gives)
      BY <2>2 DEF Contexts
    <3> QED BY <1>2, <2>2, <2>3, <3>1, FramesInTail
  <2>5. One(d.ret) \in Nat
    BY DEF One
  <2>6. CodecInv(e)
    BY <1>1
  <2> HIDE DEF d, e
  <2>7. /\ FramesIn(e.pieces) \in Nat
        /\ FramesLeft(e) = e.delayed + FramesIn(e.pieces) + Ahead(e.buffer_frame)
                             + Waiting(e.buffer_pkt)
    BY <2>6, LeftType
  <2>8. /\ b.delayed \in Nat /\ Ahead(b.buffer_frame) \in Nat /\ Waiting(b.buffer_pkt) \in Nat
        /\ FramesLeft(b) = b.delayed + FramesIn(b.pieces) + Ahead(b.buffer_frame)
                             + Waiting(b.buffer_pkt)
    BY <1>1, LeftType
  <2>9. FramesLeft(b) = FramesLeft(e) + One(d.ret)
    BY <2>3, <2>4, <2>5, <2>7, <2>8
  <2> QED BY <1>1, <2>9 DEF e, d
<1>3. CASE b.pieces = <<>> /\ b.eof
  <2>1. d = Drain(b)
    BY <1>3 DEF decode_receive_frame_internal, b
  <2> QED BY <1>1, <1>3, <2>1, DrainLeft
<1>4. CASE b.pieces = <<>> /\ ~b.eof
  <2>1. d.ret = "again" /\ d.codec = b
    BY <1>4 DEF decode_receive_frame_internal, b
  <2>2. FramesLeft(b) \in Nat
    BY <1>1, LeftType
  <2> HIDE DEF d
  <2>3. FramesLeft(c) = FramesLeft(d.codec) + One(d.ret)
    BY <1>1, <2>1, <2>2 DEF One
  <2> QED BY <2>3 DEF d
<1> QED BY <1>2, <1>3, <1>4

\* The same sum, without types.
LEMMA LeftIs ==
  ASSUME NEW c
  PROVE  FramesLeft(c) = c.delayed + FramesIn(c.pieces) + Ahead(c.buffer_frame)
                           + Waiting(c.buffer_pkt)
BY DEF FramesLeft, Ahead, Waiting

\* What is decoded in advance stays in the context.
LEMMA AheadLeft ==
  ASSUME NEW c, CodecInv(c)
  PROVE  FramesLeft(DecodeAhead(c).codec) = FramesLeft(c)
<1> DEFINE d == decode_receive_frame_internal(c)
           a == DecodeAhead(c).codec
           e == d.codec
<1>1. CASE c.buffer_frame
  BY <1>1 DEF DecodeAhead
<1>2. CASE ~c.buffer_frame
  <2>1. a = [e EXCEPT !.buffer_frame = (d.ret = "frame")]
    BY <1>2 DEF DecodeAhead
  <2>2. CodecInv(e) /\ e.buffer_frame = c.buffer_frame
    BY InternalKeeps
  <2>3. FramesLeft(c) = FramesLeft(e) + One(d.ret)
    BY InternalLeft
  <2> HIDE DEF a, d, e
  <2>4. e \in Contexts
    BY <2>2 DEF CodecInv
  <2>5. /\ a.delayed = e.delayed /\ a.pieces = e.pieces /\ a.buffer_pkt = e.buffer_pkt
        /\ a.buffer_frame = (d.ret = "frame")
    BY <2>1, <2>4 DEF Contexts
  <2>6. Ahead(e.buffer_frame) = 0 /\ Ahead(a.buffer_frame) = One(d.ret) /\ One(d.ret) \in Nat
    BY <1>2, <2>2, <2>5 DEF Ahead, One
  <2>7. /\ e.delayed \in Nat /\ FramesIn(e.pieces) \in Nat /\ Waiting(e.buffer_pkt) \in Nat
        /\ FramesLeft(e) = e.delayed + FramesIn(e.pieces) + Ahead(e.buffer_frame)
                             + Waiting(e.buffer_pkt)
    BY <2>2, LeftType
  <2>8. FramesLeft(a) = a.delayed + FramesIn(a.pieces) + Ahead(a.buffer_frame)
                          + Waiting(a.buffer_pkt)
    BY LeftIs
  <2>9. FramesLeft(a) = FramesLeft(c)
    BY <2>3, <2>5, <2>6, <2>7, <2>8
  <2> QED BY <2>9 DEF a
<1> QED BY <1>1, <1>2

\* avcodec_receive_frame takes away just the frame it returns.
LEMMA ReceiveLeft ==
  ASSUME NEW c, CodecInv(c)
  PROVE  LET r == avcodec_receive_frame(c)
         IN FramesLeft(c) = FramesLeft(r.codec) + One(r.ret)
<1> DEFINE r == avcodec_receive_frame(c)
           e == r.codec
<1>1. CASE c.buffer_frame
  <2>1. e = [c EXCEPT !.buffer_frame = FALSE] /\ r.ret = "frame"
    BY <1>1 DEF avcodec_receive_frame
  <2> HIDE DEF r, e
  <2>2. c \in Contexts
    BY DEF CodecInv
  <2>3. /\ e.delayed = c.delayed /\ e.pieces = c.pieces /\ e.buffer_pkt = c.buffer_pkt
        /\ e.buffer_frame = FALSE
    BY <2>1, <2>2 DEF Contexts
  <2>4. Ahead(c.buffer_frame) = 1 /\ Ahead(e.buffer_frame) = 0 /\ One(r.ret) = 1
    BY <1>1, <2>1, <2>3 DEF Ahead, One
  <2>5. /\ c.delayed \in Nat /\ FramesIn(c.pieces) \in Nat /\ Waiting(c.buffer_pkt) \in Nat
        /\ FramesLeft(c) = c.delayed + FramesIn(c.pieces) + Ahead(c.buffer_frame)
                             + Waiting(c.buffer_pkt)
    BY LeftType
  <2>6. FramesLeft(e) = e.delayed + FramesIn(e.pieces) + Ahead(e.buffer_frame)
                          + Waiting(e.buffer_pkt)
    BY LeftIs
  <2>7. FramesLeft(c) = FramesLeft(e) + One(r.ret)
    BY <2>3, <2>4, <2>5, <2>6
  <2> QED BY <2>7 DEF r, e
<1>2. CASE ~c.buffer_frame
  BY <1>2, InternalLeft DEF avcodec_receive_frame
<1> QED BY <1>1, <1>2

\* Sending adds the frames of the packet, and the end none.
LEMMA SendLeft ==
  ASSUME NEW c, CodecInv(c), ~c.eof, c.buffer_pkt = <<>>,
         NEW pkt \in Seq(AnyPacket)
  PROVE  FramesLeft(avcodec_send_packet(c, pkt).codec) = FramesLeft(c) + Waiting(pkt)
<1>1. c \in Contexts /\ ~c.draining
  BY DEF CodecInv
<1>2. /\ c.delayed \in Nat /\ FramesIn(c.pieces) \in Nat /\ Ahead(c.buffer_frame) \in Nat
      /\ Waiting(c.buffer_pkt) = 0
      /\ FramesLeft(c) = c.delayed + FramesIn(c.pieces) + Ahead(c.buffer_frame)
                           + Waiting(c.buffer_pkt)
  BY LeftType DEF Waiting
<1>3. CASE pkt = <<>>
  <2> DEFINE e == [c EXCEPT !.eof = TRUE]
  <2>1. avcodec_send_packet(c, pkt) = DecodeAhead(e)
    BY <1>1, <1>3 DEF avcodec_send_packet
  <2>2. /\ e \in Contexts /\ e.eof /\ e.buffer_pkt = c.buffer_pkt
        /\ e.delayed = c.delayed /\ e.pieces = c.pieces /\ e.buffer_frame = c.buffer_frame
    BY <1>1 DEF Contexts
  <2> HIDE DEF e
  <2>3. CodecInv(e)
    BY <2>2 DEF CodecInv
  <2>4. FramesLeft(DecodeAhead(e).codec) = FramesLeft(e)
    BY <2>3, AheadLeft
  <2>5. FramesLeft(e) = e.delayed + FramesIn(e.pieces) + Ahead(e.buffer_frame)
                          + Waiting(e.buffer_pkt)
    BY LeftIs
  <2>6. Waiting(pkt) = 0
    BY <1>3 DEF Waiting
  <2> QED BY <1>2, <2>1, <2>2, <2>4, <2>5, <2>6
<1>4. CASE pkt # <<>>
  <2> DEFINE e == [c EXCEPT !.buffer_pkt = pkt]
  <2>1. avcodec_send_packet(c, pkt) = DecodeAhead(e)
    BY <1>1, <1>4 DEF avcodec_send_packet
  <2>2. /\ e \in Contexts /\ ~e.eof /\ ~e.draining /\ e.buffer_pkt = pkt
        /\ e.delayed = c.delayed /\ e.pieces = c.pieces /\ e.buffer_frame = c.buffer_frame
    BY <1>1 DEF Contexts
  <2> HIDE DEF e
  <2>3. CodecInv(e)
    BY <2>2 DEF CodecInv
  <2>4. FramesLeft(DecodeAhead(e).codec) = FramesLeft(e)
    BY <2>3, AheadLeft
  <2>5. /\ FramesLeft(e) = e.delayed + FramesIn(e.pieces) + Ahead(e.buffer_frame)
                             + Waiting(e.buffer_pkt)
        /\ Waiting(e.buffer_pkt) \in Nat
    BY <2>3, LeftType
  <2> QED BY <1>2, <2>1, <2>2, <2>4, <2>5
<1> QED BY <1>3, <1>4

-----------------------------------------------------------------------------
(* The steps of a stream. *)

\* Of no stream more was read than of the container.
PositionInv == \A t \in Threads : container.read[t] =< container.position

\* Every packet of a stream that is read moves the position too.
LEMMA PositionStep == Inv /\ PositionInv /\ [Next]_vars => PositionInv'
<1> SUFFICES ASSUME Inv, PositionInv, [Next]_vars PROVE PositionInv'
  OBVIOUS
<1>1. container \in [position : 0 .. Packets, read : [Threads -> Nat], failed : SUBSET Threads]
  BY DEF Inv, TypeOK
<1>2. container.position \in Nat
  BY <1>1, PacketsAssumption
<1>3. ASSUME NEW t \in Threads, ReadPacket(t) PROVE PositionInv'
  <2>1. CASE container' = [container EXCEPT !.position = @ + 1]
    BY <1>1, <1>2, <2>1 DEF PositionInv
  <2>2. CASE \E s \in Threads : container' = [container EXCEPT !.position = @ + 1, !.read[s] = @ + 1]
    <3>1. PICK s \in Threads : container' = [container EXCEPT !.position = @ + 1, !.read[s] = @ + 1]
      BY <2>2
    <3>2. /\ container'.position = container.position + 1
          /\ container'.read = [container.read EXCEPT ![s] = @ + 1]
      BY <1>1, <3>1
    <3> QED BY <1>1, <1>2, <3>2 DEF PositionInv
  <2> QED BY <1>3, <2>1, <2>2 DEF ReadPacket
<1>4. ASSUME container'.read = container.read, container'.position = container.position
      PROVE  PositionInv'
  BY <1>4 DEF PositionInv
<1>5. ASSUME NEW t \in Threads, Step(t), ~ReadPacket(t) PROVE PositionInv'
  <2>1. container'.read = container.read /\ container'.position = container.position
    BY <1>1, <1>5, FailsWhere DEF Step, TestEnded, LockPackets, TestEmpty, UnlockPackets,
      ReceiveFrame, ReceiveEnd, ReceiveAgain, TakePacket, SendPacket, CallAudio
  <2> QED BY <1>4, <2>1
<1>6. CASE Destroy \/ UNCHANGED vars
  BY <1>4, <1>6 DEF Destroy, vars
<1> QED BY <1>3, <1>5, <1>6, NextCases

\* The numbers of frames a packet may have.
Kinds == {FramesOf(p) : p \in PacketKinds}

\* The steps a stream may make, as numbers.
Fed(t) ==
  /\ Packets - sent[t] > 0 /\ ~codec[t].eof
  /\ \E frames \in Kinds :
       /\ Packets - sent'[t] = Packets - sent[t] - 1
       /\ FramesLeft(codec'[t]) = FramesLeft(codec[t]) + frames
  /\ codec'[t].eof = codec[t].eof

Announced(t) ==
  /\ ~codec[t].eof /\ codec'[t].eof
  /\ FramesLeft(codec'[t]) = FramesLeft(codec[t]) /\ sent'[t] = sent[t]

Given(t) ==
  /\ FramesLeft(codec[t]) > 0
  /\ FramesLeft(codec'[t]) = FramesLeft(codec[t]) - 1
  /\ sent'[t] = sent[t] /\ codec'[t].eof = codec[t].eof

Same(t) ==
  /\ FramesLeft(codec'[t]) = FramesLeft(codec[t])
  /\ sent'[t] = sent[t] /\ codec'[t].eof = codec[t].eof

\* A call of avcodec_receive_frame gives a frame or leaves the stream as it is.
LEMMA ReceiveStream ==
  ASSUME Inv, NEW t \in Threads, ReceiveFrame(t) \/ ReceiveEnd(t) \/ ReceiveAgain(t)
  PROVE  /\ ReceiveFrame(t) => Given(t)
         /\ ReceiveEnd(t) \/ ReceiveAgain(t) => Same(t)
<1> DEFINE r == avcodec_receive_frame(codec[t])
<1>1. CodecInv(codec[t]) /\ codec \in [Threads -> Contexts]
  BY DEF Inv, TypeOK, CodecsInv
<1>2. FramesLeft(codec[t]) = FramesLeft(r.codec) + One(r.ret)
  BY <1>1, ReceiveLeft
<1>3. codec' = [codec EXCEPT ![t] = r.codec] /\ CodecInv(r.codec) /\ r.codec.eof = codec[t].eof
  BY CodecStep
<1>4. sent' = sent
  BY DEF ReceiveFrame, ReceiveEnd, ReceiveAgain
<1> HIDE DEF r
<1>5. codec'[t] = r.codec
  BY <1>1, <1>3
<1>6. FramesLeft(r.codec) \in Nat /\ FramesLeft(codec[t]) \in Nat
  BY <1>1, <1>3, LeftType
<1>7. PICK k \in Nat, l \in Nat : k = FramesLeft(r.codec) /\ l = FramesLeft(codec[t])
  BY <1>6
<1>8. ReceiveFrame(t) => r.ret = "frame"
  BY DEF ReceiveFrame, Receives, r
<1>9. ReceiveEnd(t) \/ ReceiveAgain(t) => r.ret # "frame"
  BY DEF ReceiveEnd, ReceiveAgain, Receives, r
<1>10. ASSUME r.ret = "frame" PROVE Given(t)
  <2>1. l = k + 1
    BY <1>2, <1>7, <1>10 DEF One
  <2>2. l > 0 /\ k = l - 1
    BY <2>1
  <2> QED BY <1>3, <1>4, <1>5, <1>7, <2>2 DEF Given
<1>11. ASSUME r.ret # "frame" PROVE Same(t)
  <2>1. l = k
    BY <1>2, <1>7, <1>11 DEF One
  <2> QED BY <1>3, <1>4, <1>5, <1>7, <2>1 DEF Same
<1> QED BY <1>8, <1>9, <1>10, <1>11

\* A call of avcodec_send_packet feeds the next packet or announces the end.
LEMMA SendStream ==
  ASSUME Inv, PositionInv, NEW t \in Threads, SendPacket(t)
  PROVE  Fed(t) \/ Announced(t)
<1>1. /\ CodecInv(codec[t]) /\ codec \in [Threads -> Contexts] /\ sent \in [Threads -> Nat]
      /\ packet \in [Threads -> Nat]
      /\ container \in [position : 0 .. Packets, read : [Threads -> Nat], failed : SUBSET Threads]
      /\ packets[t] \in Seq(Nat \ {0})
  BY DEF Inv, TypeOK, CodecsInv
<1>2. pc[t] = "send"
  BY Moves
<1>3. ~codec[t].eof /\ codec[t].buffer_pkt = <<>>
  BY <1>2 DEF Inv, CodecsInv
<1>4. PICK p \in Sendable(t) : codec' = [codec EXCEPT ![t] = avcodec_send_packet(@, p).codec]
  BY DEF SendPacket
<1> DEFINE c == avcodec_send_packet(codec[t], p).codec
<1>5. c.eof <=> packet[t] = NULL
  BY <1>2, SendStep
<1>6. CodecInv(c)
  BY <1>2, SendStep
<1>7. codec'[t] = c
  BY <1>1, <1>4
<1>8. c.eof \in BOOLEAN /\ codec[t].eof \in BOOLEAN
  BY <1>1, <1>6 DEF CodecInv, Contexts
<1>9. CASE packet[t] = NULL
  <2>1. p = <<>> /\ sent'[t] = sent[t]
    BY <1>1, <1>9 DEF Sendable, SendPacket
  <2>2. p \in Seq(AnyPacket) /\ Waiting(p) = 0
    BY <2>1 DEF Waiting
  <2>3. FramesLeft(c) = FramesLeft(codec[t]) + 0
    BY <1>1, <1>3, <2>2, SendLeft
  <2>4. FramesLeft(codec[t]) \in Nat
    BY <1>1, LeftType
  <2> HIDE DEF c
  <2>5. FramesLeft(c) = FramesLeft(codec[t])
    BY <2>3, <2>4
  <2> QED BY <1>3, <1>5, <1>7, <1>9, <2>1, <2>5 DEF Announced
<1>10. CASE packet[t] # NULL
  <2>1. PICK k \in PacketKinds : p = <<k>>
    BY <1>10 DEF Sendable
  <2>2. k \in AnyPacket
    BY PacketKindsAreAny
  <2>3. p \in Seq(AnyPacket) /\ Waiting(p) = FramesOf(k)
    BY <2>1, <2>2 DEF Waiting
  <2>4. FramesLeft(c) = FramesLeft(codec[t]) + FramesOf(k) /\ FramesOf(k) \in Kinds
    BY <1>1, <1>3, <2>3, SendLeft DEF Kinds
  <2>5. sent'[t] = packet[t] /\ packet[t] = sent[t] + 1
    BY <1>1, <1>10 DEF SendPacket, Inv, PacketsInOrder
  <2>6. /\ sent[t] \in Nat /\ Len(packets[t]) \in Nat /\ container.read[t] \in Nat
        /\ container.position \in 0 .. Packets
    BY <1>1
  <2>7. sent[t] + 1 + Len(packets[t]) = container.read[t]
    BY <1>10 DEF Inv, PacketsInOrder
  <2>8. container.read[t] =< container.position
    BY DEF PositionInv
  <2>9. Packets - sent[t] > 0 /\ Packets - (sent[t] + 1) = Packets - sent[t] - 1
    BY <2>6, <2>7, <2>8, PacketsAssumption
  <2>10. codec'[t].eof = codec[t].eof
    BY <1>3, <1>5, <1>7, <1>8, <1>10
  <2> HIDE DEF c
  <2> QED BY <1>3, <1>7, <2>4, <2>5, <2>9, <2>10 DEF Fed
<1> QED BY <1>9, <1>10

\* No step changes a stream in any other way.
LEMMA StreamStep ==
  ASSUME Inv, PositionInv, [Next]_vars, NEW u \in Threads
  PROVE  Fed(u) \/ Announced(u) \/ Given(u) \/ Same(u)
<1>1. CASE Destroy \/ UNCHANGED vars
  BY <1>1 DEF Destroy, vars, Same
<1>2. ASSUME NEW t \in Threads, Step(t), u # t
      PROVE  Same(u)
  <2>1. codec'[u] = codec[u] /\ sent'[u] = sent[u]
    BY <1>2, OthersStay
  <2> QED BY <2>1 DEF Same
<1>3. ASSUME Step(u)
      PROVE  Fed(u) \/ Announced(u) \/ Given(u) \/ Same(u)
  <2>1. CASE ReceiveFrame(u) \/ ReceiveEnd(u) \/ ReceiveAgain(u)
    BY <2>1, ReceiveStream
  <2>2. CASE SendPacket(u)
    BY <2>2, SendStream
  <2>3. CASE \/ TestEnded(u) \/ LockPackets(u) \/ TestEmpty(u) \/ ReadPacket(u)
             \/ ReadPacketFails(u) \/ TakePacket(u) \/ UnlockPackets(u) \/ CallAudio
    <3>1. codec' = codec /\ sent' = sent
      BY <2>3 DEF TestEnded, LockPackets, TestEmpty, ReadPacket, ReadPacketFails,
        TakePacket, UnlockPackets, CallAudio
    <3> QED BY <3>1 DEF Same
  <2> QED BY <1>3, <2>1, <2>2, <2>3 DEF Step
<1> QED BY <1>1, <1>2, <1>3, NextCases

-----------------------------------------------------------------------------
(* The refinement. *)

\* The position is an invariant of the decoder.
LEMMA PositionIsKept == WholeSpec => []PositionInv
<1>1. WholeInit => PositionInv
  BY DEF WholeInit, Init, PositionInv
<1>2. WholeSpec => []PositionInv
  BY <1>1, PositionStep, WholeSteps, WholeInvariant, PTL DEF WholeSpec
<1> QED BY <1>2

\* A new context has no frames.
LEMMA NewStream == FramesLeft(NewContext) = 0 /\ ~NewContext.eof
<1>1. /\ NewContext.delayed = 0 /\ NewContext.pieces = <<>> /\ ~NewContext.buffer_frame
      /\ NewContext.buffer_pkt = <<>> /\ ~NewContext.eof
  BY DEF NewContext
<1> QED BY <1>1, NothingLeft

\* Both streams begin with all packets to come, and the ring is empty.
LEMMA StreamsBegin == WholeInit => Video!Init /\ AudioStream!Init
<1> SUFFICES ASSUME WholeInit PROVE Video!Init /\ AudioStream!Init
  OBVIOUS
<1>1. ASSUME NEW t \in Threads
      PROVE  /\ Packets - sent[t] = Packets /\ FramesLeft(codec[t]) = 0
             /\ codec[t].eof = FALSE /\ outputEnded[t] = FALSE
  <2>1. sent[t] = 0 /\ codec[t] = NewContext /\ outputEnded[t] = FALSE
    BY DEF WholeInit, Init
  <2>2. NewContext.eof = FALSE
    BY DEF NewContext
  <2> QED BY <2>1, <2>2, NewStream, PacketsAssumption
<1>2. "video" \in Threads /\ "audio" \in Threads
  BY DEF Threads
<1>3. Video!Source!Init /\ AudioStream!Init
  BY <1>1, <1>2 DEF Video!Source!Init, AudioStream!Init
<1>4. Video!Ring!Init
  BY <1>1, <1>2 DEF Video!Ring!Init, WholeInit
<1> QED BY <1>3, <1>4 DEF Video!Init

\* The record of a stream after each of its steps.
Left(packetsLeft, framesLeft, announced) ==
  [packets |-> packetsLeft, frames |-> framesLeft, draining |-> announced]

\* The numbers of the video's stream change as the record of DecodedVideo does.
LEMMA VideoStreamStep ==
  ASSUME Inv, Inv'
  PROVE  /\ Fed("video") => Video!Source!Feed
         /\ Announced("video") => Video!Source!Announce
         /\ Given("video") => Video!Source!Give
         /\ Same("video") => UNCHANGED [packets |-> Packets - sent["video"],
                                       frames |-> FramesLeft(codec["video"]),
                                       draining |-> codec["video"].eof]
<1> DEFINE P == Packets - sent["video"]
           F == FramesLeft(codec["video"])
           E == codec["video"].eof
           V == [packets |-> P, frames |-> F, draining |-> E]
<1>1. "video" \in Threads
  BY DEF Threads
<1>2. codec["video"].eof \in BOOLEAN /\ codec'["video"].eof \in BOOLEAN
  BY <1>1 DEF Inv, TypeOK, Contexts
<1>3. V = Left(P, F, E)
  BY DEF Left
<1>4. ASSUME Fed("video") PROVE Video!Source!Feed
  <2>1. PICK k \in Kinds :
          /\ Packets - sent'["video"] = Packets - sent["video"] - 1
          /\ FramesLeft(codec'["video"]) = FramesLeft(codec["video"]) + k
    BY <1>4 DEF Fed
  <2>2. V' = Left(P - 1, F + k, E)
    BY <1>4, <2>1 DEF Fed, Left
  <2>3. V.packets > 0 /\ ~V.draining
    BY <1>4 DEF Fed
  <2>4. [V EXCEPT !.packets = V.packets - 1, !.frames = V.frames + k]
          = Left(P - 1, F + k, E)
    <3>1. V.packets = P /\ V.frames = F
      OBVIOUS
    <3> HIDE DEF P, F, E, V
    <3>2. ASSUME NEW x, NEW y
          PROVE  [V EXCEPT !.packets = x, !.frames = y] = Left(x, y, E)
      <4>1. [V EXCEPT !.packets = x, !.frames = y]
              = [[V EXCEPT !.packets = x] EXCEPT !.frames = y]
        OBVIOUS
      <4>2. /\ [Left(P, F, E) EXCEPT !.packets = x] = Left(x, F, E)
            /\ [Left(x, F, E) EXCEPT !.frames = y] = Left(x, y, E)
        BY DEF Left
      <4> QED BY <1>3, <4>1, <4>2
    <3> QED BY <3>1, <3>2, Zenon
  <2>5. \E frames \in {FramesOf(p) : p \in PacketKinds} :
          V' = [V EXCEPT !.packets = V.packets - 1, !.frames = V.frames + frames]
    <3> HIDE DEF P, F, E, V
    <3> QED BY <2>1, <2>2, <2>4 DEF Kinds
  <2> QED BY <2>3, <2>5, Zenon DEF Video!Source!Feed
<1>5. ASSUME Announced("video") PROVE Video!Source!Announce
  <2>1. V' = Left(P, F, TRUE)
    BY <1>2, <1>5 DEF Announced, Left
  <2>2. ~V.draining
    BY <1>5 DEF Announced
  <2>3. [V EXCEPT !.draining = TRUE] = Left(P, F, TRUE)
    <3> HIDE DEF P, F, E, V
    <3>1. \A y : [V EXCEPT !.draining = y] = Left(P, F, y)
      BY <1>3 DEF Left
    <3> QED BY <3>1, Zenon
  <2> QED BY <2>1, <2>2, <2>3, Zenon DEF Video!Source!Announce
<1>6. ASSUME Given("video") PROVE Video!Source!Give
  <2>1. V' = Left(P, F - 1, E)
    BY <1>6 DEF Given, Left
  <2>2. V.frames > 0
    BY <1>6 DEF Given
  <2>3. [V EXCEPT !.frames = V.frames - 1] = Left(P, F - 1, E)
    <3>1. V.frames = F
      OBVIOUS
    <3> HIDE DEF P, F, E, V
    <3>2. ASSUME NEW y PROVE [V EXCEPT !.frames = y] = Left(P, y, E)
      <4>1. [Left(P, F, E) EXCEPT !.frames = y] = Left(P, y, E)
        BY DEF Left
      <4> QED BY <1>3, <4>1
    <3> QED BY <3>1, <3>2, Zenon
  <2> QED BY <2>1, <2>2, <2>3, Zenon DEF Video!Source!Give
<1>7. ASSUME Same("video") PROVE V' = V
  BY <1>7 DEF Same
<1> QED BY <1>4, <1>5, <1>6, <1>7

\* A step of the decoder is one of DecodedVideo: the frame of a call goes into the
\* ring in the same step, and only the end of the video's loop and the destructor
\* end it.
LEMMA WholeVideoStep ==
  ASSUME Inv, Inv', PositionInv, [WholeNext]_whole
  PROVE  [Video!Next]_(Video!vars)
<1> DEFINE V == [packets |-> Packets - sent["video"], frames |-> FramesLeft(codec["video"]),
                 draining |-> codec["video"].eof]
<1>1. "video" \in Threads /\ "audio" \in Threads /\ outputEnded \in [Threads -> BOOLEAN]
  BY DEF Threads, Inv, TypeOK
<1>2. ASSUME Same("video"), UNCHANGED ring, outputEnded'["video"] = outputEnded["video"]
      PROVE  UNCHANGED Video!vars
  <2>1. V' = V
    BY <1>2, VideoStreamStep
  <2> QED BY <1>2, <2>1 DEF ring, Video!vars
<1>3. ASSUME Same("video"), UNCHANGED ring, outputEnded'["video"] = TRUE
      PROVE  Video!Next
  <2>1. V' = V
    BY <1>3, VideoStreamStep
  <2>2. Video!Ring!End
    BY <1>3 DEF Video!Ring!End, ring
  <2> QED BY <2>1, <2>2 DEF Video!End, Video!Next
<1>4. CASE VideoFrame
  <2>1. ReceiveFrame("video") /\ Ring!Put
    BY <1>4 DEF VideoFrame
  <2>2. Given("video")
    BY <1>1, <2>1, ReceiveStream
  <2>3. Video!Source!Give
    BY <2>2, VideoStreamStep
  <2>4. Video!Ring!Put
    BY <2>1 DEF Ring!Put, Video!Ring!Put
  <2> QED BY <2>3, <2>4 DEF Video!Decode, Video!Next
<1>5. CASE VideoStep
  <2>1. UNCHANGED ring
    BY <1>5 DEF VideoStep
  <2>2. CASE ReceiveEnd("video")
    <3>1. Same("video")
      BY <1>1, <2>2, ReceiveStream
    <3>2. outputEnded'["video"] = TRUE
      BY <1>1, <2>2 DEF ReceiveEnd
    <3> QED BY <1>3, <2>1, <3>1, <3>2
  <2>3. CASE SendPacket("video")
    <3>1. Fed("video") \/ Announced("video")
      BY <1>1, <2>3, SendStream
    <3>2. Video!Source!Feed \/ Video!Source!Announce
      BY <3>1, VideoStreamStep
    <3>3. outputEnded' = outputEnded
      BY <2>3 DEF SendPacket
    <3> QED BY <2>1, <3>2, <3>3 DEF Video!Send, Video!Next, ring
  <2>4. CASE ReceiveAgain("video")
    <3>1. Same("video") /\ outputEnded' = outputEnded
      BY <1>1, <2>4, ReceiveStream DEF ReceiveAgain
    <3> QED BY <1>2, <2>1, <3>1
  <2>5. CASE \/ TestEnded("video") \/ TestEmpty("video") \/ ReadPacket("video")
             \/ ReadPacketFails("video") \/ TakePacket("video") \/ UnlockPackets("video")
    <3>1. UNCHANGED <<codec, sent, outputEnded>>
      BY <2>5 DEF TestEnded, TestEmpty, ReadPacket, ReadPacketFails, TakePacket, UnlockPackets
    <3> QED BY <1>2, <2>1, <3>1 DEF Same
  <2> QED BY <1>5, <2>2, <2>3, <2>4, <2>5 DEF VideoStep, Fetch
<1>6. CASE AudioStep \/ UpdateAudioBuffer
  <2>1. UNCHANGED ring /\ Step("audio")
    BY <1>6 DEF AudioStep, UpdateAudioBuffer, Receive, Fetch, Step
  <2>2. Same("video")
    BY <1>1, <2>1, OthersStay DEF Same
  <2>3. outputEnded'["video"] = outputEnded["video"]
    BY <1>1, <2>1 DEF Step, TestEnded, ReceiveFrame, ReceiveEnd, ReceiveAgain, LockPackets,
      TestEmpty, ReadPacket, ReadPacketFails, TakePacket, UnlockPackets, SendPacket, CallAudio
  <2> QED BY <1>2, <2>1, <2>2, <2>3
<1>7. CASE NextVideoFrame
  <2>1. UNCHANGED <<codec, sent, outputEnded>> /\ Ring!Take
    BY <1>7 DEF NextVideoFrame, vars
  <2>2. V' = V
    BY <2>1
  <2>3. Video!Ring!Take
    BY <2>1 DEF Ring!Take, Video!Ring!Take
  <2> QED BY <2>2, <2>3 DEF Video!Show, Video!Next
<1>8. CASE Delete
  <2>1. UNCHANGED ring /\ Same("video")
    BY <1>8 DEF Delete, Destroy, Same
  <2>2. outputEnded'["video"] = TRUE
    BY <1>1, <1>8 DEF Delete, Destroy, SetEnded
  <2> QED BY <1>3, <2>1, <2>2
<1>9. CASE Cleanup \/ (\E t \in Threads : Lock(t)) \/ Finished \/ UNCHANGED whole
  <2>1. UNCHANGED <<codec, sent, outputEnded, ring>>
    BY <1>9 DEF Cleanup, Lock, LockPackets, Finished, whole, vars
  <2> QED BY <1>2, <2>1 DEF Same
<1>10. CASE FallAsleep \/ WakeUp
  <2>1. UNCHANGED <<codec, sent, outputEnded, ring>>
    BY <1>10 DEF FallAsleep, WakeUp, vars
  <2> QED BY <1>2, <2>1 DEF Same
<1> QED BY <1>4, <1>5, <1>6, <1>7, <1>8, <1>9, <1>10 DEF WholeNext

\* A step of the decoder is one of the audio's stream or leaves it alone.
LEMMA AudioStreamStep ==
  ASSUME Inv, PositionInv, Inv', [Next]_vars
  PROVE  [AudioStream!Next]_[packets |-> Packets - sent["audio"],
                             frames |-> FramesLeft(codec["audio"]),
                             draining |-> codec["audio"].eof]
<1> DEFINE P == Packets - sent["audio"]
           F == FramesLeft(codec["audio"])
           E == codec["audio"].eof
           V == [packets |-> P, frames |-> F, draining |-> E]
<1>1. "audio" \in Threads
  BY DEF Threads
<1>2. codec["audio"].eof \in BOOLEAN /\ codec'["audio"].eof \in BOOLEAN
  BY <1>1 DEF Inv, TypeOK, Contexts
<1>3. V = Left(P, F, E)
  BY DEF Left
<1>4. CASE Fed("audio")
  <2>1. PICK k \in Kinds :
          /\ Packets - sent'["audio"] = Packets - sent["audio"] - 1
          /\ FramesLeft(codec'["audio"]) = FramesLeft(codec["audio"]) + k
    BY <1>4 DEF Fed
  <2>2. V' = Left(P - 1, F + k, E)
    BY <1>4, <2>1 DEF Fed, Left
  <2>3. V.packets > 0 /\ ~V.draining
    BY <1>4 DEF Fed
  <2>4. [V EXCEPT !.packets = V.packets - 1, !.frames = V.frames + k]
          = Left(P - 1, F + k, E)
    <3>1. V.packets = P /\ V.frames = F
      OBVIOUS
    <3> HIDE DEF P, F, E, V
    <3>2. ASSUME NEW x, NEW y
          PROVE  [V EXCEPT !.packets = x, !.frames = y] = Left(x, y, E)
      <4>1. [V EXCEPT !.packets = x, !.frames = y]
              = [[V EXCEPT !.packets = x] EXCEPT !.frames = y]
        OBVIOUS
      <4>2. /\ [Left(P, F, E) EXCEPT !.packets = x] = Left(x, F, E)
            /\ [Left(x, F, E) EXCEPT !.frames = y] = Left(x, y, E)
        BY DEF Left
      <4> QED BY <1>3, <4>1, <4>2
    <3> QED BY <3>1, <3>2, Zenon
  <2>5. \E frames \in {FramesOf(p) : p \in PacketKinds} :
          V' = [V EXCEPT !.packets = V.packets - 1, !.frames = V.frames + frames]
    <3> HIDE DEF P, F, E, V
    <3> QED BY <2>1, <2>2, <2>4 DEF Kinds
  <2>6. AudioStream!Feed
    BY <2>3, <2>5, Zenon DEF AudioStream!Feed
  <2> QED BY <2>6 DEF AudioStream!Next
<1>5. CASE Announced("audio")
  <2>1. V' = Left(P, F, TRUE)
    BY <1>2, <1>5 DEF Announced, Left
  <2>2. ~V.draining
    BY <1>5 DEF Announced
  <2>3. [V EXCEPT !.draining = TRUE] = Left(P, F, TRUE)
    <3> HIDE DEF P, F, E, V
    <3>1. \A y : [V EXCEPT !.draining = y] = Left(P, F, y)
      BY <1>3 DEF Left
    <3> QED BY <3>1, Zenon
  <2>4. AudioStream!Announce
    BY <2>1, <2>2, <2>3, Zenon DEF AudioStream!Announce
  <2> QED BY <2>4 DEF AudioStream!Next
<1>6. CASE Given("audio")
  <2>1. V' = Left(P, F - 1, E)
    BY <1>6 DEF Given, Left
  <2>2. V.frames > 0
    BY <1>6 DEF Given
  <2>3. [V EXCEPT !.frames = V.frames - 1] = Left(P, F - 1, E)
    <3>1. V.frames = F
      OBVIOUS
    <3> HIDE DEF P, F, E, V
    <3>2. ASSUME NEW y PROVE [V EXCEPT !.frames = y] = Left(P, y, E)
      <4>1. [Left(P, F, E) EXCEPT !.frames = y] = Left(P, y, E)
        BY DEF Left
      <4> QED BY <1>3, <4>1
    <3> QED BY <3>1, <3>2, Zenon
  <2>4. AudioStream!Give
    BY <2>1, <2>2, <2>3, Zenon DEF AudioStream!Give
  <2> QED BY <2>4 DEF AudioStream!Next
<1>7. CASE Same("audio")
  BY <1>7 DEF Same
<1> QED BY <1>1, <1>4, <1>5, <1>6, <1>7, StreamStep

\* Whatever the two threads and the client do, the frames the client takes are
\* those the codec gave, each once and in order, while no packet is decoded twice,
\* no call of a codec loses or makes up a frame, and nothing is sent to a codec
\* after the end; the audio's stream is decoded alike
\* (VideoDecoder.cpp: run and decodeAudio; FFmpeg/libavcodec/decode.c).
THEOREM StreamsAreImplemented == WholeSpec => ImplementsStreams
<1> DEFINE A == [packets |-> Packets - sent["audio"], frames |-> FramesLeft(codec["audio"]),
                 draining |-> codec["audio"].eof]
<1>1. WholeInit => Video!Init /\ AudioStream!Init
  BY StreamsBegin
<1>2. Inv /\ Inv' /\ PositionInv /\ [WholeNext]_whole => [Video!Next]_(Video!vars)
  BY WholeVideoStep
<1>3. Inv /\ Inv' /\ PositionInv /\ [WholeNext]_whole => [AudioStream!Next]_A
  BY WholeSteps, AudioStreamStep
<1> QED BY <1>1, <1>2, <1>3, WholeInvariant, PositionIsKept, PTL
         DEF WholeSpec, ImplementsStreams, Video!Spec, AudioStream!Spec

-----------------------------------------------------------------------------
(* What follows from the promise. *)

Promise == INSTANCE DecodedVideo_proofs WITH
  FramesPerPacket <- {FramesOf(p) : p \in PacketKinds},
  Capacity <- RingSize,
  codec <- [packets |-> Packets - sent["video"], frames |-> FramesLeft(codec["video"]),
            draining |-> codec["video"].eof],
  ended <- outputEnded["video"]

LEMMA PromiseIsKept == WholeSpec => Promise!Spec
<1>1. Video!Init => Promise!Init
  BY DEF Video!Init, Promise!Init, Video!Source!Init, Promise!Source!Init,
    Video!Ring!Init, Promise!Ring!Init
<1>2. [Video!Next]_(Video!vars) => [Promise!Next]_(Promise!vars)
  BY DEF Video!Next, Promise!Next, Video!vars, Promise!vars, Video!Send, Promise!Send,
    Video!Decode, Promise!Decode, Video!Show, Promise!Show, Video!End, Promise!End,
    Video!Source!Feed, Promise!Source!Feed, Video!Source!Announce, Promise!Source!Announce,
    Video!Source!Give, Promise!Source!Give, Video!Ring!Put, Promise!Ring!Put,
    Video!Ring!Take, Promise!Ring!Take, Video!Ring!End, Promise!Ring!End
<1> QED BY <1>1, <1>2, StreamsAreImplemented, PTL
        DEF ImplementsStreams, Video!Spec, Promise!Spec

\* The frames in the ring are the ones after the one shown, up to the last the codec
\* gave, and no more than the ring has room for.
RingInOrder ==
  /\ Len(queue) =< RingSize /\ produced = shown + Len(queue)
  /\ queue = FramesAfter(shown, Len(queue))

\* The client sees the frames of the codec in order and each once, whoever reads
\* the container meanwhile and whichever of the two streams ends first.
THEOREM RingStaysInOrder == WholeSpec => []RingInOrder
<1>1. Promise!Spec => []Promise!Ordered
  <2>1. RingSize \in Nat
    BY RingSizeAssumption
  <2> QED BY <2>1, Promise!FramesAreOrdered
<1>2. Promise!Ordered => RingInOrder
  BY RingSizeAssumption DEF Promise!Ordered, RingInOrder, Promise!FramesAfter, FramesAfter
<1> QED BY <1>1, <1>2, PromiseIsKept, PTL
=============================================================================
