-------------------------- MODULE Decoding_proofs --------------------------
(***************************************************************************)
(* Theorems about demultiplexing and decoding, for every number of packets *)
(* and pieces and every size of the ring.                                  *)
(***************************************************************************)
EXTENDS Decoding, FiniteSetTheorems, SequenceTheorems, TLAPS

-----------------------------------------------------------------------------
(* The calls of the codec. *)

\* What one codec's context always is like: it is drained only after the end was
\* sent to it, and no packet waits then.
CodecInv(c) ==
  /\ c \in Contexts
  /\ c.draining => c.eof
  /\ c.eof => c.buffer_pkt = <<>>

Results == {"frame", "error", "again", "eof"}

\* The rest of a sequence is one.
LEMMA TailType ==
  ASSUME NEW S, NEW s \in Seq(S), s # <<>>
  PROVE  Tail(s) \in Seq(S) /\ Head(s) \in S
OBVIOUS

\* Beginning a packet keeps the context's type, its end and its frame.
LEMMA BeginKeeps ==
  ASSUME NEW c, CodecInv(c)
  PROVE  LET b == BeginPacket(c)
         IN /\ CodecInv(b)
            /\ b.eof = c.eof /\ b.draining = c.draining /\ b.buffer_frame = c.buffer_frame
            /\ b.pieces = <<>> => b.buffer_pkt = <<>>
<1> DEFINE b == BeginPacket(c)
<1>1. CASE c.pieces = <<>> /\ ~c.eof /\ c.buffer_pkt # <<>>
  <2>1. c.buffer_pkt[1] \in AnyPacket
    BY <1>1 DEF CodecInv, Contexts
  <2>2. /\ c.buffer_pkt[1].gives \in Seq(Gives)
        /\ c.delayed + c.buffer_pkt[1].delayed \in Nat
    BY <2>1 DEF AnyPacket, CodecInv, Contexts
  <2>3. b = [c EXCEPT !.buffer_pkt = <<>>, !.pieces = c.buffer_pkt[1].gives,
                      !.delayed = @ + c.buffer_pkt[1].delayed]
    BY <1>1 DEF BeginPacket
  <2>4. b \in Contexts
    <3>1. <<>> \in Seq(AnyPacket) /\ c \in Contexts
      BY DEF CodecInv
    <3> QED BY <2>2, <2>3, <3>1 DEF Contexts
  <2>5. /\ b.eof = c.eof /\ b.draining = c.draining /\ b.buffer_frame = c.buffer_frame
        /\ b.buffer_pkt = <<>>
    BY <2>3 DEF CodecInv, Contexts
  <2> QED BY <1>1, <2>4, <2>5 DEF CodecInv
<1>2. CASE ~(c.pieces = <<>> /\ ~c.eof /\ c.buffer_pkt # <<>>)
  <2>1. b = c
    BY <1>2 DEF BeginPacket
  <2> QED BY <1>2, <2>1 DEF CodecInv
<1> QED BY <1>1, <1>2

\* Draining keeps the type and gives a frame or, when none is left, the end.
LEMMA DrainKeeps ==
  ASSUME NEW c, CodecInv(c), c.eof
  PROVE  LET d == Drain(c)
         IN /\ CodecInv(d.codec) /\ d.codec.eof
            /\ d.codec.buffer_frame = c.buffer_frame /\ d.codec.pieces = c.pieces
            /\ \/ d.ret = "frame"
               \/ d.ret = "eof" /\ d.codec.delayed = 0
<1>1. CASE c.delayed > 0
  <2>1. c.delayed - 1 \in Nat
    BY <1>1 DEF CodecInv, Contexts
  <2> QED BY <1>1, <2>1 DEF Drain, CodecInv, Contexts
<1>2. CASE ~(c.delayed > 0)
  <2>1. c.delayed = 0
    BY <1>2 DEF CodecInv, Contexts
  <2> QED BY <1>2, <2>1 DEF Drain, CodecInv, Contexts
<1> QED BY <1>1, <1>2

\* What decoding once does: it asks for a packet only when none waits and the end
\* was not sent, and reports the end only when nothing is left.
LEMMA InternalKeeps ==
  ASSUME NEW c, CodecInv(c)
  PROVE  LET d == decode_receive_frame_internal(c)
         IN /\ CodecInv(d.codec) /\ d.ret \in Results
            /\ d.codec.eof = c.eof /\ d.codec.buffer_frame = c.buffer_frame
            /\ d.ret = "again" => d.codec.buffer_pkt = <<>> /\ ~d.codec.eof
            /\ d.ret = "eof" => d.codec.eof /\ d.codec.pieces = <<>> /\ d.codec.delayed = 0
<1> DEFINE b == BeginPacket(c)
           d == decode_receive_frame_internal(c)
<1>1. /\ CodecInv(b)
      /\ b.eof = c.eof /\ b.draining = c.draining /\ b.buffer_frame = c.buffer_frame
      /\ b.pieces = <<>> => b.buffer_pkt = <<>>
  BY BeginKeeps
<1> HIDE DEF b
<1>2. CASE b.pieces # <<>>
  <2>1. d = [ret |-> Head(b.pieces), codec |-> [b EXCEPT !.pieces = Tail(@)]]
    BY <1>2 DEF decode_receive_frame_internal, b
  <2>2. Tail(b.pieces) \in Seq(Gives) /\ Head(b.pieces) \in Gives
    BY <1>1, <1>2, TailType DEF CodecInv, Contexts
  <2>3. CodecInv(d.codec) /\ d.codec.eof = b.eof /\ d.codec.buffer_frame = b.buffer_frame
    <3>1. d.codec = [b EXCEPT !.pieces = Tail(b.pieces)]
      BY <2>1
    <3>2. b \in Contexts
      BY <1>1 DEF CodecInv
    <3>3. d.codec \in Contexts
      BY <2>2, <3>1, <3>2 DEF Contexts
    <3>4. /\ d.codec.eof = b.eof /\ d.codec.draining = b.draining
          /\ d.codec.buffer_frame = b.buffer_frame /\ d.codec.buffer_pkt = b.buffer_pkt
      BY <3>1, <3>2 DEF Contexts
    <3> QED BY <1>1, <3>3, <3>4 DEF CodecInv
  <2>4. d.ret \in {"frame", "error"}
    BY <2>1, <2>2 DEF Gives
  <2> QED BY <1>1, <2>3, <2>4 DEF Results
<1>3. CASE b.pieces = <<>> /\ b.eof
  <2>1. d = Drain(b)
    BY <1>3 DEF decode_receive_frame_internal, b
  <2> QED BY <1>1, <1>3, <2>1, DrainKeeps DEF Results
<1>4. CASE b.pieces = <<>> /\ ~b.eof
  <2>1. d = [ret |-> "again", codec |-> b]
    BY <1>4 DEF decode_receive_frame_internal, b
  <2> QED BY <1>1, <1>4, <2>1 DEF Results
<1> QED BY <1>2, <1>3, <1>4

\* Nothing is left in a context whose parts are empty.
LEMMA NothingLeft ==
  ASSUME NEW c, c.delayed = 0, c.pieces = <<>>, ~c.buffer_frame, c.buffer_pkt = <<>>
  PROVE  FramesLeft(c) = 0
<1>1. {i \in DOMAIN c.pieces : c.pieces[i] = "frame"} = {}
  OBVIOUS
<1>2. FramesIn(c.pieces) = 0
  BY <1>1, FS_EmptySet DEF FramesIn
<1> QED BY <1>2 DEF FramesLeft

\* avcodec_receive_frame wants a packet only when the codec would take one, and
\* reports the end only after it was announced and with no frame left.
LEMMA ReceiveKeeps ==
  ASSUME NEW c, CodecInv(c)
  PROVE  LET r == avcodec_receive_frame(c)
         IN /\ CodecInv(r.codec) /\ r.ret \in Results /\ r.codec.eof = c.eof
            /\ r.ret = "again" => r.codec.buffer_pkt = <<>> /\ ~r.codec.eof
            /\ r.ret = "eof" => r.codec.eof /\ FramesLeft(r.codec) = 0
<1> DEFINE r == avcodec_receive_frame(c)
<1>1. CASE c.buffer_frame
  <2> DEFINE g == [c EXCEPT !.buffer_frame = FALSE]
  <2>1. r.ret = "frame" /\ r.codec = g
    BY <1>1 DEF avcodec_receive_frame
  <2>2. c \in Contexts
    BY DEF CodecInv
  <2>3. g \in Contexts
    BY <2>2 DEF Contexts
  <2>4. g.eof = c.eof /\ g.draining = c.draining /\ g.buffer_pkt = c.buffer_pkt
    BY <2>2 DEF Contexts
  <2>5. CodecInv(g)
    BY <2>3, <2>4 DEF CodecInv
  <2> HIDE DEF g, r
  <2>6. /\ CodecInv(r.codec) /\ r.ret \in Results /\ r.codec.eof = c.eof
        /\ r.ret # "again" /\ r.ret # "eof"
    BY <2>1, <2>4, <2>5 DEF Results
  <2> QED BY <2>6 DEF r
<1>2. CASE ~c.buffer_frame
  <2>1. r = decode_receive_frame_internal(c)
    BY <1>2 DEF avcodec_receive_frame
  <2>2. /\ CodecInv(r.codec) /\ r.ret \in Results
        /\ r.codec.eof = c.eof /\ r.codec.buffer_frame = c.buffer_frame
        /\ r.ret = "again" => r.codec.buffer_pkt = <<>> /\ ~r.codec.eof
        /\ r.ret = "eof" => r.codec.eof /\ r.codec.pieces = <<>> /\ r.codec.delayed = 0
    BY <2>1, InternalKeeps
  <2>3. r.ret = "eof" => FramesLeft(r.codec) = 0
    <3> SUFFICES ASSUME r.ret = "eof" PROVE FramesLeft(r.codec) = 0
      OBVIOUS
    <3>1. r.codec.buffer_pkt = <<>> /\ ~r.codec.buffer_frame
      BY <1>2, <2>2 DEF CodecInv
    <3>2. r.codec.pieces = <<>> /\ r.codec.delayed = 0
      BY <2>2
    <3> HIDE DEF r
    <3> QED BY <3>1, <3>2, NothingLeft
  <2> QED BY <2>2, <2>3
<1> QED BY <1>1, <1>2

\* Decoding in advance reports errors only and asks for nothing.
LEMMA AheadKeeps ==
  ASSUME NEW c, CodecInv(c)
  PROVE  LET a == DecodeAhead(c)
         IN CodecInv(a.codec) /\ a.ret \in {"ok", "error"} /\ a.codec.eof = c.eof
<1> DEFINE a == DecodeAhead(c)
           d == decode_receive_frame_internal(c)
<1>1. CodecInv(d.codec) /\ d.codec.eof = c.eof
  BY InternalKeeps
<1> HIDE DEF d
<1>2. CASE c.buffer_frame
  BY <1>2 DEF DecodeAhead
<1>3. CASE ~c.buffer_frame
  <2>1. /\ a.codec = [d.codec EXCEPT !.buffer_frame = (d.ret = "frame")]
        /\ a.ret \in {"ok", "error"}
    BY <1>3 DEF DecodeAhead, d
  <2>2. d.codec \in Contexts /\ (d.ret = "frame") \in BOOLEAN
    BY <1>1 DEF CodecInv
  <2>3. a.codec \in Contexts
    BY <2>1, <2>2 DEF Contexts
  <2>4. /\ a.codec.eof = d.codec.eof /\ a.codec.draining = d.codec.draining
        /\ a.codec.buffer_pkt = d.codec.buffer_pkt
    BY <2>1, <2>2 DEF Contexts
  <2> QED BY <1>1, <2>1, <2>3, <2>4 DEF CodecInv
<1> QED BY <1>2, <1>3

\* A codec that has no packet waiting and was not sent the end accepts either.
LEMMA SendKeeps ==
  ASSUME NEW c, CodecInv(c), ~c.eof, c.buffer_pkt = <<>>,
         NEW pkt \in Seq(AnyPacket)
  PROVE  LET s == avcodec_send_packet(c, pkt)
         IN CodecInv(s.codec) /\ s.ret \in {"ok", "error"} /\ (s.codec.eof <=> pkt = <<>>)
<1> DEFINE s == avcodec_send_packet(c, pkt)
<1>1. c \in Contexts /\ ~c.draining
  BY DEF CodecInv
<1>2. CASE pkt = <<>>
  <2> DEFINE e == [c EXCEPT !.eof = TRUE]
  <2>1. s = DecodeAhead(e)
    BY <1>1, <1>2 DEF avcodec_send_packet
  <2>2. e \in Contexts /\ e.eof /\ e.buffer_pkt = <<>>
    BY <1>1 DEF Contexts
  <2>3. CodecInv(e)
    BY <2>2 DEF CodecInv
  <2> HIDE DEF e
  <2> QED BY <1>2, <2>1, <2>2, <2>3, AheadKeeps
<1>3. CASE pkt # <<>>
  <2> DEFINE e == [c EXCEPT !.buffer_pkt = pkt]
  <2>1. s = DecodeAhead(e)
    BY <1>1, <1>3 DEF avcodec_send_packet
  <2>2. e \in Contexts /\ ~e.eof /\ ~e.draining
    BY <1>1 DEF Contexts
  <2>3. CodecInv(e)
    BY <2>2 DEF CodecInv
  <2> HIDE DEF e
  <2> QED BY <1>3, <2>1, <2>2, <2>3, AheadKeeps
<1> QED BY <1>2, <1>3

\* Every packet of a run is a packet.
LEMMA PacketKindsAreAny == PacketKinds \subseteq AnyPacket
<1>1. BoundedSeq(Gives, MaxPieces) \subseteq Seq(Gives)
  BY MaxPiecesAssumption DEF BoundedSeq, SeqOf
<1> QED BY <1>1 DEF PacketKinds, AnyPacket

-----------------------------------------------------------------------------
(* The inductive invariant. *)

\* A thread holds packetMutex exactly from its test of the queue to the unlock,
\* and what it found there stays true meanwhile; it has a packet only after that.
LockInv ==
  \A t \in Threads :
    /\ pc[t] \in {"empty", "read", "take", "unlock"} <=> packetMutex = t
    /\ pc[t] = "read" => packets[t] = <<>>
    /\ pc[t] = "take" => packets[t] # <<>>
    /\ pc[t] \notin {"unlock", "send"} => packet[t] = NULL
    /\ pc[t] \in {"lock", "empty", "read", "take"} => check[t]
    /\ pc[t] = "unlock" /\ packet[t] = NULL /\ ~check[t] => packets[t] = <<>>

\* A thread has no packet to come, or has met an error and takes that for it.
AtEnd(t) ==
  \/ t \in container.failed
  \/ container.position = Packets /\ packets[t] = <<>>

\* Who comes back without a packet is at the end, or takes itself to be there, and
\* so is who announced the end to its codec.
EndInv ==
  \A t \in Threads :
    /\ pc[t] \in {"unlock", "send"} /\ packet[t] = NULL /\ ~check[t] => AtEnd(t)
    /\ pc[t] = "send" => packet[t] # NULL \/ ~check[t]
    /\ codec[t].eof => AtEnd(t)

\* While a packet is fetched the codec waits for it, and a stream that came to
\* its end has no frame left.
CodecsInv ==
  \A t \in Threads :
    /\ CodecInv(codec[t])
    /\ pc[t] \in {"lock", "empty", "read", "take", "unlock", "send"}
         => codec[t].buffer_pkt = <<>> /\ ~codec[t].eof
    /\ pc[t] = "eof" => codec[t].eof /\ FramesLeft(codec[t]) = 0

Inv == TypeOK /\ LockInv /\ EndInv /\ CodecsInv /\ PacketsInOrder

\* A decoder whose thread starts satisfies the invariant.
LEMMA InvInit == Init => Inv
<1> SUFFICES ASSUME Init PROVE Inv
  OBVIOUS
<1>1. NewContext \in Contexts /\ CodecInv(NewContext)
  BY DEF NewContext, Contexts, CodecInv
<1>2. codec = [t \in Threads |-> NewContext] /\ ~NewContext.eof
  BY DEF Init, NewContext
<1>3. TypeOK
  <2>1. codec \in [Threads -> Contexts]
    BY <1>1, <1>2
  <2>2. packets \in [Threads -> Seq(Nat \ {0})]
    BY DEF Init
  <2>3. container \in [position : 0 .. Packets, read : [Threads -> Nat], failed : SUBSET Threads]
    BY PacketsAssumption DEF Init
  <2>4. pc \in [Threads -> Points]
    BY DEF Init, Points
  <2> QED BY <2>1, <2>2, <2>3, <2>4 DEF Init, TypeOK, NULL
<1>4. LockInv
  BY DEF Init, LockInv, Threads
<1>5. EndInv
  BY <1>2 DEF Init, EndInv
<1>6. CodecsInv
  BY <1>1, <1>2 DEF Init, CodecsInv
<1>7. PacketsInOrder
  BY DEF Init, PacketsInOrder, NULL
<1> QED BY <1>3, <1>4, <1>5, <1>6, <1>7 DEF Inv

\* The codec calls of the two loops.
LEMMA CodecStep ==
  ASSUME Inv, NEW t \in Threads, ReceiveFrame(t) \/ ReceiveEnd(t) \/ ReceiveAgain(t)
  PROVE  LET r == avcodec_receive_frame(codec[t])
         IN /\ codec' = [codec EXCEPT ![t] = r.codec]
            /\ CodecInv(r.codec) /\ r.codec.eof = codec[t].eof
            /\ ReceiveAgain(t) => r.codec.buffer_pkt = <<>> /\ ~r.codec.eof
            /\ pc'[t] = "eof" => r.codec.eof /\ FramesLeft(r.codec) = 0
<1> DEFINE r == avcodec_receive_frame(codec[t])
<1>1. CodecInv(codec[t])
  BY DEF Inv, CodecsInv
<1>2. /\ CodecInv(r.codec) /\ r.ret \in Results /\ r.codec.eof = codec[t].eof
      /\ r.ret = "again" => r.codec.buffer_pkt = <<>> /\ ~r.codec.eof
      /\ r.ret = "eof" => r.codec.eof /\ FramesLeft(r.codec) = 0
  BY <1>1, ReceiveKeeps
<1>3. pc \in [Threads -> Points]
  BY DEF Inv, TypeOK
<1> HIDE DEF r
<1>4. CASE ReceiveFrame(t)
  <2>1. r.ret = "frame" /\ codec' = [codec EXCEPT ![t] = r.codec]
    BY <1>4 DEF ReceiveFrame, Receives, r
  <2>2. pc'[t] \in {"test", "idle"} /\ pc[t] = "receive"
    BY <1>3, <1>4 DEF ReceiveFrame, Goto
  <2>3. ~ReceiveAgain(t)
    BY <1>3, <2>2 DEF ReceiveAgain, Goto
  <2> QED BY <1>2, <2>1, <2>2, <2>3 DEF r
<1>5. CASE ReceiveEnd(t)
  <2>1. PICK ret \in {"error", "eof"} : Goto(t, "receive", ret) /\ Receives(t, ret)
    BY <1>5 DEF ReceiveEnd
  <2>2. r.ret = ret /\ codec' = [codec EXCEPT ![t] = r.codec]
    BY <2>1 DEF Receives, r
  <2>3. pc'[t] = ret
    BY <1>3, <2>1 DEF Goto
  <2>4. ~ReceiveAgain(t)
    BY <1>3, <2>3 DEF ReceiveAgain, Goto
  <2> QED BY <1>2, <2>2, <2>3, <2>4 DEF r
<1>6. CASE ReceiveAgain(t)
  <2>1. r.ret = "again" /\ codec' = [codec EXCEPT ![t] = r.codec]
    BY <1>6 DEF ReceiveAgain, Receives, r
  <2>2. pc'[t] = "lock"
    BY <1>3, <1>6 DEF ReceiveAgain, Goto
  <2> QED BY <1>2, <2>1, <2>2 DEF r
<1> QED BY <1>4, <1>5, <1>6

\* What is sent is accepted, and is the end just when there is no packet.
LEMMA SendStep ==
  ASSUME Inv, NEW t \in Threads, pc[t] = "send", NEW p \in Sendable(t)
  PROVE  LET s == avcodec_send_packet(codec[t], p)
         IN /\ CodecInv(s.codec) /\ s.ret \in {"ok", "error"}
            /\ s.codec.eof <=> packet[t] = NULL
<1>1. CodecInv(codec[t]) /\ ~codec[t].eof /\ codec[t].buffer_pkt = <<>>
  BY DEF Inv, CodecsInv
<1>2. p \in Seq(AnyPacket) /\ (p = <<>> <=> packet[t] = NULL)
  <2>1. CASE packet[t] = NULL
    BY <2>1 DEF Sendable
  <2>2. CASE packet[t] # NULL
    <3>1. PICK k \in PacketKinds : p = <<k>>
      BY <2>2 DEF Sendable
    <3>2. k \in AnyPacket
      BY PacketKindsAreAny
    <3> QED BY <2>2, <3>1, <3>2
  <2> QED BY <2>1, <2>2
<1> QED BY <1>1, <1>2, SendKeeps

\* The front of a list gets a packet, and its back gives one.
LEMMA ConsType ==
  ASSUME NEW S, NEW s \in Seq(S), NEW e \in S
  PROVE  /\ Cons(e, s) \in Seq(S) /\ Cons(e, s) # <<>>
         /\ Len(Cons(e, s)) = Len(s) + 1 /\ Cons(e, s)[1] = e
         /\ \A i \in 1 .. Len(s) : Cons(e, s)[i + 1] = s[i]
BY DEF Cons

LEMMA BackType ==
  ASSUME NEW S, NEW s \in Seq(S), s # <<>>
  PROVE  /\ Front(s) \in Seq(S) /\ Len(Front(s)) = Len(s) - 1
         /\ \A i \in 1 .. Len(s) - 1 : Front(s)[i] = s[i]
         /\ Last(s) \in S
<1>1. Len(s) \in Nat \ {0}
  OBVIOUS
<1>2. \A i \in 1 .. Len(s) : s[i] \in S
  OBVIOUS
<1>3. Last(s) \in S
  BY <1>1, <1>2 DEF Last
<1>4. Len(s) - 1 \in Int /\ \A i \in 1 .. Len(s) - 1 : s[i] \in S
  BY <1>1, <1>2
<1>5. /\ Front(s) \in Seq(S)
      /\ Len(Front(s)) = IF 1 =< Len(s) - 1 THEN (Len(s) - 1) - 1 + 1 ELSE 0
      /\ \A i \in 1 .. (Len(s) - 1) - 1 + 1 : Front(s)[i] = s[1 + i - 1]
  BY <1>4, SubSeqProperties DEF Front
<1>6. (Len(s) - 1) - 1 + 1 = Len(s) - 1
  BY <1>1
<1>7. Len(Front(s)) = Len(s) - 1
  <2>1. Len(Front(s)) = IF 1 =< Len(s) - 1 THEN Len(s) - 1 ELSE 0
    BY <1>5, <1>6
  <2>2. PICK n \in Nat \ {0} : n = Len(s)
    BY <1>1
  <2>3. ~(1 =< n - 1) => n - 1 = 0
    OBVIOUS
  <2> QED BY <2>1, <2>2, <2>3
<1>8. \A i \in 1 .. Len(s) - 1 : Front(s)[i] = s[i]
  <2> TAKE i \in 1 .. Len(s) - 1
  <2>1. 1 + i - 1 = i
    OBVIOUS
  <2> QED BY <1>5, <1>6, <2>1
<1> QED BY <1>3, <1>5, <1>7, <1>8

\* The types of what the steps that only move a thread change.
LEMMA GotoType ==
  ASSUME pc \in [Threads -> Points], NEW t \in Threads, NEW from, NEW to \in Points,
         Goto(t, from, to)
  PROVE  /\ pc' \in [Threads -> Points] /\ pc[t] = from /\ pc'[t] = to
         /\ \A u \in Threads : u # t => pc'[u] = pc[u]
<1>1. pc[t] = from /\ pc' = [pc EXCEPT ![t] = to]
  BY DEF Goto
<1> QED BY <1>1

\* No step leaves the types.
LEMMA TypeStep == Inv /\ [Next]_vars => TypeOK'
<1> SUFFICES ASSUME Inv, [Next]_vars PROVE TypeOK'
  OBVIOUS
<1>0. /\ TypeOK /\ pc \in [Threads -> Points] /\ NULL \in Nat
      /\ packets \in [Threads -> Seq(Nat \ {0})] /\ packet \in [Threads -> Nat]
      /\ check \in [Threads -> BOOLEAN] /\ codec \in [Threads -> Contexts]
      /\ container \in [position : 0 .. Packets, read : [Threads -> Nat], failed : SUBSET Threads]
      /\ sent \in [Threads -> Nat] /\ outputEnded \in [Threads -> BOOLEAN]
  BY DEF Inv, TypeOK, NULL
<1> DEFINE P == Points
<1>1. P = {"idle", "test", "receive", "lock", "empty", "read", "take", "unlock", "send",
           "eof", "error", "stopped"}
  BY DEF Points, Ends
<1>2. ASSUME NEW t \in Threads, TestEnded(t) \/ TestEmpty(t) \/ LockPackets(t)
               \/ UnlockPackets(t) \/ CallAudio
      PROVE  TypeOK'
  <2>1. pc' \in [Threads -> Points]
    <3>1. CASE TestEnded(t)
      <4>1. (IF outputEnded[t] THEN "stopped" ELSE "receive") \in Points
        BY <1>1
      <4> QED BY <1>0, <3>1, <4>1, GotoType DEF TestEnded
    <3>2. CASE TestEmpty(t)
      <4>1. (IF packets[t] = <<>> THEN "read" ELSE "take") \in Points
        BY <1>1
      <4> QED BY <1>0, <3>2, <4>1, GotoType DEF TestEmpty
    <3>3. CASE LockPackets(t)
      BY <1>0, <1>1, <3>3, GotoType DEF LockPackets
    <3>4. CASE UnlockPackets(t)
      <4>1. (IF FetchesMore(t) THEN "lock" ELSE "send") \in Points
        BY <1>1
      <4> QED BY <1>0, <3>4, <4>1, GotoType DEF UnlockPackets
    <3>5. CASE CallAudio
      BY <1>0, <1>1, <3>5, GotoType DEF CallAudio, Threads
    <3> QED BY <1>2, <3>1, <3>2, <3>3, <3>4, <3>5
  <2>2. packetMutex' \in Threads \cup {"free"}
    BY <1>0, <1>2 DEF TypeOK, TestEnded, TestEmpty, LockPackets, UnlockPackets, CallAudio
  <2>3. UNCHANGED <<packets, packet, check, container, outputEnded, codec, sent>>
    BY <1>2 DEF TestEnded, TestEmpty, LockPackets, UnlockPackets, CallAudio
  <2> QED BY <1>0, <2>1, <2>2, <2>3 DEF TypeOK
<1>3. ASSUME NEW t \in Threads, ReceiveFrame(t) \/ ReceiveEnd(t) \/ ReceiveAgain(t)
      PROVE  TypeOK'
  <2>1. codec' \in [Threads -> Contexts]
    <3>1. PICK c : CodecInv(c) /\ codec' = [codec EXCEPT ![t] = c]
      BY <1>3, CodecStep
    <3> QED BY <1>0, <3>1 DEF CodecInv
  <2>2. CASE ReceiveFrame(t)
    <3>1. (IF t = "video" THEN "test" ELSE "idle") \in Points
      BY <1>1
    <3>2. pc' \in [Threads -> Points]
      BY <1>0, <2>2, <3>1, GotoType DEF ReceiveFrame
    <3> QED BY <1>0, <2>1, <2>2, <3>2 DEF TypeOK, ReceiveFrame
  <2>3. CASE ReceiveEnd(t)
    <3>1. PICK ret \in {"error", "eof"} : Goto(t, "receive", ret)
      BY <2>3 DEF ReceiveEnd
    <3>2. pc' \in [Threads -> Points]
      BY <1>0, <1>1, <3>1, GotoType
    <3>3. outputEnded' \in [Threads -> BOOLEAN]
      BY <1>0, <2>3 DEF ReceiveEnd
    <3> QED BY <1>0, <2>1, <2>3, <3>2, <3>3 DEF TypeOK, ReceiveEnd
  <2>4. CASE ReceiveAgain(t)
    <3>1. pc' \in [Threads -> Points]
      BY <1>0, <1>1, <2>4, GotoType DEF ReceiveAgain
    <3>2. check' \in [Threads -> BOOLEAN] /\ packet' \in [Threads -> Nat]
      BY <1>0, <2>4 DEF ReceiveAgain
    <3> QED BY <1>0, <2>1, <2>4, <3>1, <3>2 DEF TypeOK, ReceiveAgain
  <2> QED BY <1>3, <2>2, <2>3, <2>4
<1>4. ASSUME NEW t \in Threads, ReadPacket(t) PROVE TypeOK'
  <2>1. pc' \in [Threads -> Points]
    BY <1>0, <1>1, <1>4, GotoType DEF ReadPacket
  <2>2. container.position + 1 \in 0 .. Packets
    <3>1. container.position \in 0 .. Packets
      BY <1>0
    <3>2. container.position < Packets
      BY <1>4 DEF ReadPacket
    <3> QED BY <3>1, <3>2, PacketsAssumption
  <2>3. ASSUME container' = [container EXCEPT !.position = @ + 1], UNCHANGED packets
        PROVE  TypeOK'
    <3>1. container' \in [position : 0 .. Packets, read : [Threads -> Nat], failed : SUBSET Threads]
      BY <1>0, <2>2, <2>3
    <3> QED BY <1>0, <1>4, <2>1, <2>3, <3>1 DEF TypeOK, ReadPacket
  <2>4. ASSUME NEW s \in Threads,
               packets' = [packets EXCEPT ![s] = Cons(container.read[s] + 1, @)],
               container' = [container EXCEPT !.position = @ + 1, !.read[s] = @ + 1]
        PROVE  TypeOK'
    <3>1. container.read[s] + 1 \in Nat \ {0}
      BY <1>0
    <3>2. packets' \in [Threads -> Seq(Nat \ {0})]
      BY <1>0, <2>4, <3>1, ConsType
    <3>3. [container.read EXCEPT ![s] = @ + 1] \in [Threads -> Nat]
      BY <1>0
    <3>4. container' = [position |-> container.position + 1,
                        read |-> [container.read EXCEPT ![s] = @ + 1],
                        failed |-> container.failed]
      BY <1>0, <2>4
    <3>5. container' \in [position : 0 .. Packets, read : [Threads -> Nat], failed : SUBSET Threads]
      BY <1>0, <2>2, <3>3, <3>4
    <3> QED BY <1>0, <1>4, <2>1, <3>2, <3>5 DEF TypeOK, ReadPacket
  <2> QED BY <1>4, <2>3, <2>4 DEF ReadPacket
<1>5. ASSUME NEW t \in Threads, ReadPacketFails(t) PROVE TypeOK'
  <2>1. pc' \in [Threads -> Points]
    BY <1>0, <1>1, <1>5, GotoType DEF ReadPacketFails
  <2>2. check' \in [Threads -> BOOLEAN]
    BY <1>0, <1>5 DEF ReadPacketFails
  <2>3. container' \in [position : 0 .. Packets, read : [Threads -> Nat], failed : SUBSET Threads]
    BY <1>0, <1>5 DEF ReadPacketFails
  <2> QED BY <1>0, <1>5, <2>1, <2>2, <2>3 DEF TypeOK, ReadPacketFails
<1>6. ASSUME NEW t \in Threads, TakePacket(t) PROVE TypeOK'
  <2>1. pc' \in [Threads -> Points] /\ pc[t] = "take"
    BY <1>0, <1>1, <1>6, GotoType DEF TakePacket
  <2>2. packets[t] # <<>>
    BY <2>1 DEF Inv, LockInv
  <2>3. packet' \in [Threads -> Nat] /\ packets' \in [Threads -> Seq(Nat \ {0})]
    <3>1. Last(packets[t]) \in Nat /\ Front(packets[t]) \in Seq(Nat \ {0})
      BY <1>0, <2>2, BackType
    <3> QED BY <1>0, <1>6, <3>1 DEF TakePacket
  <2> QED BY <1>0, <1>6, <2>1, <2>3 DEF TypeOK, TakePacket
<1>7. ASSUME NEW t \in Threads, SendPacket(t) PROVE TypeOK'
  <2>1. pc' \in [Threads -> Points] /\ pc[t] = "send"
    BY <1>0, <1>1, <1>7, GotoType DEF SendPacket
  <2>2. codec' \in [Threads -> Contexts]
    <3>1. PICK p \in Sendable(t) :
            codec' = [codec EXCEPT ![t] = avcodec_send_packet(@, p).codec]
      BY <1>7 DEF SendPacket
    <3>2. avcodec_send_packet(codec[t], p).codec \in Contexts
      <4>1. CodecInv(avcodec_send_packet(codec[t], p).codec)
        BY <2>1, SendStep
      <4> QED BY <4>1 DEF CodecInv
    <3> QED BY <1>0, <3>1, <3>2
  <2>3. sent' \in [Threads -> Nat] /\ packet' \in [Threads -> Nat]
    BY <1>0, <1>7 DEF SendPacket
  <2> QED BY <1>0, <1>7, <2>1, <2>2, <2>3 DEF TypeOK, SendPacket
<1>8. CASE Destroy
  <2>1. outputEnded' \in [Threads -> BOOLEAN]
    BY <1>8 DEF Destroy, SetEnded
  <2> QED BY <1>0, <1>8, <2>1 DEF TypeOK, Destroy
<1>9. CASE UNCHANGED vars
  BY <1>0, <1>9 DEF TypeOK, vars
<1> QED
  BY <1>2, <1>3, <1>4, <1>5, <1>6, <1>7, <1>8, <1>9 DEF Next, Fetch, Receive, Threads

\* Where a step leads the thread that takes it.
LEMMA Moves ==
  ASSUME Inv, NEW t \in Threads
  PROVE  /\ TestEnded(t) => pc[t] = "test" /\ pc'[t] \in {"stopped", "receive"}
         /\ ReceiveFrame(t) => pc[t] = "receive" /\ pc'[t] \in {"test", "idle"}
         /\ ReceiveEnd(t) => pc[t] = "receive" /\ pc'[t] \in {"error", "eof"}
         /\ ReceiveAgain(t) => pc[t] = "receive" /\ pc'[t] = "lock"
         /\ LockPackets(t) => pc[t] = "lock" /\ pc'[t] = "empty"
         /\ TestEmpty(t) => pc[t] = "empty" /\ pc'[t] = IF packets[t] = <<>> THEN "read" ELSE "take"
         /\ ReadPacket(t) \/ ReadPacketFails(t) => pc[t] = "read" /\ pc'[t] = "unlock"
         /\ TakePacket(t) => pc[t] = "take" /\ pc'[t] = "unlock"
         /\ UnlockPackets(t) => pc[t] = "unlock" /\ pc'[t] = IF FetchesMore(t) THEN "lock" ELSE "send"
         /\ SendPacket(t) => pc[t] = "send" /\ pc'[t] = "test"
         /\ CallAudio => pc["audio"] = "idle" /\ pc'["audio"] = "test"
<1>1. pc \in [Threads -> Points] /\ "audio" \in Threads
  BY DEF Inv, TypeOK, Threads
<1>2. ASSUME NEW u \in Threads, NEW from, NEW to, Goto(u, from, to)
      PROVE  pc[u] = from /\ pc'[u] = to
  BY <1>1, <1>2 DEF Goto
<1>3. ReceiveEnd(t) => pc[t] = "receive" /\ pc'[t] \in {"error", "eof"}
  BY <1>2 DEF ReceiveEnd
<1>4. TestEnded(t) => pc[t] = "test" /\ pc'[t] \in {"stopped", "receive"}
  BY <1>2 DEF TestEnded
<1>5. ReceiveFrame(t) => pc[t] = "receive" /\ pc'[t] \in {"test", "idle"}
  BY <1>2 DEF ReceiveFrame
<1>6. ReceiveAgain(t) => pc[t] = "receive" /\ pc'[t] = "lock"
  BY <1>2 DEF ReceiveAgain
<1>7. LockPackets(t) => pc[t] = "lock" /\ pc'[t] = "empty"
  BY <1>2 DEF LockPackets
<1>8. TestEmpty(t) => pc[t] = "empty" /\ pc'[t] = IF packets[t] = <<>> THEN "read" ELSE "take"
  BY <1>2 DEF TestEmpty
<1>9. ReadPacket(t) \/ ReadPacketFails(t) => pc[t] = "read" /\ pc'[t] = "unlock"
  BY <1>2 DEF ReadPacket, ReadPacketFails
<1>10. TakePacket(t) => pc[t] = "take" /\ pc'[t] = "unlock"
  BY <1>2 DEF TakePacket
<1>11. UnlockPackets(t) => pc[t] = "unlock" /\ pc'[t] = IF FetchesMore(t) THEN "lock" ELSE "send"
  BY <1>2 DEF UnlockPackets
<1>12. SendPacket(t) => pc[t] = "send" /\ pc'[t] = "test"
  BY <1>2 DEF SendPacket
<1>13. CallAudio => pc["audio"] = "idle" /\ pc'["audio"] = "test"
  BY <1>1, <1>2 DEF CallAudio
<1> QED BY <1>3, <1>4, <1>5, <1>6, <1>7, <1>8, <1>9, <1>10, <1>11, <1>12, <1>13

\* A step of one thread leaves the other where it is.
Step(t) ==
  \/ TestEnded(t) \/ ReceiveFrame(t) \/ ReceiveEnd(t) \/ ReceiveAgain(t)
  \/ LockPackets(t) \/ TestEmpty(t) \/ ReadPacket(t) \/ ReadPacketFails(t)
  \/ TakePacket(t) \/ UnlockPackets(t) \/ SendPacket(t)
  \/ t = "audio" /\ CallAudio

LEMMA OthersStay ==
  ASSUME Inv, NEW t \in Threads, Step(t), NEW u \in Threads, u # t
  PROVE  pc'[u] = pc[u] /\ packet'[u] = packet[u] /\ check'[u] = check[u]
         /\ codec'[u] = codec[u] /\ sent'[u] = sent[u]
<1>1. /\ pc \in [Threads -> Points] /\ packet \in [Threads -> Nat]
      /\ check \in [Threads -> BOOLEAN] /\ codec \in [Threads -> Contexts]
      /\ sent \in [Threads -> Nat]
  BY DEF Inv, TypeOK
<1>2. pc'[u] = pc[u]
  BY <1>1 DEF Step, Goto, TestEnded, ReceiveFrame, ReceiveEnd, ReceiveAgain, LockPackets,
    TestEmpty, ReadPacket, ReadPacketFails, TakePacket, UnlockPackets, SendPacket, CallAudio
<1>3. packet'[u] = packet[u] /\ check'[u] = check[u] /\ sent'[u] = sent[u]
  BY <1>1 DEF Step, TestEnded, ReceiveFrame, ReceiveEnd, ReceiveAgain, LockPackets,
    TestEmpty, ReadPacket, ReadPacketFails, TakePacket, UnlockPackets, SendPacket, CallAudio
<1>4. codec'[u] = codec[u]
  BY <1>1 DEF Step, TestEnded, ReceiveFrame, ReceiveEnd, ReceiveAgain, LockPackets, Receives,
    TestEmpty, ReadPacket, ReadPacketFails, TakePacket, UnlockPackets, SendPacket, CallAudio
<1> QED BY <1>2, <1>3, <1>4

\* Every step is one of a thread, of the destructor or a stutter.
LEMMA NextCases ==
  ASSUME [Next]_vars
  PROVE  (\E t \in Threads : Step(t)) \/ Destroy \/ UNCHANGED vars
<1>1. "audio" \in Threads
  BY DEF Threads
<1> QED BY <1>1 DEF Next, Step, Fetch, Receive

\* The steps keep what the lock protects.
LEMMA LockStep == Inv /\ [Next]_vars => LockInv'
<1> SUFFICES ASSUME Inv, [Next]_vars PROVE LockInv'
  OBVIOUS
<1> DEFINE Holds(t) == pc[t] \in {"empty", "read", "take", "unlock"}
           Here(t) == /\ Holds(t) <=> packetMutex = t
                      /\ pc[t] = "read" => packets[t] = <<>>
                      /\ pc[t] = "take" => packets[t] # <<>>
                      /\ pc[t] \notin {"unlock", "send"} => packet[t] = NULL
                      /\ pc[t] \in {"lock", "empty", "read", "take"} => check[t]
                      /\ pc[t] = "unlock" /\ packet[t] = NULL /\ ~check[t] => packets[t] = <<>>
<1>1. \A t \in Threads : Here(t)
  BY DEF Inv, LockInv
<1>2. /\ packets \in [Threads -> Seq(Nat \ {0})] /\ packet \in [Threads -> Nat]
      /\ check \in [Threads -> BOOLEAN] /\ "free" \notin Threads
  BY DEF Inv, TypeOK, Threads
<1>3. ASSUME NEW t \in Threads, Step(t), NEW u \in Threads, u # t
      PROVE  Here(u)'
  <2>1. pc'[u] = pc[u] /\ packet'[u] = packet[u] /\ check'[u] = check[u]
    BY <1>3, OthersStay
  <2>2. packetMutex' = u <=> packetMutex = u
    <3>1. LockPackets(t) => packetMutex = "free" /\ packetMutex' = t
      BY DEF LockPackets
    <3>2. UnlockPackets(t) => packetMutex = t /\ packetMutex' = "free"
      BY <1>1, Moves DEF UnlockPackets
    <3>3. LockPackets(t) \/ UnlockPackets(t) \/ UNCHANGED packetMutex
      BY <1>3 DEF Step, TestEnded, ReceiveFrame, ReceiveEnd, ReceiveAgain, TestEmpty,
        ReadPacket, ReadPacketFails, TakePacket, SendPacket, CallAudio
    <3> QED BY <1>2, <1>3, <3>1, <3>2, <3>3
  <2>3. pc[u] \in {"read", "take", "unlock"} => packets'[u] = packets[u]
    <3>1. ReadPacket(t) => packetMutex = t
      BY <1>1, Moves
    <3>2. TakePacket(t) => packets'[u] = packets[u]
      BY <1>2, <1>3 DEF TakePacket
    <3>3. ReadPacket(t) \/ TakePacket(t) \/ UNCHANGED packets
      BY <1>3 DEF Step, TestEnded, ReceiveFrame, ReceiveEnd, ReceiveAgain, TestEmpty,
        LockPackets, UnlockPackets, ReadPacketFails, SendPacket, CallAudio
    <3>4. pc[u] \in {"read", "take", "unlock"} => packetMutex = u
      BY <1>1
    <3> QED BY <1>3, <3>1, <3>2, <3>3, <3>4
  <2> QED BY <1>1, <2>1, <2>2, <2>3
<1>4. ASSUME NEW t \in Threads, Step(t)
      PROVE  Here(t)'
  <2>1. Here(t)
    BY <1>1
  <2>2. CASE TestEnded(t) \/ ReceiveFrame(t) \/ ReceiveEnd(t)
    <3>1. UNCHANGED <<packetMutex, packets, packet, check>>
      BY <2>2 DEF TestEnded, ReceiveFrame, ReceiveEnd
    <3>2. pc[t] \in {"test", "receive"}
          /\ pc'[t] \in {"stopped", "receive", "test", "idle", "error", "eof"}
      BY <2>2, Moves
    <3> QED BY <2>1, <3>1, <3>2
  <2>3. CASE ReceiveAgain(t)
    <3>1. UNCHANGED <<packetMutex, packets>> /\ packet'[t] = NULL /\ check'[t]
      BY <1>2, <2>3 DEF ReceiveAgain
    <3>2. pc[t] = "receive" /\ pc'[t] = "lock"
      BY <2>3, Moves
    <3> QED BY <2>1, <3>1, <3>2
  <2>4. CASE LockPackets(t)
    <3>1. UNCHANGED <<packet, check>> /\ packetMutex' = t
      BY <2>4 DEF LockPackets
    <3>2. pc[t] = "lock" /\ pc'[t] = "empty"
      BY <2>4, Moves
    <3> QED BY <2>1, <3>1, <3>2
  <2>5. CASE TestEmpty(t)
    <3>1. UNCHANGED <<packetMutex, packets, packet, check>>
      BY <2>5 DEF TestEmpty
    <3>2. pc[t] = "empty" /\ pc'[t] = IF packets[t] = <<>> THEN "read" ELSE "take"
      BY <2>5, Moves
    <3> QED BY <2>1, <3>1, <3>2
  <2>6. CASE ReadPacket(t) \/ ReadPacketFails(t) \/ TakePacket(t)
    <3>1. UNCHANGED packetMutex
      BY <2>6 DEF ReadPacket, ReadPacketFails, TakePacket
    <3>2. pc[t] \in {"read", "take"} /\ pc'[t] = "unlock"
      BY <2>6, Moves
    <3>3. packet'[t] = NULL /\ ~check'[t] => packets'[t] = <<>>
      <4>1. CASE ReadPacket(t)
        BY <2>1, <3>2, <4>1 DEF ReadPacket
      <4>2. CASE ReadPacketFails(t)
        BY <2>1, <4>2, Moves DEF ReadPacketFails
      <4>3. CASE TakePacket(t)
        <5>1. packets[t] # <<>> /\ packets[t] \in Seq(Nat \ {0})
          BY <1>2, <2>1, <4>3, Moves
        <5>2. Last(packets[t]) \in Nat \ {0}
          BY <5>1, BackType
        <5>3. packet'[t] = Last(packets[t])
          BY <1>2, <4>3 DEF TakePacket
        <5> QED BY <5>2, <5>3 DEF NULL
      <4> QED BY <2>6, <4>1, <4>2, <4>3
    <3> QED BY <2>1, <3>1, <3>2, <3>3
  <2>7. CASE UnlockPackets(t)
    <3>1. UNCHANGED <<packets, packet, check>> /\ packetMutex' = "free"
      BY <2>7 DEF UnlockPackets
    <3>2. pc[t] = "unlock" /\ pc'[t] = IF FetchesMore(t) THEN "lock" ELSE "send"
      BY <2>7, Moves
    <3> QED BY <1>2, <2>1, <3>1, <3>2 DEF FetchesMore
  <2>8. CASE SendPacket(t)
    <3>1. UNCHANGED packetMutex /\ packet'[t] = NULL
      BY <1>2, <2>8 DEF SendPacket
    <3>2. pc[t] = "send" /\ pc'[t] = "test"
      BY <2>8, Moves
    <3> QED BY <2>1, <3>1, <3>2
  <2>9. CASE t = "audio" /\ CallAudio
    <3>1. UNCHANGED <<packetMutex, packets, packet, check>>
      BY <2>9 DEF CallAudio
    <3>2. pc[t] = "idle" /\ pc'[t] = "test"
      BY <2>9, Moves
    <3> QED BY <2>1, <3>1, <3>2
  <2> QED BY <1>4, <2>2, <2>3, <2>4, <2>5, <2>6, <2>7, <2>8, <2>9 DEF Step
<1>5. CASE Destroy \/ UNCHANGED vars
  <2>1. UNCHANGED <<pc, packetMutex, packets, packet, check>>
    BY <1>5 DEF Destroy, vars
  <2> QED BY <1>1, <2>1 DEF LockInv
<1>6. CASE \E t \in Threads : Step(t)
  BY <1>3, <1>4, <1>6 DEF LockInv
<1> QED BY <1>5, <1>6, NextCases

\* A read that fails leaves the container where it is.
LEMMA FailsWhere ==
  ASSUME container \in [position : 0 .. Packets, read : [Threads -> Nat], failed : SUBSET Threads],
         NEW t \in Threads, ReadPacketFails(t)
  PROVE  /\ container'.position = container.position /\ container'.read = container.read
         /\ container'.failed \in {container.failed, container.failed \cup {t}}
<1>1. container' = [container EXCEPT !.failed = @ \cup {t}] \/ container' = container
  BY DEF ReadPacketFails
<1> QED BY <1>1

\* Whoever is at the end stays there, also when the other thread reads on.
LEMMA EndStays ==
  ASSUME Inv, NEW t \in Threads, Step(t), NEW u \in Threads, AtEnd(u)
  PROVE  AtEnd(u)'
<1>1. /\ packets \in [Threads -> Seq(Nat \ {0})]
      /\ container \in [position : 0 .. Packets, read : [Threads -> Nat], failed : SUBSET Threads]
  BY DEF Inv, TypeOK
<1>2. CASE ReadPacketFails(t)
  <2>1. container'.position = container.position /\ container.failed \subseteq container'.failed
    BY <1>1, <1>2, FailsWhere
  <2>2. packets' = packets
    BY <1>2 DEF ReadPacketFails
  <2> QED BY <2>1, <2>2 DEF AtEnd
<1>3. CASE ReadPacket(t)
  <2>1. container'.failed = container.failed
    BY <1>1, <1>3 DEF ReadPacket
  <2>2. container.position \in 0 .. Packets /\ container.position < Packets
    BY <1>1, <1>3 DEF ReadPacket
  <2>3. container.position # Packets
    BY <2>2, PacketsAssumption
  <2> QED BY <2>1, <2>3 DEF AtEnd
<1>4. CASE TakePacket(t)
  <2>1. packets[t] # <<>> /\ container' = container
    BY <1>4, Moves DEF Inv, LockInv, TakePacket
  <2>2. u # t => packets'[u] = packets[u]
    BY <1>1, <1>4 DEF TakePacket
  <2> QED BY <2>1, <2>2 DEF AtEnd
<1>5. CASE UNCHANGED <<packets, container>>
  BY <1>5 DEF AtEnd
<1> QED
  BY <1>2, <1>3, <1>4, <1>5 DEF Step, TestEnded, ReceiveFrame, ReceiveEnd, ReceiveAgain,
    TestEmpty, LockPackets, UnlockPackets, SendPacket, CallAudio

\* The steps keep what is known of the end.
LEMMA EndStep == Inv /\ [Next]_vars => EndInv'
<1> SUFFICES ASSUME Inv, [Next]_vars PROVE EndInv'
  OBVIOUS
<1> DEFINE Here(t) == /\ pc[t] \in {"unlock", "send"} /\ packet[t] = NULL /\ ~check[t] => AtEnd(t)
                      /\ pc[t] = "send" => packet[t] # NULL \/ ~check[t]
                      /\ codec[t].eof => AtEnd(t)
<1>1. \A t \in Threads : Here(t)
  BY DEF Inv, EndInv
<1>2. /\ packets \in [Threads -> Seq(Nat \ {0})] /\ packet \in [Threads -> Nat]
      /\ check \in [Threads -> BOOLEAN] /\ codec \in [Threads -> Contexts]
      /\ container \in [position : 0 .. Packets, read : [Threads -> Nat], failed : SUBSET Threads]
  BY DEF Inv, TypeOK
<1>3. ASSUME NEW t \in Threads, Step(t), NEW u \in Threads, u # t
      PROVE  Here(u)'
  BY <1>1, <1>3, OthersStay, EndStays
<1>4. ASSUME NEW t \in Threads, Step(t)
      PROVE  Here(t)'
  <2>1. /\ Here(t)
        /\ pc[t] \in {"read", "take"} => check[t] /\ packet[t] = NULL
        /\ pc[t] = "read" => packets[t] = <<>>
        /\ pc[t] = "take" => packets[t] # <<>>
        /\ pc[t] \in {"lock", "empty", "read", "take", "unlock", "send"} => ~codec[t].eof
    BY <1>1 DEF Inv, LockInv, CodecsInv
  <2>2. CASE ReceiveFrame(t) \/ ReceiveEnd(t) \/ ReceiveAgain(t)
    <3>1. UNCHANGED <<packets, container>>
      BY <2>2 DEF ReceiveFrame, ReceiveEnd, ReceiveAgain
    <3>2. pc'[t] \in {"test", "idle", "error", "eof", "lock"}
      BY <2>2, Moves
    <3>3. codec'[t].eof = codec[t].eof
      BY <1>2, <2>2, CodecStep
    <3> QED BY <2>1, <3>1, <3>2, <3>3 DEF AtEnd
  <2>3. CASE TestEnded(t) \/ LockPackets(t) \/ TestEmpty(t) \/ (t = "audio" /\ CallAudio)
    <3>1. UNCHANGED <<packets, container, codec>>
      BY <2>3 DEF TestEnded, LockPackets, TestEmpty, CallAudio
    <3>2. pc'[t] \in {"stopped", "receive", "empty", "read", "take", "test"}
      BY <2>3, Moves
    <3> QED BY <2>1, <3>1, <3>2 DEF AtEnd
  <2>4. CASE ReadPacket(t)
    <3>1. UNCHANGED <<check, codec>> /\ pc[t] = "read" /\ pc'[t] = "unlock"
      BY <2>4, Moves DEF ReadPacket
    <3> QED BY <2>1, <3>1
  <2>5. CASE ReadPacketFails(t)
    <3>1. UNCHANGED <<packets, codec>>
      BY <2>5 DEF ReadPacketFails
    <3>2. pc[t] = "read" /\ pc'[t] = "unlock"
      BY <2>5, Moves
    <3>3. AtEnd(t)'
      <4>1. CASE container.position < Packets
        <5>1. container' = [container EXCEPT !.failed = @ \cup {t}]
          BY <2>5, <4>1 DEF ReadPacketFails
        <5>2. t \in container'.failed
          BY <1>2, <5>1
        <5> QED BY <5>2 DEF AtEnd
      <4>2. CASE ~(container.position < Packets)
        <5>1. container' = container
          BY <2>5, <4>2 DEF ReadPacketFails
        <5>2. container.position \in 0 .. Packets
          BY <1>2
        <5>3. container.position = Packets
          BY <4>2, <5>2, PacketsAssumption
        <5> QED BY <2>1, <3>1, <3>2, <5>1, <5>3 DEF AtEnd
      <4> QED BY <4>1, <4>2
    <3> QED BY <2>1, <3>1, <3>2, <3>3
  <2>6. CASE TakePacket(t)
    <3>1. UNCHANGED codec /\ pc[t] = "take" /\ pc'[t] = "unlock"
      BY <2>6, Moves DEF TakePacket
    <3>2. packet'[t] \in Nat \ {0}
      <4>1. Last(packets[t]) \in Nat \ {0}
        BY <1>2, <2>1, <3>1, BackType
      <4> QED BY <1>2, <2>6, <4>1 DEF TakePacket
    <3> QED BY <2>1, <3>1, <3>2 DEF NULL
  <2>7. CASE UnlockPackets(t)
    <3>1. UNCHANGED <<packets, packet, check, container, codec>>
      BY <2>7 DEF UnlockPackets
    <3>2. pc[t] = "unlock" /\ pc'[t] = IF FetchesMore(t) THEN "lock" ELSE "send"
      BY <2>7, Moves
    <3> QED BY <2>1, <3>1, <3>2 DEF FetchesMore, AtEnd
  <2>8. CASE SendPacket(t)
    <3>1. UNCHANGED <<packets, check, container>>
      BY <2>8 DEF SendPacket
    <3>2. pc[t] = "send" /\ pc'[t] = "test"
      BY <2>8, Moves
    <3>3. PICK p \in Sendable(t) :
            codec' = [codec EXCEPT ![t] = avcodec_send_packet(codec[t], p).codec]
      BY <2>8 DEF SendPacket
    <3>4. codec'[t].eof <=> packet[t] = NULL
      BY <1>2, <3>2, <3>3, SendStep
    <3> QED BY <2>1, <3>1, <3>2, <3>4 DEF AtEnd
  <2> QED BY <1>4, <2>2, <2>3, <2>4, <2>5, <2>6, <2>7, <2>8 DEF Step
<1>5. CASE Destroy \/ UNCHANGED vars
  <2>1. UNCHANGED <<pc, packets, packet, check, container, codec>>
    BY <1>5 DEF Destroy, vars
  <2> QED BY <1>1, <2>1 DEF EndInv, AtEnd
<1>6. CASE \E t \in Threads : Step(t)
  BY <1>3, <1>4, <1>6 DEF EndInv
<1> QED BY <1>5, <1>6, NextCases

\* The steps keep what is known of the codecs.
LEMMA CodecsStep == Inv /\ [Next]_vars => CodecsInv'
<1> SUFFICES ASSUME Inv, [Next]_vars PROVE CodecsInv'
  OBVIOUS
<1> DEFINE Fetching == {"lock", "empty", "read", "take", "unlock", "send"}
           Here(t) == /\ CodecInv(codec[t])
                      /\ pc[t] \in Fetching => codec[t].buffer_pkt = <<>> /\ ~codec[t].eof
                      /\ pc[t] = "eof" => codec[t].eof /\ FramesLeft(codec[t]) = 0
<1>1. \A t \in Threads : Here(t)
  BY DEF Inv, CodecsInv
<1>2. codec \in [Threads -> Contexts]
  BY DEF Inv, TypeOK
<1>3. ASSUME NEW t \in Threads, Step(t), NEW u \in Threads, u # t
      PROVE  Here(u)'
  <2>1. codec'[u] = codec[u] /\ pc'[u] = pc[u]
    BY <1>3, OthersStay
  <2> QED BY <1>1, <2>1
<1>4. ASSUME NEW t \in Threads, Step(t)
      PROVE  Here(t)'
  <2>1. CASE ReceiveFrame(t) \/ ReceiveEnd(t) \/ ReceiveAgain(t)
    <3>1. PICK c : /\ codec' = [codec EXCEPT ![t] = c] /\ CodecInv(c)
                   /\ ReceiveAgain(t) => c.buffer_pkt = <<>> /\ ~c.eof
                   /\ pc'[t] = "eof" => c.eof /\ FramesLeft(c) = 0
      BY <2>1, CodecStep
    <3>2. codec'[t] = c
      BY <1>2, <3>1
    <3>3. pc'[t] \in Fetching => ReceiveAgain(t)
      BY <2>1, Moves
    <3> QED BY <3>1, <3>2, <3>3
  <2>2. CASE SendPacket(t)
    <3>1. pc[t] = "send" /\ pc'[t] = "test"
      BY <2>2, Moves
    <3>2. PICK p \in Sendable(t) :
            codec' = [codec EXCEPT ![t] = avcodec_send_packet(codec[t], p).codec]
      BY <2>2 DEF SendPacket
    <3>3. CodecInv(codec'[t])
      BY <1>2, <3>1, <3>2, SendStep
    <3> QED BY <3>1, <3>3
  <2>3. CASE \/ TestEnded(t) \/ LockPackets(t) \/ TestEmpty(t) \/ ReadPacket(t)
             \/ ReadPacketFails(t) \/ TakePacket(t) \/ UnlockPackets(t)
             \/ t = "audio" /\ CallAudio
    <3>1. UNCHANGED codec
      BY <2>3 DEF TestEnded, LockPackets, TestEmpty, ReadPacket, ReadPacketFails, TakePacket,
        UnlockPackets, CallAudio
    <3>2. pc'[t] # "eof" /\ (pc'[t] \in Fetching => pc[t] \in Fetching)
      BY <2>3, Moves
    <3> QED BY <1>1, <3>1, <3>2
  <2> QED BY <1>4, <2>1, <2>2, <2>3 DEF Step
<1>5. CASE Destroy \/ UNCHANGED vars
  <2>1. UNCHANGED <<pc, codec>>
    BY <1>5 DEF Destroy, vars
  <2> QED BY <1>1, <2>1 DEF CodecsInv
<1>6. CASE \E t \in Threads : Step(t)
  BY <1>3, <1>4, <1>6 DEF CodecsInv
<1> QED BY <1>5, <1>6, NextCases

\* A list is the one of PacketsInOrder when its elements are, and it stays so
\* when the next packet is put at its front or the last is taken from its back.
Descends(s, n) == s = [i \in 1 .. Len(s) |-> n + 1 - i]

LEMMA ListOf ==
  ASSUME NEW s \in Seq(Nat \ {0}), NEW n \in Nat
  PROVE  Descends(s, n) <=> \A i \in 1 .. Len(s) : s[i] = n + 1 - i
BY DEF Descends

LEMMA ConsListOf ==
  ASSUME NEW s \in Seq(Nat \ {0}), NEW n \in Nat, Descends(s, n),
         NEW c, c = Cons(n + 1, s)
  PROVE  Descends(c, n + 1) /\ Len(c) = Len(s) + 1
<1>1. n + 1 \in Nat \ {0} /\ n + 1 \in Nat /\ Len(s) \in Nat
  OBVIOUS
<1>2. /\ c \in Seq(Nat \ {0}) /\ Len(c) = Len(s) + 1 /\ c[1] = n + 1
      /\ \A i \in 1 .. Len(s) : c[i + 1] = s[i]
  <2>1. PICK e \in Nat \ {0} : e = n + 1
    BY <1>1
  <2>2. /\ Cons(e, s) \in Seq(Nat \ {0}) /\ Len(Cons(e, s)) = Len(s) + 1 /\ Cons(e, s)[1] = e
        /\ \A i \in 1 .. Len(s) : Cons(e, s)[i + 1] = s[i]
    <3> DEFINE P == Nat \ {0}
    <3>1. e \in P /\ s \in Seq(P)
      OBVIOUS
    <3>2. /\ Cons(e, s) \in Seq(P) /\ Len(Cons(e, s)) = Len(s) + 1 /\ Cons(e, s)[1] = e
          /\ \A i \in 1 .. Len(s) : Cons(e, s)[i + 1] = s[i]
      <4> HIDE DEF P
      <4> QED BY <3>1, ConsType
    <3> QED BY <3>2
  <2>3. c = Cons(e, s)
    BY <2>1
  <2> QED BY <2>1, <2>2, <2>3
<1>3. \A i \in 1 .. Len(s) : s[i] = n + 1 - i
  BY ListOf
<1>4. \A i \in 1 .. Len(c) : c[i] = (n + 1) + 1 - i
  <2> TAKE i \in 1 .. Len(c)
  <2>1. CASE i = 1
    BY <1>2, <2>1
  <2>2. CASE i # 1
    <3>1. i - 1 \in 1 .. Len(s) /\ (i - 1) + 1 = i
      BY <1>1, <1>2, <2>2
    <3>2. c[i] = s[i - 1]
      BY <1>2, <3>1
    <3>3. s[i - 1] = n + 1 - (i - 1)
      BY <1>3, <3>1
    <3> QED BY <3>2, <3>3
  <2> QED BY <2>1, <2>2
<1>5. Descends(c, n + 1)
  BY <1>1, <1>2, <1>4, ListOf
<1> QED BY <1>2, <1>5

LEMMA FrontListOf ==
  ASSUME NEW s \in Seq(Nat \ {0}), s # <<>>, NEW n \in Nat,
         Descends(s, n), NEW f, f = Front(s)
  PROVE  /\ Descends(f, n)
         /\ Len(f) + 1 = Len(s) /\ Len(f) \in Nat /\ Last(s) = n - Len(f)
<1>1. Len(s) \in Nat \ {0}
  OBVIOUS
<1>2. /\ f \in Seq(Nat \ {0}) /\ Len(f) = Len(s) - 1 /\ \A i \in 1 .. Len(s) - 1 : f[i] = s[i]
  BY BackType
<1>3. \A i \in 1 .. Len(s) : s[i] = n + 1 - i
  BY ListOf
<1>4. \A i \in 1 .. Len(f) : f[i] = n + 1 - i
  BY <1>1, <1>2, <1>3
<1>5. Descends(f, n)
  BY <1>2, <1>4, ListOf
<1>6. Len(s) \in 1 .. Len(s)
  BY <1>1
<1>7. s[Len(s)] = n + 1 - Len(s)
  BY <1>3, <1>6
<1> QED BY <1>1, <1>2, <1>5, <1>7 DEF Last

\* What is read goes behind the packets before it, and what is taken is the next
\* to be sent.
LEMMA OrderStep == Inv /\ [Next]_vars => PacketsInOrder'
<1> SUFFICES ASSUME Inv, [Next]_vars PROVE PacketsInOrder'
  OBVIOUS
<1> DEFINE Hand(t) == IF packet[t] = NULL THEN 0 ELSE 1
           Here(t) == /\ Descends(packets[t], container.read[t])
                      /\ sent[t] + Hand(t) + Len(packets[t]) = container.read[t]
                      /\ packet[t] # NULL => packet[t] = sent[t] + 1
<1>1. \A t \in Threads : Here(t)
  BY DEF Inv, PacketsInOrder, Descends
<1>2. /\ packets \in [Threads -> Seq(Nat \ {0})] /\ packet \in [Threads -> Nat]
      /\ container \in [position : 0 .. Packets, read : [Threads -> Nat], failed : SUBSET Threads]
      /\ sent \in [Threads -> Nat] /\ pc \in [Threads -> Points]
  BY DEF Inv, TypeOK
<1>3. ASSUME NEW t \in Threads, ReadPacket(t), NEW u \in Threads
      PROVE  Here(u)'
  <2>1. UNCHANGED <<packet, sent>>
    BY <1>3 DEF ReadPacket
  <2>2. CASE packets'[u] = packets[u] /\ container'.read[u] = container.read[u]
    BY <1>1, <2>1, <2>2
  <2>3. ASSUME packets'[u] = Cons(container.read[u] + 1, packets[u]),
               container'.read[u] = container.read[u] + 1
        PROVE  Here(u)'
    <3>1. /\ container.read[u] \in Nat /\ packets[u] \in Seq(Nat \ {0})
          /\ Len(packets[u]) \in Nat /\ sent[u] \in Nat
      BY <1>2
    <3>2. Descends(packets[u], container.read[u])
      BY <1>1
    <3>3. /\ Descends(packets'[u], container.read[u] + 1)
          /\ Len(packets'[u]) = Len(packets[u]) + 1
      BY <2>3, <3>1, <3>2, ConsListOf
    <3>4. sent[u] + Hand(u) + Len(packets[u]) = container.read[u]
      BY <1>1
    <3>5. Hand(u) \in Nat /\ Hand(u)' = Hand(u)
      BY <2>1
    <3>6. sent[u] + Hand(u) + (Len(packets[u]) + 1) = container.read[u] + 1
      <4>1. PICK k \in Nat, h \in Nat, l \in Nat :
                    k = sent[u] /\ h = Hand(u) /\ l = Len(packets[u])
        BY <3>1, <3>5
      <4> HIDE DEF Hand
      <4>2. k + h + l = container.read[u]
        BY <3>4, <4>1
      <4>3. k + h + (l + 1) = container.read[u] + 1
        BY <4>2
      <4> QED BY <4>1, <4>3
    <3>7. packet[u] # NULL => packet[u] = sent[u] + 1
      BY <1>1
    <3> QED BY <2>1, <2>3, <3>3, <3>5, <3>6, <3>7
  <2>4. \/ packets'[u] = packets[u] /\ container'.read[u] = container.read[u]
        \/ /\ packets'[u] = Cons(container.read[u] + 1, packets[u])
           /\ container'.read[u] = container.read[u] + 1
    <3>1. CASE container' = [container EXCEPT !.position = @ + 1] /\ UNCHANGED packets
      BY <1>2, <3>1
    <3>2. CASE \E s \in Threads :
                 /\ packets' = [packets EXCEPT ![s] = Cons(container.read[s] + 1, @)]
                 /\ container' = [container EXCEPT !.position = @ + 1, !.read[s] = @ + 1]
      <4>1. PICK s \in Threads :
                 /\ packets' = [packets EXCEPT ![s] = Cons(container.read[s] + 1, @)]
                 /\ container' = [container EXCEPT !.position = @ + 1, !.read[s] = @ + 1]
        BY <3>2
      <4>2. container'.read = [container.read EXCEPT ![s] = @ + 1]
        BY <1>2, <4>1
      <4> QED BY <1>2, <4>1, <4>2
    <3> QED BY <1>3, <3>1, <3>2 DEF ReadPacket
  <2> QED BY <2>2, <2>3, <2>4
<1>4. ASSUME NEW t \in Threads, TakePacket(t)
      PROVE  Here(t)'
  <2>1. packets[t] # <<>> /\ packet[t] = NULL
    BY <1>4, Moves DEF Inv, LockInv
  <2>2. /\ container.read[t] \in Nat /\ packets[t] \in Seq(Nat \ {0})
        /\ Len(packets[t]) \in Nat /\ sent[t] \in Nat
    BY <1>2
  <2>3. Descends(packets[t], container.read[t])
    BY <1>1
  <2>4. sent[t] + Hand(t) + Len(packets[t]) = container.read[t] /\ Hand(t) = 0
    BY <1>1, <2>1
  <2>5. packets'[t] = Front(packets[t]) /\ packet'[t] = Last(packets[t])
    BY <1>2, <1>4 DEF TakePacket
  <2>6. UNCHANGED <<container, sent>>
    BY <1>4 DEF TakePacket
  <2>7. PICK s \in Seq(Nat \ {0}), n \in Nat : s = packets[t] /\ n = container.read[t]
    BY <2>2
  <2>8. s # <<>> /\ Descends(s, n)
    BY <2>1, <2>3, <2>7
  <2>9. PICK f : f = Front(s)
    OBVIOUS
  <2>10. /\ Descends(f, n)
         /\ Len(f) + 1 = Len(s) /\ Len(f) \in Nat /\ Last(s) = n - Len(f)
    BY <2>8, <2>9, FrontListOf
  <2>11. PICK k \in Nat, l \in Nat : k = sent[t] /\ l = Len(f)
    BY <2>2, <2>10
  <2>12. k + l + 1 = n
    <3> HIDE DEF Hand
    <3>1. k + 0 + Len(s) = n /\ Len(s) = l + 1
      BY <2>4, <2>7, <2>10, <2>11
    <3> QED BY <3>1
  <2>13. n - l = k + 1 /\ k + 1 # 0 /\ k + 1 + l = n
    BY <2>12
  <2>14. packet'[t] = sent[t] + 1 /\ packet'[t] # NULL
    BY <2>5, <2>7, <2>10, <2>11, <2>13 DEF NULL
  <2>15. packets'[t] = f
    BY <2>5, <2>7, <2>9
  <2>16. sent[t] + 1 + Len(f) = n
    BY <2>11, <2>13
  <2> HIDE DEF Hand
  <2>17. Hand(t)' = 1
    BY <2>14 DEF Hand
  <2>18. /\ Descends(packets'[t], container'.read[t])
         /\ sent'[t] + 1 + Len(packets'[t]) = container'.read[t] /\ packet'[t] = sent'[t] + 1
    BY <2>6, <2>7, <2>10, <2>14, <2>15, <2>16
  <2> QED BY <2>17, <2>18
<1>5. ASSUME NEW t \in Threads, SendPacket(t)
      PROVE  Here(t)'
  <2>1. /\ UNCHANGED <<packets, container>> /\ packet'[t] = NULL
        /\ sent'[t] = IF packet[t] = NULL THEN sent[t] ELSE packet[t]
    BY <1>2, <1>5 DEF SendPacket
  <2>2. sent[t] \in Nat /\ Len(packets[t]) \in Nat
    BY <1>2
  <2>3. CASE packet[t] = NULL
    BY <1>1, <2>1, <2>3
  <2>4. CASE packet[t] # NULL
    BY <1>1, <2>1, <2>2, <2>4
  <2> QED BY <2>3, <2>4
<1>6. ASSUME NEW t \in Threads, ReceiveAgain(t)
      PROVE  Here(t)'
  <2>1. UNCHANGED <<packets, container, sent>> /\ packet'[t] = NULL
    BY <1>2, <1>6 DEF ReceiveAgain
  <2>2. packet[t] = NULL
    BY <1>6, Moves DEF Inv, LockInv
  <2> QED BY <1>1, <2>1, <2>2
<1>7. ASSUME NEW t \in Threads,
             \/ TestEnded(t) \/ LockPackets(t) \/ TestEmpty(t) \/ ReadPacketFails(t)
             \/ UnlockPackets(t) \/ ReceiveFrame(t) \/ ReceiveEnd(t)
             \/ t = "audio" /\ CallAudio
      PROVE  Here(t)'
  <2>1. UNCHANGED <<packets, packet, sent>>
    BY <1>7 DEF TestEnded, LockPackets, TestEmpty, ReadPacketFails, UnlockPackets,
      ReceiveFrame, ReceiveEnd, CallAudio
  <2>2. container'.read = container.read
    BY <1>2, <1>7 DEF TestEnded, LockPackets, TestEmpty, ReadPacketFails, UnlockPackets,
      ReceiveFrame, ReceiveEnd, CallAudio
  <2> QED BY <1>1, <2>1, <2>2
<1>8. ASSUME NEW t \in Threads, Step(t), ~ReadPacket(t), NEW u \in Threads, u # t
      PROVE  Here(u)'
  <2>1. packet'[u] = packet[u] /\ sent'[u] = sent[u]
    BY <1>8, OthersStay
  <2>2. packets'[u] = packets[u] /\ container'.read = container.read
    BY <1>2, <1>8 DEF Step, TestEnded, LockPackets, TestEmpty, ReadPacketFails, UnlockPackets,
      ReceiveFrame, ReceiveEnd, ReceiveAgain, TakePacket, SendPacket, CallAudio
  <2> QED BY <1>1, <2>1, <2>2
<1>9. CASE Destroy \/ UNCHANGED vars
  <2>1. UNCHANGED <<packets, packet, container, sent>>
    BY <1>9 DEF Destroy, vars
  <2> QED BY <1>1, <2>1 DEF PacketsInOrder, Descends
<1>10. CASE \E t \in Threads : Step(t)
  <2>1. PICK t \in Threads : Step(t)
    BY <1>10
  <2>2. \A u \in Threads : Here(u)'
    <3> TAKE u \in Threads
    <3> HIDE DEF Here
    <3>1. CASE ReadPacket(t)
      BY <1>3, <3>1
    <3>2. CASE ~ReadPacket(t) /\ u # t
      BY <1>8, <2>1, <3>2
    <3>3. CASE ~ReadPacket(t) /\ u = t
      <4>1. CASE TakePacket(t)
        BY <1>4, <3>3, <4>1
      <4>2. CASE SendPacket(t)
        BY <1>5, <3>3, <4>2
      <4>3. CASE ReceiveAgain(t)
        BY <1>6, <3>3, <4>3
      <4>4. CASE \/ TestEnded(t) \/ LockPackets(t) \/ TestEmpty(t) \/ ReadPacketFails(t)
                 \/ UnlockPackets(t) \/ ReceiveFrame(t) \/ ReceiveEnd(t)
                 \/ t = "audio" /\ CallAudio
        BY <1>7, <3>3, <4>4
      <4> QED BY <2>1, <3>3, <4>1, <4>2, <4>3, <4>4 DEF Step
    <3> QED BY <3>1, <3>2, <3>3
  <2> QED BY <2>2 DEF PacketsInOrder, Descends
<1> QED BY <1>9, <1>10, NextCases

-----------------------------------------------------------------------------
(* The theorems, about the decoder as a whole. *)

LEMMA Inductive == Inv /\ [Next]_vars => Inv'
BY TypeStep, LockStep, EndStep, CodecsStep, OrderStep DEF Inv

\* What the ring, the reader and the client add leaves the steps of the loops
\* what they are.
LEMMA WholeSteps == [WholeNext]_whole => [Next]_vars
<1> SUFFICES ASSUME [WholeNext]_whole PROVE [Next]_vars
  OBVIOUS
<1>1. "video" \in Threads /\ "audio" \in Threads
  BY DEF Threads
<1>2. CASE VideoFrame \/ VideoStep \/ AudioStep
  BY <1>1, <1>2 DEF VideoFrame, VideoStep, AudioStep, Next, Receive
<1>3. CASE \E t \in Threads : Lock(t)
  BY <1>3 DEF Lock, Next
<1>4. CASE UpdateAudioBuffer \/ Delete
  BY <1>4 DEF UpdateAudioBuffer, Delete, Next
<1>5. CASE Cleanup \/ NextVideoFrame \/ Finished \/ UNCHANGED whole
  BY <1>5 DEF Cleanup, NextVideoFrame, Finished, whole
<1>6. CASE FallAsleep \/ WakeUp
  BY <1>6 DEF FallAsleep, WakeUp
<1> QED BY <1>2, <1>3, <1>4, <1>5, <1>6 DEF WholeNext

LEMMA WholeInvariant == WholeSpec => []Inv
<1>1. WholeInit => Inv
  BY InvInit DEF WholeInit
<1>2. Inv /\ [WholeNext]_whole => Inv'
  BY Inductive, WholeSteps
<1> QED BY <1>1, <1>2, PTL DEF WholeSpec

\* The queues, the local variables of the loops and the codecs keep their types.
THEOREM TypeCorrect == WholeSpec => []TypeOK
<1>1. Inv => TypeOK
  BY DEF Inv
<1> QED BY <1>1, WholeInvariant, PTL

\* Whichever thread reads the container and whichever takes a packet, each codec
\* gets the packets of its stream in the container's order, each once
\* (VideoDecoder.cpp: readPacket and the two fetch loops).
THEOREM PacketsStayInOrder == WholeSpec => []PacketsInOrder
<1>1. Inv => PacketsInOrder
  BY DEF Inv
<1> QED BY <1>1, WholeInvariant, PTL

\* A codec that was sent the end of its stream misses nothing: whichever thread read
\* last, the container is at its end and no packet of the stream is queued, unless
\* the stream's own thread met an error, and whatever the container gives after one.
THEOREM NothingIsLeftBehind == WholeSpec => []NothingLeftBehind
<1>1. Inv => NothingLeftBehind
  BY DEF Inv, EndInv, AtEnd, NothingLeftBehind
<1> QED BY <1>1, WholeInvariant, PTL

\* packetMutex keeps the demultiplexer and the lists to one thread at a time.
THEOREM OnlyOneReads == WholeSpec => []ReadsAlone
<1>1. Inv => ReadsAlone
  BY DEF Inv, LockInv, ReadsAlone
<1> QED BY <1>1, WholeInvariant, PTL

\* The result of avcodec_send_packet, which nobody looks at, is never that the
\* packet was refused or the end announced before.
THEOREM SendsAreAccepted == WholeSpec => []SendsAccepted
<1>1. Inv => SendsAccepted
  <2> SUFFICES ASSUME Inv, NEW t \in Threads, pc[t] = "send", NEW p \in Sendable(t)
               PROVE  avcodec_send_packet(codec[t], p).ret \in {"ok", "error"}
    BY DEF SendsAccepted
  <2> QED BY SendStep
<1> QED BY <1>1, WholeInvariant, PTL

\* The codec of a loop that came to the end of its stream has given every frame, and
\* unless a read of the loop's own thread failed short of the end, the container was
\* read to its end and every packet of the stream was decoded.
THEOREM EndsAreComplete == WholeSpec => []EndIsComplete
<1>1. Inv => EndIsComplete
  <2> SUFFICES ASSUME Inv, NEW t \in Threads, pc[t] = "eof"
               PROVE  /\ FramesLeft(codec[t]) = 0
                      /\ t \notin container.failed =>
                           container.position = Packets /\ sent[t] = container.read[t]
    BY DEF EndIsComplete
  <2>1. codec[t].eof /\ FramesLeft(codec[t]) = 0
    BY DEF Inv, CodecsInv
  <2>2. AtEnd(t)
    BY <2>1 DEF Inv, EndInv
  <2>3. packet[t] = NULL
    BY DEF Inv, LockInv
  <2>4. sent[t] \in Nat /\ sent[t] + 0 + Len(packets[t]) = container.read[t]
    BY <2>3 DEF Inv, TypeOK, PacketsInOrder
  <2>5. packets[t] = <<>> => sent[t] = container.read[t]
    BY <2>4
  <2> QED BY <2>1, <2>2, <2>5 DEF AtEnd
<1> QED BY <1>1, WholeInvariant, PTL

\* The reader is given back only behind the loop, the loop is left for another
\* reason than its own end only on the client's order, and after that the client
\* fetches no audio.
ReaderInv ==
  /\ ~reader => pc["video"] \in Ends
  /\ outputEnded["video"] => deleted \/ pc["video"] \in {"eof", "error"}
  /\ pc["video"] = "stopped" => deleted
  /\ deleted => pc["audio"] \in {"idle"} \cup Ends

LEMMA ReaderStep == Inv /\ ReaderInv /\ [WholeNext]_whole => ReaderInv'
<1> SUFFICES ASSUME Inv, ReaderInv, [WholeNext]_whole PROVE ReaderInv'
  OBVIOUS
<1>1. /\ "video" \in Threads /\ "audio" \in Threads /\ "video" # "audio"
      /\ outputEnded \in [Threads -> BOOLEAN] /\ pc \in [Threads -> Points]
  BY DEF Inv, TypeOK, Threads
<1>2. CASE VideoFrame \/ VideoStep \/ Lock("video")
  <2>1. /\ UNCHANGED <<reader, deleted>> /\ Step("video")
        /\ pc["video"] \notin Ends
        /\ pc'["video"] \in {"eof", "error"} => ReceiveEnd("video")
    BY <1>1, <1>2, Moves DEF VideoFrame, VideoStep, Lock, Fetch, Step, Ends, Points, Ring!Put
  <2>2. pc'["audio"] = pc["audio"]
    BY <1>1, <2>1, OthersStay
  <2>3. pc'["video"] = "stopped" => outputEnded["video"]
    BY <1>1, <1>2, Moves DEF VideoFrame, VideoStep, Lock, Fetch, TestEnded, Goto
  <2>4. outputEnded'["video"] # outputEnded["video"] => pc'["video"] \in {"eof", "error"}
    BY <1>1, <2>1, Moves DEF Step, TestEnded, ReceiveFrame, ReceiveAgain, LockPackets,
      TestEmpty, ReadPacket, ReadPacketFails, TakePacket, UnlockPackets, SendPacket, CallAudio
  <2> QED BY <2>1, <2>2, <2>3, <2>4 DEF ReaderInv, Ends
<1>3. CASE AudioStep \/ Lock("audio")
  <2>1. UNCHANGED <<reader, deleted>> /\ Step("audio") /\ pc["audio"] \notin {"idle"} \cup Ends
    BY <1>1, <1>3, Moves DEF AudioStep, Receive, Fetch, Lock, Step, Ends
  <2>2. pc'["video"] = pc["video"]
    BY <1>1, <2>1, OthersStay
  <2>3. outputEnded'["video"] = outputEnded["video"]
    BY <1>1, <2>1 DEF Step, TestEnded, ReceiveFrame, ReceiveEnd, ReceiveAgain, LockPackets,
      TestEmpty, ReadPacket, ReadPacketFails, TakePacket, UnlockPackets, SendPacket, CallAudio
  <2> QED BY <2>1, <2>2, <2>3 DEF ReaderInv
<1>4. CASE UpdateAudioBuffer
  BY <1>1, <1>4 DEF UpdateAudioBuffer, CallAudio, Goto, ReaderInv
<1>5. CASE Delete
  BY <1>1, <1>5 DEF Delete, Destroy, SetEnded, ReaderInv
<1>6. CASE Cleanup
  BY <1>6 DEF Cleanup, vars, ReaderInv
<1>7. CASE NextVideoFrame \/ Finished \/ UNCHANGED whole
  BY <1>7 DEF NextVideoFrame, Finished, whole, vars, ReaderInv
<1>9. CASE FallAsleep \/ WakeUp
  BY <1>9 DEF FallAsleep, WakeUp, vars, ReaderInv
<1>8. (\E t \in Threads : Lock(t)) => Lock("video") \/ Lock("audio")
  BY DEF Threads
<1> QED BY <1>2, <1>3, <1>4, <1>5, <1>6, <1>7, <1>8, <1>9 DEF WholeNext

\* Whatever is left to the audio after the decode thread has given the reader
\* back, nothing of the container is left to be read for it, unless the video ended
\* with an error of its codec or of a read of its thread (VideoDecoder.cpp:469-471).
THEOREM ReadsTheLiveReader == WholeSpec => []ReadsLiveReader
<1>1. WholeInit => ReaderInv
  BY DEF WholeInit, Init, ReaderInv, Threads
<1>2. WholeSpec => []ReaderInv
  BY <1>1, ReaderStep, WholeInvariant, PTL DEF WholeSpec
<1>3. Inv /\ ReaderInv => ReadsLiveReader
  <2> SUFFICES ASSUME Inv, ReaderInv, NEW t \in Threads, pc[t] = "read", ~reader,
                      pc["video"] # "error", "video" \notin container.failed
               PROVE  container.position = Packets
    BY DEF ReadsLiveReader
  <2>1. pc["video"] \in {"eof", "stopped"}
    BY DEF ReaderInv, Ends
  <2>2. t = "audio"
    BY <2>1 DEF Threads
  <2>3. pc["video"] = "eof"
    BY <2>1, <2>2 DEF ReaderInv, Ends
  <2>4. "video" \in Threads
    BY DEF Threads
  <2>5. codec["video"].eof
    BY <2>3, <2>4 DEF Inv, CodecsInv
  <2> QED BY <2>4, <2>5 DEF Inv, EndInv, AtEnd
<1> QED BY <1>2, <1>3, WholeInvariant, PTL

-----------------------------------------------------------------------------
(* Reading ahead. *)

\* Who is about to take the only packet of its queue.
AboutToTake(t) ==
  /\ Len(packets[t]) = 1 /\ packet[t] = NULL
  /\ pc[t] \in {"unlock", "lock", "empty", "take"}

\* A packet is put into a queue only by a thread whose own queue is empty, and a
\* thread that has read its own packet goes on to take it.
LEMMA DemandStep == Inv /\ ReadsOnDemand /\ [Next]_vars => ReadsOnDemand'
<1> SUFFICES ASSUME Inv, ReadsOnDemand, [Next]_vars, \A t \in Threads : packets'[t] # <<>>
             PROVE  \E t \in Threads : AboutToTake(t)'
  BY DEF ReadsOnDemand, AboutToTake
<1>1. /\ packets \in [Threads -> Seq(Nat \ {0})] /\ packet \in [Threads -> Nat]
      /\ container \in [position : 0 .. Packets, read : [Threads -> Nat], failed : SUBSET Threads]
  BY DEF Inv, TypeOK
<1>2. ASSUME NEW t \in Threads, ReadPacket(t)
      PROVE  \E s \in Threads : AboutToTake(s)'
  <2>1. packets[t] = <<>> /\ packet[t] = NULL /\ pc'[t] = "unlock"
    BY <1>2, Moves DEF Inv, LockInv
  <2>2. packets'[t] # packets[t]
    BY <2>1
  <2>3. PICK s \in Threads : packets' = [packets EXCEPT ![s] = Cons(container.read[s] + 1, @)]
    BY <1>2, <2>2 DEF ReadPacket
  <2>4. s = t
    BY <1>1, <2>2, <2>3
  <2>5. packets'[t] = Cons(container.read[t] + 1, packets[t])
    BY <1>1, <2>3, <2>4
  <2>6. container.read[t] + 1 \in Nat \ {0} /\ packets[t] \in Seq(Nat \ {0}) /\ Len(packets[t]) = 0
    BY <1>1, <2>1
  <2>7. Len(packets'[t]) = 1
    <3> DEFINE P == Nat \ {0}
               e == container.read[t] + 1
               q == packets[t]
    <3>1. e \in P /\ q \in Seq(P) /\ Len(q) = 0 /\ packets'[t] = Cons(e, q)
      BY <2>5, <2>6
    <3> HIDE DEF P, e, q
    <3>2. Len(Cons(e, q)) = Len(q) + 1
      BY <3>1, ConsType
    <3> QED BY <3>1, <3>2
  <2>8. packet'[t] = NULL
    BY <1>2, <2>1 DEF ReadPacket
  <2> QED BY <2>1, <2>7, <2>8 DEF AboutToTake
<1>3. ASSUME NEW t \in Threads, TakePacket(t)
      PROVE  \E s \in Threads : AboutToTake(s)'
  <2>1. packets' = [packets EXCEPT ![t] = Front(@)] /\ packets[t] # <<>>
    BY <1>3, Moves DEF TakePacket, Inv, LockInv
  <2>2. packets'[t] = Front(packets[t]) /\ packets[t] \in Seq(Nat \ {0})
    BY <1>1, <2>1
  <2>3. Len(packets'[t]) = Len(packets[t]) - 1 /\ packets'[t] \in Seq(Nat \ {0})
    BY <2>1, <2>2, BackType
  <2>4. Len(packets[t]) # 1
    <3>1. packets'[t] # <<>>
      OBVIOUS
    <3>2. Len(packets'[t]) # 0
      BY <2>3, <3>1, EmptySeq
    <3> QED BY <2>3, <3>2
  <2>5. \A u \in Threads : packets[u] # <<>>
    BY <1>1, <2>1
  <2>6. PICK s \in Threads : AboutToTake(s)
    BY <2>5 DEF ReadsOnDemand, AboutToTake
  <2>7. s # t
    BY <2>4, <2>6 DEF AboutToTake
  <2>8. packets'[s] = packets[s] /\ pc'[s] = pc[s] /\ packet'[s] = packet[s]
    BY <1>1, <1>3, <2>1, <2>7, OthersStay DEF Step
  <2> QED BY <2>6, <2>8 DEF AboutToTake
<1>4. ASSUME UNCHANGED packets
      PROVE  \E s \in Threads : AboutToTake(s)
  BY <1>4 DEF ReadsOnDemand, AboutToTake
<1>5. ASSUME NEW t \in Threads, Step(t), ~ReadPacket(t), ~TakePacket(t)
      PROVE  \E s \in Threads : AboutToTake(s)'
  <2>1. UNCHANGED packets
    BY <1>5 DEF Step, TestEnded, ReceiveFrame, ReceiveEnd, ReceiveAgain, LockPackets, TestEmpty,
      ReadPacketFails, UnlockPackets, SendPacket, CallAudio
  <2>2. PICK s \in Threads : AboutToTake(s)
    BY <1>4, <2>1
  <2>3. CASE s # t
    BY <1>5, <2>1, <2>2, <2>3, OthersStay DEF AboutToTake
  <2>4. CASE s = t
    <3>1. packets[t] # <<>> /\ pc[t] \in {"unlock", "lock", "empty", "take"} /\ packet[t] = NULL
      BY <2>1, <2>2, <2>4 DEF AboutToTake
    <3>2. CASE LockPackets(t) \/ TestEmpty(t)
      <4>1. pc'[t] \in {"empty", "take"}
        BY <3>1, <3>2, Moves
      <4>2. packet' = packet
        BY <3>2 DEF LockPackets, TestEmpty
      <4> QED BY <2>1, <2>2, <2>4, <4>1, <4>2 DEF AboutToTake
    <3>3. CASE UnlockPackets(t)
      <4>1. pc[t] = "unlock" /\ (pc'[t] = IF FetchesMore(t) THEN "lock" ELSE "send")
        BY <3>3, Moves
      <4>2. check[t]
        BY <3>1, <4>1 DEF Inv, LockInv
      <4>3. pc'[t] = "lock"
        BY <3>1, <4>1, <4>2 DEF FetchesMore
      <4>4. packet' = packet
        BY <3>3 DEF UnlockPackets
      <4> QED BY <2>1, <2>2, <2>4, <4>3, <4>4 DEF AboutToTake
    <3>4. CASE \/ TestEnded(t) \/ ReceiveFrame(t) \/ ReceiveEnd(t) \/ ReceiveAgain(t)
               \/ ReadPacketFails(t) \/ SendPacket(t)
      BY <3>1, <3>4, Moves
    <3>5. CASE t = "audio" /\ CallAudio
      BY <3>1, <3>5, Moves
    <3> QED BY <1>5, <3>2, <3>3, <3>4, <3>5 DEF Step
  <2> QED BY <2>3, <2>4
<1>6. CASE Destroy \/ UNCHANGED vars
  <2>1. UNCHANGED <<pc, packets, packet>>
    BY <1>6 DEF Destroy, vars
  <2> QED BY <1>4, <2>1 DEF AboutToTake
<1> QED BY <1>2, <1>3, <1>5, <1>6, NextCases

\* The container is read ahead for at most one of the two streams: packets of both
\* are queued only until the thread that read its own takes it, for any container
\* (VideoDecoder.cpp:346-362, 424-439).
THEOREM ReadingIsOnDemand == WholeSpec => []ReadsOnDemand
<1>1. WholeInit => ReadsOnDemand
  BY DEF WholeInit, Init, ReadsOnDemand, Threads
<1> QED BY <1>1, DemandStep, WholeSteps, WholeInvariant, PTL DEF WholeSpec

-----------------------------------------------------------------------------
(* Progress of the loops. *)

Held(t) == IF packet[t] = NULL THEN 0 ELSE 1
Unannounced(t) == IF codec[t].eof THEN 0 ELSE 1

\* The distance is made of numbers.
Measured(t) ==
  /\ Unread \in Nat /\ Unsent(t) \in Nat /\ Round(t) \in 0 .. 9
  /\ Unsent(t) = Len(packets[t]) + Held(t) + Unannounced(t)
  /\ pc[t] \in {"idle"} \cup Ends => Round(t) = 0
  /\ pc[t] = "test" => Round(t) = 9
  /\ pc[t] = "receive" => Round(t) = 8
  /\ pc[t] = "lock" => Round(t) = 7
  /\ pc[t] = "empty" => Round(t) = 6
  /\ pc[t] \in {"read", "take"} => Round(t) = 5
  /\ pc[t] = "unlock" => Round(t) = IF FetchesMore(t) THEN 8 ELSE 4
  /\ pc[t] = "send" => Round(t) = 3

LEMMA MeasuredLemma == TypeOK => \A t \in Threads : Measured(t)
<1> SUFFICES ASSUME TypeOK, NEW t \in Threads PROVE Measured(t)
  OBVIOUS
<1>1. container.position \in 0 .. Packets /\ Len(packets[t]) \in Nat /\ pc[t] \in Points
  BY DEF TypeOK
<1>2. Unread \in Nat
  BY <1>1, PacketsAssumption DEF Unread
<1>3. Held(t) \in Nat /\ Unannounced(t) \in Nat
  BY DEF Held, Unannounced
<1>4. Unsent(t) = Len(packets[t]) + Held(t) + Unannounced(t)
  BY DEF Unsent, Held, Unannounced
<1>5. Round(t) \in 0 .. 9
  BY <1>1 DEF Round, Points, Ends
<1>6. /\ pc[t] \in {"idle"} \cup Ends => Round(t) = 0
      /\ pc[t] = "test" => Round(t) = 9
      /\ pc[t] = "receive" => Round(t) = 8
      /\ pc[t] = "lock" => Round(t) = 7
      /\ pc[t] = "empty" => Round(t) = 6
      /\ pc[t] \in {"read", "take"} => Round(t) = 5
      /\ pc[t] = "unlock" => Round(t) = IF FetchesMore(t) THEN 8 ELSE 4
      /\ pc[t] = "send" => Round(t) = 3
  BY DEF Round, Ends
<1> QED BY <1>1, <1>2, <1>3, <1>4, <1>5, <1>6 DEF Measured

\* A step comes nearer within its round, or by sending, or by reading; or it does
\* not concern the thread.
Shorter(t) == Unread' = Unread /\ Unsent(t)' = Unsent(t) /\ Round(t)' < Round(t)
Sends(t) == Unread' = Unread /\ Unsent(t)' = Unsent(t) - 1
Reads(t) == Unread' = Unread - 1 /\ Unsent(t)' =< Unsent(t) + 1
Rests(t) == Unread' = Unread /\ Unsent(t)' = Unsent(t) /\ Round(t)' = Round(t) /\ pc'[t] = pc[t]

Nearer(t) == Distance(t)' < Distance(t) \/ (Distance(t)' = Distance(t) /\ pc'[t] = pc[t])

\* Each of them is worth more than what a round costs.
LEMMA NearerBy ==
  ASSUME NEW t, Measured(t), Measured(t)'
  PROVE  /\ Shorter(t) => Nearer(t)
         /\ Sends(t) => Nearer(t)
         /\ Reads(t) => Nearer(t)
         /\ Rests(t) => Nearer(t)
<1>1. PICK a \in Nat, b \in Nat, r \in 0 .. 9 : a = Unread /\ b = Unsent(t) /\ r = Round(t)
  BY DEF Measured
<1>2. PICK c \in Nat, d \in Nat, s \in 0 .. 9 : c = Unread' /\ d = Unsent(t)' /\ s = Round(t)'
  BY DEF Measured
<1>3. Distance(t) = 20 * a + 10 * b + r /\ Distance(t)' = 20 * c + 10 * d + s
  BY <1>1, <1>2 DEF Distance
<1>4. c = a /\ d = b /\ s < r => 20 * c + 10 * d + s < 20 * a + 10 * b + r
  OBVIOUS
<1>5. c = a /\ d = b - 1 => 20 * c + 10 * d + s < 20 * a + 10 * b + r
  OBVIOUS
<1>6. c = a - 1 /\ d =< b + 1 => 20 * c + 10 * d + s < 20 * a + 10 * b + r
  OBVIOUS
<1> QED BY <1>1, <1>2, <1>3, <1>4, <1>5, <1>6 DEF Shorter, Sends, Reads, Rests, Nearer

\* What a step that only moves the thread leaves as it is.
LEMMA OnlyMoves ==
  ASSUME NEW t, UNCHANGED <<packets, packet, container>>, codec'[t].eof = codec[t].eof
  PROVE  Unread' = Unread /\ Unsent(t)' = Unsent(t)
BY DEF Unread, Unsent

\* Reading shortens what is unread by one packet and puts at most one into a queue.
LEMMA ReadEffect ==
  ASSUME Inv, NEW t \in Threads, ReadPacket(t), NEW u \in Threads, Measured(u), Measured(u)'
  PROVE  Reads(u)
<1>1. /\ packets \in [Threads -> Seq(Nat \ {0})]
      /\ container \in [position : 0 .. Packets, read : [Threads -> Nat], failed : SUBSET Threads]
      /\ packets[u] \in Seq(Nat \ {0}) /\ Len(packets[u]) \in Nat
  BY DEF Inv, TypeOK
<1>2. UNCHANGED <<packet, codec>> /\ container'.position = container.position + 1
  BY <1>1 DEF ReadPacket
<1>3. Unread' = Unread - 1
  BY <1>1, <1>2, PacketsAssumption DEF Unread
<1>4. Len(packets'[u]) \in Nat /\ Len(packets'[u]) =< Len(packets[u]) + 1
  <2>1. CASE packets'[u] = packets[u]
    BY <1>1, <2>1
  <2>2. CASE packets'[u] # packets[u]
    <3>1. PICK s \in Threads : packets' = [packets EXCEPT ![s] = Cons(container.read[s] + 1, @)]
      BY <2>2 DEF ReadPacket
    <3>2. s = u
      BY <1>1, <2>2, <3>1
    <3> DEFINE P == Nat \ {0}
               e == container.read[u] + 1
               q == packets[u]
    <3>3. e \in P /\ q \in Seq(P) /\ packets'[u] = Cons(e, q)
      BY <1>1, <3>1, <3>2
    <3>4. Len(q) \in Nat
      BY <1>1
    <3> HIDE DEF P, e, q
    <3>5. Len(packets'[u]) = Len(q) + 1
      BY <3>3, ConsType
    <3>6. Len(packets'[u]) \in Nat /\ Len(packets'[u]) =< Len(q) + 1
      BY <3>4, <3>5
    <3> QED BY <3>6 DEF q
  <2> QED BY <2>1, <2>2
<1>5. Held(u) \in Nat /\ Unannounced(u) \in Nat /\ Held(u)' = Held(u) /\ Unannounced(u)' = Unannounced(u)
  BY <1>2 DEF Held, Unannounced
<1>6. Unsent(u)' =< Unsent(u) + 1
  <2>1. PICK n \in Nat, m \in Nat, h \in Nat, e \in Nat :
          n = Len(packets[u]) /\ m = Len(packets'[u]) /\ h = Held(u) /\ e = Unannounced(u)
    BY <1>1, <1>4, <1>5
  <2>2. Unsent(u) = n + h + e
    BY <2>1 DEF Measured
  <2>3. Unsent(u)' = m + h + e
    BY <1>5, <2>1 DEF Measured
  <2>4. m =< n + 1
    BY <1>4, <2>1
  <2>5. m + h + e =< (n + h + e) + 1
    BY <2>4
  <2> QED BY <2>2, <2>3, <2>5
<1> QED BY <1>3, <1>6 DEF Reads

\* Every step of the thread itself brings it nearer, unless that step gives the
\* frame or begins a new call.
LEMMA OwnStep ==
  ASSUME Inv, NEW t \in Threads, Measured(t), Measured(t)', Step(t),
         ~ReceiveFrame(t), ~(t = "audio" /\ CallAudio)
  PROVE  Nearer(t)
<1>1. /\ packets \in [Threads -> Seq(Nat \ {0})] /\ packet \in [Threads -> Nat]
      /\ check \in [Threads -> BOOLEAN] /\ codec \in [Threads -> Contexts]
      /\ container \in [position : 0 .. Packets, read : [Threads -> Nat], failed : SUBSET Threads]
      /\ packets[t] \in Seq(Nat \ {0}) /\ Len(packets[t]) \in Nat
  BY DEF Inv, TypeOK
<1>2. Held(t) \in Nat /\ Unannounced(t) \in Nat /\ Unannounced(t)' \in Nat
  BY DEF Held, Unannounced
<1>3. CASE TestEnded(t) \/ LockPackets(t) \/ TestEmpty(t) \/ UnlockPackets(t)
  <2>1. UNCHANGED <<packets, packet, check, container, codec>>
    BY <1>3 DEF TestEnded, LockPackets, TestEmpty, UnlockPackets
  <2>2. Unread' = Unread /\ Unsent(t)' = Unsent(t)
    BY <2>1, OnlyMoves
  <2>3. Round(t)' < Round(t)
    BY <1>3, Moves DEF Measured, Ends
  <2> QED BY <2>2, <2>3, NearerBy DEF Shorter
<1>4. CASE ReceiveEnd(t) \/ ReceiveAgain(t)
  <2>1. codec'[t].eof = codec[t].eof
    BY <1>1, <1>4, CodecStep
  <2>2. UNCHANGED <<packets, container>> /\ packet' = packet
    <3>1. packet[t] = NULL
      BY <1>4, Moves DEF Inv, LockInv
    <3> QED BY <1>1, <1>4, <3>1 DEF ReceiveEnd, ReceiveAgain
  <2>3. Unread' = Unread /\ Unsent(t)' = Unsent(t)
    BY <2>1, <2>2, OnlyMoves
  <2>4. Round(t)' < Round(t)
    BY <1>4, Moves DEF Measured, Ends
  <2> QED BY <2>3, <2>4, NearerBy DEF Shorter
<1>5. CASE ReadPacketFails(t)
  <2>1. UNCHANGED <<packets, packet, codec>>
    BY <1>5 DEF ReadPacketFails
  <2>2. container'.position = container.position
    BY <1>1, <1>5, FailsWhere
  <2>3. Unread' = Unread /\ Unsent(t)' = Unsent(t)
    BY <2>1, <2>2 DEF Unread, Unsent
  <2>4. ~check'[t]
    BY <1>1, <1>5 DEF ReadPacketFails
  <2>5. Round(t)' < Round(t)
    BY <1>5, <2>4, Moves DEF Measured, FetchesMore
  <2> QED BY <2>3, <2>5, NearerBy DEF Shorter
<1>6. CASE ReadPacket(t)
  BY <1>6, ReadEffect, NearerBy
<1>7. CASE TakePacket(t)
  <2>1. packets[t] # <<>> /\ packet[t] = NULL
    BY <1>7, Moves DEF Inv, LockInv
  <2>2. Len(packets'[t]) = Len(packets[t]) - 1
    <3>1. packets'[t] = Front(packets[t])
      BY <1>1, <1>7 DEF TakePacket
    <3> QED BY <1>1, <2>1, <3>1, BackType
  <2>3. packet'[t] # NULL
    <3>1. packet'[t] = Last(packets[t])
      BY <1>1, <1>7 DEF TakePacket
    <3>2. Last(packets[t]) \in Nat \ {0}
      BY <1>1, <2>1, BackType
    <3> QED BY <3>1, <3>2 DEF NULL
  <2>4. UNCHANGED <<container, codec>>
    BY <1>7 DEF TakePacket
  <2>5. Held(t) = 0 /\ Held(t)' = 1 /\ Unannounced(t)' = Unannounced(t)
    BY <2>1, <2>3, <2>4 DEF Held, Unannounced
  <2>6. Unread' = Unread
    BY <2>4 DEF Unread
  <2>7. Unsent(t)' = Unsent(t)
    <3>1. PICK n \in Nat, m \in Nat, e \in Nat :
            n = Len(packets[t]) /\ m = n - 1 /\ e = Unannounced(t)
      <4>1. Len(packets[t]) # 0
        BY <1>1, <2>1, EmptySeq
      <4>2. Len(packets[t]) - 1 \in Nat
        BY <1>1, <4>1
      <4> QED BY <1>1, <1>2, <4>2
    <3>2. Unsent(t) = n + 0 + e
      BY <2>5, <3>1 DEF Measured
    <3>3. Unsent(t)' = m + 1 + e
      BY <2>2, <2>5, <3>1 DEF Measured
    <3>4. m + 1 + e = n + 0 + e
      BY <3>1
    <3> QED BY <3>2, <3>3, <3>4
  <2>8. Round(t)' < Round(t)
    BY <1>7, <2>3, Moves DEF Measured, FetchesMore
  <2> QED BY <2>6, <2>7, <2>8, NearerBy DEF Shorter
<1>8. CASE SendPacket(t)
  <2>1. pc[t] = "send" /\ ~codec[t].eof
    BY <1>8, Moves DEF Inv, CodecsInv
  <2>2. UNCHANGED <<packets, container>> /\ packet'[t] = NULL
    BY <1>1, <1>8 DEF SendPacket
  <2>3. codec'[t].eof <=> packet[t] = NULL
    <3>1. PICK p \in Sendable(t) : codec' = [codec EXCEPT ![t] = avcodec_send_packet(@, p).codec]
      BY <1>8 DEF SendPacket
    <3>2. codec'[t] = avcodec_send_packet(codec[t], p).codec
      BY <1>1, <3>1
    <3> QED BY <2>1, <3>2, SendStep
  <2>4. Held(t)' + Unannounced(t)' = Held(t) + Unannounced(t) - 1
    BY <2>1, <2>2, <2>3 DEF Held, Unannounced
  <2>5. Held(t)' \in Nat
    BY DEF Held
  <2>6. Unread' = Unread
    BY <2>2 DEF Unread
  <2>7. Unsent(t) = Len(packets[t]) + Held(t) + Unannounced(t)
    BY DEF Measured
  <2>8. Unsent(t)' = Len(packets[t]) + Held(t)' + Unannounced(t)'
    BY <2>2 DEF Measured
  <2>9. Unsent(t)' = Unsent(t) - 1
    <3>1. PICK n \in Nat, h \in Nat, e \in Nat :
            n = Len(packets[t]) /\ h = Held(t) /\ e = Unannounced(t)
      BY <1>1, <1>2
    <3>2. PICK k \in Nat, f \in Nat : k = Held(t)' /\ f = Unannounced(t)'
      BY <1>2, <2>5
    <3>3. k + f = h + e - 1 => n + k + f = n + h + e - 1
      OBVIOUS
    <3>4. Unsent(t) = n + h + e
      BY <2>7, <3>1
    <3>5. Unsent(t)' = n + k + f
      BY <2>8, <3>1, <3>2
    <3>6. k + f = h + e - 1
      BY <2>4, <3>1, <3>2
    <3> QED BY <3>3, <3>4, <3>5, <3>6
  <2> QED BY <2>6, <2>9, NearerBy DEF Sends
<1> QED BY <1>3, <1>4, <1>5, <1>6, <1>7, <1>8 DEF Step

\* A step of the other thread, or of the destructor, leaves the thread where it
\* is; only what the other reads concerns both.
LEMMA OthersStep ==
  ASSUME Inv, NEW t \in Threads, Measured(t), Measured(t)',
         \/ \E u \in Threads : u # t /\ Step(u)
         \/ Destroy
         \/ UNCHANGED vars
  PROVE  Nearer(t)
<1>1. /\ packets \in [Threads -> Seq(Nat \ {0})]
      /\ container \in [position : 0 .. Packets, read : [Threads -> Nat], failed : SUBSET Threads]
  BY DEF Inv, TypeOK
\* What is left as it is when neither thread's own variables change.
<1>2. ASSUME /\ pc'[t] = pc[t] /\ packet'[t] = packet[t]
             /\ check'[t] = check[t] /\ codec'[t] = codec[t]
             /\ packets'[t] = packets[t] /\ container'.position = container.position
      PROVE  Nearer(t)
  <2>1. Unread' = Unread /\ Unsent(t)' = Unsent(t)
    BY <1>2 DEF Unread, Unsent
  <2>2. Round(t)' = Round(t)
    BY <1>2 DEF Round, FetchesMore
  <2> QED BY <1>2, <2>1, <2>2, NearerBy DEF Rests
<1>3. ASSUME NEW u \in Threads, u # t, Step(u)
      PROVE  Nearer(t)
  <2>1. /\ pc'[t] = pc[t] /\ packet'[t] = packet[t]
        /\ check'[t] = check[t] /\ codec'[t] = codec[t]
    BY <1>3, OthersStay
  <2>2. CASE ReadPacket(u)
    BY <1>3, <2>2, ReadEffect, NearerBy
  <2>3. CASE TakePacket(u)
    <3>1. packets' = [packets EXCEPT ![u] = Front(packets[u])] /\ container' = container
      BY <1>1, <2>3 DEF TakePacket
    <3> QED BY <1>1, <1>2, <1>3, <2>1, <3>1
  <2>4. CASE ReadPacketFails(u)
    <3>1. packets' = packets
      BY <2>4 DEF ReadPacketFails
    <3>2. container'.position = container.position
      BY <1>1, <2>4, FailsWhere
    <3> QED BY <1>2, <2>1, <3>1, <3>2
  <2>5. CASE \/ TestEnded(u) \/ ReceiveFrame(u) \/ ReceiveEnd(u) \/ ReceiveAgain(u)
             \/ LockPackets(u) \/ TestEmpty(u) \/ UnlockPackets(u) \/ SendPacket(u)
             \/ CallAudio
    <3>1. UNCHANGED <<packets, container>>
      BY <2>5 DEF TestEnded, ReceiveFrame, ReceiveEnd, ReceiveAgain, LockPackets, TestEmpty,
        UnlockPackets, SendPacket, CallAudio
    <3> QED BY <1>2, <2>1, <3>1
  <2> QED BY <1>3, <2>2, <2>3, <2>4, <2>5 DEF Step
<1>4. CASE Destroy \/ UNCHANGED vars
  <2>1. UNCHANGED <<pc, packets, packet, check, container, codec>>
    BY <1>4 DEF Destroy, vars
  <2> QED BY <1>2, <2>1
<1> QED BY <1>3, <1>4

\* No loop of run or decodeAudio goes round more often than there is something to
\* read, to take or to send: every step of a thread on the way to its next frame or
\* end lessens what is before it, and the other thread and the client never add to
\* it (VideoDecoder.cpp:344-362, 422-439).
THEOREM LoopsComeNearer == WholeSpec => ComesNearer
<1> DEFINE Near(t) ==
      \/ Distance(t)' < Distance(t)
      \/ Distance(t)' = Distance(t) /\ pc'[t] = pc[t]
      \/ ReceiveFrame(t)
      \/ t = "audio" /\ CallAudio
           AllMeasured == \A t \in Threads : Measured(t)
<1>1. ASSUME Inv, AllMeasured, AllMeasured', [Next]_vars, NEW t \in Threads
      PROVE  Near(t)
  <2>1. Measured(t) /\ Measured(t)'
    BY <1>1
  <2>2. Nearer(t) => Near(t)
    BY DEF Nearer
  <2>3. CASE Step(t)
    BY <1>1, <2>1, <2>2, <2>3, OwnStep
  <2>4. CASE (\E u \in Threads : u # t /\ Step(u)) \/ Destroy \/ UNCHANGED vars
    BY <1>1, <2>1, <2>2, <2>4, OthersStep
  <2> QED BY <1>1, <2>3, <2>4, NextCases
<1>2. Inv => AllMeasured
  BY MeasuredLemma DEF Inv
<1>3. Inv /\ AllMeasured /\ AllMeasured' /\ [WholeNext]_whole
        => [\A t \in Threads : Near(t)]_whole
  BY <1>1, WholeSteps
<1>4. WholeSpec => [][\A t \in Threads : Near(t)]_whole
  <2> HIDE DEF Near, AllMeasured
  <2> QED BY <1>2, <1>3, WholeInvariant, PTL DEF WholeSpec
<1> QED BY <1>4 DEF ComesNearer
=============================================================================
