---------------------------- MODULE PacketQueues ----------------------------
(***************************************************************************)
(* Demultiplexing: the decode thread and a client that fetches audio each  *)
(* take the packets of their stream, and whoever finds its own queue empty *)
(* reads the container on, for both (VideoDecoder.cpp: readPacket and the  *)
(* decoding loops of run and decodeAudio, which are the same).             *)
(*                                                                         *)
(* A thread is named by the stream it decodes.  packetMutex is taken and   *)
(* given up in steps of its own, and so are the test of the queue and what *)
(* follows it.                                                             *)
(***************************************************************************)
EXTENDS CodecContext, SequencesExt

CONSTANTS
  Packets,   \* the number of packets in the container, of all streams
  MaxPieces  \* bound: how many pieces of a packet give a frame or an error

ASSUME PacketsAssumption == Packets \in Nat
ASSUME MaxPiecesAssumption == MaxPieces \in Nat \ {0}

Threads == {"video", "audio"}

\* Why a loop was left: the end of the stream, a decoding error, the destructor.
Ends == {"eof", "error", "stopped"}
Points == {"idle", "test", "receive", "lock", "empty", "read", "take", "unlock", "send"} \cup Ends
NULL == 0
PacketKinds == [gives : BoundedSeq(Gives, MaxPieces), delayed : {0, 1}]

VARIABLES
  pc,           \* where each thread is
  packetMutex,  \* its owner, or "free"
  packets,      \* videoPackets and audioPackets, front first
  packet,       \* the local variable: the packet fetched, or NULL
  check,        \* the local variable: no read has failed in this fetch loop
  container,    \* how much was read of it and of each stream; failed, no field of
                \* the code, has the threads whose read failed short of its end
  outputEnded,  \* videoOutputEnded and audioOutputEnded
  codec,        \* the context of each stream's codec
  sent          \* the last packet of each stream that was sent to its codec

vars == <<pc, packetMutex, packets, packet, check, container, outputEnded, codec, sent>>

Goto(t, from, to) == pc[t] = from /\ pc' = [pc EXCEPT ![t] = to]

-----------------------------------------------------------------------------
(* Decoding. *)

\* updateAudioBuffer calls decodeAudio.
CallAudio ==
  /\ Goto("audio", "idle", "test")
  /\ UNCHANGED <<packetMutex, packets, packet, check, container, outputEnded, codec, sent>>

\* The condition of the loop; run() also waits there for room in the ring.
TestEnded(t) ==
  /\ Goto(t, "test", IF outputEnded[t] THEN "stopped" ELSE "receive")
  /\ UNCHANGED <<packetMutex, packets, packet, check, container, outputEnded, codec, sent>>

\* What avcodec_receive_frame returns.
Receives(t, ret) ==
  LET received == avcodec_receive_frame(codec[t])
  IN received.ret = ret /\ codec' = [codec EXCEPT ![t] = received.codec]

\* A frame: run() puts it into the ring and goes on, decodeAudio returns.
ReceiveFrame(t) ==
  /\ Goto(t, "receive", IF t = "video" THEN "test" ELSE "idle")
  /\ Receives(t, "frame")
  /\ UNCHANGED <<packetMutex, packets, packet, check, container, outputEnded, sent>>

\* An error or the end of the stream: run() returns, and decodeAudio returns 0
\* now and whenever it is called again.
ReceiveEnd(t) ==
  /\ \E ret \in {"error", "eof"} : Goto(t, "receive", ret) /\ Receives(t, ret)
  /\ outputEnded' = [outputEnded EXCEPT ![t] = TRUE]
  /\ UNCHANGED <<packetMutex, packets, packet, check, container, sent>>

\* Faulty: only errors end the loop.
ReceiveAgainAtEnd(t) ==
  /\ Goto(t, "receive", "lock")
  /\ Receives(t, "again") \/ Receives(t, "eof")
  /\ check' = [check EXCEPT ![t] = TRUE]
  /\ packet' = [packet EXCEPT ![t] = NULL]
  /\ UNCHANGED <<packetMutex, packets, container, outputEnded, sent>>

ReceiveAgain(t) ==
  /\ Goto(t, "receive", "lock")
  /\ Receives(t, "again")
  /\ check' = [check EXCEPT ![t] = TRUE]
  /\ packet' = [packet EXCEPT ![t] = NULL]
  /\ UNCHANGED <<packetMutex, packets, container, outputEnded, sent>>

\* The destructor ends both loops, when no call of the client is under way.
SetEnded ==
  /\ pc["audio"] \in {"idle"} \cup Ends
  /\ outputEnded' = [t \in Threads |-> TRUE]

-----------------------------------------------------------------------------
(* The fetch loop. *)

\* Faulty: packetMutex is not taken.
LockPacketsNot(t) ==
  /\ Goto(t, "lock", "empty")
  /\ UNCHANGED <<packetMutex, packets, packet, check, container, outputEnded, codec, sent>>

LockPackets(t) ==
  /\ Goto(t, "lock", "empty")
  /\ packetMutex = "free" /\ packetMutex' = t
  /\ UNCHANGED <<packets, packet, check, container, outputEnded, codec, sent>>

TestEmpty(t) ==
  /\ Goto(t, "empty", IF packets[t] = <<>> THEN "read" ELSE "take")
  /\ UNCHANGED <<packetMutex, packets, packet, check, container, outputEnded, codec, sent>>

\* Faulty: the end of the container is not noticed.
ReadPacketUnchecked(t) ==
  /\ Goto(t, "read", "unlock")
  /\ \E s \in Threads :
       /\ packets' = [packets EXCEPT ![s] = Cons(container.read[s] + 1, @)]
       /\ container' = [container EXCEPT !.position = @ + 1, !.read[s] = @ + 1]
  /\ UNCHANGED <<packetMutex, packet, check, outputEnded, codec, sent>>

\* A packet was read: it goes to its stream's queue, or is freed if it belongs
\* to no stream that is decoded.
ReadPacket(t) ==
  /\ Goto(t, "read", "unlock")
  /\ container.position < Packets
  /\ \/ \E s \in Threads :
          /\ packets' = [packets EXCEPT ![s] = Cons(container.read[s] + 1, @)]
          /\ container' = [container EXCEPT !.position = @ + 1, !.read[s] = @ + 1]
     \/ /\ container' = [container EXCEPT !.position = @ + 1]
        /\ UNCHANGED packets
  /\ UNCHANGED <<packetMutex, packet, check, outputEnded, codec, sent>>

\* The end of the container, or an error short of it; the caller cannot tell which.
\* After an error the next read may succeed again.
ReadPacketFails(t) ==
  /\ Goto(t, "read", "unlock")
  /\ container' = IF container.position < Packets
                  THEN [container EXCEPT !.failed = @ \cup {t}]
                  ELSE container
  /\ check' = [check EXCEPT ![t] = FALSE]
  /\ UNCHANGED <<packetMutex, packets, packet, outputEnded, codec, sent>>

\* Faulty: the newest packet is taken, not the oldest.
TakeNewest(t) ==
  /\ Goto(t, "take", "unlock")
  /\ packet' = [packet EXCEPT ![t] = Head(packets[t])]
  /\ packets' = [packets EXCEPT ![t] = Tail(@)]
  /\ UNCHANGED <<packetMutex, check, container, outputEnded, codec, sent>>

TakePacket(t) ==
  /\ Goto(t, "take", "unlock")
  /\ packet' = [packet EXCEPT ![t] = Last(packets[t])]
  /\ packets' = [packets EXCEPT ![t] = Front(@)]
  /\ UNCHANGED <<packetMutex, check, container, outputEnded, codec, sent>>

\* Faulty: the loop goes on until there is a packet.
FetchesMoreUntilPacket(t) == packet[t] = NULL

\* Faulty: there is no loop.
FetchesOnce(t) == FALSE

FetchesMore(t) == packet[t] = NULL /\ check[t]

UnlockPackets(t) ==
  /\ Goto(t, "unlock", IF FetchesMore(t) THEN "lock" ELSE "send")
  /\ packetMutex' = "free"
  /\ UNCHANGED <<packets, packet, check, container, outputEnded, codec, sent>>

\* What may be sent: without a packet, the end of the stream.
Sendable(t) == IF packet[t] = NULL THEN {<<>>} ELSE {<<p>> : p \in PacketKinds}

\* Faulty: the end of the stream is not sent.
SendPacketsOnly(t) ==
  /\ Goto(t, "send", "test")
  /\ IF packet[t] = NULL
     THEN UNCHANGED codec
     ELSE \E p \in Sendable(t) :
            codec' = [codec EXCEPT ![t] = avcodec_send_packet(@, p).codec]
  /\ sent' = [sent EXCEPT ![t] = IF packet[t] = NULL THEN @ ELSE packet[t]]
  /\ packet' = [packet EXCEPT ![t] = NULL]
  /\ UNCHANGED <<packetMutex, packets, check, container, outputEnded>>

\* Nobody looks at the result of avcodec_send_packet.
SendPacket(t) ==
  /\ Goto(t, "send", "test")
  /\ \E p \in Sendable(t) :
       codec' = [codec EXCEPT ![t] = avcodec_send_packet(@, p).codec]
  /\ sent' = [sent EXCEPT ![t] = IF packet[t] = NULL THEN @ ELSE packet[t]]
  /\ packet' = [packet EXCEPT ![t] = NULL]
  /\ UNCHANGED <<packetMutex, packets, check, container, outputEnded>>

-----------------------------------------------------------------------------
Init ==
  /\ pc = [t \in Threads |-> IF t = "video" THEN "test" ELSE "idle"]
  /\ packetMutex = "free"
  /\ packets = [t \in Threads |-> <<>>]
  /\ packet = [t \in Threads |-> NULL]
  /\ check = [t \in Threads |-> TRUE]
  /\ container = [position |-> 0, read |-> [t \in Threads |-> 0], failed |-> {}]
  /\ outputEnded = [t \in Threads |-> FALSE]
  /\ codec = [t \in Threads |-> NewContext]
  /\ sent = [t \in Threads |-> 0]

Fetch(t) ==
  \/ TestEmpty(t) \/ ReadPacket(t) \/ ReadPacketFails(t) \/ TakePacket(t)
  \/ UnlockPackets(t) \/ SendPacket(t)

Receive(t) == ReceiveFrame(t) \/ ReceiveEnd(t) \/ ReceiveAgain(t)

Destroy ==
  /\ SetEnded
  /\ UNCHANGED <<pc, packetMutex, packets, packet, check, container, codec, sent>>

Next ==
  \/ \E t \in Threads : TestEnded(t) \/ Receive(t) \/ LockPackets(t) \/ Fetch(t)
  \/ CallAudio \/ Destroy

Spec == Init /\ [][Next]_vars

-----------------------------------------------------------------------------
(* Properties. *)

\* Type correctness of the queues and of what the threads know.
TypeOK ==
  /\ pc \in [Threads -> Points]
  /\ packetMutex \in Threads \cup {"free"}
  /\ packets \in [Threads -> Seq(Nat \ {0})]
  /\ packet \in [Threads -> Nat]
  /\ check \in [Threads -> BOOLEAN]
  /\ container \in [position : 0 .. Packets, read : [Threads -> Nat], failed : SUBSET Threads]
  /\ outputEnded \in [Threads -> BOOLEAN]
  /\ codec \in [Threads -> Contexts]
  /\ sent \in [Threads -> Nat]

\* What is pushed at the front and popped at the back by either thread reaches
\* each codec in the order of the container, each packet once: after the last
\* one sent comes the one in hand, then the queue from its back, up to the last
\* one read (VideoDecoder.cpp:346-362, 402-404, 424-439).
PacketsInOrder ==
  \A t \in Threads :
    LET inHand == IF packet[t] = NULL THEN 0 ELSE 1
        read == container.read[t]
    IN /\ packets[t] = [i \in 1 .. Len(packets[t]) |-> read + 1 - i]
       /\ sent[t] + inHand + Len(packets[t]) = read
       /\ packet[t] # NULL => packet[t] = sent[t] + 1

\* A codec is told that its stream has ended only at the end of the container and
\* with no packet of it left, though the other thread may have read some since this
\* one found its queue empty.  The exception is a stream whose own thread met an
\* error: an error the other thread met does it no harm
\* (VideoDecoder.cpp:352-353, 398-412, 429-430).
NothingLeftBehind ==
  \A t \in Threads : codec[t].eof /\ t \notin container.failed =>
    container.position = Packets /\ packets[t] = <<>>

\* Neither thread uses the demultiplexer or the lists while the other does.
ReadsAlone ==
  \A t, u \in Threads :
    pc[t] \in {"read", "take"} /\ pc[u] \in {"empty", "read", "take"} => t = u

\* No result of avcodec_send_packet is one that would matter: a packet is never
\* refused, and the end never announced twice, because the loop sends only what
\* avcodec_receive_frame asked for (VideoDecoder.cpp:361, 438).
SendsAccepted ==
  \A t \in Threads : pc[t] = "send" =>
    \A p \in Sendable(t) : avcodec_send_packet(codec[t], p).ret \in {"ok", "error"}

\* When a stream has come to its end its codec has given every frame, also those
\* it delays and those it decoded in advance; and unless a read of its own thread
\* failed, which looks no different to it, the container was read to its end and
\* every packet of the stream was decoded (VideoDecoder.cpp:365-370, 442-447:
\* "Either decoding error or EOF").
EndIsComplete ==
  \A t \in Threads : pc[t] = "eof" =>
    /\ FramesLeft(codec[t]) = 0
    /\ t \notin container.failed =>
         container.position = Packets /\ sent[t] = container.read[t]
=============================================================================
