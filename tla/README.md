# Verification of arc-video

arc-video plays a video file in a texture of the Arc game framework.  A native
decoder (`src/jni`, C++ on FFmpeg and pthreads) decodes on a thread of its own;
a Java player (`src/src/main/java/com/pymu/arc/video`) runs on the thread that
draws.  What can go wrong lies between the two: an almost lock-free ring of
frames, a condition variable, a destructor that must stop a thread, and a
player that opens, replaces and closes the stream the native thread reads.

`src/FFmpeg` (libavcodec and its siblings, 7800 files) and
`src/jni/jni-headers` are vendored.  Of FFmpeg the two calls the decoding loops are
built around are modelled, `avcodec_send_packet` and `avcodec_receive_frame`, with
the bitstream filter below them; the rest only as far as the code above relies on
it.

## Inventory

| Component | State | Operations | Interaction | What makes it correct |
|---|---|---|---|---|
| Decode thread and frame ring (`VideoDecoder.cpp`, `.h`) | `rgbFrames` (4 slots), `currentFrameDisplayed` (tail), `totalFramesBuffered` (head), `videoOutputEnded`, `decodeMutex`, `decodeCondvar` | `run`, `nextVideoFrame`, `isBuffered`, `~VideoDecoder` | two threads on shared fields; the client signals, the decode thread waits | frames in order, each once; the frame handed out is not overwritten; no lost wakeup; deletion ends and frees nothing in use |
| `Thread`, `Mutex`, `CondVar` | `threadId`, `running`, `detached` | `start`, `join`, `internalRun`, `~Thread`; `lock`, `unlock`; `wait`, `signal` | pthreads | a thread is waited for and reclaimed |
| Player (`BaseVideoVideoPlayer`) | decoder, input stream, channel, texture, `playing`, `paused`, `looping`, `isFirstFrame`, `showAlreadyDecodedFrame`, `startTime`, `timeBeforePause` | `play`, `update`, `stop`, `pause`, `resume`, `dispose`, `setLooping` | calls the decoder; the decode thread calls back `readFileContents` on the player's channel | the reader has an open stream of its file; sizes fit; nothing leaks; the clock is the time played; a video ends or loops |
| `LibraryLoader` | `loaded` | `loadLibraries` | `play` needs it | a failed load leaves the player usable |
| Packet queues (`readPacket`, the decoding loops of `run` and `decodeAudio`) | `videoPackets`, `audioPackets`, `packetMutex`, `audioOutputEnded` | push, take, send, receive, announce the end | the decode thread and an audio client demultiplex for each other; both feed a codec; the end of `run` gives the reader back | packets of a stream in order, none lost or refused; the end announced last and no frame left in the codec; both loops end; the container is read through a reader that is there |
| FFmpeg's codec calls (`FFmpeg/libavcodec/decode.c`, `bsf.c`, `vp9_superframe_split_bsf.c`) | a codec's context: a packet waiting in the filter, the rest of one being split, a frame decoded in advance, frames delayed, draining | `avcodec_send_packet`, `avcodec_receive_frame` | called by the decoding loops, which look at one result of the two | "again", "end" and refusals come when the loops can do with them |
| Audio buffer (`updateAudioBuffer`, `decodeAudio`) | `audioDecodedSize`, `audioDecodedUsed`, `timestampOffset`, `audioOutputEnded` | fill 1024 bytes | packet queues | copies stay within both buffers; no byte lost or repeated |
| Loading and JNI layer (`loadStream`, `loadContainer`, bodies in `VideoDecoder.java`) | FFmpeg contexts, global reference, callback data, `fileLoaded` | load, dispose | callback into Java | a failed step leaves nothing behind |
| Factory, `EmptyVideoVideoPlayer`, desktop players | flags | pick a class | - | - |
| `VideoViewer`, `AVideoActor` | layout | `draw` calls `update` each frame | - | - |
| `Utilities`, `memcpy_wrap.c` | debug flag | logging, clock | - | - |

Hard behaviours: unlocked reads of two counters and a flag, unlocks of a mutex
the thread does not hold, a signal that races a wait, a join that is skipped
once the thread's flag is reset, the decode thread running on through every step
of `play`, `stop` and `update`, and legal sequences of calls (pause, stop, play,
resume) that leave stale fields behind.  `PROJECT.json` lists them line by line
under "hazards" with the properties meant to catch them.

## Modules

| Module | Models | Used by |
|---|---|---|
| `FrameQueue` | what the decoder promises its client: a bounded first-in first-out queue of frames, one of them shown | `DecodedVideo`, `VideoPlayer` (as its decoder), `Decoding` (as its ring) |
| `CodedStream` | what demultiplexing and a codec promise a decoding loop: packets, each worth some frames, and an end that comes after them; no frame comes out that was in no packet | `DecodedVideo`, `VideoDecoder` (as its source of frames), `Decoding` (refinement, for the audio) |
| `DecodedVideo` | the two joined: a frame leaves the codec if and only if it enters the queue | `VideoDecoder`, `Decoding` (refinement) |
| `DecodedVideo_proofs` | theorems about `DecodedVideo`, and so about what implements it | `VideoDecoder_proofs`, `Streams_proofs` |
| `VideoDecoder` | decode thread against client thread, access by access | - |
| `VideoDecoder_proofs` | theorems about `VideoDecoder` | - |
| `VideoPlayer` | the player's methods on `FrameQueue`, the decode thread interleaved | - |
| `VideoPlayer_proofs` | theorems about `VideoPlayer` | - |
| `CodecContext` | FFmpeg's send and receive calls, as operators on a codec's context | `PacketQueues` |
| `PacketQueues` | the two decoding loops, which read packets for each other and feed their codecs | `Decoding` |
| `Decoding` | a loaded decoder as a whole: `PacketQueues`, the ring, the reader and the destructor | - |
| `Decoding_proofs` | theorems about `CodecContext`, `PacketQueues` and `Decoding` | `Streams_proofs` |
| `Streams_proofs` | the refinement of `DecodedVideo` and `CodedStream`, with what each call of a codec does to its frames | - |
| `AudioBuffer` | `updateAudioBuffer`: frames of any size cut into buffers | - |
| `AudioBuffer_proofs` | theorems about `AudioBuffer` | - |
| `DecoderLifecycle` | what loading allocates, step by step, and who frees it | - |
| `DecoderLifecycle_proofs` | theorems about `DecoderLifecycle` | - |
| `FrameSequences` | facts about frames in order | the proofs about `DecodedVideo`, `VideoDecoder`, `VideoPlayer` and `Decoding` |

Three abstract specifications hold the project together.  Decoder and player meet
in `FrameQueue`: `VideoPlayer` composes with it by conjoining `FrameQueue`'s `Put`,
`Take` and `End` with its own steps, and so does `Decoding`, where the ring is not
the subject.  Ring and demultiplexing meet in `CodedStream`, from which
`VideoDecoder` takes its frames.  `DecodedVideo` joins the two, and implements each of
them.  It is implemented twice: by `VideoDecoder`, which has every access to
the ring and an abstract source, and by `Decoding`, which has every step of the
source and an abstract ring.  So what each takes for granted is what the other
provides, and what `DecodedVideo_proofs` proves holds of both.  Two behaviours of the
ring that a queue does not show, the repeated frame and the NULL at a queue that
is not empty, come from `nextVideoFrame` reading its fields one by one; so
`VideoPlayer` keeps these reads apart too (`HasFrame`, `ReadEnded`,
`NothingYet`/`RepeatFrame`).

### VideoDecoder

`dpc` and `rpc` are where the decode thread and the client's thread are; the
other variables have the names of the code's fields.  An action is one access to
a field both threads use, or one call on the mutex or the condition variable, so
every interleaving the code allows is there.  Details that matter:

* `run()` unlocks at line 419 before it decodes.  After `continue` (440) it goes
  through the loop's condition and that unlock again, and after `break` (446)
  through the unlock of line 467, without holding the mutex.  The mutex has the
  default type, for which POSIX leaves this undefined.  The constant
  `ForeignUnlock` says what it may do to a mutex another thread owns: release it
  (glibc, bionic), or nothing.  Unlocking a free mutex changes nothing.
* `sws_scale` takes two steps (`ReceiveFrame`, `Scale`) and the slot is `Torn`
  between them, so a reader or a second writer in the slot would be seen.
* `pthread_cond_wait` may wake spuriously and must get the mutex back
  (`SpuriousWakeup`, `WaitReturns`).
* `start()` creates the thread and then sets `running`; `internalRun` resets it.
  Both orders occur.  A failed `pthread_create` is ignored by `loadContainer`
  and here.
* `join()` reads `running` (`DtorJoin`) and only then waits and sets `detached`
  (`DtorWait`), so that the thread may end between the two: it is joined then, and
  left as it is only if it ended before `running` was read.
* Where the frames come from is `CodedStream`: packets that are worth some frames
  (`FramesPerPacket`; the runs take none, one or two), and an end that is announced behind the last of them.  `ReceiveEnd` may happen
  at any time: an error ends the video like its end does.
* The counters are read with full barriers and the flags go from FALSE to TRUE
  only, so memory is taken to be sequentially consistent.  `videoOutputEnded` is
  a plain `bool` read without a lock, which is a data race; a compiler that kept
  it in a register over a call into FFmpeg is not considered.

### VideoPlayer

`ppc` is where the drawing thread is in the player's methods.  `play`, `stop` and
`update` are split where they use the decoder or the stream, because the decode
thread (`DecodeFrame`, `DecodeEnd`) and time (`Tick`) go on meanwhile.  `stop` is
also called by `play`, which is also called by `update`; `after` is where it
returns to.  Time is counted in units of 20 ms, the tolerance of `update`, and
stops at `MaxTime`, one past the last frame's time; `sinceStart` is
`currentTimeMillis() - startTime`.  `elapsed` is no field of the code: it counts
the time the video was playing and not paused, and is what the clock is compared
with.  There is no audio: `getMusic` returns null in both desktop players, so
`audio` is always null.  Listeners do not call the player again.  An input
stream has an identity, so that one that was left open is told from its
successor.

`careful` is no field either: it says that the client has paused and resumed
only what was playing, and called neither `play` nor `stop` while paused.

### CodecContext

The context of a codec is a record, and the calls are operators that return a
result and the context after it, as the C functions do.  A packet is the sequence
of what its pieces give, a frame or an error, and how many of its frames the codec
delays until it is drained; the splitting filter of VP9 makes several pieces of a
packet.  What matters to the loops is kept: at most one packet waits in the filter
(`buffer_pkt`); `avcodec_send_packet` decodes one frame in advance
(`buffer_frame`), and `avcodec_receive_frame` gives that one first; an empty packet
is the end of the stream, after which any packet is invalid; a drained codec says
"eof" for good.  `thread_count` is 1.  Left out: packets of size zero that carry
data (refused as invalid), errors of cropping and errors of a codec that is being
drained.

### PacketQueues

A thread is named by the stream it decodes, and the decoding loops of `run` and
`decodeAudio`, which are the same, are one set of actions for both.  Testing the
loop's condition, receiving, taking `packetMutex`, testing the queue, reading or
popping, unlocking and sending are steps of their own.  Packets of a stream are
numbered as they come; a packet of a third stream is freed.  Queues are sequences
with the front first, as `std::list` is: `push_front` is `Cons`, `back` and
`pop_back` are `Last` and `Front`.  What a packet will give is chosen when it is
sent.  `sent` is no field: it is the last packet sent to each codec.

A read can fail anywhere.  At the end of the container it fails for good; short of it
the next read, by either thread, may succeed: `readPacket` remembers nothing, and the
Ogg demuxer, for one, goes on behind a page it could not parse
(`FFmpeg/libavformat/oggdec.c:357-359`, `606-609`).  The thread that met the error takes
it for the end, so that its codec is drained while the other thread reads on and queues
packets for it that nobody will take.  `container.failed`, which is no field, has the
threads that met such an error; for their streams, and for no other,
`NothingLeftBehind` and `EndIsComplete` make an exception.

### Decoding

`WholeSpec` puts the loops together with what surrounds them: the decode thread
goes on only with room in the ring (`Room`, `VideoFrame`) or sleeps on a full one
(`FallAsleep`, `WakeUp`), the client takes frames,
calls `updateAudioBuffer` and at last the destructor, and behind its loop the
decode thread gives the reader back (`Cleanup`).  The client is one thread, so that
it takes no frame, and deletes nothing, while it is inside `updateAudioBuffer`.  The
ring is `FrameQueue`, as `VideoDecoder` implements it, so the accesses of the two
threads to the ring are one step each here.  A sleeping thread may be woken, but
nothing says that it is: whether a signal is lost is the subject of `VideoDecoder`.
`Cleanup` takes for granted that the thread can be attached to the VM;
`DecoderLifecycle` does not.

### AudioBuffer

The bytes of the decoded audio are numbered and a byte of silence is 0, so that
a byte lost, repeated or out of order shows in the buffer.  A frame has any size
up to the decoding buffer's, `PlaySilence` stands for the end of the audio, for a
frame without samples and for every call after the end.  `before` is no field: it
counts the decoded bytes in the buffers of earlier calls.

### DecoderLifecycle

`field` is what each pointer of the object holds, `live` is what is allocated: an
object is named by the field that is to hold it and the call that made it.  Each
step of `loadStream` and `loadContainer` can fail where the code throws, and
nothing is undone then, except that `avformat_open_input` frees the context it
cannot open.  The client may load again after a failure or, to no effect, after a
success; it loads at least once, as `play` does, because `avioContext` is not
initialised before.  That a thread may fail to start is part of `FinishLoad`.  The
decode thread gives its reader back when it ends (`DecodeThreadEnds`), unless it gets no
JNIEnv (`DecodeThreadUnattached`).  The destructor's wait is one step here; that `join` really waits is
`VideoDecoder!NoUseAfterFree`.

## Runs

| Run | Bounds | Shows |
|---|---|---|
| `decoder_ring` | the code's ring of 4 slots, 5 packets, either mutex | `FramesInOrder`, `HeldFrameStable`, `NoUseAfterFree` and the refinement `ImplementsVideo` hold, whatever the unlocks do |
| `decoder_wakeup` | 4 slots, 4 packets, a mutex that refuses (so not glibc's or bionic's) | `NoLostWakeup`, `Refills`, `DeleteFinishes` hold |
| `decoder_delete_hangs` | 3 slots, 4 packets, either mutex | `DeleteFinishes` is violated |
| `decoder_undecoded_frame` | 3 slots, 3 packets | `ReturnsDecodedFrame` is violated |
| `decoder_thread_leak` | 3 slots, 3 packets | `ThreadReclaimed` is violated |
| `player_safety` | 2 videos of 3 frames, 2 streams of each, any client, a library that loads | `ReadsOpenChannel`, `SizesFit`, `RenderHasTexture`, `NoStreamLeak`, `NeverAhead`, `PausedStandsStill`, and `TimeKept` for a careful client hold |
| `player_progress` | 1 video of 2 frames, a library that may fail, fair | `Finishes`, `StartsOver` hold |
| `player_stale_clock` | 1 video, any client | `ClockIsTimePlayed` is violated |
| `decoding` | 3 packets of either stream or a third, of up to 2 pieces and 1 delayed frame, a ring of 1, reads that fail and recover, fair | `PacketsInOrder`, `NothingLeftBehind`, `ReadsAlone`, `SendsAccepted`, `EndIsComplete`, `ReadsLiveReader`, `ReadsOnDemand`, `ComesNearer`, the refinement `ImplementsStreams`, `AudioReturns`, `VideoGoesOn`, `DeleteReturns` hold |
| `audio_buffer` | buffer and silence of 3 bytes, frames of 1 to 7, 12 bytes in all, 4 silences before the end, fair | `CopyInBounds`, `AudioContinues`, `Returns` hold |
| `lifecycle` | 3 calls of `loadStream` | `FreesWhatItOwns`, `ReaderLive`, `ContextsFreed`, `ReaderReleased` hold |
| `lifecycle_reader_leak` | 2 calls of `loadStream` | `AllReadersReleased` is violated |

The bounds.  With four slots and five packets the ring gets full, both indices
wrap around, the writer comes next to the slot on display, and the video ends
with a ring that is full, part full or empty; one packet less leaves out the
wrap of the write index.  Two videos are enough for anything one leaves behind
for the next; the second stream of a file is there for a stream that leaks.  Two
frames make a first and a last one, with a period of 40 ms so that a frame can be
early, due and late; `player_safety` has a third, which could be taken before the
second is due.  `FrameQueue`'s capacity of 3 limits only the decode thread, and
that is `VideoDecoder`'s subject.

Three packets let a thread read two of the other's before its own, and the end fall
anywhere between.  Two pieces are what it takes for a frame that is decoded in
advance while another is still to be split off, and so for a packet that waits in
the filter.  With room for one frame the decode thread sleeps on a full ring as
soon as it is one frame ahead; two change nothing (checked once, 257,878 distinct states).
A frame of seven bytes fills a buffer of three
twice over with one left, and three of one byte fill it exactly; the sizes 1024
and 64000 of the code have the same divisions.  Three loads are one that is given
up, one that is followed by another and one that is ignored.

Deadlock is checked in every run.  In `VideoDecoder` the only state without a
successor of its own is the deleted decoder with its thread gone (`Gone`).

### What the violated properties say

* **Deleting can hang** (`decoder_delete_hangs`).  The decode thread, back at the
  top of its loop after `continue`, passes its check and unlocks the mutex the
  client just took; both then are in their critical sections, the destructor's
  signal comes between the other's check and its wait, and `join` never returns.
  The player would freeze in `stop`.  Locking before `continue` and `break`
  would leave no unlock of a mutex another thread owns.
* **A frame never decoded** (`decoder_undecoded_frame`).  `nextVideoFrame` finds
  the ring empty, and the decode thread publishes before the next read: slot 0 is
  shown once, whose memory nobody has written.
* **A thread is never joined** (`decoder_thread_leak`).  The decode thread returns, as
  it does at the end of every video, and resets `running`; `join` and `~Thread` look at
  it afterwards, and neither joins nor detaches the thread.
* **The clock** (`player_stale_clock`).  `resume` writes `startTime` from
  `timeBeforePause` whatever happened since `pause`.
* **A reader is never released** (`lifecycle_reader_leak`).  Each `loadStream`
  makes a global reference to the reader, in the player a method reference that
  holds the player, and only the end of a decode thread deletes it.  After a load
  that failed there is none.

Also seen, and not made into runs: `nextVideoFrame` returns NULL with a frame left
when the last frame and the end come between its reads at lines 284 and 285; a
stream stays open for each `play` without the native library, whose constructor
throws after the stream was opened; a video without a frame never completes;
after a read that failed short of the end the thread's codec is drained although the
container goes on, and the packets of its stream the other thread queues after that are
neither decoded nor freed (the exceptions in `NothingLeftBehind` and `EndIsComplete`);
after an error of the video, of its codec or of such a read, the callback data is
zeroed although a client might still fetch audio through it (the exception in
`ReadsLiveReader`); a load that fails and is followed by another leaves its contexts
allocated (the exception in `ContextsFreed`); a decoder whose thread could not be
created is loaded all the same, and has no frame and no end; a decoding
error inside `avcodec_send_packet`, whose result nobody looks at, only skips a
packet, while one of the second piece of the same packet comes out of
`avcodec_receive_frame` and ends the video; `isBuffered()` is true on a ring that is not
full once the video has ended (`VideoDecoder.cpp:484` against
`VideoDecoder.h:124`), and the player's comment speaks of ten frames
(`BaseVideoVideoPlayer.java:293`) where there are four slots; `update` returns true for a frame that was shown before; the
sample application calls `update` only while `isBuffered()`
(`ArcApplication.java:185`), so that the end of a video, when the ring is empty,
is never noticed there.

### Fairness

`VideoDecoder!FairSpec`: both threads are scheduled (`WF` on `DecodeThread` and
on the steps of a call that was made) and a mutex that is free again and again
is got in the end (`SF` on the lock steps); the client need not call, and
spurious wakeups need not happen.  `VideoPlayer!FairSpec`: `VideoViewer.draw`
calls `update` every frame (`WF` on `Update`), calls run to their end, the decode
thread goes on while there is room, time passes, and a looping video's file is not missing for good (`SF` on `Loop`).
That the decode thread goes on is `Refills`, which `decoder_wakeup` checks for a mutex
that refuses foreign unlocks only: with one that releases a signal to it can be lost, and
then `Finishes` and `StartsOver` fail with it.
`Decoding!WholeSpec`: each thread runs on inside its loop (`WF` on the steps of the
decode thread, on `Cleanup` and on `AudioStep`) and gets a mutex that is free again
and again (`SF` on `Lock`); the client need not make another call, the container
ends because it has finitely many packets, and nothing is assumed of `WakeUp`.  So
`VideoGoesOn` excepts a thread that is never woken beside an empty ring, and
`DeleteReturns` speaks of one that is awake.  `AudioBuffer!FairSpec`: a call that was made runs
on.  `DecoderLifecycle` has no liveness property.

## Theorems

`VideoDecoder_proofs` holds for every ring of at least two slots, every number of
packets and both kinds of mutex.

| Theorem | Argument |
|---|---|
| `TypeCorrect` | inductive as it stands |
| `RingCorrect` | `RingInv`: `FramesInOrder`, and where the threads are: in the loop's body the ring has room (`ringFull` was read without a lock, but the client only makes room), a client about to take a frame has one, and the slot to be published holds its frame. `FramesInOrder` alone is not inductive: it does not say why the writer cannot publish into a full ring. The step is `WriteSlotFree`: the write slot differs from the slots of all frames from tail to head, since numbers less than `NumFrames` apart have different remainders (`ModDistinct`) |
| `FramesStayInOrder` | from `RingInv` |
| `HeldFrameStays` | `HeldInv`: the slot handed out is the tail's, which no write touches |
| `NothingUsedAfterFree` | `ThreadInv`: a thread that is alive has `running` set or its creator about to set it; so `join` skips the wait only for one that has left `run` |
| `OnlyStolenLocksLoseWakeups` | of every behaviour without `StealsLock`, a step of the decode thread that releases the lock the client holds; nothing is assumed of the mutex. `MutexInv`: from its check of the ring to its wait the decode thread holds the mutex, and the client changes the tail or the flag, and signals, only with it. `decoder_delete_hangs` has such a step, so the unlocks of lines 419 and 467 are the only cause of lost wakeups, and the cause is real |
| `HandsOutInOrder` | from `HeldInv` and `FramesInOrder`: the slot handed out holds the frame whose number is how many were taken. So the fault of `decoder_undecoded_frame` can happen only before the first frame was taken |
| `DecoderImplementsVideo` | the mapping of `ImplementsVideo`, under `RingInv` and `ThreadInv`: `Publish` maps to `Decode`, `ReceiveAgain` to `Send`, `Advance` to `Show`, `ReceiveEnd` and `DtorEnd` to `End`. The frame in hand between `ReceiveFrame` and `Publish` is still to come for the abstract codec, so everything else stutters (`MappedStream`) |
| `FramesAreConserved` | from the theorem of the same name in `DecodedVideo_proofs` by `PromiseIsKept`: if each packet has `least` to `most` frames, then the frames buffered, in hand and left in the codec are as many for the packets sent, whenever the client ends the video |
| `ThreadStopsSoon` | `StepsLeft` decreases with every step of the decode thread once `videoOutputEnded` is set, wherever in its loop that finds it: it decodes at most one more frame and waits at most once. Unless a wakeup is lost this is why `join` returns |

`AudioBuffer_proofs` holds for every buffer that is not empty, every silence that
fits the decoding buffer, and frames of every size up to it.

| Theorem | Argument |
|---|---|
| `CopiesInBounds` | `BoundsInv`: a copy is made only with room and with bytes unused, and between calls no room is left |
| `AudioIsContinued` | `DataInv`: the decoding buffer ends with the last byte decoded, and the bytes handed out so far, counted in `before` and in the buffer, are `Copied`. `AudioContinues` alone is not inductive: it does not say which byte comes next. The counting lemmas (`CountSilence`, `CountDecoded`) say what a copy adds |
| `CallsReturnSoon` | every step of a call lowers twice the bytes left, plus one while the next copy is to be decided: by `CopiesInBounds` a copy fills a byte or more |
| `TypeCorrect` | from the same invariant, as the copies are in bounds |

`DecoderLifecycle_proofs` holds for any number of loads.

| Theorem | Argument |
|---|---|
| `FreesOnlyItsOwn`, `ContextsAreFreed` | `FieldInv`: a field is NULL or its object is allocated and its own, and the fields the load has still to set (`Pending`) hold at most an earlier load's object; `OwnedInv`: what is allocated is in its field or was left by an earlier load. `Pending` is what makes it inductive: a field given twice by one load would lose an object of that load |
| `ReaderIsLive`, `ReaderIsReleased` | `ReaderInv`: until the stream is loaded there is no decode thread and the callback data is the last load's; afterwards no load replaces it |
| `TypeCorrect` | from the same invariant |

`Decoding_proofs` holds for any number of packets, packets of any number of pieces,
and every ring.

| Theorem | Argument |
|---|---|
| `OnlyOneReads` | `LockInv`: a thread owns `packetMutex` exactly from its test of the queue to its unlock, and what it found there stays true meanwhile |
| `PacketsStayInOrder` | inductive with `LockInv`, which says that the queue a packet is taken from is not empty and that there is no packet in hand; `ConsListOf` and `FrontListOf` say what pushing and popping do to a list of consecutive numbers |
| `NothingIsLeftBehind` | `EndInv`: who comes back without a packet is at the end (`AtEnd`): it met an error, or the container is read and its queue empty. `EndStays`: whoever is there stays there, whatever the other thread reads or fails to read. That a codec was told the end is not enough for the induction: the fact must be carried from the read, through the unlock, to the send |
| `SendsAreAccepted` | `CodecsInv`: while a packet is fetched no packet waits in the filter and the end was not announced, because `avcodec_receive_frame` said "again" (`ReceiveKeeps`), and only then is one sent (`SendKeeps`) |
| `EndsAreComplete` | `ReceiveKeeps`: "eof" comes only with nothing split, decoded in advance, delayed or waiting, also after an error; without one `EndInv` says that the container is read and the queue empty, and `PacketsInOrder` that all packets were sent |
| `ReadsTheLiveReader` | `ReaderInv`: the reader is given back only when the video loop is left, which without the destructor means its own end, and after the destructor the client is in no call; then `EndInv` for the video says that the container is read to its end, unless a read of the video's thread failed |
| `ReadingIsOnDemand` | inductive with `LockInv`: only who found its own queue empty reads (`TestEmpty` to `ReadPacket` under the mutex), so a packet that is put into the last empty queue is the reader's own, and it takes that one before it reads again |
| `LoopsComeNearer` | `Distance`: what is unread, and what a thread has queued, in hand or still to announce, weighed against the steps of a round. `NearerBy` says that finishing a step of the round, sending and reading each lower it; `OwnStep` and `OthersStep` say which step does which. What a thread reads for the other lowers `Unread` by one and adds one to the other's queue, which weighs half as much |
| `TypeCorrect` | from the same invariant |

`Streams_proofs` holds under the same conditions.

| Theorem | Argument |
|---|---|
| `StreamsAreImplemented` | the refinement, under the invariant of `Decoding_proofs` and `PositionInv` (of no stream more was read than of the container). `ReceiveLeft` and `SendLeft` say how each call changes `FramesLeft`, part by part of a context: splitting a packet and decoding in advance move frames, receiving takes away the one it returns, sending adds those of the packet. So each step of a loop is `Feed`, `Announce`, `Give` or none of them, and for the video the `Give` is the ring's `Put` (`WholeVideoStep`) |
| `RingStaysInOrder` | from `FramesAreOrdered` of `DecodedVideo_proofs` |

`DecodedVideo_proofs` holds for any packets, frames per packet and capacity.

| Theorem | Argument |
|---|---|
| `QueueIsImplemented`, `SourceIsImplemented` | each step is one of the part, or leaves its variables alone |
| `FramesAreOrdered` | inductive as it stands: the queue is the frames from the one after `shown` up to `produced` |
| `FramesAreConserved` | inductive with the types: sending a packet adds its frames to the codec's, `Decode` moves one to the queue |

`VideoPlayer_proofs` holds for any videos, frame rates and lengths.

| Theorem | Argument |
|---|---|
| `ChannelStaysOpen`, `SizesAlwaysFit` | `PhaseInv`: from `DisposeDecoder` until the file is opened there is no decoder, while it is loaded there is one without a thread, and only then are stream, channel and sizes replaced |
| `RenderFindsTexture` | `TextureInv`: a frame that is kept on display has a texture, and a decoder unless `stop` is between disposing of it and resetting the flag |
| `PlayerIsNeverAhead` | `DueInv`: a frame that is not kept on display is due now, and, when paused, was due at the time to which `resume` will set the clock; until the clock starts only the first frame can be on display. The second part is what makes it inductive: `resume` sets the clock back |
| `PausedPlayerStands` | `FramesInv`: until the first frame is drawn none is on display, and a paused `update` goes on only until then |
| `TimeIsKept` | `CarefulInv`: the clock stands until the video plays, and a paused video's `timeBeforePause` is the time played |
| `StreamsDoNotLeak` | assumes `LibraryLoads \subseteq {TRUE}`; `LeakInv`: without a decoder nothing is open but inside `stop`. Without the assumption the stream of a `play` whose decoder could not be constructed stays open |
| `TypeCorrect` | inductive as it stands |

Only model-checked: the liveness properties `Refills`, `DeleteFinishes`,
`Finishes`, `StartsOver`, `AudioReturns`, `VideoGoesOn`, `DeleteReturns` and
`Returns`, which are out of the prover's reach.  What is proved is what they rest on
besides fairness: that the steps of a thread lead somewhere (`LoopsComeNearer`,
`ThreadStopsSoon`, `CallsReturnSoon`) and when it may be left asleep
(`OnlyStolenLocksLoseWakeups`).  For the player, whose progress depends on the time as well,
nothing of the kind is proved.

## Not modelled

Nearly all of the repository's lines are FFmpeg's demuxers, codecs, scalers and
converters.  They are third-party code that this program calls through a few dozen
functions; of these the two with a protocol of their own are `CodecContext`, and the
others are nondeterministic results (a packet of any stream, a frame of any size, a
failure).  So the mapped lines are most of what `src/jni` and the player decide, and
a small share of all lines; modelling, say, a codec's arithmetic would say nothing
about this program.

Of the program itself: the length of silence in seconds, packets that are still
queued when the decoder is deleted and are never freed, `loadFile` (no caller),
listeners that call the player again, the factory and `EmptyVideoVideoPlayer` (flags
without a decoder behind them), drawing, logging, and weak memory.

## Plan

1. Done: `FrameQueue`, `CodedStream`, `DecodedVideo`, `VideoDecoder`, `VideoPlayer`, `CodecContext`,
   `PacketQueues`, `Decoding`, `AudioBuffer`, `DecoderLifecycle`, and the theorems
   about all of them.
2. Left: that every call of `update` brings a player nearer to the end of its video,
   once the decoder has ended.
