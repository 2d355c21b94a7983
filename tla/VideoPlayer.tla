----------------------------- MODULE VideoPlayer -----------------------------
(***************************************************************************)
(* The player: BaseVideoVideoPlayer, driven by the calls of one client on  *)
(* the application's thread, on top of a native decoder that fills a       *)
(* FrameQueue concurrently.                                                *)
(*                                                                         *)
(* play, stop and update are split where the decode thread can interleave: *)
(* at each use of the decoder and of the input stream.  There is no audio: *)
(* getMusic returns null in both desktop players, so audio is always null. *)
(***************************************************************************)
EXTENDS Integers, Sequences

CONSTANTS
  Files,         \* the videos, each of a size of its own
  MaxStreams,    \* bound: how many input streams of one file are open at once
  MaxFrames,     \* bound: the frames of a video
  FramePeriod,   \* the time between two frames, in units of 20 ms
  LibraryLoads   \* the results LibraryLoader.loadLibraries may have

ASSUME FilesAssumption == "null" \notin Files
ASSUME MaxStreamsAssumption == MaxStreams \in Nat \ {0}
ASSUME MaxFramesAssumption == MaxFrames \in Nat
ASSUME FramePeriodAssumption == FramePeriod \in Nat \ {0}
ASSUME LibraryLoadsAssumption == LibraryLoads \subseteq BOOLEAN

VARIABLES
  ppc,                      \* where the client's thread is in the player's methods
  after,                    \* where stop() returns to
  libraryLoaded,            \* LibraryLoader.loaded
  decoder,                  \* "none", "new" before loadStream succeeded, "loaded"
  video,                    \* the file the loaded decoder decodes
  queue, shown, produced, ended,  \* the decoder's frames, see FrameQueue
  inputStream, fileChannel,
  open,                     \* the input streams that are open
  currentFile,
  playing, paused, looping,
  isFirstFrame, showAlreadyDecodedFrame,
  sinceStart,               \* currentTimeMillis() - startTime, Never while startTime is 0
  timeBeforePause,
  currentVideoSize,         \* the video's width and height, named by the file
  texture,                  \* the size of the texture, NULL without one
  elapsed,                  \* how long the video has been playing, unpaused
  careful                   \* the client has paused and resumed only what played,
                            \* and not called play, stop or dispose while paused

frames == <<queue, shown, produced, ended>>
native == <<decoder, video, frames>>
streams == <<inputStream, fileChannel, open>>
files == <<libraryLoaded, streams, currentFile>>
firstFrame == <<isFirstFrame, showAlreadyDecodedFrame>>
time == <<sinceStart, timeBeforePause, elapsed>>
clock == <<time, careful>>
screen == <<currentVideoSize, texture>>
\* Everything but ppc.
rest == <<after, native, files, playing, paused, looping, firstFrame, clock, screen>>
vars == <<ppc, rest>>

NULL == "null"
Streams == [file : Files, id : 1 .. MaxStreams]
NoStream == [file |-> NULL, id |-> 0]

\* The presentation time of the k-th frame.  A slot nothing was decoded into
\* has pts 0.
Pts(k) == IF k = 0 THEN 0 ELSE (k - 1) * FramePeriod

\* Times are compared with presentation times only: one past the last frame's
\* stands for every later one.
Never == -1
MaxTime == MaxFrames * FramePeriod + 1
Later(t) == IF t < MaxTime THEN t + 1 ELSE MaxTime
CurrentVideoTime == IF sinceStart = Never THEN MaxTime ELSE sinceStart

Decoded == INSTANCE FrameQueue WITH Capacity <- 3

Step(from, to) == ppc = from /\ ppc' = to
-----------------------------------------------------------------------------
(* stop() and dispose(). *)

\* Faulty: the decoder is not disposed of.
StopStreamOnly(next) == playing' = FALSE /\ ppc' = "closeStream" /\ after' = next

\* stop() begins and continues with next once it is through.
Stop(next) == playing' = FALSE /\ ppc' = "disposeDecoder" /\ after' = next

\* The native destructor: the decode thread has ended when it returns.
DisposeDecoder ==
  /\ Step("disposeDecoder", "closeStream")
  /\ decoder' = "none" /\ video' = NULL
  /\ queue' = <<>> /\ shown' = 0 /\ produced' = 0 /\ ended' = FALSE
  /\ UNCHANGED <<after, files, playing, paused, looping, firstFrame, clock, screen>>

\* Faulty: the stream is forgotten, not closed.
ForgetInput == UNCHANGED open /\ inputStream' = NoStream

CloseInput == open' = open \ {inputStream} /\ inputStream' = NoStream

\* Faulty: startTime keeps its value.
KeepStartTime == UNCHANGED sinceStart

ResetStartTime == sinceStart' = Never

\* Faulty: what the last update found is kept.
ResetFirstFrame == isFirstFrame' = TRUE /\ UNCHANGED showAlreadyDecodedFrame

ResetFrames == isFirstFrame' = TRUE /\ showAlreadyDecodedFrame' = FALSE

CloseStream ==
  /\ Step("closeStream", after)
  /\ CloseInput /\ ResetStartTime /\ ResetFrames
  /\ UNCHANGED <<after, native, libraryLoaded, fileChannel, currentFile, playing, paused,
                 looping, timeBeforePause, elapsed, careful, screen>>

DisposeTexture ==
  /\ Step("disposeTexture", "idle")
  /\ texture' = NULL
  /\ UNCHANGED <<after, native, files, playing, paused, looping, firstFrame, clock,
                 currentVideoSize>>

-----------------------------------------------------------------------------
(* play().  A call that throws because the file does not exist changes      *)
(* nothing.                                                                 *)

LoadLibraries == \E loads \in LibraryLoads : libraryLoaded' = (libraryLoaded \/ loads)

\* What a call does before it opens the file, whoever makes it.
PlayFile(f) ==
  /\ LoadLibraries
  /\ currentFile' = f
  /\ IF decoder # "none"
     THEN Stop("open")
     ELSE ppc' = "open" /\ UNCHANGED <<playing, after>>
  /\ UNCHANGED <<native, streams, paused, looping, firstFrame, time, screen>>

Play ==
  /\ ppc = "idle"
  /\ careful' = (careful /\ ~paused)
  /\ \E f \in Files : PlayFile(f)

\* The file cannot be read.
OpenFails == Step("open", "idle") /\ UNCHANGED rest

\* The file is opened and the decoder constructed, which throws without the
\* native library.
Open ==
  /\ ppc = "open"
  /\ \E s \in Streams \ open :
       /\ s.file = currentFile
       /\ inputStream' = s /\ fileChannel' = s /\ open' = open \cup {s}
  /\ isFirstFrame' = TRUE
  /\ IF libraryLoaded
     THEN decoder' = "new" /\ ppc' = "load"
     ELSE ppc' = "idle" /\ UNCHANGED decoder
  /\ UNCHANGED <<after, libraryLoaded, video, frames, currentFile, playing, paused, looping,
                 showAlreadyDecodedFrame, clock, screen>>

\* loadStream throws, and play returns false.
LoadFails == Step("load", "idle") /\ UNCHANGED rest

\* Faulty: a texture of another size is kept.
KeepTexture == UNCHANGED texture

\* A texture of another size is disposed of.
FitTexture == texture' = IF texture # currentFile THEN NULL ELSE texture

Load ==
  /\ Step("load", "idle")
  /\ decoder' = "loaded" /\ video' = currentFile
  /\ currentVideoSize' = currentFile
  /\ FitTexture
  /\ playing' = TRUE
  /\ elapsed' = 0
  /\ UNCHANGED <<after, frames, files, paused, looping, firstFrame, sinceStart,
                 timeBeforePause, careful>>

-----------------------------------------------------------------------------
(* update(), with the reads of VideoDecoder::nextVideoFrame. *)

\* Faulty: a video that was paused before it began is played all the same.
WantsFrameOfNewVideo == ~paused \/ sinceStart = Never

\* A paused video is drawn once.
WantsFrame == ~paused \/ isFirstFrame

Update ==
  /\ ppc = "idle"
  /\ decoder # "none" /\ WantsFrame /\ playing
  /\ sinceStart' = IF ~paused /\ sinceStart = Never THEN 0 ELSE sinceStart
  /\ ppc' = IF showAlreadyDecodedFrame THEN "render" ELSE "hasFrame"
  /\ UNCHANGED <<after, native, files, playing, paused, looping, firstFrame,
                 timeBeforePause, elapsed, careful, screen>>

HasFrame ==
  /\ ppc = "hasFrame"
  /\ ppc' = IF queue # <<>> THEN "take" ELSE "readEnded"
  /\ UNCHANGED rest

ReadEnded ==
  /\ ppc = "readEnded"
  /\ ppc' = IF ended THEN "noFrame" ELSE "readTotal"
  /\ UNCHANGED rest

NothingYet == Step("readTotal", "noFrame") /\ produced = 0 /\ UNCHANGED rest

\* A buffer was returned: the frame goes into a texture of the video's size.
Upload ==
  /\ texture' = IF texture = NULL THEN currentVideoSize ELSE texture
  /\ UNCHANGED <<after, decoder, video, files, playing, paused, looping, firstFrame, clock,
                 currentVideoSize>>

TakeFrame == Step("take", "render") /\ Decoded!Take /\ Upload

\* There was a frame once, and it is returned again.
RepeatFrame ==
  /\ Step("readTotal", "render")
  /\ produced > 0
  /\ Upload /\ UNCHANGED frames

\* nextVideoFrame returned null before the first frame.
NoFirstFrame == Step("noFrame", "idle") /\ isFirstFrame /\ UNCHANGED rest

\* play throws before it does anything, because the file is gone, and update
\* throws with it.
LoopThrows == Step("noFrame", "idle") /\ ~isFirstFrame /\ looping /\ UNCHANGED rest

\* Faulty: nothing is played.
LoopForgets == LoopThrows

\* A looping video is played again.
Loop ==
  /\ ppc = "noFrame"
  /\ ~isFirstFrame /\ looping
  /\ PlayFile(currentFile)
  /\ UNCHANGED careful

\* The completion listener is called.
Complete ==
  /\ Step("noFrame", "idle")
  /\ ~isFirstFrame /\ ~looping
  /\ playing' = FALSE
  /\ UNCHANGED <<after, native, files, paused, looping, firstFrame, clock, screen>>

\* Faulty: a late frame is kept on display.
StillBehind == CurrentVideoTime - Pts(shown) > 1

\* The frame on display is more than 20 ms ahead of the time.
StillAhead == Pts(shown) - CurrentVideoTime > 1

\* renderVideoFrame draws the texture, and the frame stays on display while it
\* is early.
Render ==
  /\ Step("render", "idle")
  /\ isFirstFrame' = FALSE
  /\ showAlreadyDecodedFrame' = StillAhead
  /\ UNCHANGED <<after, native, files, playing, paused, looping, clock, screen>>

-----------------------------------------------------------------------------
(* The client's other calls. *)

StopCalled ==
  /\ ppc = "idle"
  /\ careful' = (careful /\ ~paused)
  /\ \/ Stop("idle")            \* stop()
     \/ Stop("disposeTexture")  \* dispose()
  /\ UNCHANGED <<native, files, paused, looping, firstFrame, time, screen>>

\* Faulty: a video that has not started is not told apart.
TimePlayedUnchecked == sinceStart

TimePlayed == IF sinceStart # Never THEN sinceStart ELSE 0

Pause ==
  /\ ppc = "idle"
  /\ careful' = (careful /\ playing)
  /\ ~paused /\ paused' = TRUE
  /\ timeBeforePause' = TimePlayed
  /\ UNCHANGED <<ppc, after, native, files, playing, looping, firstFrame, sinceStart,
                 elapsed, screen>>

\* Faulty: the time before the pause is lost.
RestartTime == sinceStart' = 0

ContinueTime == sinceStart' = timeBeforePause

Resume ==
  /\ ppc = "idle"
  /\ careful' = (careful /\ playing)
  /\ paused /\ paused' = FALSE
  /\ ContinueTime
  /\ UNCHANGED <<ppc, after, native, files, playing, looping, firstFrame, timeBeforePause,
                 elapsed, screen>>

SetLooping ==
  /\ ppc = "idle"
  /\ looping' = ~looping
  /\ UNCHANGED <<ppc, after, native, files, playing, paused, firstFrame, clock, screen>>

-----------------------------------------------------------------------------
(* The decode thread and the time. *)

DecoderOnly == UNCHANGED <<ppc, after, decoder, video, files, playing, paused, looping,
                           firstFrame, clock, screen>>

DecodeFrame ==
  /\ decoder = "loaded" /\ ~ended /\ produced < MaxFrames
  /\ Decoded!Put
  /\ DecoderOnly

\* The container's end or an error.
DecodeEnd ==
  /\ decoder = "loaded" /\ ~ended
  /\ Decoded!End
  /\ DecoderOnly

Tick ==
  /\ sinceStart # Never
  /\ sinceStart' = Later(sinceStart)
  /\ elapsed' = IF playing /\ ~paused THEN Later(elapsed) ELSE elapsed
  /\ UNCHANGED <<ppc, after, native, files, playing, paused, looping, firstFrame,
                 timeBeforePause, careful, screen>>

-----------------------------------------------------------------------------
Init ==
  /\ ppc = "idle" /\ after = "idle"
  /\ libraryLoaded = FALSE
  /\ decoder = "none" /\ video = NULL
  /\ Decoded!Init
  /\ inputStream = NoStream /\ fileChannel = NoStream /\ open = {}
  /\ currentFile = NULL
  /\ playing = FALSE /\ paused = FALSE /\ looping = FALSE
  /\ isFirstFrame = TRUE /\ showAlreadyDecodedFrame = FALSE
  /\ sinceStart = Never /\ timeBeforePause = 0 /\ elapsed = 0 /\ careful = TRUE
  /\ currentVideoSize = NULL /\ texture = NULL

StopSteps == DisposeDecoder \/ CloseStream \/ DisposeTexture
PlaySteps == OpenFails \/ Open \/ LoadFails \/ Load
UpdateSteps ==
  \/ HasFrame \/ ReadEnded \/ TakeFrame \/ RepeatFrame \/ NothingYet
  \/ NoFirstFrame \/ Loop \/ LoopThrows \/ Complete \/ Render
Calls == Play \/ StopCalled \/ Pause \/ Resume \/ SetLooping

Next ==
  \/ Update \/ UpdateSteps \/ PlaySteps \/ StopSteps \/ Calls
  \/ DecodeFrame \/ DecodeEnd
  \/ Tick

Spec == Init /\ [][Next]_vars

\* update() is called every frame and every call runs to its end, the decode
\* thread goes on while there is room, and time passes.  The client need not
\* make any other call.  The file of a looping video is not gone for good.
FairSpec ==
  /\ Spec
  /\ WF_vars(Update) /\ WF_vars(UpdateSteps) /\ WF_vars(PlaySteps) /\ WF_vars(StopSteps)
  /\ WF_vars(DecodeFrame \/ DecodeEnd) /\ WF_vars(Tick)
  /\ SF_vars(Loop)

-----------------------------------------------------------------------------
(* Properties. *)

Times == 0 .. MaxTime

\* Type correctness of the player's fields.
TypeOK ==
  /\ ppc \in {"idle", "disposeDecoder", "closeStream", "disposeTexture", "open", "load",
              "hasFrame", "readEnded", "readTotal", "take", "noFrame", "render"}
  /\ after \in {"idle", "disposeTexture", "open"}
  /\ decoder \in {"none", "new", "loaded"}
  /\ {video, currentFile, currentVideoSize, texture} \subseteq Files \cup {NULL}
  /\ queue \in Seq(1 .. MaxFrames) /\ {shown, produced} \subseteq 0 .. MaxFrames
  /\ {inputStream, fileChannel} \subseteq Streams \cup {NoStream} /\ open \subseteq Streams
  /\ sinceStart \in Times \cup {Never} /\ {timeBeforePause, elapsed} \subseteq Times
  /\ {libraryLoaded, ended, playing, paused, looping, isFirstFrame,
      showAlreadyDecodedFrame, careful} \subseteq BOOLEAN

\* As long as native code may call readFileContents, it reads an open stream of
\* the file it was given: no stop, play or loop, whatever the decode thread does
\* meanwhile, closes or replaces the channel under it.
ReadsOpenChannel ==
  /\ decoder = "loaded" /\ ~ended => fileChannel \in open /\ fileChannel.file = video
  /\ ppc = "load" => fileChannel \in open /\ fileChannel.file = currentFile

\* A playing video has a loaded decoder, and the texture its frames are uploaded
\* into and the sizes the upload passes are those of this video, not of one
\* played before it.
SizesFit ==
  playing => /\ decoder = "loaded" /\ currentVideoSize = video
             /\ texture \in {NULL, video}

\* renderVideoFrame has a texture to draw, also when update skips the decoder
\* because of what the last update, perhaps of another video, found.
RenderHasTexture == ppc = "render" => texture # NULL

\* A stream that is open is the current one, and there is none when the player
\* was disposed (VideoPlayer.java:151).
NoStreamLeak ==
  /\ open \subseteq {inputStream}
  /\ ppc = "disposeTexture" => open = {}

\* The video's time is the time it has been playing: pausing stops the clock,
\* resuming continues it and every video starts it anew
\* (BaseVideoVideoPlayer.java:224-225).
ClockIsTimePlayed == playing /\ ~paused /\ sinceStart # Never => sinceStart = elapsed

\* So it is for a client that pauses and resumes only what plays, whatever else
\* it calls and wherever the video loops.
TimeKept == careful => ClockIsTimePlayed

\* The player takes a frame only when the one on display is due within 20 ms:
\* pausing and resuming never make it run ahead.
NeverAhead ==
  [][ppc = "take" /\ ppc' = "render" => Pts(shown) - CurrentVideoTime =< 1]_vars

\* A paused player stands still: it shows no frame after the one on display, and
\* of a video that is played while paused none but the first, whatever was
\* stopped, played and drawn before (BaseVideoVideoPlayer.java:201, 222).
PausedStandsStill == [][paused /\ shown > 0 => shown' \in {0, shown}]_vars

\* A video with frames is played to its end, unless it is paused or loops.
Finishes == (playing /\ produced > 0) ~> (~playing \/ paused \/ looping)

\* A looping video that ended starts over: update comes to call play, which
\* replaces the decoder, unless opening or loading the file fails
\* (BaseVideoVideoPlayer.java:245-254).
StartsOver ==
  (playing /\ looping /\ ended /\ produced > 0)
    ~> (playing /\ ~ended) \/ ~looping \/ paused \/ (ppc = "idle" /\ ~playing)
=============================================================================
