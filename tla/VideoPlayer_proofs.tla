------------------------- MODULE VideoPlayer_proofs -------------------------
(***************************************************************************)
(* Theorems about the player, for every set of videos, every length and    *)
(* frame rate and however often update is called and frames are late.      *)
(***************************************************************************)
EXTENDS VideoPlayer, FrameSequences, TLAPS

-----------------------------------------------------------------------------
(* The inductive invariant. *)

Stopping == {"disposeDecoder", "closeStream", "disposeTexture", "open", "load"}
Updating == {"hasFrame", "readEnded", "readTotal", "take", "noFrame", "render"}

\* What is there while play and stop are under way and while update is.
PhaseInv ==
  /\ ppc \in {"closeStream", "disposeTexture", "open"} => decoder = "none"
  /\ ppc = "load" => decoder = "new"
  /\ ppc \in Stopping => ~playing
  /\ ppc \in Updating => playing /\ (paused => isFirstFrame) /\ (~paused => sinceStart # Never)
  /\ ppc \in Updating \ {"render"} => ~showAlreadyDecodedFrame
  /\ decoder = "loaded" => video \in Files

\* The frame on display is a texture's, and is forgotten with its decoder.
TextureInv ==
  /\ RenderHasTexture
  /\ showAlreadyDecodedFrame => texture # NULL /\ (decoder = "loaded" \/ ppc = "closeStream")

\* The decoder's frames are consecutive, and until the first was drawn there is
\* none on display.
FramesInv ==
  /\ shown =< produced /\ queue = FramesAfter(shown, produced - shown)
  /\ decoder # "loaded" => produced = 0
  /\ isFirstFrame => shown = 0 \/ (ppc = "render" /\ shown = 1)

\* A frame that is not kept on display is due, also by the time to which a paused
\* video will be resumed, and the time starts with the first frame.
DueInv ==
  /\ sinceStart = Never => shown \in {0, 1}
  /\ ~showAlreadyDecodedFrame /\ ppc # "render" => Pts(shown) - CurrentVideoTime =< 1
  /\ ~showAlreadyDecodedFrame /\ paused => Pts(shown) - timeBeforePause =< 1

\* With a careful client the clock is kept through pauses, and does not run
\* before the video does.
CarefulInv ==
  careful =>
    /\ ClockIsTimePlayed
    /\ decoder # "loaded" /\ ppc # "closeStream" => sinceStart = Never
    /\ playing /\ sinceStart = Never => elapsed = 0
    /\ playing /\ paused => timeBeforePause = elapsed
    /\ ppc \in Stopping => ~paused

\* When the library loads, a stream is open only while there is a decoder for it.
LeakInv ==
  /\ NoStreamLeak
  /\ decoder = "none" /\ ppc # "closeStream" => open = {}
  /\ ppc = "open" \/ (ppc \in {"disposeDecoder", "closeStream"} /\ after = "open")
       => libraryLoaded

Inv == TypeOK /\ PhaseInv /\ TextureInv /\ FramesInv /\ ReadsOpenChannel /\ SizesFit

-----------------------------------------------------------------------------
(* Times. *)

LEMMA ProductType ==
  ASSUME NEW a \in Nat, NEW b \in Nat
  PROVE  a * b \in Nat
OBVIOUS

LEMMA TimeFacts ==
  /\ MaxTime \in Nat \ {0} /\ Never \notin Times /\ 0 \in Times /\ MaxTime \in Times
  /\ \A t \in Times : Later(t) \in Times /\ t =< Later(t)
<1>1. MaxFrames * FramePeriod \in Nat
  BY ProductType, MaxFramesAssumption, FramePeriodAssumption
<1>2. MaxTime \in Nat \ {0}
  BY <1>1 DEF MaxTime
<1>3. ASSUME NEW t \in Times PROVE Later(t) \in Times /\ t =< Later(t)
  BY <1>2 DEF Times, Later
<1> QED BY <1>2, <1>3 DEF Times, Never

\* The first frame is presented at 0, as one that was never decoded is.
LEMMA PtsFacts ==
  /\ Pts(0) = 0 /\ Pts(1) = 0
  /\ \A k \in Nat : Pts(k) \in Nat
<1>1. Pts(0) = 0
  BY DEF Pts
<1>2. 0 * FramePeriod = 0
  BY FramePeriodAssumption
<1>3. Pts(1) = 0
  BY <1>2 DEF Pts
<1>4. ASSUME NEW k \in Nat PROVE Pts(k) \in Nat
  <2>1. CASE k = 0
    BY <1>1, <2>1
  <2>2. CASE k # 0
    <3>1. k - 1 \in Nat
      BY <2>2
    <3>2. (k - 1) * FramePeriod \in Nat
      BY <3>1, ProductType, FramePeriodAssumption
    <3> QED BY <2>2, <3>2 DEF Pts
  <2> QED BY <2>1, <2>2
<1> QED BY <1>1, <1>3, <1>4

-----------------------------------------------------------------------------
(* Types. *)

\* The rest of a sequence is one.
LEMMA TailType ==
  ASSUME NEW S, NEW s \in Seq(S), s # <<>>
  PROVE  Tail(s) \in Seq(S) /\ Head(s) \in S
OBVIOUS

\* No step leaves the types.
LEMMA TypeStep == TypeOK /\ [Next]_vars => TypeOK'
<1> SUFFICES ASSUME TypeOK, [Next]_vars PROVE TypeOK'
  OBVIOUS
<1> USE DEF TypeOK, Step, rest, vars, native, frames, streams, files, firstFrame, time, clock,
            screen
<1>1. CASE Play \/ Loop
  BY <1>1, LibraryLoadsAssumption DEF Play, Loop, PlayFile, LoadLibraries, Stop
<1>2. CASE OpenFails \/ LoadFails \/ HasFrame \/ ReadEnded \/ NothingYet \/ NoFirstFrame
             \/ LoopThrows \/ UNCHANGED vars
  BY <1>2 DEF OpenFails, LoadFails, HasFrame, ReadEnded, NothingYet, NoFirstFrame, LoopThrows
<1>3. CASE Open
  BY <1>3 DEF Open
<1>4. CASE Load
  BY <1>4, TimeFacts DEF Load, FitTexture
<1>5. CASE DisposeDecoder
  <2>1. queue' \in Seq(1 .. MaxFrames) /\ 0 \in 0 .. MaxFrames
    BY <1>5, MaxFramesAssumption DEF DisposeDecoder
  <2>2. shown' \in 0 .. MaxFrames /\ produced' \in 0 .. MaxFrames
    BY <1>5, <2>1 DEF DisposeDecoder
  <2>3. {video, currentFile, currentVideoSize, texture}' \subseteq Files \cup {NULL}
    BY <1>5 DEF DisposeDecoder
  <2>4. {libraryLoaded, ended, playing, paused, looping, isFirstFrame,
         showAlreadyDecodedFrame, careful}' \subseteq BOOLEAN
    BY <1>5 DEF DisposeDecoder
  <2> QED BY <1>5, <2>1, <2>2, <2>3, <2>4 DEF DisposeDecoder
<1>6. CASE CloseStream
  BY <1>6 DEF CloseStream, CloseInput, ResetStartTime, ResetFrames
<1>7. CASE DisposeTexture
  BY <1>7 DEF DisposeTexture
<1>8. CASE Update
  BY <1>8, TimeFacts DEF Update
<1>9. CASE TakeFrame
  <2>1. Head(queue) \in 1 .. MaxFrames /\ Tail(queue) \in Seq(1 .. MaxFrames)
    BY <1>9, TailType DEF TakeFrame, Decoded!Take
  <2>2. Head(queue) \in 0 .. MaxFrames
    BY <2>1, MaxFramesAssumption
  <2>3. queue' \in Seq(1 .. MaxFrames) /\ {shown, produced}' \subseteq 0 .. MaxFrames
    BY <1>9, <2>1, <2>2 DEF TakeFrame, Decoded!Take
  <2> QED BY <1>9, <2>3 DEF TakeFrame, Decoded!Take, Upload
<1>10. CASE RepeatFrame
  BY <1>10 DEF RepeatFrame, Upload
<1>11. CASE Complete \/ Render
  <2>1. StillAhead \in BOOLEAN
    BY DEF StillAhead
  <2> QED BY <1>11, <2>1 DEF Complete, Render
<1>12. CASE StopCalled
  BY <1>12 DEF StopCalled, Stop
<1>13. CASE Pause \/ Resume
  BY <1>13, TimeFacts DEF Pause, Resume, TimePlayed, ContinueTime
<1>14. CASE SetLooping
  BY <1>14 DEF SetLooping
<1>15. CASE DecodeFrame
  <2>1. produced + 1 \in 1 .. MaxFrames /\ produced + 1 \in 0 .. MaxFrames
    BY <1>15, MaxFramesAssumption DEF DecodeFrame
  <2>2. queue' \in Seq(1 .. MaxFrames)
    BY <1>15, <2>1 DEF DecodeFrame, Decoded!Put
  <2> QED BY <1>15, <2>1, <2>2 DEF DecodeFrame, Decoded!Put, DecoderOnly
<1>16. CASE DecodeEnd
  BY <1>16 DEF DecodeEnd, Decoded!End, DecoderOnly
<1>17. CASE Tick
  BY <1>17, TimeFacts DEF Tick
<1> QED BY <1>1, <1>2, <1>3, <1>4, <1>5, <1>6, <1>7, <1>8, <1>9, <1>10, <1>11, <1>12, <1>13,
          <1>14, <1>15, <1>16, <1>17
        DEF Next, UpdateSteps, PlaySteps, StopSteps, Calls

-----------------------------------------------------------------------------
(* The steps keep the invariant. *)

\* Between the steps of play, stop and update the decoder is where they left it.
LEMMA PhaseStep == TypeOK /\ PhaseInv /\ ReadsOpenChannel /\ SizesFit /\ [Next]_vars => PhaseInv'
<1> SUFFICES ASSUME TypeOK, PhaseInv, ReadsOpenChannel, SizesFit, [Next]_vars PROVE PhaseInv'
  OBVIOUS
<1> USE DEF TypeOK, Step, rest, vars, native, frames, streams, files, firstFrame, time, clock,
            screen, PhaseInv, Stopping, Updating
<1>1. CASE Play \/ Loop
  BY <1>1 DEF SizesFit, Play, Loop, PlayFile, LoadLibraries, Stop
<1>2. CASE OpenFails \/ LoadFails \/ HasFrame \/ ReadEnded \/ NothingYet \/ NoFirstFrame
             \/ LoopThrows \/ UNCHANGED vars
  BY <1>2 DEF OpenFails, LoadFails, HasFrame, ReadEnded, NothingYet, NoFirstFrame, LoopThrows
<1>3. CASE Open
  BY <1>3 DEF Open
<1>4. CASE Load
  <2>1. fileChannel \in Streams /\ fileChannel.file = currentFile
    BY <1>4 DEF Load, ReadsOpenChannel
  <2>2. currentFile \in Files
    BY <2>1 DEF Streams
  <2> QED BY <1>4, <2>2 DEF Load
<1>5. CASE DisposeDecoder
  BY <1>5 DEF DisposeDecoder
<1>6. CASE CloseStream
  BY <1>6 DEF CloseStream, CloseInput, ResetStartTime, ResetFrames
<1>7. CASE DisposeTexture
  BY <1>7 DEF DisposeTexture
<1>8. CASE Update
  BY <1>8 DEF Never, Update, WantsFrame
<1>9. CASE TakeFrame
  BY <1>9 DEF TakeFrame, Decoded!Take, Upload
<1>10. CASE RepeatFrame
  BY <1>10 DEF RepeatFrame, Upload
<1>11. CASE Complete \/ Render
  BY <1>11 DEF Complete, Render, StillAhead
<1>12. CASE StopCalled
  BY <1>12 DEF StopCalled, Stop
<1>13. CASE Pause \/ Resume
  BY <1>13 DEF Pause, Resume, TimePlayed, ContinueTime
<1>14. CASE SetLooping
  BY <1>14 DEF SetLooping
<1>15. CASE DecodeFrame
  BY <1>15 DEF DecodeFrame, Decoded!Put, DecoderOnly
<1>16. CASE DecodeEnd
  BY <1>16 DEF DecodeEnd, Decoded!End, DecoderOnly
<1>17. CASE Tick
  BY <1>17, TimeFacts DEF Tick
<1> QED BY <1>1, <1>2, <1>3, <1>4, <1>5, <1>6, <1>7, <1>8, <1>9, <1>10, <1>11, <1>12, <1>13,
          <1>14, <1>15, <1>16, <1>17
        DEF Next, UpdateSteps, PlaySteps, StopSteps, Calls

\* The channel is replaced and its stream closed only without a decoder.
LEMMA ChannelStep == TypeOK /\ PhaseInv /\ ReadsOpenChannel /\ [Next]_vars => ReadsOpenChannel'
<1> SUFFICES ASSUME TypeOK, PhaseInv, ReadsOpenChannel, [Next]_vars PROVE ReadsOpenChannel'
  OBVIOUS
<1> USE DEF TypeOK, Step, rest, vars, native, frames, streams, files, firstFrame, time, clock,
            screen, PhaseInv, ReadsOpenChannel, Stopping, Updating
<1>1. CASE Play \/ Loop
  BY <1>1 DEF Play, Loop, PlayFile, LoadLibraries, Stop
<1>2. CASE OpenFails \/ LoadFails \/ HasFrame \/ ReadEnded \/ NothingYet \/ NoFirstFrame
             \/ LoopThrows \/ UNCHANGED vars
  BY <1>2 DEF OpenFails, LoadFails, HasFrame, ReadEnded, NothingYet, NoFirstFrame, LoopThrows
<1>3. CASE Open
  BY <1>3 DEF Open
<1>4. CASE Load
  BY <1>4 DEF Load, FitTexture
<1>5. CASE DisposeDecoder
  BY <1>5 DEF DisposeDecoder
<1>6. CASE CloseStream
  BY <1>6 DEF CloseStream, CloseInput, ResetStartTime, ResetFrames
<1>7. CASE DisposeTexture
  BY <1>7 DEF DisposeTexture
<1>8. CASE Update
  BY <1>8 DEF Update, WantsFrame
<1>9. CASE TakeFrame
  BY <1>9 DEF TakeFrame, Decoded!Take, Upload
<1>10. CASE RepeatFrame
  BY <1>10 DEF RepeatFrame, Upload
<1>11. CASE Complete \/ Render
  BY <1>11 DEF Complete, Render, StillAhead
<1>12. CASE StopCalled
  BY <1>12 DEF StopCalled, Stop
<1>13. CASE Pause \/ Resume
  BY <1>13 DEF Pause, Resume, TimePlayed, ContinueTime
<1>14. CASE SetLooping
  BY <1>14 DEF SetLooping
<1>15. CASE DecodeFrame
  BY <1>15 DEF DecodeFrame, Decoded!Put, DecoderOnly
<1>16. CASE DecodeEnd
  BY <1>16 DEF DecodeEnd, Decoded!End, DecoderOnly
<1>17. CASE Tick
  BY <1>17 DEF Tick
<1> QED BY <1>1, <1>2, <1>3, <1>4, <1>5, <1>6, <1>7, <1>8, <1>9, <1>10, <1>11, <1>12, <1>13,
          <1>14, <1>15, <1>16, <1>17
        DEF Next, UpdateSteps, PlaySteps, StopSteps, Calls

\* The sizes are those of the video whenever it plays.
LEMMA SizesStep == TypeOK /\ PhaseInv /\ SizesFit /\ [Next]_vars => SizesFit'
<1> SUFFICES ASSUME TypeOK, PhaseInv, SizesFit, [Next]_vars PROVE SizesFit'
  OBVIOUS
<1> USE DEF TypeOK, Step, rest, vars, native, frames, streams, files, firstFrame, time, clock,
            screen, PhaseInv, SizesFit, Stopping, Updating
<1>1. CASE Play \/ Loop
  BY <1>1 DEF Play, Loop, PlayFile, LoadLibraries, Stop
<1>2. CASE OpenFails \/ LoadFails \/ HasFrame \/ ReadEnded \/ NothingYet \/ NoFirstFrame
             \/ LoopThrows \/ UNCHANGED vars
  BY <1>2 DEF OpenFails, LoadFails, HasFrame, ReadEnded, NothingYet, NoFirstFrame, LoopThrows
<1>3. CASE Open
  BY <1>3 DEF Open
<1>4. CASE Load
  BY <1>4 DEF Load, FitTexture
<1>5. CASE DisposeDecoder
  BY <1>5 DEF DisposeDecoder
<1>6. CASE CloseStream
  BY <1>6 DEF CloseStream, CloseInput, ResetStartTime, ResetFrames
<1>7. CASE DisposeTexture
  BY <1>7 DEF DisposeTexture
<1>8. CASE Update
  BY <1>8 DEF Update, WantsFrame
<1>9. CASE TakeFrame
  BY <1>9 DEF TakeFrame, Decoded!Take, Upload
<1>10. CASE RepeatFrame
  BY <1>10 DEF RepeatFrame, Upload
<1>11. CASE Complete \/ Render
  BY <1>11 DEF Complete, Render, StillAhead
<1>12. CASE StopCalled
  BY <1>12 DEF StopCalled, Stop
<1>13. CASE Pause \/ Resume
  BY <1>13 DEF Pause, Resume, TimePlayed, ContinueTime
<1>14. CASE SetLooping
  BY <1>14 DEF SetLooping
<1>15. CASE DecodeFrame
  BY <1>15 DEF DecodeFrame, Decoded!Put, DecoderOnly
<1>16. CASE DecodeEnd
  BY <1>16 DEF DecodeEnd, Decoded!End, DecoderOnly
<1>17. CASE Tick
  BY <1>17 DEF Tick
<1> QED BY <1>1, <1>2, <1>3, <1>4, <1>5, <1>6, <1>7, <1>8, <1>9, <1>10, <1>11, <1>12, <1>13,
          <1>14, <1>15, <1>16, <1>17
        DEF Next, UpdateSteps, PlaySteps, StopSteps, Calls

\* A frame that is kept on display keeps its texture.
LEMMA TextureStep == TypeOK /\ PhaseInv /\ SizesFit /\ TextureInv /\ [Next]_vars => TextureInv'
<1> SUFFICES ASSUME TypeOK, PhaseInv, SizesFit, TextureInv, [Next]_vars PROVE TextureInv'
  OBVIOUS
<1> USE DEF TypeOK, Step, rest, vars, native, frames, streams, files, firstFrame, time, clock,
            screen, PhaseInv, SizesFit, TextureInv, RenderHasTexture, Stopping, Updating
<1>1. CASE Play \/ Loop
  BY <1>1 DEF Play, Loop, PlayFile, LoadLibraries, Stop
<1>2. CASE OpenFails \/ LoadFails \/ HasFrame \/ ReadEnded \/ NothingYet \/ NoFirstFrame
             \/ LoopThrows \/ UNCHANGED vars
  BY <1>2 DEF OpenFails, LoadFails, HasFrame, ReadEnded, NothingYet, NoFirstFrame, LoopThrows
<1>3. CASE Open
  BY <1>3 DEF Open
<1>4. CASE Load
  BY <1>4 DEF Load, FitTexture
<1>5. CASE DisposeDecoder
  BY <1>5 DEF DisposeDecoder
<1>6. CASE CloseStream
  BY <1>6 DEF CloseStream, CloseInput, ResetStartTime, ResetFrames
<1>7. CASE DisposeTexture
  BY <1>7 DEF DisposeTexture
<1>8. CASE Update
  BY <1>8 DEF Update, WantsFrame
<1>9. CASE TakeFrame
  BY <1>9, FilesAssumption DEF NULL, TakeFrame, Decoded!Take, Upload
<1>10. CASE RepeatFrame
  BY <1>10, FilesAssumption DEF NULL, RepeatFrame, Upload
<1>11. CASE Complete \/ Render
  BY <1>11 DEF Complete, Render, StillAhead
<1>12. CASE StopCalled
  BY <1>12 DEF StopCalled, Stop
<1>13. CASE Pause \/ Resume
  BY <1>13 DEF Pause, Resume, TimePlayed, ContinueTime
<1>14. CASE SetLooping
  BY <1>14 DEF SetLooping
<1>15. CASE DecodeFrame
  BY <1>15 DEF DecodeFrame, Decoded!Put, DecoderOnly
<1>16. CASE DecodeEnd
  BY <1>16 DEF DecodeEnd, Decoded!End, DecoderOnly
<1>17. CASE Tick
  BY <1>17 DEF Tick
<1> QED BY <1>1, <1>2, <1>3, <1>4, <1>5, <1>6, <1>7, <1>8, <1>9, <1>10, <1>11, <1>12, <1>13,
          <1>14, <1>15, <1>16, <1>17
        DEF Next, UpdateSteps, PlaySteps, StopSteps, Calls

\* The numbers of frames.
LEMMA Counts ==
  ASSUME TypeOK
  PROVE  shown \in Nat /\ produced \in Nat
BY MaxFramesAssumption DEF TypeOK

\* The frame that is taken is the next.
LEMMA Taken ==
  ASSUME TypeOK, FramesInv, TakeFrame
  PROVE  /\ shown' = shown + 1 /\ shown' =< produced' /\ produced' = produced
         /\ queue' = FramesAfter(shown', produced' - shown')
<1>1. PICK n \in Nat : n = produced - shown /\ queue = FramesAfter(shown, n)
  BY Counts DEF FramesInv
<1>2. queue # <<>> /\ shown' = Head(queue) /\ queue' = Tail(queue) /\ produced' = produced
  BY DEF TakeFrame, Decoded!Take
<1>3. n > 0
  <2>1. PICK k \in Nat : k = shown
    BY Counts
  <2>2. FramesAfter(k, 0) = <<>>
    BY FramesAfterFacts
  <2> QED BY <1>1, <1>2, <2>1, <2>2
<1>4. Head(queue) = shown + 1 /\ Tail(queue) = FramesAfter(shown + 1, n - 1)
  <2>1. PICK k \in Nat : k = shown
    BY Counts
  <2>2. Head(FramesAfter(k, n)) = k + 1 /\ Tail(FramesAfter(k, n)) = FramesAfter(k + 1, n - 1)
    BY <1>3, FramesAfterFacts
  <2> QED BY <1>1, <2>1, <2>2
<1>5. /\ shown' = shown + 1 /\ shown' =< produced' /\ produced' - shown' = n - 1
      /\ queue' = FramesAfter(shown', produced' - shown')
  BY <1>1, <1>2, <1>3, <1>4, Counts
<1> QED BY <1>2, <1>5

\* The frames keep their order, and the first is shown before isFirstFrame is reset.
LEMMA FramesStep == TypeOK /\ PhaseInv /\ FramesInv /\ [Next]_vars => FramesInv'
<1> SUFFICES ASSUME TypeOK, PhaseInv, FramesInv, [Next]_vars PROVE FramesInv'
  OBVIOUS
<1> USE DEF TypeOK, Step, rest, vars, native, frames, streams, files, firstFrame, time, clock,
            screen, PhaseInv, FramesInv, Stopping, Updating
<1>1. CASE Play \/ Loop
  BY <1>1 DEF Play, Loop, PlayFile, LoadLibraries, Stop
<1>2. CASE OpenFails \/ LoadFails \/ HasFrame \/ ReadEnded \/ NothingYet \/ NoFirstFrame
             \/ LoopThrows \/ UNCHANGED vars
  BY <1>2 DEF OpenFails, LoadFails, HasFrame, ReadEnded, NothingYet, NoFirstFrame, LoopThrows
<1>3. CASE Open
  BY <1>3, Counts DEF Open
<1>4. CASE Load
  BY <1>4 DEF Load, FitTexture
<1>5. CASE DisposeDecoder
  <2>1. FramesAfter(0, 0) = <<>>
    BY FramesAfterFacts
  <2> QED BY <1>5, <2>1 DEF DisposeDecoder
<1>6. CASE CloseStream
  BY <1>6, Counts DEF CloseStream, CloseInput, ResetStartTime, ResetFrames
<1>7. CASE DisposeTexture
  BY <1>7 DEF DisposeTexture
<1>8. CASE Update
  BY <1>8 DEF Update, WantsFrame
<1>9. CASE TakeFrame
  <2>1. UNCHANGED <<decoder, isFirstFrame>> /\ ppc = "take" /\ ppc' = "render"
    BY <1>9 DEF TakeFrame, Upload
  <2> QED BY <1>9, <2>1, Taken
<1>10. CASE RepeatFrame
  BY <1>10 DEF RepeatFrame, Upload
<1>11. CASE Complete \/ Render
  BY <1>11 DEF Complete, Render, StillAhead
<1>12. CASE StopCalled
  BY <1>12 DEF StopCalled, Stop
<1>13. CASE Pause \/ Resume
  BY <1>13 DEF Pause, Resume, TimePlayed, ContinueTime
<1>14. CASE SetLooping
  BY <1>14 DEF SetLooping
<1>15. CASE DecodeFrame
  <2>1. PICK n \in Nat : n = produced - shown /\ queue = FramesAfter(shown, n)
    BY Counts
  <2>2. /\ queue' = Append(queue, produced + 1) /\ produced' = produced + 1 /\ shown' = shown
        /\ decoder = "loaded" /\ UNCHANGED <<decoder, isFirstFrame, ppc>>
    BY <1>15 DEF DecodeFrame, Decoded!Put, DecoderOnly
  <2>3. Append(queue, shown + n + 1) = FramesAfter(shown, n + 1)
    <3>1. PICK k \in Nat : k = shown
      BY Counts
    <3>2. Append(FramesAfter(k, n), k + n + 1) = FramesAfter(k, n + 1)
      BY FramesAfterFacts
    <3> QED BY <2>1, <3>1, <3>2
  <2>4. shown + n + 1 = produced + 1 /\ produced' - shown' = n + 1 /\ shown' =< produced'
    BY <2>1, <2>2, Counts
  <2> QED BY <2>2, <2>3, <2>4
<1>16. CASE DecodeEnd
  BY <1>16 DEF DecodeEnd, Decoded!End, DecoderOnly
<1>17. CASE Tick
  BY <1>17 DEF Tick
<1> QED BY <1>1, <1>2, <1>3, <1>4, <1>5, <1>6, <1>7, <1>8, <1>9, <1>10, <1>11, <1>12, <1>13,
          <1>14, <1>15, <1>16, <1>17
        DEF Next, UpdateSteps, PlaySteps, StopSteps, Calls

\* The times and what is on display, as numbers.
LEMMA Numbers ==
  ASSUME TypeOK
  PROVE  /\ CurrentVideoTime \in Nat /\ timeBeforePause \in Nat /\ Pts(shown) \in Nat
         /\ sinceStart # Never => CurrentVideoTime = sinceStart /\ sinceStart \in Times
         /\ shown \in {0, 1} => Pts(shown) = 0
<1>1. CurrentVideoTime \in Nat /\ timeBeforePause \in Nat
  BY TimeFacts DEF TypeOK, Times, CurrentVideoTime
<1>2. Pts(shown) \in Nat
  BY Counts, PtsFacts
<1>3. shown \in {0, 1} => Pts(shown) = 0
  BY PtsFacts
<1> QED BY <1>1, <1>2, <1>3 DEF TypeOK, CurrentVideoTime

\* What is on display stays due, whatever pause and resume do to the time.
LEMMA DueStep == TypeOK /\ TypeOK' /\ PhaseInv /\ FramesInv /\ DueInv /\ [Next]_vars => DueInv'
<1> SUFFICES ASSUME TypeOK, TypeOK', PhaseInv, FramesInv, DueInv, [Next]_vars PROVE DueInv'
  OBVIOUS
<1> USE DEF TypeOK, Step, rest, vars, native, frames, streams, files, firstFrame, time, clock,
            screen, PhaseInv, DueInv, CurrentVideoTime, Stopping, Updating
<1>0. /\ shown' \in {0, 1} => /\ Pts(shown') - CurrentVideoTime' =< 1
                               /\ Pts(shown') - timeBeforePause' =< 1
  <2>1. ASSUME NEW k \in {0, 1}, NEW c \in Nat PROVE Pts(k) - c =< 1
    <3>1. Pts(k) = 0
      BY PtsFacts
    <3> QED BY <3>1
  <2>2. sinceStart' \in Times \cup {Never} /\ timeBeforePause' \in Times
    OBVIOUS
  <2>3. CurrentVideoTime' \in Nat /\ timeBeforePause' \in Nat
    BY <2>2, TimeFacts DEF Times
  <2> HIDE DEF CurrentVideoTime
  <2> QED BY <2>1, <2>3
<1>1. CASE Play \/ Loop
  BY <1>1 DEF Play, Loop, PlayFile, LoadLibraries, Stop
<1>2. CASE OpenFails \/ LoadFails \/ HasFrame \/ ReadEnded \/ NothingYet \/ NoFirstFrame
             \/ LoopThrows \/ UNCHANGED vars
  BY <1>2 DEF OpenFails, LoadFails, HasFrame, ReadEnded, NothingYet, NoFirstFrame, LoopThrows
<1>3. CASE Open
  BY <1>3 DEF Open
<1>4. CASE Load
  BY <1>4 DEF Load, FitTexture
<1>5. CASE DisposeDecoder
  BY <1>5, <1>0 DEF DisposeDecoder
<1>6. CASE CloseStream
  <2>1. shown' = 0
    BY <1>6, Counts DEF CloseStream, FramesInv
  <2> QED BY <1>6, <1>0, <2>1 DEF CloseStream, CloseInput, ResetStartTime, ResetFrames
<1>7. CASE DisposeTexture
  BY <1>7 DEF DisposeTexture
<1>8. CASE Update
  BY <1>8, <1>0, Numbers DEF Update
<1>9. CASE TakeFrame
  <2>1. shown' = shown + 1
    BY <1>9, Taken
  <2>2. paused \/ sinceStart = Never => shown = 0
    BY <1>9 DEF TakeFrame, FramesInv
  <2>3. paused \/ sinceStart = Never => shown' = 1
    BY <2>1, <2>2
  <2> QED BY <1>9, <1>0, <2>3 DEF TakeFrame, Upload
<1>10. CASE RepeatFrame
  BY <1>10 DEF RepeatFrame, Upload
<1>11. CASE Complete \/ Render
  <2>1. CASE Complete
    BY <1>11, <2>1 DEF Complete
  <2>2. CASE Render
    <3>1. paused => shown \in {0, 1}
      BY <2>2 DEF Render, FramesInv
    <3>2. ~StillAhead => Pts(shown) - CurrentVideoTime =< 1
      <4>1. CurrentVideoTime \in Nat /\ Pts(shown) \in Nat
        BY Numbers
      <4> HIDE DEF CurrentVideoTime
      <4> QED BY <4>1 DEF StillAhead
    <3> QED BY <2>2, <1>0, <3>1, <3>2 DEF Render
  <2> QED BY <1>11, <2>1, <2>2
<1>12. CASE StopCalled
  BY <1>12 DEF StopCalled, Stop
<1>13. CASE Pause \/ Resume
  <2>1. CASE Pause
    BY <2>1, <1>0, Numbers DEF Pause, TimePlayed
  <2>2. CASE Resume
    <3>1. sinceStart' = timeBeforePause /\ timeBeforePause # Never
      BY <2>2, TimeFacts DEF Resume, ContinueTime
    <3>2. CurrentVideoTime' = timeBeforePause
      BY <3>1
    <3> QED BY <2>2, <3>1, <3>2 DEF Resume
  <2> QED BY <1>13, <2>1, <2>2
<1>14. CASE SetLooping
  BY <1>14 DEF SetLooping
<1>15. CASE DecodeFrame
  BY <1>15 DEF DecodeFrame, Decoded!Put, DecoderOnly
<1>16. CASE DecodeEnd
  BY <1>16 DEF DecodeEnd, Decoded!End, DecoderOnly
<1>17. CASE Tick
  <2>1. sinceStart \in Times /\ sinceStart =< sinceStart' /\ sinceStart' \in Times
    BY <1>17, TimeFacts DEF Tick
  <2> QED BY <1>17, <1>0, <2>1, Numbers, TimeFacts DEF Tick
<1> QED BY <1>1, <1>2, <1>3, <1>4, <1>5, <1>6, <1>7, <1>8, <1>9, <1>10, <1>11, <1>12, <1>13,
          <1>14, <1>15, <1>16, <1>17
        DEF Next, UpdateSteps, PlaySteps, StopSteps, Calls

\* A careful client's clock shows how long the video has been playing.
LEMMA CarefulStep == TypeOK /\ PhaseInv /\ SizesFit /\ CarefulInv /\ [Next]_vars => CarefulInv'
<1> SUFFICES ASSUME TypeOK, PhaseInv, SizesFit, CarefulInv, [Next]_vars PROVE CarefulInv'
  OBVIOUS
<1> USE DEF TypeOK, Step, rest, vars, native, frames, streams, files, firstFrame, time, clock,
            screen, PhaseInv, SizesFit, CarefulInv, ClockIsTimePlayed, Never, Stopping, Updating
<1>1. CASE Play \/ Loop
  BY <1>1 DEF Play, Loop, PlayFile, LoadLibraries, Stop
<1>2. CASE OpenFails \/ LoadFails \/ HasFrame \/ ReadEnded \/ NothingYet \/ NoFirstFrame
             \/ LoopThrows \/ UNCHANGED vars
  BY <1>2 DEF OpenFails, LoadFails, HasFrame, ReadEnded, NothingYet, NoFirstFrame, LoopThrows
<1>3. CASE Open
  BY <1>3 DEF Open
<1>4. CASE Load
  BY <1>4 DEF Load, FitTexture
<1>5. CASE DisposeDecoder
  BY <1>5 DEF DisposeDecoder
<1>6. CASE CloseStream
  BY <1>6 DEF CloseStream, CloseInput, ResetStartTime, ResetFrames
<1>7. CASE DisposeTexture
  BY <1>7 DEF DisposeTexture
<1>8. CASE Update
  BY <1>8 DEF Update, WantsFrame
<1>9. CASE TakeFrame
  BY <1>9 DEF TakeFrame, Decoded!Take, Upload
<1>10. CASE RepeatFrame
  BY <1>10 DEF RepeatFrame, Upload
<1>11. CASE Complete \/ Render
  BY <1>11 DEF Complete, Render, StillAhead
<1>12. CASE StopCalled
  BY <1>12 DEF StopCalled, Stop
<1>13. CASE Pause \/ Resume
  <2>1. CASE Pause
    BY <2>1 DEF Pause, TimePlayed
  <2>2. CASE Resume
    <3>1. sinceStart' = timeBeforePause /\ timeBeforePause # Never
      BY <2>2, TimeFacts DEF Resume, ContinueTime
    <3> QED BY <2>2, <3>1 DEF Resume
  <2> QED BY <1>13, <2>1, <2>2
<1>14. CASE SetLooping
  BY <1>14 DEF SetLooping
<1>15. CASE DecodeFrame
  BY <1>15 DEF DecodeFrame, Decoded!Put, DecoderOnly
<1>16. CASE DecodeEnd
  BY <1>16 DEF DecodeEnd, Decoded!End, DecoderOnly
<1>17. CASE Tick
  BY <1>17, TimeFacts DEF Tick
<1> QED BY <1>1, <1>2, <1>3, <1>4, <1>5, <1>6, <1>7, <1>8, <1>9, <1>10, <1>11, <1>12, <1>13,
          <1>14, <1>15, <1>16, <1>17
        DEF Next, UpdateSteps, PlaySteps, StopSteps, Calls

\* Streams do not pile up when the library loads.
LEMMA LeakStep == TypeOK /\ LibraryLoads \subseteq {TRUE} /\ PhaseInv /\ LeakInv /\ [Next]_vars => LeakInv'
<1> SUFFICES ASSUME TypeOK, LibraryLoads \subseteq {TRUE}, PhaseInv, LeakInv, [Next]_vars PROVE LeakInv'
  OBVIOUS
<1> USE DEF TypeOK, Step, rest, vars, native, frames, streams, files, firstFrame, time, clock,
            screen, PhaseInv, LeakInv, NoStreamLeak, Stopping, Updating
<1>1. CASE Play \/ Loop
  BY <1>1 DEF Play, Loop, PlayFile, LoadLibraries, Stop
<1>2. CASE OpenFails \/ LoadFails \/ HasFrame \/ ReadEnded \/ NothingYet \/ NoFirstFrame
             \/ LoopThrows \/ UNCHANGED vars
  BY <1>2 DEF OpenFails, LoadFails, HasFrame, ReadEnded, NothingYet, NoFirstFrame, LoopThrows
<1>3. CASE Open
  BY <1>3 DEF Open
<1>4. CASE Load
  BY <1>4 DEF Load, FitTexture
<1>5. CASE DisposeDecoder
  BY <1>5 DEF DisposeDecoder
<1>6. CASE CloseStream
  BY <1>6 DEF CloseStream, CloseInput, ResetStartTime, ResetFrames
<1>7. CASE DisposeTexture
  BY <1>7 DEF DisposeTexture
<1>8. CASE Update
  BY <1>8 DEF Update, WantsFrame
<1>9. CASE TakeFrame
  BY <1>9 DEF TakeFrame, Decoded!Take, Upload
<1>10. CASE RepeatFrame
  BY <1>10 DEF RepeatFrame, Upload
<1>11. CASE Complete \/ Render
  BY <1>11 DEF Complete, Render, StillAhead
<1>12. CASE StopCalled
  BY <1>12 DEF StopCalled, Stop
<1>13. CASE Pause \/ Resume
  BY <1>13 DEF Pause, Resume, TimePlayed, ContinueTime
<1>14. CASE SetLooping
  BY <1>14 DEF SetLooping
<1>15. CASE DecodeFrame
  BY <1>15 DEF DecodeFrame, Decoded!Put, DecoderOnly
<1>16. CASE DecodeEnd
  BY <1>16 DEF DecodeEnd, Decoded!End, DecoderOnly
<1>17. CASE Tick
  BY <1>17 DEF Tick
<1> QED BY <1>1, <1>2, <1>3, <1>4, <1>5, <1>6, <1>7, <1>8, <1>9, <1>10, <1>11, <1>12, <1>13,
          <1>14, <1>15, <1>16, <1>17
        DEF Next, UpdateSteps, PlaySteps, StopSteps, Calls

-----------------------------------------------------------------------------
(* The theorems. *)

\* A player that was not used yet satisfies the invariants.
LEMMA InitInv == Init => Inv /\ DueInv /\ CarefulInv /\ LeakInv
<1> SUFFICES ASSUME Init PROVE Inv /\ DueInv /\ CarefulInv /\ LeakInv
  OBVIOUS
<1> USE DEF Init, Decoded!Init
<1>1. TypeOK
  <2>1. queue \in Seq(1 .. MaxFrames) /\ {shown, produced} \subseteq 0 .. MaxFrames
    BY MaxFramesAssumption
  <2>2. sinceStart \in Times \cup {Never} /\ {timeBeforePause, elapsed} \subseteq Times
    BY TimeFacts
  <2> QED BY <2>1, <2>2 DEF TypeOK
<1>2. PhaseInv
  BY DEF PhaseInv, Stopping, Updating
<1>3. TextureInv /\ ReadsOpenChannel /\ SizesFit
  BY DEF TextureInv, RenderHasTexture, ReadsOpenChannel, SizesFit
<1>4. FramesInv
  <2>1. FramesAfter(0, 0) = <<>>
    BY FramesAfterFacts
  <2> QED BY <2>1 DEF FramesInv
<1>5. DueInv
  <2>1. Pts(shown) = 0
    BY PtsFacts
  <2>2. CurrentVideoTime \in Nat
    BY TimeFacts DEF CurrentVideoTime
  <2> QED BY <2>1, <2>2 DEF DueInv
<1>6. CarefulInv /\ LeakInv
  BY DEF CarefulInv, ClockIsTimePlayed, LeakInv, NoStreamLeak
<1> QED BY <1>1, <1>2, <1>3, <1>4, <1>5, <1>6 DEF Inv

LEMMA Invariant == Spec => [](Inv /\ DueInv)
<1>1. Init => Inv /\ DueInv
  BY InitInv
<1>2. Inv /\ [Next]_vars => Inv'
  BY TypeStep, PhaseStep, ChannelStep, SizesStep, TextureStep, FramesStep DEF Inv
<1>3. Inv /\ DueInv /\ [Next]_vars => DueInv'
  BY TypeStep, DueStep DEF Inv
<1> QED BY <1>1, <1>2, <1>3, PTL DEF Spec

\* The player's fields keep their types.
THEOREM TypeCorrect == Spec => []TypeOK
<1>1. Inv => TypeOK
  BY DEF Inv
<1> QED BY <1>1, Invariant, PTL

\* However play, stop and looping follow each other, the native decoder reads from
\* an open stream of its own file (BaseVideoVideoPlayer.java: play, stop, update).
THEOREM ChannelStaysOpen == Spec => []ReadsOpenChannel
<1>1. Inv => ReadsOpenChannel
  BY DEF Inv
<1> QED BY <1>1, Invariant, PTL

\* Every frame is uploaded into a texture of the video's own size.
THEOREM SizesAlwaysFit == Spec => []SizesFit
<1>1. Inv => SizesFit
  BY DEF Inv
<1> QED BY <1>1, Invariant, PTL

\* There is a texture whenever one is drawn.
THEOREM RenderFindsTexture == Spec => []RenderHasTexture
<1>1. Inv => RenderHasTexture
  BY DEF Inv, TextureInv
<1> QED BY <1>1, Invariant, PTL

\* No stream is left open, provided that the native library always loads.
THEOREM StreamsDoNotLeak ==
  ASSUME LibraryLoads \subseteq {TRUE}
  PROVE  Spec => []NoStreamLeak
<1>1. Init => LeakInv
  BY InitInv
<1>2. Inv /\ LeakInv /\ [Next]_vars => LeakInv'
  BY LeakStep DEF Inv
<1>3. LeakInv => NoStreamLeak
  BY DEF LeakInv
<1> QED BY <1>1, <1>2, <1>3, Invariant, PTL DEF Spec

\* The clock shows the time played, for a client that pauses and resumes only
\* what plays.
THEOREM TimeIsKept == Spec => []TimeKept
<1>1. Init => CarefulInv
  BY InitInv
<1>2. Inv /\ CarefulInv /\ [Next]_vars => CarefulInv'
  BY CarefulStep DEF Inv
<1>3. CarefulInv => TimeKept
  BY DEF CarefulInv, TimeKept
<1> QED BY <1>1, <1>2, <1>3, Invariant, PTL DEF Spec

\* A frame is replaced only when it is due, whatever pausing and resuming did to
\* the clock in the meantime.
THEOREM PlayerIsNeverAhead == Spec => NeverAhead
<1>1. Inv /\ DueInv /\ [Next]_vars
        => [ppc = "take" /\ ppc' = "render" => Pts(shown) - CurrentVideoTime =< 1]_vars
  BY DEF Inv, PhaseInv, DueInv, Updating
<1> QED BY <1>1, Invariant, PTL DEF Spec, NeverAhead

\* While the player is paused the frame on display stays, and of a video begun
\* then only the first is shown.
THEOREM PausedPlayerStands == Spec => PausedStandsStill
<1>1. Inv /\ [Next]_vars => [paused /\ shown > 0 => shown' \in {0, shown}]_vars
  <2> SUFFICES ASSUME Inv, [Next]_vars, paused, shown > 0
               PROVE  shown' \in {0, shown}
    OBVIOUS
  <2>1. ~TakeFrame
    BY DEF Inv, PhaseInv, FramesInv, Updating, TakeFrame, Step
  <2>2. CASE DisposeDecoder
    BY <2>2 DEF DisposeDecoder
  <2>3. CASE DecodeFrame \/ DecodeEnd
    BY <2>3 DEF DecodeFrame, DecodeEnd, Decoded!Put, Decoded!End
  <2>4. CASE ~(DisposeDecoder \/ DecodeFrame \/ DecodeEnd)
    BY <2>1, <2>4 DEF Next, UpdateSteps, PlaySteps, StopSteps, Calls, vars, rest, native, frames,
       Play, Loop, PlayFile, OpenFails, LoadFails, HasFrame, ReadEnded, NothingYet, NoFirstFrame,
       LoopThrows, Open, Load, CloseStream, DisposeTexture, Update, RepeatFrame, Complete, Render,
       StopCalled, Pause, Resume, SetLooping, Tick
  <2> QED BY <2>2, <2>3, <2>4
<1> QED BY <1>1, Invariant, PTL DEF Spec, PausedStandsStill
=============================================================================
