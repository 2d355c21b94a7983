--------------------------- MODULE DecoderLifecycle ---------------------------
(***************************************************************************)
(* Who owns what: the objects a decoder allocates while it loads a stream, *)
(* step by step and each step able to fail, the decode thread that gives   *)
(* the reader back, and the destructor (VideoDecoder.cpp:32-268, 469-471   *)
(* and the JNI code in decoder/VideoDecoder.java).                         *)
(*                                                                         *)
(* An object is named by the field that is to hold it and by the call of   *)
(* loadStream that allocated it.  The client makes any number of calls of  *)
(* loadStream, at least one, and then closes the decoder.                  *)
(***************************************************************************)
EXTENDS Integers

CONSTANT MaxLoads   \* bound: the calls of loadStream

ASSUME MaxLoadsAssumption == MaxLoads \in Nat \ {0}

VARIABLES
  cpc,             \* where the client's thread is in loadStream or close
  tpc,             \* the decode thread: "none", "running", "done" or, when it ended
                   \* without a JNIEnv, "unattached"
  loads,           \* the calls of loadStream so far
  fileLoaded,
  customFuncData,  \* the call whose callback data it is, 0 for nullptr
  field,           \* what each pointer of the object holds
  live             \* the allocated objects and the global references

vars == <<cpc, tpc, loads, fileLoaded, customFuncData, field, live>>

Fields == {"avioContext", "formatContext", "videoCodecContext", "audioCodecContext",
           "swrContext", "swsContext", "frames"}
Object(f, n) == [of |-> f, load |-> n]
Reader(n) == Object("reader", n)   \* the global reference to the VideoFileReader
NULL == Object("null", 0)
Garbage == Object("garbage", 0)    \* the value of a pointer nobody has set

ClientStep(from, to) == cpc = from /\ cpc' = to

\* What call n of loadStream allocates for fs, in place of what they held.
Allocate(fs, n) == field' = [f \in Fields |-> IF f \in fs THEN Object(f, n) ELSE field[f]]
Objects(fs, n) == {Object(f, n) : f \in fs}

-----------------------------------------------------------------------------
(* loadStream. *)

\* Faulty: a decoder that has a stream is loaded again.
MayLoadAlways == TRUE

MayLoad == ~fileLoaded

NewGlobalRef == loads < MaxLoads /\ loads' = loads + 1

\* The decoder has a stream already.  The reference was made all the same.
LoadIgnored ==
  /\ cpc = "idle"
  /\ ~MayLoad
  /\ NewGlobalRef
  /\ live' = live \cup Objects({"reader"}, loads')
  /\ UNCHANGED <<cpc, tpc, fileLoaded, customFuncData, field>>

\* Faulty: the AVIO context gets into its field once the stream was opened.
AllocateFormatOnly == Allocate({"formatContext"}, loads')

AllocateContexts == Allocate({"avioContext", "formatContext"}, loads')

LoadStream ==
  /\ ClientStep("idle", "open")
  /\ MayLoad
  /\ NewGlobalRef
  /\ customFuncData' = loads'
  /\ AllocateContexts
  /\ live' = live \cup Objects({"reader", "avioContext", "formatContext"}, loads')
  /\ UNCHANGED <<tpc, fileLoaded>>

\* avformat_open_input frees the context it cannot open.
OpenFails ==
  /\ ClientStep("open", "idle")
  /\ live' = live \ {field["formatContext"]}
  /\ field' = [field EXCEPT !["formatContext"] = NULL]
  /\ UNCHANGED <<tpc, loads, fileLoaded, customFuncData>>

OpenInput ==
  /\ ClientStep("open", "streamInfo")
  /\ UNCHANGED <<tpc, loads, fileLoaded, customFuncData, field, live>>

\* No stream info, or no video stream.
NoVideoStream ==
  /\ ClientStep("streamInfo", "idle")
  /\ UNCHANGED <<tpc, loads, fileLoaded, customFuncData, field, live>>

FindStreams ==
  /\ ClientStep("streamInfo", "videoCodec")
  /\ UNCHANGED <<tpc, loads, fileLoaded, customFuncData, field, live>>

\* The codec's context is allocated, then opened, which may fail; there need
\* not be an audio stream.
OpenVideoCodec ==
  /\ cpc = "videoCodec" /\ cpc' \in {"idle", "audioCodec", "scaler"}
  /\ Allocate({"videoCodecContext"}, loads)
  /\ live' = live \cup Objects({"videoCodecContext"}, loads)
  /\ UNCHANGED <<tpc, loads, fileLoaded, customFuncData>>

\* Faulty: the audio context gets into the field of the video's.
AllocateAudioAsVideo ==
  field' = [field EXCEPT !["videoCodecContext"] = Object("audioCodecContext", loads)]

AllocateAudio == Allocate({"audioCodecContext"}, loads)

AudioCodecFails ==
  /\ ClientStep("audioCodec", "idle")
  /\ AllocateAudio
  /\ live' = live \cup Objects({"audioCodecContext"}, loads)
  /\ UNCHANGED <<tpc, loads, fileLoaded, customFuncData>>

OpenAudioCodec ==
  /\ ClientStep("audioCodec", "scaler")
  /\ Allocate({"audioCodecContext", "swrContext"}, loads)
  /\ live' = live \cup Objects({"audioCodecContext", "swrContext"}, loads)
  /\ UNCHANGED <<tpc, loads, fileLoaded, customFuncData>>

\* The scaler and the frames' buffers, which the frames own; that the thread
\* cannot be created is ignored.
FinishLoad ==
  /\ ClientStep("scaler", "idle")
  /\ Allocate({"swsContext"}, loads)
  /\ live' = live \cup Objects({"swsContext"}, loads)
  /\ fileLoaded' = TRUE
  /\ tpc' \in {"none", "running"}
  /\ UNCHANGED <<loads, customFuncData>>

-----------------------------------------------------------------------------
(* The decode thread, and close. *)

\* Faulty: the callback data is zeroed before the reference is deleted.
DeleteNoReference == UNCHANGED live

DeleteGlobalRef == live' = live \ {Reader(customFuncData)}

\* run() ends with the cleanup callback.
DecodeThreadEnds ==
  /\ tpc = "running" /\ tpc' = "done"
  /\ DeleteGlobalRef
  /\ UNCHANGED <<cpc, loads, fileLoaded, customFuncData, field>>

\* A thread that gets no JNIEnv returns from the callback at once.
DecodeThreadUnattached ==
  /\ tpc = "running" /\ tpc' = "unattached"
  /\ UNCHANGED <<cpc, loads, fileLoaded, customFuncData, field, live>>

\* Every client loads a stream before it closes.
Close ==
  /\ ClientStep("idle", "join")
  /\ loads > 0
  /\ UNCHANGED <<tpc, loads, fileLoaded, customFuncData, field, live>>

Join ==
  /\ ClientStep("join", "free")
  /\ tpc # "running"
  /\ UNCHANGED <<tpc, loads, fileLoaded, customFuncData, field, live>>

\* Faulty: the audio codec is forgotten.
FreedNotAudio == Fields \ {"audioCodecContext"}

Freed == Fields

\* The object itself goes last, and its pointers with it.
Free ==
  /\ ClientStep("free", "closed")
  /\ live' = live \ {field[f] : f \in Freed}
  /\ field' = [f \in Fields |-> NULL]
  /\ UNCHANGED <<tpc, loads, fileLoaded, customFuncData>>

Closed == cpc = "closed" /\ UNCHANGED vars

-----------------------------------------------------------------------------
\* The constructor allocates the frames and does not set avioContext.
Init ==
  /\ cpc = "idle" /\ tpc = "none"
  /\ loads = 0
  /\ fileLoaded = FALSE
  /\ customFuncData = 0
  /\ field = [f \in Fields |-> CASE f = "frames" -> Object(f, 0)
                                 [] f = "avioContext" -> Garbage
                                 [] OTHER -> NULL]
  /\ live = {Object("frames", 0)}

Load ==
  \/ LoadIgnored \/ LoadStream \/ OpenFails \/ OpenInput \/ NoVideoStream \/ FindStreams
  \/ OpenVideoCodec \/ AudioCodecFails \/ OpenAudioCodec \/ FinishLoad

Next == Load \/ DecodeThreadEnds \/ DecodeThreadUnattached \/ Close \/ Join \/ Free \/ Closed

Spec == Init /\ [][Next]_vars

-----------------------------------------------------------------------------
(* Properties. *)

\* Type correctness: a field holds nothing but objects of its own kind.
TypeOK ==
  /\ cpc \in {"idle", "open", "streamInfo", "videoCodec", "audioCodec", "scaler", "join",
              "free", "closed"}
  /\ tpc \in {"none", "running", "done", "unattached"}
  /\ loads \in 0 .. MaxLoads /\ customFuncData \in 0 .. MaxLoads
  /\ fileLoaded \in BOOLEAN
  /\ DOMAIN field = Fields
  /\ \A f \in Fields : field[f] \in {Object(f, n) : n \in 0 .. loads} \cup {NULL, Garbage}
  /\ live \subseteq {Object(f, n) : f \in Fields \cup {"reader"}, n \in 0 .. loads}

\* The destructor frees only what is allocated, wherever the loads before it
\* failed, though the constructor leaves avioContext unset and FFmpeg frees a
\* context it cannot open; and the decode thread is gone by then
\* (VideoDecoder.cpp:73-102).
FreesWhatItOwns ==
  cpc = "free" =>
    /\ tpc # "running"
    /\ \A f \in Fields : field[f] = NULL \/ field[f] \in live

\* While opening the stream or the decode thread may call the reader, its
\* reference is there: no later call of loadStream replaces the callback data
\* under the thread, and the thread does not give back what a load still uses
\* (VideoDecoder.java:99-119).
ReaderLive ==
  cpc \in {"open", "streamInfo"} \/ tpc = "running" => Reader(customFuncData) \in live

\* Of the objects of FFmpeg a closed decoder leaves behind none but those of
\* loads that failed and were followed by another one.
ContextsFreed ==
  cpc = "closed" => \A o \in live : o.of # "reader" => 0 < o.load /\ o.load < customFuncData

\* Once the decode thread is done, and could be attached to the VM, the reader it
\* read from is given back (VideoDecoder.h:90: called "when the decoding stops").
ReaderReleased == tpc = "done" => Reader(customFuncData) \notin live

\* A closed decoder holds no reader (VideoDecoder.java:35: "with it cleanup
\* everything").
AllReadersReleased == cpc = "closed" => \A o \in live : o.of # "reader"
=============================================================================
