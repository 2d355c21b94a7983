------------------------ MODULE DecoderLifecycle_proofs ------------------------
(***************************************************************************)
(* Theorems about what a decoder owns, for any number of loads.            *)
(***************************************************************************)
EXTENDS DecoderLifecycle, TLAPS

-----------------------------------------------------------------------------
(* The inductive invariant. *)

Loading == {"open", "streamInfo", "videoCodec", "audioCodec", "scaler"}

\* The fields loadContainer has still to set, given where it is.
Pending(at) ==
  CASE at \in {"open", "streamInfo", "videoCodec"} ->
         {"videoCodecContext", "audioCodecContext", "swrContext", "swsContext"}
    [] at = "audioCodec" -> {"audioCodecContext", "swrContext", "swsContext"}
    [] at = "scaler" -> {"swsContext"}
    [] OTHER -> {}

\* Whose callback data it is, and what the threads may do to it.
ReaderInv ==
  /\ customFuncData =< loads
  /\ ~fileLoaded => customFuncData = loads /\ tpc = "none"
  /\ fileLoaded => loads > 0
  /\ cpc \in Loading => ~fileLoaded /\ loads > 0 /\ Reader(customFuncData) \in live
  /\ cpc \in {"join", "free", "closed"} => loads > 0
  /\ cpc \in {"free", "closed"} => tpc # "running"
  /\ tpc = "running" => Reader(customFuncData) \in live
  /\ tpc = "done" => Reader(customFuncData) \notin live

\* What the fields hold.
FieldInv ==
  /\ \A f \in Fields :
       \/ field[f] = NULL
       \/ field[f] \in live /\ field[f].of = f /\ field[f].load =< loads
            /\ (f # "frames" => field[f].load > 0)
       \/ f = "avioContext" /\ field[f] = Garbage /\ loads = 0
  /\ \A f \in Pending(cpc) : field[f] = NULL \/ field[f].load < customFuncData
  /\ cpc = "closed" => \A f \in Fields : field[f] = NULL

\* What is allocated is in its field or was left behind by an earlier load.
OwnedInv ==
  \A o \in live : o.of # "reader" =>
    \/ \E f \in Fields : field[f] = o
    \/ 0 < o.load /\ o.load < customFuncData

Inv == TypeOK /\ ReaderInv /\ FieldInv /\ OwnedInv
-----------------------------------------------------------------------------
(* Objects. *)

\* An object is known by its field and its load, and is no special pointer
\* value; those have names no field has.
LEMMA Records ==
  ASSUME NEW f, NEW n
  PROVE  /\ Object(f, n).of = f /\ Object(f, n).load = n
         /\ Reader(n).of = "reader" /\ NULL.of = "null" /\ Garbage.of = "garbage"
         /\ \A g, m : Object(f, n) = Object(g, m) => f = g /\ n = m
BY DEF Object, Reader, NULL, Garbage

\* The pointers' names.
LEMMA FieldNames ==
  "reader" \notin Fields /\ "null" \notin Fields /\ "garbage" \notin Fields
BY DEF Fields

\* MaxLoads is a number.
LEMMA MaxLoadsType == MaxLoads \in Nat \ {0}
BY MaxLoadsAssumption

-----------------------------------------------------------------------------
(* Every step preserves the invariant. *)

\* A new decoder owns its frames only.
LEMMA InitInv == Init => Inv
<1> SUFFICES ASSUME Init PROVE Inv
  OBVIOUS
<1>1. /\ field["frames"] = Object("frames", 0)
      /\ field["avioContext"] = Garbage
      /\ \A f \in Fields \ {"frames", "avioContext"} : field[f] = NULL
      /\ live = {Object("frames", 0)}
  BY DEF Init, Fields
<1>2. TypeOK
  <2>1. "frames" \in Fields /\ loads = 0 /\ 0 \in 0 .. loads
    BY DEF Init, Fields
  <2>2. live \subseteq {Object(f, n) : f \in Fields \cup {"reader"}, n \in 0 .. loads}
    BY <1>1, <2>1
  <2>3. \A f \in Fields : field[f] \in {Object(f, n) : n \in 0 .. loads} \cup {NULL, Garbage}
    BY <1>1, <2>1
  <2>4. /\ cpc = "idle" /\ tpc = "none" /\ fileLoaded \in BOOLEAN
        /\ loads \in 0 .. MaxLoads /\ customFuncData \in 0 .. MaxLoads
    <3>1. 0 \in 0 .. MaxLoads /\ FALSE \in BOOLEAN
      BY MaxLoadsType
    <3>2. cpc = "idle" /\ tpc = "none" /\ loads = 0 /\ customFuncData = 0 /\ fileLoaded = FALSE
      BY DEF Init
    <3> QED BY <3>1, <3>2
  <2>5. DOMAIN field = Fields
    BY DEF Init
  <2> QED BY <2>2, <2>3, <2>4, <2>5 DEF TypeOK
<1>3. ReaderInv
  BY DEF Init, ReaderInv, Loading
<1>4. FieldInv
  BY <1>1, Records DEF Init, FieldInv, Pending
<1>5. OwnedInv
  BY <1>1 DEF OwnedInv, Fields
<1> QED BY <1>2, <1>3, <1>4, <1>5 DEF Inv

\* Steps that allocate and free nothing.
LEMMA IdleStep ==
  Inv /\ (OpenInput \/ NoVideoStream \/ FindStreams \/ Close \/ Join \/ Closed) => Inv'
<1> SUFFICES ASSUME Inv,
                    OpenInput \/ NoVideoStream \/ FindStreams \/ Close \/ Join \/ Closed
             PROVE  Inv'
  OBVIOUS
<1> USE DEF OpenInput, NoVideoStream, FindStreams, Close, Join, Closed, ClientStep
<1>1. UNCHANGED <<tpc, loads, fileLoaded, customFuncData, field, live>>
  BY DEF vars
<1>2. TypeOK'
  BY <1>1 DEF Inv, TypeOK, vars
<1>3. ReaderInv'
  BY <1>1 DEF Inv, ReaderInv, Loading, vars
<1>4. Pending(cpc)' \subseteq Pending(cpc)
  BY DEF Pending, vars
<1>5. FieldInv'
  BY <1>1, <1>4 DEF Inv, FieldInv
<1>6. OwnedInv'
  BY <1>1 DEF Inv, OwnedInv
<1> QED BY <1>2, <1>3, <1>5, <1>6 DEF Inv

\* What is live is an object of a field, or a reader.
LEMMA LiveObjects ==
  ASSUME TypeOK, NEW o \in live
  PROVE  o.of \in Fields \cup {"reader"} /\ o # NULL /\ o # Garbage
BY Records, FieldNames DEF TypeOK

\* A load that gives fields their objects, not to be given again by this load.
LEMMA AllocateFields ==
  ASSUME Inv, loads > 0, customFuncData = loads,
         NEW fs \in SUBSET Pending(cpc), Allocate(fs, loads),
         live' = live \cup Objects(fs, loads),
         loads' = loads, customFuncData' = customFuncData,
         Pending(cpc)' \subseteq Pending(cpc) \ fs, cpc' # "closed"
  PROVE  /\ DOMAIN field' = Fields
         /\ \A f \in Fields : field'[f] \in {Object(f, n) : n \in 0 .. loads} \cup {NULL, Garbage}
         /\ live' \subseteq {Object(f, n) : f \in Fields \cup {"reader"}, n \in 0 .. loads}
         /\ FieldInv' /\ OwnedInv'
<1>1. fs \subseteq Fields \ {"frames"}
  BY DEF Pending, Fields
<1>2. loads \in 0 .. loads /\ loads \in Nat
  BY MaxLoadsType DEF Inv, TypeOK
<1>3. /\ DOMAIN field' = Fields
      /\ \A f \in Fields : field'[f] = IF f \in fs THEN Object(f, loads) ELSE field[f]
  BY DEF Allocate
<1>4. \A f \in fs : Object(f, loads) \in live' /\ field'[f] = Object(f, loads)
  BY <1>1, <1>3 DEF Objects
<1>5. \A f \in Fields : field'[f] \in {Object(f, n) : n \in 0 .. loads} \cup {NULL, Garbage}
  BY <1>2, <1>3 DEF Inv, TypeOK
<1>6. live' \subseteq {Object(f, n) : f \in Fields \cup {"reader"}, n \in 0 .. loads}
  BY <1>1, <1>2 DEF Inv, TypeOK, Objects
<1>7. FieldInv'
  <2>1. \A f \in fs : /\ field'[f] \in live' /\ field'[f].of = f /\ field'[f].load = loads
                      /\ field'[f].load =< loads /\ field'[f].load > 0
    BY <1>2, <1>4, Records
  <2>2. \A f \in Fields \ fs : field'[f] = field[f]
    BY <1>3
  <2>3. live \subseteq live'
    OBVIOUS
  <2>4. Pending(cpc)' \subseteq Fields
    BY DEF Pending, Fields
  <2> QED BY <2>1, <2>2, <2>3, <2>4 DEF Inv, FieldInv
<1>8. OwnedInv'
  <2> SUFFICES ASSUME NEW o \in live', o.of # "reader"
               PROVE  (\E f \in Fields : field'[f] = o) \/ (0 < o.load /\ o.load < customFuncData)
    BY DEF OwnedInv
  <2>1. CASE o \in Objects(fs, loads)
    BY <2>1, <1>1, <1>4 DEF Objects
  <2>2. CASE o \in live /\ 0 < o.load /\ o.load < customFuncData
    BY <2>2
  <2>3. ASSUME o \in live, NEW f \in Fields, field[f] = o
        PROVE  (\E g \in Fields : field'[g] = o) \/ (0 < o.load /\ o.load < customFuncData)
    <3>1. CASE f \notin fs
      BY <2>3, <3>1, <1>3
    <3>2. CASE f \in fs
      <4>1. o # NULL /\ o # Garbage
        BY <2>3, LiveObjects DEF Inv
      <4>2. o.load > 0 /\ o.load < customFuncData
        BY <4>1, <2>3, <3>2, <1>1 DEF Inv, FieldInv
      <4> QED BY <4>2
    <3> QED BY <3>1, <3>2
  <2> QED BY <2>1, <2>2, <2>3 DEF Inv, OwnedInv
<1> QED BY <1>3, <1>5, <1>6, <1>7, <1>8

\* The steps of loadContainer that allocate.
LEMMA LoadContainerStep ==
  Inv /\ (OpenVideoCodec \/ AudioCodecFails \/ OpenAudioCodec \/ FinishLoad) => Inv'
<1> SUFFICES ASSUME Inv, OpenVideoCodec \/ AudioCodecFails \/ OpenAudioCodec \/ FinishLoad
             PROVE  Inv'
  OBVIOUS
<1> USE DEF OpenVideoCodec, AudioCodecFails, AllocateAudio, OpenAudioCodec, FinishLoad, ClientStep
<1>1. /\ cpc \in Loading /\ loads' = loads /\ customFuncData' = customFuncData
      /\ tpc = "none" /\ ~fileLoaded /\ loads > 0 /\ customFuncData = loads
      /\ Reader(customFuncData) \in live
  BY DEF Loading, Inv, ReaderInv
<1>2. PICK fs \in SUBSET Pending(cpc) :
        /\ Allocate(fs, loads) /\ live' = live \cup Objects(fs, loads)
        /\ Pending(cpc)' \subseteq Pending(cpc) \ fs /\ cpc' # "closed"
  <2>1. CASE OpenVideoCodec
    BY <2>1 DEF Pending
  <2>2. CASE AudioCodecFails
    BY <2>2 DEF Pending
  <2>3. CASE OpenAudioCodec
    BY <2>3 DEF Pending
  <2>4. CASE FinishLoad
    BY <2>4 DEF Pending
  <2> QED BY <2>1, <2>2, <2>3, <2>4
<1>3. /\ DOMAIN field' = Fields
      /\ \A f \in Fields : field'[f] \in {Object(f, n) : n \in 0 .. loads} \cup {NULL, Garbage}
      /\ live' \subseteq {Object(f, n) : f \in Fields \cup {"reader"}, n \in 0 .. loads}
      /\ FieldInv' /\ OwnedInv'
  BY <1>1, <1>2, AllocateFields
<1>4. /\ cpc' \in {"idle", "audioCodec", "scaler"}
      /\ tpc' \in {"none", "running"} /\ fileLoaded' \in BOOLEAN
      /\ cpc' # "idle" => ~fileLoaded'
      /\ ~fileLoaded' => tpc' = "none"
  <2>1. CASE FinishLoad
    BY <2>1
  <2>2. CASE OpenVideoCodec \/ AudioCodecFails \/ OpenAudioCodec
    <3>1. fileLoaded' = fileLoaded /\ tpc' = tpc /\ cpc' \in {"idle", "audioCodec", "scaler"}
      BY <2>2
    <3>2. fileLoaded' \in BOOLEAN
      BY <3>1 DEF Inv, TypeOK
    <3> QED BY <3>1, <3>2, <1>1
  <2> QED BY <2>1, <2>2
<1>5. TypeOK'
  BY <1>1, <1>3, <1>4 DEF Inv, TypeOK
<1>6. ReaderInv'
  BY <1>1, <1>2, <1>4 DEF Inv, ReaderInv, Loading
<1> QED BY <1>3, <1>5, <1>6 DEF Inv

\* loadStream on a decoder that has a stream makes a reference to nobody's use.
LEMMA LoadIgnoredStep == Inv /\ LoadIgnored => Inv'
<1> SUFFICES ASSUME Inv, LoadIgnored PROVE Inv'
  OBVIOUS
<1> USE DEF LoadIgnored, NewGlobalRef, MayLoad
<1>1. /\ fileLoaded /\ loads \in Nat /\ loads' = loads + 1 /\ loads' =< MaxLoads
      /\ customFuncData =< loads /\ customFuncData \in Nat
      /\ UNCHANGED <<cpc, tpc, fileLoaded, customFuncData, field>>
      /\ live' = live \cup {Reader(loads')}
  BY MaxLoadsType DEF Inv, TypeOK, ReaderInv, Objects, Reader
<1>2. 0 .. loads \subseteq 0 .. loads' /\ loads' \in 0 .. loads' /\ loads' \in 0 .. MaxLoads
  BY <1>1, MaxLoadsType
<1>3. TypeOK'
  <2>1. \A f \in Fields : field'[f] \in {Object(f, n) : n \in 0 .. loads'} \cup {NULL, Garbage}
    BY <1>1, <1>2 DEF Inv, TypeOK
  <2>2. live' \subseteq {Object(f, n) : f \in Fields \cup {"reader"}, n \in 0 .. loads'}
    BY <1>1, <1>2 DEF Inv, TypeOK, Reader
  <2>3. fileLoaded' \in BOOLEAN
    BY <1>1 DEF Inv, TypeOK
  <2> QED BY <1>1, <1>2, <2>1, <2>2, <2>3, MaxLoadsType DEF Inv, TypeOK
<1>4. ReaderInv'
  <2>1. Reader(loads') # Reader(customFuncData)
    BY <1>1, Records DEF Reader
  <2> QED BY <1>1, <2>1 DEF Inv, ReaderInv, Loading
<1>5. FieldInv'
  <2>1. cpc = "idle" /\ cpc' = "idle" /\ Pending(cpc)' = {}
    BY DEF Pending
  <2>2. loads > 0
    BY <1>1 DEF Inv, ReaderInv, FieldInv, TypeOK
  <2>3. \A f \in Fields : \/ field[f] = NULL
                          \/ field[f] \in live' /\ field[f].of = f /\ field[f].load =< loads'
                               /\ (f # "frames" => field[f].load > 0)
    <3>1. \A f \in Fields : field[f] \in {NULL, Garbage} \/ field[f].load \in Int
      BY Records DEF Inv, TypeOK
    <3>2. Garbage.load \in Int
      BY DEF Garbage, Object
    <3>3. \A f \in Fields : field[f] = NULL \/ field[f].load \in Int
      BY <3>1, <3>2
    <3> QED BY <1>1, <2>2, <3>3 DEF Inv, FieldInv
  <2> QED BY <1>1, <2>1, <2>3 DEF FieldInv
<1>6. OwnedInv'
  BY <1>1, Records DEF Inv, OwnedInv
<1> QED BY <1>3, <1>4, <1>5, <1>6 DEF Inv

\* A new load takes the callback data and two fields for itself.
LEMMA LoadStreamStep == Inv /\ LoadStream => Inv'
<1> SUFFICES ASSUME Inv, LoadStream PROVE Inv'
  OBVIOUS
<1> DEFINE fs == {"avioContext", "formatContext"}
<1> USE DEF LoadStream, NewGlobalRef, MayLoad, ClientStep, AllocateContexts
<1>1. /\ cpc = "idle" /\ cpc' = "open" /\ tpc = "none" /\ tpc' = "none" /\ ~fileLoaded
      /\ fileLoaded' = fileLoaded /\ loads \in Nat /\ loads' = loads + 1
      /\ loads' \in 0 .. MaxLoads /\ customFuncData = loads /\ customFuncData' = loads'
  BY MaxLoadsType DEF Inv, TypeOK, ReaderInv
<1>2. 0 .. loads \subseteq 0 .. loads' /\ loads' \in 0 .. loads'
  BY <1>1
<1>3. /\ DOMAIN field' = Fields
      /\ \A f \in Fields \ fs : field'[f] = field[f]
      /\ \A f \in fs : f \in Fields /\ field'[f] = Object(f, loads')
  BY DEF Allocate, Fields
<1>4. live' = live \cup Objects({"reader"} \cup fs, loads')
  BY DEF Objects
<1>5. /\ live' = live \cup {Reader(loads'), Object("avioContext", loads'),
                            Object("formatContext", loads')}
  BY <1>4 DEF Objects, Reader
<1>6. TypeOK'
  <2>1. \A f \in Fields : field'[f] \in {Object(f, n) : n \in 0 .. loads'} \cup {NULL, Garbage}
    BY <1>2, <1>3 DEF Inv, TypeOK
  <2>2. live' \subseteq {Object(f, n) : f \in Fields \cup {"reader"}, n \in 0 .. loads'}
    BY <1>2, <1>3, <1>5 DEF Inv, TypeOK, Reader
  <2>3. fileLoaded' \in BOOLEAN
    BY <1>1 DEF Inv, TypeOK
  <2> QED BY <1>1, <1>3, <2>1, <2>2, <2>3 DEF TypeOK
<1>7. ReaderInv'
  BY <1>1, <1>5 DEF ReaderInv, Loading
<1>8. FieldInv'
  <2>1. \A f \in fs : /\ field'[f] \in live' /\ field'[f].of = f /\ field'[f].load =< loads'
                      /\ field'[f].load > 0
    BY <1>1, <1>3, <1>5, Records
  <2>2. \A f \in Fields \ fs :
          \/ field'[f] = NULL
          \/ field'[f] \in live' /\ field'[f].of = f /\ field'[f].load =< loads
               /\ (f # "frames" => field'[f].load > 0)
    BY <1>3, <1>5 DEF Inv, FieldInv
  <2>3. \A f \in Fields : field'[f].load \in Int \/ field'[f] = NULL
    BY <1>3, <1>1, <2>1, <2>2, Records DEF Inv, TypeOK, Garbage, Object
  <2>4. Pending(cpc)' \subseteq Fields \ fs
    BY <1>1 DEF Pending, Fields
  <2> QED BY <1>1, <2>1, <2>2, <2>3, <2>4 DEF FieldInv
<1>9. OwnedInv'
  <2> SUFFICES ASSUME NEW o \in live', o.of # "reader"
               PROVE  (\E f \in Fields : field'[f] = o) \/ (0 < o.load /\ o.load < loads')
    BY <1>1 DEF OwnedInv
  <2>1. CASE o \in live /\ 0 < o.load /\ o.load < customFuncData
    <3>1. o.load \in Int
      BY <2>1, Records DEF Inv, TypeOK
    <3> QED BY <3>1, <2>1, <1>1
  <2>2. ASSUME o \in live, NEW f \in Fields, field[f] = o
        PROVE  (\E g \in Fields : field'[g] = o) \/ (0 < o.load /\ o.load < loads')
    <3>1. CASE f \notin fs
      BY <2>2, <3>1, <1>3
    <3>2. CASE f \in fs
      <4>1. o # NULL /\ o # Garbage
        BY <2>2, LiveObjects DEF Inv
      <4>2. o.load > 0 /\ o.load =< loads /\ o.load \in Int
        BY <4>1, <2>2, <3>2, Records DEF Inv, FieldInv, TypeOK
      <4> QED BY <4>2, <1>1
    <3> QED BY <3>1, <3>2
  <2>3. CASE o \notin live
    BY <2>3, <1>3, <1>5, Records
  <2> QED BY <2>1, <2>2, <2>3 DEF Inv, OwnedInv
<1> QED BY <1>6, <1>7, <1>8, <1>9 DEF Inv

\* A context that cannot be opened is freed, and its field is NULL.
LEMMA OpenFailsStep == Inv /\ OpenFails => Inv'
<1> SUFFICES ASSUME Inv, OpenFails PROVE Inv'
  OBVIOUS
<1> DEFINE lost == field["formatContext"]
<1>1. /\ cpc = "open" /\ cpc' = "idle" /\ live' = live \ {lost}
      /\ UNCHANGED <<tpc, loads, fileLoaded, customFuncData>>
      /\ "formatContext" \in Fields
  BY DEF OpenFails, ClientStep, Fields
<1>2. /\ DOMAIN field' = Fields /\ field'["formatContext"] = NULL
      /\ \A f \in Fields \ {"formatContext"} : field'[f] = field[f]
  BY <1>1 DEF OpenFails, Inv, TypeOK
<1>3. TypeOK'
  <2>1. \A f \in Fields : field'[f] \in {Object(f, n) : n \in 0 .. loads} \cup {NULL, Garbage}
    BY <1>2 DEF Inv, TypeOK
  <2>2. live' \subseteq live /\ fileLoaded' \in BOOLEAN
    BY <1>1 DEF Inv, TypeOK
  <2> QED BY <1>1, <1>2, <2>1, <2>2 DEF Inv, TypeOK
<1>4. ReaderInv'
  <2>1. lost # Reader(customFuncData)
    BY <1>1, Records, FieldNames DEF Inv, TypeOK, Reader, Object, NULL, Garbage
  <2> QED BY <1>1, <2>1 DEF Inv, ReaderInv, Loading
<1>5. FieldInv'
  <2>1. Pending(cpc)' = {}
    BY <1>1 DEF Pending
  <2>2. \A f \in Fields \ {"formatContext"} : field[f] # NULL => field[f] # lost
    <3>1. \A f \in Fields : field[f] \in live => field[f].of = f
      BY Records, FieldNames, LiveObjects DEF Inv, FieldInv
    <3>2. loads > 0
      BY <1>1 DEF Inv, ReaderInv, Loading
    <3> QED BY <1>1, <3>1, <3>2 DEF Inv, FieldInv
  <2> QED BY <1>1, <1>2, <2>1, <2>2 DEF Inv, FieldInv
<1>6. OwnedInv'
  BY <1>1, <1>2 DEF Inv, OwnedInv
<1> QED BY <1>3, <1>4, <1>5, <1>6 DEF Inv

\* The decode thread gives its reader back.
LEMMA DecodeThreadStep == Inv /\ DecodeThreadEnds => Inv'
<1> SUFFICES ASSUME Inv, DecodeThreadEnds PROVE Inv'
  OBVIOUS
<1>1. /\ tpc = "running" /\ tpc' = "done" /\ live' = live \ {Reader(customFuncData)}
      /\ UNCHANGED <<cpc, loads, fileLoaded, customFuncData, field>>
  BY DEF DecodeThreadEnds, DeleteGlobalRef
<1>2. fileLoaded
  BY <1>1 DEF Inv, ReaderInv
<1>3. TypeOK'
  BY <1>1 DEF Inv, TypeOK
<1>4. ReaderInv'
  BY <1>1, <1>2 DEF Inv, ReaderInv, Loading
<1>5. FieldInv'
  <2>1. \A f \in Fields : field[f] \in live => field[f].of = f
    BY LiveObjects DEF Inv, FieldInv
  <2>2. \A f \in Fields : field[f] \in live => field[f] \in live'
    <3>1. \A f \in Fields : field[f] \in live => field[f] # Reader(customFuncData)
      <4>1. Reader(customFuncData).of \notin Fields
        BY FieldNames DEF Reader, Object
      <4> QED BY <4>1, <2>1
    <3> QED BY <1>1, <3>1
  <2> QED BY <1>1, <2>2 DEF Inv, FieldInv
<1>6. OwnedInv'
  BY <1>1 DEF Inv, OwnedInv
<1> QED BY <1>3, <1>4, <1>5, <1>6 DEF Inv

\* Without a JNIEnv the decode thread ends and keeps it.
LEMMA UnattachedStep == Inv /\ DecodeThreadUnattached => Inv'
<1> SUFFICES ASSUME Inv, DecodeThreadUnattached PROVE Inv'
  OBVIOUS
<1>1. /\ tpc = "running" /\ tpc' = "unattached"
      /\ UNCHANGED <<cpc, loads, fileLoaded, customFuncData, field, live>>
  BY DEF DecodeThreadUnattached
<1>2. fileLoaded
  BY <1>1 DEF Inv, ReaderInv
<1>3. TypeOK'
  BY <1>1 DEF Inv, TypeOK
<1>4. ReaderInv'
  BY <1>1, <1>2 DEF Inv, ReaderInv, Loading
<1>5. FieldInv' /\ OwnedInv'
  BY <1>1 DEF Inv, FieldInv, OwnedInv
<1> QED BY <1>3, <1>4, <1>5 DEF Inv

\* The destructor frees what the fields hold.
LEMMA FreeStep == Inv /\ Free => Inv'
<1> SUFFICES ASSUME Inv, Free PROVE Inv'
  OBVIOUS
<1>1. /\ cpc = "free" /\ cpc' = "closed" /\ live' = live \ {field[f] : f \in Fields}
      /\ UNCHANGED <<tpc, loads, fileLoaded, customFuncData>>
      /\ DOMAIN field' = Fields /\ \A f \in Fields : field'[f] = NULL
  BY DEF Free, ClientStep, Freed
<1>2. TypeOK'
  <2>1. live' \subseteq live /\ fileLoaded' \in BOOLEAN
    BY <1>1 DEF Inv, TypeOK
  <2> QED BY <1>1, <2>1 DEF Inv, TypeOK
<1>3. ReaderInv'
  BY <1>1 DEF Inv, ReaderInv, Loading
<1>4. FieldInv'
  BY <1>1 DEF FieldInv, Pending
<1>5. OwnedInv'
  BY <1>1 DEF Inv, OwnedInv
<1> QED BY <1>2, <1>3, <1>4, <1>5 DEF Inv

\* Every step preserves the invariant.
LEMMA NextInv == Inv /\ [Next]_vars => Inv'
<1> SUFFICES ASSUME Inv, [Next]_vars PROVE Inv'
  OBVIOUS
<1>1. CASE Load
  BY <1>1, LoadIgnoredStep, LoadStreamStep, OpenFailsStep, IdleStep, LoadContainerStep DEF Load
<1>2. CASE DecodeThreadEnds
  BY <1>2, DecodeThreadStep
<1>6. CASE DecodeThreadUnattached
  BY <1>6, UnattachedStep
<1>3. CASE Free
  BY <1>3, FreeStep
<1>4. CASE Close \/ Join \/ Closed
  BY <1>4, IdleStep
<1>5. CASE UNCHANGED vars
  BY <1>5 DEF vars, Inv, TypeOK, ReaderInv, FieldInv, OwnedInv, Pending
<1> QED BY <1>1, <1>2, <1>3, <1>4, <1>5, <1>6 DEF Next

-----------------------------------------------------------------------------
(* Theorems. *)

\* The invariant holds of every reachable state.
THEOREM Invariant == Spec => []Inv
<1>1. Init => Inv
  BY InitInv
<1>2. Inv /\ [Next]_vars => Inv'
  BY NextInv
<1> QED BY <1>1, <1>2, PTL DEF Spec

\* A field holds nothing but objects of its own kind.
THEOREM TypeCorrect == Spec => []TypeOK
<1>1. Inv => TypeOK
  BY DEF Inv
<1> QED BY <1>1, Invariant, PTL

\* The destructor frees only what is allocated, after the decode thread
\* (VideoDecoder.cpp:73-102).
THEOREM FreesOnlyItsOwn == Spec => []FreesWhatItOwns
<1>1. Inv => FreesWhatItOwns
  BY DEF Inv, ReaderInv, FieldInv, FreesWhatItOwns
<1> QED BY <1>1, Invariant, PTL

\* The reader is there while somebody reads from it
\* (VideoDecoder.java:99-119).
THEOREM ReaderIsLive == Spec => []ReaderLive
<1>1. Inv => ReaderLive
  BY DEF Inv, ReaderInv, ReaderLive, Loading
<1> QED BY <1>1, Invariant, PTL

\* A closed decoder has left nothing of FFmpeg's behind but what loads that
\* failed had allocated and a later load replaced (VideoDecoder.cpp:73-102).
THEOREM ContextsAreFreed == Spec => []ContextsFreed
<1>1. Inv => ContextsFreed
  <2> SUFFICES ASSUME Inv, cpc = "closed", NEW o \in live, o.of # "reader"
               PROVE  0 < o.load /\ o.load < customFuncData
    BY DEF ContextsFreed
  <2>1. \A f \in Fields : field[f] # o
    BY LiveObjects DEF Inv, FieldInv
  <2> QED BY <2>1 DEF Inv, OwnedInv
<1> QED BY <1>1, Invariant, PTL

\* A decode thread that could be attached gives back what it read from
\* (VideoDecoder.h:90).
THEOREM ReaderIsReleased == Spec => []ReaderReleased
<1>1. Inv => ReaderReleased
  BY DEF Inv, ReaderInv, ReaderReleased
<1> QED BY <1>1, Invariant, PTL
=============================================================================
