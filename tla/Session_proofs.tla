---------------------------- MODULE Session_proofs ----------------------------
(***************************************************************************)
(* Proofs about a session: the contexts that run it (FrameSession) and the *)
(* segmenter that cuts its inputs (Segmenter).                             *)
(*                                                                         *)
(* FrameSession, for every set of compressors, settings, inputs and output *)
(* sizes: the context never uses freed memory and keeps its contract when  *)
(* no sticky starting graph has parameters; a frame that was delivered is  *)
(* decoded to what was compressed; a damaged one is not taken for another  *)
(* content while a checksum is verified.                                   *)
(*                                                                         *)
(* Segmenter, for any number of inputs, of elements and of chunks.  The    *)
(* callback is assumed to report the failure of a chunk (~ Swallow) and to *)
(* ask for no more than is left (RequestsFit): without either of them the  *)
(* theorems on the frame are false: a chunk that failed would count as     *)
(* consumed, a slice could reach beyond its input.                         *)
(***************************************************************************)
EXTENDS FrameSession, Segmenter, SequenceTheorems, TLAPS

-----------------------------------------------------------------------------
(* Types.                                                                  *)

(* What the operations on parameters return.                               *)
LEMMA AppliedIsParams ==
    ASSUME NEW r \in Params, NEW c \in Compressors \cup {"internal"}
    PROVE  /\ AppliedParameters(r, c) \in Params
           /\ AppliedParameters(r, c).sticky = r.sticky
           /\ AppliedParameters(r, c).start = r.start
<1>1. OwnParams(c) \in [version : Versions \cup {0}, content : Ternary, compressed : Ternary]
  BY SessionAssumption DEF OwnParams, Unset, Ternary
<1>2. ASSUME NEW q \in Params,
             NEW d \in [version : Versions \cup {0}, content : Ternary, compressed : Ternary]
      PROVE  /\ GCParams_applyDefaults(q, d) \in Params
             /\ GCParams_applyDefaults(q, d).sticky = q.sticky
             /\ GCParams_applyDefaults(q, d).start = q.start
  BY DEF Params, GCParams_applyDefaults
<1>3. GCParams_default \in [version : Versions \cup {0}, content : Ternary, compressed : Ternary]
  BY DEF GCParams_default, Ternary
<1> QED
  BY <1>1, <1>2, <1>3 DEF AppliedParameters

LEMMA ZeroesIsParams == Zeroes \in Params
BY DEF Zeroes, Params, Ternary

LEMMA AfterFreeIsStart ==
    ASSUME NEW start \in Start \cup {None}
    PROVE  AfterFree(start) \in Start \cup {None}
BY DEF AfterFree, Start

(* The end of a session, whatever its result.                              *)
LEMMA EndSessionTypes ==
    ASSUME CTypeOK, NEW r \in Frames \cup {NoFrame}, NEW keep \in BOOLEAN, EndSession(r, keep)
    PROVE  CTypeOK'
<1>1. req' \in Params
  <2>1. CASE keep
    BY <2>1, AfterFreeIsStart DEF CTypeOK, EndSession, KeepParameters, Params
  <2>2. CASE ~keep
    BY <2>2, ZeroesIsParams DEF EndSession, ResetParameters
  <2> QED BY <2>1, <2>2
<1>2. cgraph' \in Compressors \cup {None, "internal"} /\ internal' \in BOOLEAN
  BY DEF CTypeOK, EndSession, KeepParameters, ResetParameters
<1>3. comment' = None /\ job' = None /\ frame' = r
  BY DEF EndSession, KeepParameters, ResetParameters
<1> QED BY <1>1, <1>2, <1>3 DEF CTypeOK

LEMMA FrameIsFrame ==
    ASSUME NEW v \in Nat, NEW content \in BOOLEAN, NEW compressed \in BOOLEAN,
           NEW text \in Comments \cup {None, Freed}, NEW g \in Compressors \cup {None, "internal"},
           NEW start \in Start \cup {None}, NEW input \in Seq(Nat)
    PROVE  Frame(v, content, compressed, text, g, start, input) \in Frames
BY DEF Frame, Frames

LEMMA CompressedSumType ==
    ASSUME NEW v, NEW n \in Nat, NEW d \in Seq(Nat)
    PROVE  CompressedSum(v, n, d) \in Seq(Nat)
BY DEF CompressedSum

(* A frame of which one field is replaced.                                 *)
LEMMA FrameUpdates ==
    ASSUME NEW f \in Frames
    PROVE  /\ \A b \in Seq(Chunks) : [f EXCEPT !.body = b] \in Frames
           /\ \A e \in BOOLEAN : [f EXCEPT !.eof = e] \in Frames
           /\ \A e \in BOOLEAN : [f EXCEPT !.extra = e] \in Frames
           /\ \A n \in Nat : [f EXCEPT !.size = n] \in Frames
           /\ f.version \in Nat /\ f.size \in Nat /\ f.body \in Seq(Chunks)
           /\ f.origin \in Seq(Nat)
           /\ f.content \in BOOLEAN /\ f.compressed \in BOOLEAN /\ f.eof \in BOOLEAN
BY DEF Frames

-----------------------------------------------------------------------------
(* The compression side: a session has a compressor, its applied           *)
(* parameters and the header it wrote follow from the settings, which do   *)
(* not change until it ends, and a frame is there only between sessions.   *)

InForce ==
    job # None =>
      /\ cgraph # None
      /\ job.step # "header" =>
           /\ job.out \in Frames
           /\ job.applied = AppliedParameters(req, cgraph)
           /\ job.out.version = job.applied.version
           /\ job.out.content = (job.applied.content # "off")
           /\ job.out.compressed = (job.applied.compressed # "off")
           /\ job.out.comment = IF job.out.version >= ZL_COMMENT_VERSION_MIN
                                THEN comment ELSE None
           /\ job.out.graph = cgraph /\ job.out.start = req.start
           /\ job.out.origin = job.input /\ job.out.size = Len(job.input)
OneAtATime == frame # NoFrame => job = None

CInv == CTypeOK /\ OneAtATime /\ InForce

(* A step of the compression side, by what it does.                        *)
SettingStep ==
    \/ \E p \in DOMAIN ParamValues : \E v \in ParamValues[p] : ZL_CCtx_setParameter(p, v)
    \/ \E c \in Compressors : ZL_CCtx_refCompressor(c)
    \/ \E c \in Compressors \cup {None}, g \in StartGraphs, ps \in StartParams \cup {None} :
         ZL_CCtx_selectStartingGraphID(c, g, ps)
    \/ \E text \in Comments \cup {None} : ZL_CCtx_addHeaderComment(text)
    \/ ZL_CCtx_resetParameters
BeginStep ==
    \E input \in Inputs, capacity \in 0..MaxCapacity, typed \in BOOLEAN :
      BeginSession(input, capacity, typed)
HeaderWritten ==
    /\ job # None /\ job.step = "header" /\ job.capacity >= 1
    /\ LET a == AppliedParameters(req, cgraph)
           shown == IF a.version >= ZL_COMMENT_VERSION_MIN THEN comment ELSE None
       IN job' = [job EXCEPT !.step = "chunks", !.written = 1, !.applied = a,
                    !.out = Frame(a.version, a.content # "off", a.compressed # "off",
                                  shown, cgraph, a.start, job.input)]
    /\ UNCHANGED <<req, cgraph, internal, comment, frame>>
ChunkWritten(n) ==
    /\ job # None /\ job.step = "chunks" /\ job.written < job.capacity
    /\ n \in ChunkSizes(job.out.version, Len(job.rest))
    /\ job' = [job EXCEPT !.written = @ + 1,
                 !.out.body = Append(@, Chunk(SubSeq(job.rest, 1, n))),
                 !.rest = SubSeq(@, n + 1, Len(@)),
                 !.step = IF n = Len(job.rest) THEN "footer" ELSE @]
    /\ UNCHANGED <<req, cgraph, internal, comment, frame>>
Completed == [job.out EXCEPT !.eof = NeedsMarker(job.out.version)]
SessionEnded ==
    /\ job # None
    /\ \/ EndSession(NoFrame, req.sticky)
       \/ job.step = "footer" /\ EndSession(Completed, req.sticky)

LEMMA CSteps ==
    ASSUME CInv, CNext
    PROVE  \/ SettingStep \/ BeginStep \/ HeaderWritten
           \/ \E n \in 0..MaxCapacity : ChunkWritten(n)
           \/ SessionEnded
<1>1. CASE WriteFrameHeader
  <2>1. cgraph \in Compressors \cup {"internal"}
    BY <1>1 DEF CInv, InForce, CTypeOK, WriteFrameHeader
  <2>2. AppliedParameters(req, cgraph).sticky = req.sticky
    BY <2>1, AppliedIsParams DEF CInv, CTypeOK
  <2> QED BY <1>1, <2>2 DEF WriteFrameHeader, HeaderWritten, SessionEnded
<1>2. job # None /\ job.step # "header" => job.applied.sticky = req.sticky
  <2>1. SUFFICES ASSUME job # None, job.step # "header" PROVE job.applied.sticky = req.sticky
    OBVIOUS
  <2>2. cgraph \in Compressors \cup {"internal"} /\ job.applied = AppliedParameters(req, cgraph)
    BY <2>1 DEF CInv, InForce, CTypeOK
  <2> QED BY <2>2, AppliedIsParams DEF CInv, CTypeOK
<1>3. ASSUME NEW n \in 0..MaxCapacity, FlushChunk(n)
      PROVE  ChunkWritten(n) \/ SessionEnded
  BY <1>2, <1>3 DEF FlushChunk, ChunkWritten, SessionEnded
<1>4. CASE WriteFooter
  BY <1>2, <1>4 DEF WriteFooter, SessionEnded, Completed
<1> QED BY <1>1, <1>3, <1>4 DEF CNext, SettingStep, BeginStep

(* The settings change between sessions only.                              *)
LEMMA SettingTypes ==
    ASSUME CTypeOK, SettingStep
    PROVE  CTypeOK' /\ job = None /\ frame = NoFrame /\ UNCHANGED <<job, frame>>
<1>1. /\ job = None /\ frame = NoFrame /\ UNCHANGED <<job, frame>>
  BY DEF SettingStep, Idle, ZL_CCtx_setParameter, ZL_CCtx_refCompressor,
     ZL_CCtx_selectStartingGraphID, ZL_CCtx_addHeaderComment, ZL_CCtx_resetParameters
<1>2. req' \in Params
  <2>1. ASSUME NEW p \in DOMAIN ParamValues, NEW v \in ParamValues[p], ZL_CCtx_setParameter(p, v)
        PROVE  req' \in Params
    BY <2>1 DEF CTypeOK, ZL_CCtx_setParameter, ParamValues, Params, Ternary
  <2>2. ASSUME NEW c, NEW g \in StartGraphs, NEW ps \in StartParams \cup {None},
               ZL_CCtx_selectStartingGraphID(c, g, ps)
        PROVE  req' \in Params
    BY <2>2 DEF CTypeOK, ZL_CCtx_selectStartingGraphID, Params, Start
  <2>3. ASSUME NEW c, ZL_CCtx_refCompressor(c) PROVE req' \in Params
    BY <2>3 DEF CTypeOK, ZL_CCtx_refCompressor, GCParams_resetStartingGraphID, Params
  <2>4. ASSUME NEW text, ZL_CCtx_addHeaderComment(text) PROVE req' \in Params
    BY <2>4 DEF CTypeOK, ZL_CCtx_addHeaderComment
  <2>5. CASE ZL_CCtx_resetParameters
    BY <2>5, ZeroesIsParams DEF ZL_CCtx_resetParameters, ResetParameters
  <2> QED BY <2>1, <2>2, <2>3, <2>4, <2>5 DEF SettingStep
<1>3. /\ cgraph' \in Compressors \cup {None, "internal"}
      /\ internal' \in BOOLEAN /\ comment' \in Comments \cup {None, Freed}
  BY DEF CTypeOK, SettingStep, ZL_CCtx_setParameter, ZL_CCtx_refCompressor,
     ZL_CCtx_selectStartingGraphID, ZL_CCtx_addHeaderComment, ZL_CCtx_resetParameters,
     ResetParameters
<1> QED BY <1>1, <1>2, <1>3 DEF CTypeOK

LEMMA BeginTypes ==
    ASSUME CTypeOK, BeginStep
    PROVE  /\ CTypeOK' /\ job = None /\ frame' = NoFrame /\ frame = NoFrame
           /\ job' # None /\ job'.step = "header" /\ cgraph' # None
           /\ comment' = comment
           /\ \/ cgraph # None /\ UNCHANGED <<req, cgraph, internal>>
              \/ /\ cgraph = None
                 /\ internal' = TRUE /\ cgraph' = "internal"
                 /\ req' = GCParams_resetStartingGraphID(req)
<1>1. PICK input \in Inputs, capacity \in 0..MaxCapacity, typed \in BOOLEAN :
        BeginSession(input, capacity, typed)
  BY DEF BeginStep
<1>2. /\ job = None /\ frame = NoFrame /\ frame' = NoFrame /\ comment' = comment
      /\ \/ cgraph # None /\ UNCHANGED <<req, cgraph, internal>>
         \/ /\ cgraph = None
            /\ internal' = TRUE /\ cgraph' = "internal"
            /\ req' = GCParams_resetStartingGraphID(req)
  BY <1>1 DEF BeginSession, Idle
<1>3. cgraph' # None /\ cgraph' \in Compressors \cup {None, "internal"} /\ internal' \in BOOLEAN
  <2>1. None # "internal"
    BY SessionAssumption
  <2>2. internal' \in BOOLEAN
    BY <1>2, Zenon DEF CTypeOK
  <2>3. cgraph' # None /\ cgraph' \in Compressors \cup {None, "internal"}
    <3>1. CASE cgraph # None /\ UNCHANGED <<req, cgraph, internal>>
      BY <3>1 DEF CTypeOK
    <3>2. CASE cgraph' = "internal"
      BY <3>2, <2>1
    <3> QED BY <1>2, <3>1, <3>2
  <2> QED BY <2>2, <2>3
<1>4. req' \in Params
  BY <1>2 DEF CTypeOK, GCParams_resetStartingGraphID, Params
<1>5. /\ job' \in Jobs /\ job'.step = "header" /\ job'.written <= job'.capacity
  <2>1. capacity \in Nat /\ input \in Seq(Nat)
    BY SessionAssumption
  <2>2. job' = [step |-> "header", input |-> input, rest |-> input,
               capacity |-> capacity, written |-> 0, applied |-> Zeroes,
               out |-> NoFrame]
    BY <1>1 DEF BeginSession
  <2> QED BY <2>1, <2>2, ZeroesIsParams DEF Jobs
<1>6. job' # None
  BY <1>5, JobAssumption
<1> QED BY <1>2, <1>3, <1>4, <1>5, <1>6 DEF CTypeOK

(* What the steps of a session change.                                     *)
LEMMA HeaderWrittenFrame ==
    ASSUME CInv, HeaderWritten
    PROVE  /\ job' # None /\ job'.step = "chunks" /\ job'.input = job.input
           /\ job'.rest = job.rest
           /\ job'.applied = AppliedParameters(req, cgraph)
           /\ LET a == AppliedParameters(req, cgraph)
                  shown == IF a.version >= ZL_COMMENT_VERSION_MIN THEN comment ELSE None
              IN job'.out = Frame(a.version, a.content # "off", a.compressed # "off",
                                  shown, cgraph, a.start, job.input)
           /\ job'.out \in Frames
           /\ CTypeOK'
<1> DEFINE a == AppliedParameters(req, cgraph)
           shown == IF a.version >= ZL_COMMENT_VERSION_MIN THEN comment ELSE None
           f == Frame(a.version, a.content # "off", a.compressed # "off",
                      shown, cgraph, a.start, job.input)
<1>1. job \in Jobs /\ cgraph \in Compressors \cup {"internal"} /\ job.input \in Seq(Nat)
  BY SessionAssumption DEF HeaderWritten, CInv, CTypeOK, InForce, Jobs
<1>2. a \in Params
  BY <1>1, AppliedIsParams DEF CInv, CTypeOK
<1>3. /\ job' = [job EXCEPT !.step = "chunks", !.written = 1, !.applied = a, !.out = f]
      /\ UNCHANGED <<req, cgraph, internal, comment, frame>>
      /\ job.capacity >= 1
  BY DEF HeaderWritten
<1> HIDE DEF a
<1>4. a.start \in Start \cup {None} /\ a.version \in Versions \cup {0}
  BY <1>2 DEF Params
<1>5. a.version \in Nat
  <2>1. \A v \in Versions \cup {0} : v \in Nat
    BY SessionAssumption
  <2> QED BY <1>4, <2>1, Zenon
<1>6. shown \in Comments \cup {None, Freed}
  BY DEF CInv, CTypeOK
<1> HIDE DEF shown
<1>7. f \in Frames
  BY <1>1, <1>4, <1>5, <1>6, FrameIsFrame
<1> HIDE DEF f
<1>8. job' \in Jobs /\ job'.written <= job'.capacity
  BY <1>1, <1>2, <1>3, <1>7 DEF Jobs
<1>9. CTypeOK'
  BY <1>3, <1>8 DEF CInv, CTypeOK
<1>10. job' # None
  BY <1>8, JobAssumption
<1>11. /\ job'.step = "chunks" /\ job'.input = job.input /\ job'.rest = job.rest
       /\ job'.applied = a /\ job'.out = f
  BY <1>1, <1>3 DEF Jobs
<1> QED BY <1>7, <1>9, <1>10, <1>11 DEF f, shown, a

LEMMA ChunkWrittenFrame ==
    ASSUME CInv, NEW n \in 0..MaxCapacity, ChunkWritten(n)
    PROVE  /\ job' # None /\ job'.input = job.input /\ job'.applied = job.applied
           /\ job'.step = IF n = Len(job.rest) THEN "footer" ELSE "chunks"
           /\ job'.rest = SubSeq(job.rest, n + 1, Len(job.rest))
           /\ job'.out = [job.out EXCEPT !.body = Append(@, Chunk(SubSeq(job.rest, 1, n)))]
           /\ Chunk(SubSeq(job.rest, 1, n)) \in Chunks
           /\ job'.out \in Frames /\ job.out \in Frames
           /\ job.rest \in Seq(Nat) /\ n \in 0..Len(job.rest)
           /\ CTypeOK'
<1> DEFINE data == SubSeq(job.rest, 1, n)
           o == [job.out EXCEPT !.body = Append(@, Chunk(data))]
           r == SubSeq(job.rest, n + 1, Len(job.rest))
           w == job.written + 1
           s == IF n = Len(job.rest) THEN "footer" ELSE "chunks"
<1>1. job \in Jobs /\ job.out \in Frames /\ job.step = "chunks"
  BY DEF ChunkWritten, CInv, CTypeOK, InForce
<1>2. job.rest \in Seq(Nat) /\ Len(job.rest) \in Nat /\ n \in Nat
  BY <1>1, SessionAssumption DEF Jobs
<1>3. n \in 0..Len(job.rest)
  <2>1. n = Len(job.rest) \/ (Len(job.rest) > ChunkMax /\ n = ChunkMax)
    BY DEF ChunkWritten, ChunkSizes
  <2> QED BY <1>2, <2>1, SessionAssumption
<1>4. data \in Seq(Nat) /\ r \in Seq(Nat)
  BY <1>2, <1>3
<1>5. Chunk(data) \in Chunks
  <2>1. CompressedSum(job.out.version, job.out.size, data) \in Seq(Nat)
    BY <1>1, <1>4, FrameUpdates, CompressedSumType
  <2>2. <<>> \in Seq(Nat)
    OBVIOUS
  <2> HIDE DEF data
  <2> QED BY <1>4, <2>1, <2>2 DEF Chunk, Chunks
<1>6. o \in Frames
  <2>1. Append(job.out.body, Chunk(data)) \in Seq(Chunks)
    BY <1>1, <1>5, FrameUpdates
  <2> QED BY <1>1, <2>1, FrameUpdates
<1>7. /\ job' = [job EXCEPT !.written = w, !.out = o, !.rest = r, !.step = s]
      /\ UNCHANGED <<req, cgraph, internal, comment, frame>>
  BY <1>1 DEF ChunkWritten, Jobs
<1>8. w \in Nat /\ w <= job.capacity
  <2>1. job.written \in Nat /\ job.capacity \in Nat
    BY <1>1 DEF Jobs
  <2> QED BY <2>1 DEF ChunkWritten
<1>9. s \in {"header", "chunks", "footer"}
  OBVIOUS
<1> HIDE DEF data, o, r, w, s
<1>10. job' \in Jobs
  BY <1>1, <1>4, <1>6, <1>7, <1>8, <1>9 DEF Jobs
<1>11. /\ job'.written = w /\ job'.capacity = job.capacity /\ job'.input = job.input
       /\ job'.applied = job.applied /\ job'.step = s /\ job'.rest = r /\ job'.out = o
  BY <1>1, <1>7 DEF Jobs
<1>12. CTypeOK' /\ job' # None
  BY <1>7, <1>8, <1>10, <1>11, JobAssumption DEF CInv, CTypeOK
<1> QED BY <1>1, <1>2, <1>3, <1>5, <1>6, <1>11, <1>12 DEF data, o, r, s

LEMMA CompletedIsFrame ==
    ASSUME CInv, job # None, job.step = "footer"
    PROVE  Completed \in Frames
<1>1. job.out \in Frames
  BY DEF CInv, InForce
<1>2. NeedsMarker(job.out.version) \in BOOLEAN
  BY <1>1, FrameUpdates DEF NeedsMarker, Chunked
<1> QED BY <1>1, <1>2, FrameUpdates DEF Completed

LEMMA SessionEndedFrame ==
    ASSUME CInv, SessionEnded
    PROVE  /\ CTypeOK' /\ job' = None /\ job # None
           /\ frame' = NoFrame \/ (job.step = "footer" /\ frame' = Completed)
           /\ IF req.sticky THEN KeepParameters ELSE ResetParameters
<1>1. req.sticky \in BOOLEAN /\ CTypeOK
  BY DEF CInv, CTypeOK, Params
<1>2. CTypeOK'
  BY <1>1, EndSessionTypes, CompletedIsFrame DEF SessionEnded
<1> QED BY <1>2 DEF SessionEnded, EndSession

(* Hence the invariant of the compression side.                            *)
LEMMA CInvStep ==
    ASSUME CInv, CNext
    PROVE  CInv'
<1>1. CASE SettingStep
  BY <1>1, SettingTypes DEF CInv, OneAtATime, InForce
<1>2. CASE BeginStep
  BY <1>2, BeginTypes DEF CInv, OneAtATime, InForce
<1>3. CASE HeaderWritten
  <2>1. OneAtATime'
    BY <1>3 DEF CInv, OneAtATime, HeaderWritten
  <2>2. cgraph' = cgraph /\ req' = req /\ comment' = comment /\ cgraph # None
    BY <1>3 DEF CInv, InForce, HeaderWritten
  <2>3. AppliedParameters(req, cgraph).start = req.start
    <3>1. cgraph \in Compressors \cup {"internal"} /\ req \in Params
      BY <2>2 DEF CInv, CTypeOK
    <3> QED BY <3>1, AppliedIsParams
  <2>4. InForce'
    BY <1>3, <2>2, <2>3, HeaderWrittenFrame DEF InForce, Frame
  <2> QED BY <1>3, <2>1, <2>4, HeaderWrittenFrame DEF CInv
<1>4. ASSUME NEW n \in 0..MaxCapacity, ChunkWritten(n) PROVE CInv'
  <2>1. OneAtATime'
    BY <1>4 DEF CInv, OneAtATime, ChunkWritten
  <2>2. /\ job'.out.version = job.out.version /\ job'.out.content = job.out.content
        /\ job'.out.compressed = job.out.compressed /\ job'.out.comment = job.out.comment
        /\ job'.out.graph = job.out.graph /\ job'.out.start = job.out.start
        /\ job'.out.origin = job.out.origin /\ job'.out.size = job.out.size
    BY <1>4, ChunkWrittenFrame DEF Frames
  <2>3. cgraph' = cgraph /\ req' = req /\ comment' = comment /\ job # None /\ job.step = "chunks"
    BY <1>4 DEF ChunkWritten
  <2>4. /\ job' # None /\ job'.input = job.input /\ job'.applied = job.applied
        /\ job'.out \in Frames /\ CTypeOK'
    BY <1>4, ChunkWrittenFrame
  <2>5. InForce'
    BY <2>2, <2>3, <2>4 DEF CInv, InForce
  <2> QED BY <2>1, <2>4, <2>5 DEF CInv
<1>5. CASE SessionEnded
  BY <1>5, SessionEndedFrame DEF CInv, OneAtATime, InForce
<1> QED BY <1>1, <1>2, <1>3, <1>4, <1>5, CSteps

(* A step of the decompression side leaves the compressor alone, but for   *)
(* the frame, which it may drop.                                           *)
DStep ==
    \/ /\ frame # NoFrame
       /\ \E f \in Copies(frame), o \in Outputs : Decode(f, o)
    \/ DecodeStep
    \/ Configure
    \/ DropFrame

LEMMA DStepLeaves ==
    ASSUME DStep
    PROVE  UNCHANGED cvars \/ (UNCHANGED <<req, cgraph, internal, comment, job>>
                               /\ frame # NoFrame /\ frame' = NoFrame)
BY DEF DStep, Decode, DecodeStep, Configure, DropFrame

LEMMA CInvKept ==
    ASSUME CInv, [Next]_vars
    PROVE  CInv'
<1>1. CASE UNCHANGED cvars
  BY <1>1 DEF CInv, CTypeOK, OneAtATime, InForce, cvars
<1>2. CASE UNCHANGED <<req, cgraph, internal, comment, job>> /\ frame' = NoFrame
  BY <1>2 DEF CInv, CTypeOK, OneAtATime, InForce
<1> QED BY <1>1, <1>2, CInvStep, DStepLeaves DEF Next, DStep, vars

LEMMA CInvInit == Init => CInv
BY ZeroesIsParams DEF Init, CInit, CInv, CTypeOK, OneAtATime, InForce

-----------------------------------------------------------------------------
(* The settings, when no sticky starting graph has parameters.             *)

Live ==
    /\ comment # Freed
    /\ cgraph = "internal" => internal
    /\ req.start # None => req.start.params # Freed
    /\ req.sticky /\ req.start # None => req.start.params = None

LEMMA LiveKept ==
    ASSUME ~StickyWithParams, CInv, Live, CNext
    PROVE  Live'
<1> USE SessionAssumption
<1>0. req \in Params
  BY DEF CInv, CTypeOK
<1>1. ASSUME NEW p \in DOMAIN ParamValues, NEW v \in ParamValues[p], ZL_CCtx_setParameter(p, v)
      PROVE  Live'
  <2>1. req' = [req EXCEPT ![p] = v] /\ p \in {"sticky", "version", "content"}
    BY <1>1 DEF ZL_CCtx_setParameter, ParamValues
  <2>2. req'.start = req.start
    BY <1>0, <2>1 DEF Params
  <2>3. UNCHANGED <<cgraph, internal, comment>> /\ ~(req'.sticky /\ req.start # None /\ req.start.params # None)
    BY <1>1 DEF ZL_CCtx_setParameter
  <2> QED BY <2>2, <2>3 DEF Live
<1>2. ASSUME NEW c \in Compressors, ZL_CCtx_refCompressor(c) PROVE Live'
  <2>1. req'.start = None /\ cgraph' = c /\ UNCHANGED comment
    BY <1>0, <1>2 DEF ZL_CCtx_refCompressor, GCParams_resetStartingGraphID, Params
  <2> QED BY <2>1 DEF Live
<1>3. ASSUME NEW c \in Compressors \cup {None}, NEW g \in StartGraphs,
             NEW ps \in StartParams \cup {None}, ZL_CCtx_selectStartingGraphID(c, g, ps)
      PROVE  Live'
  <2>1. /\ req'.start = [graph |-> g, params |-> ps] /\ req'.sticky = req.sticky
        /\ cgraph' = IF c = None THEN cgraph ELSE c
        /\ UNCHANGED <<comment, internal>> /\ ~(req.sticky /\ ps # None)
    BY <1>0, <1>3 DEF ZL_CCtx_selectStartingGraphID, Params
  <2>2. req'.start.params = ps /\ ps # Freed
    BY <2>1
  <2>3. cgraph' = "internal" => internal'
    BY <2>1 DEF Live
  <2> QED BY <2>1, <2>2, <2>3 DEF Live
<1>4. ASSUME NEW text \in Comments \cup {None}, ZL_CCtx_addHeaderComment(text) PROVE Live'
  BY <1>4 DEF Live, ZL_CCtx_addHeaderComment
<1>5. CASE ResetParameters
  BY <1>5 DEF Live, ResetParameters, Zeroes
<1>6. CASE BeginStep
  <2>1. \/ UNCHANGED <<req, cgraph, internal, comment>>
        \/ internal' = TRUE /\ comment' = comment /\ req'.start = None
    BY <1>0, <1>6, BeginTypes DEF CInv, GCParams_resetStartingGraphID, Params
  <2> QED BY <2>1 DEF Live
<1>7. CASE UNCHANGED <<req, cgraph, internal, comment>>
  BY <1>7 DEF Live
<1>8. CASE req.sticky /\ KeepParameters
  <2>1. AfterFree(req.start) = req.start
    BY <1>8 DEF Live, AfterFree
  <2>2. req' = req /\ comment' = None /\ UNCHANGED <<cgraph, internal>>
    BY <1>0, <1>8, <2>1 DEF KeepParameters, Params
  <2> QED BY <2>2 DEF Live
<1>9. CASE SessionEnded
  BY <1>5, <1>8, <1>9, SessionEndedFrame
<1>10. CASE SettingStep
  BY <1>1, <1>2, <1>3, <1>4, <1>5, <1>10 DEF SettingStep, ZL_CCtx_resetParameters
<1> QED BY <1>6, <1>7, <1>9, <1>10, CSteps DEF HeaderWritten, ChunkWritten

LEMMA LiveInvariant ==
    ASSUME ~StickyWithParams
    PROVE  Spec => [](CInv /\ Live)
<1>1. Init => Live
  BY SessionAssumption DEF Init, CInit, Live, Zeroes
<1>2. CInv /\ Live /\ [Next]_vars => Live'
  <2> SUFFICES ASSUME CInv, Live, [Next]_vars PROVE Live'
    OBVIOUS
  <2>1. CASE UNCHANGED <<req, cgraph, internal, comment>>
    BY <2>1 DEF Live
  <2> QED BY <2>1, LiveKept, DStepLeaves DEF Next, DStep, vars, cvars
<1> QED BY <1>1, <1>2, CInvInit, CInvKept, PTL DEF Spec

(* A session is never given memory that an earlier one freed, and the      *)
(* internal compressor exists while it is in use, whatever the settings    *)
(* and wherever sessions fail (CCTX_clean and ZL_CCtx_resetParameters      *)
(* after every session): provided the starting graph of sticky settings    *)
(* has no parameters.  Without that condition it is false, see the run     *)
(* sticky_dangling.                                                        *)
THEOREM SessionsUseLiveSettings ==
    ASSUME ~StickyWithParams
    PROVE  Spec => []SettingsAreAlive
<1>1. CInv /\ Live => SettingsAreAlive
  BY DEF Live, SettingsAreAlive
<1> QED BY <1>1, LiveInvariant, PTL

-----------------------------------------------------------------------------
(* The refinement of SessionContract.                                      *)

LEMMA EffectiveIsApplied ==
    ASSUME NEW r \in Params, NEW g \in Compressors \cup {"internal"}, NEW text
    PROVE  /\ EffectiveIn(Settings(r, g, text), "version") = AppliedParameters(r, g).version
           /\ EffectiveIn(Settings(r, g, text), "content") = AppliedParameters(r, g).content
           /\ EffectiveIn(Settings(r, g, text), "compressed") = AppliedParameters(r, g).compressed
<1> DEFINE own == OwnParams(g)
           first == GCParams_applyDefaults(r, own)
<1>1. /\ first.version = IF r.version = 0 THEN own.version ELSE r.version
      /\ first.content = IF r.content = "auto" THEN own.content ELSE r.content
      /\ first.compressed = IF r.compressed = "auto" THEN own.compressed ELSE r.compressed
      /\ first \in Params
  <2>1. own \in [version : Versions \cup {0}, content : Ternary, compressed : Ternary]
    BY SessionAssumption DEF OwnParams, Unset, Ternary
  <2> HIDE DEF own
  <2> QED BY <2>1 DEF GCParams_applyDefaults, Params
<1>2. AppliedParameters(r, g) = GCParams_applyDefaults(first, GCParams_default)
  BY DEF AppliedParameters
<1> HIDE DEF first
<1>3. /\ AppliedParameters(r, g).version = IF first.version = 0 THEN 0 ELSE first.version
      /\ AppliedParameters(r, g).content = IF first.content = "auto" THEN "on" ELSE first.content
      /\ AppliedParameters(r, g).compressed =
           IF first.compressed = "auto" THEN "on" ELSE first.compressed
  BY <1>1, <1>2 DEF GCParams_applyDefaults, GCParams_default, Params
<1> QED
  BY <1>1, <1>3 DEF EffectiveIn, Settings, Unset, GCParams_default, own

(* The context keeps the contract of the public headers: what a session    *)
(* uses is what was set since the last one, or so far if sticky, a comment *)
(* is for one frame, a failed session ends like another, and a frame       *)
(* carries exactly the version, checksums, comment, compressor and         *)
(* starting graph that were asked for.                                     *)
THEOREM SessionsKeepContract ==
    ASSUME ~StickyWithParams
    PROVE  Spec => KeepsContract
<1> DEFINE asked == Settings(req, cgraph, comment)
           cvs == <<Settings(req, cgraph, comment), job # None, frame>>
<1>1. Init => Contract!Init
  BY DEF Init, CInit, Contract!Init
<1>2. ASSUME CInv, Live, [Next]_vars
      PROVE  [Contract!Next]_cvs
  <2>1. CASE UNCHANGED cvars
    BY <2>1 DEF cvars, Settings
  <2>2. CASE UNCHANGED <<req, cgraph, internal, comment, job>> /\ frame # NoFrame /\ frame' = NoFrame
    BY <1>2, <2>2 DEF CInv, OneAtATime, Contract!Next, Contract!Consume, Settings
  <2>3. CASE SettingStep
    BY <1>2, <2>3, SettingTypes DEF CInv, Contract!Next, Contract!Configure
  <2>4. CASE BeginStep
    <3>1. /\ job = None /\ job' # None /\ frame' = frame
          /\ comment' = comment
          /\ \/ cgraph # None /\ UNCHANGED <<req, cgraph, internal>>
             \/ /\ cgraph = None
                /\ cgraph' = "internal"
                /\ req' = GCParams_resetStartingGraphID(req)
      BY <1>2, <2>4, BeginTypes DEF CInv
    <3>2. asked' = IF asked.graph # None THEN asked
                  ELSE [asked EXCEPT !.graph = "internal", !.start = None]
      BY <1>2, <3>1 DEF Settings, GCParams_resetStartingGraphID, CInv, CTypeOK, Params
    <3> QED BY <3>1, <3>2 DEF Contract!Next, Contract!Begin
  <2>5. CASE HeaderWritten \/ \E n \in 0..MaxCapacity : ChunkWritten(n)
    <3>1. job # None /\ job' # None /\ UNCHANGED <<req, cgraph, comment, frame>>
      BY <1>2, <2>5, HeaderWrittenFrame, ChunkWrittenFrame DEF HeaderWritten, ChunkWritten
    <3> QED BY <3>1 DEF Settings
  <2>6. CASE SessionEnded
    <3>1. asked' = IF asked.sticky THEN [asked EXCEPT !.comment = None]
                   ELSE Settings(Zeroes, None, None)
      <4>1. CASE req.sticky
        <5>1. AfterFree(req.start) = req.start
          BY <1>2, <4>1 DEF Live, AfterFree
        <5>2. req' = req /\ comment' = None /\ UNCHANGED cgraph
          BY <1>2, <2>6, <4>1, <5>1, SessionEndedFrame DEF KeepParameters, CInv, CTypeOK, Params
        <5> QED BY <4>1, <5>2 DEF Settings
      <4>2. CASE ~req.sticky
        BY <1>2, <2>6, <4>2, SessionEndedFrame DEF ResetParameters, Settings
      <4> QED BY <4>1, <4>2
    <3>2. CASE frame' = NoFrame
      BY <1>2, <2>6, <3>1, <3>2, SessionEndedFrame DEF Contract!Next, Contract!End, Contract!AfterSession
    <3>3. CASE job.step = "footer" /\ frame' = Completed
      <4>1. job # None /\ job.step # "header" /\ job' = None
        BY <1>2, <2>6, <3>3, SessionEndedFrame
      <4>2. job.out \in Frames /\ job \in Jobs
        BY <1>2, <4>1 DEF CInv, InForce, CTypeOK
      <4>3. /\ frame'.version = job.out.version /\ frame'.content = job.out.content
            /\ frame'.compressed = job.out.compressed /\ frame'.comment = job.out.comment
            /\ frame'.graph = job.out.graph /\ frame'.start = job.out.start
            /\ frame'.origin = job.out.origin /\ frame'.size = job.out.size
        BY <3>3, <4>2 DEF Completed, Frames
      <4>4. /\ cgraph \in Compressors \cup {"internal"} /\ req \in Params
            /\ job.applied = AppliedParameters(req, cgraph)
            /\ job.out.version = job.applied.version
            /\ job.out.content = (job.applied.content # "off")
            /\ job.out.compressed = (job.applied.compressed # "off")
            /\ job.out.comment = IF job.out.version >= ZL_COMMENT_VERSION_MIN
                                 THEN comment ELSE None
            /\ job.out.graph = cgraph /\ job.out.start = req.start
            /\ job.out.origin = job.input /\ job.out.size = Len(job.input)
        BY <1>2, <4>1 DEF CInv, InForce, CTypeOK
      <4>5. /\ EffectiveIn(asked, "version") = job.applied.version
            /\ EffectiveIn(asked, "content") = job.applied.content
            /\ EffectiveIn(asked, "compressed") = job.applied.compressed
        BY <4>4, EffectiveIsApplied
      <4>6. asked.comment = comment /\ asked.graph = cgraph /\ asked.start = req.start
        BY DEF Settings
      <4>7. job.input \in Inputs
        BY <4>2 DEF Jobs
      <4> HIDE DEF asked
      <4>8. Contract!AsAsked(frame', asked)
        BY <4>3, <4>4, <4>5, <4>6, <4>7 DEF Contract!AsAsked, Contract!ZL_COMMENT_VERSION_MIN,
           ZL_COMMENT_VERSION_MIN
      <4> QED BY <3>1, <4>1, <4>8 DEF Contract!Next, Contract!End, Contract!AfterSession, asked
    <3> QED BY <1>2, <2>6, <3>2, <3>3, SessionEndedFrame
  <2> QED BY <1>2, <2>1, <2>2, <2>3, <2>4, <2>5, <2>6, CSteps, DStepLeaves
          DEF Next, DStep, vars
<1>3. CInv /\ Live /\ [Next]_vars => [Contract!Next]_cvs
  BY <1>2
<1> QED BY <1>1, <1>3, LiveInvariant, PTL DEF Spec, KeepsContract, Contract!Spec

-----------------------------------------------------------------------------
(* What a frame holds: chunks that cut the input into consecutive parts,   *)
(* each with its checksums, under a header that declares the whole size.   *)

IsCut(cut, body, whole) ==
    /\ cut \in [0..Len(body) -> 0..Len(whole)]
    /\ cut[0] = 0
    /\ \A i, j \in 0..Len(body) : i <= j => cut[i] <= cut[j]
    /\ \A i \in 1..Len(body) : body[i].data = SubSeq(whole, cut[i - 1] + 1, cut[i])
HeaderOK(f) ==
    /\ f.size = Len(f.origin) /\ f.extra = FALSE
    /\ f.headerSum = IF Chunked(f.version) /\ f.compressed THEN <<f.size>> ELSE <<>>
SumsOK(f) ==
    \A i \in 1..Len(f.body) :
      /\ f.body[i].decodes
      /\ f.body[i].contentSum = IF f.content THEN f.body[i].data ELSE <<>>
      /\ f.body[i].compressedSum =
           IF f.compressed THEN CompressedSum(f.version, f.size, f.body[i].data) ELSE <<>>
CutTo(body, whole, n, rest) ==
    \E cut : IsCut(cut, body, whole) /\ rest = SubSeq(whole, cut[n] + 1, Len(whole))
CutBefore(f, rest) == CutTo(f.body, f.origin, Len(f.body), rest)

(* The frame being written, and the one delivered.                         *)
OutOK ==
    job # None =>
      /\ job.step = "header" => job.rest = job.input
      /\ job.step # "header" =>
           /\ HeaderOK(job.out) /\ SumsOK(job.out) /\ CutBefore(job.out, job.rest)
           /\ job.step = "chunks" /\ ~Chunked(job.out.version) => Len(job.out.body) = 0
           /\ job.step = "footer" => job.rest = <<>>
           /\ job.step = "footer" /\ ~Chunked(job.out.version) => Len(job.out.body) = 1
FrameOK(f) ==
    /\ HeaderOK(f) /\ SumsOK(f)
    /\ \E cut : IsCut(cut, f.body, f.origin) /\ cut[Len(f.body)] = Len(f.origin)
    /\ Chunked(f.version) => f.eof
    /\ ~Chunked(f.version) => Len(f.body) = 1

(* Parts of a sequence.                                                    *)
LEMMA Part ==
    ASSUME NEW w \in Seq(Nat), NEW a \in Nat, NEW b \in Nat, a <= b, b <= Len(w)
    PROVE  /\ SubSeq(w, a + 1, b) \in Seq(Nat)
           /\ Len(SubSeq(w, a + 1, b)) = b - a
           /\ \A i \in 1..(b - a) : SubSeq(w, a + 1, b)[i] = w[a + i]
<1>1. Len(w) \in Nat /\ a + 1 \in Int /\ b \in Int
  OBVIOUS
<1>2. \A i \in (a + 1)..b : w[i] \in Nat
  <2> TAKE i \in (a + 1)..b
  <2>1. i \in 1..Len(w)
    BY <1>1
  <2> QED BY <2>1, ElementOfSeq
<1>3. /\ SubSeq(w, a + 1, b) \in Seq(Nat)
      /\ Len(SubSeq(w, a + 1, b)) = IF a + 1 <= b THEN b - (a + 1) + 1 ELSE 0
      /\ \A i \in 1..(b - (a + 1) + 1) : SubSeq(w, a + 1, b)[i] = w[(a + 1) + i - 1]
  BY <1>1, <1>2, SubSeqProperties
<1>4. \A i \in 1..(b - a) : (a + 1) + i - 1 = a + i
  OBVIOUS
<1>5. b - (a + 1) + 1 = b - a
  OBVIOUS
<1>6. Len(SubSeq(w, a + 1, b)) = b - a
  BY <1>3
<1>7. ASSUME NEW i \in 1..(b - a) PROVE SubSeq(w, a + 1, b)[i] = w[a + i]
  BY <1>3, <1>4, <1>5, <1>7
<1> QED BY <1>3, <1>6, <1>7

LEMMA Associative ==
    \A x, y, z \in Seq(Nat) : (x \o y) \o z = x \o (y \o z)
<1> SUFFICES ASSUME NEW x \in Seq(Nat), NEW y \in Seq(Nat), NEW z \in Seq(Nat)
             PROVE  (x \o y) \o z = x \o (y \o z)
  OBVIOUS
<1> QED BY ConcatAssociative

LEMMA Beginning ==
    ASSUME NEW w \in Seq(Nat), NEW b \in Nat, b <= Len(w)
    PROVE  SubSeq(w, 1, b) \in Seq(Nat) /\ Len(SubSeq(w, 1, b)) = b
<1>1. SubSeq(w, 0 + 1, b) \in Seq(Nat) /\ Len(SubSeq(w, 0 + 1, b)) = b - 0
  BY Part
<1>2. 0 + 1 = 1 /\ b - 0 = b
  OBVIOUS
<1> QED BY <1>1, <1>2

LEMMA PartOfRest ==
    ASSUME NEW w \in Seq(Nat), NEW k \in Nat, NEW a \in Nat, NEW b \in Nat,
           k <= Len(w), a <= b, k + b <= Len(w)
    PROVE  SubSeq(SubSeq(w, k + 1, Len(w)), a + 1, b) = SubSeq(w, (k + a) + 1, k + b)
<1> DEFINE r == SubSeq(w, k + 1, Len(w))
           s == SubSeq(r, a + 1, b)
           t == SubSeq(w, (k + a) + 1, k + b)
<1>0. Len(w) \in Nat /\ k + a \in Nat /\ k + b \in Nat /\ k + a <= k + b
  OBVIOUS
<1>1. /\ r \in Seq(Nat) /\ Len(r) = Len(w) - k
      /\ \A i \in 1..(Len(w) - k) : r[i] = w[k + i]
  BY <1>0, Part
<1>2. b <= Len(r)
  BY <1>0, <1>1
<1> HIDE DEF r
<1>3. s \in Seq(Nat) /\ Len(s) = b - a /\ \A i \in 1..(b - a) : s[i] = r[a + i]
  BY <1>1, <1>2, Part
<1>4. /\ t \in Seq(Nat) /\ Len(t) = (k + b) - (k + a)
      /\ \A i \in 1..((k + b) - (k + a)) : t[i] = w[(k + a) + i]
  BY <1>0, Part
<1> HIDE DEF s, t
<1>5. ASSUME NEW i \in 1..(b - a) PROVE s[i] = t[i]
  <2>1. a + i \in 1..(Len(w) - k) /\ k + (a + i) = (k + a) + i /\ i \in 1..((k + b) - (k + a))
    BY <1>0
  <2>2. s[i] = w[k + (a + i)]
    BY <1>1, <1>3, <2>1
  <2> QED BY <1>4, <2>1, <2>2
<1>6. Len(s) = Len(t) /\ \A i \in 1..Len(s) : s[i] = t[i]
  BY <1>3, <1>4, <1>5
<1>7. s = t
  BY <1>3, <1>4, <1>6, SeqEqual
<1> QED BY <1>7 DEF s, t, r

(* One more part is cut off the rest.                                      *)
LEMMA CutExtended ==
    ASSUME NEW whole \in Seq(Nat), NEW body \in Seq(Chunks), NEW cut, IsCut(cut, body, whole),
           NEW rest, rest = SubSeq(whole, cut[Len(body)] + 1, Len(whole)),
           NEW n \in 0..Len(rest), NEW c \in Chunks, c.data = SubSeq(rest, 1, n)
    PROVE  CutTo(Append(body, c), whole, Len(body) + 1, SubSeq(rest, n + 1, Len(rest)))
<1> DEFINE L == Len(body)
           N == Len(whole)
           k == cut[L]
           next == [i \in 0..(L + 1) |-> IF i <= L THEN cut[i] ELSE k + n]
<1>1. L \in Nat /\ N \in Nat
  OBVIOUS
<1>2. cut \in [0..L -> 0..N] /\ cut[0] = 0
  BY DEF IsCut
<1>3. k \in Nat /\ k <= N
  <2>1. L \in 0..L
    BY <1>1
  <2>2. k \in 0..N
    BY <1>2, <2>1
  <2> HIDE DEF k, N
  <2> QED BY <1>1, <2>2
<1>4. Len(rest) = N - k /\ rest \in Seq(Nat)
  <2>1. rest = SubSeq(whole, k + 1, N)
    OBVIOUS
  <2> HIDE DEF k
  <2>2. SubSeq(whole, k + 1, N) \in Seq(Nat) /\ Len(SubSeq(whole, k + 1, N)) = N - k
    BY <1>1, <1>3, Part
  <2> QED BY <2>1, <2>2
<1>5. n \in Nat /\ k + n \in Nat /\ k + n <= N /\ n <= N - k
  <2> HIDE DEF k, N
  <2> QED BY <1>1, <1>3, <1>4
<1>6. SubSeq(rest, 1, n) = SubSeq(whole, k + 1, k + n)
  <2>1. SubSeq(SubSeq(whole, k + 1, N), 0 + 1, n) = SubSeq(whole, (k + 0) + 1, k + n)
    <3> HIDE DEF k
    <3> QED BY <1>1, <1>3, <1>5, PartOfRest
  <2>2. rest = SubSeq(whole, k + 1, N)
    OBVIOUS
  <2> HIDE DEF k, N
  <2>3. 0 + 1 = 1 /\ k + 0 = k
    BY <1>3
  <2> QED BY <2>1, <2>2, <2>3
<1>7. SubSeq(rest, n + 1, Len(rest)) = SubSeq(whole, (k + n) + 1, N)
  <2>1. N - k \in Nat /\ k + (N - k) = N
    <3> HIDE DEF k, N
    <3> QED BY <1>1, <1>3
  <2>2. SubSeq(SubSeq(whole, k + 1, N), n + 1, N - k) = SubSeq(whole, (k + n) + 1, k + (N - k))
    <3> HIDE DEF k
    <3> QED BY <1>1, <1>3, <1>5, <2>1, PartOfRest
  <2> QED BY <1>4, <2>1, <2>2
<1>8. /\ Len(Append(body, c)) = L + 1
      /\ \A i \in 1..L : Append(body, c)[i] = body[i]
      /\ Append(body, c)[L + 1] = c
  BY AppendProperties
<1>9. /\ \A i, j \in 0..L : i <= j => cut[i] <= cut[j]
      /\ \A i \in 1..L : body[i].data = SubSeq(whole, cut[i - 1] + 1, cut[i])
  BY DEF IsCut
<1> HIDE DEF L, k, N
<1>10. next \in [0..(L + 1) -> 0..N]
  <2>1. ASSUME NEW i \in 0..(L + 1) PROVE (IF i <= L THEN cut[i] ELSE k + n) \in 0..N
    BY <1>1, <1>2, <1>5
  <2> QED BY <2>1
<1>11. next[0] = 0 /\ next[L + 1] = k + n /\ next[L] = k
  BY <1>1, <1>2 DEF k
<1>12. ASSUME NEW i \in 1..(L + 1)
      PROVE  Append(body, c)[i].data = SubSeq(whole, next[i - 1] + 1, next[i])
  <2>1. CASE i \in 1..L
    <3>1. next[i] = cut[i] /\ next[i - 1] = cut[i - 1]
      BY <1>1, <2>1
    <3>2. Append(body, c)[i] = body[i] /\ body[i].data = SubSeq(whole, cut[i - 1] + 1, cut[i])
      BY <1>8, <1>9, <2>1
    <3> HIDE DEF next
    <3> QED BY <3>1, <3>2
  <2>2. CASE i = L + 1
    <3>1. i - 1 = L
      BY <1>1, <2>2
    <3>2. next[i - 1] = k /\ next[i] = k + n /\ k <= k + n
      BY <1>3, <1>5, <1>11, <2>2, <3>1
    <3>3. Append(body, c)[i].data = SubSeq(whole, k + 1, k + n)
      BY <1>6, <1>8, <2>2
    <3> HIDE DEF next
    <3> QED BY <3>2, <3>3
  <2>3. i \in 1..L \/ i = L + 1
    BY <1>1
  <2> QED BY <2>1, <2>2, <2>3
<1>14. ASSUME NEW i \in 0..(L + 1), NEW j \in 0..(L + 1), i <= j PROVE next[i] <= next[j]
  <2>1. CASE j <= L
    <3>1. next[i] = cut[i] /\ next[j] = cut[j] /\ i \in 0..L /\ j \in 0..L
      BY <1>1, <1>14, <2>1
    <3> QED BY <1>9, <1>14, <3>1
  <2>2. CASE i <= L /\ j = L + 1
    <3>1. next[i] = cut[i] /\ i \in 0..L /\ L \in 0..L
      BY <1>1, <2>2
    <3>2. cut[i] <= k
      BY <1>9, <2>2, <3>1 DEF k
    <3>3. cut[i] \in Nat
      BY <1>1, <1>2, <3>1
    <3> HIDE DEF next
    <3> QED BY <1>3, <1>5, <1>11, <2>2, <3>1, <3>2, <3>3
  <2>3. CASE i = L + 1 /\ j = L + 1
    BY <1>5, <1>11, <2>3
  <2> QED BY <1>1, <1>14, <2>1, <2>2, <2>3
<1> HIDE DEF next
<1>13. IsCut(next, Append(body, c), whole)
  BY <1>8, <1>10, <1>11, <1>12, <1>14 DEF IsCut, N
<1> QED BY <1>7, <1>11, <1>13 DEF L, N, CutTo

LEMMA OutKept ==
    ASSUME CInv, OutOK, frame # NoFrame => FrameOK(frame), CNext
    PROVE  OutOK' /\ (frame' # NoFrame => FrameOK(frame'))
<1>1. CASE SettingStep
  BY <1>1, SettingTypes DEF CInv, OutOK
<1>2. CASE BeginStep
  <2>1. job'.rest = job'.input
    BY <1>2 DEF BeginStep, BeginSession
  <2> QED BY <1>2, <2>1, BeginTypes DEF CInv, OutOK
<1>3. CASE HeaderWritten
  <2>1. frame = NoFrame /\ frame' = NoFrame /\ job # None /\ job.step = "header"
    BY <1>3 DEF CInv, OneAtATime, HeaderWritten
  <2>2. /\ job' # None /\ job'.step = "chunks" /\ job'.rest = job.input
        /\ job'.out \in Frames /\ job'.out.body = <<>> /\ job'.out.origin = job.input
        /\ HeaderOK(job'.out)
    <3> DEFINE a == AppliedParameters(req, cgraph)
               shown == IF a.version >= ZL_COMMENT_VERSION_MIN THEN comment ELSE None
    <3>1. job.rest = job.input
      BY <2>1 DEF OutOK
    <3>2. /\ job' # None /\ job'.step = "chunks" /\ job'.rest = job.input
          /\ job'.out \in Frames
          /\ job'.out = Frame(a.version, a.content # "off", a.compressed # "off",
                              shown, cgraph, a.start, job.input)
      BY <1>3, <3>1, HeaderWrittenFrame
    <3> HIDE DEF a, shown
    <3>3. /\ job'.out.body = <<>> /\ job'.out.origin = job.input /\ job'.out.extra = FALSE
          /\ job'.out.size = Len(job.input) /\ job'.out.version = a.version
          /\ job'.out.compressed = (a.compressed # "off")
      BY <3>2 DEF Frame
    <3>4. job'.out.headerSum = IF Chunked(a.version) /\ a.compressed # "off"
                               THEN <<Len(job.input)>> ELSE <<>>
      BY <3>2 DEF Frame
    <3>5. HeaderOK(job'.out)
      BY <3>3, <3>4 DEF HeaderOK
    <3> QED BY <3>2, <3>3, <3>5
  <2>3. Len(job'.out.body) = 0 /\ job.input \in Seq(Nat)
    BY <2>2, FrameUpdates
  <2>4. CutBefore(job'.out, job'.rest)
    <3> DEFINE cut == [i \in 0..0 |-> 0]
    <3>1. cut \in [0..0 -> 0..Len(job.input)] /\ cut[0] = 0
      BY <2>3
    <3>2. IsCut(cut, job'.out.body, job'.out.origin)
      BY <2>2, <2>3, <3>1 DEF IsCut
    <3>3. job.input = SubSeq(job.input, 1, Len(job.input))
      BY <2>3, SubSeqFull
    <3> HIDE DEF cut
    <3> QED BY <2>2, <2>3, <3>1, <3>2, <3>3 DEF CutBefore, CutTo
  <2>5. SumsOK(job'.out)
    BY <2>3 DEF SumsOK
  <2> QED BY <2>1, <2>2, <2>3, <2>4, <2>5 DEF OutOK
<1>4. ASSUME NEW n \in 0..MaxCapacity, ChunkWritten(n)
      PROVE  OutOK' /\ (frame' # NoFrame => FrameOK(frame'))
  <2> DEFINE c == Chunk(SubSeq(job.rest, 1, n))
  <2>1. frame = NoFrame /\ frame' = NoFrame /\ job # None /\ job.step = "chunks"
    BY <1>4 DEF CInv, OneAtATime, ChunkWritten
  <2>2. /\ job' # None
        /\ job'.step = IF n = Len(job.rest) THEN "footer" ELSE "chunks"
        /\ job'.rest = SubSeq(job.rest, n + 1, Len(job.rest))
        /\ job'.out = [job.out EXCEPT !.body = Append(@, c)]
        /\ c \in Chunks
        /\ job.out \in Frames
        /\ job.rest \in Seq(Nat) /\ n \in 0..Len(job.rest)
    BY <1>4, ChunkWrittenFrame
  <2>3. /\ c.data = SubSeq(job.rest, 1, n) /\ c.decodes
        /\ c.contentSum = IF job.out.content THEN c.data ELSE <<>>
        /\ c.compressedSum = IF job.out.compressed
              THEN CompressedSum(job.out.version, job.out.size, c.data) ELSE <<>>
    BY DEF Chunk
  <2> HIDE DEF c
  <2>4. /\ job'.out.version = job.out.version /\ job'.out.content = job.out.content
        /\ job'.out.compressed = job.out.compressed /\ job'.out.extra = job.out.extra
        /\ job'.out.headerSum = job.out.headerSum
        /\ job'.out.origin = job.out.origin /\ job'.out.size = job.out.size
        /\ job'.out.body = Append(job.out.body, c)
        /\ job.out.body \in Seq(Chunks) /\ job.out.origin \in Seq(Nat)
    BY <2>2 DEF Frames
  <2>5. /\ Len(job'.out.body) = Len(job.out.body) + 1
        /\ \A i \in 1..Len(job.out.body) : job'.out.body[i] = job.out.body[i]
        /\ job'.out.body[Len(job.out.body) + 1] = c
        /\ Len(job.out.body) \in Nat
    BY <2>2, <2>4, AppendProperties
  <2>6. HeaderOK(job'.out)
    BY <2>1, <2>4 DEF OutOK, HeaderOK
  <2>7. SumsOK(job'.out)
    <3>1. SumsOK(job.out)
      BY <2>1 DEF OutOK
    <3>2. ASSUME NEW i \in 1..Len(job'.out.body)
          PROVE  i \in 1..Len(job.out.body) \/ i = Len(job.out.body) + 1
      BY <2>5
    <3> QED BY <2>3, <2>4, <2>5, <3>1, <3>2 DEF SumsOK
  <2>8. CutBefore(job'.out, job'.rest)
    <3>1. PICK cut : /\ IsCut(cut, job.out.body, job.out.origin)
                     /\ job.rest = SubSeq(job.out.origin, cut[Len(job.out.body)] + 1,
                                         Len(job.out.origin))
      BY <2>1 DEF OutOK, CutBefore, CutTo
    <3> DEFINE b == job.out.body
               w == job.out.origin
               r == job.rest
    <3>2. /\ b \in Seq(Chunks) /\ w \in Seq(Nat) /\ c \in Chunks /\ n \in 0..Len(r)
          /\ c.data = SubSeq(r, 1, n) /\ IsCut(cut, b, w)
          /\ r = SubSeq(w, cut[Len(b)] + 1, Len(w))
      BY <2>2, <2>3, <2>4, <3>1
    <3> HIDE DEF b, w, r
    <3>3. CutTo(Append(b, c), w, Len(b) + 1, SubSeq(r, n + 1, Len(r)))
      BY <3>2, CutExtended
    <3> QED BY <2>2, <2>4, <2>5, <3>3 DEF CutBefore, b, w, r
  <2>9. ~Chunked(job.out.version) => n = Len(job.rest) /\ Len(job'.out.body) = 1
    <3> SUFFICES ASSUME ~Chunked(job.out.version) PROVE n = Len(job.rest) /\ Len(job'.out.body) = 1
      OBVIOUS
    <3>1. n = Len(job.rest)
      BY <1>4 DEF ChunkWritten, ChunkSizes
    <3>2. Len(job.out.body) = 0
      BY <2>1 DEF OutOK
    <3> QED BY <2>5, <3>1, <3>2
  <2>10. n = Len(job.rest) => job'.rest = <<>>
    BY <2>2
  <2> QED BY <2>1, <2>2, <2>4, <2>6, <2>7, <2>8, <2>9, <2>10 DEF OutOK
<1>5. CASE SessionEnded
  <2>1. /\ job' = None /\ job # None
        /\ frame' = NoFrame \/ (job.step = "footer" /\ frame' = Completed)
    BY <1>5, SessionEndedFrame
  <2>2. ASSUME job.step = "footer" PROVE FrameOK(Completed)
    <3>1. /\ HeaderOK(job.out) /\ SumsOK(job.out) /\ CutBefore(job.out, <<>>)
          /\ ~Chunked(job.out.version) => Len(job.out.body) = 1
          /\ job.out \in Frames
      BY <2>1, <2>2 DEF OutOK, CInv, InForce
    <3>2. /\ Completed.version = job.out.version /\ Completed.content = job.out.content
          /\ Completed.compressed = job.out.compressed /\ Completed.extra = job.out.extra
          /\ Completed.headerSum = job.out.headerSum /\ Completed.body = job.out.body
          /\ Completed.origin = job.out.origin /\ Completed.size = job.out.size
          /\ Completed.eof = NeedsMarker(job.out.version)
      BY <3>1 DEF Completed, Frames
    <3>3. PICK cut : /\ IsCut(cut, job.out.body, job.out.origin)
                     /\ <<>> = SubSeq(job.out.origin, cut[Len(job.out.body)] + 1,
                                     Len(job.out.origin))
      BY <3>1 DEF CutBefore, CutTo
    <3>4. cut[Len(job.out.body)] = Len(job.out.origin)
      <4>1. job.out.body \in Seq(Chunks) /\ job.out.origin \in Seq(Nat)
        BY <3>1, FrameUpdates
      <4>2. cut[Len(job.out.body)] \in 0..Len(job.out.origin)
        BY <3>3, <4>1 DEF IsCut
      <4> DEFINE k == cut[Len(job.out.body)]
                 w == job.out.origin
      <4>3. Len(SubSeq(w, k + 1, Len(w))) = 0
        <5>1. SubSeq(w, k + 1, Len(w)) = <<>>
          BY <3>3
        <5> HIDE DEF k, w
        <5> QED BY <5>1, EmptySeq
      <4>4. k \in 0..Len(w) /\ w \in Seq(Nat)
        BY <4>1, <4>2
      <4> HIDE DEF k, w
      <4>5. Len(w) \in Nat /\ k \in Nat /\ k <= Len(w)
        BY <4>4
      <4>6. Len(SubSeq(w, k + 1, Len(w))) = Len(w) - k
        BY <4>4, <4>5, Part
      <4>7. k = Len(w)
        BY <4>3, <4>5, <4>6
      <4> QED BY <4>7 DEF k, w
    <3>5. HeaderOK(Completed) /\ SumsOK(Completed)
      BY <3>1, <3>2 DEF HeaderOK, SumsOK
    <3> QED BY <3>1, <3>2, <3>3, <3>4, <3>5 DEF FrameOK, NeedsMarker
  <2> QED BY <2>1, <2>2 DEF OutOK
<1> QED BY <1>1, <1>2, <1>3, <1>4, <1>5, CSteps

-----------------------------------------------------------------------------
(* Damaged copies: the body is the same, or one chunk has other data under *)
(* the same checksums, or one chunk is missing.                            *)

Without(body, i) == SubSeq(body, 1, i - 1) \o SubSeq(body, i + 1, Len(body))
SameSums(g, f) ==
    /\ Len(g.body) = Len(f.body)
    /\ g.version = f.version /\ g.size = f.size
    /\ g.content = f.content /\ g.compressed = f.compressed
    /\ \A j \in 1..Len(f.body) : /\ g.body[j].contentSum = f.body[j].contentSum
                                /\ g.body[j].compressedSum = f.body[j].compressedSum

LEMMA WithoutOne ==
    ASSUME NEW body \in Seq(Chunks), NEW i \in 1..Len(body)
    PROVE  /\ Without(body, i) \in Seq(Chunks)
           /\ Len(Without(body, i)) = Len(body) - 1
           /\ \A j \in 1..(Len(body) - 1) :
                Without(body, i)[j] = IF j < i THEN body[j] ELSE body[j + 1]
<1> DEFINE L == Len(body)
           s == SubSeq(body, 1, i - 1)
           t == SubSeq(body, i + 1, L)
<1>1. L \in Nat /\ i \in Nat /\ 1 <= i /\ i <= L
  OBVIOUS
<1>2. s \in Seq(Chunks) /\ Len(s) = i - 1 /\ \A j \in 1..(i - 1) : s[j] = body[j]
  <2>1. \A j \in 1..(i - 1) : body[j] \in Chunks
    BY <1>1, ElementOfSeq
  <2>2. /\ s \in Seq(Chunks) /\ Len(s) = IF 1 <= i - 1 THEN (i - 1) - 1 + 1 ELSE 0
        /\ \A j \in 1..((i - 1) - 1 + 1) : s[j] = body[1 + j - 1]
    BY <1>1, <2>1, SubSeqProperties
  <2> HIDE DEF s
  <2> QED BY <1>1, <2>2
<1>3. t \in Seq(Chunks) /\ Len(t) = L - i /\ \A j \in 1..(L - i) : t[j] = body[i + j]
  <2>1. \A j \in (i + 1)..L : body[j] \in Chunks
    BY <1>1, ElementOfSeq
  <2>2. /\ t \in Seq(Chunks) /\ Len(t) = IF i + 1 <= L THEN L - (i + 1) + 1 ELSE 0
        /\ \A j \in 1..(L - (i + 1) + 1) : t[j] = body[(i + 1) + j - 1]
    BY <1>1, <2>1, SubSeqProperties
  <2> HIDE DEF t, L
  <2> QED BY <1>1, <2>2
<1> HIDE DEF s, t
<1>4. /\ s \o t \in Seq(Chunks) /\ Len(s \o t) = Len(s) + Len(t)
      /\ \A j \in 1..(Len(s) + Len(t)) : (s \o t)[j] = IF j <= Len(s) THEN s[j] ELSE t[j - Len(s)]
  BY <1>2, <1>3, ConcatProperties
<1>5. ASSUME NEW j \in 1..(L - 1)
      PROVE  (s \o t)[j] = IF j < i THEN body[j] ELSE body[j + 1]
  <2> HIDE DEF L
  <2>1. j \in 1..(Len(s) + Len(t))
    BY <1>1, <1>2, <1>3
  <2>2. CASE j < i
    BY <1>1, <1>2, <1>4, <2>1, <2>2
  <2>3. CASE ~(j < i)
    <3>1. j - (i - 1) \in 1..(L - i) /\ i + (j - (i - 1)) = j + 1 /\ ~(j <= i - 1)
      BY <1>1, <2>3
    <3> QED BY <1>2, <1>3, <1>4, <2>1, <2>3, <3>1
  <2> QED BY <2>2, <2>3
<1>6. Len(s) + Len(t) = L - 1
  <2> HIDE DEF L
  <2> QED BY <1>1, <1>2, <1>3
<1> QED BY <1>4, <1>5, <1>6 DEF Without, s, t

LEMMA ChunkReplaced ==
    ASSUME NEW f \in Frames, NEW i \in DOMAIN f.body, NEW g,
           NEW c \in Chunks, c.contentSum = f.body[i].contentSum,
           c.compressedSum = f.body[i].compressedSum,
           g = [f EXCEPT !.body = [f.body EXCEPT ![i] = c]]
    PROVE  g \in Frames /\ SameSums(g, f)
<1>1. f.body \in Seq(Chunks) /\ i \in 1..Len(f.body)
  BY FrameUpdates
<1> DEFINE b == [f.body EXCEPT ![i] = c]
<1>2. /\ b \in Seq(Chunks) /\ Len(b) = Len(f.body)
      /\ \A j \in 1..Len(f.body) : b[j] = IF j = i THEN c ELSE f.body[j]
  BY <1>1, ExceptSeq
<1>3. g = [f EXCEPT !.body = b]
  OBVIOUS
<1> HIDE DEF b
<1>4. g \in Frames
  BY <1>2, <1>3, FrameUpdates
<1>5. /\ g.body = b /\ g.version = f.version /\ g.size = f.size
      /\ g.content = f.content /\ g.compressed = f.compressed
  BY <1>3 DEF Frames
<1> QED BY <1>2, <1>4, <1>5 DEF SameSums

LEMMA CopyKinds ==
    ASSUME NEW f \in Frames, NEW g \in Copies(f)
    PROVE  /\ g \in Frames
           /\ \/ g.body = f.body
              \/ SameSums(g, f)
              \/ \E i \in 1..Len(f.body) : g.body = Without(f.body, i) /\ g.size = f.size
<1>0. f.body \in Seq(Chunks) /\ f.size \in Nat /\ DOMAIN f.body = 1..Len(f.body)
  BY FrameUpdates
<1>1. ASSUME NEW i \in DOMAIN f.body,
             g = [f EXCEPT !.body[i].decodes = FALSE, !.body[i].data = << 0 >>]
      PROVE  g \in Frames /\ SameSums(g, f)
  <2> DEFINE c == [f.body[i] EXCEPT !.decodes = FALSE, !.data = <<0>>]
  <2>1. f.body[i] \in Chunks
    BY <1>0, ElementOfSeq
  <2>2. c \in Chunks /\ c.contentSum = f.body[i].contentSum /\ c.compressedSum = f.body[i].compressedSum
    <3>1. <<0>> \in Seq(Nat)
      OBVIOUS
    <3> QED BY <2>1, <3>1 DEF Chunks
  <2>3. g = [f EXCEPT !.body = [f.body EXCEPT ![i] = c]]
    BY <1>0, <1>1, <2>1 DEF Frames
  <2> HIDE DEF c
  <2> QED BY <2>2, <2>3, ChunkReplaced
<1>2. ASSUME NEW i \in DOMAIN f.body, NEW d \in Damage, g = [f EXCEPT !.body[i].data = d]
      PROVE  g \in Frames /\ SameSums(g, f)
  <2> DEFINE c == [f.body[i] EXCEPT !.data = d]
  <2>1. f.body[i] \in Chunks
    BY <1>0, ElementOfSeq
  <2>2. c \in Chunks /\ c.contentSum = f.body[i].contentSum /\ c.compressedSum = f.body[i].compressedSum
    BY <2>1, DamageAssumption DEF Chunks
  <2>3. g = [f EXCEPT !.body = [f.body EXCEPT ![i] = c]]
    BY <1>0, <1>2, <2>1 DEF Frames
  <2> HIDE DEF c
  <2> QED BY <2>2, <2>3, ChunkReplaced
<1>3. ASSUME NEW i \in DOMAIN f.body, g = [f EXCEPT !.body = Without(f.body, i)]
      PROVE  g \in Frames /\ g.body = Without(f.body, i) /\ g.size = f.size
  <2>1. Without(f.body, i) \in Seq(Chunks)
    BY <1>0, WithoutOne
  <2> QED BY <1>3, <2>1, FrameUpdates DEF Frames
<1>4. CASE g \in {f, [f EXCEPT !.eof = FALSE], [f EXCEPT !.extra = TRUE], [f EXCEPT !.size = @ + 1]}
  <2>1. f.size + 1 \in Nat
    BY <1>0
  <2>2. g \in Frames
    BY <1>4, <2>1, FrameUpdates
  <2>3. g.body = f.body
    BY <1>4 DEF Frames
  <2> QED BY <2>2, <2>3
<1>5. \/ g \in {f, [f EXCEPT !.eof = FALSE], [f EXCEPT !.extra = TRUE], [f EXCEPT !.size = @ + 1]}
      \/ \E i \in DOMAIN f.body :
           \/ g = [f EXCEPT !.body[i].decodes = FALSE, !.body[i].data = <<0>>]
           \/ \E d \in Damage : g = [f EXCEPT !.body[i].data = d]
           \/ g = [f EXCEPT !.body = Without(f.body, i)]
  <2>1. g \in Altered(f) => \E i \in DOMAIN f.body :
           \/ g = [f EXCEPT !.body[i].decodes = FALSE, !.body[i].data = <<0>>]
           \/ \E d \in Damage : g = [f EXCEPT !.body[i].data = d]
    <3> DEFINE A(i) == [f EXCEPT !.body[i].decodes = FALSE, !.body[i].data = <<0>>]
               B(i, d) == [f EXCEPT !.body[i].data = d]
    <3>1. Altered(f) = {A(i) : i \in DOMAIN f.body} \cup
                       UNION {{B(i, d) : d \in Damage \ {f.body[i].data}} : i \in DOMAIN f.body}
      BY Zenon DEF Altered
    <3> HIDE DEF A, B
    <3>2. g \in Altered(f) => \E i \in DOMAIN f.body : g = A(i) \/ \E d \in Damage : g = B(i, d)
      BY <3>1
    <3> QED BY <3>2 DEF A, B
  <2>2. g \in Lost(f) => \E i \in DOMAIN f.body : g = [f EXCEPT !.body = Without(f.body, i)]
    BY DEF Lost, Without
  <2> QED BY <2>1, <2>2 DEF Copies
<1> QED BY <1>0, <1>1, <1>2, <1>3, <1>4, <1>5

-----------------------------------------------------------------------------
(* What the chunks appended so far amount to, for the cut of the frame: a  *)
(* beginning of the input, from which at most one part is missing.         *)

Filled(cut, f, body, p, data) ==
    /\ Len(body) = Len(f.body) => data = SubSeq(f.origin, 1, cut[p - 1])
    /\ \A i \in 1..Len(f.body) : body = Without(f.body, i) =>
         data = IF p <= i THEN SubSeq(f.origin, 1, cut[p - 1])
                ELSE SubSeq(f.origin, 1, cut[i - 1]) \o SubSeq(f.origin, cut[i] + 1, cut[p])

LEMMA CutAt ==
    ASSUME NEW body \in Seq(Chunks), NEW w \in Seq(Nat), NEW cut, IsCut(cut, body, w),
           NEW j \in 0..Len(body)
    PROVE  cut[j] \in Nat /\ cut[j] <= Len(w)
<1>1. cut \in [0..Len(body) -> 0..Len(w)]
  BY DEF IsCut
<1>2. cut[j] \in 0..Len(w)
  BY <1>1, Zenon
<1>3. Len(w) \in Nat
  OBVIOUS
<1> QED BY <1>2, <1>3

LEMMA CutPart ==
    ASSUME NEW body \in Seq(Chunks), NEW w \in Seq(Nat), NEW cut, IsCut(cut, body, w),
           NEW j \in 1..Len(body)
    PROVE  /\ cut[j - 1] \in Nat /\ cut[j] \in Nat /\ cut[j - 1] <= cut[j] /\ cut[j] <= Len(w)
           /\ body[j].data = SubSeq(w, cut[j - 1] + 1, cut[j])
           /\ Len(body[j].data) = cut[j] - cut[j - 1]
           /\ SubSeq(w, 1, cut[j - 1]) \o body[j].data = SubSeq(w, 1, cut[j])
<1>1. j \in 0..Len(body) /\ j - 1 \in 0..Len(body) /\ j - 1 <= j /\ Len(w) \in Nat
  OBVIOUS
<1> DEFINE a == cut[j - 1]
           b == cut[j]
<1>2. a \in Nat /\ b \in Nat /\ b <= Len(w)
  BY <1>1, CutAt
<1>3. a <= b /\ body[j].data = SubSeq(w, a + 1, b)
  BY <1>1 DEF IsCut
<1> HIDE DEF a, b
<1>4. Len(SubSeq(w, a + 1, b)) = b - a
  BY <1>1, <1>2, <1>3, Part
<1>5. SubSeq(w, 1, a) \o SubSeq(w, a + 1, b) = SubSeq(w, 1, b)
  <2>1. 1 \in 1..(Len(w) + 1) /\ a \in (1 - 1)..Len(w) /\ b \in a..Len(w)
    BY <1>1, <1>2, <1>3
  <2> QED BY <2>1, ConcatAdjacentSubSeq
<1> QED BY <1>2, <1>3, <1>4, <1>5 DEF a, b

LEMMA FilledAtStart ==
    ASSUME NEW f \in Frames, NEW cut, IsCut(cut, f.body, f.origin), NEW body
    PROVE  Filled(cut, f, body, 1, <<>>)
<1>1. cut[1 - 1] = 0
  BY DEF IsCut
<1>2. SubSeq(f.origin, 1, 0) = <<>>
  BY SubSeqEmpty
<1>3. \A i \in 1..Len(f.body) : 1 <= i
  BY FrameUpdates
<1> QED BY <1>1, <1>2, <1>3 DEF Filled

(* One more chunk.                                                         *)
LEMMA FilledNext ==
    ASSUME NEW f \in Frames, NEW cut, IsCut(cut, f.body, f.origin), NEW body \in Seq(Chunks),
           NEW p \in 1..Len(body), NEW data, Filled(cut, f, body, p, data),
           Len(body) = Len(f.body) => body[p].data = f.body[p].data
    PROVE  Filled(cut, f, body, p + 1, data \o body[p].data)
<1> DEFINE w == f.origin
           L == Len(f.body)
<1>0. f.body \in Seq(Chunks) /\ w \in Seq(Nat) /\ L \in Nat /\ Len(body) \in Nat /\ p \in Nat
      /\ (p + 1) - 1 = p
  BY FrameUpdates
<1>1. ASSUME Len(body) = L
      PROVE  data \o body[p].data = SubSeq(w, 1, cut[(p + 1) - 1])
  <2>1. p \in 1..L
    BY <1>1
  <2>2. SubSeq(w, 1, cut[p - 1]) \o f.body[p].data = SubSeq(w, 1, cut[p])
    BY <1>0, <2>1, CutPart
  <2> QED BY <1>0, <1>1, <2>2 DEF Filled
<1>2. ASSUME NEW i \in 1..L, body = Without(f.body, i)
      PROVE  data \o body[p].data =
               IF p + 1 <= i THEN SubSeq(w, 1, cut[(p + 1) - 1])
               ELSE SubSeq(w, 1, cut[i - 1]) \o SubSeq(w, cut[i] + 1, cut[p + 1])
  <2>1. /\ Len(body) = L - 1
        /\ body[p] = IF p < i THEN f.body[p] ELSE f.body[p + 1]
    BY <1>0, <1>2, WithoutOne
  <2>2. p \in 1..L /\ p + 1 \in 1..L /\ i \in Nat
    BY <1>0, <2>1
  <2>3. data = IF p <= i THEN SubSeq(w, 1, cut[p - 1])
               ELSE SubSeq(w, 1, cut[i - 1]) \o SubSeq(w, cut[i] + 1, cut[p])
    BY <1>2 DEF Filled
  <2>4. CASE p < i
    <3>1. SubSeq(w, 1, cut[p - 1]) \o f.body[p].data = SubSeq(w, 1, cut[p])
      BY <1>0, <2>2, CutPart
    <3>2. p <= i /\ p + 1 <= i
      BY <2>2, <2>4
    <3> QED BY <1>0, <2>1, <2>3, <2>4, <3>1, <3>2
  <2>5. CASE p = i
    <3>1. f.body[p + 1].data = SubSeq(w, cut[p] + 1, cut[p + 1])
      <4>1. f.body[p + 1].data = SubSeq(w, cut[(p + 1) - 1] + 1, cut[p + 1])
        BY <1>0, <2>2, CutPart
      <4> QED BY <1>0, <4>1
    <3>2. ~(p < i) /\ p <= i /\ ~(p + 1 <= i)
      BY <2>2, <2>5
    <3> QED BY <2>1, <2>3, <2>5, <3>1, <3>2
  <2>6. CASE p > i
    <3> DEFINE a == cut[i]
               b == cut[p]
               c == cut[p + 1]
               h == cut[i - 1]
    <3>0. i \in 0..L /\ p \in 0..L /\ i - 1 \in 0..L /\ p + 1 \in 0..L /\ i <= p /\ p <= p + 1
      BY <1>0, <2>2, <2>6
    <3>1. f.body[p + 1].data = SubSeq(w, b + 1, c)
      <4>1. f.body[p + 1].data = SubSeq(w, cut[(p + 1) - 1] + 1, cut[p + 1])
        BY <1>0, <2>2, CutPart
      <4> QED BY <1>0, <4>1
    <3>2. a \in Nat /\ b \in Nat /\ c \in Nat /\ h \in Nat /\ c <= Len(w) /\ h <= Len(w)
      BY <1>0, <3>0, CutAt
    <3>3. a <= b /\ b <= c
      BY <3>0 DEF IsCut
    <3>4. ~(p < i) /\ ~(p <= i) /\ ~(p + 1 <= i)
      BY <2>2, <2>6
    <3>5. data = SubSeq(w, 1, h) \o SubSeq(w, a + 1, b) /\ body[p].data = SubSeq(w, b + 1, c)
      BY <2>1, <2>3, <3>1, <3>4
    <3>6. Len(w) \in Nat
      BY <1>0
    <3> HIDE DEF a, b, c, h, w
    <3>7. /\ SubSeq(w, 1, h) \in Seq(Nat) /\ SubSeq(w, a + 1, b) \in Seq(Nat)
          /\ SubSeq(w, b + 1, c) \in Seq(Nat)
      <4>1. b <= Len(w) /\ 0 <= h
        BY <3>2, <3>3, <3>6
      <4> QED BY <1>0, <3>2, <3>3, <4>1, Part, Beginning
    <3>8. SubSeq(w, a + 1, b) \o SubSeq(w, b + 1, c) = SubSeq(w, a + 1, c)
      <4>1. a + 1 \in 1..(Len(w) + 1) /\ b \in ((a + 1) - 1)..Len(w) /\ c \in b..Len(w)
        BY <3>2, <3>3, <3>6
      <4> QED BY <1>0, <4>1, ConcatAdjacentSubSeq
    <3>9. (SubSeq(w, 1, h) \o SubSeq(w, a + 1, b)) \o SubSeq(w, b + 1, c)
            = SubSeq(w, 1, h) \o SubSeq(w, a + 1, c)
      <4> DEFINE x == SubSeq(w, 1, h)
                 y == SubSeq(w, a + 1, b)
                 z == SubSeq(w, b + 1, c)
      <4>1. x \in Seq(Nat) /\ y \in Seq(Nat) /\ z \in Seq(Nat) /\ y \o z = SubSeq(w, a + 1, c)
        BY <3>7, <3>8
      <4> HIDE DEF x, y, z
      <4>2. (x \o y) \o z = x \o (y \o z)
        BY <4>1, Associative
      <4>3. (x \o y) \o z = x \o SubSeq(w, a + 1, c)
        BY <4>1, <4>2
      <4> QED BY <4>3 DEF x, y, z
    <3>10. data \o body[p].data = SubSeq(w, 1, h) \o SubSeq(w, a + 1, c)
      BY <3>5, <3>9
    <3> QED BY <3>4, <3>10 DEF a, c, h
  <2>7. p < i \/ p = i \/ p > i
    BY <2>2
  <2> QED BY <2>4, <2>5, <2>6, <2>7
<1> QED BY <1>1, <1>2 DEF Filled

(* After the last chunk, if the size is right.                             *)
LEMMA FilledAtEnd ==
    ASSUME NEW f \in Frames, NEW cut, IsCut(cut, f.body, f.origin),
           cut[Len(f.body)] = Len(f.origin), NEW body, NEW data,
           Filled(cut, f, body, Len(body) + 1, data),
           \/ Len(body) = Len(f.body)
           \/ /\ \E i \in 1..Len(f.body) : body = Without(f.body, i)
              /\ Len(data) = Len(f.origin)
    PROVE  data = f.origin
<1> DEFINE w == f.origin
           L == Len(f.body)
<1>0. f.body \in Seq(Chunks) /\ w \in Seq(Nat) /\ L \in Nat /\ Len(w) \in Nat /\ (L + 1) - 1 = L
  BY FrameUpdates
<1>1. SubSeq(w, 1, Len(w)) = w
  BY <1>0, SubSeqFull
<1>2. CASE Len(body) = L
  BY <1>0, <1>1, <1>2 DEF Filled
<1>3. ASSUME NEW i \in 1..L, body = Without(f.body, i), Len(data) = Len(w)
      PROVE  data = w
  <2> DEFINE a == cut[i - 1]
             b == cut[i]
  <2>0. i \in 0..L /\ i - 1 \in 0..L /\ i - 1 <= i /\ L \in 0..L /\ i <= L
    BY <1>0
  <2>1. a \in Nat /\ b \in Nat /\ a <= b /\ b <= Len(w)
    BY <1>0, <1>3, CutPart
  <2>2. Len(body) + 1 = L
    BY <1>0, <1>3, WithoutOne
  <2>3. data = IF L <= i THEN SubSeq(w, 1, cut[L - 1])
               ELSE SubSeq(w, 1, a) \o SubSeq(w, b + 1, cut[L])
    BY <1>3, <2>2 DEF Filled
  <2>4. CASE L <= i
    <3>1. L = i
      BY <1>0, <2>0, <2>4
    <3>2. data = SubSeq(w, 1, a)
      BY <2>3, <2>4, <3>1
    <3>3. cut[i] = Len(w)
      BY <3>1
    <3> HIDE DEF a, b, w
    <3>4. 0 <= a /\ a <= Len(w)
      BY <1>0, <2>1
    <3>5. Len(data) = a
      BY <1>0, <2>1, <3>2, <3>4, Beginning
    <3>6. a = Len(w)
      BY <1>3, <2>1, <3>5
    <3> QED BY <1>1, <3>2, <3>6
  <2>5. CASE ~(L <= i)
    <3>1. data = SubSeq(w, 1, a) \o SubSeq(w, b + 1, Len(w))
      BY <2>3, <2>5
    <3> HIDE DEF a, b, w
    <3>2. /\ SubSeq(w, 1, a) \in Seq(Nat) /\ Len(SubSeq(w, 1, a)) = a
          /\ SubSeq(w, b + 1, Len(w)) \in Seq(Nat) /\ Len(SubSeq(w, b + 1, Len(w))) = Len(w) - b
      <4>1. 0 <= a /\ a <= Len(w)
        BY <1>0, <2>1
      <4> QED BY <1>0, <2>1, <4>1, Part, Beginning
    <3>3. Len(data) = a + (Len(w) - b)
      BY <3>1, <3>2, ConcatProperties
    <3>4. a = b
      BY <1>0, <1>3, <2>1, <3>3
    <3>5. SubSeq(w, 1, a) \o SubSeq(w, a + 1, Len(w)) = SubSeq(w, 1, Len(w))
      <4>1. 1 \in 1..(Len(w) + 1) /\ a \in (1 - 1)..Len(w) /\ Len(w) \in a..Len(w)
        BY <1>0, <2>1
      <4> QED BY <1>0, <4>1, ConcatAdjacentSubSeq
    <3> QED BY <1>1, <3>1, <3>4, <3>5
  <2> QED BY <2>4, <2>5
<1> QED BY <1>2, <1>3

-----------------------------------------------------------------------------
(* The decompression side.                                                 *)

FInv == CInv /\ OutOK /\ (frame # NoFrame => FrameOK(frame))

Decoding == verdict \in {"running", "ok"}
DTypes == DTypeOK /\ copy \in Frames \cup {NoFrame} /\ reused \in BOOLEAN
CopyOK ==
    /\ frame = NoFrame => verdict = "none"
    /\ verdict # "none" => copy \in Copies(frame)
    /\ Decoding => out # None /\ pos <= Len(copy.body) + 1
    /\ Decoding /\ copy = frame /\ ~reused => frame.size <= out.capacity
    /\ verdict = "ok" => pos = Len(copy.body) + 1 /\ Len(out.data) = copy.size
Progress ==
    Decoding =>
      \A cut : IsCut(cut, frame.body, frame.origin) =>
        /\ copy = frame /\ reused => Len(out.data) > cut[pos - 1]
        /\ ~reused /\ (copy = frame \/ Verified) =>
             Filled(cut, frame, copy.body, pos, out.data)

DInv == DTypes /\ CopyOK /\ Progress /\ DeliveredDecodes

LEMMA CompressedSumInjective ==
    ASSUME NEW v, NEW n \in Nat, NEW d \in Seq(Nat), NEW e \in Seq(Nat),
           CompressedSum(v, n, d) = CompressedSum(v, n, e)
    PROVE  d = e
<1>1. CASE Chunked(v)
  BY <1>1 DEF CompressedSum
<1>2. CASE ~Chunked(v)
  <2>1. <<n>> \o d = <<n>> \o e /\ <<n>> \in Seq(Nat) /\ Len(<<n>>) = 1
    BY <1>2 DEF CompressedSum
  <2>2. /\ Len(<<n>> \o d) = 1 + Len(d)
        /\ \A i \in 1..(1 + Len(d)) : (<<n>> \o d)[i] = IF i <= 1 THEN <<n>>[i] ELSE d[i - 1]
    BY <2>1, ConcatProperties
  <2>3. /\ Len(<<n>> \o e) = 1 + Len(e)
        /\ \A i \in 1..(1 + Len(e)) : (<<n>> \o e)[i] = IF i <= 1 THEN <<n>>[i] ELSE e[i - 1]
    BY <2>1, ConcatProperties
  <2>4. Len(d) = Len(e) /\ Len(d) \in Nat
    BY <2>1, <2>2, <2>3
  <2>5. ASSUME NEW i \in 1..Len(d) PROVE d[i] = e[i]
    <3>1. i + 1 \in 1..(1 + Len(d)) /\ ~(i + 1 <= 1) /\ (i + 1) - 1 = i
      BY <2>4
    <3>2. (<<n>> \o d)[i + 1] = d[i]
      BY <2>2, <3>1
    <3>3. (<<n>> \o e)[i + 1] = e[i]
      BY <2>3, <2>4, <3>1
    <3> QED BY <2>1, <3>2, <3>3
  <2> QED BY <2>4, <2>5, SeqEqual
<1> QED BY <1>1, <1>2

(* What is known of the frame once it is being decoded.                    *)
LEMMA FrameKnown ==
    ASSUME FInv, DInv, verdict # "none"
    PROVE  /\ frame # NoFrame /\ frame \in Frames /\ FrameOK(frame)
           /\ copy \in Copies(frame) /\ copy \in Frames
           /\ frame.body \in Seq(Chunks) /\ frame.origin \in Seq(Nat)
           /\ copy.body \in Seq(Chunks)
           /\ frame.size = Len(frame.origin) /\ frame.size \in Nat
<1>1. frame # NoFrame /\ copy \in Copies(frame)
  BY DEF DInv, CopyOK
<1>2. frame \in Frames /\ FrameOK(frame)
  BY <1>1 DEF FInv, CInv, CTypeOK
<1>3. copy \in Frames
  BY <1>1, <1>2, CopyKinds
<1> QED BY <1>1, <1>2, <1>3, FrameUpdates DEF FrameOK, HeaderOK

(* A chunk that passed the checks, of a trusted copy, is the frame's own.  *)
LEMMA AcceptedIsOwn ==
    ASSUME FInv, DInv, Running, pos <= Len(copy.body),
           copy = frame \/ Verified, Len(copy.body) = Len(frame.body),
           CompressedSumOK(copy.body[pos]),
           ContentSumOK(copy.body[pos], Appended(out, copy.body[pos].data))
    PROVE  copy.body[pos].data = frame.body[pos].data
<1>0. verdict # "none"
  BY DEF Running
<1>1. /\ frame \in Frames /\ FrameOK(frame) /\ copy \in Copies(frame)
      /\ frame.body \in Seq(Chunks) /\ copy.body \in Seq(Chunks) /\ copy \in Frames
  BY <1>0, FrameKnown
<1>2. pos \in 1..Len(frame.body) /\ out \in Buffers
  BY <1>1 DEF DInv, DTypes, DTypeOK, CopyOK, Decoding, Running
<1>3. CASE copy.body = frame.body
  BY <1>3
<1>4. CASE SameSums(copy, frame) /\ Verified
  <2> DEFINE c == copy.body[pos]
             b == frame.body[pos]
  <2>1. c \in Chunks /\ b \in Chunks
    BY <1>1, <1>2, ElementOfSeq
  <2>2. c.data \in Seq(Nat) /\ b.data \in Seq(Nat)
    BY <2>1 DEF Chunks
  <2>3. /\ c.contentSum = b.contentSum /\ c.compressedSum = b.compressedSum
        /\ copy.version = frame.version /\ copy.size = frame.size
        /\ copy.content = frame.content /\ copy.compressed = frame.compressed
    BY <1>2, <1>4 DEF SameSums
  <2>4. /\ b.contentSum = IF frame.content THEN b.data ELSE <<>>
        /\ b.compressedSum =
             IF frame.compressed THEN CompressedSum(frame.version, frame.size, b.data) ELSE <<>>
    BY <1>1, <1>2 DEF FrameOK, SumsOK
  <2>5. Appended(out, c.data).last = c.data
    BY <1>2 DEF Appended, Buffers
  <2>6. CASE copy.content /\ dapplied.content = "on"
    BY <2>3, <2>4, <2>5, <2>6 DEF ContentSumOK
  <2>7. CASE copy.compressed /\ dapplied.compressed = "on"
    <3>1. CompressedSum(frame.version, frame.size, c.data)
            = CompressedSum(frame.version, frame.size, b.data)
      BY <2>3, <2>4, <2>7 DEF CompressedSumOK
    <3>2. frame.size \in Nat
      BY <1>1, FrameUpdates
    <3> HIDE DEF c, b
    <3>3. c.data = b.data
      BY <2>2, <3>1, <3>2, CompressedSumInjective
    <3> QED BY <3>3 DEF c, b
  <2> QED BY <1>4, <2>6, <2>7 DEF Verified
<1>5. ASSUME NEW i \in 1..Len(frame.body), copy.body = Without(frame.body, i) PROVE FALSE
  <2>1. Len(copy.body) = Len(frame.body) - 1 /\ Len(frame.body) \in Nat
    BY <1>1, <1>5, WithoutOne
  <2> QED BY <2>1
<1> QED BY <1>1, <1>3, <1>4, <1>5, CopyKinds

(* Each step of a decode preserves the invariant.                          *)
LEMMA Begun ==
    ASSUME FInv, DInv, frame # NoFrame,
           NEW f \in Copies(frame), NEW o \in Outputs, Decode(f, o)
    PROVE  DInv'
<1>1. frame \in Frames /\ FrameOK(frame) /\ frame.size \in Nat
  BY FrameUpdates DEF FInv, CInv, CTypeOK
<1>2. f \in Frames
  BY <1>1, CopyKinds
<1>3. f.size \in Nat /\ f.body \in Seq(Chunks) /\ Len(f.body) \in Nat
  BY <1>2, FrameUpdates
<1>4. o \in Buffers \cup {None} /\ (o # None => Len(o.data) <= o.capacity)
  <2>1. ASSUME NEW n \in OutputSizes
        PROVE  Empty(n) \in Buffers /\ Len(Empty(n).data) <= Empty(n).capacity
    BY OutputAssumption DEF Empty, Buffers
  <2> QED BY <2>1 DEF Outputs, DInv, DTypes, DTypeOK
<1>5. /\ frame' = frame /\ copy' = f /\ pos' = 1 /\ dapplied' = GDParams_applyDefaults(dreq)
      /\ dreq' = dreq /\ reused' = (o # None /\ o.data # <<>>)
      /\ \/ /\ ~HeaderIntact(f) \/ (o # None /\ ~RoomFor(o, f.size))
            /\ verdict' = "error" /\ out' = o
         \/ /\ HeaderIntact(f)
            /\ o # None => RoomFor(o, f.size)
            /\ verdict' = "running"
            /\ out' = IF o = None THEN [capacity |-> f.size, data |-> <<>>, last |-> <<>>]
                      ELSE o
  BY DEF Decode, BeginDecode, cvars
<1>6. /\ out' \in Buffers \cup {None} /\ (out' # None => Len(out'.data) <= out'.capacity)
      /\ verdict' \in {"running", "error"}
      /\ verdict' = "running" => out' # None
  <2> DEFINE fresh == [capacity |-> f.size, data |-> <<>>, last |-> <<>>]
  <2>1. fresh \in Buffers /\ Len(fresh.data) <= fresh.capacity
    BY <1>3 DEF Buffers
  <2>2. fresh # None
    BY <2>1, OutputAssumption
  <2> HIDE DEF fresh
  <2>3. out' = o \/ out' = fresh
    BY <1>5 DEF fresh
  <2>4. verdict' = "running" => out' # None
    BY <1>5, <2>2 DEF fresh
  <2> QED BY <1>4, <1>5, <2>1, <2>3, <2>4
<1>7. DTypes'
  <2>1. dapplied' \in DParams /\ dreq' \in DParams
    BY <1>5 DEF DInv, DTypes, DTypeOK, DParams, GDParams_applyDefaults
  <2>2. reused' \in BOOLEAN
    BY <1>5
  <2> QED BY <1>2, <1>5, <1>6, <2>1, <2>2 DEF DTypes, DTypeOK
<1>8. ~reused' /\ o # None => Remaining(o) = o.capacity
  <2> SUFFICES ASSUME ~reused', o # None PROVE Remaining(o) = o.capacity
    OBVIOUS
  <2>1. o.data = <<>> /\ o \in Buffers
    BY <1>4, <1>5
  <2>2. Len(o.data) = 0 /\ o.capacity \in Nat
    BY <2>1 DEF Buffers
  <2> QED BY <2>2 DEF Remaining
<1>9. verdict' = "running" /\ copy' = frame /\ ~reused' => frame.size <= out'.capacity
  <2> SUFFICES ASSUME verdict' = "running", copy' = frame, ~reused' PROVE frame.size <= out'.capacity
    OBVIOUS
  <2>1. CASE o = None
    BY <1>1, <1>5, <2>1
  <2>2. CASE o # None
    BY <1>5, <1>8, <2>2 DEF RoomFor
  <2> QED BY <2>1, <2>2
<1>10. CopyOK'
  <2>1. 1 <= Len(f.body) + 1
    BY <1>3
  <2> QED BY <1>5, <1>6, <1>9, <2>1 DEF CopyOK, Decoding
<1>11. Progress'
  <2> SUFFICES ASSUME Decoding', NEW cut, IsCut(cut, frame.body, frame.origin)
               PROVE  /\ copy' = frame /\ reused' => Len(out'.data) > cut[pos' - 1]
                      /\ ~reused' => Filled(cut, frame, copy'.body, pos', out'.data)
    BY <1>5 DEF Progress
  <2>1. verdict' = "running" /\ cut[1 - 1] = 0
    BY <1>6 DEF Decoding, IsCut
  <2>2. ASSUME reused' PROVE Len(out'.data) > cut[pos' - 1]
    <3>1. out' = o /\ o # None /\ o.data # <<>> /\ o \in Buffers
      BY <1>4, <1>5, <2>2
    <3>2. o.data \in Seq(Nat)
      BY <3>1 DEF Buffers
    <3>3. Len(o.data) \in Nat \ {0}
      BY <3>1, <3>2, EmptySeq
    <3> QED BY <1>5, <2>1, <3>1, <3>3
  <2>3. ASSUME ~reused' PROVE Filled(cut, frame, copy'.body, pos', out'.data)
    <3>1. out'.data = <<>>
      <4>1. o = None \/ o.data = <<>>
        BY <1>5, <2>3
      <4>2. out' = IF o = None THEN [capacity |-> f.size, data |-> <<>>, last |-> <<>>] ELSE o
        BY <1>5, <2>1
      <4> QED BY <4>1, <4>2
    <3>2. Filled(cut, frame, f.body, 1, <<>>)
      BY <1>1, FilledAtStart
    <3> QED BY <1>5, <3>1, <3>2
  <2> QED BY <2>2, <2>3
<1>12. DeliveredDecodes'
  <2> SUFFICES ASSUME verdict' = "error", copy' = frame, ~reused'
               PROVE  out' # None /\ out'.capacity < frame.size
    BY <1>5 DEF DeliveredDecodes
  <2>1. f = frame /\ HeaderIntact(f)
    BY <1>1, <1>5 DEF FrameOK, HeaderOK, HeaderIntact
  <2>2. o # None /\ ~(frame.size <= Remaining(o)) /\ out' = o
    BY <1>5, <2>1 DEF RoomFor
  <2>3. o.capacity \in Nat
    BY <1>4, <2>2 DEF Buffers
  <2> QED BY <1>1, <1>8, <2>2, <2>3
<1> QED BY <1>7, <1>10, <1>11, <1>12 DEF DInv

(* The end of a call that fails, at whatever step: an intact copy into an  *)
(* output that was empty never gets there.                                 *)
LEMMA Failed ==
    ASSUME FInv, DInv, Running, UNCHANGED <<frame, copy, dapplied, reused, dreq>>,
           verdict' = "error", pos' = pos,
           out' \in Buffers, Len(out'.data) <= out'.capacity,
           copy # frame \/ reused
    PROVE  DInv'
<1>1. DTypes'
  BY DEF DInv, DTypes, DTypeOK
<1>2. CopyOK'
  BY DEF DInv, CopyOK, Decoding, Running
<1>3. Progress' /\ DeliveredDecodes'
  BY DEF Progress, Decoding, DeliveredDecodes
<1> QED BY <1>1, <1>2, <1>3 DEF DInv

LEMMA Output ==
    ASSUME DInv, Running
    PROVE  /\ out \in Buffers /\ out.data \in Seq(Nat) /\ out.capacity \in Nat
           /\ Len(out.data) \in Nat /\ Len(out.data) <= out.capacity
           /\ pos \in Nat /\ 1 <= pos /\ pos <= Len(copy.body) + 1
<1>1. out \in Buffers /\ Len(out.data) <= out.capacity
  BY DEF DInv, DTypes, DTypeOK, CopyOK, Decoding, Running
<1>2. out.data \in Seq(Nat) /\ out.capacity \in Nat
  BY <1>1 DEF Buffers
<1>3. pos \in Nat /\ 1 <= pos
  BY DEF DInv, DTypes, DTypeOK
<1>4. pos <= Len(copy.body) + 1
  BY DEF DInv, CopyOK, Decoding, Running
<1> QED BY <1>1, <1>2, <1>3, <1>4

(* The decode of an intact copy into an output that was empty: every chunk *)
(* passes, and the end is where it should be.                              *)
LEMMA IntactGoesOn ==
    ASSUME FInv, DInv, Running, copy = frame, ~reused
    PROVE  /\ pos > Len(copy.body) => AtEnd
           /\ AtEnd => pos > Len(copy.body) /\ ~copy.extra /\ SizeOK(out, copy)
           /\ pos <= Len(copy.body) =>
                /\ CompressedSumOK(copy.body[pos]) /\ copy.body[pos].decodes
                /\ Len(copy.body[pos].data) <= Remaining(out)
                /\ ContentSumOK(copy.body[pos], Appended(out, copy.body[pos].data))
<1>0. verdict # "none"
  BY DEF Running
<1>1. /\ frame \in Frames /\ FrameOK(frame) /\ frame.body \in Seq(Chunks)
      /\ frame.origin \in Seq(Nat)
      /\ frame.size = Len(frame.origin) /\ frame.size \in Nat
  BY <1>0, FrameKnown
<1>2. PICK cut : IsCut(cut, frame.body, frame.origin) /\ cut[Len(frame.body)] = Len(frame.origin)
  BY <1>1 DEF FrameOK
<1>3. frame.size <= out.capacity /\ Filled(cut, frame, frame.body, pos, out.data)
  BY <1>2 DEF DInv, CopyOK, Progress, Decoding, Running
<1>4. out.data = SubSeq(frame.origin, 1, cut[pos - 1])
  BY <1>3 DEF Filled
<1>5. /\ out \in Buffers /\ out.capacity \in Nat /\ Len(out.data) \in Nat
      /\ pos \in Nat /\ 1 <= pos /\ pos <= Len(frame.body) + 1 /\ Len(frame.body) \in Nat
  BY <1>1, Output
<1>6. pos > Len(frame.body) => pos = Len(frame.body) + 1
  BY <1>5
<1>7. ASSUME pos > Len(frame.body) PROVE AtEnd
  <2>1. CASE Chunked(frame.version)
    BY <1>1, <1>7, <2>1 DEF AtEnd, FrameOK
  <2>2. CASE ~Chunked(frame.version)
    <3>1. Len(frame.body) = 1
      BY <1>1, <2>2 DEF FrameOK
    <3> QED BY <1>6, <1>7, <2>2, <3>1 DEF AtEnd
  <2> QED BY <2>1, <2>2
<1>8. ASSUME AtEnd PROVE pos > Len(frame.body) /\ ~frame.extra /\ SizeOK(out, frame)
  <2>1. pos > Len(frame.body)
    <3>1. CASE Chunked(frame.version)
      BY <1>8, <3>1 DEF AtEnd
    <3>2. CASE ~Chunked(frame.version)
      <4>1. Len(frame.body) = 1 /\ pos = 2
        BY <1>1, <1>8, <3>2 DEF AtEnd, FrameOK
      <4> QED BY <4>1
    <3> QED BY <3>1, <3>2
  <2>2. cut[pos - 1] = Len(frame.origin)
    <3>1. pos - 1 = Len(frame.body)
      BY <1>5, <1>6, <2>1
    <3> QED BY <1>2, <3>1
  <2>3. out.data = frame.origin
    BY <1>1, <1>4, <2>2, SubSeqFull
  <2> QED BY <1>1, <2>1, <2>3 DEF FrameOK, HeaderOK, SizeOK
<1>9. ASSUME pos <= Len(frame.body)
      PROVE  /\ CompressedSumOK(frame.body[pos]) /\ frame.body[pos].decodes
             /\ Len(frame.body[pos].data) <= Remaining(out)
             /\ ContentSumOK(frame.body[pos], Appended(out, frame.body[pos].data))
  <2> DEFINE c == frame.body[pos]
  <2>1. pos \in 1..Len(frame.body)
    BY <1>5, <1>9
  <2>2. /\ c.decodes /\ c.contentSum = IF frame.content THEN c.data ELSE <<>>
        /\ c.compressedSum =
             IF frame.compressed THEN CompressedSum(frame.version, frame.size, c.data) ELSE <<>>
    BY <1>1, <2>1 DEF FrameOK, SumsOK
  <2>3. /\ cut[pos - 1] \in Nat /\ cut[pos] \in Nat /\ cut[pos - 1] <= cut[pos]
        /\ cut[pos] <= Len(frame.origin) /\ Len(c.data) = cut[pos] - cut[pos - 1]
    BY <1>1, <1>2, <2>1, CutPart
  <2>4. Len(out.data) = cut[pos - 1]
    <3>1. cut[pos - 1] <= Len(frame.origin)
      BY <1>1, <2>3
    <3> QED BY <1>1, <1>4, <2>3, <3>1, Beginning
  <2>5. Len(c.data) <= Remaining(out)
    BY <1>1, <1>3, <1>5, <2>3, <2>4 DEF Remaining
  <2>6. Appended(out, c.data).last = c.data
    BY <1>5 DEF Appended, Buffers
  <2> HIDE DEF c
  <2>7. CompressedSumOK(c) /\ ContentSumOK(c, Appended(out, c.data))
    BY <2>2, <2>6 DEF CompressedSumOK, ContentSumOK
  <2> QED BY <2>2, <2>5, <2>7 DEF c
<1> QED BY <1>7, <1>8, <1>9

LEMMA ChunkDone ==
    ASSUME FInv, DInv, ZL_DCtx_decompressChunk, UNCHANGED <<cvars, reused>>
    PROVE  DInv'
<1> DEFINE c == copy.body[pos]
<1>0. Running /\ ~AtEnd /\ pos <= Len(copy.body) /\ verdict # "none"
  BY DEF ZL_DCtx_decompressChunk, Running
<1>1. /\ frame \in Frames /\ copy \in Frames /\ copy.body \in Seq(Chunks)
      /\ frame.body \in Seq(Chunks) /\ frame.origin \in Seq(Nat)
  BY <1>0, FrameKnown
<1>2. /\ out \in Buffers /\ out.data \in Seq(Nat) /\ out.capacity \in Nat
      /\ Len(out.data) \in Nat /\ Len(out.data) <= out.capacity /\ pos \in Nat /\ 1 <= pos
  BY <1>0, Output
<1>3. pos \in 1..Len(copy.body) /\ Len(copy.body) \in Nat
  BY <1>0, <1>1, <1>2
<1>4. c \in Chunks /\ c.data \in Seq(Nat) /\ Len(c.data) \in Nat
  <2>1. c \in Chunks
    BY <1>1, <1>3, ElementOfSeq
  <2> QED BY <2>1 DEF Chunks
<1>5. UNCHANGED <<frame, copy, dapplied, reused>>
  BY DEF ZL_DCtx_decompressChunk, cvars
<1> HIDE DEF c
<1>6. ASSUME out' = Appended(out, c.data), Len(c.data) <= Remaining(out)
      PROVE  /\ out' \in Buffers /\ out'.data = out.data \o c.data /\ out'.capacity = out.capacity
             /\ Len(out'.data) = Len(out.data) + Len(c.data) /\ Len(out'.data) <= out'.capacity
  <2>1. /\ out.data \o c.data \in Seq(Nat)
        /\ Len(out.data \o c.data) = Len(out.data) + Len(c.data)
    BY <1>2, <1>4, ConcatProperties
  <2>2. out' \in Buffers /\ out'.data = out.data \o c.data /\ out'.capacity = out.capacity
    BY <1>2, <1>4, <1>6, <2>1 DEF Appended, Buffers
  <2>3. Len(out.data) + Len(c.data) <= out.capacity
    <3> DEFINE x == Len(c.data)
               y == out.capacity
               z == Len(out.data)
    <3>1. x \in Nat /\ y \in Nat /\ z \in Nat /\ x <= y - z
      BY <1>2, <1>4, <1>6 DEF Remaining
    <3> HIDE DEF x, y, z
    <3>2. z + x <= y
      BY <3>1
    <3> QED BY <3>2 DEF x, y, z
  <2> QED BY <2>1, <2>2, <2>3
<1>7. CASE /\ ~CompressedSumOK(c) \/ ~c.decodes \/ Len(c.data) > Remaining(out)
           /\ Fail /\ UNCHANGED <<out, pos>>
  <2>1. copy # frame \/ reused
    <3> SUFFICES ASSUME copy = frame, ~reused PROVE FALSE
      OBVIOUS
    <3>1. CompressedSumOK(c) /\ c.decodes /\ Len(c.data) <= Remaining(out)
      BY <1>0, IntactGoesOn DEF c
    <3> QED BY <1>2, <1>4, <1>7, <3>1 DEF Remaining
  <2> QED BY <1>0, <1>2, <1>5, <1>7, <2>1, Failed DEF Fail
<1>8. CASE /\ CompressedSumOK(c) /\ c.decodes /\ Len(c.data) <= Remaining(out)
           /\ out' = Appended(out, c.data)
           /\ ~ContentSumOK(c, out') /\ Fail /\ UNCHANGED pos
  <2>1. copy # frame \/ reused
    <3> SUFFICES ASSUME copy = frame, ~reused PROVE FALSE
      OBVIOUS
    <3>1. ContentSumOK(c, Appended(out, c.data))
      BY <1>0, IntactGoesOn DEF c
    <3> QED BY <1>8, <3>1
  <2> QED BY <1>0, <1>5, <1>6, <1>8, <2>1, Failed DEF Fail
<1>9. CASE /\ CompressedSumOK(c) /\ c.decodes /\ Len(c.data) <= Remaining(out)
           /\ out' = Appended(out, c.data)
           /\ ContentSumOK(c, out') /\ pos' = pos + 1 /\ UNCHANGED <<verdict, dreq>>
  <2>1. verdict = "running" /\ verdict' = "running" /\ pos' - 1 = pos
    BY <1>0, <1>2, <1>9 DEF Running
  <2>2. DTypes'
    <3>1. pos' \in Nat \ {0}
      BY <1>2, <1>9
    <3> QED BY <1>5, <1>6, <1>9, <3>1 DEF DInv, DTypes, DTypeOK
  <2>3. CopyOK'
    <3>1. out' # None
      BY <1>6, <1>9, OutputAssumption
    <3>2. pos' <= Len(copy.body) + 1
      BY <1>3, <1>9
    <3>3. out'.capacity = out.capacity
      BY <1>6, <1>9
    <3> QED BY <1>5, <2>1, <3>1, <3>2, <3>3 DEF DInv, CopyOK, Decoding
  <2>4. Progress'
    <3> SUFFICES ASSUME NEW cut, IsCut(cut, frame.body, frame.origin)
                 PROVE  /\ copy = frame /\ reused => Len(out'.data) > cut[pos]
                        /\ ~reused /\ (copy = frame \/ Verified) =>
                             Filled(cut, frame, copy.body, pos + 1, out'.data)
      BY <1>5, <1>9, <2>1 DEF Progress, Verified
    <3>1. /\ copy = frame /\ reused => Len(out.data) > cut[pos - 1]
          /\ ~reused /\ (copy = frame \/ Verified) =>
               Filled(cut, frame, copy.body, pos, out.data)
      BY <2>1 DEF DInv, Progress, Decoding
    <3>2. ASSUME copy = frame, reused PROVE Len(out'.data) > cut[pos]
      <4>1. /\ cut[pos - 1] \in Nat /\ cut[pos] \in Nat
            /\ Len(c.data) = cut[pos] - cut[pos - 1]
        BY <1>1, <1>3, <3>2, CutPart DEF c
      <4>2. Len(out'.data) = Len(out.data) + Len(c.data)
        BY <1>6, <1>9
      <4> QED BY <1>2, <1>4, <3>1, <3>2, <4>1, <4>2
    <3>3. ASSUME ~reused, copy = frame \/ Verified
          PROVE  Filled(cut, frame, copy.body, pos + 1, out'.data)
      <4>1. Len(copy.body) = Len(frame.body) => copy.body[pos].data = frame.body[pos].data
        BY <1>0, <1>9, <3>3, AcceptedIsOwn DEF c
      <4>2. out'.data = out.data \o copy.body[pos].data
        BY <1>6, <1>9 DEF c
      <4>3. Filled(cut, frame, copy.body, pos, out.data)
        BY <3>1, <3>3
      <4>4. Filled(cut, frame, copy.body, pos + 1, out.data \o copy.body[pos].data)
        BY <1>1, <1>3, <4>1, <4>3, FilledNext
      <4> QED BY <4>2, <4>4
    <3> QED BY <3>2, <3>3
  <2>5. DeliveredDecodes'
    BY <2>1 DEF DeliveredDecodes
  <2> QED BY <2>2, <2>3, <2>4, <2>5 DEF DInv
<1> QED BY <1>7, <1>8, <1>9 DEF ZL_DCtx_decompressChunk, c

LEMMA DecodeStepKept ==
    ASSUME FInv, DInv, DecodeStep
    PROVE  DInv'
<1>1. UNCHANGED <<cvars, reused>>
  BY DEF DecodeStep
<1>2. CASE ZL_DCtx_decompressChunk
  BY <1>1, <1>2, ChunkDone
<1>3. CASE Truncated
  <2>1. Running /\ ~AtEnd /\ pos > Len(copy.body)
    BY <1>3 DEF Truncated
  <2>2. copy # frame \/ reused
    BY <2>1, IntactGoesOn
  <2> QED BY <1>1, <1>3, <2>1, <2>2, Failed, Output DEF Truncated, Fail, cvars
<1>4. CASE EndDecode
  <2>1. Running /\ AtEnd /\ UNCHANGED <<frame, copy, dapplied, out, pos, reused>>
    BY <1>1, <1>4 DEF EndDecode, cvars
  <2>2. CASE (pos <= Len(copy.body) \/ copy.extra \/ ~SizeOK(out, copy)) /\ Fail
    <3>1. copy # frame \/ reused
      <4> SUFFICES ASSUME copy = frame, ~reused PROVE FALSE
        OBVIOUS
      <4>1. pos > Len(copy.body) /\ ~copy.extra /\ SizeOK(out, copy)
        BY <2>1, IntactGoesOn
      <4>2. Len(copy.body) \in Nat /\ pos \in Nat
        <5>1. copy.body \in Seq(Chunks)
          BY <2>1, FrameKnown DEF Running
        <5> QED BY <2>1, <5>1, Output
      <4> QED BY <2>2, <4>1, <4>2
    <3> QED BY <2>1, <2>2, <3>1, Failed, Output DEF Fail
  <2>3. CASE /\ pos > Len(copy.body) /\ SizeOK(out, copy)
             /\ verdict' = "ok"
             /\ dreq' = IF dapplied.sticky THEN dreq ELSE DZeroes
    <3>1. DTypes'
      <4>1. dreq' \in DParams
        BY <2>3 DEF DInv, DTypes, DTypeOK, DParams, DZeroes
      <4> QED BY <2>1, <2>3, <4>1 DEF DInv, DTypes, DTypeOK
    <3>2. CopyOK'
      <4>1. pos = Len(copy.body) + 1
        <5>1. copy.body \in Seq(Chunks)
          BY <2>1, FrameKnown DEF Running
        <5>2. Len(copy.body) \in Nat /\ pos \in Nat /\ pos <= Len(copy.body) + 1
          BY <2>1, <5>1, Output
        <5> QED BY <2>3, <5>2
      <4> QED BY <2>1, <2>3, <4>1 DEF DInv, CopyOK, Decoding, Running, SizeOK
    <3>3. Progress'
      BY <2>1, <2>3 DEF DInv, Progress, Decoding, Running, Verified
    <3>4. DeliveredDecodes'
      BY <2>3 DEF DeliveredDecodes
    <3> QED BY <3>1, <3>2, <3>3, <3>4 DEF DInv
  <2> QED BY <1>4, <2>2, <2>3 DEF EndDecode
<1> QED BY <1>2, <1>3, <1>4 DEF DecodeStep

LEMMA DZeroesIsParams == DZeroes \in DParams
BY DEF DZeroes, DParams

LEMMA ConfigureKept ==
    ASSUME FInv, DInv, Configure
    PROVE  DInv'
<1>1. UNCHANGED <<cvars, reused, copy, dapplied, out, pos, verdict>> /\ verdict = "none"
  BY DEF Configure, ZL_DCtx_setParameter, ZL_DCtx_resetParameters
<1>2. dreq' \in DParams
  <2>1. ASSUME NEW p \in DOMAIN DParamValues, NEW v \in DParamValues[p], ZL_DCtx_setParameter(p, v)
        PROVE  dreq' \in DParams
    <3>1. dreq \in DParams /\ dreq' = [dreq EXCEPT ![p] = v]
      BY <2>1 DEF ZL_DCtx_setParameter, DInv, DTypes, DTypeOK
    <3>2. CASE p = "sticky" /\ v \in BOOLEAN
      BY <3>1, <3>2 DEF DParams
    <3>3. CASE p = "content" /\ v \in {"auto", "off"}
      BY <3>1, <3>3 DEF DParams
    <3>4. CASE p = "compressed" /\ v \in {"auto", "off"}
      BY <3>1, <3>4 DEF DParams
    <3> QED BY <3>2, <3>3, <3>4 DEF DParamValues
  <2>2. CASE ZL_DCtx_resetParameters
    BY <2>2, DZeroesIsParams DEF ZL_DCtx_resetParameters
  <2> QED BY <2>1, <2>2 DEF Configure
<1> QED BY <1>1, <1>2 DEF DInv, DTypes, DTypeOK, CopyOK, Progress, Decoding, DeliveredDecodes, cvars

LEMMA DropKept ==
    ASSUME DInv, DropFrame
    PROVE  DInv'
<1>1. DTypes'
  <2>1. DTypeOK'
    BY DZeroesIsParams DEF DropFrame, DTypeOK
  <2>2. reused' \in BOOLEAN /\ copy' = NoFrame
    BY Zenon DEF DropFrame
  <2> QED BY <2>1, <2>2 DEF DTypes
<1> QED BY <1>1 DEF DropFrame, DInv, CopyOK, Progress, Decoding, DeliveredDecodes

(* A step of the compressor: nothing is being decoded.                     *)
LEMMA CompressorKept ==
    ASSUME FInv, DInv, CNext, UNCHANGED <<dvars, reused>>
    PROVE  DInv'
<1>1. frame = NoFrame
  BY CSteps, SettingTypes, BeginTypes DEF FInv, CInv, OneAtATime, HeaderWritten, ChunkWritten,
     SessionEnded
<1>2. verdict = "none" /\ verdict' = "none"
  BY <1>1 DEF DInv, CopyOK, dvars
<1> QED BY <1>2 DEF DInv, DTypes, DTypeOK, CopyOK, Progress, Decoding, DeliveredDecodes, dvars

LEMMA FInvKept ==
    ASSUME FInv, [Next]_vars
    PROVE  FInv'
<1>1. CInv'
  BY CInvKept DEF FInv
<1>2. CASE CNext
  BY <1>1, <1>2, OutKept DEF FInv
<1>3. CASE UNCHANGED cvars
  BY <1>1, <1>3 DEF FInv, OutOK, cvars
<1>4. CASE UNCHANGED <<req, cgraph, internal, comment, job>> /\ frame' = NoFrame
  BY <1>1, <1>4 DEF FInv, OutOK
<1> QED BY <1>2, <1>3, <1>4, DStepLeaves DEF Next, DStep, vars

LEMMA DInvKept ==
    ASSUME FInv, DInv, [Next]_vars
    PROVE  DInv'
<1>1. CASE UNCHANGED vars
  <2>1. UNCHANGED <<frame, copy, dreq, dapplied, out, pos, verdict, reused>>
    BY <1>1 DEF vars, cvars, dvars
  <2> QED BY <2>1 DEF DInv, DTypes, DTypeOK, CopyOK, Progress, Decoding, DeliveredDecodes, Verified
<1> QED BY <1>1, Begun, DecodeStepKept, ConfigureKept, DropKept, CompressorKept DEF Next

LEMMA SessionInvariant == Spec => [](FInv /\ DInv)
<1>1. Init => FInv
  BY CInvInit DEF FInv, Init, CInit, OutOK
<1>2. Init => DInv
  <2> SUFFICES ASSUME Init PROVE DInv
    OBVIOUS
  <2>1. DTypes
    <3>1. DTypeOK
      BY DZeroesIsParams DEF Init, DInit, DTypeOK
    <3>2. reused \in BOOLEAN /\ copy = NoFrame
      BY Zenon DEF Init, DInit
    <3> QED BY <3>1, <3>2 DEF DTypes
  <2> QED BY <2>1 DEF Init, CInit, DInit, DInv, CopyOK, Progress, Decoding, DeliveredDecodes
<1> QED BY <1>1, <1>2, FInvKept, DInvKept, PTL DEF Spec

(* What a decode that succeeds leaves in the output is what was            *)
(* compressed: always for an intact frame, and for a copy with a damaged   *)
(* or missing chunk, a truncated one or one with a false size, as long as  *)
(* some checksum is verified and the output was empty                      *)
(* (ZL_DCtx_decompressMultiTBuffer).                                       *)
THEOREM DecodesToInput == Spec => []DecodedIsInput
<1>1. FInv /\ DInv => DecodedIsInput
  <2> SUFFICES ASSUME FInv, DInv, verdict = "ok", copy = frame \/ (Verified /\ ~reused)
               PROVE  out.data = frame.origin
    BY DEF DecodedIsInput
  <2>1. /\ frame \in Frames /\ FrameOK(frame) /\ copy \in Copies(frame)
        /\ frame.size = Len(frame.origin) /\ frame.body \in Seq(Chunks)
        /\ frame.origin \in Seq(Nat)
    BY FrameKnown
  <2>2. PICK cut : IsCut(cut, frame.body, frame.origin) /\ cut[Len(frame.body)] = Len(frame.origin)
    BY <2>1 DEF FrameOK
  <2>3. pos = Len(copy.body) + 1 /\ Len(out.data) = copy.size
    BY DEF DInv, CopyOK
  <2>4. ~reused
    <3> SUFFICES ASSUME reused, copy = frame PROVE FALSE
      BY DEF DInv, DTypes
    <3>1. Len(out.data) > cut[pos - 1]
      BY <2>2 DEF DInv, Progress, Decoding
    <3>2. pos - 1 = Len(frame.body)
      BY <2>1, <2>3
    <3>3. Len(out.data) = Len(frame.origin) /\ Len(frame.origin) \in Nat
      BY <2>1, <2>3
    <3> QED BY <2>2, <3>1, <3>2, <3>3
  <2>5. Filled(cut, frame, copy.body, Len(copy.body) + 1, out.data)
    BY <2>2, <2>3, <2>4 DEF DInv, Progress, Decoding
  <2>6. \/ Len(copy.body) = Len(frame.body)
        \/ /\ \E i \in 1..Len(frame.body) : copy.body = Without(frame.body, i)
           /\ Len(out.data) = Len(frame.origin)
    BY <2>1, <2>3, CopyKinds DEF SameSums
  <2> QED BY <2>1, <2>2, <2>5, <2>6, FilledAtEnd
<1> QED BY <1>1, SessionInvariant, PTL

(* A frame that the compressor delivered is accepted: an intact copy is    *)
(* refused only for lack of room or because the output was not empty, for  *)
(* every version, setting and input, and after any sequence of calls.      *)
THEOREM DeliveredFramesDecode == Spec => []DeliveredDecodes
BY SessionInvariant, PTL DEF DInv

(* The types of both contexts.                                             *)
THEOREM TypeCorrect == Spec => []TypeOK
<1>1. FInv /\ DInv => TypeOK
  BY DEF FInv, CInv, DInv, DTypes, TypeOK
<1> QED BY <1>1, SessionInvariant, PTL

-----------------------------------------------------------------------------
(* The segmenter.                                                          *)
USE SegmenterAssumption

(* Cutting a chunk yields amounts, whatever was asked for.                 *)
LEMMA CutTypes ==
    ASSUME SegmenterTypeOK, NEW request \in [InputIds -> 0 .. MaxElts]
    PROVE  ConsumedAfter(request) \in Amount /\ SliceOf(request) \in Slice
<1>1. request \in Amount /\ numElts \in Amount /\ consumed \in Amount
  BY DEF SegmenterTypeOK, Amount
<1>2. ConsumedAfter(request) \in Amount
  BY <1>1 DEF ConsumedAfter, Amount
<1> DEFINE from == [n \in InputIds |-> IF request[n] = numElts[n]
                                       THEN 0 ELSE consumed[n]]
<1>3. from \in Amount
  BY <1>1 DEF Amount
<1>4. [n \in InputIds |-> from[n] + request[n]] \in Amount
  BY <1>1, <1>3 DEF Amount
<1>5. QED
  BY <1>2, <1>3, <1>4 DEF SliceOf, Slice

(* Every variable keeps its type, whatever the callback does.              *)
THEOREM SegmenterTypeCorrect == SegmenterSpec => []SegmenterTypeOK
<1>1. SegmenterInit => SegmenterTypeOK
  <2> SUFFICES ASSUME SegmenterInit PROVE SegmenterTypeOK
    OBVIOUS
  <2>1. Zero \in Amount /\ numElts \in Amount
    BY DEF SegmenterInit, Zero, Amount
  <2>2. [from |-> Zero, to |-> Zero] \in Slice
    BY <2>1 DEF Slice
  <2>3. QED
    BY <2>1, <2>2 DEF SegmenterInit, SegmenterTypeOK
<1>2. SegmenterTypeOK /\ [SegmenterNext]_segmenterVars => SegmenterTypeOK'
  <2> SUFFICES ASSUME SegmenterTypeOK, [SegmenterNext]_segmenterVars
               PROVE  SegmenterTypeOK'
    OBVIOUS
  <2> USE DEF SegmenterTypeOK
  <2>1. ASSUME NEW request \in [InputIds -> 0 .. MaxElts], CutChunk(request)
        PROVE  SegmenterTypeOK'
    BY <2>1, CutTypes DEF CutChunk
  <2>2. CASE RunChunkGraph
    BY <2>2 DEF RunChunkGraph
  <2>3. CASE CCTX_flushChunk
    <3>1. Append(chunks, cur) \in Seq(Slice)
      OBVIOUS
    <3>2. QED
      BY <2>3, <3>1 DEF CCTX_flushChunk
  <2>4. CASE ChunkFailed
    BY <2>4 DEF ChunkFailed
  <2>5. CASE SEGM_runSegmenterReturns
    BY <2>5 DEF SEGM_runSegmenterReturns
  <2>6. CASE UNCHANGED segmenterVars
    BY <2>6 DEF segmenterVars
  <2>7. QED
    BY <2>1, <2>2, <2>3, <2>4, <2>5, <2>6 DEF SegmenterNext, Ended
<1>3. QED
  BY <1>1, <1>2, PTL DEF SegmenterSpec

-----------------------------------------------------------------------------
(* What the frame reaches is an amount.                                    *)
LEMMA WrittenType == SegmenterTypeOK => Written \in Amount
<1>1. Zero \in Amount
  BY DEF Zero, Amount
<1>2. ASSUME SegmenterTypeOK, chunks # <<>> PROVE chunks[Len(chunks)].to \in Amount
  <2>1. Len(chunks) \in 1 .. Len(chunks)
    BY <1>2 DEF SegmenterTypeOK
  <2>2. chunks[Len(chunks)] \in Slice
    BY <1>2, <2>1 DEF SegmenterTypeOK
  <2>3. QED
    BY <2>2 DEF Slice
<1>3. QED
  BY <1>1, <1>2 DEF Written

(* A chunk that is written extends the frame to its own end.               *)
LEMMA WrittenAfterFlush ==
    ASSUME SegmenterTypeOK, chunks' = Append(chunks, cur)
    PROVE  Written' = cur.to
<1>1. /\ chunks' # <<>>
      /\ Len(chunks') = Len(chunks) + 1
      /\ chunks'[Len(chunks')] = cur
  BY DEF SegmenterTypeOK
<1>2. QED
  BY <1>1 DEF Written

(* A request that fits is not refused: it begins where the last one ended. *)
LEMMA CutFits ==
    ASSUME SegmenterTypeOK, NEW request \in [InputIds -> 0 .. MaxElts],
           \A n \in InputIds : consumed[n] + request[n] <= numElts[n]
    PROVE  /\ Refused(request) = {}
           /\ SliceOf(request).from = consumed
           /\ SliceOf(request).to = ConsumedAfter(request)
           /\ \A n \in InputIds : ConsumedAfter(request)[n] = consumed[n] + request[n]
<1>1. /\ \A n \in InputIds : request[n] \in Nat /\ numElts[n] \in Nat
                            /\ consumed[n] \in Nat
      /\ consumed = [n \in InputIds |-> consumed[n]]
  BY DEF SegmenterTypeOK, Amount
<1>2. Refused(request) = {}
  BY <1>1 DEF Refused
<1>3. ConsumedAfter(request) = [n \in InputIds |-> consumed[n] + request[n]]
  BY <1>1, <1>2 DEF ConsumedAfter, Advanced
<1>4. \A n \in InputIds : request[n] = numElts[n] => consumed[n] = 0
  BY <1>1
<1>5. SliceOf(request).from = consumed
  BY <1>1, <1>4 DEF SliceOf
<1>6. SliceOf(request).to = [n \in InputIds |-> SliceOf(request).from[n] + request[n]]
  BY DEF SliceOf
<1>7. QED
  BY <1>2, <1>3, <1>5, <1>6

SegmenterIInv == SegmenterTypeOK /\ CutIsWritten /\ ChunksContiguous /\ FrameCoversInput

(* The inductive step, for a callback that reports failures and asks for   *)
(* no more than is left.                                                   *)
LEMMA CutIsWrittenStep ==
    ASSUME ~ Swallow, RequestsFit, SegmenterIInv, SegmenterTypeOK', [SegmenterNext]_segmenterVars
    PROVE  SegmenterIInv'
<1> USE DEF SegmenterIInv
<1>1. ASSUME NEW request \in [InputIds -> 0 .. MaxElts], CutChunk(request)
      PROVE  SegmenterIInv'
  <2>1. \A n \in InputIds : consumed[n] + request[n] <= numElts[n]
    BY <1>1 DEF CutChunk
  <2>2. /\ pc = "fn" /\ pc' = "graph"
        /\ consumed' = ConsumedAfter(request) /\ cur' = SliceOf(request)
        /\ UNCHANGED <<numElts, chunks>>
    BY <1>1, <2>1, CutFits DEF CutChunk
  <2>3. Written' = Written /\ Written = consumed
    BY <2>2 DEF Written, CutIsWritten
  <2>4. cur'.from = Written' /\ cur'.to = consumed'
    BY <2>1, <2>2, <2>3, CutFits
  <2>5. \A n \in InputIds : Written'[n] <= consumed'[n] /\ consumed'[n] <= numElts'[n]
    <3> TAKE n \in InputIds
    <3>1. consumed'[n] = consumed[n] + request[n]
      BY <2>1, <2>2, CutFits
    <3>2. consumed[n] \in Nat /\ request[n] \in Nat /\ numElts[n] \in Nat
      BY DEF SegmenterTypeOK, Amount
    <3>3. QED
      BY <2>1, <2>2, <2>3, <3>1, <3>2
  <2>6. CutIsWritten'
    BY <2>2, <2>4, <2>5 DEF CutIsWritten
  <2>7. QED
    BY <2>2, <2>6 DEF ChunksContiguous, FrameCoversInput
<1>2. CASE RunChunkGraph
  <2>1. Written' = Written
    BY <1>2 DEF RunChunkGraph, Written
  <2>2. QED
    BY <1>2, <2>1 DEF RunChunkGraph, CutIsWritten, ChunksContiguous, FrameCoversInput
<1>3. ASSUME CCTX_flushChunk, pc' = "fn", chunks' = Append(chunks, cur)
      PROVE  SegmenterIInv'
  <2>1. Written' = cur.to
    BY <1>3, WrittenAfterFlush
  <2>2. /\ cur.from = Written /\ cur.to = consumed
        /\ UNCHANGED <<numElts, consumed>>
    BY <1>3 DEF CCTX_flushChunk, CutIsWritten
  <2>3. CutIsWritten'
    <3>1. \A n \in InputIds : consumed[n] \in Nat /\ consumed[n] <= numElts[n]
      BY DEF SegmenterTypeOK, Amount, CutIsWritten
    <3>2. QED
      BY <1>3, <2>1, <2>2, <3>1 DEF CutIsWritten
  <2>4. ChunksContiguous'
    <3>1. SUFFICES ASSUME NEW k \in DOMAIN chunks'
                   PROVE  chunks'[k].from = IF k = 1 THEN Zero
                                            ELSE chunks'[k - 1].to
      BY DEF ChunksContiguous, Zero
    <3>2. /\ Len(chunks) \in Nat
          /\ DOMAIN chunks = 1 .. Len(chunks)
          /\ DOMAIN chunks' = 1 .. Len(chunks) + 1
          /\ chunks'[Len(chunks) + 1] = cur
          /\ \A j \in 1 .. Len(chunks) : chunks'[j] = chunks[j]
      BY <1>3 DEF SegmenterTypeOK
    <3>3. CASE k \in 1 .. Len(chunks)
      <4>1. k # 1 => k - 1 \in 1 .. Len(chunks)
        BY <3>2, <3>3
      <4>2. QED
        BY <3>2, <3>3, <4>1 DEF ChunksContiguous
    <3>4. CASE k = Len(chunks) + 1
      <4>1. Len(chunks) = 0 <=> chunks = <<>>
        BY DEF SegmenterTypeOK
      <4>2. QED
        BY <2>2, <3>2, <3>4, <4>1 DEF Written
    <3>5. QED
      BY <3>1, <3>2, <3>3, <3>4
  <2>5. QED
    BY <1>3, <2>3, <2>4 DEF FrameCoversInput
<1>4. ASSUME CCTX_flushChunk, pc' = "failed", UNCHANGED chunks
      PROVE  SegmenterIInv'
  <2>1. Written' = Written
    BY <1>4 DEF Written
  <2>2. QED
    BY <1>4, <2>1 DEF CCTX_flushChunk, CutIsWritten, ChunksContiguous, FrameCoversInput
<1>5. CASE ChunkFailed
  <2>1. Written' = Written
    BY <1>5 DEF ChunkFailed, Written
  <2>2. QED
    BY <1>5, <2>1 DEF ChunkFailed, CutIsWritten, ChunksContiguous, FrameCoversInput
<1>6. CASE SEGM_runSegmenterReturns
  <2>1. Written' = Written /\ numElts' = numElts /\ consumed' = consumed
    BY <1>6 DEF SEGM_runSegmenterReturns, Written
  <2>2. CutIsWritten' /\ ChunksContiguous'
    BY <1>6, <2>1 DEF SEGM_runSegmenterReturns, CutIsWritten, ChunksContiguous
  <2>3. ASSUME pc' = "ok" PROVE Written = numElts
    <3>1. \A n \in InputIds : consumed[n] >= numElts[n] /\ consumed[n] <= numElts[n]
      BY <1>6, <2>3 DEF SEGM_runSegmenterReturns, PostConditions, CutIsWritten
    <3>2. \A n \in InputIds : consumed[n] = numElts[n]
      BY <3>1 DEF SegmenterTypeOK, Amount
    <3>3. consumed = Written
      BY <1>6 DEF SEGM_runSegmenterReturns, CutIsWritten
    <3>4. QED
      BY <3>2, <3>3 DEF SegmenterTypeOK, Amount
  <2>4. QED
    BY <2>1, <2>2, <2>3 DEF FrameCoversInput
<1>7. CASE UNCHANGED segmenterVars
  <2>1. Written' = Written
    BY <1>7 DEF segmenterVars, Written
  <2>2. QED
    BY <1>7, <2>1 DEF segmenterVars, CutIsWritten, ChunksContiguous, FrameCoversInput
<1>8. QED
  BY <1>1, <1>2, <1>3, <1>4, <1>5, <1>6, <1>7 DEF SegmenterNext, Ended, CCTX_flushChunk

(* SegmenterIInv is an invariant of the segmenter.                                  *)
LEMMA InductiveInvariant ==
    ASSUME ~ Swallow, RequestsFit
    PROVE  SegmenterSpec => []SegmenterIInv
<1>1. SegmenterInit => CutIsWritten /\ ChunksContiguous /\ FrameCoversInput
  <2> SUFFICES ASSUME SegmenterInit PROVE CutIsWritten /\ ChunksContiguous /\ FrameCoversInput
    OBVIOUS
  <2>1. Written = Zero /\ consumed = Zero
    BY DEF SegmenterInit, Written
  <2>2. \A n \in InputIds : Zero[n] = 0 /\ numElts[n] \in Nat
    BY DEF SegmenterInit, Zero
  <2>3. CutIsWritten
    BY <2>1, <2>2 DEF SegmenterInit, CutIsWritten
  <2>4. QED
    BY <2>3 DEF SegmenterInit, ChunksContiguous, FrameCoversInput
<1>2. SegmenterTypeOK' /\ SegmenterIInv /\ [SegmenterNext]_segmenterVars => SegmenterIInv'
  BY CutIsWrittenStep
<1>3. QED
  BY <1>1, <1>2, SegmenterTypeCorrect, PTL DEF SegmenterSpec, SegmenterIInv

(* Chunks follow each other without gap or overlap, a chunk that is being  *)
(* compressed lies within its input, and a successful frame holds all of   *)
(* every input.                                                            *)
THEOREM FrameIsComplete ==
    ASSUME ~ Swallow, RequestsFit
    PROVE  SegmenterSpec => [](ChunksContiguous /\ SliceWithinInput /\ FrameCoversInput)
<1>1. SegmenterIInv => SliceWithinInput
  BY DEF SegmenterIInv, SliceWithinInput, CutIsWritten
<1>2. QED
  BY <1>1, InductiveInvariant, PTL DEF SegmenterIInv

-----------------------------------------------------------------------------
(* The segmenter implements the abstract promise: every step delivers the  *)
(* next piece of every input, completes a frame that holds everything, or  *)
(* changes nothing of it.                                                  *)
THEOREM SegmenterCovers ==
    ASSUME ~ Swallow, RequestsFit
    PROVE  SegmenterSpec => CoverSpec
<1>1. SegmenterInit => Cover!CoverInit
  BY DEF SegmenterInit, Cover!CoverInit, Written, Zero
<1>2. ASSUME SegmenterIInv, SegmenterIInv', [SegmenterNext]_segmenterVars
      PROVE  [Cover!CoverNext]_(Cover!coverVars)
  <2>1. CASE chunks' = Append(chunks, cur) /\ CCTX_flushChunk /\ pc' = "fn"
    <3>1. Written' = cur.to /\ cur.to = consumed
      BY <1>2, <2>1, WrittenAfterFlush DEF SegmenterIInv, CCTX_flushChunk, CutIsWritten
    <3>2. consumed \in [InputIds -> Nat]
      BY <1>2 DEF SegmenterIInv, SegmenterTypeOK, Amount
    <3>3. \A n \in InputIds : Written[n] <= consumed[n] /\ consumed[n] <= numElts[n]
      BY <1>2 DEF SegmenterIInv, CutIsWritten
    <3>4. Cover!Deliver
      BY <2>1, <3>1, <3>2, <3>3 DEF Cover!Deliver, CCTX_flushChunk
    <3>5. QED
      BY <3>4 DEF Cover!CoverNext
  <2>2. CASE SEGM_runSegmenterReturns /\ pc' = "ok"
    <3>1. Written' = Written /\ numElts' = numElts
      BY <2>2 DEF SEGM_runSegmenterReturns, Written
    <3>2. Written = numElts
      BY <1>2, <2>2, <3>1 DEF SegmenterIInv, FrameCoversInput
    <3>3. Cover!Complete
      BY <2>2, <3>1, <3>2 DEF Cover!Complete
    <3>4. QED
      BY <3>3 DEF Cover!CoverNext
  <2>3. CASE UNCHANGED <<numElts, chunks>> /\ (pc' = "ok") = (pc = "ok")
    <3>1. Written' = Written
      BY <2>3 DEF Written
    <3>2. QED
      BY <2>3, <3>1 DEF Cover!coverVars
  <2>4. ASSUME NEW request \in [InputIds -> 0 .. MaxElts], CutChunk(request)
        PROVE  UNCHANGED <<numElts, chunks>> /\ pc # "ok" /\ pc' # "ok"
    BY <2>4 DEF CutChunk
  <2>5. QED
    BY <1>2, <2>1, <2>2, <2>3, <2>4
       DEF SegmenterNext, RunChunkGraph, CCTX_flushChunk, ChunkFailed,
           SEGM_runSegmenterReturns, Ended, segmenterVars
<1>3. QED
  BY <1>1, <1>2, InductiveInvariant, PTL DEF SegmenterSpec, CoverSpec, Cover!CoverSpec
=============================================================================
