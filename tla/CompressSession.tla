---------------------------- MODULE CompressSession ----------------------------
(***************************************************************************)
(* A compression context and its sessions (compress/cctx.c, compress2.c,   *)
(* gcparams.c): parameters set by the user, by the compressor and by the   *)
(* library, the starting graph, the header comment, and the calls that     *)
(* compress.  CompressEngine models what happens to each chunk; here a     *)
(* chunk is written whole or fails.                                        *)
(*                                                                         *)
(* The copies that the context makes of a comment or of the parameters of  *)
(* a starting graph live in its session arena: once the arena is freed, a  *)
(* pointer that is left over refers to Freed.                              *)
(***************************************************************************)
EXTENDS FrameFormat

CONSTANTS
    Compressors,       \* compressors the user may refer to
    CompressorParams,  \* their own parameters: version, content, compressed
    StartGraphs,       \* starting graphs that may be selected explicitly
    StartParams,       \* runtime parameters given to a starting graph
    Comments,          \* header comments
    Versions,          \* format versions the user may ask for
    Inputs,            \* what may be compressed, sequences of numbers
    ChunkMax,          \* size of the chunks a segmenter cuts
    MaxCapacity,       \* bound: destination capacity; header, chunk and marker take 1 each
    StickyWithParams,  \* whether sticky settings include start parameters
    Freed              \* what a dangling pointer refers to

Ternary == {"auto", "on", "off"}

ASSUME SessionAssumption ==
    /\ ChunkMax \in Nat \ {0} /\ MaxCapacity \in Nat
    /\ Versions \subseteq Nat /\ \A v \in Versions : v > 3
    /\ Inputs \subseteq Seq(Nat)
    /\ CompressorParams \in [Compressors -> [version : Versions \cup {0},
                                            content : Ternary, compressed : Ternary]]
    /\ None \notin Compressors \cup StartGraphs \cup StartParams \cup Comments
    /\ None # "internal" /\ "internal" \notin Compressors
    /\ Freed \notin StartParams \cup Comments \cup {None}

VARIABLES
    req,      \* requestedGCParams
    cgraph,   \* the compressor in use
    internal, \* whether the internal compressor exists
    comment,  \* header comment
    job,      \* the session under way with its appliedGCParams, or None
    frame     \* the frame that the last session delivered

cvars == <<req, cgraph, internal, comment, job, frame>>

(* The settings that a frame shows; 0 and "auto" leave the choice to the   *)
(* next level.                                                             *)
Unset == [version |-> 0, content |-> "auto", compressed |-> "auto"]
Zeroes == [sticky |-> FALSE, start |-> None, version |-> 0, content |-> "auto",
           compressed |-> "auto"]
GCParams_default == [version |-> 0, content |-> "on", compressed |-> "on"]

Start == [graph : StartGraphs, params : StartParams \cup {None, Freed}]
Params == [sticky : BOOLEAN, start : Start \cup {None}, version : Versions \cup {0},
           content : Ternary, compressed : Ternary]

Frames == [version : Nat, content : BOOLEAN, compressed : BOOLEAN,
           comment : Comments \cup {None, Freed}, size : Nat, headerSum : Seq(Nat),
           body : Seq(Chunks), eof : BOOLEAN, extra : BOOLEAN,
           graph : Compressors \cup {None, "internal"}, start : Start \cup {None},
           origin : Seq(Nat)]
Jobs == [step : {"header", "chunks", "footer"}, input : Inputs, rest : Seq(Nat),
         capacity : Nat, written : Nat, applied : Params, out : Frames \cup {NoFrame}]
ASSUME JobAssumption == None \notin Jobs

CTypeOK ==
    /\ req \in Params
    /\ job \in Jobs \cup {None}
    /\ job # None => job.written <= job.capacity
    /\ frame \in Frames \cup {NoFrame}
    /\ cgraph \in Compressors \cup {None, "internal"}
    /\ internal \in BOOLEAN
    /\ comment \in Comments \cup {None, Freed}

CInit ==
    /\ req = Zeroes
    /\ cgraph = None /\ internal = FALSE
    /\ comment = None /\ job = None /\ frame = NoFrame

-----------------------------------------------------------------------------
(* Settings, between sessions.                                             *)

Idle == job = None /\ frame = NoFrame

(* ZL_CCtx_setParameter()                                                  *)
ParamValues == [sticky |-> BOOLEAN, version |-> Versions \cup {0},
                content |-> {"auto", "off"}]
ZL_CCtx_setParameter(p, v) ==
    /\ Idle
    /\ req' = [req EXCEPT ![p] = v]
    /\ StickyWithParams \/ ~(req'.sticky /\ req.start # None /\ req.start.params # None)
    /\ UNCHANGED <<cgraph, internal, comment, job, frame>>

FaultyResetStart(r) == r
GCParams_resetStartingGraphID(r) == [r EXCEPT !.start = None]

(* ZL_CCtx_refCompressor(); one without a starting graph is refused.       *)
ZL_CCtx_refCompressor(c) ==
    /\ Idle
    /\ cgraph' = c
    /\ req' = GCParams_resetStartingGraphID(req)
    /\ UNCHANGED <<internal, comment, job, frame>>

(* ZL_CCtx_selectStartingGraphID(), of a compressor or of the one in use;  *)
(* the parameters are copied to the session arena.                         *)
ZL_CCtx_selectStartingGraphID(c, g, params) ==
    /\ Idle
    /\ StickyWithParams \/ ~(req.sticky /\ params # None)
    /\ cgraph' = IF c = None THEN cgraph ELSE c
    /\ req' = [req EXCEPT !.start = [graph |-> g, params |-> params]]
    /\ UNCHANGED <<internal, comment, job, frame>>

(* ZL_CCtx_addHeaderComment(); a comment of size 0 clears it.              *)
ZL_CCtx_addHeaderComment(text) ==
    /\ Idle
    /\ comment' = text
    /\ UNCHANGED <<req, cgraph, internal, job, frame>>

(* ZL_CCtx_resetParameters()                                               *)
ResetParameters ==
    /\ req' = Zeroes
    /\ cgraph' = None /\ internal' = FALSE
    /\ comment' = None
ZL_CCtx_resetParameters ==
    /\ Idle
    /\ ResetParameters
    /\ UNCHANGED <<job, frame>>

-----------------------------------------------------------------------------
(* A session.                                                              *)

(* CCTX_setAppliedParameters(): the user's choice, else the compressor's,  *)
(* else the library's.  Stickiness and the starting graph have no default. *)
OwnParams(c) == IF c = "internal" THEN Unset ELSE CompressorParams[c]
GCParams_applyDefaults(r, d) ==
    [r EXCEPT !.version = IF @ = 0 THEN d.version ELSE @,
              !.content = IF @ = "auto" THEN d.content ELSE @,
              !.compressed = IF @ = "auto" THEN d.compressed ELSE @]
AppliedParameters(r, c) ==
    GCParams_applyDefaults(GCParams_applyDefaults(r, OwnParams(c)), GCParams_default)

(* A compression call, of the serial kind (ZL_CCtx_compress), which falls  *)
(* back on an internal compressor when none is set, or of the typed kind,  *)
(* which is refused then and leaves everything as it was.                  *)
BeginSession(input, capacity, typed) ==
    /\ Idle
    /\ cgraph # None \/ ~typed
    /\ \/ /\ cgraph # None
          /\ UNCHANGED <<req, cgraph, internal>>
       \/ /\ cgraph = None
          /\ internal' = TRUE /\ cgraph' = "internal"
          /\ req' = GCParams_resetStartingGraphID(req)
    /\ job' = [step |-> "header", input |-> input, rest |-> input,
               capacity |-> capacity, written |-> 0, applied |-> Zeroes,
               out |-> NoFrame]
    /\ UNCHANGED <<comment, frame>>

(* CCTX_compressInputs_withGraphSet(): whatever happened, the arenas are   *)
(* freed (CCTX_clean) and then the parameters are reset unless sticky.     *)
AfterFree(start) ==
    IF start # None /\ start.params # None THEN [start EXCEPT !.params = Freed]
    ELSE start
KeepParameters ==
    /\ comment' = None
    /\ req' = [req EXCEPT !.start = AfterFree(@)]
    /\ UNCHANGED <<cgraph, internal>>
FaultyEndSession(r, keep) ==
    /\ job' = None /\ frame' = r
    /\ IF keep \/ r = NoFrame THEN KeepParameters ELSE ResetParameters
EndSession(r, keep) ==
    /\ job' = None /\ frame' = r
    /\ IF keep THEN KeepParameters ELSE ResetParameters

(* Parameters, frame header and start of the compression (stage2): fails   *)
(* without a format version and without room for the header.               *)
WriteFrameHeader ==
    /\ job # None /\ job.step = "header"
    /\ LET a == AppliedParameters(req, cgraph)
           shown == IF a.version >= ZL_COMMENT_VERSION_MIN THEN comment ELSE None
       IN \/ /\ a.version = 0 \/ job.capacity < 1
             /\ EndSession(NoFrame, a.sticky)
          \/ /\ a.version # 0 /\ job.capacity >= 1
             /\ job' = [job EXCEPT !.step = "chunks", !.written = 1, !.applied = a,
                          !.out = Frame(a.version, a.content # "off",
                                        a.compressed # "off", shown,
                                        cgraph, a.start, job.input)]
             /\ UNCHANGED <<req, cgraph, internal, comment, frame>>

(* The chunks, cut by a segmenter where the version has chunks, else one.  *)
(* Each is compressed and written (CompressEngine), or fails.              *)
Chunk(data) ==
    [data |-> data, decodes |-> TRUE,
     contentSum |-> IF job.out.content THEN data ELSE <<>>,
     compressedSum |-> IF job.out.compressed
                       THEN CompressedSum(job.out.version, job.out.size, data)
                       ELSE <<>>]
ChunkSizes(version, n) ==
    IF Chunked(version) /\ n > ChunkMax THEN {ChunkMax, n} ELSE {n}

FlushChunk(n) ==
    /\ job # None /\ job.step = "chunks"
    /\ n \in ChunkSizes(job.out.version, Len(job.rest))
    /\ \/ EndSession(NoFrame, job.applied.sticky)
       \/ /\ job.written < job.capacity
          /\ job' = [job EXCEPT !.written = @ + 1,
                       !.out.body = Append(@, Chunk(SubSeq(job.rest, 1, n))),
                       !.rest = SubSeq(@, n + 1, Len(@)),
                       !.step = IF n = Len(job.rest) THEN "footer" ELSE @]
          /\ UNCHANGED <<req, cgraph, internal, comment, frame>>

(* The end-of-frame marker, an error when there is no room left for it.    *)
FaultyNeedsMarker(version) == Chunked(version) /\ job.written < job.capacity
NeedsMarker(version) == Chunked(version)

WriteFooter ==
    /\ job # None /\ job.step = "footer"
    /\ LET marker == NeedsMarker(job.out.version)
           done == [job.out EXCEPT !.eof = marker]
       IN \/ marker /\ job.written = job.capacity /\ EndSession(NoFrame, job.applied.sticky)
          \/ ~(marker /\ job.written = job.capacity) /\ EndSession(done, job.applied.sticky)

CNext ==
    \/ \E p \in DOMAIN ParamValues : \E v \in ParamValues[p] : ZL_CCtx_setParameter(p, v)
    \/ \E c \in Compressors : ZL_CCtx_refCompressor(c)
    \/ \E c \in Compressors \cup {None}, g \in StartGraphs, ps \in StartParams \cup {None} :
         ZL_CCtx_selectStartingGraphID(c, g, ps)
    \/ \E text \in Comments \cup {None} : ZL_CCtx_addHeaderComment(text)
    \/ ZL_CCtx_resetParameters
    \/ \E input \in Inputs, capacity \in 0..MaxCapacity, typed \in BOOLEAN :
         BeginSession(input, capacity, typed)
    \/ WriteFrameHeader
    \/ \E n \in 0..MaxCapacity : FlushChunk(n)
    \/ WriteFooter

-----------------------------------------------------------------------------
(* Properties.                                                             *)

(* The context keeps its documented contract (SessionContract), whatever   *)
(* the order of the calls and wherever a session fails.                    *)
EffectiveIn(a, p) ==
    IF a[p] # Unset[p] THEN a[p]
    ELSE IF OwnParams(a.graph)[p] # Unset[p] THEN OwnParams(a.graph)[p]
    ELSE GCParams_default[p]
Settings(r, g, text) ==
    [sticky |-> r.sticky, version |-> r.version, content |-> r.content,
     compressed |-> r.compressed, start |-> r.start, graph |-> g, comment |-> text]
Contract == INSTANCE SessionContract WITH
    Blank <- Settings(Zeroes, None, None), Effective <- EffectiveIn,
    asked <- Settings(req, cgraph, comment), busy <- job # None, delivered <- frame
KeepsContract == Contract!Spec

(* The starting graph of a session and the header are never given memory   *)
(* that an earlier session has freed, and the internal compressor exists   *)
(* while it is in use.                                                     *)
SettingsAreAlive ==
    job # None =>
      /\ req.start = None \/ req.start.params # Freed
      /\ comment # Freed
      /\ cgraph = "internal" => internal
=============================================================================
