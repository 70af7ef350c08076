------------------------------ MODULE Segmenter ------------------------------
(***************************************************************************)
(* A segmenter (compress/segmenter.c): user code cuts the inputs of a      *)
(* session into chunks; every chunk runs a graph and is written to the     *)
(* frame.  consumed[n] is advanced when a chunk is cut, before its graph   *)
(* runs; the chunk is part of the frame only when CCTX_flushChunk()        *)
(* succeeds.  What the graph does is modelled in CompressEngine.tla; here  *)
(* it succeeds or fails.                                                   *)
(*                                                                         *)
(* The model is the library built without assertions.                      *)
(***************************************************************************)
EXTENDS Naturals, Sequences

CONSTANTS
    NbInputs,      \* number of inputs of the session
    MaxElts,       \* bound: elements of an input, and of a request
    MaxChunks,     \* bound: chunks cut
    Swallow,       \* TRUE: the callback may go on after a failed chunk
    RequestsFit    \* TRUE: the callback never asks for more than is left

InputIds == 1 .. NbInputs

ASSUME SegmenterAssumption ==
    /\ NbInputs \in Nat /\ MaxElts \in Nat /\ MaxChunks \in Nat
    /\ Swallow \in BOOLEAN /\ RequestsFit \in BOOLEAN

VARIABLES
    numElts,      \* elements of inputs[n]
    consumed,     \* seg->consumed[]
    numChunks,    \* seg->numChunks
    cur,          \* the chunk being processed: its slice of every input
    chunks,       \* the chunks written to the frame
    pc            \* where the segmenter is

segmenterVars == <<numElts, consumed, numChunks, cur, chunks, pc>>

Amount == [InputIds -> Nat]
Slice == [from : Amount, to : Amount]
Zero == [n \in InputIds |-> 0]

(* SEGM_init().                                                            *)
SegmenterInit ==
    /\ numElts \in [InputIds -> 0 .. MaxElts]
    /\ consumed = Zero
    /\ numChunks = 0
    /\ cur = [from |-> Zero, to |-> Zero]
    /\ chunks = <<>>
    /\ pc = "fn"

-----------------------------------------------------------------------------
(* ZL_Segmenter_processChunk().  The request is checked input by input     *)
(* against the whole input; the inputs before the first one that is        *)
(* refused have already been advanced.                                     *)
Refused(request) == {n \in InputIds : request[n] > numElts[n]}

Advanced(request, n) == \A m \in Refused(request) : n < m

ConsumedAfter(request) ==
    [n \in InputIds |-> IF Advanced(request, n)
                        THEN consumed[n] + request[n] ELSE consumed[n]]

(* STREAM_refStreamSliceWithoutRefCount(): a request for as many elements  *)
(* as the input has is given the input itself.                             *)
SliceOf(request) ==
    LET from == [n \in InputIds |-> IF request[n] = numElts[n]
                                    THEN 0 ELSE consumed[n]]
    IN  [from |-> from, to |-> [n \in InputIds |-> from[n] + request[n]]]

CutChunk(request) ==
    /\ pc = "fn" /\ numChunks < MaxChunks
    /\ RequestsFit => \A n \in InputIds : consumed[n] + request[n] <= numElts[n]
    /\ consumed' = ConsumedAfter(request)
    /\ IF Refused(request) = {}
       THEN cur' = SliceOf(request) /\ pc' = "graph"
       ELSE pc' = "failed" /\ UNCHANGED cur
    /\ UNCHANGED <<numElts, numChunks, chunks>>

(* CCTX_runSuccessor() on the slices.                                      *)
RunChunkGraph ==
    /\ pc = "graph"
    /\ pc' \in {"flush", "failed"}
    /\ UNCHANGED <<numElts, consumed, numChunks, cur, chunks>>

(* CCTX_flushChunk(): the chunk is counted even if it was not written.     *)
CCTX_flushChunk ==
    /\ pc = "flush"
    /\ numChunks' = numChunks + 1
    /\ \/ pc' = "fn" /\ chunks' = Append(chunks, cur)
       \/ pc' = "failed" /\ UNCHANGED chunks
    /\ UNCHANGED <<numElts, consumed, cur>>

(* The callback gets the error of processChunk().                          *)
ChunkFailed ==
    /\ pc = "failed"
    /\ pc' = "err" \/ (Swallow /\ pc' = "fn")
    /\ UNCHANGED <<numElts, consumed, numChunks, cur, chunks>>

(* Faulty: what is consumed is not looked at.                              *)
OnlyChunksCounted == numChunks # 0

(* SEGM_runSegmenter(): the callback's report, then the post-conditions.   *)
PostConditions ==
    /\ numChunks # 0
    /\ \A n \in InputIds : consumed[n] >= numElts[n]

SEGM_runSegmenterReturns ==
    /\ pc = "fn"
    /\ pc' = "err" \/ (PostConditions /\ pc' = "ok")
    /\ UNCHANGED <<numElts, consumed, numChunks, cur, chunks>>

Ended == pc \in {"ok", "err"} /\ UNCHANGED segmenterVars

SegmenterNext ==
    \/ \E request \in [InputIds -> 0 .. MaxElts] : CutChunk(request)
    \/ RunChunkGraph
    \/ CCTX_flushChunk
    \/ ChunkFailed
    \/ SEGM_runSegmenterReturns
    \/ Ended

SegmenterSpec == SegmenterInit /\ [][SegmenterNext]_segmenterVars

-----------------------------------------------------------------------------
(* Every variable has its type.                                            *)
SegmenterTypeOK ==
    /\ numElts \in Amount
    /\ consumed \in Amount
    /\ numChunks \in Nat
    /\ cur \in Slice
    /\ chunks \in Seq(Slice)
    /\ pc \in {"fn", "graph", "flush", "failed", "ok", "err"}

(* How far the chunks written so far reach.                                *)
Written == IF chunks = <<>> THEN Zero ELSE chunks[Len(chunks)].to

(* The chunks of a frame follow each other without gap or overlap, in      *)
(* every input: chunk k + 1 begins where chunk k ended.                    *)
ChunksContiguous ==
    \A k \in DOMAIN chunks :
        chunks[k].from = IF k = 1 THEN Zero ELSE chunks[k - 1].to

(* segmenter.c:97: `it enforces that input is entirely consumed'.  When    *)
(* the segmenter reports success the frame holds all of every input.       *)
FrameCoversInput == pc = "ok" => Written = numElts

(* The inductive invariant behind the three properties: while user code    *)
(* runs, what was cut is what was written; while a chunk is in progress it *)
(* is exactly the difference.                                              *)
CutIsWritten ==
    /\ pc = "fn" => consumed = Written
    /\ pc \in {"graph", "flush"} => cur.from = Written /\ cur.to = consumed
    /\ \A n \in InputIds : Written[n] <= consumed[n] /\ consumed[n] <= numElts[n]

(* stream.c:527, `startingEltNum + eltCount <= STREAM_eltCount(src)': a    *)
(* chunk is a slice of its input and does not reach beyond its end.        *)
SliceWithinInput ==
    pc \in {"graph", "flush"} => \A n \in InputIds : cur.to[n] <= numElts[n]

(* The segmenter implements the promise of InputCover.                     *)
Cover == INSTANCE InputCover WITH
            Inputs <- InputIds, total <- numElts, delivered <- Written,
            complete <- (pc = "ok")

CoverSpec == Cover!CoverSpec
=============================================================================
