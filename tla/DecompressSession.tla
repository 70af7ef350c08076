--------------------------- MODULE DecompressSession ---------------------------
(***************************************************************************)
(* A decompression context and its calls (decompress/decompress2.c,        *)
(* gdparams.c, decode_frameheader.c): parameters, the frame header, the    *)
(* chunks one after the other, each appended to the output and verified,   *)
(* the end of the frame and the final checks.  One serial output, owned by *)
(* the user, who may give it again after a failure.                        *)
(***************************************************************************)
EXTENDS FrameFormat

CONSTANTS
    OutputSizes  \* capacities of the outputs the user allocates

VARIABLES
    copy,     \* the frame as the decoder reads it, NoFrame before it is given
    dreq,     \* requestedGDParams
    dapplied, \* appliedGDParams
    out,      \* the output: [capacity, data, last], or None
    pos,      \* the next chunk of the frame
    verdict   \* "none", "running", "ok" or "error"

dvars == <<copy, dreq, dapplied, out, pos, verdict>>

DZeroes == [sticky |-> FALSE, content |-> "auto", compressed |-> "auto"]
DParamValues == [sticky |-> BOOLEAN, content |-> {"auto", "off"},
                 compressed |-> {"auto", "off"}]

DParams == [sticky : BOOLEAN, content : {"auto", "on", "off"},
            compressed : {"auto", "on", "off"}]
Buffers == [capacity : Nat, data : Seq(Nat), last : Seq(Nat)]
ASSUME OutputAssumption == OutputSizes \subseteq Nat /\ None \notin Buffers

DTypeOK ==
    /\ dreq \in DParams /\ dapplied \in DParams
    /\ pos \in Nat \ {0}
    /\ verdict \in {"none", "running", "ok", "error"}
    /\ out \in Buffers \cup {None}
    /\ out # None => Len(out.data) <= out.capacity

DInit ==
    /\ copy = NoFrame /\ dreq = DZeroes /\ dapplied = DZeroes
    /\ out = None /\ pos = 1 /\ verdict = "none"

(* ZL_DCtx_setParameter() and ZL_DCtx_resetParameters(), between calls.    *)
ZL_DCtx_setParameter(p, v) ==
    /\ verdict # "running"
    /\ dreq' = [dreq EXCEPT ![p] = v]
    /\ UNCHANGED <<copy, dapplied, out, pos, verdict>>
ZL_DCtx_resetParameters ==
    /\ verdict # "running"
    /\ dreq' = DZeroes
    /\ UNCHANGED <<copy, dapplied, out, pos, verdict>>

(* DCtx_setAppliedParameters()                                             *)
GDParams_applyDefaults(r) ==
    [r EXCEPT !.content = IF @ = "auto" THEN "on" ELSE @,
              !.compressed = IF @ = "auto" THEN "on" ELSE @]

Remaining(o) == o.capacity - Len(o.data)

(* The header of a chunked frame has its own checksum.                     *)
HeaderIntact(f) == f.headerSum # <<>> => f.headerSum = <<f.size>>

(* ZL_DCtx_decompressMultiTBuffer() up to its loop: parameters, header,    *)
(* and an output with room for the declared size, allocated if need be.    *)
RoomFor(o, n) == n <= Remaining(o)

BeginDecode(f, o) ==
    /\ verdict # "running"
    /\ copy' = f /\ pos' = 1
    /\ dapplied' = GDParams_applyDefaults(dreq)
    /\ \/ /\ ~HeaderIntact(f) \/ (o # None /\ ~RoomFor(o, f.size))
          /\ verdict' = "error" /\ out' = o
       \/ /\ HeaderIntact(f)
          /\ o # None => RoomFor(o, f.size)
          /\ verdict' = "running"
          /\ out' = IF o = None THEN [capacity |-> f.size, data |-> <<>>, last |-> <<>>]
                    ELSE o
    /\ UNCHANGED dreq

-----------------------------------------------------------------------------
(* The chunks.                                                             *)

Running == verdict = "running"
Fail == verdict' = "error" /\ UNCHANGED dreq

(* The end is where the marker is, or after the only chunk.                *)
AtEnd ==
    IF Chunked(copy.version) THEN pos > Len(copy.body) /\ copy.eof ELSE pos = 2

(* Nothing left to read where a chunk or the marker should be.             *)
Truncated ==
    /\ Running /\ ~AtEnd /\ pos > Len(copy.body)
    /\ Fail
    /\ UNCHANGED <<copy, dapplied, out, pos>>

(* setupChunkDecode(): the compressed checksum, before any decoder runs.   *)
CompressedSumOK(c) ==
    copy.compressed /\ dapplied.compressed = "on" =>
      c.compressedSum = CompressedSum(copy.version, copy.size, c.data)

(* The content checksum, of what was appended last (STREAM_hashLastCommit).*)
ContentSumOK(c, o) ==
    copy.content /\ dapplied.content = "on" => c.contentSum = o.last

(* addChunksIntoFinalStreams(), STREAM_append()                            *)
Appended(o, data) == [o EXCEPT !.data = @ \o data, !.last = data]

(* ZL_DCtx_decompressChunk(): the output is extended before the content    *)
(* checksum is verified, so a failure leaves the chunk in it.  The         *)
(* decoders regenerate an intact chunk (CompressEngine, Codecs); another   *)
(* they refuse, or make into some other data.                              *)
ZL_DCtx_decompressChunk ==
    /\ Running /\ ~AtEnd /\ pos <= Len(copy.body)
    /\ LET c == copy.body[pos] IN
       \/ /\ ~CompressedSumOK(c) \/ ~c.decodes \/ Len(c.data) > Remaining(out)
          /\ Fail /\ UNCHANGED <<out, pos>>
       \/ /\ CompressedSumOK(c) /\ c.decodes /\ Len(c.data) <= Remaining(out)
          /\ out' = Appended(out, c.data)
          /\ \/ ~ContentSumOK(c, out') /\ Fail /\ UNCHANGED pos
             \/ ContentSumOK(c, out') /\ pos' = pos + 1 /\ UNCHANGED <<verdict, dreq>>
    /\ UNCHANGED <<copy, dapplied>>

(* The end: the whole frame was read and the output has the declared size. *)
(* Only a call that succeeds resets the parameters.                        *)
FaultySizeOK(o, f) == Len(o.data) <= o.capacity
SizeOK(o, f) == Len(o.data) = f.size

EndDecode ==
    /\ Running /\ AtEnd
    /\ \/ /\ pos <= Len(copy.body) \/ copy.extra \/ ~SizeOK(out, copy)
          /\ Fail
       \/ /\ pos > Len(copy.body) /\ ~copy.extra /\ SizeOK(out, copy)
          /\ verdict' = "ok"
          /\ dreq' = IF dapplied.sticky THEN dreq ELSE DZeroes
    /\ UNCHANGED <<copy, dapplied, out, pos>>
=============================================================================
