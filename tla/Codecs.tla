-------------------------------- MODULE Codecs --------------------------------
(***************************************************************************)
(* A node encodes an input, or refuses it; the frame may be damaged on its *)
(* way; the decoder of the same codec is given the streams, decodes them   *)
(* or reports corruption.  The codecs themselves are in CodecKernels.      *)
(***************************************************************************)
EXTENDS CodecKernels

CONSTANTS
    NumericInputs,  \* inputs of the numeric codecs, [width, elts]
    SparseInputs,   \* inputs of sparse_num
    SortedInputs,   \* inputs of merge_sorted
    StringInputs,   \* inputs of prefix, sequences of strings
    Versions,       \* format versions
    Parameters,     \* numbers a node may be given as its parameter
    Noise           \* numbers a damaged element may become

(* The elements of an input fit its width; a string's length fits 32 bits. *)
ASSUME NumericAssumption ==
    \A in \in NumericInputs \cup SparseInputs :
        /\ in = Stream(in.width, in.elts)
        /\ in.width \in Widths
        /\ in.elts \in Seq(0..ZL_maxValueForWidth(in.width))
ASSUME SortedAssumption ==
    \A in \in SortedInputs : /\ in = Stream(in.width, in.elts)
                             /\ in.width \in Nat /\ in.elts \in Seq(Nat)
ASSUME StringsAssumption ==
    \A in \in StringInputs :
        /\ in = Stream(1, in.elts) /\ in.elts \in Seq(Seq(Nat))
        /\ \A i \in DOMAIN in.elts : Len(in.elts[i]) <= U32Max
ASSUME NumbersAssumption ==
    /\ Versions \subseteq Nat /\ Parameters \subseteq Nat /\ Noise \subseteq Nat

VARIABLES
    phase,          \* "idle", "encoded", "refused" or "decoded"
    job,            \* codec, format version and input
    sent,           \* header and streams, as the decoder will see them
    damaged,        \* something was changed on the way
    result          \* what the decoder made of it

vars == <<phase, job, sent, damaged, result>>

NoJob == [codec |-> "none", version |-> 0, input |-> Stream(1, <<>>)]

Init == /\ phase = "idle" /\ job = NoJob /\ sent = NotSent
        /\ damaged = FALSE /\ result = Corrupt

Encoded(codec, version, in, out) ==
    /\ phase = "idle"
    /\ job' = [codec |-> codec, version |-> version, input |-> in]
    /\ sent' = out
    /\ phase' = IF out.ok THEN "encoded" ELSE "refused"
    /\ UNCHANGED <<damaged, result>>

EncodeDelta ==
    \E in \in NumericInputs, version \in Versions :
        Encoded("delta", version, in, EI_delta_int(in.elts, in.width, version))

EncodeZigzag ==
    \E in \in NumericInputs :
        Encoded("zigzag", Max(Versions), in, EI_zigzag_num(in.elts, in.width))

EncodeRangePack ==
    \E in \in NumericInputs, bound \in Parameters \cup {ZL_maxValueForWidth(Max(Widths))} :
        Encoded("range_pack", Max(Versions), in, EI_rangePack(in.elts, in.width, bound))

EncodeSentinelByte ==
    \E in \in NumericInputs :
        Encoded("sentinel", Max(Versions), in, EI_sentinel_byte(in.elts, in.width))

(* The caller names ascending indices; one may be past the end.            *)
Ascending(n) ==
    {s \in UNION {[1..k -> 1..n] : k \in 0..n} : \A i, j \in DOMAIN s : i < j => s[i] < s[j]}

EncodeSentinel ==
    \E in \in NumericInputs, value \in Parameters :
        \E indices \in Ascending(Len(in.elts) + 1) :
            Encoded("sentinel", Max(Versions), in,
                    EI_sentinel(in.elts, in.width, indices, value))

EncodeMergeSorted ==
    \E in \in SortedInputs :
        Encoded("merge_sorted", Max(Versions), in, EI_mergeSorted(in.elts, in.width))

EncodeSparseNum ==
    \E in \in SparseInputs :
        \/ Encoded("sparse_num", Max(Versions), in, EI_sparse_num(in.elts, in.width, 0))
        \/ \E explicit \in Parameters \cup {Wild} :
               Encoded("sparse_num", Max(Versions), in,
                       EI_sparse_num_auto(in.elts, in.width, explicit))

EncodePrefix ==
    \E in \in StringInputs : Encoded("prefix", Max(Versions), in, EI_prefix(in.elts))

(* What an element of the k-th stream may turn into.                       *)
NoiseFor(k) ==
    IF job.codec = "merge_sorted" /\ k = 1
    THEN SUBSET (1..(sent.streams[k].width * BitsetBits))
    ELSE IF job.codec = "prefix" /\ k = 1 THEN ToSet(sent.streams[k].elts)
    ELSE IF job.codec = "sparse_num" /\ k = 1
    THEN 0..DistanceMax[sent.streams[k].width]
    ELSE {Cast(v, sent.streams[k].width) : v \in Noise}

DamagedHeaders ==
    LET h == sent.header
    IN  {Append(h, v) : v \in Noise}
        \cup (IF h = <<>> THEN {} ELSE {Front(h)})
        \cup {[h EXCEPT ![i] = v] : i \in DOMAIN h, v \in Noise}

DamagedElts(k) ==
    LET elts == sent.streams[k].elts
    IN  {Append(elts, v) : v \in NoiseFor(k)}
        \cup (IF elts = <<>> THEN {} ELSE {Front(elts)})
        \cup {[elts EXCEPT ![i] = v] : i \in DOMAIN elts, v \in NoiseFor(k)}

DamagedStreams ==
    UNION {{[sent.streams EXCEPT ![k].elts = d] : d \in DamagedElts(k)}
           : k \in DOMAIN sent.streams}

Damage ==
    /\ phase = "encoded" /\ ~damaged
    /\ damaged' = TRUE
    /\ \/ \E h \in DamagedHeaders : sent' = [sent EXCEPT !.header = h]
       \/ \E s \in DamagedStreams : sent' = [sent EXCEPT !.streams = s]
    /\ UNCHANGED <<phase, job, result>>

Decoder(codec, version, header, streams) ==
    CASE codec = "delta" -> DI_delta_int(header, streams, version)
      [] codec = "zigzag" -> DI_zigzag_num(streams)
      [] codec = "range_pack" -> DI_rangePack(header, streams)
      [] codec = "sentinel" -> DI_sentinel(header, streams)
      [] codec = "merge_sorted" -> DI_mergeSorted(header, streams)
      [] codec = "sparse_num" -> DI_sparse_num(header, streams)
      [] codec = "prefix" -> DI_prefix(streams, TRUE)

Decode ==
    /\ phase = "encoded"
    /\ phase' = "decoded"
    /\ result' = Decoder(job.codec, job.version, sent.header, sent.streams)
    /\ UNCHANGED <<job, sent, damaged>>

Next == EncodeDelta \/ EncodeZigzag \/ EncodeRangePack \/ EncodeSentinelByte
        \/ EncodeSentinel \/ EncodeMergeSorted \/ EncodeSparseNum \/ EncodePrefix
        \/ Damage \/ Decode

Spec == Init /\ [][Next]_vars
-----------------------------------------------------------------------------
(* The decoder of every codec gives back, from streams nobody touched, the *)
(* input and its width: at the limits of a width, on wrap-around, with a   *)
(* run split at the largest distance, with vectors and without.            *)
RoundTrip ==
    (phase = "decoded" /\ ~damaged)
        => result.ok /\ result.elts = job.input.elts /\ result.width = job.input.width

(* The two passes of sparse_num agree: the second writes exactly as many   *)
(* distances and values as the first said to allocate, and no distance is  *)
(* cut short by the width chosen.                                          *)
PassesAgree ==
    (job.codec = "sparse_num" /\ phase = "encoded" /\ ~damaged)
        => LET distances == sent.streams[1].elts
               dominant == ReadLE(sent.header)
               info == ZL_sparseNumComputeEncodeInfo(job.input.elts, dominant)
           IN  /\ Len(distances) = info.numDistances
               /\ Len(sent.streams[2].elts) = info.numValues
               /\ Sum(distances) + info.numValues = Len(job.input.elts)

(* merge_sorted emits every value of the input once, in ascending order,   *)
(* with the runs that contain it (encode_merge_sorted_kernel.h:11-15).     *)
MergedIsSortedUnion ==
    (job.codec = "merge_sorted" /\ phase = "encoded" /\ ~damaged)
        => LET merged == sent.streams[2].elts
               runs == getSortedRuns(job.input.elts)
           IN  /\ ToSet(merged) = ToSet(job.input.elts)
               /\ \A i, j \in DOMAIN merged : i < j => merged[i] < merged[j]
               /\ \A i \in DOMAIN merged :
                      sent.streams[1].elts[i] = {b \in DOMAIN runs : 
                              \E k \in (runs[b].start + 1)..runs[b].end :
                                  merged[i] = job.input.elts[k]}

(* Damaged or not, streams a decoder accepts yield exactly the elements it *)
(* allocated, all of them written and read from inside its streams.        *)
AcceptedIsWritten ==
    (phase = "decoded" /\ result.ok)
        => /\ Len(result.elts) = result.room
           /\ Wild \notin (IF job.codec = "prefix"
                           THEN UNION {ToSet(s) : s \in ToSet(result.elts)}
                           ELSE ToSet(result.elts))

(* The vector loads and stores and the wild copies of prefix stay inside   *)
(* its buffers, on any streams, accepted or not (the comment at            *)
(* decode_prefix_kernel.c:144), and what they decode is what a build       *)
(* without vectors decodes.                                                *)
PrefixVectorsInside ==
    (job.codec = "prefix" /\ phase = "decoded")
        => LET suffixes == sent.streams[1].elts
               sizes == sent.streams[2].elts
               kernel == ZS_decodePrefix(suffixes, sizes, TRUE)
           IN  /\ Len(sizes) = Len(suffixes)
                  => /\ kernel.low >= 0
                     /\ kernel.high <= Len(Concat(suffixes))
                     /\ kernel.top <= ZS_calcOriginalPrefixSize(suffixes, sizes)
               /\ DI_prefix(sent.streams, TRUE) = DI_prefix(sent.streams, FALSE)
=============================================================================
