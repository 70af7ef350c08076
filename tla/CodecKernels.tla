------------------------------ MODULE CodecKernels ------------------------------
(***************************************************************************)
(* Seven of the standard codecs: what the encoder binding, EI_..., sends   *)
(* for an input, or that it refuses it, and what the decoder binding,      *)
(* DI_..., makes of the streams and the header it is given.                *)
(*                                                                         *)
(* A stream is a width and its elements.  A header is a sequence of bytes; *)
(* a varint in it is one element.  Elements are unsigned and wrap at their *)
(* width.  The limits of the code (8-bit bytes, widths up to 8, 64 runs,   *)
(* distances up to UINT32_MAX, 32-byte vectors) are constants here.        *)
(***************************************************************************)
EXTENDS Integers, Sequences, FiniteSets, SequencesExt

CONSTANTS
    ByteValues,     \* values of a byte
    Widths,         \* legal widths of an integer, in bytes
    BitsetBits,     \* runs that a byte of a merge_sorted bitset tells apart
    BitsetWidths,   \* widths merge_sorted has a kernel for
    DistanceMax,    \* largest distance of each width of sparse_num, ascending
    SampleMax,      \* elements sparse_num looks at to choose the dominant value
    U32Max,         \* largest length of a string
    Vector          \* bytes of a vector, and of ZS_WILDCOPY_OVERLENGTH

ASSUME WidthsAssumption == /\ ByteValues \in Nat \ {0}
                           /\ Widths \subseteq Nat \ {0} /\ 1 \in Widths
                           /\ \E widest \in Widths : \A w \in Widths : w <= widest
ASSUME BitsetAssumption == /\ BitsetBits \in Nat \ {0}
                           /\ BitsetWidths \subseteq Nat \ {0} /\ {1, 2} \subseteq BitsetWidths
                           /\ \E widest \in BitsetWidths : \A w \in BitsetWidths : w <= widest
ASSUME DistanceAssumption == /\ DistanceMax \in Seq(Nat \ {0}) /\ DistanceMax # <<>>
                             /\ \A v, w \in DOMAIN DistanceMax :
                                    v < w => DistanceMax[v] < DistanceMax[w]
ASSUME SampleAssumption == SampleMax \in Nat
ASSUME StringAssumption == U32Max \in Nat /\ Vector \in Nat \ {0}

(* What a read outside a stream, or of an element never written, yields.   *)
Wild == -1

Power[n \in Nat] == IF n = 0 THEN 1 ELSE ByteValues * Power[n - 1]
Modulus(width) == Power[width]
ZL_maxValueForWidth(width) == Modulus(width) - 1
Cast(v, width) == v % Modulus(width)
NUMOP_numericWidthForValue(v) == Min({w \in Widths : v <= ZL_maxValueForWidth(w)})

LE(v, n) == [i \in 1..n |-> (v \div Modulus(i - 1)) % ByteValues]
ReadLE(bytes) ==
    LET n == Len(bytes)
        value[i \in 0..n] ==
            IF i = 0 THEN 0 ELSE bytes[n + 1 - i] + ByteValues * value[i - 1]
    IN  value[n]

(* The sums, and the concatenations, of the first n members of a sequence. *)
Sums(s) ==
    LET sum[n \in 0..Len(s)] == IF n = 0 THEN 0 ELSE sum[n - 1] + s[n]
    IN  sum
Sum(s) == Sums(s)[Len(s)]
Concats(seqs) ==
    LET concat[n \in 0..Len(seqs)] == IF n = 0 THEN <<>> ELSE concat[n - 1] \o seqs[n]
    IN  concat
Concat(seqs) == Concats(seqs)[Len(seqs)]

At(s, i) == IF i \in DOMAIN s THEN s[i] ELSE Wild

Stream(width, elts) == [width |-> width, elts |-> elts]
Sent(header, streams) == [ok |-> TRUE, header |-> header, streams |-> streams]
NotSent == [ok |-> FALSE, header |-> <<>>, streams |-> <<>>]

(* The committed output, and the number of elements that were allocated.   *)
Made(width, elts, room) ==
    [ok |-> TRUE, width |-> width, elts |-> elts, room |-> room]
Corrupt == [ok |-> FALSE, width |-> 0, elts |-> <<>>, room |-> 0]
-----------------------------------------------------------------------------
(* delta: differences, the first element in the header since version 13.   *)
ZL_DELTA_HEADER_VERSION == 13

ZS_deltaEncode(src, width) ==
    [n \in 1..(Len(src) - 1) |-> Cast(src[n + 1] - src[n], width)]

EI_delta_int(src, width, version) ==
    IF src = <<>> THEN Sent(<<>>, <<Stream(width, <<>>)>>)
    ELSE LET deltas == ZS_deltaEncode(src, width)
         IN  IF version < ZL_DELTA_HEADER_VERSION
             THEN Sent(<<>>, <<Stream(width, <<src[1]>> \o deltas)>>)
             ELSE Sent(LE(src[1], width), <<Stream(width, deltas)>>)

ZS_deltaDecode(first, deltas, width) ==
    LET dst[n \in 0..Len(deltas)] ==
            IF n = 0 THEN first ELSE Cast(dst[n - 1] + deltas[n], width)
    IN  [n \in 1..(Len(deltas) + 1) |-> dst[n - 1]]

DI_delta_int(header, streams, version) ==
    LET in == streams[1]
    IN  IF version < ZL_DELTA_HEADER_VERSION
        THEN Made(in.width,
                  IF in.elts = <<>> THEN <<>>
                  ELSE ZS_deltaDecode(Head(in.elts), Tail(in.elts), in.width),
                  Len(in.elts))
        ELSE IF header = <<>>
        THEN IF in.elts = <<>> THEN Made(in.width, <<>>, 0) ELSE Corrupt
        ELSE IF Len(header) # in.width THEN Corrupt
        ELSE Made(in.width, ZS_deltaDecode(ReadLE(header), in.elts, in.width),
                  Len(in.elts) + 1)
-----------------------------------------------------------------------------
(* zigzag: a two's complement integer with its sign moved to the low bit.  *)
Inverted(v, width) == ZL_maxValueForWidth(width) - v

ZL_zigzagEncode(n, width) ==
    LET shifted == Cast(2 * n, width)
    IN  IF 2 * n >= Modulus(width) THEN Inverted(shifted, width) ELSE shifted

ZL_zigzagDecode(z, width) ==
    IF z % 2 = 1 THEN Inverted(z \div 2, width) ELSE z \div 2

EI_zigzag_num(src, width) ==
    Sent(<<>>, <<Stream(width, [i \in DOMAIN src |-> ZL_zigzagEncode(src[i], width)])>>)

DI_zigzag_num(streams) ==
    LET in == streams[1]
    IN  Made(in.width, [i \in DOMAIN in.elts |-> ZL_zigzagDecode(in.elts[i], in.width)],
             Len(in.elts))
-----------------------------------------------------------------------------
(* range_pack: subtract the minimum, or the bound the node was given if    *)
(* that is less, and use the smallest width that holds the rest.           *)
EI_rangePack(src, width, maxSubtracted) ==
    LET min == IF src = <<>> THEN 0 ELSE Min(ToSet(src))
        max == IF src = <<>> THEN 0 ELSE Max(ToSet(src))
        subtracted == Min({min, maxSubtracted})
        dstWidth == NUMOP_numericWidthForValue(max - subtracted)
    IN  Sent(<<width>> \o (IF subtracted = 0 THEN <<>> ELSE LE(subtracted, width)),
             <<Stream(dstWidth, [i \in DOMAIN src |-> Cast(src[i] - subtracted, dstWidth)])>>)

DI_rangePack(header, streams) ==
    LET in == streams[1]
        dstWidth == header[1]
        minValue == ReadLE(Tail(header))
    IN  IF \/ header = <<>>
           \/ dstWidth < in.width
           \/ dstWidth \notin Widths
           \/ Len(header) > 1 /\ Len(header) # dstWidth + 1
        THEN Corrupt
        ELSE Made(dstWidth,
                  [i \in DOMAIN in.elts |-> Cast(in.elts[i] + minValue, dstWidth)],
                  Len(in.elts))
-----------------------------------------------------------------------------
(* sentinel: elements that do not fit, or that the caller names, go to a   *)
(* stream of exceptions and leave a sentinel behind.                       *)
FaultyFitsByte(v) == v <= ZL_maxValueForWidth(1)
FitsByte(v) == v < ZL_maxValueForWidth(1)

ZL_sentinelByteEncode(src) ==
    LET exceptions[n \in 0..Len(src)] ==
            IF n = 0 THEN <<>>
            ELSE IF FitsByte(src[n]) THEN exceptions[n - 1]
            ELSE Append(exceptions[n - 1], src[n])
    IN  [values |-> [i \in DOMAIN src |->
                        IF FitsByte(src[i]) THEN src[i] ELSE ZL_maxValueForWidth(1)],
         exceptions |-> exceptions[Len(src)]]

EI_sentinel_byte(src, width) ==
    LET kernel == ZL_sentinelByteEncode(src)
    IN  IF width = 1 THEN NotSent
        ELSE Sent(<<>>, <<Stream(1, kernel.values), Stream(width, kernel.exceptions)>>)

(* One element of the kernel: an exception, or a value unlike the sentinel. *)
SentinelEncodeElement(s, elt, isException, sentinel) ==
    IF ~s.ok THEN s
    ELSE IF isException
    THEN [ok |-> TRUE, values |-> Append(s.values, sentinel),
          exceptions |-> Append(s.exceptions, elt)]
    ELSE IF elt = sentinel THEN [s EXCEPT !.ok = FALSE]
    ELSE [ok |-> TRUE, values |-> Append(s.values, elt), exceptions |-> s.exceptions]

ZL_sentinelEncode(src, indices, sentinel) ==
    LET kernel[n \in 0..Len(src)] ==
            IF n = 0 THEN [ok |-> TRUE, values |-> <<>>, exceptions |-> <<>>]
            ELSE SentinelEncodeElement(
                     kernel[n - 1], src[n],
                     At(indices, Len(kernel[n - 1].exceptions) + 1) = n, sentinel)
    IN  kernel[Len(src)]

EI_sentinel(src, width, indices, value) ==
    LET sentinel == Cast(value, width)
        kernel == ZL_sentinelEncode(src, indices, sentinel)
    IN  IF ~kernel.ok \/ Len(kernel.exceptions) # Len(indices) THEN NotSent
        ELSE Sent(IF sentinel = ZL_maxValueForWidth(width) THEN <<>> ELSE <<sentinel>>,
                  <<Stream(width, kernel.values), Stream(width, kernel.exceptions)>>)

SentinelDecodeElement(s, value, exceptions, sentinel) ==
    IF ~s.ok THEN s
    ELSE IF value # sentinel
    THEN [ok |-> TRUE, output |-> Append(s.output, value), excIdx |-> s.excIdx]
    ELSE IF s.excIdx >= Len(exceptions)
    THEN [ok |-> FALSE, output |-> s.output, excIdx |-> s.excIdx]
    ELSE [ok |-> TRUE, output |-> Append(s.output, At(exceptions, s.excIdx + 1)),
          excIdx |-> s.excIdx + 1]

ZL_sentinelDecode(values, exceptions, sentinel) ==
    LET kernel[n \in 0..Len(values)] ==
            IF n = 0 THEN [ok |-> TRUE, output |-> <<>>, excIdx |-> 0]
            ELSE SentinelDecodeElement(kernel[n - 1], values[n], exceptions, sentinel)
        last == kernel[Len(values)]
    IN  [ok |-> last.ok /\ last.excIdx = Len(exceptions), output |-> last.output]

DI_sentinel(header, streams) ==
    LET values == streams[1]
        exceptions == streams[2]
        maxVal == ZL_maxValueForWidth(values.width)
        sentinel == IF header = <<>> THEN maxVal ELSE header[1]
        kernel == ZL_sentinelDecode(values.elts, exceptions.elts, sentinel)
    IN  IF values.width > exceptions.width \/ sentinel > maxVal \/ ~kernel.ok
        THEN Corrupt
        ELSE Made(exceptions.width, kernel.output, Len(values.elts))
-----------------------------------------------------------------------------
(* merge_sorted: the strictly increasing runs of the input are merged into *)
(* their values, in order and each once, with the set of runs each is in.  *)
(* A run starts after one element of the input and ends with another.      *)
MaxRuns == Max(BitsetWidths) * BitsetBits

getSortedRuns(src) ==
    LET runs[n \in 0..Len(src)] ==
            IF n = 0 THEN <<>>
            ELSE IF n > 1 /\ src[n] > src[n - 1]
            THEN [runs[n - 1] EXCEPT ![Len(runs[n - 1])].end = n]
            ELSE Append(runs[n - 1], [start |-> n - 1, end |-> n])
    IN  runs[Len(src)]

(* A binary heap; the code's set beside it keeps out a value it holds.     *)
Swapped(heap, i, j) == [heap EXCEPT ![i] = heap[j], ![j] = heap[i]]

SwapUp(s) ==
    LET parent == s.idx \div 2
    IN  IF s.idx # 1 /\ s.heap[parent] > s.heap[s.idx]
        THEN [heap |-> Swapped(s.heap, parent, s.idx), idx |-> parent]
        ELSE s

heapifyUp(heap, idx) ==
    LET up[n \in 0..idx] ==
            IF n = 0 THEN [heap |-> heap, idx |-> idx] ELSE SwapUp(up[n - 1])
    IN  up[idx].heap

FaultySmallestChild(heap, idx) ==
    IF 2 * idx \in DOMAIN heap /\ heap[2 * idx] < heap[idx] THEN 2 * idx ELSE idx
SmallestChild(heap, idx) ==
    LET candidates == {idx, 2 * idx, 2 * idx + 1} \cap DOMAIN heap
    IN  CHOOSE i \in candidates : \A j \in candidates : heap[i] <= heap[j]

SwapDown(s) ==
    LET min == SmallestChild(s.heap, s.idx)
    IN  IF min # s.idx THEN [heap |-> Swapped(s.heap, min, s.idx), idx |-> min] ELSE s

heapifyDown(heap, idx) ==
    LET down[n \in 0..Len(heap)] ==
            IF n = 0 THEN [heap |-> heap, idx |-> idx] ELSE SwapDown(down[n - 1])
    IN  down[Len(heap)].heap

PQ_insert(heap, val) ==
    IF val \in ToSet(heap) THEN heap ELSE heapifyUp(Append(heap, val), Len(heap) + 1)

PQ_popMin(heap) ==
    IF Len(heap) = 1 THEN <<>>
    ELSE heapifyDown([Front(heap) EXCEPT ![1] = Last(heap)], 1)

(* Run i of the inner loop: advance it if the value popped heads it.       *)
AdvanceRun(s, src, i, end, min) ==
    IF s.pos[i] = end \/ src[s.pos[i] + 1] # min THEN s
    ELSE [heap |-> IF s.pos[i] + 1 = end THEN s.heap
                   ELSE PQ_insert(s.heap, src[s.pos[i] + 2]),
          pos |-> [s.pos EXCEPT ![i] = @ + 1],
          bitset |-> s.bitset \cup {i}]

MergeTurn(m, src, runs) ==
    LET min == m.heap[1]
        turn[i \in 0..Len(runs)] ==
            IF i = 0 THEN [heap |-> PQ_popMin(m.heap), pos |-> m.pos, bitset |-> {}]
            ELSE AdvanceRun(turn[i - 1], src, i, runs[i].end, min)
        last == turn[Len(runs)]
    IN  [heap |-> last.heap, pos |-> last.pos,
         merged |-> Append(m.merged, min), bitsets |-> Append(m.bitsets, last.bitset)]

Heads(src, runs) ==
    LET heap[i \in 0..Len(runs)] ==
            IF i = 0 THEN <<>> ELSE PQ_insert(heap[i - 1], src[runs[i].start + 1])
    IN  heap[Len(runs)]

ZL_MergeSorted_merge(src, runs) ==
    LET m[n \in 0..Len(src)] ==
            IF n = 0
            THEN [heap |-> Heads(src, runs), pos |-> [i \in DOMAIN runs |-> runs[i].start],
                  merged |-> <<>>, bitsets |-> <<>>]
            ELSE IF m[n - 1].heap = <<>> THEN m[n - 1]
            ELSE MergeTurn(m[n - 1], src, runs)
    IN  m[Len(src)]

BitsetWidth(nbSrcs) ==
    IF nbSrcs = 0 THEN 2
    ELSE Min({w \in BitsetWidths : w * BitsetBits >= nbSrcs})

EI_mergeSorted(src, width) ==
    LET runs == getSortedRuns(src)
        kernel == ZL_MergeSorted_merge(src, runs)
    IN  IF width # 4 \/ Len(runs) > MaxRuns THEN NotSent
        ELSE Sent([i \in DOMAIN runs |-> runs[i].end - runs[i].start],
                  <<Stream(BitsetWidth(Len(runs)), kernel.bitsets),
                    Stream(4, kernel.merged)>>)

(* Each destination ends where the next one starts.                        *)
DestinationEnds(sizes) == [b \in DOMAIN sizes |-> Sums(sizes)[b]]

(* Every destination with room is written to, those in the set advance.    *)
SplitValue(s, ends, bitset, value) ==
    LET open == {b \in DOMAIN ends : s.dsts[b] # ends[b]}
    IN  [dsts |-> [b \in DOMAIN ends |->
                      s.dsts[b] + IF b \in open \cap bitset THEN 1 ELSE 0],
         out |-> [k \in DOMAIN s.out |->
                      IF \E b \in open : s.dsts[b] = k - 1 THEN value ELSE s.out[k]]]

ZL_MergeSorted_split(ends, sizes, bitsets, merged) ==
    LET split[n \in 0..Len(merged)] ==
            IF n = 0
            THEN [dsts |-> [b \in DOMAIN ends |-> ends[b] - sizes[b]],
                  out |-> [k \in 1..Sum(sizes) |-> Wild]]
            ELSE SplitValue(split[n - 1], ends, bitsets[n], merged[n])
    IN  split[Len(merged)]

FaultyAllFilled(dsts, ends) == \E b \in DOMAIN ends : dsts[b] = ends[b]
AllFilled(dsts, ends) == \A b \in DOMAIN ends : dsts[b] = ends[b]

DI_mergeSorted(header, streams) ==
    LET bitset == streams[1]
        merged == streams[2]
        bits == bitset.width * BitsetBits
        ends == DestinationEnds(header)
        kernel == ZL_MergeSorted_split(ends, header, bitset.elts, merged.elts)
    IN  IF \/ Len(merged.elts) # Len(bitset.elts)
           \/ merged.width # 4
           \/ Sum(header) > bits * Len(bitset.elts)
           \/ Len(header) > MaxRuns
           \/ Len(header) > bits
           \/ bitset.width \notin BitsetWidths
           \/ ~AllFilled(kernel.dsts, ends)
        THEN Corrupt
        ELSE Made(4, kernel.out, Sum(header))
-----------------------------------------------------------------------------
(* sparse_num: runs of a dominant value as distances, the rest as values.  *)
(* A first pass computes the sizes and the width, a second one writes.     *)
LongestRun == Last(DistanceMax)
DistanceWidth(maxDistance) ==
    Min({w \in DOMAIN DistanceMax : maxDistance <= DistanceMax[w]})

Vote(s, v) ==
    IF s.votes = 0 THEN [candidate |-> v, votes |-> 1]
    ELSE [candidate |-> s.candidate,
          votes |-> IF v = s.candidate THEN s.votes + 1 ELSE s.votes - 1]

ZL_sparseNumSelectDominant(src) ==
    LET vote[n \in 0..Len(src)] ==
            IF n = 0 THEN [candidate |-> 0, votes |-> 0] ELSE Vote(vote[n - 1], src[n])
        last == vote[IF Len(src) < SampleMax THEN Len(src) ELSE SampleMax]
    IN  IF last.votes = 0 THEN 0 ELSE last.candidate

(* An element that ends a run, also a dominant one after a full run.       *)
ScanElement(s, v, dominant) ==
    IF v = dominant /\ s.run # LongestRun
    THEN [s EXCEPT !.run = @ + 1]
    ELSE [run |-> 0, maxDistance |-> Max({s.maxDistance, s.run}),
          numValues |-> s.numValues + 1, numDistances |-> s.numDistances + 1]

ZL_sparseNumComputeEncodeInfo(src, dominant) ==
    LET scan[n \in 0..Len(src)] ==
            IF n = 0 THEN [run |-> 0, maxDistance |-> 0, numValues |-> 0, numDistances |-> 0]
            ELSE ScanElement(scan[n - 1], src[n], dominant)
        last == scan[Len(src)]
    IN  [numDistances |-> last.numDistances + IF last.run > 0 THEN 1 ELSE 0,
         numValues |-> last.numValues,
         distanceWidth |-> DistanceWidth(Max({last.maxDistance, last.run}))]

WriteDistance(d, width) == d % (DistanceMax[width] + 1)

FaultySplitFullRun(run, width) == width = Len(DistanceMax) /\ run = LongestRun - 1
SplitFullRun(run, width) == width = Len(DistanceMax) /\ run = LongestRun

(* "elts" elements are behind the last distance written.                   *)
EncodeSparseElement(s, i, v, dominant, width) ==
    LET Cut(elts) == [distances |-> Append(s.distances, WriteDistance(s.run, width)),
                      values |-> Append(s.values, v), elts |-> elts, run |-> 0]
    IN  IF v # dominant THEN Cut(s.elts + s.run + 1)
        ELSE IF SplitFullRun(s.run, width) THEN Cut(i)
        ELSE [s EXCEPT !.run = @ + 1]

ZL_sparseNumEncode(src, dominant, width) ==
    LET body[n \in 0..Len(src)] ==
            IF n = 0 THEN [distances |-> <<>>, values |-> <<>>, elts |-> 0, run |-> 0]
            ELSE EncodeSparseElement(body[n - 1], n, src[n], dominant, width)
        last == body[Len(src)]
    IN  [distances |-> IF last.elts < Len(src)
                       THEN Append(last.distances, WriteDistance(Len(src) - last.elts, width))
                       ELSE last.distances,
         values |-> last.values]

(* An explicit value that does not fit the width is refused.               *)
EI_sparse_num(src, width, dominant) ==
    LET info == ZL_sparseNumComputeEncodeInfo(src, dominant)
        kernel == ZL_sparseNumEncode(src, dominant, info.distanceWidth)
    IN  Sent(IF dominant = 0 THEN <<>>
             ELSE LE(dominant, Min({n \in 1..width : dominant <= ZL_maxValueForWidth(n)})),
             <<Stream(info.distanceWidth, kernel.distances), Stream(width, kernel.values)>>)

EI_sparse_num_auto(src, width, explicit) ==
    IF explicit = Wild THEN EI_sparse_num(src, width, ZL_sparseNumSelectDominant(src))
    ELSE IF explicit > ZL_maxValueForWidth(width) THEN NotSent
    ELSE EI_sparse_num(src, width, IF src = <<>> THEN 0 ELSE explicit)

ZL_sparseNumDecodeOutputCount(distances, values) == Len(values) + Sum(distances)

ZL_sparseNumDecode(distances, values, dominant) ==
    Concat([i \in DOMAIN distances |->
               [k \in 1..distances[i] |-> dominant]
               \o (IF i \in DOMAIN values THEN <<values[i]>> ELSE <<>>)])

DI_sparse_num(header, streams) ==
    LET distances == streams[1].elts
        values == streams[2].elts
        width == streams[2].width
    IN  IF \/ streams[1].width \notin DOMAIN DistanceMax
           \/ Len(header) > width
           \/ Len(distances) \notin {Len(values), Len(values) + 1}
        THEN Corrupt
        ELSE Made(width, ZL_sparseNumDecode(distances, values, ReadLE(header)),
                  ZL_sparseNumDecodeOutputCount(distances, values))
-----------------------------------------------------------------------------
(* prefix: the length of what a string shares with the one before, and the *)
(* rest of it.                                                             *)
ZS_getPrefixMatchSize(prev, curr) ==
    Max({n \in 0..Min({Len(prev), Len(curr)}) : SubSeq(prev, 1, n) = SubSeq(curr, 1, n)})

EI_prefix(src) ==
    LET match == [i \in DOMAIN src |->
                     IF i = 1 THEN 0 ELSE ZS_getPrefixMatchSize(src[i - 1], src[i])]
    IN  Sent(<<>>, <<Stream(1, [i \in DOMAIN src |-> SubSeq(src[i], match[i] + 1, Len(src[i]))]),
                     Stream(4, match)>>)

(* The elements that may be copied with whole vectors: those followed by   *)
(* at least a vector of suffixes.                                          *)
FaultySafeWildcopies(suffixes) == Len(suffixes)
SafeWildcopies(suffixes) ==
    LET Rest(n) == Len(Concat(suffixes)) - Len(Concats(suffixes)[n])
    IN  Max({0} \cup {n \in 1..Len(suffixes) : Rest(n) >= Vector})

MatchTooLong(match, prevFieldSize) == match > prevFieldSize

Bytes(s, from, n) == [k \in 1..n |-> At(s, from + k)]

(* One element of ZS_decodePrefix.  "consumed" bytes of the suffixes are   *)
(* used, "produced" bytes of the output are written, "vec" is the vector   *)
(* register, "low" and "high" bound the bytes of the suffixes that vector  *)
(* loads and wild copies touch, "top" the bytes of the output.             *)
PrefixCopy(s, match, suffix) ==
    [s EXCEPT !.field = Bytes(s.field, 0, match) \o suffix]

(* Row "match" of blendMasks keeps that many bytes of the old vector.      *)
Keeps(match, k) == k <= match

PrefixBlend(s, match, suffix, all) ==
    LET vec == [k \in 1..Vector |-> IF Keeps(match, k) THEN s.vec[k]
                                    ELSE At(all, s.consumed + k - match)]
    IN  [s EXCEPT !.field = Bytes(vec, 0, Min({Vector, match + Len(suffix)}))
                            \o Bytes(suffix, Vector - match, match + Len(suffix) - Vector),
                  !.vec = vec,
                  !.low = Min({@, s.consumed - match}),
                  !.high = Max({@, s.consumed - match + Vector}),
                  !.top = Max({@, s.produced + Vector})]

(* ZS_wildcopy() may touch a whole vector past the bytes it copies         *)
(* (ZS_WILDCOPY_OVERLENGTH).                                               *)
ReachOf(touched, end, wild) == IF wild THEN Max({touched, end + Vector}) ELSE touched

(* What a vector does not hold is copied wildly: the rest of the suffix    *)
(* behind a blend, or the match and the suffix.                            *)
DecodePrefixElement(s, match, suffix, all, vectors) ==
    LET copied == IF vectors /\ match <= Vector
                  THEN PrefixBlend(s, match, suffix, all)
                  ELSE PrefixCopy(s, match, suffix)
        wild == vectors /\ match + Len(suffix) > Vector
    IN  IF ~s.ok THEN s
        ELSE IF MatchTooLong(match, Len(s.field)) THEN [s EXCEPT !.ok = FALSE]
        ELSE [copied EXCEPT !.ok = match + Len(suffix) <= U32Max,
                            !.out = Append(@, copied.field),
                            !.consumed = @ + Len(suffix),
                            !.produced = @ + match + Len(suffix),
                            !.high = ReachOf(@, s.consumed + Len(suffix), wild),
                            !.top = ReachOf(@, s.produced + match + Len(suffix), wild)]

ZS_decodePrefix(suffixes, matchSizes, vectorised) ==
    LET all == Concat(suffixes)
        wild == IF vectorised THEN SafeWildcopies(suffixes) ELSE 0
        kernel[n \in 0..Len(suffixes)] ==
            IF n = 0
            THEN [ok |-> TRUE, out |-> <<>>, field |-> <<>>, vec |-> [k \in 1..Vector |-> 0],
                  consumed |-> 0, produced |-> 0, low |-> 0, high |-> 0, top |-> 0]
            ELSE DecodePrefixElement(kernel[n - 1], matchSizes[n], suffixes[n], all, n <= wild)
    IN  kernel[Len(suffixes)]

ZS_calcOriginalPrefixSize(suffixes, matchSizes) ==
    Len(Concat(suffixes)) + Sum(matchSizes)

DI_prefix(streams, vectorised) ==
    LET suffixes == streams[1].elts
        matchSizes == streams[2].elts
        kernel == ZS_decodePrefix(suffixes, matchSizes, vectorised)
    IN  IF Len(matchSizes) # Len(suffixes) \/ streams[2].width # 4 \/ ~kernel.ok
        THEN Corrupt
        ELSE Made(1, kernel.out, Len(suffixes))
=============================================================================
