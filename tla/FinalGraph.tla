------------------------------ MODULE FinalGraph ------------------------------
(***************************************************************************)
(* The two ends of a chunk.  CCTX_getFinalGraph() (compress/cctx.c) turns  *)
(* the runtime graph into what the chunk header holds: the transforms in   *)
(* reverse order, the number of streams each of them produced, for every   *)
(* input a distance, and the list of the stored buffers.                   *)
(* fillStoredStreams() (decompress/decompress2.c) rebuilds from that the   *)
(* slots of the decoder: which slots are regenerated and by which          *)
(* transform, and which ones are read from the frame.                      *)
(***************************************************************************)
EXTENDS RTGraph, FiniteSets

(* The checks of CCTX_getFinalGraph(): format limits, which are one short  *)
(* of what the vectors can hold, and singletons that a transform did not   *)
(* produce.                                                                *)
FinalGraphAllowed(nodes, streams) ==
    /\ Len(nodes) < NodeLimit
    /\ Len(streams) + 1 < StreamLimit
    /\ \A n \in DOMAIN nodes : nodes[n].outs >= nodes[n].out1s

(* Faulty: from the first stream to the last.                              *)
BuffersInCreationOrder(streams) ==
    SelectSeq([n \in DOMAIN streams |-> n], LAMBDA s : streams[s].toStore)

(* RTGM_listBuffersToStore(): from the last stream to the first.           *)
RTGM_listBuffersToStore(streams) ==
    LET nbStreams == Len(streams)
        rba[n \in 0 .. nbStreams] ==
            IF n = 0 THEN <<>>
            ELSE IF streams[nbStreams + 1 - n].toStore
            THEN Append(rba[n - 1], nbStreams + 1 - n)
            ELSE rba[n - 1]
    IN  rba[nbStreams]

(* The graph as the header carries it.  EFH_writeChunkHeader() writes the  *)
(* distance of RTGM_getInputDistance() minus one: a node's inputs were all *)
(* created before its outputs.                                             *)
CCTX_getFinalGraph(nodes, streams) ==
    [trs |-> [t \in DOMAIN nodes |->
                LET node == nodes[Len(nodes) + 1 - t]
                IN  [outs |-> node.outs,
                     dist |-> [n \in DOMAIN node.ins |->
                                 node.start - node.ins[n] - 1]]],
     stored |-> RTGM_listBuffersToStore(streams)]

-----------------------------------------------------------------------------
(* The decoder.  Slots count from 0, as in dataInfo[].                     *)

(* inputEndIdx of every transform: transforms take their inputs from       *)
(* consecutive slots.                                                      *)
InputEndIdx(gi) ==
    LET end[t \in 0 .. Len(gi.trs)] ==
            IF t = 0 THEN 0 ELSE end[t - 1] + gi.trs[t].outs
    IN  end

NbRegens(gi) ==
    LET sum[t \in 0 .. Len(gi.trs)] ==
            IF t = 0 THEN 0 ELSE sum[t - 1] + Len(gi.trs[t].dist)
    IN  sum[Len(gi.trs)]

TotalNbStreams(gi) == Len(gi.stored) + NbRegens(gi)

(* The regenerations a chunk asks for: input n of transform t.             *)
Regens(gi) ==
    UNION {{[t |-> t, n |-> n] : n \in DOMAIN gi.trs[t].dist} :
              t \in DOMAIN gi.trs}

RegenIdx(gi, r) == InputEndIdx(gi)[r.t] + gi.trs[r.t].dist[r.n]

RegenSlots(gi) == {RegenIdx(gi, r) : r \in Regens(gi)}

(* The checks of fillStoredStreams() and DCTX_validateNodeStatic().        *)
DecoderAccepts(gi, nbOutputs) ==
    LET total == TotalNbStreams(gi)
        stores == (0 .. total - 1) \ RegenSlots(gi)
    IN  /\ total > 0
        /\ total >= nbOutputs
        /\ total <= StreamLimit
        /\ \A t \in DOMAIN gi.trs :
              InputEndIdx(gi)[t] + nbOutputs <= total
        /\ \A r \in Regens(gi) : RegenIdx(gi, r) < total
        /\ \A r1, r2 \in Regens(gi) :
              RegenIdx(gi, r1) = RegenIdx(gi, r2) => r1 = r2
        /\ Cardinality(stores) = Len(gi.stored)

(* The stored buffer that the decoder puts in slot q: the slots nothing    *)
(* regenerates take the stored buffers in order.                           *)
StoredAt(gi, q) ==
    gi.stored[Cardinality({p \in 0 .. q : p \notin RegenSlots(gi)})]

(* Decoding is the inverse of encoding: the decoder accepts the graph, has *)
(* one slot per stream of the encoder, and slot q holds the stream         *)
(* Len(streams) - q: as a stored buffer, or regenerated by the transform   *)
(* that consumed it, at the same input, from the slots of its own outputs. *)
ChunkDecodes(nodes, streams, nbInputs) ==
    LET gi == CCTX_getFinalGraph(nodes, streams)
        nbNodes == Len(nodes)
        T == Len(streams)
    IN  /\ DecoderAccepts(gi, nbInputs)
        /\ TotalNbStreams(gi) = T
        /\ \A r \in Regens(gi) :
              nodes[nbNodes + 1 - r.t].ins[r.n] = T - RegenIdx(gi, r)
        /\ \A t \in DOMAIN gi.trs :
              InputEndIdx(gi)[t] = T + 1 - nodes[nbNodes + 1 - t].start
        /\ \A q \in 0 .. T - 1 :
              q \notin RegenSlots(gi) => StoredAt(gi, q) = T - q
=============================================================================
