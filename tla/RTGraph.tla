------------------------------- MODULE RTGraph -------------------------------
(***************************************************************************)
(* The runtime graph of one chunk (compress/rtgraphs.c): the nodes that    *)
(* have run, in execution order, and the streams they produced, in         *)
(* creation order.  The operators below are the functions RTGM_xxx; they   *)
(* take the two vectors and return their new values.                       *)
(*                                                                         *)
(* A stream id (RTStreamID) is a position in `streams'.  The C code counts *)
(* from 0 and TLA+ sequences from 1, so rtsid = position - 1; only         *)
(* differences of ids leave the encoder (the distances), so the shift does *)
(* not show in a frame.                                                    *)
(***************************************************************************)
EXTENDS Naturals, Sequences, Functions

CONSTANTS
    NodeLimit,    \* ZL_runtimeNodeLimit(): capacity of the vector of nodes
    StreamLimit   \* ZL_runtimeStreamLimit(): capacity of the vector of streams

ASSUME LimitAssumption == NodeLimit \in Nat /\ StreamLimit \in Nat

(* A stream's data is reduced to what the engine tells apart: "serial"     *)
(* bytes, "typed" (numeric or struct: needs a conversion node before it    *)
(* can be stored), and "tiny": serial and shorter than minStreamSize.      *)
Kind == {"serial", "typed", "tiny"}

Stream == [live : BOOLEAN, toStore : BOOLEAN, rank : Nat, kind : Kind]
Node == [ins : Seq(Nat), start : Nat, out1s : Nat, outs : Nat]

NewStream(kind) ==
    [live |-> TRUE, toStore |-> FALSE, rank |-> 0, kind |-> kind]

(* A slot that RTGM_createNode() reserved and nothing filled.              *)
NoStream == [live |-> FALSE, toStore |-> FALSE, rank |-> 0, kind |-> "serial"]

-----------------------------------------------------------------------------
(* RTGM_refInput(): one stream per input of the session or of the chunk.   *)
RTGM_refInputs(kinds) == [n \in DOMAIN kinds |-> NewStream(kinds[n])]

CanPushNode(nodes) == Len(nodes) < NodeLimit

CanGrowStreams(streams, n) == Len(streams) + n <= StreamLimit

(* RTGM_createNode() on its way to the first failure or to the end: the    *)
(* node is in the vector before the slots of its singletons are reserved.  *)
RTGM_createNode(nodes, streams, ins, out1s, outs) ==
    Append(nodes, [ins |-> ins, start |-> Len(streams) + 1,
                   out1s |-> out1s, outs |-> outs])

(* RTGM_addStream() and the two RTGM_refXxxIntoNewStream(), called `made'  *)
(* times by a transform: singletons fill their reserved slots, variable    *)
(* outputs are appended after them.                                        *)
RTGM_addStreams(streams, out1s, made, kind) ==
    streams \o [i \in 1 .. (IF made > out1s THEN made ELSE out1s) |->
                  IF i <= made THEN NewStream(kind) ELSE NoStream]

RTGM_storeStream(streams, sid) == [streams EXCEPT ![sid].toStore = TRUE]

-----------------------------------------------------------------------------
(* Protection.  A stream handed to a graph of depth d is guarded with rank *)
(* d, and is freed by RTGM_clearRTStream(depth) only at its own depth or   *)
(* above.  Rank 0 means "unprotected".                                     *)
RTGM_guardRTStream(streams, ins, depth) ==
    [s \in DOMAIN streams |->
        IF s \in Range(ins) /\ streams[s].rank = 0
        THEN [streams[s] EXCEPT !.rank = depth]
        ELSE streams[s]]

(* `unsigned' subtraction of one: 0 wraps to a value above every depth.    *)
UINT_MAX == 2147483647
Minus1(n) == IF n = 0 THEN UINT_MAX ELSE n - 1

(* Faulty: rank 0 compares below every depth.                              *)
ClearWithoutUnderflow(streams, ins, depth) ==
    [s \in DOMAIN streams |->
        IF /\ s \in Range(ins)
           /\ ~ streams[s].toStore
           /\ ~ (streams[s].rank < depth)
        THEN [streams[s] EXCEPT !.live = FALSE]
        ELSE streams[s]]

RTGM_clearRTStream(streams, ins, depth) ==
    [s \in DOMAIN streams |->
        IF /\ s \in Range(ins)
           /\ ~ streams[s].toStore
           /\ ~ (Minus1(streams[s].rank) < Minus1(depth))
        THEN [streams[s] EXCEPT !.live = FALSE]
        ELSE streams[s]]

(* Faulty: only the nodes are dropped.                                     *)
StreamsNotReverted(nodes, streams, n) == streams

(* Faulty: one node too many is dropped.                                   *)
NodesBelow(nodes, n) == SubSeq(nodes, 1, n - 1)

(* RTGM_clearNodesFrom(): drops the nodes of rank > n, and with them all   *)
(* the streams created since the first one of them.                        *)

StreamsBeforeNode(nodes, streams, n) ==
    IF Len(nodes) = n THEN streams
    ELSE SubSeq(streams, 1, nodes[n + 1].start - 1)

NodesUpTo(nodes, n) == SubSeq(nodes, 1, n)
=============================================================================
