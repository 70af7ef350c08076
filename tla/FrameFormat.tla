------------------------------ MODULE FrameFormat ------------------------------
(***************************************************************************)
(* What compressor and decompressor share of a frame (common/wire_format.h,*)
(* include/openzl/zl_version.h): the format versions at which its layout   *)
(* changes and what its checksums cover.  A checksum is modelled by the    *)
(* data it covers.                                                         *)
(***************************************************************************)
EXTENDS Naturals, Sequences

CONSTANTS NoFrame, None

ZL_CHUNK_VERSION_MIN == 21    \* chunks, end-of-frame marker, header checksum
ZL_COMMENT_VERSION_MIN == 22  \* comments in the frame header

Chunked(version) == version >= ZL_CHUNK_VERSION_MIN

(* Up to version 20 the compressed checksum of the only chunk covers the   *)
(* whole frame, its header (here: the size it declares) included; later    *)
(* each chunk has its own and the header another.                          *)
CompressedSum(version, size, data) ==
    IF Chunked(version) THEN data ELSE <<size>> \o data

(* A chunk: its data, whether the decoders accept it, and its checksums.   *)
Chunks == [data : Seq(Nat), decodes : BOOLEAN, contentSum : Seq(Nat),
           compressedSum : Seq(Nat)]

(* The header of a frame and its content; graph, start and origin are not  *)
(* in it but tell what made it, and of what.                               *)
Frame(version, content, compressed, comment, graph, start, input) ==
    [version |-> version, content |-> content, compressed |-> compressed,
     comment |-> comment, size |-> Len(input),
     headerSum |-> IF Chunked(version) /\ compressed THEN <<Len(input)>> ELSE <<>>,
     body |-> <<>>, eof |-> FALSE, extra |-> FALSE,
     graph |-> graph, start |-> start, origin |-> input]
=============================================================================
