----------------------------- MODULE MCSegmenter -----------------------------
(* Instances of Segmenter for TLC.                                         *)
EXTENDS Segmenter
=============================================================================
