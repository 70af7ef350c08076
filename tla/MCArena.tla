-------------------------------- MODULE MCArena --------------------------------
(* An instance of Arena for TLC.                                           *)
EXTENDS Arena, SequencesExt

(* All sequences of up to three requests that can be served.               *)
ThreePlans == SeqOf({r \in Sizes : Obtainable(r)}, 3) \ {<<>>}
=============================================================================
