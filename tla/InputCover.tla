------------------------------ MODULE InputCover ------------------------------
(***************************************************************************)
(* What a chunked frame promises: every input goes into the frame piece by *)
(* piece, in order, and a frame is complete only when all of it is there.  *)
(***************************************************************************)
EXTENDS Naturals

CONSTANT Inputs      \* the inputs of the session

VARIABLES
    total,           \* elements of every input
    delivered,       \* elements in the chunks written so far
    complete         \* the frame was reported as a success

coverVars == <<total, delivered, complete>>

CoverInit ==
    /\ total \in [Inputs -> Nat]
    /\ delivered = [n \in Inputs |-> 0]
    /\ complete = FALSE

(* One more chunk: what comes next of every input, possibly nothing.       *)
Deliver ==
    /\ ~ complete
    /\ delivered' \in [Inputs -> Nat]
    /\ \A n \in Inputs :
          delivered[n] <= delivered'[n] /\ delivered'[n] <= total[n]
    /\ UNCHANGED <<total, complete>>

Complete ==
    /\ delivered = total
    /\ complete' = TRUE
    /\ UNCHANGED <<total, delivered>>

CoverNext == Deliver \/ Complete

CoverSpec == CoverInit /\ [][CoverNext]_coverVars
=============================================================================
