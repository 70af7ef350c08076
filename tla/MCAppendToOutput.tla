--------------------------- MODULE MCAppendToOutput ---------------------------
(* Instances of AppendToOutput for TLC.                                    *)
EXTENDS AppendToOutput
=============================================================================
