--------------------------- MODULE MCCompressEngine ---------------------------
(* Instances of CompressEngine for TLC.                                    *)
EXTENDS CompressEngine

Shape(out1s, vos, kind) == [out1s |-> out1s, vos |-> vos, kind |-> kind]

OneOutput == {Shape(1, 0, "serial")}
TwoOutputs == {Shape(2, 0, "serial")}
VariableOutputs == {Shape(1, 1, "typed")}
=============================================================================
