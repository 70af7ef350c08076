---------------------------- MODULE MCFrameSession ----------------------------
(* Instances of FrameSession for TLC.                                      *)
EXTENDS FrameSession, TLC

CONSTANTS c1, c2

(* One compressor chooses nothing but the version, one has no checksums.   *)
TwoCompressors ==
    c1 :> [version |-> 22, content |-> "auto", compressed |-> "auto"] @@
    c2 :> [version |-> 0, content |-> "on", compressed |-> "off"]
SmallInputs == {<<>>, <<1>>, <<1, 2>>}
SmallDamage == {<<>>, <<1>>, <<3>>}
=============================================================================
