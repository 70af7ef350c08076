---------------------------- MODULE MCTrainingPool ----------------------------
(* Instances of TrainingPool for TLC.                                      *)
EXTENDS TrainingPool
=============================================================================
