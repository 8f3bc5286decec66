--------------------------- MODULE MCCaptureRunner ---------------------------
(* Small instances of CaptureRunner for TLC.                               *)
EXTENDS CaptureRunner, TLC

TaskSymmetry == Permutations(Tasks)
==============================================================================
