--------------------------- MODULE MCCaptureManager ---------------------------
(* Small instances of CaptureManager for TLC.                              *)
EXTENDS CaptureManager, TLC
===============================================================================
