-------------------------- MODULE MCCaptureThread --------------------------
(* Model-checking instance of CaptureThread: the constants are in the cfgs.*)
EXTENDS CaptureThread
=============================================================================
