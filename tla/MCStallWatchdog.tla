-------------------------- MODULE MCStallWatchdog --------------------------
(* Model-checking instance of StallWatchdog: the constants are in the cfgs. *)
EXTENDS StallWatchdog
=============================================================================
