---------------------------- MODULE MCRingBuffer ----------------------------
(* Model-checking instance of RingBuffer: the constants are in the cfg.    *)
EXTENDS RingBuffer
=============================================================================
