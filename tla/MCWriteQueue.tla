---------------------------- MODULE MCWriteQueue ----------------------------
(* Model-checking instance of WriteQueue: the constants are in the cfg.    *)
EXTENDS WriteQueue
=============================================================================
