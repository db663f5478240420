------------------------------ MODULE MCPlayer ------------------------------
(* Model-checking instance of Player: the constants are in the cfg.        *)
EXTENDS Player
=============================================================================
