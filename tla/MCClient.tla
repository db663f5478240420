------------------------------ MODULE MCClient ------------------------------
(* Model-checking instance of Client: the constant is in the cfg.          *)
EXTENDS Client
=============================================================================
