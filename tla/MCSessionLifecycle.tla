------------------------- MODULE MCSessionLifecycle -------------------------
(* Model-checking instance of SessionLifecycle.                            *)
EXTENDS SessionLifecycle, TLC

Symmetry == Permutations(Sessions)
=============================================================================
