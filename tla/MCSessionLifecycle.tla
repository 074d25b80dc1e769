------------------------- MODULE MCSessionLifecycle -------------------------
(* SessionLifecycle on small instances. *)
EXTENDS SessionLifecycle, TLC

Symmetry == Permutations(Conns)
=============================================================================
