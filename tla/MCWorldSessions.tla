-------------------------- MODULE MCWorldSessions --------------------------
(* WorldSessions on small instances. *)
EXTENDS WorldSessions, TLC

Symmetry == Permutations(Conns)
=============================================================================
