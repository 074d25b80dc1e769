--------------------------- MODULE MCEventScripts ---------------------------
(* TLC instances of EventScripts. *)
EXTENDS EventScripts, TLC

PlayerSymmetry == Permutations(Players)
=============================================================================
