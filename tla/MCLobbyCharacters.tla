------------------------- MODULE MCLobbyCharacters -------------------------
(* LobbyCharacters on small instances. *)
EXTENDS LobbyCharacters, TLC

Symmetry == Permutations(Conns) \cup Permutations(Users) \cup Permutations(Names)
=============================================================================
