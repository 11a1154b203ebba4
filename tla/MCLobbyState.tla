---------------------------- MODULE MCLobbyState ----------------------------
(* Two accounts, vectors of at most two slots and a clock of two instants. *)
EXTENDS LobbyState, TLC

Symmetry == Permutations(SteamID)
=============================================================================
