--------------------------- MODULE MCOnchainGame ---------------------------
(***************************************************************************)
(* OnchainGame with the symmetry of its requests and its participants.     *)
(***************************************************************************)
EXTENDS OnchainGame, TLC

Symmetry == Permutations(Requests) \cup Permutations(Participants)
=============================================================================
