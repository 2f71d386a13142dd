--------------------------- MODULE MCOffchainGame ---------------------------
(***************************************************************************)
(* OffchainGame with the symmetry of its requests and its users.           *)
(***************************************************************************)
EXTENDS OffchainGame, TLC

Symmetry == Permutations(Requests) \cup Permutations(Users)
=============================================================================
