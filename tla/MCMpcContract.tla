--------------------------- MODULE MCMpcContract ---------------------------
(* Instance of MpcContract for TLC. *)
EXTENDS MpcContract, TLC

Symmetry == Permutations(Accounts) \cup Permutations(PublicKeys)
=============================================================================
