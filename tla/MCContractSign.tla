--------------------------- MODULE MCContractSign ---------------------------
(* Instance of ContractSign for TLC. *)
EXTENDS ContractSign, TLC

\* Nothing tells calls, payloads or nodes apart.
Symmetry == Permutations(Calls) \cup Permutations(Payloads) \cup Permutations(Nodes)
=============================================================================
