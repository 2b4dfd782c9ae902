--------------------------- MODULE MCMpcNetwork ---------------------------
(* Instances of MpcNetwork for TLC.  Accounts are ordered numbers, so there  *)
(* is no symmetry between them.                                              *)
EXTENDS MpcNetwork
=============================================================================
