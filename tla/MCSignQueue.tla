---------------------------- MODULE MCSignQueue ----------------------------
(* Instance of SignQueue for TLC.  Accounts are ordered numbers; requests    *)
(* are not told apart.                                                       *)
EXTENDS SignQueue, TLC
=============================================================================
