-------------------------- MODULE MCCipherRotation --------------------------
(* Instance of CipherRotation for TLC: in place and to a new environment,    *)
(* with the new cipher given, and in place with neither key given.           *)
EXTENDS CipherRotation, TLC

MCInvocations ==
    {[new_env |-> Absent, old_cipher_key |-> Absent, new_cipher_key |-> New],
     [new_env |-> NewEnv, old_cipher_key |-> Old, new_cipher_key |-> New],
     [new_env |-> Absent, old_cipher_key |-> Absent, new_cipher_key |-> Absent]}

\* No definition orders the users.
Symmetry == Permutations(Users)
=============================================================================
