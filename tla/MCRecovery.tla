---------------------------- MODULE MCRecovery -----------------------------
(* Instances of RecoveryService for TLC: two sign nodes, one user, one token. *)
EXTENDS RecoveryService

CONSTANTS n1, n2, t1, k1, k2, u1

CallOf(id, kind, key, action) ==
    [id |-> id, kind |-> kind, token |-> t1, user |-> u1, key |-> key, action |-> action]

NewAccount    == CallOf(1, "new_account", k1, "other")
Sign          == CallOf(2, "sign", k1, "other")
DeleteKey     == CallOf(3, "sign", k1, "delete_recovery_key")
DeleteAccount == CallOf(4, "sign", k1, "delete_account")
ClaimK1       == CallOf(5, "claim_oidc", k1, "other")
ClaimK2       == CallOf(6, "claim_oidc", k2, "other")
Credentials   == CallOf(7, "user_credentials", k1, "other")

AllCalls == {NewAccount, Sign, DeleteKey, DeleteAccount, ClaimK1, ClaimK2, Credentials}

ClaimedByK1 == [t \in {t1} |-> k1]
Unclaimed   == [t \in {t1} |-> None]

\* Two first calls of a user, and a deletion of the key they come to; a deletion
\* of the account; two keys that claim a token, one of which uses it.
SafetyScenarios ==
    {[calls |-> {NewAccount, Sign, DeleteKey}, claims |-> ClaimedByK1],
     [calls |-> {Credentials, DeleteAccount}, claims |-> ClaimedByK1],
     [calls |-> {ClaimK1, ClaimK2, Credentials}, claims |-> Unclaimed]}

\* Two first calls of a user.
RaceCalls == {NewAccount, Sign}
RaceScenarios == {[calls |-> RaceCalls, claims |-> ClaimedByK1]}

=============================================================================
