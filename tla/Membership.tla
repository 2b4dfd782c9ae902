----------------------------- MODULE Membership -----------------------------
(***************************************************************************)
(* What the MPC contract promises its nodes, without votes, candidates or   *)
(* thresholds: there is either no root key, or one key held by one set of   *)
(* members at one epoch.  The members change by one account at a time, the  *)
(* epoch counts the changes, and the key never changes until the contract   *)
(* is initialised again or cleaned.                                         *)
(***************************************************************************)
EXTENDS Naturals

CONSTANTS Accounts,    \* the accounts that may become members
          PublicKeys,  \* the root keys a key generation may produce
          NoKey        \* stands for "there is no root key"

VARIABLES key, epoch, members

absVars == <<key, epoch, members>>

Init == key = NoKey /\ epoch = 0 /\ members = {}

\* A distributed key generation has been accepted.
Establish ==
    /\ key = NoKey
    /\ key' \in PublicKeys
    /\ members' \in (SUBSET Accounts) \ {{}}
    /\ epoch' = 0

\* One account joined or one member left, and the share of every member was
\* refreshed for the next epoch.
Change ==
    /\ key # NoKey
    /\ epoch' = epoch + 1
    /\ \E a \in Accounts : \/ a \notin members /\ members' = members \cup {a}
                           \/ a \in members    /\ members' = members \ {a}
    /\ UNCHANGED key

\* init or clean: the contract forgets the key.
Forget ==
    /\ key # NoKey
    /\ key' = NoKey /\ epoch' = 0 /\ members' = {}

Next == Establish \/ Change \/ Forget

Spec == Init /\ [][Next]_absVars

=============================================================================
