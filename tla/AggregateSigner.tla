-------------------------- MODULE AggregateSigner --------------------------
(***************************************************************************)
(* SigningState of the recovery service's sign nodes: two maps in memory,   *)
(* committed and revealed, and the three calls of a signing round, commit,  *)
(* reveal and signature_share.                                              *)
(*                                                                          *)
(* A node does not know who calls it or which calls belong together: rounds *)
(* run concurrently, are retried with new commitments, and a call can be    *)
(* repeated.  So a caller here may put together any commitments, and any    *)
(* openings, that nodes have handed out, in lists of any length.  (The      *)
(* leader sends one entry per node, in the order of the nodes.)             *)
(*                                                                          *)
(* Abstracted: a commitment, the ephemeral key it hides and its opening R   *)
(* are one thing, an Id, since the hash commitment binds them; it can only  *)
(* be made by its node, which is what its signature with the node key says. *)
(* A node is its place in the lists, our_index, counted from 1.             *)
(***************************************************************************)
EXTENDS FiniteSets, Naturals

CONSTANTS N,           \* the number of sign nodes
          Keys,        \* signing keys: node keys and users' credentials
          Messages,    \* what is signed
          MaxCommits,  \* bound on the commitments of a node,
          MaxIssued,   \* and of all nodes together
          MaxLength    \* bound on the length of a list

ASSUME SignerAssumption == {N, MaxCommits, MaxIssued, MaxLength} \subseteq Nat

Nodes == 1..N

\* Vectors of members of S.
Lists(S) == UNION {[1..k -> S] : k \in 0..MaxLength}

VARIABLES committed,   \* node -> Committed states, by commitment
          revealed,    \* node -> Revealed states, by opening
          made,        \* node -> number of commitments made
          issued,      \* SignedCommitments handed out
          opened,      \* openings handed out
          shares       \* signature shares handed out

vars == <<committed, revealed, made, issued, opened, shares>>

Ids == [by : Nodes, seq : 1..MaxCommits]

SignedCommitment == [id : Ids, key : Keys]

CommittedState == [id : Ids, key : Keys, msg : Messages]

\* With the commitments the node has verified, and the signing key of each.
RevealedState == [state : CommittedState, commitments : Lists(SignedCommitment)]

\* A share is determined by the ephemeral key, the message, the openings that
\* are summed up and the signing keys that are aggregated.
Share == [id : Ids, msg : Messages, rs : Lists(Ids), keys : Lists(Keys)]

Init ==
    /\ committed = [n \in Nodes |-> {}]
    /\ revealed = [n \in Nodes |-> {}]
    /\ made = [n \in Nodes |-> 0]
    /\ issued = {} /\ opened = {} /\ shares = {}

-----------------------------------------------------------------------------

\* Mutant: the random numbers of get_commitment_with_rng repeat.
GetCommitmentSameRng(n, key, msg) ==
    LET id == [by |-> n, seq |-> 1]
    IN /\ made[n] < MaxCommits /\ Cardinality(issued) < MaxIssued
       /\ made' = [made EXCEPT ![n] = @ + 1]
       /\ committed' = [committed EXCEPT
              ![n] = @ \cup {[id |-> id, key |-> key, msg |-> msg]}]
       /\ issued' = issued \cup {[id |-> id, key |-> key]}
       /\ UNCHANGED <<revealed, opened, shares>>

\* A fresh ephemeral key; the node keeps it, signs the commitment to it, and
\* hands that out.
GetCommitment(n, key, msg) ==
    LET id == [by |-> n, seq |-> made[n] + 1]
    IN /\ made[n] < MaxCommits /\ Cardinality(issued) < MaxIssued
       /\ made' = [made EXCEPT ![n] = @ + 1]
       /\ committed' = [committed EXCEPT
              ![n] = @ \cup {[id |-> id, key |-> key, msg |-> msg]}]
       /\ issued' = issued \cup {[id |-> id, key |-> key]}
       /\ UNCHANGED <<revealed, opened, shares>>

\* Mutant: places are counted from 1 in the lists, too.
OursNext(n, list) == IF n + 1 \in DOMAIN list THEN {list[n + 1]} ELSE {}

\* The entry at our_index, if the list is long enough for it.
Ours(n, list) == IF n \in DOMAIN list THEN {list[n]} ELSE {}

\* Mutant: get instead of remove.
RemoveNothing(states, s) == states

\* The commitment leaves the map before the list is checked: if the check
\* fails it is burnt.
Remove(states, s) == states \ {s}

\* Mutant: the signatures are not checked.
SignedByAnyone(commitments) == TRUE

\* The entries of the list that have a node, as far as either goes (zip), are
\* signed with the node key of their place,
SignedByEveryNode(commitments) ==
    \A m \in Nodes \cap DOMAIN commitments : commitments[m].id.by = m

\* and they are the ones that are kept.
Verified(commitments) == [m \in Nodes \cap DOMAIN commitments |-> commitments[m]]

GetReveal(n, commitments) ==
    \E c \in Ours(n, commitments), s \in committed[n] :
        /\ s.id = c.id
        /\ committed' = [committed EXCEPT ![n] = Remove(@, s)]
        /\ \/ /\ SignedByEveryNode(commitments)
              /\ revealed' = [revealed EXCEPT
                     ![n] = @ \cup {[state |-> s, commitments |-> Verified(commitments)]}]
              /\ opened' = opened \cup {s.id}
           \/ /\ ~ SignedByEveryNode(commitments)
              /\ UNCHANGED <<revealed, opened>>
        /\ UNCHANGED <<made, issued, shares>>

\* Mutant: any opening of the right node will do.
OpensSomeCommitments(commitments, rs) ==
    \A m \in DOMAIN commitments \cap DOMAIN rs : rs[m].by = commitments[m].id.by

\* check_commitment, as far as either list goes: the opening opens the commitment.
OpensCommitments(commitments, rs) ==
    \A m \in DOMAIN commitments \cap DOMAIN rs : rs[m] = commitments[m].id

\* The share of a revealed state over the openings rs: all of rs are summed up,
\* and the keys of all verified commitments aggregated.
Combine(r, rs) ==
    [id |-> r.state.id, msg |-> r.state.msg, rs |-> rs,
     keys |-> [m \in DOMAIN r.commitments |-> r.commitments[m].key]]

\* The state leaves the map before the openings are checked, too.
GetSignatureShare(n, rs) ==
    \E x \in Ours(n, rs), r \in revealed[n] :
        /\ r.state.id = x
        /\ revealed' = [revealed EXCEPT ![n] = @ \ {r}]
        /\ \/ /\ OpensCommitments(r.commitments, rs)
              /\ shares' = shares \cup {Combine(r, rs)}
           \/ /\ ~ OpensCommitments(r.commitments, rs)
              /\ UNCHANGED shares
        /\ UNCHANGED <<committed, made, issued, opened>>

\* SigningState is made anew when a process starts.
Restart(n) ==
    /\ committed[n] \cup revealed[n] # {}
    /\ committed' = [committed EXCEPT ![n] = {}]
    /\ revealed' = [revealed EXCEPT ![n] = {}]
    /\ UNCHANGED <<made, issued, opened, shares>>

Next ==
    \E n \in Nodes :
        \/ \E key \in Keys, msg \in Messages : GetCommitment(n, key, msg)
        \/ \E commitments \in Lists(issued) : GetReveal(n, commitments)
        \/ \E rs \in Lists(opened) : GetSignatureShare(n, rs)
        \/ Restart(n)

Spec == Init /\ [][Next]_vars

-----------------------------------------------------------------------------

\* Every map holds states of its own node, a revealed one with the list it was
\* revealed for, which has its commitment in the place of the node; what was
\* handed out is what the nodes have made.
TypeOK ==
    /\ committed \in [Nodes -> SUBSET CommittedState]
    /\ revealed \in [Nodes -> SUBSET RevealedState]
    /\ made \in [Nodes -> 0..MaxCommits]
    /\ issued \in SUBSET {c \in SignedCommitment : c.id.seq <= made[c.id.by]}
    /\ opened \subseteq {c.id : c \in issued}
    /\ shares \in SUBSET {s \in Share : s.id \in opened}
    /\ \A n \in Nodes :
        /\ \A s \in committed[n] : s.id.by = n /\ [id |-> s.id, key |-> s.key] \in issued
        /\ \A r \in revealed[n] : /\ r.state.id.by = n /\ r.state.id \in opened
                                  /\ n \in DOMAIN r.commitments
                                  /\ r.commitments[n].id = r.state.id

\* An ephemeral key signs once: two shares made with the same one (over
\* different messages, openings or keys) would give the signing key away.
\* get_reveal and get_signature_share both take the state out of its map for
\* this ("this commitment is now burnt").
NonceUsedOnce == \A s, t \in shares : s.id = t.id => s = t

\* Shares of the same openings can be added up: the nodes aggregate the same
\* signing keys, each having seen the very commitments that were opened, in every
\* place of them that both have verified.  (With the leader's lists that is all.)
SharesAgreeOnKeys ==
    \A s, t \in shares : s.rs = t.rs =>
        \A m \in DOMAIN s.keys \cap DOMAIN t.keys \cap DOMAIN s.rs : s.keys[m] = t.keys[m]

\* "This extension ... allows the key to verify that the information they recieves
\* actually comes from a signer": every key a share aggregates is one the node of
\* its place has committed to sign with, whatever lists were put together and
\* however short they are, so that no signature under the key of all nodes is made
\* without a commitment of each.
KeysOfTheirNodes ==
    \A s \in shares : \A m \in DOMAIN s.keys :
        \E c \in issued : c.id.by = m /\ c.key = s.keys[m]

-----------------------------------------------------------------------------
(* The nonces as an outsider may think of them.                             *)

ListIds(commitments) == [m \in DOMAIN commitments |-> commitments[m].id]

absStatus ==
    [x \in Ids |->
        IF x.seq > made[x.by] THEN "fresh"
        ELSE IF \E s \in committed[x.by] : s.id = x THEN "committed"
        ELSE IF \E r \in revealed[x.by] : r.state.id = x THEN "open"
        ELSE IF \E s \in shares : s.id = x THEN "used"
        ELSE "burnt"]

absSessions ==
    [x \in Ids |->
        {ListIds(r.commitments) : r \in {q \in revealed[x.by] : q.state.id = x}}
            \cup {s.rs : s \in {t \in shares : t.id = x}}]

Nonce == INSTANCE OneTimeNonce
    WITH Nonces <- Ids, Sessions <- Lists(Ids),
         status <- absStatus, sessions <- absSessions

\* Whatever is called in whatever order, an ephemeral key is committed to,
\* opened for one list of commitments, and used once, with openings that are those
\* of this list wherever both lists have a place.
ImplementsOneTimeNonce == Nonce!Spec

=============================================================================
