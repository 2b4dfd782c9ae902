----------------------- MODULE AggregateSignerProofs -----------------------
(***************************************************************************)
(* Proofs about AggregateSigner, for any number of nodes, any keys and      *)
(* messages, any number of commitments and lists of any length.  The        *)
(* inductive invariant adds to the run's invariants where an ephemeral key  *)
(* can be: each is in one map, or in a share, at most once, and every state *)
(* in a map agrees with what was handed out.                                *)
(***************************************************************************)
EXTENDS AggregateSigner, TLAPS

\* A key that was handed out has been made, and has one signing key.
IssuedOnce ==
    /\ \A c \in issued : c.id.seq <= made[c.id.by]
    /\ \A c, d \in issued : c.id = d.id => c = d

\* Committed states are the node's own, one per commitment handed out.
CommittedOnce ==
    \A n \in Nodes :
        /\ \A s \in committed[n] : s.id.by = n /\ s.id.seq <= made[n]
        /\ \A s, t \in committed[n] : s.id = t.id => s = t

\* Revealed states are the node's own, and the list they were revealed for was
\* handed out, by the node of each place, and has the node's own in its place.
RevealedOnce ==
    \A n \in Nodes :
        /\ \A r \in revealed[n] :
              /\ r.state.id.by = n /\ r.state.id.seq <= made[n]
              /\ DOMAIN r.commitments \subseteq Nodes
              /\ \A m \in DOMAIN r.commitments :
                    r.commitments[m] \in issued /\ r.commitments[m].id.by = m
        /\ \A r, q \in revealed[n] : r.state.id = q.state.id => r = q

\* A share is over commitments that were handed out.
SharesFromIssued ==
    \A s \in shares :
        /\ s.id.seq <= made[s.id.by]
        /\ \A m \in DOMAIN s.keys \cap DOMAIN s.rs :
              [id |-> s.rs[m], key |-> s.keys[m]] \in issued

\* No ephemeral key is in two places.
OnePlace ==
    /\ \A n \in Nodes : \A s \in committed[n], r \in revealed[n] : s.id # r.state.id
    /\ \A n \in Nodes : \A s \in committed[n], t \in shares : s.id # t.id
    /\ \A n \in Nodes : \A r \in revealed[n], t \in shares : r.state.id # t.id

IInv == /\ TypeOK /\ NonceUsedOnce /\ KeysOfTheirNodes
        /\ IssuedOnce /\ CommittedOnce /\ RevealedOnce /\ SharesFromIssued /\ OnePlace

-----------------------------------------------------------------------------
(* Lists.                                                                   *)

\* A list has its places in order, from 1, and members of S in them.
LEMMA ListFacts ==
    ASSUME NEW S, NEW l \in Lists(S)
    PROVE  /\ \E k \in 0..MaxLength : DOMAIN l = 1..k
           /\ \A m \in DOMAIN l : l[m] \in S
  BY DEF Lists

\* A list of members of S is one of members of T, if S is in T.
LEMMA ListsGrow ==
    ASSUME NEW S, NEW T, S \subseteq T
    PROVE  Lists(S) \subseteq Lists(T)
<1> SUFFICES ASSUME NEW l \in Lists(S) PROVE l \in Lists(T)
  OBVIOUS
<1>1. PICK k \in 0..MaxLength : l \in [1..k -> S]
  BY DEF Lists
<1>2. l \in [1..k -> T]
  BY <1>1
<1> QED
  BY <1>2 DEF Lists

\* Any function of the places of a list is a list.
LEMMA ListMap ==
    ASSUME NEW S, NEW T, NEW l \in Lists(S), NEW f, f = [m \in DOMAIN l |-> f[m]],
           \A m \in DOMAIN l : f[m] \in T
    PROVE  f \in Lists(T)
<1>1. PICK k \in 0..MaxLength : l \in [1..k -> S]
  BY DEF Lists
<1>2. f \in [1..k -> T]
  BY <1>1
<1> QED
  BY <1>2 DEF Lists

\* What is verified is the beginning of the list, as far as there are nodes.
LEMMA VerifiedFacts ==
    ASSUME NEW S, NEW l \in Lists(S)
    PROVE  /\ Verified(l) \in Lists(S)
           /\ DOMAIN Verified(l) = Nodes \cap DOMAIN l
           /\ \A m \in DOMAIN Verified(l) : Verified(l)[m] = l[m] /\ l[m] \in S
<1>1. PICK k \in 0..MaxLength : l \in [1..k -> S]
  BY DEF Lists
<1>2. N \in Nat /\ k \in Nat /\ MaxLength \in Nat
  BY SignerAssumption
<1>3. PICK j \in 0..MaxLength : Nodes \cap DOMAIN l = 1..j
  <2>1. CASE N <= k
    BY <1>1, <1>2, <2>1 DEF Nodes
  <2>2. CASE k < N
    BY <1>1, <1>2, <2>2 DEF Nodes
  <2> QED
    BY <1>2, <2>1, <2>2
<1>4. /\ DOMAIN Verified(l) = Nodes \cap DOMAIN l
      /\ \A m \in DOMAIN Verified(l) : Verified(l)[m] = l[m] /\ l[m] \in S
  BY <1>1 DEF Verified
<1>5. Verified(l) \in [1..j -> S]
  BY <1>1, <1>3, <1>4 DEF Verified
<1> QED
  BY <1>4, <1>5 DEF Lists

-----------------------------------------------------------------------------
(* Each call keeps the invariant.                                           *)

\* commit: the new ephemeral key has a number no state has yet.
LEMMA CommitmentStep ==
    ASSUME IInv, NEW n \in Nodes, NEW key \in Keys, NEW msg \in Messages,
           GetCommitment(n, key, msg)
    PROVE  IInv'
<1> DEFINE id == [by |-> n, seq |-> made[n] + 1]
           s == [id |-> id, key |-> key, msg |-> msg]
           c == [id |-> id, key |-> key]
<1>1. /\ made[n] \in Nat /\ made[n] + 1 \in 1..MaxCommits
      /\ id \in Ids /\ s \in CommittedState /\ c \in SignedCommitment
  BY SignerAssumption DEF IInv, TypeOK, GetCommitment, Ids, CommittedState, SignedCommitment
<1>2. /\ made' = [made EXCEPT ![n] = made[n] + 1]
      /\ committed' = [committed EXCEPT ![n] = committed[n] \cup {s}]
      /\ issued' = issued \cup {c}
      /\ revealed' = revealed /\ opened' = opened /\ shares' = shares
  BY DEF GetCommitment
<1>4. \A m \in Nodes : made'[m] \in Nat /\ made[m] \in Nat /\ made[m] <= made'[m]
  BY <1>1, <1>2 DEF IInv, TypeOK
<1>5. \A x \in Ids : x.by \in Nodes /\ x.seq \in Nat
  BY DEF Ids
<1>3. TypeOK'
  <2>1. /\ committed' \in [Nodes -> SUBSET CommittedState]
        /\ revealed' \in [Nodes -> SUBSET RevealedState]
        /\ made' \in [Nodes -> 0..MaxCommits]
    BY <1>1, <1>2 DEF IInv, TypeOK
  <2>2. issued' \in SUBSET {e \in SignedCommitment : e.id.seq <= made'[e.id.by]}
    <3>1. \A e \in issued : e \in SignedCommitment /\ e.id.seq <= made'[e.id.by]
      BY <1>4, <1>5 DEF IInv, TypeOK, SignedCommitment
    <3>2. c.id.seq <= made'[c.id.by]
      BY <1>1, <1>2 DEF IInv, TypeOK
    <3> QED
      BY <1>1, <1>2, <3>1, <3>2
  <2>3. /\ opened' \subseteq {e.id : e \in issued'}
        /\ shares' \in SUBSET {e \in Share : e.id \in opened'}
    BY <1>2 DEF IInv, TypeOK
  <2>4. \A m \in Nodes : \A e \in committed'[m] :
          e.id.by = m /\ [id |-> e.id, key |-> e.key] \in issued'
    <3>1. \A m \in Nodes : committed'[m] = IF m = n THEN committed[n] \cup {s} ELSE committed[m]
      BY <1>2 DEF IInv, TypeOK
    <3>2. s.id.by = n /\ [id |-> s.id, key |-> s.key] \in issued'
      BY <1>2
    <3>3. \A m \in Nodes : \A e \in committed[m] :
            e.id.by = m /\ [id |-> e.id, key |-> e.key] \in issued'
      BY <1>2 DEF IInv, TypeOK
    <3> SUFFICES ASSUME NEW m \in Nodes, NEW e \in committed'[m]
                 PROVE  e.id.by = m /\ [id |-> e.id, key |-> e.key] \in issued'
      OBVIOUS
    <3>4. CASE e \in committed[m]
      BY <3>3, <3>4
    <3>5. CASE m = n /\ e = s
      BY <3>2, <3>5
    <3> QED
      BY <3>1, <3>4, <3>5
  <2>5. \A m \in Nodes : \A r \in revealed'[m] :
          /\ r.state.id.by = m /\ r.state.id \in opened'
          /\ m \in DOMAIN r.commitments /\ r.commitments[m].id = r.state.id
    BY <1>2 DEF IInv, TypeOK
  <2> QED
    BY <2>1, <2>2, <2>3, <2>4, <2>5 DEF TypeOK
<1>6. IssuedOnce'
  <2>1. \A d \in issued : d.id \in Ids /\ d.id # id /\ d.id.seq <= made'[d.id.by]
    BY <1>1, <1>4, <1>5 DEF IInv, TypeOK, IssuedOnce, SignedCommitment
  <2>2. c.id.seq <= made'[c.id.by]
    BY <1>1, <1>2 DEF IInv, TypeOK
  <2> QED
    BY <1>2, <2>1, <2>2 DEF IInv, IssuedOnce
<1>7. CommittedOnce'
  <2>1. \A m \in Nodes : \A t \in committed[m] : t.id \in Ids /\ t.id # id /\ t.id.seq <= made'[m]
    BY <1>1, <1>4, <1>5 DEF IInv, TypeOK, CommittedOnce, CommittedState
  <2>2. s.id = id /\ id.by = n /\ id.seq <= made'[n]
    BY <1>1, <1>2 DEF IInv, TypeOK
  <2>3. \A m \in Nodes : committed'[m] = IF m = n THEN committed[n] \cup {s} ELSE committed[m]
    BY <1>2 DEF IInv, TypeOK
  <2> QED
    BY <2>1, <2>2, <2>3 DEF IInv, CommittedOnce
<1>8. RevealedOnce'
  <2>1. \A m \in Nodes : \A r \in revealed[m] :
          r.state.id \in Ids /\ r.state.id.seq <= made'[m]
    BY <1>1, <1>2, <1>4, <1>5 DEF IInv, TypeOK, RevealedOnce, RevealedState, CommittedState
  <2> QED
    BY <1>2, <2>1 DEF IInv, RevealedOnce
<1>9. SharesFromIssued'
  <2>1. \A t \in shares : t.id \in Ids /\ t.id.seq <= made'[t.id.by]
    BY <1>1, <1>4, <1>5 DEF IInv, TypeOK, SharesFromIssued, Share
  <2> QED
    BY <1>2, <2>1 DEF IInv, SharesFromIssued
<1>10. OnePlace'
  <2>1. \A r \in revealed[n] : r.state.id # id
    BY <1>1, <1>5 DEF IInv, TypeOK, RevealedOnce, RevealedState, CommittedState
  <2>2. \A t \in shares : t.id # id
    BY <1>1, <1>5 DEF IInv, TypeOK, SharesFromIssued, Share
  <2>3. \A m \in Nodes : committed'[m] = IF m = n THEN committed[n] \cup {s} ELSE committed[m]
    BY <1>2 DEF IInv, TypeOK
  <2> QED
    BY <1>2, <2>1, <2>2, <2>3 DEF IInv, OnePlace
<1>11. NonceUsedOnce' /\ KeysOfTheirNodes'
  BY <1>2 DEF IInv, NonceUsedOnce, KeysOfTheirNodes
<1> QED
  BY <1>3, <1>6, <1>7, <1>8, <1>9, <1>10, <1>11 DEF IInv

\* reveal: the state moves from one map to the other, or disappears.
LEMMA RevealStep ==
    ASSUME IInv, NEW n \in Nodes, NEW commitments \in Lists(issued),
           GetReveal(n, commitments)
    PROVE  IInv'
<1>1. PICK s \in committed[n] :
        /\ n \in DOMAIN commitments /\ s.id = commitments[n].id
        /\ committed' = [committed EXCEPT ![n] = committed[n] \ {s}]
        /\ \/ /\ SignedByEveryNode(commitments)
              /\ revealed' = [revealed EXCEPT
                     ![n] = revealed[n] \cup {[state |-> s, commitments |-> Verified(commitments)]}]
              /\ opened' = opened \cup {s.id}
           \/ UNCHANGED <<revealed, opened>>
        /\ UNCHANGED <<made, issued, shares>>
  BY DEF GetReveal, Remove, Ours
<1> DEFINE v == Verified(commitments)
           r == [state |-> s, commitments |-> v]
<1>2. s \in CommittedState /\ s.id \in Ids /\ r \in RevealedState
  <2>1. issued \subseteq SignedCommitment /\ s \in CommittedState
    BY DEF IInv, TypeOK
  <2>2. v \in Lists(SignedCommitment)
    BY <2>1, VerifiedFacts, ListsGrow
  <2> QED
    BY <2>1, <2>2 DEF CommittedState, RevealedState
<1>3. \A m \in Nodes : committed'[m] = IF m = n THEN committed[n] \ {s} ELSE committed[m]
  BY <1>1 DEF IInv, TypeOK
<1>4. CommittedOnce' /\ committed' \in [Nodes -> SUBSET CommittedState]
      /\ \A m \in Nodes : \A e \in committed'[m] :
            e.id.by = m /\ [id |-> e.id, key |-> e.key] \in issued'
  BY <1>1, <1>3 DEF IInv, TypeOK, CommittedOnce
<1>5. NonceUsedOnce' /\ KeysOfTheirNodes' /\ IssuedOnce' /\ SharesFromIssued'
  BY <1>1 DEF IInv, NonceUsedOnce, KeysOfTheirNodes, IssuedOnce, SharesFromIssued
<1>6. s.id.by = n /\ s.id.seq <= made[n] /\ (\A t \in shares : t.id # s.id)
  BY <1>1 DEF IInv, CommittedOnce, OnePlace
<1>7. /\ \A q \in revealed[n] : q.state.id # s.id
      /\ \A t \in committed[n] \ {s} : t.id # s.id
  BY DEF IInv, CommittedOnce, OnePlace
<1>8. CASE /\ SignedByEveryNode(commitments)
           /\ revealed' = [revealed EXCEPT ![n] = revealed[n] \cup {r}]
           /\ opened' = opened \cup {s.id}
  <2>1. \A m \in Nodes : revealed'[m] = IF m = n THEN revealed[n] \cup {r} ELSE revealed[m]
    BY <1>8 DEF IInv, TypeOK
  <2>2. /\ DOMAIN v = Nodes \cap DOMAIN commitments
        /\ \A m \in DOMAIN v : v[m] = commitments[m] /\ v[m] \in issued /\ v[m].id.by = m
    BY <1>8, VerifiedFacts DEF SignedByEveryNode
  <2>3. r.state = s /\ r.commitments = v /\ n \in DOMAIN v /\ v[n].id = s.id
    BY <1>1, <2>2
  <2>4. RevealedOnce'
    BY <1>1, <1>6, <1>7, <2>1, <2>2, <2>3 DEF IInv, RevealedOnce
  <2>5. OnePlace'
    BY <1>1, <1>3, <1>6, <1>7, <2>1, <2>3 DEF IInv, OnePlace
  <2>6. TypeOK'
    <3>1. revealed' \in [Nodes -> SUBSET RevealedState]
      BY <1>2, <1>8 DEF IInv, TypeOK
    <3>2. opened' \subseteq {c.id : c \in issued'}
      BY <1>1, <1>8, <2>2, <2>3 DEF IInv, TypeOK
    <3>3. \A m \in Nodes : \A q \in revealed'[m] :
            /\ q.state.id.by = m /\ q.state.id \in opened'
            /\ m \in DOMAIN q.commitments /\ q.commitments[m].id = q.state.id
      BY <1>6, <1>8, <2>1, <2>3 DEF IInv, TypeOK
    <3> QED
      BY <1>1, <1>4, <1>8, <3>1, <3>2, <3>3 DEF IInv, TypeOK
  <2> QED
    BY <1>4, <1>5, <2>4, <2>5, <2>6 DEF IInv
<1>9. CASE UNCHANGED <<revealed, opened>>
  <2>1. RevealedOnce' /\ OnePlace'
    BY <1>1, <1>3, <1>9 DEF IInv, RevealedOnce, OnePlace
  <2>2. TypeOK'
    BY <1>1, <1>4, <1>9 DEF IInv, TypeOK
  <2> QED
    BY <1>4, <1>5, <2>1, <2>2 DEF IInv
<1> QED
  BY <1>1, <1>8, <1>9

\* signature_share: the state leaves its map, and a share is made of it if the
\* openings are the ones of its list.
LEMMA ShareStep ==
    ASSUME IInv, NEW n \in Nodes, NEW rs \in Lists(opened),
           GetSignatureShare(n, rs)
    PROVE  IInv'
<1>1. PICK r \in revealed[n] :
        /\ revealed' = [revealed EXCEPT ![n] = revealed[n] \ {r}]
        /\ \/ /\ OpensCommitments(r.commitments, rs)
              /\ shares' = shares \cup {Combine(r, rs)}
           \/ UNCHANGED shares
        /\ UNCHANGED <<committed, made, issued, opened>>
  BY DEF GetSignatureShare, Ours
<1>2. /\ r \in RevealedState /\ r.state \in CommittedState /\ r.state.id \in Ids
      /\ r.commitments \in Lists(SignedCommitment) /\ r.state.id \in opened
  BY DEF IInv, TypeOK, RevealedState, CommittedState
<1>3. \A m \in Nodes : revealed'[m] = IF m = n THEN revealed[n] \ {r} ELSE revealed[m]
  BY <1>1 DEF IInv, TypeOK
<1>4. IssuedOnce' /\ CommittedOnce' /\ RevealedOnce'
  BY <1>1, <1>3 DEF IInv, IssuedOnce, CommittedOnce, RevealedOnce
<1>5. /\ r.state.id.by = n /\ r.state.id.seq <= made[n]
      /\ \A m \in DOMAIN r.commitments :
            r.commitments[m] \in issued /\ r.commitments[m].id.by = m
      /\ \A q \in revealed[n] \ {r} : q.state.id # r.state.id
  BY DEF IInv, RevealedOnce
<1>6. /\ \A t \in shares : t.id # r.state.id
      /\ \A s \in committed[n] : s.id # r.state.id
  BY DEF IInv, OnePlace
<1>7. CASE OpensCommitments(r.commitments, rs) /\ shares' = shares \cup {Combine(r, rs)}
  <2> DEFINE t == Combine(r, rs)
             k == [m \in DOMAIN r.commitments |-> r.commitments[m].key]
  <2>1. t.id = r.state.id /\ t.rs = rs /\ t.keys = k
    BY DEF Combine
  <2>2. TypeOK'
    <3>1. rs \in Lists(Ids)
      <4>1. opened \subseteq Ids
        BY DEF IInv, TypeOK, SignedCommitment
      <4> QED
        BY <4>1, ListsGrow
    <3>2. k \in Lists(Keys)
      <4>0. \A m \in DOMAIN r.commitments : r.commitments[m] \in SignedCommitment
        BY <1>2, ListFacts
      <4>1. \A m \in DOMAIN r.commitments : k[m] \in Keys
        BY <4>0 DEF SignedCommitment
      <4> QED
        BY <1>2, <4>1, ListMap
    <3>3. t \in Share /\ t.id \in opened
      BY <1>2, <2>1, <3>1, <3>2 DEF Combine, Share, CommittedState
    <3>4. shares' \in SUBSET {e \in Share : e.id \in opened'}
      BY <1>1, <1>7, <3>3 DEF IInv, TypeOK
    <3>5. revealed' \in [Nodes -> SUBSET RevealedState]
      BY <1>1 DEF IInv, TypeOK
    <3>6. \A m \in Nodes : \A q \in revealed'[m] :
            /\ q.state.id.by = m /\ q.state.id \in opened'
            /\ m \in DOMAIN q.commitments /\ q.commitments[m].id = q.state.id
      BY <1>1, <1>3 DEF IInv, TypeOK
    <3> QED
      BY <1>1, <3>4, <3>5, <3>6 DEF IInv, TypeOK
  <2>3. NonceUsedOnce'
    BY <1>6, <1>7, <2>1 DEF IInv, NonceUsedOnce
  <2>4. KeysOfTheirNodes'
    <3>1. \A m \in DOMAIN t.keys : \E c \in issued : c.id.by = m /\ c.key = t.keys[m]
      BY <1>5, <2>1
    <3> QED
      BY <1>1, <1>7, <3>1 DEF IInv, KeysOfTheirNodes
  <2>5. \A m \in DOMAIN t.keys \cap DOMAIN t.rs :
          [id |-> t.rs[m], key |-> t.keys[m]] \in issued
    <3> SUFFICES ASSUME NEW m \in DOMAIN t.keys \cap DOMAIN t.rs
                 PROVE  [id |-> t.rs[m], key |-> t.keys[m]] \in issued
      OBVIOUS
    <3>1. m \in DOMAIN r.commitments /\ m \in DOMAIN rs
      BY <2>1
    <3>2. r.commitments[m] \in SignedCommitment /\ r.commitments[m] \in issued
      BY <1>2, <1>5, <3>1, ListFacts
    <3>3. t.rs[m] = r.commitments[m].id /\ t.keys[m] = r.commitments[m].key
      BY <1>7, <2>1, <3>1 DEF OpensCommitments
    <3>4. [id |-> t.rs[m], key |-> t.keys[m]] = r.commitments[m]
      BY <3>2, <3>3 DEF SignedCommitment
    <3> QED
      BY <3>2, <3>4
  <2>6. t.id.seq <= made[t.id.by]
    BY <1>5, <2>1
  <2>7. SharesFromIssued'
    BY <1>1, <1>7, <2>5, <2>6 DEF IInv, SharesFromIssued
  <2>8. \A m \in Nodes : \A s \in committed[m] : s.id # t.id
    BY <1>5, <1>6, <2>1 DEF IInv, CommittedOnce
  <2>9. \A m \in Nodes : \A q \in revealed'[m] : q.state.id # t.id
    BY <1>3, <1>5, <2>1 DEF IInv, RevealedOnce
  <2>10. OnePlace'
    BY <1>1, <1>3, <1>7, <2>8, <2>9 DEF IInv, OnePlace
  <2> QED
    BY <1>4, <2>2, <2>3, <2>4, <2>7, <2>10 DEF IInv
<1>8. CASE UNCHANGED shares
  <2>1. NonceUsedOnce' /\ KeysOfTheirNodes'
    BY <1>1, <1>8 DEF IInv, NonceUsedOnce, KeysOfTheirNodes
  <2>2. SharesFromIssued' /\ OnePlace'
    BY <1>1, <1>3, <1>8 DEF IInv, SharesFromIssued, OnePlace
  <2>3. TypeOK'
    BY <1>1, <1>3, <1>8 DEF IInv, TypeOK
  <2> QED
    BY <1>4, <2>1, <2>2, <2>3 DEF IInv
<1> QED
  BY <1>1, <1>7, <1>8

\* A restart only takes states away.
LEMMA RestartStep ==
    ASSUME IInv, NEW n \in Nodes, Restart(n)
    PROVE  IInv'
<1>1. /\ \A m \in Nodes : committed'[m] \subseteq committed[m] /\ revealed'[m] \subseteq revealed[m]
      /\ UNCHANGED <<made, issued, opened, shares>>
  BY DEF Restart, IInv, TypeOK
<1>2. TypeOK'
  BY DEF Restart, IInv, TypeOK
<1>3. NonceUsedOnce' /\ KeysOfTheirNodes' /\ IssuedOnce' /\ SharesFromIssued'
  BY <1>1 DEF IInv, NonceUsedOnce, KeysOfTheirNodes, IssuedOnce, SharesFromIssued
<1>4. CommittedOnce'
  BY <1>1 DEF IInv, CommittedOnce
<1>5. RevealedOnce'
  BY <1>1 DEF IInv, RevealedOnce
<1>6. OnePlace'
  BY <1>1 DEF IInv, OnePlace
<1> QED
  BY <1>2, <1>3, <1>4, <1>5, <1>6 DEF IInv

\* One case for each action.
LEMMA InvStep == IInv /\ [Next]_vars => IInv'
<1> SUFFICES ASSUME IInv, [Next]_vars PROVE IInv'
  OBVIOUS
<1>1. CASE UNCHANGED vars
  <2>1. TypeOK' /\ NonceUsedOnce' /\ KeysOfTheirNodes'
    BY <1>1 DEF vars, IInv, TypeOK, NonceUsedOnce, KeysOfTheirNodes
  <2>2. IssuedOnce' /\ CommittedOnce' /\ SharesFromIssued'
    BY <1>1 DEF vars, IInv, IssuedOnce, CommittedOnce, SharesFromIssued
  <2>3. RevealedOnce' /\ OnePlace'
    BY <1>1 DEF vars, IInv, RevealedOnce, OnePlace
  <2> QED
    BY <2>1, <2>2, <2>3 DEF IInv
<1>2. CASE Next
  BY <1>2, CommitmentStep, RevealStep, ShareStep, RestartStep DEF Next
<1> QED
  BY <1>1, <1>2

\* No node has committed to anything yet.
LEMMA InvInit == Init => IInv
  BY SignerAssumption
  DEF Init, IInv, TypeOK, NonceUsedOnce, KeysOfTheirNodes, IssuedOnce,
      CommittedOnce, RevealedOnce, SharesFromIssued, OnePlace

\* Two shares over the same openings are over the same commitments, as far as
\* both lists go, and a commitment was handed out with one signing key.
LEMMA InvAgrees == IInv => SharesAgreeOnKeys
<1> SUFFICES ASSUME IInv, NEW s \in shares, NEW t \in shares, s.rs = t.rs,
                    NEW m \in DOMAIN s.keys \cap DOMAIN t.keys \cap DOMAIN s.rs
             PROVE  s.keys[m] = t.keys[m]
  BY DEF SharesAgreeOnKeys
<1> DEFINE c == [id |-> s.rs[m], key |-> s.keys[m]]
           d == [id |-> t.rs[m], key |-> t.keys[m]]
<1>1. c \in issued /\ d \in issued /\ c.id = d.id
  BY DEF IInv, SharesFromIssued
<1>2. c = d
  BY <1>1 DEF IInv, IssuedOnce
<1>3. c.key = d.key
  BY <1>2
<1> QED
  BY <1>3

\* An ephemeral key is used for at most one share (NonceUsedOnce), shares over
\* the same openings aggregate the same keys where both have verified one
\* (SharesAgreeOnKeys), and every key that is aggregated is one its node has
\* committed to (KeysOfTheirNodes), whatever the order and the origin of the calls
\* and the lengths of their lists.
THEOREM SigningSafety ==
    Spec => [](TypeOK /\ NonceUsedOnce /\ SharesAgreeOnKeys /\ KeysOfTheirNodes)
<1>1. IInv => TypeOK /\ NonceUsedOnce /\ SharesAgreeOnKeys /\ KeysOfTheirNodes
  BY InvAgrees DEF IInv
<1> QED
  BY <1>1, InvInit, InvStep, PTL DEF Spec

\* The maps of a sign node hold states of its own commitments only, which it has
\* handed out, revealed ones with a list that has the commitment in its place,
\* and a share is of an ephemeral key that was opened before (TypeOK).
THEOREM SigningTypes == Spec => []TypeOK
  BY SigningSafety, PTL

\* Two shares computed over the same openings aggregate the same signing key in
\* every place both have verified (SharesAgreeOnKeys), so that shares of lists of
\* one length can be added up.
THEOREM SharesAddUp == Spec => []SharesAgreeOnKeys
  BY SigningSafety, PTL

\* No share aggregates a key that the sign node of its place has not committed to
\* sign with (KeysOfTheirNodes): the check of signed_by_every_node holds for every
\* list a caller may put together.
THEOREM NoForeignKeys == Spec => []KeysOfTheirNodes
  BY SigningSafety, PTL

-----------------------------------------------------------------------------
(* Each call is one step of OneTimeNonce.                                   *)

IsMade(x) == ~ (x.seq > made[x.by])

IsCommitted(x) == \E s \in committed[x.by] : s.id = x

IsOpen(x) == \E r \in revealed[x.by] : r.state.id = x

IsUsed(x) == \E s \in shares : s.id = x

StatusOf(x) == IF ~ IsMade(x) THEN "fresh"
               ELSE IF IsCommitted(x) THEN "committed"
               ELSE IF IsOpen(x) THEN "open"
               ELSE IF IsUsed(x) THEN "used" ELSE "burnt"

OpenFor(x) == {ListIds(r.commitments) : r \in {q \in revealed[x.by] : q.state.id = x}}

UsedFor(x) == {s.rs : s \in {t \in shares : t.id = x}}

\* The mapping, for one ephemeral key.
LEMMA AbsIs ==
    /\ absStatus = [x \in Ids |-> StatusOf(x)]
    /\ absSessions = [x \in Ids |-> OpenFor(x) \cup UsedFor(x)]
    /\ absStatus' = [x \in Ids |-> StatusOf(x)']
    /\ absSessions' = [x \in Ids |-> (OpenFor(x) \cup UsedFor(x))']
  BY DEF absStatus, absSessions, StatusOf, IsMade, IsCommitted, IsOpen, IsUsed, OpenFor, UsedFor

\* What is in one place is in no other, and has been made.
LEMMA PlacesAreDisjoint ==
    ASSUME IInv, NEW x \in Ids
    PROVE  /\ IsCommitted(x) => IsMade(x) /\ ~ IsOpen(x) /\ ~ IsUsed(x)
           /\ IsOpen(x) => IsMade(x) /\ ~ IsUsed(x)
           /\ IsUsed(x) => IsMade(x)
<1>1. x.by \in Nodes /\ x.seq \in Nat /\ made[x.by] \in Nat
  BY DEF Ids, IInv, TypeOK
<1> QED
  BY <1>1 DEF IsMade, IsCommitted, IsOpen, IsUsed, IInv, OnePlace, CommittedOnce,
              RevealedOnce, SharesFromIssued

\* commit is Commit of the new ephemeral key.
LEMMA CommitmentRefines ==
    ASSUME IInv, NEW n \in Nodes, NEW key \in Keys, NEW msg \in Messages,
           GetCommitment(n, key, msg)
    PROVE  Nonce!Next
<1>0. PICK id \in Ids : id = [by |-> n, seq |-> made[n] + 1]
  <2>1. made[n] + 1 \in 1..MaxCommits
    BY SignerAssumption DEF IInv, TypeOK, GetCommitment
  <2>2. [by |-> n, seq |-> made[n] + 1] \in Ids
    BY <2>1 DEF Ids
  <2> QED
    BY <2>2
<1> DEFINE s == [id |-> id, key |-> key, msg |-> msg]
<1>1. made[n] \in Nat /\ id.by = n /\ id.seq = made[n] + 1
  BY <1>0 DEF IInv, TypeOK
<1>2. /\ made' = [made EXCEPT ![n] = made[n] + 1]
      /\ committed' = [committed EXCEPT ![n] = committed[n] \cup {s}]
      /\ revealed' = revealed /\ shares' = shares
  BY <1>0 DEF GetCommitment
<1>3. ~ IsMade(id) /\ IsMade(id)' /\ IsCommitted(id)'
  <2>1. made'[n] = made[n] + 1 /\ s \in committed'[n] /\ s.id = id
    BY <1>2 DEF IInv, TypeOK
  <2>2. ~ IsMade(id) /\ IsMade(id)'
    BY <1>1, <2>1 DEF IsMade
  <2>3. IsCommitted(id)'
    BY <1>1, <2>1 DEF IsCommitted
  <2> QED
    BY <2>2, <2>3
<1>4. ASSUME NEW y \in Ids, y # id
      PROVE  /\ (IsMade(y)' <=> IsMade(y)) /\ (IsCommitted(y)' <=> IsCommitted(y))
             /\ (IsOpen(y)' <=> IsOpen(y)) /\ (IsUsed(y)' <=> IsUsed(y))
  <2>1. y.by \in Nodes /\ y.seq \in Nat /\ (y.by = n => y.seq # made[n] + 1)
    BY <1>4, <1>1 DEF Ids
  <2>2. IsMade(y)' <=> IsMade(y)
    BY <1>1, <1>2, <2>1 DEF IsMade, IInv, TypeOK
  <2>3. IsCommitted(y)' <=> IsCommitted(y)
    BY <1>2, <1>4, <2>1 DEF IsCommitted, IInv, TypeOK
  <2> QED
    BY <1>2, <2>2, <2>3 DEF IsOpen, IsUsed
<1>5. absStatus' = [absStatus EXCEPT ![id] = "committed"]
  <2>1. \A y \in Ids : StatusOf(y)' = IF y = id THEN "committed" ELSE StatusOf(y)
    BY <1>3, <1>4 DEF StatusOf
  <2> QED
    BY <1>1, <2>1, AbsIs
<1>6. absSessions' = absSessions
  BY <1>2, AbsIs DEF OpenFor, UsedFor
<1>7. absStatus[id] = "fresh"
  BY <1>1, <1>3, AbsIs DEF StatusOf
<1> QED
  BY <1>1, <1>5, <1>6, <1>7 DEF Nonce!Next, Nonce!Commit

\* reveal is Open of the node's commitment for the list, or burns it.
LEMMA RevealRefines ==
    ASSUME IInv, NEW n \in Nodes, NEW commitments \in Lists(issued),
           GetReveal(n, commitments)
    PROVE  Nonce!Next
<1>1. PICK s \in committed[n] :
        /\ n \in DOMAIN commitments /\ s.id = commitments[n].id
        /\ committed' = [committed EXCEPT ![n] = committed[n] \ {s}]
        /\ \/ revealed' = [revealed EXCEPT
                 ![n] = revealed[n] \cup {[state |-> s, commitments |-> Verified(commitments)]}]
           \/ UNCHANGED revealed
        /\ UNCHANGED <<made, shares>>
  BY DEF GetReveal, Remove, Ours
<1>2. PICK x \in Ids : x = s.id
  BY DEF IInv, TypeOK, CommittedState
<1>3. /\ x.by = n /\ IsCommitted(x)
      /\ \A t \in committed[n] \ {s} : t.id # x
      /\ \A q \in revealed[n] : q.state.id # x
      /\ \A t \in shares : t.id # x
  BY <1>2 DEF IsCommitted, IInv, CommittedOnce, OnePlace
<1>4. \A y \in Ids : y.by \in Nodes
  BY DEF Ids
<1>5. /\ ~ IsCommitted(x)'
      /\ \A y \in Ids : y # x => (IsCommitted(y)' <=> IsCommitted(y))
  <2>1. \A m \in Nodes : committed'[m] = IF m = n THEN committed[n] \ {s} ELSE committed[m]
    BY <1>1 DEF IInv, TypeOK
  <2> QED
    BY <1>2, <1>3, <1>4, <2>1 DEF IsCommitted
<1>6. /\ \A y \in Ids : (IsMade(y)' <=> IsMade(y)) /\ (IsUsed(y)' <=> IsUsed(y))
      /\ \A y \in Ids : UsedFor(y)' = UsedFor(y)
  BY <1>1 DEF IsMade, IsUsed, UsedFor
<1>7. /\ IsMade(x) /\ ~ IsOpen(x) /\ ~ IsUsed(x) /\ StatusOf(x) = "committed"
      /\ OpenFor(x) = {} /\ UsedFor(x) = {}
  <2>1. IsMade(x) /\ ~ IsOpen(x) /\ ~ IsUsed(x)
    BY <1>3, PlacesAreDisjoint
  <2>2. OpenFor(x) = {} /\ UsedFor(x) = {}
    BY <1>3 DEF OpenFor, UsedFor
  <2> QED
    BY <1>3, <2>1, <2>2 DEF StatusOf
<1>8. CASE revealed' = [revealed EXCEPT
             ![n] = revealed[n] \cup {[state |-> s, commitments |-> Verified(commitments)]}]
  <2> DEFINE r == [state |-> s, commitments |-> Verified(commitments)]
             l == ListIds(Verified(commitments))
  <2>1. \A m \in Nodes : revealed'[m] = IF m = n THEN revealed[n] \cup {r} ELSE revealed[m]
    BY <1>8 DEF IInv, TypeOK
  <2>2. /\ IsOpen(x)'
        /\ \A y \in Ids : y # x => (IsOpen(y)' <=> IsOpen(y))
    <3>1. r \in revealed'[x.by] /\ r.state.id = x
      BY <1>2, <1>3, <2>1
    <3>2. \A y \in Ids : y # x => \A q \in revealed'[y.by] : q.state.id = y => q \in revealed[y.by]
      BY <1>2, <1>4, <2>1
    <3>3. \A y \in Ids : \A q \in revealed[y.by] : q \in revealed'[y.by]
      BY <1>4, <2>1
    <3> QED
      BY <3>1, <3>2, <3>3 DEF IsOpen
  <2>3. /\ OpenFor(x)' = {l}
        /\ \A y \in Ids : y # x => OpenFor(y)' = OpenFor(y)
    <3>1. {q \in revealed'[x.by] : q.state.id = x} = {r}
      BY <1>2, <1>3, <2>1
    <3>2. \A y \in Ids : y # x =>
             {q \in revealed'[y.by] : q.state.id = y} = {q \in revealed[y.by] : q.state.id = y}
      BY <1>2, <1>4, <2>1
    <3>3. OpenFor(x)' = {ListIds(r.commitments)}
      BY <3>1 DEF OpenFor
    <3>4. \A y \in Ids : y # x => OpenFor(y)' = OpenFor(y)
      BY <3>2 DEF OpenFor
    <3> QED
      BY <3>3, <3>4
  <2>4. \A y \in Ids : StatusOf(y)' = IF y = x THEN "open" ELSE StatusOf(y)
    BY <1>5, <1>6, <1>7, <2>2 DEF StatusOf
  <2>5. \A y \in Ids : (OpenFor(y) \cup UsedFor(y))' =
                        IF y = x THEN {l} ELSE OpenFor(y) \cup UsedFor(y)
    BY <1>6, <1>7, <2>3
  <2>6. /\ absStatus' = [absStatus EXCEPT ![x] = "open"]
        /\ absSessions' = [absSessions EXCEPT ![x] = {l}]
        /\ absStatus[x] = "committed"
    BY <1>7, <2>4, <2>5, AbsIs
  <2>7. l \in Lists(Ids) /\ n \in DOMAIN l /\ l[n] = x
    <3> DEFINE v == Verified(commitments)
    <3>1. v \in Lists(issued) /\ n \in DOMAIN v /\ v[n].id = x
      BY <1>1, <1>2, VerifiedFacts
    <3>2. \A m \in DOMAIN v : v[m].id \in Ids
      BY <3>1, ListFacts DEF IInv, TypeOK, SignedCommitment
    <3>3. DOMAIN l = DOMAIN v /\ \A m \in DOMAIN v : l[m] = v[m].id
      BY DEF ListIds
    <3>4. l = [m \in DOMAIN v |-> l[m]]
      BY DEF ListIds
    <3> QED
      BY <3>1, <3>2, <3>3, <3>4, ListMap
  <2> QED
    BY <2>6, <2>7 DEF Nonce!Next, Nonce!Open, Nonce!In
<1>9. CASE UNCHANGED revealed
  <2>1. \A y \in Ids : (IsOpen(y)' <=> IsOpen(y)) /\ OpenFor(y)' = OpenFor(y)
    BY <1>9 DEF IsOpen, OpenFor
  <2>2. \A y \in Ids : StatusOf(y)' = IF y \in {x} THEN "burnt" ELSE StatusOf(y)
    BY <1>5, <1>6, <1>7, <2>1 DEF StatusOf
  <2>3. \A y \in Ids : (OpenFor(y) \cup UsedFor(y))' =
                        IF y \in {x} THEN {} ELSE OpenFor(y) \cup UsedFor(y)
    BY <1>6, <1>7, <2>1
  <2>4. /\ absStatus' = [y \in Ids |-> IF y \in {x} THEN "burnt" ELSE absStatus[y]]
        /\ absSessions' = [y \in Ids |-> IF y \in {x} THEN {} ELSE absSessions[y]]
        /\ absStatus[x] = "committed"
    BY <1>7, <2>2, <2>3, AbsIs
  <2>5. Nonce!Burn({x})
    BY <2>4 DEF Nonce!Burn
  <2> QED
    BY <2>5 DEF Nonce!Next
<1> QED
  BY <1>1, <1>8, <1>9

\* signature_share is Use of the ephemeral key, in a session that agrees with the
\* one it is open for, or burns it.
LEMMA ShareRefines ==
    ASSUME IInv, NEW n \in Nodes, NEW rs \in Lists(opened),
           GetSignatureShare(n, rs)
    PROVE  Nonce!Next
<1>1. PICK r \in revealed[n] :
        /\ n \in DOMAIN rs /\ r.state.id = rs[n]
        /\ revealed' = [revealed EXCEPT ![n] = revealed[n] \ {r}]
        /\ \/ /\ OpensCommitments(r.commitments, rs)
              /\ shares' = shares \cup {Combine(r, rs)}
           \/ UNCHANGED shares
        /\ UNCHANGED <<committed, made>>
  BY DEF GetSignatureShare, Ours
<1>2. PICK x \in Ids : x = r.state.id
  BY DEF IInv, TypeOK, RevealedState, CommittedState
<1>3. /\ x.by = n /\ IsOpen(x)
      /\ \A q \in revealed[n] \ {r} : q.state.id # x
      /\ \A t \in shares : t.id # x
  BY <1>2 DEF IsOpen, IInv, RevealedOnce, OnePlace
<1>4. \A y \in Ids : y.by \in Nodes
  BY DEF Ids
<1>5. \A m \in Nodes : revealed'[m] = IF m = n THEN revealed[n] \ {r} ELSE revealed[m]
  BY <1>1 DEF IInv, TypeOK
<1>6. /\ ~ IsOpen(x)'
      /\ \A y \in Ids : y # x => (IsOpen(y)' <=> IsOpen(y))
  BY <1>2, <1>3, <1>4, <1>5 DEF IsOpen
<1>7. /\ OpenFor(x)' = {}
      /\ \A y \in Ids : y # x => OpenFor(y)' = OpenFor(y)
  <2>1. {q \in revealed'[x.by] : q.state.id = x} = {}
    BY <1>2, <1>3, <1>5
  <2>2. \A y \in Ids : y # x =>
           {q \in revealed'[y.by] : q.state.id = y} = {q \in revealed[y.by] : q.state.id = y}
    BY <1>2, <1>4, <1>5
  <2>3. OpenFor(x)' = {}
    BY <2>1 DEF OpenFor
  <2>4. \A y \in Ids : y # x => OpenFor(y)' = OpenFor(y)
    BY <2>2 DEF OpenFor
  <2> QED
    BY <2>3, <2>4
<1>8. \A y \in Ids : (IsMade(y)' <=> IsMade(y)) /\ (IsCommitted(y)' <=> IsCommitted(y))
  BY <1>1 DEF IsMade, IsCommitted
<1>9. /\ IsMade(x) /\ ~ IsCommitted(x) /\ ~ IsUsed(x) /\ StatusOf(x) = "open"
      /\ UsedFor(x) = {}
  <2>1. IsMade(x) /\ ~ IsCommitted(x) /\ ~ IsUsed(x)
    BY <1>3, PlacesAreDisjoint
  <2>2. UsedFor(x) = {}
    BY <1>3 DEF UsedFor
  <2> QED
    BY <1>3, <2>1, <2>2 DEF StatusOf
<1>10. CASE OpensCommitments(r.commitments, rs) /\ shares' = shares \cup {Combine(r, rs)}
  <2> DEFINE t == Combine(r, rs)
  <2>1. t.id = x /\ t.rs = rs
    BY <1>2 DEF Combine
  <2>2. /\ IsUsed(x)'
        /\ \A y \in Ids : y # x => (IsUsed(y)' <=> IsUsed(y))
    BY <1>10, <2>1 DEF IsUsed
  <2>3. /\ UsedFor(x)' = {rs}
        /\ \A y \in Ids : y # x => UsedFor(y)' = UsedFor(y)
    <3>1. {q \in shares' : q.id = x} = {t}
      BY <1>3, <1>10, <2>1
    <3>2. \A y \in Ids : y # x => {q \in shares' : q.id = y} = {q \in shares : q.id = y}
      BY <1>10, <2>1
    <3>3. UsedFor(x)' = {t.rs}
      BY <3>1 DEF UsedFor
    <3>4. \A y \in Ids : y # x => UsedFor(y)' = UsedFor(y)
      BY <3>2 DEF UsedFor
    <3> QED
      BY <2>1, <3>3, <3>4
  <2>4. \A o \in OpenFor(x) : \A i \in DOMAIN o \cap DOMAIN rs : rs[i] = o[i]
    <3>1. {q \in revealed[x.by] : q.state.id = x} = {r}
      BY <1>2, <1>3
    <3>2. OpenFor(x) = {ListIds(r.commitments)}
      BY <3>1 DEF OpenFor
    <3> QED
      BY <1>10, <3>2 DEF ListIds, OpensCommitments
  <2>5. \A y \in Ids : StatusOf(y)' = IF y = x THEN "used" ELSE StatusOf(y)
    BY <1>6, <1>8, <1>9, <2>2 DEF StatusOf
  <2>6. \A y \in Ids : (OpenFor(y) \cup UsedFor(y))' =
                        IF y = x THEN {rs} ELSE OpenFor(y) \cup UsedFor(y)
    BY <1>7, <2>3
  <2>7. /\ absStatus' = [absStatus EXCEPT ![x] = "used"]
        /\ absSessions' = [absSessions EXCEPT ![x] = {rs}]
        /\ absStatus[x] = "open" /\ absSessions[x] = OpenFor(x)
    BY <1>9, <2>5, <2>6, AbsIs
  <2>8. rs \in Lists(Ids) /\ n \in DOMAIN rs /\ rs[n] = x
    <3>1. opened \subseteq Ids
      BY DEF IInv, TypeOK, SignedCommitment
    <3> QED
      BY <1>1, <1>2, <3>1, ListsGrow
  <2>9. \A o \in absSessions[x] : \A i \in DOMAIN o \cap DOMAIN rs : rs[i] = o[i]
    BY <2>4, <2>7
  <2>10. Nonce!In(x, rs)
    BY <2>8 DEF Nonce!In
  <2>11. Nonce!Use(x)
    BY <2>7, <2>8, <2>9, <2>10 DEF Nonce!Use
  <2> QED
    BY <2>11 DEF Nonce!Next
<1>11. CASE UNCHANGED shares
  <2>1. \A y \in Ids : (IsUsed(y)' <=> IsUsed(y)) /\ UsedFor(y)' = UsedFor(y)
    BY <1>11 DEF IsUsed, UsedFor
  <2>2. \A y \in Ids : StatusOf(y)' = IF y \in {x} THEN "burnt" ELSE StatusOf(y)
    BY <1>6, <1>8, <1>9, <2>1 DEF StatusOf
  <2>3. \A y \in Ids : (OpenFor(y) \cup UsedFor(y))' =
                        IF y \in {x} THEN {} ELSE OpenFor(y) \cup UsedFor(y)
    BY <1>7, <1>9, <2>1
  <2>4. /\ absStatus' = [y \in Ids |-> IF y \in {x} THEN "burnt" ELSE absStatus[y]]
        /\ absSessions' = [y \in Ids |-> IF y \in {x} THEN {} ELSE absSessions[y]]
        /\ absStatus[x] = "open"
    BY <1>9, <2>2, <2>3, AbsIs
  <2>5. Nonce!Burn({x})
    BY <2>4 DEF Nonce!Burn
  <2> QED
    BY <2>5 DEF Nonce!Next
<1> QED
  BY <1>1, <1>10, <1>11

\* A restart burns whatever is committed or open at the node.
LEMMA RestartRefines ==
    ASSUME IInv, NEW n \in Nodes, Restart(n)
    PROVE  Nonce!Next
<1>1. PICK X \in SUBSET Ids : X = {x \in Ids : x.by = n /\ (IsCommitted(x) \/ IsOpen(x))}
  OBVIOUS
<1>2. /\ \A m \in Nodes : committed'[m] = IF m = n THEN {} ELSE committed[m]
      /\ \A m \in Nodes : revealed'[m] = IF m = n THEN {} ELSE revealed[m]
      /\ made' = made /\ shares' = shares
  BY DEF Restart, IInv, TypeOK
<1>3. \A y \in Ids : y.by \in Nodes
  BY DEF Ids
<1>4. \A y \in Ids : /\ (IsMade(y)' <=> IsMade(y)) /\ (IsUsed(y)' <=> IsUsed(y))
                      /\ UsedFor(y)' = UsedFor(y)
  BY <1>2 DEF IsMade, IsUsed, UsedFor
<1>5. ASSUME NEW y \in Ids, y \in X
      PROVE  /\ StatusOf(y) \in {"committed", "open"} /\ StatusOf(y)' = "burnt"
             /\ (OpenFor(y) \cup UsedFor(y))' = {}
  <2>1. y.by = n /\ (IsCommitted(y) \/ IsOpen(y))
    BY <1>1, <1>5
  <2>2. IsMade(y) /\ ~ IsUsed(y)
    BY <2>1, PlacesAreDisjoint
  <2>3. ~ IsCommitted(y)' /\ ~ IsOpen(y)'
    BY <1>2, <2>1 DEF IsCommitted, IsOpen
  <2>4. {q \in revealed'[y.by] : q.state.id = y} = {}
    BY <1>2, <2>1
  <2>5. OpenFor(y)' = {}
    BY <2>4 DEF OpenFor
  <2>6. UsedFor(y) = {}
    BY <2>2 DEF UsedFor, IsUsed
  <2>7. StatusOf(y) \in {"committed", "open"}
    BY <2>1, <2>2 DEF StatusOf
  <2>8. StatusOf(y)' = "burnt"
    BY <1>4, <2>2, <2>3 DEF StatusOf
  <2> QED
    BY <1>4, <2>5, <2>6, <2>7, <2>8
<1>6. ASSUME NEW y \in Ids, y \notin X
      PROVE  /\ StatusOf(y)' = StatusOf(y)
             /\ (OpenFor(y) \cup UsedFor(y))' = OpenFor(y) \cup UsedFor(y)
  <2>1. IsCommitted(y)' <=> IsCommitted(y)
    BY <1>1, <1>2, <1>3, <1>6 DEF IsCommitted
  <2>2. IsOpen(y)' <=> IsOpen(y)
    BY <1>1, <1>2, <1>3, <1>6 DEF IsOpen
  <2>3. {q \in revealed'[y.by] : q.state.id = y} = {q \in revealed[y.by] : q.state.id = y}
    BY <1>1, <1>2, <1>3, <1>6 DEF IsOpen
  <2>4. OpenFor(y)' = OpenFor(y)
    BY <2>3 DEF OpenFor
  <2>5. StatusOf(y)' = StatusOf(y)
    BY <1>4, <2>1, <2>2 DEF StatusOf
  <2> QED
    BY <1>4, <2>4, <2>5
<1>7. /\ absStatus' = [y \in Ids |-> IF y \in X THEN "burnt" ELSE absStatus[y]]
      /\ absSessions' = [y \in Ids |-> IF y \in X THEN {} ELSE absSessions[y]]
      /\ \A y \in X : absStatus[y] \in {"committed", "open"}
  BY <1>5, <1>6, AbsIs
<1>8. Nonce!Burn(X)
  BY <1>7 DEF Nonce!Burn
<1> QED
  BY <1>8 DEF Nonce!Next

\* At the start every ephemeral key is fresh.
LEMMA InitRefines == Init => Nonce!Init
<1> SUFFICES ASSUME Init PROVE Nonce!Init
  OBVIOUS
<1>1. \A x \in Ids : x.by \in Nodes /\ x.seq > 0
  BY DEF Ids
<1>2. \A x \in Ids : StatusOf(x) = "fresh"
  BY <1>1 DEF Init, StatusOf, IsMade
<1>3. \A x \in Ids : OpenFor(x) = {} /\ UsedFor(x) = {}
  BY <1>1 DEF Init, OpenFor, UsedFor
<1> QED
  BY <1>2, <1>3, AbsIs DEF Nonce!Init

\* A step of the nodes is a step of OneTimeNonce or invisible.
LEMMA StepRefines == IInv /\ [Next]_vars => [Nonce!Next]_(Nonce!nonceVars)
<1> SUFFICES ASSUME IInv, [Next]_vars PROVE [Nonce!Next]_(Nonce!nonceVars)
  OBVIOUS
<1>1. CASE UNCHANGED vars
  BY <1>1 DEF vars, Nonce!nonceVars, absStatus, absSessions
<1>2. CASE Next
  BY <1>2, CommitmentRefines, RevealRefines, ShareRefines, RestartRefines DEF Next
<1> QED
  BY <1>1, <1>2

\* The maps of the sign nodes implement nonces that are opened for one session
\* and used once, in a session that does not contradict it, whatever is called in
\* whatever order with lists of whatever length.
THEOREM SigningRefinesNonce == Spec => ImplementsOneTimeNonce
  BY InvInit, InvStep, InitRefines, StepRefines, PTL DEF Spec, ImplementsOneTimeNonce, Nonce!Spec

=============================================================================
