--------------------------- MODULE SignQueueProofs ---------------------------
(***************************************************************************)
(* Proof that in any number of nodes, requests and epochs the sign queues    *)
(* agree on the proposer of a request (OneProposer).                         *)
(***************************************************************************)
EXTENDS SignQueue, FiniteSetTheorems, TLAPS

Epochs == 0..MaxEpoch

Started == [req : Requests, node : Accounts, organized : Epochs, epoch : Epochs]

Types ==
    /\ phase \in {"Running", "Resharing"}
    /\ epoch \in Epochs /\ (phase = "Resharing" => epoch + 1 \in Epochs)
    /\ members \in [Epochs -> SUBSET Accounts]
    /\ DOMAIN request = Requests
    /\ kind \in [Accounts -> {"Running", "Resharing", "Out"}]
    /\ nodeEpoch \in [Accounts -> Epochs]
    /\ indexed \in [Accounts -> SUBSET Requests]
    /\ unorganized \in [Accounts -> SUBSET Requests]
    /\ DOMAIN requests = Accounts
    /\ generators \in [Accounts -> SUBSET Requests]
    /\ answered \subseteq Requests /\ lost \subseteq Requests

\* A node that runs, or is about to, is a member of the epoch it runs at.
Placed ==
    \A n \in Accounts :
        /\ nodeEpoch[n] <= epoch
        /\ kind[n] = "Running" => n \in members[nodeEpoch[n]]
        /\ kind[n] = "Resharing" =>
              /\ nodeEpoch[n] + 1 \in Epochs /\ n \in members[nodeEpoch[n] + 1]
              /\ nodeEpoch[n] = epoch => phase = "Resharing"

\* The proposer the seed selects among the members of epoch e.
ProposerAt(r, e) == request[r].entropy[Cardinality(members[e])].proposer

\* What a node keeps is under the id its epoch then gave, of a request that was
\* made.
Assigned ==
    \A n \in Accounts : \A q \in requests[n] :
        /\ DOMAIN q = {"req", "id", "epoch"}
        /\ q.req \in indexed[n] /\ q.req \notin unorganized[n]
        /\ q.epoch \in Epochs /\ q.epoch <= epoch
        /\ q.id = ProposerAt(q.req, q.epoch)
        /\ \A p \in requests[n] : p.req = q.req => p = q

\* Whatever is indexed was made.
Made == \A n \in Accounts : unorganized[n] \subseteq indexed[n]
                            /\ \A r \in indexed[n] : request[r] # NotYet

\* Who started a request was the proposer by its position at that time.
Entitled ==
    /\ starts \subseteq Started
    /\ \A s \in starts :
        /\ s.req \in indexed[s.node]
        /\ s.organized <= epoch /\ s.epoch <= epoch
        /\ s.node \in members[s.epoch]
        /\ Id(members[s.epoch], s.node) = ProposerAt(s.req, s.organized)

IInv == Types /\ Placed /\ Made /\ Assigned /\ Entitled /\ StartedOnce

-----------------------------------------------------------------------------
(* Positions tell members apart.                                            *)

\* The id of a participant is found by counting: two members with the same
\* number of members before them are one.
LEMMA IdsDiffer ==
    ASSUME NEW S \in SUBSET Accounts, NEW m \in S, NEW n \in S, Id(S, m) = Id(S, n)
    PROVE  m = n
<1>1. IsFiniteSet(S) /\ S \subseteq Nat
  BY FS_Subset, QueueAssumption
<1>2. ASSUME NEW a \in S, NEW b \in S, a < b  PROVE Id(S, a) # Id(S, b)
  <2> DEFINE A == {x \in S : x < a}
             B == {x \in S : x < b}
  <2>1. B \in SUBSET S /\ A \in SUBSET B
    <3>1. \A x \in S : x < a => x < b
      BY <1>1, <1>2
    <3> QED
      BY <3>1
  <2>2. a \in B /\ a \notin A
    BY <1>1, <1>2
  <2>3. A # B
    BY <2>2
  <2>4. IsFiniteSet(B)
    BY <1>1, <2>1, FS_Subset
  <2>5. Cardinality(A) # Cardinality(B)
    BY <2>1, <2>3, <2>4, FS_Subset
  <2> QED
    BY <2>5 DEF Id
<1>3. m < n \/ n < m \/ m = n
  BY <1>1
<1> QED
  BY <1>2, <1>3

-----------------------------------------------------------------------------
(* Every step keeps the invariant.                                          *)

\* Init: nothing is queued or started, and the members of epoch 0 run.
LEMMA InitIInv == Init => IInv
<1> SUFFICES ASSUME Init PROVE IInv
  OBVIOUS
<1>1. PICK S \in InitialSets :
        /\ members = [e \in 0..MaxEpoch |-> IF e = 0 THEN S ELSE {}]
        /\ kind = [n \in Accounts |-> IF n \in S THEN "Running" ELSE "Out"]
  BY DEF Init
<1>2. S \subseteq Accounts /\ 0 \in Epochs
  BY QueueAssumption DEF Epochs
<1>3. Types
  BY <1>1, <1>2 DEF Init, Types, Epochs
<1>4. Placed
  BY <1>1, <1>2 DEF Init, Placed, Epochs
<1>5. Made /\ Assigned /\ Entitled /\ StartedOnce
  BY DEF Init, Made, Assigned, Entitled, StartedOnce
<1> QED
  BY <1>3, <1>4, <1>5 DEF IInv

\* sign: nobody has indexed a request before it is made, so that no queue
\* depends on its seed.
LEMMA SignStep ==
    ASSUME IInv, NEW r \in Requests, Sign(r)
    PROVE  IInv'
<1>1. /\ request[r] = NotYet
      /\ DOMAIN request' = Requests
      /\ \A x \in Requests \ {r} : request'[x] = request[x]
      /\ UNCHANGED <<contractVars, nodeVars, queueVars, starts, answered, lost>>
  BY DEF Sign, IInv, Types
<1>2. \A n \in Accounts : r \notin indexed[n] /\ indexed[n] \subseteq Requests
  BY <1>1 DEF IInv, Made, Types
<1>3. Types' /\ Placed'
  BY <1>1 DEF IInv, Types, Placed, contractVars, nodeVars, queueVars
<1>4. Made'
  BY <1>1, <1>2 DEF IInv, Made, queueVars
<1>5. Assigned'
  BY <1>1, <1>2 DEF IInv, Assigned, ProposerAt, contractVars, queueVars
<1>6. Entitled'
  <2>1. \A s \in starts : s.node \in Accounts
    BY DEF IInv, Entitled, Started
  <2> QED
    BY <1>1, <1>2, <2>1 DEF IInv, Entitled, ProposerAt, contractVars, queueVars
<1>7. StartedOnce'
  BY <1>1 DEF IInv, StartedOnce, queueVars
<1> QED
  BY <1>3, <1>4, <1>5, <1>6, <1>7 DEF IInv

\* vote_join, vote_leave: only the members of the next epoch are written, at
\* which nobody is, was or waits.
LEMMA StartResharingStep ==
    ASSUME IInv, NEW S \in SUBSET Accounts, StartResharing(S)
    PROVE  IInv'
<1>1. /\ phase = "Running" /\ phase' = "Resharing" /\ epoch' = epoch
      /\ epoch \in Nat /\ MaxEpoch \in Nat /\ epoch + 1 \in Epochs
      /\ members' \in [Epochs -> SUBSET Accounts]
      /\ \A e \in Epochs : e # epoch + 1 => members'[e] = members[e]
      /\ UNCHANGED <<request, nodeVars, queueVars, starts, answered, lost>>
  BY QueueAssumption DEF StartResharing, IInv, Types, Epochs
<1>2. \A e \in Epochs : e <= epoch => members'[e] = members[e]
  BY <1>1 DEF Epochs
<1>3. Types'
  BY <1>1 DEF IInv, Types, nodeVars, queueVars
<1>4. Placed'
  <2> SUFFICES ASSUME NEW n \in Accounts
               PROVE  /\ nodeEpoch[n] <= epoch
                      /\ kind[n] = "Running" => n \in members'[nodeEpoch[n]]
                      /\ kind[n] = "Resharing" =>
                            nodeEpoch[n] + 1 \in Epochs /\ n \in members'[nodeEpoch[n] + 1]
    BY <1>1 DEF Placed, nodeVars
  <2>1. nodeEpoch[n] \in Nat /\ nodeEpoch[n] \in Epochs /\ nodeEpoch[n] <= epoch
    BY DEF IInv, Types, Placed, Epochs
  <2>2. kind[n] = "Resharing" => nodeEpoch[n] # epoch
    BY <1>1 DEF IInv, Placed
  <2> QED
    BY <1>1, <1>2, <2>1, <2>2 DEF IInv, Placed
<1>5. Made'
  BY <1>1 DEF IInv, Made, queueVars
<1>6. Assigned'
  BY <1>1, <1>2 DEF IInv, Assigned, ProposerAt, queueVars
<1>7. Entitled'
  BY <1>1, <1>2 DEF IInv, Entitled, ProposerAt, Started, queueVars
<1>8. StartedOnce'
  BY <1>1 DEF IInv, StartedOnce, queueVars
<1> QED
  BY <1>3, <1>4, <1>5, <1>6, <1>7, <1>8 DEF IInv

\* vote_reshared: the epoch grows, everything about earlier ones stands.
LEMMA ResharedStep ==
    ASSUME IInv, Reshared
    PROVE  IInv'
<1>1. /\ phase' = "Running" /\ epoch' = epoch + 1 /\ epoch + 1 \in Epochs /\ epoch \in Nat
      /\ UNCHANGED <<members, request, nodeVars, queueVars, starts, answered, lost>>
  BY DEF Reshared, IInv, Types, Epochs
<1>2. Types'
  BY <1>1 DEF IInv, Types, nodeVars, queueVars
<1>3. Placed'
  BY <1>1 DEF IInv, Types, Placed, nodeVars, Epochs
<1>4. Made' /\ StartedOnce'
  BY <1>1 DEF IInv, Made, StartedOnce, queueVars
<1>5. Assigned'
  BY <1>1 DEF IInv, Assigned, ProposerAt, queueVars, Epochs
<1>6. Entitled'
  BY <1>1 DEF IInv, Entitled, ProposerAt, Started, queueVars, Epochs
<1> QED
  BY <1>2, <1>3, <1>4, <1>5, <1>6 DEF IInv

\* The steps that change what a node is: a node that comes to run is a member.
LEMMA NodeStep ==
    ASSUME IInv, NEW n \in Accounts, EnterResharing(n) \/ EnterRunning(n) \/ Leave(n)
    PROVE  IInv'
<1>1. UNCHANGED <<contractVars, request, indexed, unorganized, requests, starts, answered, lost>>
  BY DEF EnterResharing, EnterRunning, Leave, queueVars
<1>2. /\ generators' \in [Accounts -> SUBSET Requests]
      /\ kind' \in [Accounts -> {"Running", "Resharing", "Out"}]
      /\ nodeEpoch' \in [Accounts -> Epochs]
  BY DEF EnterResharing, EnterRunning, Leave, queueVars, IInv, Types
<1>3. Types'
  BY <1>1, <1>2 DEF IInv, Types, contractVars
<1>4. Placed'
  <2>1. CASE EnterResharing(n)
    BY <1>1, <2>1 DEF IInv, Types, Placed, EnterResharing, contractVars, Epochs
  <2>2. CASE EnterRunning(n)
    BY <1>1, <2>2 DEF IInv, Types, Placed, EnterRunning, contractVars, Epochs
  <2>3. CASE Leave(n)
    BY <1>1, <2>3 DEF IInv, Types, Placed, Leave, contractVars, Epochs
  <2> QED
    BY <2>1, <2>2, <2>3
<1>5. Made' /\ StartedOnce'
  BY <1>1 DEF IInv, Made, StartedOnce
<1>6. Assigned' /\ Entitled'
  BY <1>1 DEF IInv, Assigned, Entitled, ProposerAt, contractVars
<1> QED
  BY <1>3, <1>4, <1>5, <1>6 DEF IInv

\* handle_block: a request is indexed once, before it is organised or started.
LEMMA IndexStep ==
    ASSUME IInv, NEW n \in Accounts, NEW r \in Requests, Index(n, r)
    PROVE  IInv'
<1>1. /\ request[r] # NotYet /\ r \notin indexed[n]
      /\ indexed' = [indexed EXCEPT ![n] = indexed[n] \cup {r}]
      /\ unorganized' = [unorganized EXCEPT ![n] = unorganized[n] \cup {r}]
      /\ UNCHANGED <<contractVars, request, nodeVars, requests, generators, starts, answered, lost>>
  BY DEF Index
<1>2. Types' /\ Placed' /\ Made'
  BY <1>1 DEF IInv, Types, Placed, Made, contractVars, nodeVars
<1>3. Assigned'
  BY <1>1 DEF IInv, Types, Assigned, ProposerAt, contractVars
<1>4. Entitled'
  BY <1>1 DEF IInv, Types, Entitled, Started, ProposerAt, contractVars
<1>5. StartedOnce'
  BY <1>1 DEF IInv, Types, Entitled, Started, StartedOnce
<1> QED
  BY <1>2, <1>3, <1>4, <1>5 DEF IInv

\* A signature is finished: nothing the invariant speaks of changes.
LEMMA CompleteStep ==
    ASSUME IInv, NEW n \in Accounts, NEW r \in Requests, Complete(n, r)
    PROVE  IInv'
<1>1. /\ UNCHANGED <<contractVars, request, nodeVars, indexed, unorganized, requests, starts>>
      /\ generators' = [generators EXCEPT ![n] = generators[n] \ {r}]
      /\ answered' \subseteq answered \cup {r} /\ lost' \subseteq lost \cup {r}
  BY DEF Complete
<1>2. Types'
  BY <1>1 DEF IInv, Types, contractVars, nodeVars
<1> QED
  BY <1>1, <1>2 DEF IInv, Placed, Made, Assigned, Entitled, StartedOnce, ProposerAt,
                    contractVars, nodeVars

\* progress: what is organised is new to the queue and under the id the seed
\* gives; what is started was under the node's own.
LEMMA ProgressStep ==
    ASSUME IInv, NEW n \in Accounts, NEW Q \in SUBSET MyRequests(n), Progress(n, Q)
    PROVE  IInv'
<1> DEFINE new == {[req |-> r, id |-> Choice(n, r).proposer, epoch |-> nodeEpoch[n]] :
                     r \in {x \in unorganized[n] : Me(n) \in Choice(n, x).subset}}
           started == {[req |-> q.req, node |-> n, organized |-> q.epoch,
                        epoch |-> nodeEpoch[n]] : q \in Q}
<1>1. /\ kind[n] = "Running"
      /\ unorganized' = [unorganized EXCEPT ![n] = {}]
      /\ requests' = [requests EXCEPT ![n] = (requests[n] \cup new) \ Q]
      /\ generators' = [generators EXCEPT ![n] = generators[n] \cup {q.req : q \in Q}]
      /\ starts' = starts \cup started
      /\ UNCHANGED <<contractVars, request, nodeVars, indexed, answered, lost>>
  BY DEF Progress, Organized
<1>2. /\ nodeEpoch[n] \in Epochs /\ nodeEpoch[n] <= epoch /\ n \in members[nodeEpoch[n]]
      /\ unorganized[n] \subseteq indexed[n] /\ indexed[n] \subseteq Requests
  BY <1>1 DEF IInv, Types, Placed, Made
<1>3. \A q \in new : /\ DOMAIN q = {"req", "id", "epoch"}
                     /\ q.req \in unorganized[n] /\ q.epoch = nodeEpoch[n]
                     /\ q.id = ProposerAt(q.req, q.epoch)
                     /\ \A p \in new : p.req = q.req => p = q
  BY DEF ProposerAt, Choice, Participants
<1>4. \A q \in requests[n] \cup new :
        /\ DOMAIN q = {"req", "id", "epoch"}
        /\ q.req \in indexed[n] /\ q.req \in Requests
        /\ q.epoch \in Epochs /\ q.epoch <= epoch
        /\ q.id = ProposerAt(q.req, q.epoch)
        /\ \A p \in requests[n] \cup new : p.req = q.req => p = q
  BY <1>2, <1>3 DEF IInv, Assigned
<1>5. \A q \in Q : q \in requests[n] \cup new /\ q.id = Id(members[nodeEpoch[n]], n)
  BY DEF MyRequests, Organized, Me, Participants
<1>6. \A r \in Requests, e \in Epochs : ProposerAt(r, e)' = ProposerAt(r, e)
  BY <1>1 DEF ProposerAt, contractVars
<1>7. Types'
  <2>1. {q.req : q \in Q} \subseteq Requests
    BY <1>4, <1>5
  <2>2. generators' \in [Accounts -> SUBSET Requests]
    BY <1>1, <2>1 DEF IInv, Types
  <2>3. unorganized' \in [Accounts -> SUBSET Requests] /\ DOMAIN requests' = Accounts
    BY <1>1 DEF IInv, Types
  <2> QED
    BY <1>1, <2>2, <2>3 DEF IInv, Types, contractVars, nodeVars
<1>8. Placed' /\ Made'
  BY <1>1 DEF IInv, Types, Placed, Made, contractVars, nodeVars
<1>9. Assigned'
  <2> SUFFICES ASSUME NEW m \in Accounts, NEW q \in requests'[m]
               PROVE  /\ DOMAIN q = {"req", "id", "epoch"}
                      /\ q.req \in indexed'[m] /\ q.req \notin unorganized'[m]
                      /\ q.epoch \in Epochs /\ q.epoch <= epoch'
                      /\ q.id = ProposerAt(q.req, q.epoch)'
                      /\ \A p \in requests'[m] : p.req = q.req => p = q
    BY DEF Assigned
  <2>1. CASE m = n
    <3>1. requests'[n] = (requests[n] \cup new) \ Q /\ unorganized'[n] = {}
      BY <1>1 DEF IInv, Types
    <3> QED
      BY <1>1, <1>4, <1>6, <2>1, <3>1 DEF contractVars
  <2>2. CASE m # n
    <3>1. requests'[m] = requests[m] /\ unorganized'[m] = unorganized[m]
      BY <1>1, <2>2 DEF IInv, Types
    <3>2. indexed[m] \subseteq Requests
      BY DEF IInv, Types
    <3> QED
      BY <1>1, <1>6, <3>1, <3>2 DEF IInv, Assigned, contractVars
  <2> QED
    BY <2>1, <2>2
<1>10. \A s \in started : \E q \in Q :
         s = [req |-> q.req, node |-> n, organized |-> q.epoch, epoch |-> nodeEpoch[n]]
  OBVIOUS
<1>11. Entitled'
  <2>1. \A s \in started :
          /\ s \in Started /\ s.node = n /\ s.epoch = nodeEpoch[n]
          /\ s.req \in indexed[n] /\ s.organized <= epoch /\ s.epoch <= epoch
          /\ Id(members[s.epoch], s.node) = ProposerAt(s.req, s.organized)
    BY <1>2, <1>4, <1>5, <1>10 DEF Started
  <2>2. \A s \in starts : s \in Started /\ s.req \in Requests /\ s.organized \in Epochs
    BY DEF IInv, Entitled, Started
  <2>3. \A s \in started : s.req \in Requests /\ s.organized \in Epochs
    BY <2>1 DEF Started
  <2> QED
    BY <1>1, <1>2, <1>6, <2>1, <2>2, <2>3 DEF IInv, Entitled, contractVars
<1>12. StartedOnce'
  <2> SUFFICES ASSUME NEW s \in starts'
               PROVE  /\ s.req \notin unorganized'[s.node]
                      /\ \A q \in requests'[s.node] : q.req # s.req
                      /\ \A t \in starts' : s.req = t.req /\ s.node = t.node => s = t
    BY DEF StartedOnce
  <2>1. requests'[n] = (requests[n] \cup new) \ Q /\ unorganized'[n] = {}
    BY <1>1 DEF IInv, Types
  <2>2. \A m \in Accounts : m # n => requests'[m] = requests[m]
                                     /\ unorganized'[m] = unorganized[m]
    BY <1>1 DEF IInv, Types
  <2>3. \A t \in starts : /\ t.node \in Accounts
                          /\ t.node = n => \A q \in requests[n] \cup new : q.req # t.req
    BY <1>3 DEF IInv, Entitled, Started, StartedOnce
  <2>4. \A t \in started : /\ t.node = n
                           /\ \E q \in Q : q \in requests[n] \cup new /\ q.req = t.req
    BY <1>5, <1>10
  <2>5. \A t, u \in started : t.req = u.req => t = u
    BY <1>4, <1>5, <1>10
  <2>6. CASE s \in started
    BY <1>1, <1>4, <2>1, <2>3, <2>4, <2>5, <2>6
  <2>7. CASE s \in starts /\ s.node = n
    BY <1>1, <2>1, <2>3, <2>4, <2>7 DEF IInv, StartedOnce
  <2>8. CASE s \in starts /\ s.node # n
    BY <1>1, <2>2, <2>3, <2>4, <2>8 DEF IInv, StartedOnce
  <2> QED
    BY <1>1, <2>6, <2>7, <2>8
<1> QED
  BY <1>7, <1>8, <1>9, <1>11, <1>12 DEF IInv

\* Steps that change nothing.
LEMMA StutterStep == ASSUME IInv, UNCHANGED vars PROVE IInv'
BY DEF vars, IInv, Types, Placed, Made, Assigned, Entitled, StartedOnce, ProposerAt

\* The next-state relation keeps the invariant.
LEMMA NextIInv == IInv /\ [Next]_vars => IInv'
<1> SUFFICES ASSUME IInv, [Next]_vars PROVE IInv'
  OBVIOUS
<1>1. ASSUME NEW r \in Requests, Sign(r) PROVE IInv'
  BY <1>1, SignStep
<1>2. ASSUME NEW S \in SUBSET Accounts, StartResharing(S) PROVE IInv'
  BY <1>2, StartResharingStep
<1>3. CASE Reshared
  BY <1>3, ResharedStep
<1>4. ASSUME NEW n \in Accounts, EnterResharing(n) \/ EnterRunning(n) \/ Leave(n) PROVE IInv'
  BY <1>4, NodeStep
<1>5. ASSUME NEW n \in Accounts, NEW r \in Requests, Index(n, r) PROVE IInv'
  BY <1>5, IndexStep
<1>6. ASSUME NEW n \in Accounts, NEW r \in Requests, Complete(n, r) PROVE IInv'
  BY <1>6, CompleteStep
<1>7. ASSUME NEW n \in Accounts, NEW Q \in SUBSET MyRequests(n), Progress(n, Q) PROVE IInv'
  BY <1>7, ProgressStep
<1>8. CASE UNCHANGED vars
  BY <1>8, StutterStep
<1> QED
  BY <1>1, <1>2, <1>3, <1>4, <1>5, <1>6, <1>7, <1>8 DEF Next

\* Two nodes that were the proposer at the same position in the same epoch are
\* the same node.
LEMMA IInvOneProposer == IInv => OneProposer
<1> SUFFICES ASSUME IInv, NEW s \in starts, NEW t \in starts,
                    s.req = t.req, s.organized = s.epoch, t.organized = s.epoch,
                    t.epoch = s.epoch
             PROVE  s = t
  BY DEF IInv, OneProposer
<1>1. /\ s.epoch \in Epochs /\ members[s.epoch] \in SUBSET Accounts
      /\ s.node \in members[s.epoch] /\ t.node \in members[s.epoch]
      /\ Id(members[s.epoch], s.node) = Id(members[s.epoch], t.node)
  BY DEF IInv, Types, Entitled, Started
<1>2. s.node = t.node
  BY <1>1, IdsDiffer
<1> QED
  BY <1>2 DEF IInv, StartedOnce

\* For any accounts, requests, threshold and number of epochs, however members
\* come and go and whenever nodes index and organise: of the nodes that organise
\* and start a request in one epoch, at most one starts it, and once (OneProposer).
THEOREM ProposerIsUnique == Spec => []OneProposer
<1>1. Init => IInv
  BY InitIInv
<1>2. IInv /\ [Next]_vars => IInv'
  BY NextIInv
<1>3. IInv => OneProposer
  BY IInvOneProposer
<1> QED
  BY <1>1, <1>2, <1>3, PTL DEF Spec

=============================================================================
