------------------------------ MODULE SignQueue ------------------------------
(***************************************************************************)
(* Who answers a signature request: the sign queue of every node across      *)
(* changes of the participants (node/src/protocol/signature.rs, with the      *)
(* part of RunningState::progress that serves it).                           *)
(*                                                                           *)
(* The random seed the contract logs with a request determines, for a number  *)
(* of participants, the positions of the signers and of the proposer among    *)
(* them.  A node evaluates it once, with the participants it has when it      *)
(* organises the request, and keeps the request under the position of the     *)
(* proposer.  The queue outlives the epoch; the positions do not.             *)
(*                                                                           *)
(* How members change is reduced to what the queue meets: everybody who will  *)
(* be a member stops running at the old epoch before the contract reaches the *)
(* next one (MpcNetwork has the votes and the failures).  A signature is one  *)
(* exchange of all participants of an epoch (RunningState has the messages).  *)
(***************************************************************************)
EXTENDS Naturals, FiniteSets

CONSTANTS Accounts,    \* account ids, which the contract keeps in order
          Requests,    \* receipt ids of sign calls
          Threshold,
          MaxEpoch,    \* bound on epochs
          InitialSets, \* the participants of epoch 0 may be any of these
          NotYet       \* a request nobody made

ASSUME QueueAssumption ==
    /\ Accounts \subseteq Nat /\ IsFiniteSet(Accounts)
    /\ Threshold \in Nat \ {0} /\ MaxEpoch \in Nat
    /\ InitialSets \subseteq {S \in SUBSET Accounts : Cardinality(S) >= Threshold}

VARIABLES phase,       \* of the contract: Running or Resharing
          epoch,       \* and its epoch
          members,     \* epoch -> participants; those of epoch + 1 are the next ones
          request,     \* request -> NotYet, or its entropy and when it was accepted
          kind,        \* node -> Running, Resharing or Out
          nodeEpoch,   \* node -> the epoch it runs at
          indexed,     \* node -> the requests its indexer has met
          unorganized, \* node -> SignQueue::unorganized_requests
          requests,    \* node -> SignQueue::requests, with the epoch of organize
          generators,  \* node -> requests it has started and not finished
          starts,      \* history: who started which request when
          answered,    \* requests with a signature published
          lost         \* requests whose signature could not be published

contractVars == <<phase, epoch, members>>
nodeVars == <<kind, nodeEpoch>>
queueVars == <<indexed, unorganized, requests, generators>>
vars == <<phase, epoch, members, request, kind, nodeEpoch, indexed, unorganized, requests,
          generators, starts, answered, lost>>

\* The id of a participant is its position among the participants of an epoch.
Id(S, n) == Cardinality({m \in S : m < n})

\* What choose_multiple and choose return for k participants.
Picks(k) ==
    {c \in [subset : SUBSET (0..(k - 1)), proposer : 0..(k - 1)] :
        Cardinality(c.subset) = Threshold /\ c.proposer \in c.subset}

Sizes == Threshold..Cardinality(Accounts)

\* A seed, as the choices it leads to: the same at every node.
Entropies == {f \in [Sizes -> UNION {Picks(k) : k \in Sizes}] :
                \A k \in Sizes : f[k] \in Picks(k)}

Init ==
    /\ phase = "Running" /\ epoch = 0
    /\ \E S \in InitialSets :
        /\ members = [e \in 0..MaxEpoch |-> IF e = 0 THEN S ELSE {}]
        /\ kind = [n \in Accounts |-> IF n \in S THEN "Running" ELSE "Out"]
    /\ nodeEpoch = [n \in Accounts |-> 0]
    /\ request = [r \in Requests |-> NotYet]
    /\ indexed = [n \in Accounts |-> {}] /\ unorganized = [n \in Accounts |-> {}]
    /\ requests = [n \in Accounts |-> {}] /\ generators = [n \in Accounts |-> {}]
    /\ starts = {} /\ answered = {} /\ lost = {}

-----------------------------------------------------------------------------
(* The contract.                                                            *)

\* sign logs a random seed, whatever the state of the protocol.
Sign(r) ==
    /\ request[r] = NotYet
    /\ \E f \in Entropies :
        request' = [request EXCEPT ![r] = [entropy |-> f, phase |-> phase, epoch |-> epoch]]
    /\ UNCHANGED <<contractVars, nodeVars, queueVars, starts, answered, lost>>

\* vote_join or vote_leave.  Fewer than the threshold could not reshare.
StartResharing(S) ==
    /\ phase = "Running" /\ epoch < MaxEpoch
    /\ \E a \in Accounts : S \in {members[epoch] \cup {a}, members[epoch] \ {a}} \ {members[epoch]}
    /\ Cardinality(S) >= Threshold
    /\ phase' = "Resharing" /\ members' = [members EXCEPT ![epoch + 1] = S]
    /\ UNCHANGED <<epoch, request, nodeVars, queueVars, starts, answered, lost>>

\* vote_reshared.  The exchange before it needs everyone of the next members.
Reshared ==
    /\ phase = "Resharing"
    /\ \A n \in members[epoch + 1] : kind[n] = "Resharing" /\ nodeEpoch[n] = epoch
    /\ phase' = "Running" /\ epoch' = epoch + 1
    /\ UNCHANGED <<members, request, nodeVars, queueVars, starts, answered, lost>>

-----------------------------------------------------------------------------
(* The nodes.                                                               *)

\* RunningState::advance and JoiningState::advance see the contract resharing.
\* A node that was voted out gets HasBeenKicked and goes on as it was.
EnterResharing(n) ==
    /\ phase = "Resharing" /\ n \in members[epoch + 1]
    /\ IF n \in members[epoch] THEN kind[n] = "Running" /\ nodeEpoch[n] = epoch
                               ELSE kind[n] = "Out"
    /\ kind' = [kind EXCEPT ![n] = "Resharing"]
    /\ nodeEpoch' = [nodeEpoch EXCEPT ![n] = epoch]
    /\ UNCHANGED <<contractVars, request, queueVars, starts, answered, lost>>

\* WaitingForConsensusState::advance: new managers, the old queue.
EnterRunning(n) ==
    /\ phase = "Running" /\ kind[n] = "Resharing" /\ nodeEpoch[n] + 1 = epoch
    /\ kind' = [kind EXCEPT ![n] = "Running"]
    /\ nodeEpoch' = [nodeEpoch EXCEPT ![n] = epoch]
    /\ generators' = [generators EXCEPT ![n] = {}]
    /\ UNCHANGED <<contractVars, request, indexed, unorganized, requests, starts, answered, lost>>

\* A node that meets a later epoch than its own, or waits for one the contract
\* has left already, asks to join again.
Leave(n) ==
    /\ nodeEpoch[n] < epoch
    /\ \/ kind[n] = "Running"
       \/ kind[n] = "Resharing" /\ (phase = "Resharing" \/ nodeEpoch[n] + 1 < epoch)
    /\ kind' = [kind EXCEPT ![n] = "Out"]
    /\ generators' = [generators EXCEPT ![n] = {}]
    /\ UNCHANGED <<contractVars, request, nodeEpoch, indexed, unorganized, requests, starts,
                   answered, lost>>

\* handle_block and SignQueue::add, in whatever state the node is.
Index(n, r) ==
    /\ request[r] # NotYet /\ r \notin indexed[n]
    /\ indexed' = [indexed EXCEPT ![n] = @ \cup {r}]
    /\ unorganized' = [unorganized EXCEPT ![n] = @ \cup {r}]
    /\ UNCHANGED <<contractVars, request, nodeVars, requests, generators, starts, answered, lost>>

Participants(n) == members[nodeEpoch[n]]
Me(n) == Id(Participants(n), n)
Choice(n, r) == request[r].entropy[Cardinality(Participants(n))]

\* Mutants: every signer takes itself for the proposer; the proposer is the
\* first participant, which skips the request if it is not a signer.
OrganizedSelf(n) ==
    requests[n] \cup {[req |-> r, id |-> Me(n), epoch |-> nodeEpoch[n]] :
                        r \in {x \in unorganized[n] : Me(n) \in Choice(n, x).subset}}

OrganizedFirst(n) ==
    requests[n] \cup {[req |-> r, id |-> 0, epoch |-> nodeEpoch[n]] :
                        r \in {x \in unorganized[n] : Me(n) \in Choice(n, x).subset}}

\* SignQueue::organize keeps what the node is a signer of, by proposer.
Organized(n) ==
    requests[n] \cup {[req |-> r, id |-> Choice(n, r).proposer, epoch |-> nodeEpoch[n]] :
                        r \in {x \in unorganized[n] : Me(n) \in Choice(n, x).subset}}

\* SignQueue::my_requests
MyRequests(n) == {q \in Organized(n) : q.id = Me(n)}

\* RunningState::progress organises, and starts the requests Q of its own, as
\* many as it has presignatures for.
Progress(n, Q) ==
    /\ kind[n] = "Running" /\ Q \subseteq MyRequests(n)
    /\ unorganized' = [unorganized EXCEPT ![n] = {}]
    /\ requests' = [requests EXCEPT ![n] = Organized(n) \ Q]
    /\ generators' = [generators EXCEPT ![n] = @ \cup {q.req : q \in Q}]
    /\ starts' = starts \cup {[req |-> q.req, node |-> n, organized |-> q.epoch,
                               epoch |-> nodeEpoch[n]] : q \in Q}
    /\ UNCHANGED <<contractVars, request, nodeVars, indexed, answered, lost>>

\* The exchange of a signature ends and its proposer publishes it.  Every
\* participant takes part, and a node that has started the same request itself
\* does not, since its generators are found by the receipt id.  A signature whose
\* transaction cannot be sent has been drained from the list and is dropped.
Complete(n, r) ==
    /\ kind[n] = "Running" /\ r \in generators[n]
    /\ \A m \in Participants(n) : /\ kind[m] = "Running" /\ nodeEpoch[m] = nodeEpoch[n]
                                  /\ m # n => r \notin generators[m]
    /\ generators' = [generators EXCEPT ![n] = @ \ {r}]
    /\ \/ answered' = answered \cup {r} /\ UNCHANGED lost
       \/ lost' = lost \cup {r} /\ UNCHANGED answered
    /\ UNCHANGED <<contractVars, request, nodeVars, indexed, unorganized, requests, starts>>

Next ==
    \/ \E r \in Requests : Sign(r)
    \/ \E S \in SUBSET Accounts : StartResharing(S)
    \/ Reshared
    \/ \E n \in Accounts :
        \/ EnterResharing(n) \/ EnterRunning(n) \/ Leave(n)
        \/ \E r \in Requests : Index(n, r) \/ Complete(n, r)
        \/ \E Q \in SUBSET MyRequests(n) : Progress(n, Q)

Spec == Init /\ [][Next]_vars

\* Every node goes on with its loop and its indexer, and presignatures keep
\* coming (RunningState); the participants and the users need not do anything.
Fairness ==
    \A n \in Accounts :
        /\ WF_vars(EnterRunning(n))
        /\ WF_vars(Progress(n, {}))
        /\ WF_vars(\E Q \in SUBSET MyRequests(n) : Q # {} /\ Progress(n, Q))
        /\ \A r \in Requests : WF_vars(Index(n, r)) /\ WF_vars(Complete(n, r))

FairSpec == Spec /\ Fairness

-----------------------------------------------------------------------------
(* Properties.                                                              *)

\* A node starts a request once at the most.
StartedOnce ==
    \A s \in starts :
        /\ s.req \notin unorganized[s.node]
        /\ \A q \in requests[s.node] : q.req # s.req
        /\ \A t \in starts : s.req = t.req /\ s.node = t.node => s = t

\* Nodes decide on their own who proposes a request, each when it gets to it.
\* Of those that decide and act in one epoch only one starts it, and once; two
\* nodes start the same request only if a change of epoch came between.
OneProposer ==
    /\ StartedOnce
    /\ \A s, t \in starts :
        (s.req = t.req /\ s.organized = s.epoch /\ t.organized = s.epoch /\ t.epoch = s.epoch)
            => s = t

\* No participant came, left or was about to since the request was made.
Quiet(r) ==
    /\ request[r] # NotYet
    /\ request[r].phase = "Running" /\ request[r].epoch = epoch /\ phase = "Running"

\* A request that is made while no resharing is under way is answered, unless
\* one begins or its transaction fails: every node finds the same proposer for
\* it, on its own, the one found is a signer and has it under its own id.
QuietRequestAnswered ==
    \A r \in Requests : Quiet(r) ~> (r \in answered \/ r \in lost \/ ~ Quiet(r))

=============================================================================
