---------------------------- MODULE ContractSign ----------------------------
(***************************************************************************)
(* Signature requests through the contract's pending_requests               *)
(* (contract/src/lib.rs: sign, sign_helper, respond, clean), and what the   *)
(* nodes do with them as far as the contract can tell: the indexer turns an *)
(* accepted call into a sign request (node/src/indexer.rs), the network     *)
(* signs it, and its proposer publishes the answer with respond             *)
(* (node/src/protocol/signature.rs).                                        *)
(*                                                                          *)
(* A signature is the call it was produced for: it verifies under the key   *)
(* derived from that call's account and path.  Signing itself (triples,     *)
(* presignatures, cait-sith) is one step.  Every node indexes every call and *)
(* may come to propose it: in one epoch one node does, in a later epoch     *)
(* another may find it under its own id (SignQueue), and a node that        *)
(* restarted indexes again from start_block_height, because its queue is    *)
(* kept in memory only.  So a call may be answered more than once.          *)
(***************************************************************************)
EXTENDS Naturals, FiniteSets

CONSTANTS Calls,       \* calls of sign, by different accounts or paths
          Payloads,    \* payloads they ask to sign
          Nodes,       \* nodes of the network
          MaxDepth,    \* sign_helper hops the attached gas can pay for
          MaxRestarts  \* bound on restarts of the nodes, together

ASSUME SignAssumption == MaxDepth \in Nat /\ MaxRestarts \in Nat

VARIABLES
    pending,   \* pending_requests: Absent, Unanswered or the call signed for
    call,      \* each call: its payload, its progress, its answer
    cleaned,   \* payloads whose storage key clean has removed (history)
    outside,   \* payloads somebody else than a node has responded to (history)
    indexed,   \* node -> calls this life of the node has indexed
    queued,    \* node -> SignQueue: requests not yet being signed
    produced,  \* node -> SignatureManager.signatures: to be published
    responded, \* calls a node has responded to (history)
    repeated,  \* and those responded to more than once (history)
    restarts

contractVars == <<pending, call, cleaned, outside>>
queueVars == <<indexed, queued, produced, restarts>>
historyVars == <<responded, repeated>>
nodeVars == <<indexed, queued, produced, restarts, responded, repeated>>
vars == <<pending, call, cleaned, outside, indexed, queued, produced, restarts,
          responded, repeated>>

Absent     == "absent"
Unanswered == "unanswered"

NoAnswer == "none"

\* An entry that holds an answer is told from one that does not.
ASSUME AnswerAssumption == Calls \cap {Absent, Unanswered, NoAnswer} = {}

-----------------------------------------------------------------------------
(* The contract.                                                            *)

\* A mutant of Sign: the map is not looked at first.
SignAlways(i, p) ==
    /\ call[i].status = "new"
    /\ pending' = [pending EXCEPT ![p] = Unanswered]
    /\ call' = [call EXCEPT ![i] = [@ EXCEPT !.status = "waiting", !.payload = p]]
    /\ UNCHANGED <<cleaned, outside, nodeVars>>

\* sign: a payload that is already in the map makes the call panic.
Sign(i, p) ==
    /\ call[i].status = "new"
    /\ IF pending[p] = Absent
       THEN /\ pending' = [pending EXCEPT ![p] = Unanswered]
            /\ call' = [call EXCEPT ![i] = [@ EXCEPT !.status = "waiting", !.payload = p]]
       ELSE /\ call' = [call EXCEPT ![i] = [@ EXCEPT !.status = "refused", !.payload = p]]
            /\ UNCHANGED pending
    /\ UNCHANGED <<cleaned, outside, nodeVars>>

\* Mutant of SignHelper: the last hop gives up in good order and removes the
\* entry.
SignHelperGivesUp(i) ==
    LET p == call[i].payload
        Ends(status, answer) ==
            /\ call' = [call EXCEPT ![i] = [@ EXCEPT !.status = status, !.answer = answer]]
            /\ pending' = [pending EXCEPT ![p] = Absent]
    IN  /\ call[i].status = "waiting"
        /\ \/ /\ pending[p] = Unanswered /\ call[i].depth < MaxDepth
              /\ call' = [call EXCEPT ![i].depth = @ + 1]
              /\ UNCHANGED pending
           \/ pending[p] = Unanswered /\ call[i].depth = MaxDepth /\ Ends("expired", NoAnswer)
           \/ pending[p] \notin {Absent, Unanswered} /\ Ends("returned", pending[p])
        /\ UNCHANGED <<cleaned, outside, nodeVars>>

\* sign_helper: one hop of the promise chain started by sign.  The chain
\* calls itself until the answer is there.
SignHelper(i) ==
    LET p == call[i].payload
        Finish(status, answer) ==
            call' = [call EXCEPT ![i] = [@ EXCEPT !.status = status, !.answer = answer]]
    IN  /\ call[i].status = "waiting"
        /\ \/ /\ pending[p] = Absent
              /\ Finish("unexpected", NoAnswer)
              /\ UNCHANGED pending
           \/ /\ pending[p] = Unanswered /\ call[i].depth < MaxDepth
              /\ call' = [call EXCEPT ![i].depth = @ + 1]
              /\ UNCHANGED pending
           \/ /\ pending[p] \notin {Absent, Unanswered}
              /\ Finish("returned", pending[p])
              /\ pending' = [pending EXCEPT ![p] = Absent]
        /\ UNCHANGED <<cleaned, outside, nodeVars>>

\* The contract does not look at the gas: the runtime stops the hop that has
\* none left, whatever it was about to find, and what it did is undone.  The
\* entry that sign made stays.
OutOfGas(i) ==
    /\ call[i].status = "waiting"
    /\ call' = [call EXCEPT ![i].status = "expired"]
    /\ UNCHANGED <<pending, cleaned, outside, nodeVars>>

\* respond overwrites the entry, whatever it is and whoever calls.
RespondCall(p, i) == pending' = [pending EXCEPT ![p] = i]

\* Somebody else than the nodes calls respond, which checks nothing.
RespondOutside(p, i) ==
    /\ RespondCall(p, i)
    /\ outside' = outside \cup {p}
    /\ UNCHANGED <<call, cleaned, nodeVars>>

\* clean removes the storage keys its caller names.
Clean(p) ==
    /\ pending' = [pending EXCEPT ![p] = Absent]
    /\ cleaned' = cleaned \cup {p}
    /\ UNCHANGED <<call, outside, nodeVars>>

-----------------------------------------------------------------------------
(* The nodes.                                                               *)

\* handle_block: only a sign call whose receipt succeeded is queued, i.e. one
\* the contract accepted, now or before the last restart.
Accepted(i) == call[i].status \notin {"new", "refused"}

\* Mutant of Index: the height already indexed is not kept.
IndexForgets(n, i) ==
    /\ Accepted(i)
    /\ queued' = [queued EXCEPT ![n] = @ \cup {i}]
    /\ UNCHANGED <<contractVars, indexed, produced, restarts, historyVars>>

Index(n, i) ==
    /\ Accepted(i) /\ i \notin indexed[n]
    /\ indexed' = [indexed EXCEPT ![n] = @ \cup {i}]
    /\ queued' = [queued EXCEPT ![n] = @ \cup {i}]
    /\ UNCHANGED <<contractVars, produced, restarts, historyVars>>

\* The request is one of the node's my_requests, in whatever epoch, and its
\* signature is produced.
Produce(n, i) ==
    /\ i \in queued[n]
    /\ queued' = [queued EXCEPT ![n] = @ \ {i}]
    /\ produced' = [produced EXCEPT ![n] = @ \cup {i}]
    /\ UNCHANGED <<contractVars, indexed, restarts, historyVars>>

\* publish drains the signatures, one respond transaction each.
Publish(n, i) ==
    /\ i \in produced[n]
    /\ RespondCall(call[i].payload, i)
    /\ produced' = [produced EXCEPT ![n] = @ \ {i}]
    /\ responded' = responded \cup {i}
    /\ repeated' = repeated \cup ({i} \cap responded)
    /\ UNCHANGED <<call, cleaned, outside, indexed, queued, restarts>>

\* An rpc error in publish returns from the drain: the signature it was
\* sending and the ones after it are dropped and never sent again.  (If that
\* transaction was executed all the same, this is a Publish before it.)
PublishFails(n) ==
    /\ produced[n] # {}
    /\ produced' = [produced EXCEPT ![n] = {}]
    /\ UNCHANGED <<contractVars, indexed, queued, restarts, historyVars>>

Restart(n) ==
    /\ restarts < MaxRestarts
    /\ restarts' = restarts + 1
    /\ indexed' = [indexed EXCEPT ![n] = {}]
    /\ queued' = [queued EXCEPT ![n] = {}]
    /\ produced' = [produced EXCEPT ![n] = {}]
    /\ UNCHANGED <<contractVars, historyVars>>

Init ==
    /\ pending = [p \in Payloads |-> Absent]
    /\ call \in [Calls -> {[status |-> "new", payload |-> p, depth |-> 0,
                            answer |-> NoAnswer] : p \in Payloads}]
    /\ cleaned = {} /\ outside = {}
    /\ indexed = [n \in Nodes |-> {}]
    /\ queued = [n \in Nodes |-> {}]
    /\ produced = [n \in Nodes |-> {}]
    /\ responded = {} /\ repeated = {}
    /\ restarts = 0

Next ==
    \/ \E i \in Calls : \/ Sign(i, call[i].payload) \/ SignHelper(i) \/ OutOfGas(i)
                        \/ \E n \in Nodes : Index(n, i) \/ Produce(n, i) \/ Publish(n, i)
                        \/ \E p \in Payloads : RespondOutside(p, i)
    \/ \E p \in Payloads : Clean(p)
    \/ \E n \in Nodes : PublishFails(n) \/ Restart(n)

Spec == Init /\ [][Next]_vars

-----------------------------------------------------------------------------
(* Properties.                                                              *)

Statuses == {"new", "refused", "waiting", "expired", "unexpected", "returned"}

\* Entries, calls and the nodes' queues are well formed, and a node only signs
\* and publishes what it has indexed in this life.
TypeOK ==
    /\ pending \in [Payloads -> Calls \cup {Absent, Unanswered}]
    /\ call \in [Calls -> [status: Statuses, payload: Payloads,
                           depth: 0..MaxDepth, answer: Calls \cup {NoAnswer}]]
    /\ cleaned \subseteq Payloads /\ outside \subseteq Payloads
    /\ indexed \in [Nodes -> SUBSET Calls]
    /\ queued \in [Nodes -> SUBSET Calls] /\ produced \in [Nodes -> SUBSET Calls]
    /\ \A n \in Nodes : queued[n] \subseteq indexed[n] /\ produced[n] \subseteq indexed[n]
    /\ responded \subseteq Calls /\ repeated \subseteq responded
    /\ restarts \in 0..MaxRestarts

Waiting(p) == {i \in Calls : call[i].status = "waiting" /\ call[i].payload = p}

\* Unless clean took it away, a waiting call finds its entry, and it is the
\* only call waiting for that payload: the "unexpected request" panic of
\* sign_helper is unreachable and no two calls race for one answer, however
\* responses of nodes and others, hops out of gas and restarts interleave.
ChainOwnsEntry ==
    \A p \in Payloads \ cleaned :
        /\ Waiting(p) # {} => pending[p] # Absent
        /\ Cardinality(Waiting(p)) <= 1
        /\ \A i \in Calls : call[i].payload = p => call[i].status # "unexpected"

\* An entry no call is waiting for is never removed except by clean: after a
\* time-out, or a response that comes after the answer was collected, every
\* later sign of that payload is refused.
Orphaned(p) == pending[p] # Absent /\ Waiting(p) = {}

OrphanBlocksPayload ==
    [][\A p \in Payloads : Orphaned(p) /\ p \notin cleaned' => Orphaned(p)']_vars

\* No call of the payload was answered twice: by a node that restarted, by two
\* nodes in two epochs.
AnsweredOnce(p) == \A i \in repeated : call[i].payload # p

\* What the integration test asserts of sign (assert_signature): the
\* signature a call returns verifies for the caller's own account and path,
\* although respond is keyed by the payload alone and may come after a call
\* gave up.  So it is as long as the nodes answer every call of the payload
\* once, nobody else responds to it and clean leaves it alone; a second answer
\* for a call that has returned waits for whoever asks next.
ReturnsOwnSignature ==
    \A i \in Calls :
        (call[i].status = "returned" /\ AnsweredOnce(call[i].payload)
            /\ call[i].payload \notin cleaned \cup outside)
                => call[i].answer = i

=============================================================================
