------------------------- MODULE ContractSignProofs -------------------------
(***************************************************************************)
(* Proofs about ContractSign, for every set of calls and payloads, every    *)
(* depth of the promise chain, every number of nodes and of restarts.  The   *)
(* strengthening is a history of one payload that clean has not touched: its *)
(* entry is removed only when a call collects an answer (OneChain), and a    *)
(* signature that is in the map, or was collected, is a response that was    *)
(* given (Collected), so that only a second response for the same call can   *)
(* meet the next call that asks for the payload.                            *)
(***************************************************************************)
EXTENDS ContractSign, FiniteSetTheorems, TLAPS

\* Only calls the contract accepted are signed for.
Queues == \A n \in Nodes : \A i \in indexed[n] : Accepted(i)

\* While a call waits, every other accepted call for its payload has returned;
\* a call that waits or ran out of gas has its entry in the map.
OneChain ==
    \A i \in Calls : call[i].payload \notin cleaned =>
        /\ call[i].status # "unexpected"
        /\ call[i].status \in {"waiting", "expired"} => pending[call[i].payload] # Absent
        /\ call[i].status = "waiting" =>
              \A j \in Calls : call[j].payload = call[i].payload /\ j # i /\ Accepted(j)
                                  => call[j].status = "returned"

\* As long as no call of the payload is answered twice, and nobody but the
\* nodes answers, an answer is for the call that waits.
Collected ==
    /\ \A i \in Calls :
          (/\ call[i].payload \notin cleaned \cup outside /\ AnsweredOnce(call[i].payload)
           /\ call[i].status = "returned")
              => call[i].answer = i /\ i \in responded
    /\ \A p \in Payloads :
          p \notin cleaned \cup outside /\ AnsweredOnce(p) /\ pending[p] \in Calls
              => pending[p] \in responded /\ \A i \in Waiting(p) : pending[p] = i

IInv == TypeOK /\ Queues /\ OneChain /\ Collected

\* What the contract and the runtime know of a call.
CallStates == [status: Statuses, payload: Payloads, depth: 0..MaxDepth,
               answer: Calls \cup {NoAnswer}]

-----------------------------------------------------------------------------
(* Every step keeps the invariant.                                          *)

\* A step that gives call i another state.
LEMMA CallReplaced ==
    ASSUME TypeOK, NEW i \in Calls, NEW c \in CallStates, call' = [call EXCEPT ![i] = c]
    PROVE  /\ DOMAIN call' = Calls /\ call' \in [Calls -> CallStates] /\ call'[i] = c
           /\ \A j \in Calls : j # i => call'[j] = call[j]
  BY DEF TypeOK, CallStates

\* Init: no entry, no call accepted.
LEMMA InitIInv == Init => IInv
<1> SUFFICES ASSUME Init PROVE IInv
  OBVIOUS
<1>1. TypeOK
  BY SignAssumption DEF Init, TypeOK, Statuses
<1>2. \A i \in Calls : call[i].status = "new"
  BY DEF Init
<1>3. Queues /\ OneChain
  BY <1>2 DEF Init, Queues, OneChain
<1>4. Collected
  BY <1>2, AnswerAssumption DEF Init, Collected
<1> QED
  BY <1>1, <1>3, <1>4 DEF IInv

\* sign: an entry that is absent shows that nobody waits for the payload and
\* nobody gave up on it.
LEMMA SignStep ==
    ASSUME IInv, NEW i \in Calls, Sign(i, call[i].payload)
    PROVE  IInv'
<1> DEFINE p == call[i].payload
           To(s) == [call[i] EXCEPT !.status = s, !.payload = p]
<1>1. /\ call[i] \in CallStates /\ p \in Payloads /\ call[i].status = "new"
      /\ UNCHANGED <<cleaned, outside, indexed, queued, produced, restarts, responded, repeated>>
  BY DEF IInv, TypeOK, CallStates, Sign, nodeVars
<1>2. \A n \in Nodes : i \notin indexed[n]
  BY <1>1 DEF IInv, Queues, Accepted
<1>3. ASSUME NEW s \in Statuses
      PROVE  To(s) \in CallStates /\ To(s).status = s /\ To(s).payload = p
  BY <1>1, <1>3 DEF CallStates
<1>4. CASE pending[p] = Absent
  <2>1. pending' = [pending EXCEPT ![p] = Unanswered] /\ call' = [call EXCEPT ![i] = To("waiting")]
    BY <1>4 DEF Sign
  <2>2. /\ DOMAIN call' = Calls /\ call' \in [Calls -> CallStates]
        /\ \A j \in Calls : j # i => call'[j] = call[j]
        /\ call'[i].payload = p /\ call'[i].status = "waiting"
    BY <1>3, <2>1, CallReplaced DEF IInv, Statuses
  <2>3. \A j \in Calls : call[j].payload = p /\ p \notin cleaned /\ Accepted(j)
            => call[j].status = "returned"
    BY <1>4 DEF IInv, TypeOK, OneChain, Accepted, Statuses
  <2>4. TypeOK'
    BY <1>1, <2>1, <2>2 DEF IInv, TypeOK, CallStates
  <2>5. Queues'
    BY <1>1, <1>2, <2>2 DEF IInv, TypeOK, Queues, Accepted
  <2>6. OneChain'
    BY <1>1, <1>2, <2>1, <2>2, <2>3 DEF IInv, TypeOK, OneChain, Accepted, Absent, Unanswered
  <2>7. Collected'
    BY <1>1, <1>2, <2>1, <2>2, AnswerAssumption
       DEF IInv, TypeOK, Collected, AnsweredOnce, Waiting, Unanswered
  <2> QED
    BY <2>4, <2>5, <2>6, <2>7 DEF IInv
<1>5. CASE pending[p] # Absent
  <2>1. pending' = pending /\ call' = [call EXCEPT ![i] = To("refused")]
    BY <1>5 DEF Sign
  <2>2. /\ DOMAIN call' = Calls /\ call' \in [Calls -> CallStates]
        /\ \A j \in Calls : j # i => call'[j] = call[j]
        /\ call'[i].payload = p /\ call'[i].status = "refused"
    BY <1>3, <2>1, CallReplaced DEF IInv, Statuses
  <2>3. TypeOK'
    BY <1>1, <2>1, <2>2 DEF IInv, TypeOK, CallStates
  <2>4. Queues'
    BY <1>1, <1>2, <2>2 DEF IInv, TypeOK, Queues, Accepted
  <2>5. OneChain'
    BY <1>1, <2>1, <2>2 DEF IInv, TypeOK, OneChain, Accepted
  <2>6. Collected'
    BY <1>1, <2>1, <2>2 DEF IInv, TypeOK, Collected, AnsweredOnce, Waiting
  <2> QED
    BY <2>3, <2>4, <2>5, <2>6 DEF IInv
<1> QED
  BY <1>4, <1>5

\* sign_helper: the call that collects an answer is the only one that waits,
\* so nobody is left without an entry.
LEMMA SignHelperStep ==
    ASSUME IInv, NEW i \in Calls, SignHelper(i)
    PROVE  IInv'
<1> DEFINE p == call[i].payload
           To(s, a) == [call[i] EXCEPT !.status = s, !.answer = a]
           Hop == [call[i] EXCEPT !.depth = call[i].depth + 1]
<1>1. /\ call[i] \in CallStates /\ p \in Payloads /\ call[i].status = "waiting"
      /\ call[i].depth \in 0..MaxDepth /\ i \in Waiting(p)
      /\ UNCHANGED <<cleaned, outside, indexed, queued, produced, restarts, responded, repeated>>
  BY DEF IInv, TypeOK, CallStates, SignHelper, nodeVars, Waiting
<1>2. ASSUME NEW s \in Statuses, NEW a \in Calls \cup {NoAnswer}
      PROVE  /\ To(s, a) \in CallStates
             /\ To(s, a).status = s /\ To(s, a).answer = a /\ To(s, a).payload = p
  BY <1>1, <1>2 DEF CallStates
<1> HIDE DEF To
<1>3. \A j \in Calls : p \notin cleaned /\ j # i /\ call[j].payload = p
          => call[j].status \notin {"waiting", "expired"}
  BY <1>1 DEF IInv, OneChain, Accepted
<1>4. CASE pending[p] = Absent
  <2>1. pending' = pending /\ call' = [call EXCEPT ![i] = To("unexpected", NoAnswer)]
    BY <1>4 DEF SignHelper, To, Absent, Unanswered
  <2>2. /\ DOMAIN call' = Calls /\ call' \in [Calls -> CallStates]
        /\ \A j \in Calls : j # i => call'[j] = call[j]
        /\ call'[i].payload = p /\ call'[i].status = "unexpected"
    BY <1>2, <2>1, CallReplaced DEF IInv, Statuses
  <2>3. p \in cleaned
    BY <1>1, <1>4 DEF IInv, OneChain
  <2>4. TypeOK'
    BY <1>1, <2>1, <2>2 DEF IInv, TypeOK, CallStates
  <2>5. Queues'
    BY <1>1, <2>2 DEF IInv, TypeOK, Queues, Accepted
  <2>6. OneChain'
    BY <1>1, <2>1, <2>2, <2>3 DEF IInv, TypeOK, OneChain, Accepted
  <2>7. Collected'
    BY <1>1, <2>1, <2>2, <2>3 DEF IInv, TypeOK, Collected, AnsweredOnce, Waiting
  <2> QED
    BY <2>4, <2>5, <2>6, <2>7 DEF IInv
<1>5. CASE pending[p] = Unanswered
  <2>1. pending' = pending /\ call[i].depth < MaxDepth /\ call' = [call EXCEPT ![i] = Hop]
    BY <1>5 DEF SignHelper, Absent, Unanswered
  <2>2. Hop \in CallStates /\ Hop.status = "waiting" /\ Hop.payload = p
    <3>1. call[i].depth + 1 \in 0..MaxDepth
      BY <1>1, <2>1, SignAssumption
    <3> QED
      BY <1>1, <3>1 DEF CallStates
  <2> HIDE DEF Hop
  <2>3. /\ DOMAIN call' = Calls /\ call' \in [Calls -> CallStates]
        /\ \A j \in Calls : j # i => call'[j] = call[j]
        /\ call'[i].payload = p /\ call'[i].status = "waiting"
    BY <2>1, <2>2, CallReplaced DEF IInv
  <2>4. TypeOK'
    BY <1>1, <2>1, <2>3 DEF IInv, TypeOK, CallStates
  <2>5. Queues'
    BY <1>1, <2>3 DEF IInv, TypeOK, Queues, Accepted
  <2>6. OneChain'
    BY <1>1, <1>3, <1>5, <2>1, <2>3 DEF IInv, TypeOK, OneChain, Accepted, Absent, Unanswered
  <2>7. Collected'
    BY <1>1, <1>5, <2>1, <2>3, AnswerAssumption
       DEF IInv, TypeOK, Collected, AnsweredOnce, Waiting, Unanswered
  <2> QED
    BY <2>4, <2>5, <2>6, <2>7 DEF IInv
<1>6. CASE pending[p] \notin {Absent, Unanswered}
  <2>1. /\ pending' = [pending EXCEPT ![p] = Absent]
        /\ call' = [call EXCEPT ![i] = To("returned", pending[p])]
        /\ pending[p] \in Calls
    BY <1>1, <1>6 DEF SignHelper, To, IInv, TypeOK
  <2>2. /\ DOMAIN call' = Calls /\ call' \in [Calls -> CallStates]
        /\ \A j \in Calls : j # i => call'[j] = call[j]
        /\ call'[i].payload = p /\ call'[i].status = "returned" /\ call'[i].answer = pending[p]
    <3> DEFINE c == To("returned", pending[p])
    <3>1. c \in CallStates /\ c.payload = p /\ c.status = "returned" /\ c.answer = pending[p]
      BY <1>2, <2>1 DEF Statuses
    <3> HIDE DEF c
    <3> QED
      BY <2>1, <3>1, CallReplaced DEF IInv, c
  <2>3. TypeOK'
    BY <1>1, <2>1, <2>2 DEF IInv, TypeOK, CallStates
  <2>4. Queues'
    BY <1>1, <2>2 DEF IInv, TypeOK, Queues, Accepted
  <2>5. OneChain'
    BY <1>1, <1>3, <2>1, <2>2 DEF IInv, TypeOK, OneChain, Accepted
  <2>6. Collected'
    BY <1>1, <2>1, <2>2, AnswerAssumption DEF IInv, TypeOK, Collected, AnsweredOnce, Waiting
  <2> QED
    BY <2>3, <2>4, <2>5, <2>6 DEF IInv
<1> QED
  BY <1>4, <1>5, <1>6

\* A hop without gas ends a call and leaves everything else as it was.
LEMMA OutOfGasStep ==
    ASSUME IInv, NEW i \in Calls, OutOfGas(i)
    PROVE  IInv'
<1> DEFINE c == [call[i] EXCEPT !.status = "expired"]
<1>1. /\ call[i] \in CallStates /\ call[i].status = "waiting"
      /\ call' = [call EXCEPT ![i] = c]
      /\ UNCHANGED <<pending, cleaned, outside, indexed, queued, produced, restarts,
                     responded, repeated>>
  BY DEF IInv, TypeOK, CallStates, OutOfGas, nodeVars
<1>2. c \in CallStates /\ c.status = "expired" /\ c.payload = call[i].payload
  BY <1>1 DEF CallStates, Statuses
<1> HIDE DEF c
<1>3. /\ DOMAIN call' = Calls /\ call' \in [Calls -> CallStates]
      /\ \A j \in Calls : j # i => call'[j] = call[j]
      /\ call'[i].payload = call[i].payload /\ call'[i].status = "expired"
  BY <1>1, <1>2, CallReplaced DEF IInv
<1>4. TypeOK'
  BY <1>1, <1>3 DEF IInv, TypeOK, CallStates
<1>5. Queues'
  BY <1>1, <1>3 DEF IInv, TypeOK, Queues, Accepted
<1>6. OneChain'
  BY <1>1, <1>3 DEF IInv, TypeOK, OneChain, Accepted
<1>7. Collected'
  BY <1>1, <1>3 DEF IInv, TypeOK, Collected, AnsweredOnce, Waiting
<1> QED
  BY <1>4, <1>5, <1>6, <1>7 DEF IInv

\* respond called by somebody else: whose signature it is, is not claimed any
\* more, but the entry is there.
LEMMA RespondOutsideStep ==
    ASSUME IInv, NEW p \in Payloads, NEW i \in Calls, RespondOutside(p, i)
    PROVE  IInv'
<1>1. /\ pending' = [pending EXCEPT ![p] = i] /\ outside' = outside \cup {p}
      /\ UNCHANGED <<call, cleaned, indexed, queued, produced, restarts, responded, repeated>>
  BY DEF RespondOutside, RespondCall, nodeVars
<1>2. TypeOK' /\ Queues'
  BY <1>1 DEF IInv, TypeOK, Queues, Accepted
<1>3. OneChain'
  BY <1>1, AnswerAssumption DEF IInv, TypeOK, OneChain, Accepted
<1>4. Collected'
  BY <1>1 DEF IInv, TypeOK, Collected, AnsweredOnce, Waiting
<1> QED
  BY <1>2, <1>3, <1>4 DEF IInv

\* clean: nothing is claimed of the payload any more.
LEMMA CleanStep ==
    ASSUME IInv, NEW p \in Payloads, Clean(p)
    PROVE  IInv'
<1>1. /\ pending' = [pending EXCEPT ![p] = Absent] /\ cleaned' = cleaned \cup {p}
      /\ UNCHANGED <<call, outside, indexed, queued, produced, restarts, responded, repeated>>
  BY DEF Clean, nodeVars
<1>2. TypeOK' /\ Queues'
  BY <1>1 DEF IInv, TypeOK, Queues, Accepted
<1>3. OneChain'
  BY <1>1 DEF IInv, TypeOK, OneChain, Accepted
<1>4. Collected'
  BY <1>1 DEF IInv, TypeOK, Collected, AnsweredOnce, Waiting
<1> QED
  BY <1>2, <1>3, <1>4 DEF IInv

\* What the nodes do among themselves changes their queues only: only what the
\* contract accepted gets there, and a failed publish or a restart takes away.
LEMMA QueueStep ==
    ASSUME IInv, NEW n \in Nodes,
           \/ \E i \in Calls : Index(n, i) \/ Produce(n, i)
           \/ PublishFails(n) \/ Restart(n)
    PROVE  IInv'
<1>1. UNCHANGED <<pending, call, cleaned, outside, responded, repeated>>
  BY DEF Index, Produce, PublishFails, Restart, contractVars, historyVars
<1>2. OneChain' /\ Collected'
  BY <1>1 DEF IInv, OneChain, Accepted, Collected, AnsweredOnce, Waiting
<1>3. ASSUME NEW i \in Calls, Index(n, i)  PROVE TypeOK' /\ Queues'
  BY <1>1, <1>3 DEF Index, IInv, TypeOK, Queues, Accepted
<1>4. ASSUME NEW i \in Calls, Produce(n, i)  PROVE TypeOK' /\ Queues'
  BY <1>1, <1>4 DEF Produce, IInv, TypeOK, Queues, Accepted
<1>5. CASE PublishFails(n)
  BY <1>1, <1>2, <1>5 DEF PublishFails, IInv, TypeOK, Queues, Accepted
<1>6. CASE Restart(n)
  <2>1. restarts' \in 0..MaxRestarts
    BY <1>6, SignAssumption DEF Restart, IInv, TypeOK
  <2> QED
    BY <1>1, <1>2, <1>6, <2>1 DEF Restart, IInv, TypeOK, Queues, Accepted
<1> QED
  BY <1>2, <1>3, <1>4, <1>5, <1>6 DEF IInv

\* publish: if it is the first response for the call, the call has not
\* returned, so it is the one that waits, if any does.
LEMMA PublishStep ==
    ASSUME IInv, NEW n \in Nodes, NEW i \in Calls, Publish(n, i)
    PROVE  IInv'
<1> DEFINE p == call[i].payload
<1>1. /\ i \in produced[n] /\ p \in Payloads
      /\ pending' = [pending EXCEPT ![p] = i]
      /\ produced' = [produced EXCEPT ![n] = @ \ {i}]
      /\ responded' = responded \cup {i} /\ repeated' = repeated \cup ({i} \cap responded)
      /\ UNCHANGED <<call, cleaned, outside, indexed, queued, restarts>>
  BY DEF Publish, RespondCall, IInv, TypeOK
<1>2. Accepted(i)
  BY <1>1 DEF IInv, TypeOK, Queues
<1>3. TypeOK' /\ Queues'
  BY <1>1 DEF IInv, TypeOK, Queues, Accepted
<1>4. OneChain'
  BY <1>1, AnswerAssumption DEF IInv, TypeOK, OneChain, Accepted
<1>5. Collected'
  <2>1. \A q \in Payloads : AnsweredOnce(q)' => AnsweredOnce(q)
    BY <1>1 DEF AnsweredOnce
  <2>2. AnsweredOnce(p)' => i \notin responded
    BY <1>1 DEF AnsweredOnce
  <2>3. AnsweredOnce(p)' /\ p \notin cleaned \cup outside => call[i].status # "returned"
    BY <2>1, <2>2, <1>1 DEF IInv, Collected
  <2>4. AnsweredOnce(p)' /\ p \notin cleaned \cup outside => \A j \in Waiting(p) : j = i
    BY <1>2, <2>3 DEF IInv, OneChain, Waiting
  <2>5. \A q \in Payloads : Waiting(q)' = Waiting(q)
    BY <1>1 DEF Waiting
  <2>6. \A j \in Calls : call[j].payload \in Payloads
    BY DEF IInv, TypeOK
  <2>11. p' = p
    BY <1>1
  <2> HIDE DEF p
  <2>7. \A q \in Payloads : pending'[q] = IF q = p THEN i ELSE pending[q]
    BY <1>1 DEF IInv, TypeOK
  <2>8. ASSUME NEW j \in Calls, call[j].payload \notin cleaned \cup outside,
               AnsweredOnce(call[j].payload)', call[j].status = "returned"
        PROVE  call[j].answer = j /\ j \in responded'
    BY <1>1, <2>1, <2>6, <2>8 DEF IInv, Collected
  <2>9. ASSUME NEW q \in Payloads, q \notin cleaned \cup outside, AnsweredOnce(q)',
               pending'[q] \in Calls
        PROVE  pending'[q] \in responded' /\ \A j \in Waiting(q) : pending'[q] = j
    <3>1. CASE q = p
      BY <1>1, <2>4, <2>7, <2>9, <2>11, <3>1
    <3>2. CASE q # p
      BY <1>1, <2>1, <2>7, <2>9, <3>2 DEF IInv, Collected
    <3> QED
      BY <3>1, <3>2
  <2>10. \A q \in Payloads :
            AnsweredOnce(q)' = \A j \in repeated' : call[j].payload # q
    BY <1>1 DEF AnsweredOnce
  <2> QED
    BY <1>1, <2>5, <2>6, <2>8, <2>9, <2>10 DEF Collected, AnsweredOnce
<1> QED
  BY <1>3, <1>4, <1>5 DEF IInv

\* Every step, or none.
LEMMA NextIInv == IInv /\ [Next]_vars => IInv'
<1> SUFFICES ASSUME IInv, [Next]_vars PROVE IInv'
  OBVIOUS
<1>1. CASE UNCHANGED vars
  BY <1>1 DEF vars, IInv, TypeOK, Queues, OneChain, Accepted, Collected, AnsweredOnce, Waiting
<1>2. CASE \E i \in Calls : Sign(i, call[i].payload)
  BY <1>2, SignStep
<1>3. CASE \E i \in Calls : SignHelper(i)
  BY <1>3, SignHelperStep
<1>4. CASE \E i \in Calls : OutOfGas(i) \/ \E p \in Payloads : RespondOutside(p, i)
  BY <1>4, OutOfGasStep, RespondOutsideStep
<1>5. CASE \E p \in Payloads : Clean(p)
  BY <1>5, CleanStep
<1>6. CASE \E n \in Nodes : \/ \E i \in Calls : Index(n, i) \/ Produce(n, i)
                           \/ PublishFails(n) \/ Restart(n)
  BY <1>6, QueueStep
<1>7. CASE \E n \in Nodes, i \in Calls : Publish(n, i)
  BY <1>7, PublishStep
<1> QED
  BY <1>1, <1>2, <1>3, <1>4, <1>5, <1>6, <1>7 DEF Next

-----------------------------------------------------------------------------
(* What the invariant says.                                                 *)

\* Entries, calls and queues stay well formed, and a node signs only what it
\* indexed.
THEOREM SignTypes == Spec => []TypeOK
<1>1. IInv => TypeOK
  BY DEF IInv
<1> QED
  BY <1>1, InitIInv, NextIInv, PTL DEF Spec

\* The chain of a payload that clean left alone.
LEMMA IInvChainOwnsEntry == IInv => ChainOwnsEntry
<1> SUFFICES ASSUME IInv, NEW p \in Payloads, p \notin cleaned
             PROVE  /\ Waiting(p) # {} => pending[p] # Absent
                    /\ Cardinality(Waiting(p)) <= 1
                    /\ \A i \in Calls : call[i].payload = p => call[i].status # "unexpected"
  BY DEF ChainOwnsEntry
<1>1. Waiting(p) # {} => pending[p] # Absent
  BY DEF IInv, OneChain, Waiting
<1>2. Cardinality(Waiting(p)) <= 1
  <2>1. \A i, j \in Waiting(p) : i = j
    BY DEF IInv, OneChain, Waiting, Accepted
  <2>2. Waiting(p) = {} \/ \E i \in Waiting(p) : Waiting(p) = {i}
    BY <2>1
  <2>3. Waiting(p) = {} => Cardinality(Waiting(p)) = 0
    BY FS_EmptySet
  <2>4. \A i : Cardinality({i}) = 1
    BY FS_Singleton
  <2> QED
    BY <2>2, <2>3, <2>4
<1>3. \A i \in Calls : call[i].payload = p => call[i].status # "unexpected"
  BY DEF IInv, OneChain
<1> QED
  BY <1>1, <1>2, <1>3

\* A waiting call of a payload clean left alone finds its entry and is the
\* only one that waits: sign_helper's "unexpected request" panic is dead code.
THEOREM EntryIsOwned == Spec => []ChainOwnsEntry
  BY InitIInv, NextIInv, IInvChainOwnsEntry, PTL DEF Spec

\* Although respond is keyed by the payload alone and comes at any time, a
\* call returns the signature made for it, unless the nodes answered a call of
\* the payload twice, somebody else responded to it or clean touched it.
THEOREM SignatureIsOwn == Spec => []ReturnsOwnSignature
<1>1. IInv => ReturnsOwnSignature
  BY DEF IInv, Collected, ReturnsOwnSignature
<1> QED
  BY <1>1, InitIInv, NextIInv, PTL DEF Spec

\* One step leaves an orphaned entry orphaned.
LEMMA OrphanStep ==
    ASSUME IInv, [Next]_vars, NEW p \in Payloads, Orphaned(p), p \notin cleaned'
    PROVE  Orphaned(p)'
<1>1. pending[p] # Absent /\ \A i \in Calls : call[i].payload = p => call[i].status # "waiting"
  BY DEF Orphaned, Waiting
<1> SUFFICES /\ pending'[p] # Absent
             /\ \A i \in Calls : call'[i].payload = p => call'[i].status # "waiting"
  BY DEF Orphaned, Waiting
<1>2. CASE UNCHANGED <<pending, call>>
  BY <1>1, <1>2
<1>3. ASSUME NEW i \in Calls, Sign(i, call[i].payload)
      PROVE  /\ pending'[p] # Absent
             /\ \A j \in Calls : call'[j].payload = p => call'[j].status # "waiting"
  <2> DEFINE To(s) == [call[i] EXCEPT !.status = s, !.payload = call[i].payload]
  <2>1. call[i] \in CallStates /\ DOMAIN call = Calls /\ DOMAIN pending = Payloads
    BY DEF IInv, TypeOK, CallStates
  <2>2. \A s : To(s).status = s /\ To(s).payload = call[i].payload
    BY <2>1 DEF CallStates
  <2>3. CASE pending[call[i].payload] = Absent
    <3>1. /\ call' = [call EXCEPT ![i] = To("waiting")]
          /\ pending' = [pending EXCEPT ![call[i].payload] = Unanswered]
      BY <1>3, <2>3 DEF Sign
    <3>2. call[i].payload # p
      BY <1>1, <2>3
    <3> HIDE DEF To
    <3> QED
      BY <1>1, <2>1, <2>2, <3>1, <3>2
  <2>4. CASE pending[call[i].payload] # Absent
    <3>1. call' = [call EXCEPT ![i] = To("refused")] /\ pending' = pending
      BY <1>3, <2>4 DEF Sign
    <3> HIDE DEF To
    <3> QED
      BY <1>1, <2>1, <2>2, <3>1
  <2> QED
    BY <2>3, <2>4
<1>4. ASSUME NEW i \in Calls, SignHelper(i)
      PROVE  /\ pending'[p] # Absent
             /\ \A j \in Calls : call'[j].payload = p => call'[j].status # "waiting"
  <2>1. call[i].payload # p /\ call[i].payload \in Payloads
    BY <1>1, <1>4 DEF SignHelper, IInv, TypeOK
  <2>2. pending'[p] = pending[p]
    BY <1>4, <2>1 DEF SignHelper, IInv, TypeOK
  <2>3. PICK s, a, d : \/ call' = [call EXCEPT ![i] = [call[i] EXCEPT !.status = s, !.answer = a]]
                       \/ call' = [call EXCEPT ![i] = [call[i] EXCEPT !.depth = d]]
    BY <1>4 DEF SignHelper
  <2>4. call'[i].payload = call[i].payload /\ \A j \in Calls : j # i => call'[j] = call[j]
    <3>1. call[i] \in CallStates /\ DOMAIN call = Calls
      BY DEF IInv, TypeOK, CallStates
    <3>2. /\ [call[i] EXCEPT !.status = s, !.answer = a].payload = call[i].payload
          /\ [call[i] EXCEPT !.depth = d].payload = call[i].payload
      BY <3>1 DEF CallStates
    <3> QED
      BY <2>3, <3>1, <3>2
  <2> QED
    BY <1>1, <2>1, <2>2, <2>4
<1>5. ASSUME NEW i \in Calls,
             \/ \E n \in Nodes : Publish(n, i)
             \/ \E q \in Payloads : RespondOutside(q, i)
      PROVE  pending'[p] # Absent /\ call' = call
  <2>1. PICK q : pending' = [pending EXCEPT ![q] = i] /\ call' = call
    BY <1>5 DEF Publish, RespondOutside, RespondCall
  <2> QED
    BY <1>1, <2>1, AnswerAssumption DEF IInv, TypeOK
<1>6. ASSUME NEW q \in Payloads, Clean(q)
      PROVE  pending'[p] # Absent /\ call' = call
  BY <1>1, <1>6 DEF Clean, IInv, TypeOK
<1>7. ASSUME NEW i \in Calls, OutOfGas(i)
      PROVE  /\ pending' = pending
             /\ \A j \in Calls : call'[j].payload = p => call'[j].status # "waiting"
  BY <1>1, <1>7 DEF OutOfGas, IInv, TypeOK
<1>8. \/ UNCHANGED <<pending, call>>
      \/ \E i \in Calls : \/ Sign(i, call[i].payload) \/ SignHelper(i) \/ OutOfGas(i)
                          \/ \E n \in Nodes : Publish(n, i)
                          \/ \E q \in Payloads : RespondOutside(q, i)
      \/ \E q \in Payloads : Clean(q)
  BY DEF Next, vars, Index, Produce, PublishFails, Restart, contractVars
<1> QED
  BY <1>1, <1>2, <1>3, <1>4, <1>5, <1>6, <1>7, <1>8

\* An entry nobody waits for, left by a time-out or a late response, blocks its
\* payload until clean removes it: no method of the contract or step of the
\* proposer ever collects it.
THEOREM OrphanStays == Spec => OrphanBlocksPayload
<1> DEFINE Kept == \A p \in Payloads : Orphaned(p) /\ p \notin cleaned' => Orphaned(p)'
<1>1. IInv /\ [Next]_vars => [Kept]_vars
  BY OrphanStep
<1> QED
  BY <1>1, InitIInv, NextIInv, PTL DEF Spec, OrphanBlocksPayload

=============================================================================
