----------------------------- MODULE MpcNetwork -----------------------------
(***************************************************************************)
(* The MPC nodes (node/src/protocol) around the contract: the loop of       *)
(* MpcSignProtocol::run, the consensus step of every NodeState              *)
(* (consensus.rs), key generation and resharing (cryptography.rs), the      *)
(* node's secret storage (storage.rs), the /join endpoint (web/mod.rs),     *)
(* crashes and restarts.                                                    *)
(*                                                                          *)
(* One iteration of a node's loop is three steps, because the contract and  *)
(* the other nodes move in between: Fetch reads the contract's state,       *)
(* Progress polls the running cait-sith protocol, Advance takes the         *)
(* consensus step on what Fetch read, possibly long ago.  Transactions act  *)
(* on the contract as it is when they are executed.  The state other        *)
(* threads see is written at the end of the iteration and only if no step   *)
(* failed.                                                                  *)
(*                                                                          *)
(* Abstracted: messages are not modelled one by one; a cait-sith run is a   *)
(* rendezvous of all its participants (Exchange) after which each of them   *)
(* has what it needs as soon as the others' last messages arrive (Deliver). *)
(* A share is the key it belongs to, its epoch and the participant id it    *)
(* was computed for.  What a Running node does for signatures is not here.  *)
(* JoiningState's fields only serve to verify messages and are left out.    *)
(* Accounts are numbers, ordered as the account ids are in a BTreeMap.      *)
(***************************************************************************)
EXTENDS Naturals, FiniteSets, FiniteSetsExt

CONSTANTS Accounts, PublicKeys, NoKey, MaxEpoch,
          CandidateSets, \* the sets of accounts init may be called with
          Threshold,    \* the threshold init is called with
          MaxLeavers,   \* bound on accounts there are votes against at a time
          MaxFaults     \* bound on crashes and failed writes to storage

ASSUME NetworkAssumption ==
    /\ Accounts \subseteq Nat /\ IsFiniteSet(Accounts)
    /\ NoKey \notin PublicKeys
    /\ MaxEpoch \in Nat
    /\ CandidateSets \subseteq SUBSET Accounts
    /\ Threshold \in Nat
    /\ MaxFaults \in Nat /\ MaxLeavers \in Nat

VARIABLES
    contract,  \* the contract's protocol_state
    node,      \* NodeState of each node, as other threads see it
    storage,   \* PersistentNodeData in each node's secret storage
    proto,     \* the cait-sith protocol of each node's state
    loop,      \* where each node is in its loop, and what it holds there
    faults     \* faults so far

vars == <<contract, node, storage, proto, loop, faults>>

C == INSTANCE MpcContract WITH Thresholds <- {Threshold}

-----------------------------------------------------------------------------
(* Participants and shares.                                                 *)

\* The id of an account is its position among the participants.
Id(participants, a) == Cardinality({b \in participants : b < a})

Share(key, epoch, id) == [key |-> key, epoch |-> epoch, id |-> id]
NoShare == [key |-> NoKey, epoch |-> 0, id |-> 0]

NoData == [epoch |-> 0, private_share |-> NoShare, public_key |-> NoKey]
Data(epoch, share, key) == [epoch |-> epoch, private_share |-> share, public_key |-> key]

-----------------------------------------------------------------------------
(* NodeState.  Down is a process that is not running; Err and Panic are not *)
(* states but the other two outcomes of a consensus step.                   *)

Down     == [kind |-> "Down"]
Starting == [kind |-> "Starting"]
Joining  == [kind |-> "Joining"]
Err      == [kind |-> "Err"]
Panic    == [kind |-> "Panic"]

Started(data) == [kind |-> "Started", data |-> data]

Generating(participants, threshold) ==
    [kind |-> "Generating", participants |-> participants, threshold |-> threshold]

Holding(kind, epoch, participants, threshold, share, key) ==
    [kind |-> kind, epoch |-> epoch, participants |-> participants,
     threshold |-> threshold, private_share |-> share, public_key |-> key]

ResharingWith(c, share) ==
    [kind |-> "Resharing", old_epoch |-> c.old_epoch,
     old_participants |-> c.old_participants, new_participants |-> c.new_participants,
     threshold |-> c.threshold, public_key |-> c.public_key, private_share |-> share]

-----------------------------------------------------------------------------
(* cait-sith.  The parameters its constructors accept, and the state of a   *)
(* protocol: live (polled, waiting for the others), meshed (all of them     *)
(* take part in session key), ready (the next poke returns), done.          *)

Idle      == [status |-> "idle", key |-> NoKey]
Live      == [status |-> "live", key |-> NoKey]
InSession(status, key) == [status |-> status, key |-> key]

KeygenOk(participants, threshold) ==
    Cardinality(participants) >= 2 /\ threshold <= Cardinality(participants)

\* Participants are ids here: the old participants that stay are the ids both
\* lists have, and each of them must bring a share.
ReshareOk(c, me, share) ==
    LET old == Cardinality(c.old_participants)
        new == Cardinality(c.new_participants)
    IN  /\ new >= 2
        /\ c.threshold <= new
        /\ c.threshold <= old
        /\ Id(c.new_participants, me) < old => share # NoShare

-----------------------------------------------------------------------------
(* consensus.rs.  XxxTo(me, s, c): what advance makes of state s when the   *)
(* contract state read was c, for the cases that send no transaction.       *)

StartResharing(me, share, c) ==
    IF me \notin c.new_participants THEN Panic
    ELSE IF ~ ReshareOk(c, me, share) THEN Err
    ELSE ResharingWith(c, share)

StartedWithData(me, d, c) ==
    CASE c.phase = "Initializing" -> Err
      [] c.phase = "Running" ->
            IF c.public_key # d.public_key THEN Err
            ELSE IF c.epoch > d.epoch THEN Joining
            ELSE IF c.epoch < d.epoch THEN Err
            ELSE IF me \notin c.participants THEN Joining
            ELSE Holding("Running", d.epoch, c.participants, c.threshold,
                         d.private_share, d.public_key)
      [] c.phase = "Resharing" ->
            IF c.public_key # d.public_key THEN Err
            ELSE IF c.old_epoch > d.epoch THEN Joining
            ELSE IF c.old_epoch < d.epoch THEN Err
            ELSE StartResharing(me, d.private_share, c)

StartedFresh(me, s, c) ==
    IF c.phase # "Initializing" THEN Joining
    ELSE IF me \notin c.candidates THEN s
    ELSE IF ~ KeygenOk(c.candidates, c.threshold) THEN Err
    ELSE Generating(c.candidates, c.threshold)

StartedTo(me, s, c) ==
    IF s.data = NoData THEN StartedFresh(me, s, c) ELSE StartedWithData(me, s.data, c)

GeneratingTo(s, c) ==
    CASE c.phase = "Initializing" -> s
      [] c.phase = "Running" ->
            IF c.epoch > 0 THEN Joining
            ELSE IF s.participants # c.participants \/ s.threshold # c.threshold THEN Err
            ELSE s
      [] c.phase = "Resharing" ->
            IF c.old_epoch > 0 THEN Joining
            ELSE IF s.participants # c.old_participants \/ s.threshold # c.threshold THEN Err
            ELSE s

\* A mutant of WaitingTo: whatever the contract runs or reshares is taken for
\* the consensus waited for.
WaitingTrusts(me, s, c) ==
    IF c.phase = "Initializing" THEN s ELSE [s EXCEPT !.kind = "Running"]

\* The branch for old_epoch + 2 = epoch is guarded by Ordering::Greater of
\* (old_epoch + 1, epoch) and is never taken.
WaitingTo(me, s, c) ==
    CASE c.phase = "Initializing" -> s
      [] c.phase = "Running" ->
            IF c.epoch > s.epoch THEN Joining
            ELSE IF c.epoch < s.epoch THEN Err
            ELSE IF \/ c.participants # s.participants
                    \/ c.threshold # s.threshold
                    \/ c.public_key # s.public_key THEN Err
            ELSE IF me \notin c.participants THEN Panic
            ELSE [s EXCEPT !.kind = "Running"]
      [] c.phase = "Resharing" ->
            IF c.old_epoch + 1 > s.epoch /\ c.old_epoch + 2 = s.epoch
            THEN IF \/ c.old_participants # s.participants
                    \/ c.threshold # s.threshold
                    \/ c.public_key # s.public_key THEN Err
                 ELSE StartResharing(me, s.private_share, c)
            ELSE IF c.old_epoch + 1 > s.epoch THEN Joining
            ELSE IF c.old_epoch + 1 < s.epoch THEN Err
            ELSE s

RunningTo(me, s, c) ==
    CASE c.phase = "Initializing" -> Err
      [] c.phase = "Running" ->
            IF c.epoch > s.epoch THEN Joining
            ELSE IF \/ c.epoch < s.epoch
                    \/ c.participants # s.participants
                    \/ c.threshold # s.threshold
                    \/ c.public_key # s.public_key THEN Err
            ELSE s
      [] c.phase = "Resharing" ->
            IF c.old_epoch > s.epoch THEN Joining
            ELSE IF \/ c.old_epoch < s.epoch
                    \/ me \notin c.old_participants \cap c.new_participants
                    \/ c.public_key # s.public_key THEN Err
            ELSE StartResharing(me, s.private_share, c)

ResharingTo(s, c) ==
    CASE c.phase = "Initializing" -> Err
      [] c.phase = "Running" ->
            IF c.epoch > s.old_epoch + 1 THEN Joining
            ELSE IF \/ c.epoch < s.old_epoch + 1
                    \/ c.participants # s.new_participants
                    \/ c.threshold # s.threshold
                    \/ c.public_key # s.public_key THEN Err
            ELSE s
      [] c.phase = "Resharing" ->
            IF c.old_epoch > s.old_epoch THEN Joining
            ELSE IF \/ c.old_epoch < s.old_epoch
                    \/ c.old_participants # s.old_participants
                    \/ c.new_participants # s.new_participants
                    \/ c.threshold # s.threshold
                    \/ c.public_key # s.public_key THEN Err
            ELSE s

JoiningTo(me, s, c) ==
    CASE c.phase = "Initializing" -> Err
      [] c.phase = "Running" -> s
      [] c.phase = "Resharing" ->
            IF me \in c.new_participants THEN StartResharing(me, NoShare, c) ELSE s

AdvanceTo(me, s, c) ==
    CASE s.kind = "Starting"   -> Started(storage[me])
      [] s.kind = "Started"    -> StartedTo(me, s, c)
      [] s.kind = "Generating" -> GeneratingTo(s, c)
      [] s.kind = "Waiting"    -> WaitingTo(me, s, c)
      [] s.kind = "Running"    -> RunningTo(me, s, c)
      [] s.kind = "Resharing"  -> ResharingTo(s, c)
      [] s.kind = "Joining"    -> JoiningTo(me, s, c)

-----------------------------------------------------------------------------
(* The loop.                                                                *)

Top == [at |-> "top"]

\* A mutant of Stop: the protocol survives the process.
StopKeepsProtocol(n) ==
    /\ node' = [node EXCEPT ![n] = Down]
    /\ loop' = [loop EXCEPT ![n] = Top]
    /\ UNCHANGED proto

\* The process of n ends; everything but its storage is gone.
Stop(n) ==
    /\ node' = [node EXCEPT ![n] = Down]
    /\ proto' = [proto EXCEPT ![n] = Idle]
    /\ loop' = [loop EXCEPT ![n] = Top]

\* A mutant of ProtocolAt: the step that leaves Generating or Resharing starts
\* the protocol of the old state again.
ProtocolAgain(n, s) ==
    IF {s.kind, node[n].kind} \cap {"Generating", "Resharing"} # {} /\ s # node[n]
    THEN Live ELSE proto[n]

\* The protocol of n when its iteration ends in state s: a state with a new
\* protocol starts it; leaving for Joining drops the protocol and the messages
\* it still had to send.
ProtocolAt(n, s) ==
    IF s.kind \in {"Generating", "Resharing"} /\ s # node[n] THEN Live
    ELSE IF s.kind = "Joining" THEN Idle
    ELSE proto[n]

\* The end of an iteration: an error drops the working state, a panic ends
\* the process (cli.rs awaits the protocol task), and otherwise s becomes the
\* node's state.
Conclude(n, s) ==
    \/ /\ s = Panic
       /\ Stop(n)
    \/ /\ s = Err
       /\ loop' = [loop EXCEPT ![n] = Top]
       /\ UNCHANGED <<node, proto>>
    \/ /\ s \notin {Err, Panic}
       /\ node' = [node EXCEPT ![n] = s]
       /\ loop' = [loop EXCEPT ![n] = Top]
       /\ proto' = [proto EXCEPT ![n] = ProtocolAt(n, s)]

\* A fetch of a contract that is not initialised fails and is retried.
Fetch(n) ==
    /\ node[n].kind # "Down"
    /\ loop[n].at = "top"
    /\ contract.phase # "NotInitialized"
    /\ loop' = [loop EXCEPT ![n] = [at |-> "fetched", snap |-> contract]]
    /\ UNCHANGED <<contract, node, storage, proto, faults>>

\* A mutant of Store: the write is acknowledged and lost.
StoreIsLost(n, data) == UNCHANGED storage

\* SecretNodeStorage::store: the one secret of the node is replaced.
Store(n, data) == storage' = [storage EXCEPT ![n] = data]

\* progress when the protocol returns.  Only key generation stores the share.
GeneratingReturns(n) ==
    LET s == node[n]
        key == proto[n].key
        share == Share(key, 0, Id(s.participants, n))
    IN  /\ loop[n].at = "fetched"
        /\ s.kind = "Generating" /\ proto[n].status = "ready"
        /\ proto' = [proto EXCEPT ![n].status = "done"]
        /\ \/ /\ Store(n, Data(0, share, key))
              /\ loop' = [loop EXCEPT ![n] =
                    [at |-> "progressed", snap |-> @.snap,
                     work |-> Holding("Waiting", 0, s.participants, s.threshold, share, key)]]
              /\ UNCHANGED faults
           \/ \* the store fails: progress returns the error, the output is gone
              /\ faults < MaxFaults
              /\ faults' = faults + 1
              /\ loop' = [loop EXCEPT ![n] = Top]
              /\ UNCHANGED storage
        /\ UNCHANGED <<contract, node>>

\* A mutant of NewShare: the state keeps the share it had.
ShareKept(n, s) == s.private_share

\* What resharing s returns to n.
NewShare(n, s) == Share(s.public_key, s.old_epoch + 1, Id(s.new_participants, n))

ResharingReturns(n) ==
    LET s == node[n]
    IN  /\ loop[n].at = "fetched"
        /\ s.kind = "Resharing" /\ proto[n].status = "ready"
        /\ proto' = [proto EXCEPT ![n].status = "done"]
        /\ loop' = [loop EXCEPT ![n] =
              [at |-> "progressed", snap |-> @.snap,
               work |-> Holding("Waiting", s.old_epoch + 1, s.new_participants,
                                s.threshold, NewShare(n, s), s.public_key)]]
        /\ UNCHANGED <<contract, node, storage, faults>>

\* The state advance works on: progress returned it, or left it as it was.
Current(n) == IF loop[n].at = "progressed" THEN loop[n].work ELSE node[n]

\* A mutant of VotesPk: the test for having voted already is inverted.
VotesPkAgain(n) ==
    /\ Current(n).kind = "Waiting"
    /\ loop[n].snap.phase = "Initializing"
    /\ n \in loop[n].snap.pk_votes[Current(n).public_key]

VotesPk(n) ==
    /\ Current(n).kind = "Waiting"
    /\ loop[n].snap.phase = "Initializing"
    /\ n \notin loop[n].snap.pk_votes[Current(n).public_key]

VotesReshared(n) ==
    /\ Current(n).kind = "Waiting"
    /\ loop[n].snap.phase = "Resharing"
    /\ loop[n].snap.old_epoch + 1 = Current(n).epoch
    /\ n \in loop[n].snap.old_participants
    /\ n \notin loop[n].snap.finished_votes

JoinsContract(n) == Current(n).kind = "Joining" /\ loop[n].snap.phase = "Running"

\* progress returned or had nothing to return, and advance is next.
Polled(n) ==
    \/ loop[n].at = "progressed"
    \/ loop[n].at = "fetched" /\ proto[n].status # "ready"

\* advance without a transaction
Advance(n) ==
    /\ Polled(n)
    /\ ~ VotesPk(n) /\ ~ VotesReshared(n) /\ ~ JoinsContract(n)
    /\ Conclude(n, AdvanceTo(n, Current(n), loop[n].snap))
    /\ UNCHANGED <<contract, storage, faults>>

\* advance with a vote: the contract may have moved since the snapshot, and a
\* vote it refuses is unwrapped.
AdvanceVotePk(n) ==
    /\ Polled(n) /\ VotesPk(n)
    /\ LET key == Current(n).public_key
       IN  IF C!VotePkOk(contract, n, key)
           THEN /\ contract' = C!VotePkCall(contract, n, key)
                /\ Conclude(n, Current(n))
           ELSE Conclude(n, Panic) /\ UNCHANGED contract
    /\ UNCHANGED <<storage, faults>>

AdvanceVoteReshared(n) ==
    /\ Polled(n) /\ VotesReshared(n)
    /\ LET epoch == Current(n).epoch
       IN  IF C!VoteResharedOk(contract, n, epoch)
           THEN /\ contract' = C!VoteResharedCall(contract, n, epoch)
                /\ Conclude(n, Current(n))
           ELSE Conclude(n, Panic) /\ UNCHANGED contract
    /\ UNCHANGED <<storage, faults>>

\* A joining node that is no candidate yet sends join; whether the contract
\* accepted it is not looked at.
AdvanceJoin(n) ==
    /\ Polled(n) /\ JoinsContract(n)
    /\ n \notin loop[n].snap.candidates
    /\ contract' = IF C!JoinOk(contract, n) THEN C!JoinCall(contract, n) ELSE contract
    /\ Conclude(n, Joining)
    /\ UNCHANGED <<storage, faults>>

\* A candidate asks the participants that have not voted for it, in order.
AdvanceAsk(n) ==
    /\ Polled(n) /\ JoinsContract(n)
    /\ n \in loop[n].snap.candidates
    /\ loop' = [loop EXCEPT ![n] =
          [at |-> "asking",
           ask |-> @.snap.participants \ @.snap.join_votes[n]]]
    /\ UNCHANGED <<contract, node, storage, proto, faults>>

\* MaxEpoch bounds the epochs: at the last one nobody is voted in or out.
MembershipMayChange == contract.phase = "Running" => contract.epoch < MaxEpoch

\* One request to /join.  A Running node votes, and answers Ok whatever the
\* contract said; any other node refuses and the asking node panics.
AskVote(n) ==
    /\ loop[n].at = "asking"
    /\ MembershipMayChange
    /\ IF loop[n].ask = {}
       THEN Conclude(n, Joining) /\ UNCHANGED contract
       ELSE LET p == Min(loop[n].ask)
            IN  IF node[p].kind = "Running"
                THEN /\ contract' = IF C!VoteJoinOk(contract, p, n)
                                    THEN C!VoteJoinCall(contract, p, n)
                                    ELSE contract
                     /\ loop' = [loop EXCEPT ![n].ask = @ \ {p}]
                     /\ UNCHANGED <<node, proto>>
                ELSE Conclude(n, Panic) /\ UNCHANGED contract
    /\ UNCHANGED <<storage, faults>>

-----------------------------------------------------------------------------
(* cait-sith protocols.                                                     *)

\* All participants of a key generation poll a fresh protocol: it produces a
\* key no other run has produced.
KeygenExchange(key) ==
    /\ \A p \in Accounts : /\ proto[p].key # key
                           /\ storage[p].public_key # key
    /\ \E P \in SUBSET Accounts :
        /\ P # {}
        /\ \A p \in P : /\ node[p].kind = "Generating"
                        /\ node[p].participants = P
                        /\ proto[p] = Live
        /\ proto' = [p \in Accounts |-> IF p \in P THEN InSession("meshed", key) ELSE proto[p]]
    /\ UNCHANGED <<contract, node, storage, loop, faults>>

\* The shares of the old participants interpolate to the root key: each id
\* both lists have is held by a node with that id's share of the old epoch.
\* Otherwise the protocol fails its check of the public key and is refreshed.
SharesFit(s, P) ==
    \A p \in P : Id(P, p) < Cardinality(s.old_participants) =>
        node[p].private_share = Share(s.public_key, s.old_epoch, Id(P, p))

ReshareExchange(n) ==
    /\ node[n].kind = "Resharing"
    /\ LET s == node[n]
           P == s.new_participants
       IN  /\ \A p \in P : /\ node[p].kind = "Resharing"
                           /\ [node[p] EXCEPT !.private_share = NoShare]
                                = [s EXCEPT !.private_share = NoShare]
                           /\ proto[p] = Live
           /\ SharesFit(s, P)
           /\ proto' = [p \in Accounts |-> IF p \in P THEN InSession("meshed", s.public_key)
                                                      ELSE proto[p]]
    /\ UNCHANGED <<contract, node, storage, loop, faults>>

Peers(n) ==
    IF node[n].kind = "Generating" THEN node[n].participants
    ELSE IF node[n].kind = "Resharing" THEN node[n].new_participants
    ELSE {}

\* Nobody has left the session n takes part in: a crash, or a new protocol,
\* takes a node out of it together with the messages it still had to send.
SessionIntact(n) ==
    \A p \in Peers(n) : /\ proto[p].key = proto[n].key
                        /\ proto[p].status \in {"meshed", "ready", "done"}

\* The last messages n needs reach it: handle gives them to the protocol at
\* the end of an iteration.
Deliver(n) ==
    /\ loop[n].at = "top"
    /\ proto[n].status = "meshed"
    /\ SessionIntact(n)
    /\ proto' = [proto EXCEPT ![n].status = "ready"]
    /\ UNCHANGED <<contract, node, storage, loop, faults>>

\* Messages of a peer's new protocol can make an old one fail: it is
\* refreshed and starts over.
Refresh(n) ==
    /\ proto[n].status = "meshed"
    /\ ~ SessionIntact(n)
    /\ proto' = [proto EXCEPT ![n] = Live]
    /\ UNCHANGED <<contract, node, storage, loop, faults>>

-----------------------------------------------------------------------------
(* The environment.                                                         *)

DeployContract ==
    /\ contract.phase = "NotInitialized"
    /\ \E candidates \in CandidateSets : contract' = C!InitCall(Threshold, candidates)
    /\ UNCHANGED <<node, storage, proto, loop, faults>>

\* vote_leave is not called by the node: its operator does.
OperatorVoteLeave(p, leaver) ==
    /\ MembershipMayChange
    /\ C!VoteLeave(p, leaver)
    /\ Cardinality({a \in Accounts : contract.leave_votes[a] # {}} \cup {leaver}) <= MaxLeavers
    /\ UNCHANGED <<node, storage, proto, loop, faults>>

Crash(n) ==
    /\ faults < MaxFaults
    /\ node[n].kind # "Down"
    /\ faults' = faults + 1
    /\ Stop(n)
    /\ UNCHANGED <<contract, storage>>

Restart(n) ==
    /\ node[n].kind = "Down"
    /\ node' = [node EXCEPT ![n] = Starting]
    /\ UNCHANGED <<contract, storage, proto, loop, faults>>

Init ==
    /\ contract = C!NotInitialized
    /\ node = [n \in Accounts |-> Starting]
    /\ storage = [n \in Accounts |-> NoData]
    /\ proto = [n \in Accounts |-> Idle]
    /\ loop = [n \in Accounts |-> Top]
    /\ faults = 0

NodeStep(n) ==
    \/ Fetch(n)
    \/ GeneratingReturns(n)
    \/ ResharingReturns(n)
    \/ Advance(n)
    \/ AdvanceVotePk(n)
    \/ AdvanceVoteReshared(n)
    \/ AdvanceJoin(n)
    \/ AdvanceAsk(n)
    \/ AskVote(n)

Next ==
    \/ DeployContract
    \/ \E n \in Accounts : \/ NodeStep(n) \/ Deliver(n) \/ Refresh(n)
                           \/ ReshareExchange(n) \/ Crash(n) \/ Restart(n)
    \/ \E key \in PublicKeys : KeygenExchange(key)
    \/ \E p, leaver \in Accounts : OperatorVoteLeave(p, leaver)

Spec == Init /\ [][Next]_vars

\* Nothing to do in the loop of n: there is no contract yet, or it asks for votes
\* beyond the last epoch.
Held(n) ==
    \/ contract.phase = "NotInitialized"
    \/ loop[n].at = "asking" /\ ~ MembershipMayChange

\* Every node's loop keeps running, messages are resent until they arrive,
\* cait-sith terminates once they do, and a process that ended is started
\* again.  Every iteration ends by handing over the messages received, so as
\* long as the senders keep them they arrive (strong fairness: the hand-over
\* is possible once per iteration).  Crashes, refreshes and operators' votes
\* are not fair.  The third conjunct is WF_vars(NodeStep(n) \/ Restart(n)), with
\* its condition spelled out and these steps told by what they write.
Fairness ==
    /\ WF_vars(DeployContract)
    /\ WF_vars(\E key \in PublicKeys : KeygenExchange(key))
    /\ \A n \in Accounts : /\ []<>Held(n) \/ []<><<TRUE>>_<<loop[n], node[n]>>
                           /\ SF_vars(Deliver(n))
                           /\ WF_vars(ReshareExchange(n))

FairSpec == Spec /\ Fairness

-----------------------------------------------------------------------------
(* Properties.                                                              *)

Shares == [key: PublicKeys, epoch: 0..MaxEpoch, id: 0..Cardinality(Accounts)]
Datas == [epoch: 0..MaxEpoch, private_share: Shares, public_key: PublicKeys]

\* Every state a node, its storage or its loop can be in is well formed.
TypeOK ==
    /\ C!TypeOK
    /\ storage \in [Accounts -> Datas \cup {NoData}]
    /\ faults \in 0..MaxFaults
    /\ \A n \in Accounts :
        /\ node[n].kind \in {"Down", "Starting", "Started", "Generating", "Waiting",
                             "Running", "Resharing", "Joining"}
        /\ proto[n].status \in {"idle", "live", "meshed", "ready", "done"}
        /\ loop[n].at \in {"top", "fetched", "progressed", "asking"}
        /\ proto[n].status \in {"live", "meshed", "ready"} => Peers(n) # {}

\* The epoch, members and key the contract has agreed on.
Agreed == contract.phase \in {"Running", "Resharing"}
Epoch == IF contract.phase = "Running" THEN contract.epoch ELSE contract.old_epoch
Members == IF contract.phase = "Running" THEN contract.participants
                                         ELSE contract.old_participants

\* Nodes act on stale snapshots, yet a node that signs (Running) is never
\* ahead of the contract, and at the contract's epoch it has the contract's
\* participants, key and threshold; nodes running at one epoch agree.
RunningNodesAgree ==
    \A n \in Accounts : node[n].kind = "Running" =>
        /\ Agreed
        /\ node[n].epoch <= Epoch
        /\ node[n].public_key = contract.public_key
        /\ node[n].epoch = Epoch => node[n].participants = Members
        /\ \A m \in Accounts :
            node[m].kind = "Running" /\ node[m].epoch = node[n].epoch =>
                node[m].participants = node[n].participants

\* The share a node signs or votes with is the share of the node's own id
\* among the participants it believes in, for its epoch and key, also when it
\* was loaded from storage after a restart.
ShareFitsParticipants ==
    \A n \in Accounts : node[n].kind \in {"Waiting", "Running"} =>
        /\ n \in node[n].participants
        /\ node[n].private_share =
             Share(node[n].public_key, node[n].epoch, Id(node[n].participants, n))

\* A vote for a key is cast only after the voter's share of that key is in its
\* storage, so that when the contract adopts a key at epoch 0 a quorum of its
\* participants can still sign with it after restarting.
PkVoteIsDurable ==
    /\ contract.phase = "Initializing" =>
        \A key \in PublicKeys : \A n \in contract.pk_votes[key] :
            storage[n].public_key = key
    /\ Agreed /\ Epoch = 0 =>
        Cardinality({n \in Members : storage[n].public_key = contract.public_key})
            >= Threshold

\* Node n can still produce its share of epoch e: from memory or storage.
Has(s, e) ==
    \/ s.kind \in {"Waiting", "Running"} /\ s.epoch = e
    \/ s.kind = "Resharing" /\ s.old_epoch = e /\ s.private_share # NoShare
Holds(n, e) ==
    \/ Has(node[n], e)
    \/ loop[n].at = "progressed" /\ Has(loop[n].work, e)
    \/ storage[n] # NoData /\ storage[n].epoch = e

\* As long as no process crashes, a quorum of the members of the current
\* epoch holds shares of it while the contract is Running, and also during the
\* first resharing: refused votes and the panics of the code itself never lose
\* the key.  A resharing that begins at a later epoch is left out, because
\* there the key can be lost: a participant still waiting for that epoch drops
\* the only copy of its share (see SomeoneLate).
QuorumHoldsKey ==
    /\ faults = 0
    /\ contract.phase = "Running" \/ (contract.phase = "Resharing" /\ Epoch = 0)
    => Cardinality({n \in Members : Holds(n, Epoch)}) >= Threshold

\* Every participant runs at the epoch of the contract, and every account is a
\* participant unless the bound on epochs keeps it from joining.
Settled ==
    /\ contract.phase = "Running"
    /\ \A n \in contract.participants : node[n].kind = "Running" /\ node[n].epoch = contract.epoch
    /\ contract.participants = Accounts \/ contract.epoch = MaxEpoch

\* A participant is still on its way to the epoch that is being reshared.  The
\* branch of WaitingForConsensusState::advance that was to handle it is never
\* taken: the node goes on as one that has yet to join, without its share, and
\* the resharing waits for it for ever.
SomeoneLate ==
    /\ contract.phase = "Resharing"
    /\ \E n \in contract.old_participants :
        \/ node[n].kind \in {"Started", "Generating"}
        \/ node[n].kind = "Waiting" /\ node[n].epoch = contract.old_epoch

\* An account that sorts earlier joins or leaves, so that one that stays gets
\* another id: its share is of the id it had, SharesFit never holds and the
\* resharing does not end.
IdsShift ==
    /\ contract.phase = "Resharing"
    /\ \E n \in contract.old_participants \cap contract.new_participants :
        Id(contract.old_participants, n) # Id(contract.new_participants, n)

\* Fewer are left than can reshare (ReshareOk), since vote_leave does not ask.
TooFewLeft ==
    contract.phase = "Resharing" /\ ~ KeygenOk(contract.new_participants, contract.threshold)

\* Without crashes and failures, other than the panics of the code itself, the
\* network ends at one epoch: every candidate generates the key, another account
\* is taken in by a resharing, and the rest carry on when one is voted out.
\* Three kinds of membership changes are excepted, which the code does not
\* survive: one that begins before every participant runs, one that shifts the
\* ids of those who stay and one that leaves too few.
NetworkConverges ==
    [](faults = 0 /\ ~ SomeoneLate /\ ~ IdsShift /\ ~ TooFewLeft) => <>[]Settled

=============================================================================
