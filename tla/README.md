# A TLA+ model of mpc-recovery

This directory models the threshold-signature system of the repository: the NEAR
contract that says who holds the root key (`contract/`), the MPC nodes that
generate, reshare and use it (`node/`), and the account recovery service, a leader
and its sign nodes (`mpc-recovery/`). Specifications are checked with TLC on small
instances; their safety properties are proved with TLAPS for all instances, and liveness
is model-checked.
Findings, hazards, the map from definitions to source lines and the list of runs
are in `PROJECT.json`.

## Inventory

| Component | State | Operations | Interacts with |
|---|---|---|---|
| Contract, protocol state (`contract/src/lib.rs`) | NotInitialized, Initializing, Running or Resharing, with participants, candidates, votes, epoch, key | `init`, `join`, `vote_join`, `vote_leave`, `vote_pk`, `vote_reshared`, `clean` | transactions of nodes and operators |
| Contract, signature requests | `pending_requests`: payload to optional signature | `sign`, `sign_helper` (a self-calling promise chain), `respond`, `clean` | users; the indexer sees accepted calls; a proposer responds |
| Node loop (`node/src/protocol/mod.rs`, `consensus.rs`) | `NodeState`; a snapshot of the contract per iteration | fetch, `progress`, `advance`, `handle`, publish the new state | contract through rpc, other nodes through http |
| Key generation and resharing (`cryptography.rs`, `types.rs`) | a cait-sith protocol behind a lock, a queue of messages to send | poke, return, refresh on error | messages of all participants |
| Secret storage (`storage.rs`) | epoch, share, public key | `store` (key generation only), `load` (start only) | survives the process |
| Web (`web/mod.rs`) | none of its own | `/msg`, `/join`, `/state` | reads the state the loop published |
| Indexer, sign queue, signature manager (`indexer.rs`, `signature.rs`) | requests by proposer, generators, finished signatures, all in memory | index, organise, generate, poke, publish | contract, presignatures |
| Triples and presignatures (`triple.rs`, `presignature.rs`) | generators, finished items, ids owned, ids taken | generate, get_or_generate, poke, take | messages binned by epoch and id (`message.rs`) |
| Message queues (`message.rs`, `http_client.rs`) | bins on the receiver, a FIFO on the sender | push, handle, send with retries | all of the above |
| Recovery service: leader (`mpc-recovery/src/leader_node`) | none that matters | claim_oidc, new_account, sign, key set broadcast | sign nodes (commit, reveal, share), relayer |
| Recovery service: sign nodes (`sign_node/`) | committed, revealed, key set, claims, credentials in Datastore | commit, reveal, signature_share, accept_pk_set | leader; Datastore |
| Recovery service: cipher rotation (`sign_node/migration.rs`, `lib.rs`) | the entities one query returned | fetch, decrypt, encrypt, upsert one by one | the Datastore, while sign nodes use it |
| Datastore (`gcp/`) | entities by environment, kind and name | get, insert, upsert, query; conversion of records | sign nodes, rotation |

What is hard here: each node acts on a contract state it read earlier; the
contract, the other nodes and the node's own web handlers move in between; a vote
that comes too late is unwrapped and ends the process; only part of what a node
knows survives that; participants are identified by their position in a sorted map;
signature requests are identified by their payload only, and are answered by a
process that may be late, repeat itself, or restart from an old block; every node
works out by itself which one that is, at a time of its own and from the participants
it then has. Running nodes
feed messages to protocols by id only, while ids outlive the protocols. In the
recovery service any number of calls interleave on the sign nodes' maps and
Datastores, each a chain of rounds that can break off halfway and is retried with
its first attempt's handlers possibly still at work.

What makes the components correct:

* contract: votes count once, only by those entitled, and never survive a change of
  phase; the membership changes by one account at a time; the key never changes;
* requests: one chain per entry, and the caller gets the signature made for it;
* nodes: who signs agrees with the contract and with each other; the share is the
  one of the node's id, epoch and key; the key is never voted in before it is
  durable and never lost while nothing crashes; the network gets to Running;
* sign queue: of the nodes that decide in one epoch one proposes a request, and what
  is asked for while nobody joins or leaves is answered;
* managers: a triple serves one presignature and a presignature one signature; what
  is started is finished by everyone;
* sign nodes: an ephemeral key signs once, in a session that agrees with the one it was
  opened for, and with no key its node has not committed to;
* recovery service: a user has one recovery key for ever, a token serves one key,
  the recovery key is not signed away, and a race of first calls ends well for both;
* cipher rotation: no key is lost, what a run that succeeded has covered can be read
  with the new cipher, a run that failed can be repeated.

## Modules

| Module | What it is |
|---|---|
| `Membership` | abstract specification: one key, members, epoch |
| `MpcContract` | the contract's protocol state; every method as `XxxOk` (does not panic) and `XxxCall` (the state it leaves) |
| `MpcContractProofs` | TLAPS proofs about `MpcContract` |
| `ContractSign` | `pending_requests`, the promise chains, and the proposer as the contract sees it |
| `ContractSignProofs` | TLAPS proofs about `ContractSign` |
| `MpcNetwork` | the nodes around the contract (`C == INSTANCE MpcContract`) |
| `MpcNetworkProofs` | TLAPS proofs about `MpcNetwork` |
| `SignQueue` | who proposes a signature request, across changes of epoch |
| `SignQueueProofs` | TLAPS proofs about `SignQueue` |
| `RunningState` | the running nodes of one epoch: triples, presignatures, signatures and message queues |
| `RunningStateProofs` | TLAPS proofs about `RunningState` |
| `OneTimeNonce` | abstract specification of the ephemeral keys of aggregate signing |
| `AggregateSigner` | `SigningState` of the sign nodes: commit, reveal, signature share |
| `AggregateSignerProofs` | TLAPS proofs about `AggregateSigner` |
| `RecoveryService` | the leader's calls, the sign nodes' handlers and their Datastores |
| `RecoveryServiceProofs` | TLAPS proofs about `RecoveryService` |
| `Datastore` | user credentials as entities of the Datastore and back, ciphers |
| `CipherRotation` | the command that rotates a sign node's cipher, beside the sign nodes |
| `CipherRotationProofs` | TLAPS proofs about `CipherRotation` |
| `MCMpcContract`, `MCContractSign`, `MCMpcNetwork`, `MCSignQueue`, `MCRunning`, `MCAggregateSigner`, `MCRecovery`, `MCCipherRotation` | instances for TLC |

`MpcContract`. The variable `contract` is a record whose `phase` is the variant of
`ProtocolContractState`. A call that panics is reverted, hence no step. Account
data (url, keys) is abstracted away: the contract decides nothing by it. `init`
is `#[init(ignore_state)]` and checks nothing, so `ContractInit` is always possible
and thresholds of 0 are among those checked.

`ContractSign`. A signature is the call it was made for. `SignHelper` is one hop of
the chain; the gas pays for `MaxDepth` hops at most, and a hop may run out of it before
that, also before it reads an answer that is there (`OutOfGas`). The node side keeps what
the contract can observe: only accepted calls are indexed, every node indexes every call
and may come to answer it (in one epoch one does, a later one may let another), an rpc
error drops the rest of the batch, and a restart forgets all and indexes again. `respond`
is open to everyone (`RespondOutside`). `cleaned`, `outside`, `responded` and `repeated`
are history variables: `clean` removes whatever storage keys its caller names, and the
properties say which of these they are about.

`MpcNetwork`. One iteration of `MpcSignProtocol::run` is `Fetch`, then
`GeneratingReturns`/`ResharingReturns` if the protocol is ready (`progress`), then
one `Advance...` action (`advance`), whose end (`Conclude`) publishes the state,
drops it on an error, or ends the process on a panic. `XxxTo` are the consensus
steps of `consensus.rs`, one operator per state. A joining node that asks for votes
does so one request at a time (`AskVote`), as each is a transaction of another node.
cait-sith is external: a run is a rendezvous of all its participants
(`KeygenExchange`, `ReshareExchange`) after which each needs the others' last
messages (`Deliver`), which are gone once a peer crashed or started another
protocol (`SessionIntact`, `Refresh`). `ReshareOk` and `SharesFit` are what the
library asks of its arguments, and they speak of ids, as the code does. `handle`
matters here only as the moment messages reach a protocol; its work for a Running
node is the subject of `RunningState`.

`RunningState`. Nothing but the channel from the web server is shared, so `Iterate`
is one whole turn of the loop: drain the channel into the bins, `progress` (start,
poke, queue messages, in any order of the generators since they are in a hash map)
and `handle`. `node[n]` has one field per field of the managers; `run` and `used` only
serve the properties, as does that `signatures` keeps what was published, and `panicked`
is the unwrap in `take_two`. `lost` are the signatures that `publish` dropped (`Dropped`):
a transaction that cannot be sent ends it, and the turn, before `handle`.
`owner` is the node that the hash of a finished triple selects, the same at every
node. cait-sith is external: a triple takes two exchanges, a presignature and a
signature one; a second message of a sender for the same exchange is ignored, and
errors do not occur. `Arrive` sends the front message of a queue, which stays there
and is sent again if the answer gets lost (`MaxRepeats`); a node's own copies of
triple messages and the encryption are left out. A sign request is named by the
presignature taken for it; which node proposes it is the subject of `SignQueue`.

`SignQueue`. The seed that `sign` logs is what it makes of `choose_multiple` and
`choose` for every number of participants (`Entropies`), so that nodes with the same
number of participants choose the same positions and nothing more is assumed.
`Organized` is `organize`, `MyRequests` is `my_requests`, `Progress` one turn of the
running state: it organises everything and starts some of its requests, as many as
there are presignatures. `indexed`, `unorganized` and `requests` outlive an epoch, as
the queue is shared with the indexer; the managers, hence `generators`, do not. The
resharing is reduced to who takes part and when each node changes its epoch; a
signature is one exchange of all participants of the epoch, since the managers are
built with all of them, not with the subset of signers. `starts` is a history
variable.

`AggregateSigner`. Sign nodes do not know which calls belong together, so a caller
may combine any commitments (`GetReveal`) and any openings (`GetSignatureShare`)
that were handed out, in any order and repeatedly, in lists of any length up to
`MaxLength`. The leader's `call_all_nodes` sends one entry per node, but the code zips
lists without comparing their lengths: commitments are verified, and kept, as far as
there are nodes (`SignedByEveryNode`, `Verified`), openings are checked as far as both
lists go (`OpensCommitments`), and then all openings are summed up and the keys of all
verified commitments aggregated (`Combine`). An id stands for an ephemeral key, the
commitment to it and its opening, which the hash binds together; `Restart` empties the
maps. `absStatus` and `absSessions` are the refinement mapping to `OneTimeNonce`.

`RecoveryService`. A client's call is a chain of rounds (`Post`, then one of
`RoundFails`, `PublicKeyRound`, `SigningRound` when all replies are there). A request
at a sign node is a task with a program counter, because `process_commit`,
`process_public_key` and `get_or_generate_user_creds` read the Datastore in one await
and write it in a later one. A reply counts only if the leader still waits for it; a
task whose connection broke or whose leader restarted may go on. Faults: a lost
connection, a failing Datastore (an insert may have been done all the same), a
restart of a sign node or the leader, a failing relayer; a broadcast that breaks off may
leave the set of node keys in memory and not in the Datastore. Checks of tokens, digests
and partners are left out: a call that fails them ends before it changes anything.
A handler always finishes: a node that accepts a request and never answers, for
which the leader has no time-out, is not modelled.

`Datastore` and `CipherRotation`. A record becomes a `Value`, that an entity with
options, that is read back the other way; a text remembers how it was encoded, and a
sealed key pair with which cipher, so a conversion that does not fit is an error and
not an identity. The kinds of a Datastore carry the environment as a suffix, hence
`db[environment][name]`. One run of the command is `FetchEntities`, then `SkipEntity`
or `RotateEntity` for each entity in any order, then `Finish`; it may fail or crash at
any step and be run again; an insert of a sign node may fail, too, done or not. The
three command lines are in place, to a new environment, and in place with the new key
forgotten. Sign nodes are started with either cipher in either environment and handle
any number of requests; `given` are the public keys they have handed out, `moved` and
`foreign` are history for `RunsAgain`.

## Runs

| Run | Instance | Result |
|---|---|---|
| `contract` | 4 accounts, 2 keys, thresholds 0, 2, 3, epochs to 2 | pass, 4 597 states |
| `sign_requests` | 2 calls of 1 payload, 2 nodes, 2 hops, 1 restart | pass, 785 498 states |
| `network_faults` | candidates 1 and 2, 2 and 3, or 1, 2 and 3, then the missing one joins or any one is voted out; 2 keys, 1 fault, safety and liveness | pass, 1 995 103 states |
| `sign_queue` | 3 accounts, of which 2 or 3 participate at first, 1 request, threshold 2, two changes of the participants, safety and liveness | pass, 1 386 208 states |
| `running` | 2 nodes, 2 triples, 2 presignatures, 2 requests, ids generated twice, safety and liveness | pass, 271 370 states |
| `running_repeats` | 2 nodes, 2 triples, 1 presignature, 1 request, 2 messages repeated, liveness | pass, 110 098 states |
| `running_contention` | 2 nodes, ids generated twice | violated: finding |
| `aggregate_signing` | 2 nodes, 2 signing keys, 3 commitments, 2 of a node at most, lists of up to 3 entries | pass, 27 748 states |
| `recovery` | 2 sign nodes, three sets of 2 or 3 calls, 1 fault | pass, 1 210 280 states |
| `recovery_live` | 2 sign nodes, `new_account` and `sign` of a new user, 1 fault, liveness | pass, 181 017 states |
| `recovery_saved` | the same, a failing Datastore | violated: finding |
| `cipher_rotation` | 2 users and one of another node, 3 command lines, 2 runs of the command, 2 key pairs drawn, 1 fault | pass, 716 037 states |

What the passing runs show is in their `about` lines in `PROJECT.json`, and each
property says in its comment what it is about; every one of them is violated if one
definition of the model is changed the way a bug would change it (the mutants).

Bounds. Four accounts are enough for a join, a leave, a membership one short of the
threshold and an outsider at once. Two epochs show that nothing of one epoch's votes
survives into the next. Two calls of a payload give one that timed out or returned
and one that waits or is refused, two nodes an answer that comes twice; payloads do not
affect each other. In the network a threshold of 2 out of 3 lets two
nodes go on without the third, which is where stale snapshots come from; two out of
two makes every node matter. `MaxFaults` is 1: a fault is a crash or a failed write,
anywhere, and panics of the code itself are not counted. `MaxEpoch` stops membership
changes at the last epoch (`MembershipMayChange`), and `MaxLeavers` is how many accounts
there are leave votes against at a time. Candidates 1 and 2 let an account join that sorts
last, 2 and 3 one that sorts first. Accounts of `MpcNetwork` are
numbers since their order decides the ids, so there is no symmetry there; the
accounts and keys of `MpcContract` are symmetric.

`RunningState`: two triples are what one presignature takes, `MaxRuns` 2 lets a spent
id be generated again, and the thresholds 2 and 10 of `progress` are the code's. Three
nodes are too many states, and so are repeated messages together with second runs, so
`running` has the latter and `running_repeats` the former (`MaxRepeats` 2). `SignQueue`:
two epochs after the first are what it takes for ids to shift and to shift back; the
requests do not affect each other, so one is enough. Deadlock is not checked there: a
member that still waits for an epoch when the next resharing begins stops it for good,
and then nothing is left to do. `CipherRotation`: two users give a rotated record and
one that is not, two runs a repeated one, two draws a race of two handlers.
`AggregateSigner`: two commitments of one node and one of the other give two sessions
that can be mixed and a repeated call; lists of three entries are longer than the number
of nodes, and shorter ones leave a node out. With four commitments (2 067 928 states)
the invariants were checked as well, the refinement was not. The signing keys are
symmetric. `RecoveryService`: `MaxRetries` is 1 where the code has 4; one is enough
because after one full round of `public_key` every node has the user's credentials,
which is what `recovery_live` shows. `Scenarios` lists which calls are made together:
two sign nodes can disagree, two calls can race, and a third comes after or between
them; one fault may happen at any step.

What the properties except, and why:

* `ReturnsOwnSignature` excepts payloads of which a call was answered twice, by a node that
  restarted and indexed old calls again or by another node in a later epoch (see
  `OneProposer`), payloads somebody else than a node responded to, and those `clean`
  touched: `respond` is keyed by the payload, unconditional and open to all. If the payload
  is by then requested by someone else, that caller gets the signature for the first
  caller's account and path.
* `QuorumHoldsKey` excepts crashes: the share of an epoch after 0 is in memory only
  (`ResharingState::progress` does not store it, cryptography.rs:255). A node that
  restarts after a resharing comes back with the share of epoch 0 and has to join
  again, which the contract refuses because it still is a participant. It also excepts
  a resharing that begins at an epoch after 0. There the key can be lost without any
  crash: a participant that finished the previous resharing and is still waiting when
  the next one starts joins anew (the dead branch described next), and drops the only
  copy of its share; with two changes of the members that can leave fewer than a
  quorum. The run has one change, where the exception makes no difference; the proof,
  for any number of them, needs it.
* `NetworkConverges` excepts faults: a crash during key generation leaves the other
  candidates waiting for ever. It also excepts three kinds of membership changes, after
  which the resharing never ends. `SomeoneLate`: a vote to leave starts a resharing while
  a participant is still on its way to the epoch before; the branch of
  `WaitingForConsensusState::advance` that should take that node into it has a guard
  nothing satisfies (consensus.rs:359), and it joins anew without its share. `IdsShift`: an
  account joins, or is voted out, that sorts before one that stays; ids are positions
  (primitives.rs:31), and shares are tied to the ids they were made for. `TooFewLeft`:
  `vote_leave` does not ask how many remain. Each exception is needed: without it the run
  has a counterexample.
* `OneProposer` speaks of nodes that organise and start a request in the same epoch, and
  `QuietRequestAnswered` of requests during which nobody joins or leaves, and whose answer
  is not lost to a transaction that cannot be sent (signature.rs:337). Across a change
  of epoch neither holds: requests are kept under the id the proposer had and the ones of
  other proposers are never removed, so when ids shift another node finds an old request
  under its own id and starts it again, answered or not (its `respond` then leaves an
  entry nobody waits for, see `OrphanBlocksPayload`); two nodes may run the same request at
  once, and neither run ends, because generators are found by the receipt id; or no node
  is left that has the request under its own id. `handle` lets every node take part: its
  test that the request is in the queue is commented out (message.rs:261).
* `OneRun` excepts repeated messages: a message of a first run that is delivered again can
  end up in the second run of the same id.
* `EveryoneFinishes` and `ProposedIsPublished` except what the second run of a spent id
  can lead to (`Spoilt`): two nodes that use the same triples for different presignatures,
  which is finding 1, and a node that panics in `take_two`. `ProposedIsPublished` also
  excepts signatures that `publish` dropped.
* `SharesAgreeOnKeys` speaks of the places both nodes have verified. A caller that sends
  lists of different lengths to two nodes gets shares under different aggregated keys,
  which do not add up; and a list shorter than the number of nodes gives a share without
  the nodes that are missing. `KeysOfTheirNodes` is what remains true of such lists: a key
  is aggregated only if the node of its place has committed to it.
* `KeyKept` excepts the key that a node of the new environment drew for a user before the
  rotation brought the user's record, which it replaces: upsert does not look. What the
  properties of `CipherRotation` do not promise, because it is not so: records beyond the
  first batch of the query and records made meanwhile are not rotated although the
  command succeeds; a rotation in place cannot be run again once a record was moved,
  since decrypting it with the old cipher panics (`RunsAgain`); with the new key left out
  the old one is loaded and the rotation does nothing; and a new environment gets the
  credentials only, not the claims or the set of node keys.
* `TypeOK` of `RunningState` allows `panicked`: an id taken through a message stays in
  `mine`, and when it is generated and owned again it is there twice and `take_two`
  unwraps a triple that is gone.

Fairness. `SignQueue`: the loop and the indexer of every node go on, presignatures
keep coming (`WF` of `EnterRunning`, `Progress`, `Index`, `Complete`), which
`RunningState` is about; users and votes are not fair. `Complete` may lose the answer.
`ContractSign` has none. `MpcNetwork`: the loop of a node never stops and a process that
ended is restarted by its supervisor: this is `WF(NodeStep(n) \/ Restart(n))`, with the
condition under which neither is possible spelled out (`Held`), which TLC evaluates much
faster than `ENABLED`; cait-sith's rounds and the resending queue make a rendezvous
happen once everyone takes part (`WF` of the exchanges), and since `handle` runs in
every iteration a message the sender still has arrives eventually (`SF(Deliver)`).
`RunningState`: every node's loop goes on (`WF(Iterate)`, with its condition spelled out
as `Busy`; checked with `WF` itself, too) and its queue is sent again until it is
received (`WF(Arrive)`). `RecoveryService`: the runtime gets round to every call of the
leader (`WF(LeaderStep(c))`) and to the handlers of each call at each node
(`WF(HandleAt(c, n))`), and the Datastore answers or fails, which no time-out of the
program sees to (transaction.rs:180), so nothing is claimed of calls in general, only of
calls without a fault; clients, losses and restarts are not fair. Crashes, failed
writes, refreshes and operators are not fair.

## Findings

1. `running_contention`: `get_or_generate` starts a triple again that was made and
   spent, because the bin of its id remains and `handle` calls it for every bin; then a
   presignature message that comes once more takes triples of the second run that
   another node owns.
2. `recovery_saved`: `accept_pk_set` reports that it could not save the key set with
   status 500 and a body that is `Ok`; the leader looks at the body. The set is in
   memory, so it is never saved later, and after a restart the node cannot sign until
   the leader is restarted, too.

## Proofs

`MpcContractProofs` proves, for every finite set of accounts, all keys, thresholds
and epoch bounds (`ContractAssumption`):

* `ContractSafety`: `Spec => [](TypeOK /\ NoQuorumPending /\ VotesAreEntitled /\
  ReshareByOne /\ AlmostQuorum)`, and the parts of it as `ContractTypes`,
  `VotesStayOpen` and `VotersAreMembers`;
* `MembershipFreezes`: `Spec => FrozenBelowThreshold`;
* `ContractRefinesMembership`: `Spec => ImplementsMembership`.

The inductive invariant `IInv` is the conjunction of the five invariants; the run
`contract` checks all but `ReshareByOne`, which its refinement of `Membership` implies
for every resharing that completes. `AlmostQuorum` is not inductive alone: that a
resharing starts from a quorum needs `VotesAreEntitled` (the votes that reach the
threshold are votes of participants, so there are at least that many participants,
lemma `QuorumFits`), and that the next epoch is at most one short needs
`ReshareByOne` (lemma `OneFewer`). `NoQuorumPending` is what makes a phase change
happen exactly at the deciding vote. One lemma per method shows that it keeps the
invariant. `FrozenBelowThreshold` follows because a set smaller than the threshold
has no subset that reaches it. The refinement maps a resharing to the old
participants and the old epoch, so that starting one is invisible and completing
it is `Change`.

`AggregateSignerProofs` proves, for any number of nodes, any keys and messages, any
number of commitments and lists of any length (`SignerAssumption`):

* `SigningSafety`: `Spec => [](TypeOK /\ NonceUsedOnce /\ SharesAgreeOnKeys /\
  KeysOfTheirNodes)`, and the parts of it as `SigningTypes`, `SharesAddUp` and
  `NoForeignKeys`;
* `SigningRefinesNonce`: `Spec => ImplementsOneTimeNonce`.

`NonceUsedOnce` speaks of shares only and is far from inductive. The invariant `IInv`
says where an ephemeral key can be: ids that were handed out are below the node's
counter and carry one signing key (`IssuedOnce`), a node holds at most one committed
and at most one revealed state of an id (`CommittedOnce`, `RevealedOnce`), an id is in
one place only, committed, revealed or in a share (`OnePlace`), and a share is made
of commitments that were issued, opened as they were listed as far as both lists go
(`SharesFromIssued`, which with `IssuedOnce` gives `SharesAgreeOnKeys`). What is verified
is the beginning of a list, so a list again (`VerifiedFacts`). One lemma per action keeps
the invariant. The
refinement needs the same facts: a removal from `committed` followed by an insertion
into `revealed` is `Open`, a removal alone is `Burn`, and because of `OnePlace` the
status of every other id stays what it was.

`SignQueueProofs` proves, for any accounts, requests, threshold, initial participants
and number of epochs (`QueueAssumption`), `ProposerIsUnique`: `Spec => []OneProposer`.
The invariant `IInv` adds to it where a node is (`Placed`: who runs is a member of its
epoch), that what a node keeps is under the id the seed selects among the participants
of the epoch it organised in (`Assigned`), and that whoever started a request was, at its
own epoch, at that position (`Entitled`). Two nodes that organised and started in one
epoch then have the same position among the same participants, and positions are
distinct (`IdsDiffer`). `StartedOnce`, that a node does not start a request twice, needs
that it indexes each once and that a request is either unorganised, kept or started
(`Made`, `Assigned`).

`ContractSignProofs` proves `SignTypes`, `EntryIsOwned` (`ChainOwnsEntry`),
`SignatureIsOwn` (`ReturnsOwnSignature`) and `OrphanStays` (`OrphanBlocksPayload`), for
any calls, payloads, nodes, depth and number of restarts; `AnswerAssumption` says that the
marks for "no entry" and "no answer" are not calls. `ReturnsOwnSignature` is not
inductive: `respond` is keyed by the payload, so one must know that no response for an
earlier call is still on its way when the next call makes an entry. The invariant
follows one payload that `clean` did not touch: while a call waits, every other accepted
call on its payload has returned, and only a call that collects an answer removes an
entry (`OneChain`); only accepted calls are signed (`Queues`); and while no call of the
payload was answered twice and nobody but the nodes answers, whoever returned has the
answer for it, so its one response is spent, and an answer in the map is for the call that
waits (`Collected`).

`CipherRotationProofs` proves `RecordsWellFormed`, `NoKeyLost` (`KeyKept`),
`RotationTakesEffect` (`RotatedIsReadable`) and `RotationRepeats` (`RunsAgain`), for any
users, command lines, runs, draws and faults; `EntityAssumption` says that a record's
entity is not the mark for an absent one. The lemma `RoundTrip` is the conversion: what
goes through value and entity comes back as it was. The invariant is about one record:
a record in the source keeps its key pair, so what a run fetched stays what the source
has (`Fetched`), even while sign nodes draw credentials; what the run has written stays
readable with the new cipher (`Written`); a record not moved stays readable with the old
one (`OldReadable`); a record of the new environment was drawn there or is the source's
(`Origin`); a public key given out is that of a record (`Given`).

`RecoveryServiceProofs` proves `RecoveryTypes`, `RecoveryKeyIsUnique` (`OneRecoveryKey`),
`TokenIsClaimed` (`TokenServesOneKey`), `NoDeletionSigned` (`RecoveryKeyStays`) and
`StoreOnlyGrows` (`Spec => [][Kept]_vars`), for any sign nodes, calls, retries and faults;
`RecoveryAssumption` says that a token is of one user and that ids name one call. `Kept`
is the heart: a claim and a credential never change once a Datastore has them. Handlers
read in one step and act in a later one, so the invariant says of every handler
(`Handlers`), every state in memory (`Memory`) and every reply (`Told`) that it is still
what the Datastore of its node says, which by `Kept` no other handler can spoil;
`Recovered` and `Deletions` carry that to the keys clients were given.

`MpcNetworkProofs` proves `NetworkTypes`, `SignersAgree` (`RunningNodesAgree`),
`SharesFitNodes` (`ShareFitsParticipants`), `KeyIsDurable` (`PkVoteIsDurable`) and
`KeyIsNotLost` (`QuorumHoldsKey`), for any finite set of accounts, any keys, threshold,
number of epochs and number of faults (`NetworkAssumption`). A node may act on a
snapshot, and be in a state, that is epochs old, so no invariant that relates it to the
contract of now is inductive. The invariant says instead that there is a history `H`,
the participants of every epoch, which the contract, every snapshot, every state and
every stored share fit (`ContractFits`, `StateFits`, `DataFits`, `LoopFits`). Only a vote
that starts a resharing changes `H`, at an epoch nothing refers to yet, so that all that
fitted still does (`StateIgnoresLater`). Each consensus step of `consensus.rs` has a lemma
that it makes a state that fits from a snapshot that fits and is at least as recent as
the state (`StartedFits` to `JoinerFits`). On top of that votes for a key are backed by
storage (`PkVotesStored`, `StoredQuorum`) and, without a crash, whoever voted that the
resharing is finished keeps its share (`VotersKeep`).

`RunningStateProofs` proves `RunningTypes`, `SharesSpentOnce` (`ShareSpentOnce`),
`MineIsPresent` (`MinePresent`) and `RunsDoNotMix` (`OneRun`), for any finite set of at
least two nodes, any limits of the pools and any number of triples, presignatures, runs
and repeated messages (`RunningAssumption`). Ids are run again after they were spent, so
"spent" says nothing about an id: a share is told apart by the run of its id at the node
that holds it. The invariant `IInv` says of every node (`Managed`) that what it used
belongs to a run that is over, while what it holds or makes belongs to a later one
(`TriplesFit`, `SpentOnce`), that a presignature is in making or held, never both
(`PresigsFit`), and that its list of own presignatures has no double and names only what
it holds (`MineFit`). The last is in danger only from signature messages, which make a
node take what they name: so they name only presignatures in `proposed` (`QueuesFit`,
`SignsFit`), and what a node has drawn, in making as its own or in its list, is neither
proposed yet nor drawn by another node (`MineFit`, `DrawnApart`). Each step of a manager
has a lemma, and a turn is put together from them in the order of the loop
(`IterateStages`).

`OneRun` is the deep one: bins outlive a triple, a spent id is run again, and no message
says of which run it is. Nothing but the order of events keeps runs apart. `Routes` says
how, for each two nodes, id and round: with `c` the runs of which the sender has sent this
message and `h` those of which the receiver has heard it, `h <= c`, at most one such
message is in queue, channel and bin together, it is of run `c`, and if there is one then
`c = h + 1` (`Route`). When the sender sends the next one, nothing is on its way
(`SendingCaughtUp`): to come so far it has heard the receiver's message before it, which
the receiver sent after it had heard this sender's previous one, so `h = c`. Hence what a
protocol hears is of its own run (`HeardOwn`), and so is what it makes (`MadeOfOwn`). A
message that is delivered twice breaks the route, so the invariant is claimed while
`repeats = 0`. `Routes` was checked with TLC on the instance of `running` and on random
behaviours of three nodes.

The inductive invariants of these modules were checked with TLC before they were
proved.

Only model-checked: liveness
(`NetworkConverges`, `QuietRequestAnswered`, `EveryoneFinishes`, `ProposedIsPublished`,
`ClaimedCallSucceeds`), which is out of the prover's
reach.

## Not modelled

The arithmetic of cait-sith, of Ed25519 aggregation, of HPKE and of key derivation;
message formats and signatures on messages; the Google APIs, NEAR's rpc and the
block stream beyond what the code does with their results; the test harnesses,
infrastructure and load tests. Candidates' urls and keys (a hazard is noted for
`join` overwriting them). Time: time-outs and retries are nondeterministic choices.

## Plan

Done: the contract and its requests, the node network, the sign queue, the running
state, aggregate signing, the recovery service, cipher rotation. Next, in this order:

1. Proofs: that the network drives the contract only through steps of `MpcContract`, so
   that its theorems hold there.
2. `RunningState` with restarts, with a participant that stays down, and with errors of
   cait-sith, on which `poke` returns and drops what the other generators had produced.
3. A sign node that accepts a request and never answers (transaction.rs:180), and what it
   holds up.
4. `MpcContract` with the url and keys of candidates, which `join` replaces.
5. The relayer client with its nonce cache, and the checks of OIDC tokens.
