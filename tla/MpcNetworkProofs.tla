-------------------------- MODULE MpcNetworkProofs --------------------------
(***************************************************************************)
(* Proofs about MpcNetwork, for any accounts, keys, threshold, number of    *)
(* epochs and number of faults.                                             *)
(*                                                                          *)
(* Nodes work on snapshots of the contract that may be epochs old, and keep *)
(* states made from them.  The argument is that the contract never changes  *)
(* its mind about an epoch: there is a history H, the participants of every *)
(* epoch so far, and everything anyone holds (the contract, a snapshot, a   *)
(* state, a stored share) was made for the participants H gives for its     *)
(* epoch.  Only a vote that starts a resharing extends H, at an epoch that  *)
(* nobody has heard of yet.                                                 *)
(***************************************************************************)
EXTENDS MpcNetwork, FiniteSetTheorems, TLAPS

-----------------------------------------------------------------------------
(* The shapes of the state.                                                 *)

ContractStates == C!InitializingStates \cup C!RunningStates \cup C!ResharingStates

AnyShare == [key: PublicKeys \cup {NoKey}, epoch: Nat, id: Nat]

StartedStates == [kind: {"Started"}, data: Datas \cup {NoData}]

GeneratingStates ==
    [kind: {"Generating"}, participants: SUBSET Accounts, threshold: {Threshold}]

HoldingStates(kinds) ==
    [kind: kinds, epoch: 0..MaxEpoch, participants: SUBSET Accounts,
     threshold: {Threshold}, private_share: AnyShare, public_key: PublicKeys]

ResharingStates ==
    [kind: {"Resharing"}, old_epoch: 0..MaxEpoch, old_participants: SUBSET Accounts,
     new_participants: SUBSET Accounts, threshold: {Threshold}, public_key: PublicKeys,
     private_share: AnyShare]

NodeStates ==
    {Down, Starting, Joining} \cup StartedStates \cup GeneratingStates
        \cup HoldingStates({"Waiting", "Running"}) \cup ResharingStates

FetchedStates == [at: {"fetched"}, snap: ContractStates]
ProgressedStates ==
    [at: {"progressed"}, snap: ContractStates, work: HoldingStates({"Waiting"})]
AskingStates == [at: {"asking"}, ask: SUBSET Accounts]
LoopStates == {Top} \cup FetchedStates \cup ProgressedStates \cup AskingStates

Protos == [status: {"idle", "live", "meshed", "ready", "done"}, key: PublicKeys \cup {NoKey}]

-----------------------------------------------------------------------------
(* What history H, the participants of each epoch, says of the parts.       *)

Histories == [0..MaxEpoch -> SUBSET Accounts]

AgreedIn(c) == c.phase \in {"Running", "Resharing"}
EpochIn(c) == IF c.phase = "Running" THEN c.epoch ELSE c.old_epoch

\* The last epoch that state c of the contract says anything about.
LastEpoch(c) == IF c.phase = "Running" THEN c.epoch
                ELSE IF c.phase = "Resharing" THEN c.old_epoch + 1
                ELSE 0

ContractFits(H, c) ==
    /\ c.phase = "Initializing" => c.candidates = H[0]
    /\ c.phase = "Running" => c.participants = H[c.epoch]
    /\ c.phase = "Resharing" =>
        /\ c.old_epoch < MaxEpoch
        /\ c.old_participants = H[c.old_epoch]
        /\ c.new_participants = H[c.old_epoch + 1]

\* The contract was in state b before it was in state c.
Before(b, c) ==
    /\ c.phase # "NotInitialized"
    /\ LastEpoch(b) <= LastEpoch(c)
    /\ AgreedIn(b) => /\ AgreedIn(c)
                      /\ c.public_key = b.public_key
                      /\ EpochIn(b) <= EpochIn(c)

\* The epoch a node's state is about, and the one a protocol of it leads to.
StateEpoch(s) == IF s.kind \in {"Waiting", "Running"} THEN s.epoch
                 ELSE IF s.kind = "Resharing" THEN s.old_epoch + 1
                 ELSE 0

\* s is a state of n that holds the share of n's own id.
HolderFits(H, n, s) ==
    /\ s.participants = H[s.epoch]
    /\ n \in H[s.epoch]
    /\ s.private_share = Share(s.public_key, s.epoch, Id(H[s.epoch], n))

\* State s of node n, whose storage has d, when the contract is c.
StateFits(H, n, s, d, c) ==
    /\ s \in NodeStates
    /\ s.kind = "Started" => s.data = d
    /\ s.kind \in {"Generating", "Waiting", "Running", "Resharing"} =>
        /\ c.phase # "NotInitialized"
        /\ StateEpoch(s) <= LastEpoch(c)
    /\ s.kind = "Generating" => s.participants = H[0] /\ n \in H[0]
    /\ s.kind \in {"Waiting", "Running"} => HolderFits(H, n, s)
    /\ s.kind = "Waiting" /\ s.epoch = 0 => d.public_key = s.public_key
    /\ s.kind \in {"Running", "Resharing"} \/ (s.kind = "Waiting" /\ s.epoch > 0) =>
        AgreedIn(c) /\ s.public_key = c.public_key
    /\ s.kind = "Running" => s.epoch <= EpochIn(c)
    /\ s.kind = "Resharing" =>
        /\ s.old_epoch < MaxEpoch
        /\ s.new_participants = H[s.old_epoch + 1]
        /\ n \in H[s.old_epoch + 1]

DataFits(H, n, d, c) ==
    /\ d \in Datas \cup {NoData}
    /\ d # NoData =>
        /\ c.phase # "NotInitialized"
        /\ n \in H[0]
        /\ d.public_key \in PublicKeys
        /\ d = Data(0, Share(d.public_key, 0, Id(H[0], n)), d.public_key)

\* Node n works on state s with snapshot b, read when it was in s already or
\* in the state that s was made of.
Snapshot(H, s, b, c) ==
    /\ ContractFits(H, b)
    /\ Before(b, c)
    /\ StateEpoch(s) <= LastEpoch(b)

LoopFits(H, n, s, lo, d, c) ==
    /\ lo \in LoopStates
    /\ lo.at # "top" => s.kind # "Down"
    /\ lo.at = "asking" => s.kind = "Joining"
    /\ lo.at = "fetched" => Snapshot(H, s, lo.snap, c)
    /\ lo.at = "progressed" =>
        Snapshot(H, lo.work, lo.snap, c) /\ StateFits(H, n, lo.work, d, c)

ProtoFits(s, lo, pr, d) ==
    /\ pr \in Protos
    /\ pr.status \in {"live", "meshed", "ready"} => s.kind \in {"Generating", "Resharing"}
    /\ pr.status \in {"meshed", "ready"} => pr.key \in PublicKeys
    /\ s.kind = "Generating" /\ pr.status # "done" => d = NoData
    /\ lo.at = "progressed" => pr.status = "done"

NodeFits(H, n, s, lo, pr, d, c) ==
    /\ StateFits(H, n, s, d, c)
    /\ DataFits(H, n, d, c)
    /\ LoopFits(H, n, s, lo, d, c)
    /\ ProtoFits(s, lo, pr, d)

-----------------------------------------------------------------------------
(* The inductive invariant.                                                 *)

Types ==
    /\ node \in [Accounts -> NodeStates]
    /\ storage \in [Accounts -> Datas \cup {NoData}]
    /\ proto \in [Accounts -> Protos]
    /\ loop \in [Accounts -> LoopStates]
    /\ faults \in 0..MaxFaults
    /\ contract \in {C!NotInitialized} \cup ContractStates

NodesFit(H) ==
    \A n \in Accounts : NodeFits(H, n, node[n], loop[n], proto[n], storage[n], contract)

\* Votes for a key are of candidates that have stored their share of it.
PkVotesStored ==
    contract.phase = "Initializing" =>
        \A key \in PublicKeys : \A n \in contract.pk_votes[key] :
            n \in contract.candidates /\ storage[n].public_key = key

StoredQuorum ==
    Agreed /\ Epoch = 0 =>
        Cardinality({n \in Members : storage[n].public_key = contract.public_key}) >= Threshold

\* State s, or what the loop lo has in hand, holds a share of epoch e.
Keeps(s, lo, e) ==
    LET current == IF lo.at = "progressed" THEN lo.work ELSE s
    IN  current.kind \in {"Waiting", "Running"} /\ current.epoch = e

\* Without crashes, whoever voted that it finished the resharing keeps its
\* share, and a quorum does once the votes have made the epoch current.
VotersKeep ==
    faults = 0 =>
        /\ contract.phase = "Resharing" =>
            \A n \in contract.finished_votes :
                n \in contract.old_participants /\ Keeps(node[n], loop[n], contract.old_epoch + 1)
        /\ contract.phase = "Running" /\ contract.epoch > 0 =>
            Cardinality({n \in contract.participants : Keeps(node[n], loop[n], contract.epoch)})
                >= Threshold

Fits(H) == ContractFits(H, contract) /\ NodesFit(H)

IInv ==
    /\ Types
    /\ \E H \in Histories : Fits(H)
    /\ PkVotesStored
    /\ StoredQuorum
    /\ VotersKeep

-----------------------------------------------------------------------------
(* The shapes.                                                              *)

\* An id is at most the number of accounts.
LEMMA IdBound ==
    ASSUME NEW P \in SUBSET Accounts, NEW n \in Accounts
    PROVE  Id(P, n) \in 0..Cardinality(Accounts)
<1>1. IsFiniteSet(Accounts)
  BY NetworkAssumption
<1>2. {b \in P : b < n} \subseteq Accounts
  OBVIOUS
<1>3. /\ IsFiniteSet({b \in P : b < n})
      /\ Cardinality({b \in P : b < n}) <= Cardinality(Accounts)
  BY <1>1, <1>2, FS_Subset
<1>4. Cardinality({b \in P : b < n}) \in Nat /\ Cardinality(Accounts) \in Nat
  BY <1>1, <1>3, FS_CardinalityType
<1> QED
  BY <1>3, <1>4 DEF Id

\* The share of an id, and the data made of it, are well formed.
LEMMA ShareShape ==
    ASSUME NEW P \in SUBSET Accounts, NEW n \in Accounts, NEW key \in PublicKeys,
           NEW e \in 0..MaxEpoch
    PROVE  /\ Share(key, e, Id(P, n)) \in Shares
           /\ Share(key, e, Id(P, n)) \in AnyShare
           /\ Data(e, Share(key, e, Id(P, n)), key) \in Datas
           /\ Data(e, Share(key, e, Id(P, n)), key).public_key = key
           /\ Data(e, Share(key, e, Id(P, n)), key) # NoData
<1>1. Id(P, n) \in 0..Cardinality(Accounts) /\ Id(P, n) \in Nat
  BY IdBound
<1>2. e \in Nat
  BY NetworkAssumption
<1>3. Share(key, e, Id(P, n)) \in Shares /\ Share(key, e, Id(P, n)) \in AnyShare
  BY <1>1, <1>2 DEF Share, Shares, AnyShare
<1>4. key # NoKey
  BY NetworkAssumption
<1> QED
  BY <1>3, <1>4 DEF Data, Datas, NoData

\* The kind of a node's state tells its shape.
LEMMA KindIsShape ==
    ASSUME NEW s \in NodeStates
    PROVE  /\ s.kind \in {"Down", "Starting", "Joining", "Started", "Generating",
                          "Waiting", "Running", "Resharing"}
           /\ s.kind = "Down" => s = Down
           /\ s.kind = "Starting" => s = Starting
           /\ s.kind = "Joining" => s = Joining
           /\ s.kind = "Started" => s \in StartedStates
           /\ s.kind = "Generating" => s \in GeneratingStates
           /\ s.kind \in {"Waiting", "Running"} => s \in HoldingStates({"Waiting", "Running"})
           /\ s.kind = "Resharing" => s \in ResharingStates
           /\ StateEpoch(s) \in Nat
<1>1. MaxEpoch \in Nat
  BY NetworkAssumption
<1>2. s \in {Down, Starting, Joining} \/ s \in StartedStates \/ s \in GeneratingStates
        \/ s \in HoldingStates({"Waiting", "Running"}) \/ s \in ResharingStates
  BY DEF NodeStates
<1>3. CASE s \in {Down, Starting, Joining}
  BY <1>3 DEF Down, Starting, Joining, StateEpoch
<1>4. CASE s \in StartedStates
  BY <1>4 DEF StartedStates, StateEpoch
<1>5. CASE s \in GeneratingStates
  BY <1>5 DEF GeneratingStates, StateEpoch
<1>6. CASE s \in HoldingStates({"Waiting", "Running"})
  BY <1>1, <1>6 DEF HoldingStates, StateEpoch
<1>7. CASE s \in ResharingStates
  BY <1>1, <1>7 DEF ResharingStates, StateEpoch
<1> QED
  BY <1>2, <1>3, <1>4, <1>5, <1>6, <1>7

\* The phase of the contract tells its variant.
LEMMA PhaseIsVariant ==
    ASSUME NEW c \in {C!NotInitialized} \cup ContractStates
    PROVE  /\ c.phase \in {"NotInitialized", "Initializing", "Running", "Resharing"}
           /\ c.phase # "NotInitialized" <=> c \in ContractStates
           /\ c.phase = "NotInitialized" => c = C!NotInitialized
           /\ c.phase = "Initializing" =>
                c \in C!InitializingStates /\ c.threshold = Threshold
           /\ c.phase = "Running" => c \in C!RunningStates /\ c.threshold = Threshold
           /\ c.phase = "Resharing" => c \in C!ResharingStates /\ c.threshold = Threshold
           /\ LastEpoch(c) \in Nat
           /\ AgreedIn(c) => /\ EpochIn(c) \in 0..MaxEpoch
                             /\ c.public_key \in PublicKeys
                             /\ EpochIn(c) <= LastEpoch(c)
<1>1. MaxEpoch \in Nat
  BY NetworkAssumption
<1>2. CASE c = C!NotInitialized
  BY <1>2 DEF C!NotInitialized, ContractStates, C!InitializingStates, C!RunningStates,
              C!ResharingStates, LastEpoch, AgreedIn
<1>3. CASE c \in C!InitializingStates
  BY <1>3 DEF ContractStates, C!InitializingStates, LastEpoch, AgreedIn
<1>4. CASE c \in C!RunningStates
  BY <1>1, <1>4 DEF ContractStates, C!RunningStates, LastEpoch, AgreedIn, EpochIn
<1>5. CASE c \in C!ResharingStates
  BY <1>1, <1>5 DEF ContractStates, C!ResharingStates, LastEpoch, AgreedIn, EpochIn
<1> QED
  BY <1>2, <1>3, <1>4, <1>5 DEF ContractStates

\* Where the loop is tells what it holds.
LEMMA AtIsShape ==
    ASSUME NEW lo \in LoopStates
    PROVE  /\ lo.at \in {"top", "fetched", "progressed", "asking"}
           /\ lo.at = "top" => lo = Top
           /\ lo.at = "fetched" => lo \in FetchedStates
           /\ lo.at = "progressed" => lo \in ProgressedStates
           /\ lo.at = "asking" => lo \in AskingStates
           /\ lo.at \in {"fetched", "progressed"} => lo.snap \in ContractStates
           /\ lo.at = "progressed" => lo.work.kind = "Waiting" /\ lo.work \in NodeStates
<1>1. CASE lo = Top
  BY <1>1 DEF Top
<1>2. CASE lo \in FetchedStates
  BY <1>2 DEF FetchedStates
<1>3. CASE lo \in ProgressedStates
  BY <1>3 DEF ProgressedStates, HoldingStates, NodeStates
<1>4. CASE lo \in AskingStates
  BY <1>4 DEF AskingStates
<1> QED
  BY <1>1, <1>2, <1>3, <1>4 DEF LoopStates

-----------------------------------------------------------------------------
(* The contract moves on and the history grows; what nodes hold still fits. *)

\* The order of the contract's states is transitive.
LEMMA BeforeTransitive ==
    ASSUME NEW a \in {C!NotInitialized} \cup ContractStates,
           NEW b \in {C!NotInitialized} \cup ContractStates,
           NEW c \in {C!NotInitialized} \cup ContractStates,
           Before(a, b), Before(b, c)
    PROVE  Before(a, c)
<1>1. LastEpoch(a) \in Nat /\ LastEpoch(b) \in Nat /\ LastEpoch(c) \in Nat
  BY PhaseIsVariant
<1>2. ASSUME AgreedIn(a)
      PROVE  AgreedIn(c) /\ c.public_key = a.public_key /\ EpochIn(a) <= EpochIn(c)
  <2>1. AgreedIn(b) /\ AgreedIn(c)
    BY <1>2 DEF Before
  <2>2. EpochIn(a) \in Nat /\ EpochIn(b) \in Nat /\ EpochIn(c) \in Nat
    BY <1>2, <2>1, PhaseIsVariant, NetworkAssumption
  <2> QED
    BY <1>2, <2>1, <2>2 DEF Before
<1> QED
  BY <1>1, <1>2 DEF Before

\* And reflexive.
LEMMA BeforeReflexive ==
    ASSUME NEW c \in ContractStates
    PROVE  Before(c, c)
<1>1. c.phase # "NotInitialized" /\ LastEpoch(c) \in Nat
  BY PhaseIsVariant
<1>2. AgreedIn(c) => EpochIn(c) \in Nat
  BY PhaseIsVariant, NetworkAssumption
<1> QED
  BY <1>1, <1>2 DEF Before

\* A state of a node that fits still does when the contract has moved on.
LEMMA StateStillFits ==
    ASSUME NEW H \in Histories, NEW n \in Accounts, NEW s, NEW d,
           NEW c \in {C!NotInitialized} \cup ContractStates,
           NEW cc \in {C!NotInitialized} \cup ContractStates,
           Before(c, cc), StateFits(H, n, s, d, c)
    PROVE  StateFits(H, n, s, d, cc)
<1>1. LastEpoch(c) \in Nat /\ LastEpoch(cc) \in Nat /\ LastEpoch(c) <= LastEpoch(cc)
  BY PhaseIsVariant DEF Before
<1>2. s \in NodeStates /\ StateEpoch(s) \in Nat
  BY KindIsShape DEF StateFits
<1>3. s.kind \in {"Generating", "Waiting", "Running", "Resharing"} =>
        cc.phase # "NotInitialized" /\ StateEpoch(s) <= LastEpoch(cc)
  BY <1>1, <1>2 DEF StateFits, Before
<1>4. s.kind \in {"Running", "Resharing"} \/ (s.kind = "Waiting" /\ s.epoch > 0) =>
        AgreedIn(cc) /\ s.public_key = cc.public_key
  BY DEF StateFits, Before
<1>5. s.kind = "Running" => s.epoch <= EpochIn(cc)
  <2> SUFFICES ASSUME s.kind = "Running" PROVE s.epoch <= EpochIn(cc)
    OBVIOUS
  <2>1. AgreedIn(c) /\ AgreedIn(cc) /\ EpochIn(c) <= EpochIn(cc)
        /\ s.epoch <= EpochIn(c)
    BY DEF StateFits, Before
  <2>2. s.epoch \in Nat /\ EpochIn(c) \in Nat /\ EpochIn(cc) \in Nat
    BY <1>2, <2>1, PhaseIsVariant, NetworkAssumption DEF StateEpoch
  <2> QED
    BY <2>1, <2>2
<1> QED
  BY <1>3, <1>4, <1>5 DEF StateFits

\* The same for all that a node holds.
LEMMA NodeStillFits ==
    ASSUME NEW H \in Histories, NEW n \in Accounts, NEW s, NEW lo, NEW pr, NEW d,
           NEW c \in {C!NotInitialized} \cup ContractStates,
           NEW cc \in {C!NotInitialized} \cup ContractStates,
           Before(c, cc), NodeFits(H, n, s, lo, pr, d, c)
    PROVE  NodeFits(H, n, s, lo, pr, d, cc)
<1>1. StateFits(H, n, s, d, cc)
  BY StateStillFits DEF NodeFits
<1>2. DataFits(H, n, d, cc)
  BY DEF NodeFits, DataFits, Before
<1>3. LoopFits(H, n, s, lo, d, cc)
  <2>1. lo \in LoopStates /\ LoopFits(H, n, s, lo, d, c)
    BY DEF NodeFits, LoopFits
  <2>2. lo.at \in {"fetched", "progressed"} => Before(lo.snap, cc)
    <3> SUFFICES ASSUME lo.at \in {"fetched", "progressed"} PROVE Before(lo.snap, cc)
      OBVIOUS
    <3>1. lo.snap \in ContractStates /\ Before(lo.snap, c)
      BY <2>1, AtIsShape DEF LoopFits, Snapshot
    <3> QED
      BY <3>1, BeforeTransitive
  <2>3. lo.at = "progressed" => StateFits(H, n, lo.work, d, cc)
    BY <2>1, StateStillFits DEF LoopFits
  <2> QED
    BY <2>1, <2>2, <2>3 DEF LoopFits, Snapshot
<1>4. ProtoFits(s, lo, pr, d)
  BY DEF NodeFits
<1> QED
  BY <1>1, <1>2, <1>3, <1>4 DEF NodeFits

\* Histories that agree on every epoch up to the contract's last one.
SameSoFar(H, G, c) == \A e \in 0..MaxEpoch : e <= LastEpoch(c) => G[e] = H[e]

\* What an earlier state of the contract says does not depend on later epochs.
LEMMA ContractIgnoresLater ==
    ASSUME NEW H \in Histories, NEW G \in Histories,
           NEW b \in ContractStates, NEW c \in {C!NotInitialized} \cup ContractStates,
           Before(b, c), SameSoFar(H, G, c), ContractFits(H, b)
    PROVE  ContractFits(G, b)
<1>1. LastEpoch(b) \in Nat /\ LastEpoch(c) \in Nat /\ LastEpoch(b) <= LastEpoch(c)
  BY PhaseIsVariant DEF Before
<1>2. MaxEpoch \in Nat
  BY NetworkAssumption
<1>3. CASE b.phase = "Initializing"
  BY <1>1, <1>2, <1>3 DEF ContractFits, SameSoFar, LastEpoch
<1>4. CASE b.phase = "Running"
  <2>1. b.epoch \in 0..MaxEpoch /\ LastEpoch(b) = b.epoch
    BY <1>4, PhaseIsVariant DEF C!RunningStates, LastEpoch
  <2> QED
    BY <1>1, <1>2, <1>4, <2>1 DEF ContractFits, SameSoFar
<1>5. CASE b.phase = "Resharing"
  <2>1. b.old_epoch \in 0..MaxEpoch /\ LastEpoch(b) = b.old_epoch + 1 /\ b.old_epoch < MaxEpoch
    BY <1>5, PhaseIsVariant DEF C!ResharingStates, LastEpoch, ContractFits
  <2>2. b.old_epoch + 1 \in 0..MaxEpoch
    BY <1>2, <2>1
  <2> QED
    BY <1>1, <1>2, <1>5, <2>1, <2>2 DEF ContractFits, SameSoFar
<1> QED
  BY <1>3, <1>4, <1>5, PhaseIsVariant

\* A node's state fits every history that agrees up to the contract's last epoch.
LEMMA StateIgnoresLater ==
    ASSUME NEW H \in Histories, NEW G \in Histories, NEW n \in Accounts, NEW s, NEW d,
           NEW c \in {C!NotInitialized} \cup ContractStates,
           SameSoFar(H, G, c), StateFits(H, n, s, d, c)
    PROVE  StateFits(G, n, s, d, c)
<1>1. s \in NodeStates /\ StateEpoch(s) \in Nat /\ LastEpoch(c) \in Nat
  BY KindIsShape, PhaseIsVariant DEF StateFits
<1>2. MaxEpoch \in Nat
  BY NetworkAssumption
<1>3. CASE s.kind = "Generating"
  BY <1>1, <1>2, <1>3 DEF StateFits, SameSoFar
<1>4. CASE s.kind \in {"Waiting", "Running"}
  <2>1. s.epoch \in 0..MaxEpoch /\ s.epoch <= LastEpoch(c)
    BY <1>1, <1>4, KindIsShape DEF HoldingStates, StateEpoch, StateFits
  <2>2. G[s.epoch] = H[s.epoch]
    BY <2>1 DEF SameSoFar
  <2> QED
    BY <1>4, <2>2 DEF StateFits, HolderFits
<1>5. CASE s.kind = "Resharing"
  <2>1. s.old_epoch \in 0..MaxEpoch /\ s.old_epoch + 1 <= LastEpoch(c) /\ s.old_epoch < MaxEpoch
    BY <1>1, <1>5, KindIsShape DEF ResharingStates, StateEpoch, StateFits
  <2>2. G[s.old_epoch + 1] = H[s.old_epoch + 1]
    BY <1>2, <2>1 DEF SameSoFar
  <2> QED
    BY <1>5, <2>2 DEF StateFits
<1>6. CASE s.kind \notin {"Generating", "Waiting", "Running", "Resharing"}
  BY <1>6 DEF StateFits
<1> QED
  BY <1>3, <1>4, <1>5, <1>6

\* All that a node holds is about epochs the contract knows.
LEMMA NodeIgnoresLater ==
    ASSUME NEW H \in Histories, NEW G \in Histories, NEW n \in Accounts,
           NEW s, NEW lo, NEW pr, NEW d, NEW c \in {C!NotInitialized} \cup ContractStates,
           SameSoFar(H, G, c), NodeFits(H, n, s, lo, pr, d, c)
    PROVE  NodeFits(G, n, s, lo, pr, d, c)
<1>1. StateFits(G, n, s, d, c)
  BY StateIgnoresLater DEF NodeFits
<1>2. DataFits(G, n, d, c)
  <2>1. 0 \in 0..MaxEpoch /\ LastEpoch(c) \in Nat
    BY NetworkAssumption, PhaseIsVariant
  <2>2. G[0] = H[0]
    BY <2>1 DEF SameSoFar
  <2> QED
    BY <2>2 DEF NodeFits, DataFits
<1>3. LoopFits(G, n, s, lo, d, c)
  <2>1. lo \in LoopStates /\ LoopFits(H, n, s, lo, d, c)
    BY DEF NodeFits, LoopFits
  <2>2. lo.at \in {"fetched", "progressed"} => ContractFits(G, lo.snap)
    BY <2>1, AtIsShape, ContractIgnoresLater DEF LoopFits, Snapshot
  <2>3. lo.at = "progressed" => StateFits(G, n, lo.work, d, c)
    BY <2>1, StateIgnoresLater DEF LoopFits
  <2> QED
    BY <2>1, <2>2, <2>3 DEF LoopFits, Snapshot
<1> QED
  BY <1>1, <1>2, <1>3 DEF NodeFits

\* Before the contract is initialised nothing is about any epoch.
LEMMA NodeBeforeInit ==
    ASSUME NEW H \in Histories, NEW G \in Histories, NEW n \in Accounts,
           NEW s, NEW lo, NEW pr, NEW d, NEW c,
           c.phase = "NotInitialized", NodeFits(H, n, s, lo, pr, d, c)
    PROVE  NodeFits(G, n, s, lo, pr, d, c)
<1>1. StateFits(G, n, s, d, c)
  BY DEF NodeFits, StateFits
<1>2. DataFits(G, n, d, c)
  BY DEF NodeFits, DataFits
<1>3. LoopFits(G, n, s, lo, d, c)
  BY <1>1 DEF NodeFits, LoopFits, Snapshot, Before
<1> QED
  BY <1>1, <1>2, <1>3 DEF NodeFits

-----------------------------------------------------------------------------
(* consensus.rs: what a state becomes fits as the state did.                *)

\* t is what advance makes of state s of node n.
Outcome(H, n, s, t, d, c) ==
    \/ t \in {Err, Panic}
    \/ /\ StateFits(H, n, t, d, c)
       /\ t.kind \notin {"Down", "Starting"}
       /\ t.kind = "Generating" => t = s \/ d = NoData
       /\ t.kind \in {"Started", "Waiting", "Running"} =>
            s.kind \in {"Starting", "Started", "Waiting", "Running"}

\* A node may always fall back to Joining, which holds nothing.
LEMMA JoiningFits ==
    ASSUME NEW H, NEW n, NEW s, NEW d, NEW c
    PROVE  Outcome(H, n, s, Joining, d, c) /\ StateFits(H, n, Joining, d, c)
  BY DEF Outcome, StateFits, Joining, NodeStates

\* An error or a panic of a consensus step leaves nothing to fit.
LEMMA FailureFits ==
    ASSUME NEW H, NEW n, NEW s, NEW d, NEW c
    PROVE  Outcome(H, n, s, Err, d, c) /\ Outcome(H, n, s, Panic, d, c)
  BY DEF Outcome

\* A state that stays as it is.
LEMMA SameFits ==
    ASSUME NEW H, NEW n, NEW s, NEW d, NEW c, StateFits(H, n, s, d, c),
           s.kind # "Generating" => s.kind \in {"Started", "Waiting", "Running", "Resharing", "Joining"}
    PROVE  Outcome(H, n, s, s, d, c)
  BY DEF Outcome

\* A resharing state is made for the new participants of the snapshot.
LEMMA StartResharingFits ==
    ASSUME NEW H \in Histories, NEW n \in Accounts, NEW s, NEW d, NEW share \in AnyShare,
           NEW c \in ContractStates, NEW b \in ContractStates, b.phase = "Resharing",
           ContractFits(H, b), Before(b, c)
    PROVE  Outcome(H, n, s, StartResharing(n, share, b), d, c)
<1> DEFINE t == ResharingWith(b, share)
<1>1. CASE n \notin b.new_participants \/ ~ ReshareOk(b, n, share)
  BY <1>1 DEF StartResharing, Outcome
<1>2. CASE n \in b.new_participants /\ ReshareOk(b, n, share)
  <2>1. b \in C!ResharingStates /\ b.threshold = Threshold /\ b.old_epoch < MaxEpoch
    BY PhaseIsVariant DEF ContractFits
  <2>2. t \in ResharingStates /\ t.kind = "Resharing"
    BY <2>1 DEF ResharingWith, ResharingStates, C!ResharingStates, C!AccountSets
  <2>3. /\ t.old_epoch = b.old_epoch /\ t.new_participants = b.new_participants
        /\ t.public_key = b.public_key
    BY DEF ResharingWith
  <2>4. StateEpoch(t) = LastEpoch(b) /\ LastEpoch(b) <= LastEpoch(c) /\ c.phase # "NotInitialized"
    BY <2>2, <2>3 DEF StateEpoch, LastEpoch, Before
  <2>5. AgreedIn(c) /\ t.public_key = c.public_key
    BY <2>3 DEF Before, AgreedIn
  <2>6. StateFits(H, n, t, d, c)
    BY <1>2, <2>1, <2>2, <2>3, <2>4, <2>5 DEF StateFits, NodeStates, ContractFits
  <2> QED
    BY <1>2, <2>2, <2>6 DEF StartResharing, Outcome
<1> QED
  BY <1>1, <1>2

\* StartedState::advance, on a snapshot that may be old, makes a state that fits.
LEMMA StartedFits ==
    ASSUME NEW H \in Histories, NEW n \in Accounts, NEW s, NEW d,
           NEW c \in ContractStates, NEW b \in ContractStates,
           StateFits(H, n, s, d, c), DataFits(H, n, d, c), ContractFits(H, b), Before(b, c),
           s.kind = "Started"
    PROVE  Outcome(H, n, s, StartedTo(n, s, b), d, c)
<1>1. s.data = d /\ s \in NodeStates
  BY DEF StateFits
<1>2. b.phase \in {"Initializing", "Running", "Resharing"}
  BY PhaseIsVariant
<1>3. Outcome(H, n, s, s, d, c)
  BY SameFits
<1>4. CASE d = NoData
  <2> DEFINE t == Generating(b.candidates, b.threshold)
  <2>1. CASE b.phase = "Initializing" /\ n \in b.candidates
    <3>1. b \in C!InitializingStates /\ b.threshold = Threshold
      BY <2>1, PhaseIsVariant
    <3>2. t \in GeneratingStates /\ t.kind = "Generating" /\ t.participants = b.candidates
      BY <3>1 DEF Generating, GeneratingStates, C!InitializingStates, C!AccountSets
    <3>3. StateEpoch(t) = 0 /\ LastEpoch(c) \in Nat /\ c.phase # "NotInitialized"
      BY <3>2, PhaseIsVariant DEF StateEpoch, Before
    <3>4. StateFits(H, n, t, d, c)
      BY <2>1, <3>2, <3>3 DEF StateFits, NodeStates, ContractFits
    <3>5. Outcome(H, n, s, t, d, c)
      BY <1>4, <3>2, <3>4 DEF Outcome
    <3>6. StartedTo(n, s, b) \in {Err, t}
      BY <1>1, <1>4, <2>1 DEF StartedTo, StartedFresh
    <3> QED
      BY <3>5, <3>6 DEF Outcome
  <2>2. CASE ~ (b.phase = "Initializing" /\ n \in b.candidates)
    <3>1. StartedTo(n, s, b) \in {Joining, s}
      BY <1>1, <1>4, <2>2 DEF StartedTo, StartedFresh
    <3> QED
      BY <1>3, <3>1, JoiningFits
  <2> QED
    BY <2>1, <2>2
<1>5. CASE d # NoData
  <2>1. /\ n \in H[0] /\ d.public_key \in PublicKeys
        /\ d = Data(0, Share(d.public_key, 0, Id(H[0], n)), d.public_key)
    BY <1>5 DEF DataFits
  <2>2. H[0] \in SUBSET Accounts /\ 0 \in 0..MaxEpoch
    BY NetworkAssumption DEF Histories
  <2>3. /\ d.epoch = 0 /\ d.private_share = Share(d.public_key, 0, Id(H[0], n))
        /\ d.private_share \in AnyShare
    BY <2>1, <2>2, ShareShape DEF Data
  <2>4. StartedTo(n, s, b) = StartedWithData(n, d, b)
    BY <1>1, <1>5 DEF StartedTo
  <2>5. CASE b.phase = "Initializing"
    BY <2>4, <2>5 DEF StartedWithData, Outcome
  <2>6. CASE b.phase = "Running"
    <3> DEFINE t == Holding("Running", d.epoch, b.participants, b.threshold,
                            d.private_share, d.public_key)
    <3>1. StartedTo(n, s, b) \in {Err, Joining, t}
      BY <2>4, <2>6 DEF StartedWithData
    <3>2. ASSUME StartedTo(n, s, b) \notin {Err, Joining}
          PROVE  Outcome(H, n, s, t, d, c)
      <4>1. b \in C!RunningStates /\ b.threshold = Threshold /\ b.epoch \in Nat
        BY <2>6, PhaseIsVariant, NetworkAssumption DEF C!RunningStates
      <4>2. b.public_key = d.public_key /\ b.epoch = 0
        BY <2>3, <2>4, <2>6, <3>2, <4>1 DEF StartedWithData
      <4>3. b.participants = H[0]
        BY <2>6, <4>2 DEF ContractFits
      <4>4. t \in HoldingStates({"Waiting", "Running"})
        BY <2>1, <2>2, <2>3, <4>1, <4>3 DEF Holding, HoldingStates
      <4>5. /\ t.kind = "Running" /\ t.epoch = 0 /\ t.participants = H[0]
            /\ t.public_key = d.public_key /\ t.private_share = d.private_share
        BY <2>3, <4>3 DEF Holding
      <4>6. HolderFits(H, n, t)
        BY <2>1, <2>3, <4>5 DEF HolderFits
      <4>7. /\ AgreedIn(c) /\ c.public_key = b.public_key /\ EpochIn(c) \in Nat
            /\ LastEpoch(c) \in Nat /\ c.phase # "NotInitialized"
        BY <2>6, PhaseIsVariant, NetworkAssumption DEF Before, AgreedIn
      <4>8. StateFits(H, n, t, d, c)
        BY <4>2, <4>4, <4>5, <4>6, <4>7 DEF StateFits, NodeStates, StateEpoch
      <4> QED
        BY <4>5, <4>8 DEF Outcome
    <3> QED
      BY <3>1, <3>2, JoiningFits DEF Outcome
  <2>7. CASE b.phase = "Resharing"
    <3>1. StartedTo(n, s, b) \in {Err, Joining, StartResharing(n, d.private_share, b)}
      BY <2>4, <2>7 DEF StartedWithData
    <3> QED
      BY <2>3, <2>7, <3>1, StartResharingFits, JoiningFits, FailureFits
  <2> QED
    BY <1>2, <2>5, <2>6, <2>7
<1> QED
  BY <1>4, <1>5

\* GeneratingState::advance makes a state that fits.
LEMMA GeneratingFits ==
    ASSUME NEW H \in Histories, NEW n \in Accounts, NEW s, NEW d,
           NEW c \in ContractStates, NEW b \in ContractStates,
           StateFits(H, n, s, d, c), s.kind = "Generating"
    PROVE  Outcome(H, n, s, GeneratingTo(s, b), d, c)
<1>1. b.phase \in {"Initializing", "Running", "Resharing"}
  BY PhaseIsVariant
<1>2. GeneratingTo(s, b) \in {s, Err, Joining}
  BY <1>1 DEF GeneratingTo
<1> QED
  BY <1>2, SameFits, JoiningFits DEF Outcome

\* WaitingForConsensusState::advance makes a state that fits.
LEMMA WaitingFits ==
    ASSUME NEW H \in Histories, NEW n \in Accounts, NEW s, NEW d,
           NEW c \in ContractStates, NEW b \in ContractStates,
           StateFits(H, n, s, d, c), ContractFits(H, b), Before(b, c), s.kind = "Waiting"
    PROVE  Outcome(H, n, s, WaitingTo(n, s, b), d, c)
<1>1. b.phase \in {"Initializing", "Running", "Resharing"}
  BY PhaseIsVariant
<1>2. s \in HoldingStates({"Waiting", "Running"})
  BY KindIsShape DEF StateFits
<1>3. Outcome(H, n, s, s, d, c)
  BY SameFits
<1>4. CASE b.phase = "Initializing"
  BY <1>3, <1>4 DEF WaitingTo
<1>5. CASE b.phase = "Running"
  <2> DEFINE t == [s EXCEPT !.kind = "Running"]
  <2>1. WaitingTo(n, s, b) \in {Err, Panic, Joining, t}
    BY <1>5 DEF WaitingTo
  <2>2. ASSUME WaitingTo(n, s, b) \notin {Err, Panic, Joining}
        PROVE  Outcome(H, n, s, t, d, c)
    <3>1. b \in C!RunningStates /\ b.epoch \in Nat /\ s.epoch \in Nat
      BY <1>2, <1>5, PhaseIsVariant, NetworkAssumption DEF C!RunningStates, HoldingStates
    <3>2. b.epoch = s.epoch /\ b.public_key = s.public_key
      BY <1>5, <2>2, <3>1 DEF WaitingTo
    <3>3. t \in HoldingStates({"Waiting", "Running"})
      BY <1>2 DEF HoldingStates
    <3>4. /\ t.kind = "Running" /\ t.epoch = s.epoch /\ t.participants = s.participants
          /\ t.public_key = s.public_key /\ t.private_share = s.private_share
      BY <1>2 DEF HoldingStates
    <3>5. HolderFits(H, n, t)
      BY <3>4 DEF HolderFits, StateFits
    <3>6. /\ AgreedIn(c) /\ c.public_key = b.public_key /\ b.epoch <= EpochIn(c)
          /\ c.phase # "NotInitialized"
      BY <1>5 DEF Before, AgreedIn, EpochIn
    <3>7. StateEpoch(t) <= LastEpoch(c)
      BY <3>4 DEF StateFits, StateEpoch
    <3>8. StateFits(H, n, t, d, c)
      BY <3>2, <3>3, <3>4, <3>5, <3>6, <3>7 DEF StateFits, NodeStates
    <3> QED
      BY <3>4, <3>8 DEF Outcome
  <2>3. CASE WaitingTo(n, s, b) \in {Err, Panic}
    BY <2>3 DEF Outcome
  <2> QED
    BY <2>1, <2>2, <2>3, JoiningFits
<1>6. CASE b.phase = "Resharing"
  <2>1. s.private_share \in AnyShare
    BY <1>2 DEF HoldingStates
  <2>2. WaitingTo(n, s, b) \in {Err, Joining, s, StartResharing(n, s.private_share, b)}
    BY <1>6 DEF WaitingTo
  <2> QED
    BY <1>3, <1>6, <2>1, <2>2, StartResharingFits, JoiningFits, FailureFits
<1> QED
  BY <1>1, <1>4, <1>5, <1>6

\* RunningState::advance makes a state that fits.
LEMMA RunningFits ==
    ASSUME NEW H \in Histories, NEW n \in Accounts, NEW s, NEW d,
           NEW c \in ContractStates, NEW b \in ContractStates,
           StateFits(H, n, s, d, c), ContractFits(H, b), Before(b, c), s.kind = "Running"
    PROVE  Outcome(H, n, s, RunningTo(n, s, b), d, c)
<1>1. b.phase \in {"Initializing", "Running", "Resharing"}
  BY PhaseIsVariant
<1>2. s.private_share \in AnyShare
  BY KindIsShape DEF StateFits, HoldingStates
<1>3. Outcome(H, n, s, s, d, c)
  BY SameFits
<1>4. CASE b.phase \in {"Initializing", "Running"}
  <2>1. RunningTo(n, s, b) \in {Err, Joining, s}
    BY <1>4 DEF RunningTo
  <2> QED
    BY <1>3, <2>1, JoiningFits DEF Outcome
<1>5. CASE b.phase = "Resharing"
  <2>1. RunningTo(n, s, b) \in {Err, Joining, StartResharing(n, s.private_share, b)}
    BY <1>5 DEF RunningTo
  <2> QED
    BY <1>2, <1>5, <2>1, StartResharingFits, JoiningFits, FailureFits
<1> QED
  BY <1>1, <1>4, <1>5

\* ResharingState::advance makes a state that fits.
LEMMA ResharingFits ==
    ASSUME NEW H \in Histories, NEW n \in Accounts, NEW s, NEW d,
           NEW c \in ContractStates, NEW b \in ContractStates,
           StateFits(H, n, s, d, c), s.kind = "Resharing"
    PROVE  Outcome(H, n, s, ResharingTo(s, b), d, c)
<1>1. b.phase \in {"Initializing", "Running", "Resharing"}
  BY PhaseIsVariant
<1>2. ResharingTo(s, b) \in {s, Err, Joining}
  BY <1>1 DEF ResharingTo
<1> QED
  BY <1>2, SameFits, JoiningFits DEF Outcome

\* JoiningState::advance makes a state that fits.
LEMMA JoinerFits ==
    ASSUME NEW H \in Histories, NEW n \in Accounts, NEW s, NEW d,
           NEW c \in ContractStates, NEW b \in ContractStates,
           StateFits(H, n, s, d, c), ContractFits(H, b), Before(b, c), s.kind = "Joining"
    PROVE  Outcome(H, n, s, JoiningTo(n, s, b), d, c)
<1>1. b.phase \in {"Initializing", "Running", "Resharing"}
  BY PhaseIsVariant
<1>2. NoShare \in AnyShare
  BY DEF NoShare, AnyShare
<1>3. \/ JoiningTo(n, s, b) \in {s, Err}
      \/ b.phase = "Resharing" /\ JoiningTo(n, s, b) = StartResharing(n, NoShare, b)
  BY <1>1 DEF JoiningTo
<1> QED
  BY <1>2, <1>3, SameFits, StartResharingFits DEF Outcome

\* The whole consensus step of node n on state s with snapshot b.
LEMMA AdvanceFits ==
    ASSUME NEW H \in Histories, NEW n \in Accounts, NEW s,
           contract \in ContractStates, NEW b \in ContractStates,
           StateFits(H, n, s, storage[n], contract), DataFits(H, n, storage[n], contract),
           ContractFits(H, b), Before(b, contract), s.kind # "Down"
    PROVE  Outcome(H, n, s, AdvanceTo(n, s, b), storage[n], contract)
<1>1. s.kind \in {"Starting", "Joining", "Started", "Generating", "Waiting", "Running", "Resharing"}
  BY KindIsShape DEF StateFits
<1>2. CASE s.kind = "Starting"
  <2> DEFINE t == Started(storage[n])
  <2>1. t \in StartedStates /\ t.kind = "Started" /\ t.data = storage[n]
    BY DEF Started, StartedStates, DataFits
  <2>2. StateFits(H, n, t, storage[n], contract)
    BY <2>1 DEF StateFits, NodeStates
  <2> QED
    BY <1>2, <2>1, <2>2 DEF AdvanceTo, Outcome
<1>3. CASE s.kind = "Started"
  BY <1>3, StartedFits DEF AdvanceTo
<1>4. CASE s.kind = "Generating"
  BY <1>4, GeneratingFits DEF AdvanceTo
<1>5. CASE s.kind = "Waiting"
  BY <1>5, WaitingFits DEF AdvanceTo
<1>6. CASE s.kind = "Running"
  BY <1>6, RunningFits DEF AdvanceTo
<1>7. CASE s.kind = "Resharing"
  BY <1>7, ResharingFits DEF AdvanceTo
<1>8. CASE s.kind = "Joining"
  BY <1>8, JoinerFits DEF AdvanceTo
<1> QED
  BY <1>1, <1>2, <1>3, <1>4, <1>5, <1>6, <1>7, <1>8

\* The contract is still at epoch e, or resharing towards it.
At(c, e) ==
    \/ c.phase = "Running" /\ c.epoch = e
    \/ c.phase = "Resharing" /\ c.old_epoch + 1 = e

\* A node that holds a share of the epoch the contract is at, or is resharing
\* towards, keeps it: every snapshot it can have then is of that epoch too.
LEMMA HolderKeeps ==
    ASSUME NEW H \in Histories, NEW n \in Accounts, NEW s, NEW e \in Nat, e > 0,
           contract \in ContractStates, At(contract, e), NEW b \in ContractStates,
           StateFits(H, n, s, storage[n], contract), Snapshot(H, s, b, contract),
           s.kind \in {"Waiting", "Running"}, s.epoch = e
    PROVE  /\ b.phase # "Initializing"
           /\ \/ s.kind = "Running" /\ AdvanceTo(n, s, b) = Err
              \/ /\ AdvanceTo(n, s, b).kind \in {"Waiting", "Running"}
                 /\ AdvanceTo(n, s, b).epoch = e
<1>1. /\ e <= LastEpoch(b) /\ LastEpoch(b) <= LastEpoch(contract) /\ LastEpoch(contract) = e
      /\ LastEpoch(b) \in Nat
  BY PhaseIsVariant DEF Snapshot, Before, StateEpoch, At, LastEpoch
<1>2. LastEpoch(b) = e
  BY <1>1
<1>3. b.phase \in {"Running", "Resharing"}
  BY <1>2, PhaseIsVariant DEF LastEpoch
<1>4. s \in HoldingStates({"Waiting", "Running"}) /\ n \in H[s.epoch]
  BY KindIsShape DEF StateFits, HolderFits
<1>5. CASE b.phase = "Running"
  <2>1. b.epoch = e /\ b.participants = H[e]
    BY <1>2, <1>5 DEF LastEpoch, Snapshot, ContractFits
  <2>2. CASE s.kind = "Waiting"
    <3> DEFINE t == [s EXCEPT !.kind = "Running"]
    <3>1. t.kind = "Running" /\ t.epoch = e
      BY <1>4 DEF HoldingStates
    <3>2. WaitingTo(n, s, b) = t
      <4>1. s.participants = H[e] /\ s.threshold = Threshold /\ b.threshold = Threshold
        BY <1>4, <1>5, <2>2, PhaseIsVariant DEF StateFits, HolderFits, HoldingStates
      <4>2. s.public_key = contract.public_key /\ b.public_key = contract.public_key
        BY <1>5, <2>2 DEF StateFits, Snapshot, Before, AgreedIn
      <4> QED
        BY <1>4, <1>5, <2>1, <4>1, <4>2 DEF WaitingTo
    <3>3. AdvanceTo(n, s, b) = WaitingTo(n, s, b)
      BY <2>2 DEF AdvanceTo
    <3> QED
      BY <1>3, <3>1, <3>2, <3>3, <1>5
  <2>3. CASE s.kind = "Running"
    <3>1. RunningTo(n, s, b) \in {Err, s}
      BY <1>5, <2>1 DEF RunningTo
    <3>2. AdvanceTo(n, s, b) = RunningTo(n, s, b)
      BY <2>3 DEF AdvanceTo
    <3> QED
      BY <3>1, <3>2, <1>5, <2>3
  <2> QED
    BY <2>2, <2>3
<1>6. CASE b.phase = "Resharing"
  <2>1. b.old_epoch + 1 = e /\ b.old_epoch \in Nat
    BY <1>2, <1>6, PhaseIsVariant, NetworkAssumption DEF LastEpoch, C!ResharingStates
  <2>2. CASE s.kind = "Waiting"
    <3>1. WaitingTo(n, s, b) = s
      BY <1>6, <2>1 DEF WaitingTo
    <3>2. AdvanceTo(n, s, b) = WaitingTo(n, s, b)
      BY <2>2 DEF AdvanceTo
    <3> QED
      BY <2>2, <3>1, <3>2, <1>6
  <2>3. CASE s.kind = "Running"
    <3>1. b.old_epoch < s.epoch
      BY <2>1
    <3>2. RunningTo(n, s, b) = Err
      BY <1>6, <2>1, <3>1 DEF RunningTo
    <3>3. AdvanceTo(n, s, b) = RunningTo(n, s, b)
      BY <2>3 DEF AdvanceTo
    <3> QED
      BY <3>2, <3>3, <1>6, <2>3
  <2> QED
    BY <2>2, <2>3
<1> QED
  BY <1>3, <1>5, <1>6

-----------------------------------------------------------------------------
(* The calls of the contract.                                               *)

\* The contract counts as this module does.
LEMMA SameCardinality ==
    ASSUME NEW S
    PROVE  C!Cardinality(S) = Cardinality(S)
  BY DEF C!Cardinality, Cardinality

\* A call that only collects a vote or a candidate: phase, epoch, participants
\* and key stay.
Quiet(c, cc) ==
    /\ cc \in ContractStates
    /\ cc.phase = c.phase
    /\ c.phase = "Initializing" => cc.candidates = c.candidates
    /\ c.phase = "Running" => /\ cc.epoch = c.epoch
                              /\ cc.participants = c.participants
                              /\ cc.public_key = c.public_key
    /\ c.phase = "Resharing" => /\ cc.old_epoch = c.old_epoch
                                /\ cc.old_participants = c.old_participants
                                /\ cc.new_participants = c.new_participants
                                /\ cc.public_key = c.public_key

\* A call that changes neither phase nor epoch keeps to the history.
LEMMA QuietFits ==
    ASSUME NEW H \in Histories, NEW c \in ContractStates, NEW cc,
           ContractFits(H, c), Quiet(c, cc)
    PROVE  /\ cc \in ContractStates /\ ContractFits(H, cc) /\ Before(c, cc)
           /\ LastEpoch(cc) = LastEpoch(c)
           /\ AgreedIn(cc) <=> AgreedIn(c)
           /\ AgreedIn(c) => EpochIn(cc) = EpochIn(c) /\ cc.public_key = c.public_key
<1>1. cc \in ContractStates /\ ContractFits(H, cc)
  BY DEF Quiet, ContractFits
<1>2. LastEpoch(cc) = LastEpoch(c) /\ LastEpoch(c) \in Nat /\ cc.phase # "NotInitialized"
  BY PhaseIsVariant DEF Quiet, LastEpoch
<1>3. AgreedIn(cc) <=> AgreedIn(c)
  BY DEF Quiet, AgreedIn
<1>4. AgreedIn(c) => EpochIn(cc) = EpochIn(c) /\ cc.public_key = c.public_key
                     /\ EpochIn(c) \in Nat
  BY PhaseIsVariant, NetworkAssumption DEF Quiet, AgreedIn, EpochIn
<1> QED
  BY <1>1, <1>2, <1>3, <1>4 DEF Before

\* join only adds a candidate.
LEMMA JoinIsQuiet ==
    ASSUME NEW c \in ContractStates, NEW n \in Accounts, C!JoinOk(c, n)
    PROVE  Quiet(c, C!JoinCall(c, n)) /\ c.phase = "Running"
<1>1. c \in C!RunningStates /\ c.phase = "Running"
  BY PhaseIsVariant DEF C!JoinOk
<1> QED
  BY <1>1 DEF C!JoinCall, Quiet, ContractStates, C!RunningStates, C!AccountSets

\* vote_join and vote_leave: a vote is recorded, or a resharing begins.
StartsResharing(c, cc) ==
    /\ c.phase = "Running"
    /\ \E P \in SUBSET Accounts : cc = C!Resharing(c, P)

\* vote_join collects a vote or starts a resharing.
LEMMA VoteJoinMoves ==
    ASSUME NEW c \in ContractStates, NEW p, NEW n \in Accounts, C!VoteJoinOk(c, p, n)
    PROVE  /\ c.phase = "Running"
           /\ Quiet(c, C!VoteJoinCall(c, p, n)) \/ StartsResharing(c, C!VoteJoinCall(c, p, n))
<1> DEFINE voted == c.join_votes[n] \cup {p}
<1>1. /\ c \in C!RunningStates /\ c.phase = "Running" /\ c.participants \in SUBSET Accounts
      /\ p \in Accounts
  BY PhaseIsVariant DEF C!VoteJoinOk, C!RunningStates, C!AccountSets
<1>2. CASE C!Reached(voted, c.threshold)
  BY <1>1, <1>2 DEF C!VoteJoinCall, StartsResharing
<1>3. CASE ~ C!Reached(voted, c.threshold)
  <2>1. C!VoteJoinCall(c, p, n) = [c EXCEPT !.join_votes[n] = voted]
    BY <1>3 DEF C!VoteJoinCall
  <2>2. voted \in C!AccountSets
    BY <1>1 DEF C!RunningStates, C!Votes, C!AccountSets
  <2>3. [c.join_votes EXCEPT ![n] = voted] \in C!Votes
    BY <1>1, <2>2 DEF C!RunningStates, C!Votes
  <2> QED
    BY <1>1, <2>1, <2>3 DEF Quiet, ContractStates, C!RunningStates
<1> QED
  BY <1>1, <1>2, <1>3

\* vote_leave collects a vote or starts a resharing.
LEMMA VoteLeaveMoves ==
    ASSUME NEW c \in ContractStates, NEW p, NEW n \in Accounts, C!VoteLeaveOk(c, p, n)
    PROVE  /\ c.phase = "Running"
           /\ Quiet(c, C!VoteLeaveCall(c, p, n)) \/ StartsResharing(c, C!VoteLeaveCall(c, p, n))
<1> DEFINE voted == c.leave_votes[n] \cup {p}
<1>1. /\ c \in C!RunningStates /\ c.phase = "Running" /\ c.participants \in SUBSET Accounts
      /\ p \in Accounts
  BY PhaseIsVariant DEF C!VoteLeaveOk, C!RunningStates, C!AccountSets
<1>2. CASE C!Reached(voted, c.threshold)
  BY <1>1, <1>2 DEF C!VoteLeaveCall, StartsResharing
<1>3. CASE ~ C!Reached(voted, c.threshold)
  <2>1. C!VoteLeaveCall(c, p, n) = [c EXCEPT !.leave_votes[n] = voted]
    BY <1>3 DEF C!VoteLeaveCall
  <2>2. voted \in C!AccountSets
    BY <1>1 DEF C!RunningStates, C!Votes, C!AccountSets
  <2>3. [c.leave_votes EXCEPT ![n] = voted] \in C!Votes
    BY <1>1, <2>2 DEF C!RunningStates, C!Votes
  <2> QED
    BY <1>1, <2>1, <2>3 DEF Quiet, ContractStates, C!RunningStates
<1> QED
  BY <1>1, <1>2, <1>3

\* A resharing begins: the history grows by the new participants.
LEMMA StartsResharingFits ==
    ASSUME NEW H \in Histories, NEW c \in ContractStates, NEW cc,
           ContractFits(H, c), StartsResharing(c, cc), c.epoch < MaxEpoch
    PROVE  /\ cc \in ContractStates /\ Before(c, cc) /\ cc.phase = "Resharing"
           /\ cc.old_epoch = c.epoch /\ cc.old_participants = c.participants
           /\ cc.public_key = c.public_key /\ cc.finished_votes = {}
           /\ \E G \in Histories : SameSoFar(H, G, c) /\ ContractFits(G, cc)
<1>1. PICK P \in SUBSET Accounts : cc = C!Resharing(c, P)
  BY DEF StartsResharing
<1>2. /\ c.phase = "Running" /\ c \in C!RunningStates /\ c.epoch \in 0..MaxEpoch
      /\ c.epoch \in Nat /\ MaxEpoch \in Nat /\ c.participants = H[c.epoch]
  BY PhaseIsVariant, NetworkAssumption DEF StartsResharing, C!RunningStates, ContractFits
<1>3. /\ cc.phase = "Resharing" /\ cc.old_epoch = c.epoch /\ cc.new_participants = P
      /\ cc.old_participants = c.participants /\ cc.public_key = c.public_key
      /\ cc.finished_votes = {}
  BY <1>1 DEF C!Resharing
<1>4. cc \in ContractStates
  BY <1>1, <1>2 DEF C!Resharing, C!ResharingStates, C!RunningStates, C!AccountSets, ContractStates
<1>5. Before(c, cc)
  BY <1>2, <1>3 DEF Before, LastEpoch, AgreedIn, EpochIn
<1> DEFINE G == [H EXCEPT ![c.epoch + 1] = P]
<1>6. G \in Histories /\ G[c.epoch + 1] = P
  BY <1>2 DEF Histories
<1>7. \A e \in 0..MaxEpoch : e <= c.epoch => G[e] = H[e]
  BY <1>2 DEF Histories
<1>8. SameSoFar(H, G, c)
  BY <1>2, <1>7 DEF SameSoFar, LastEpoch
<1>9. ContractFits(G, cc)
  BY <1>2, <1>3, <1>6, <1>7 DEF ContractFits
<1> QED
  BY <1>3, <1>4, <1>5, <1>6, <1>8, <1>9

\* vote_pk: nothing, a vote, or the key is adopted.
LEMMA VotePkMoves ==
    ASSUME NEW c \in ContractStates, NEW n \in Accounts, NEW key \in PublicKeys,
           C!VotePkOk(c, n, key)
    PROVE  LET cc == C!VotePkCall(c, n, key)
               voted == c.pk_votes[key] \cup {n}
           IN  \/ c.phase # "Initializing" /\ cc = c
               \/ /\ c.phase = "Initializing" /\ n \in c.candidates
                  /\ Quiet(c, cc)
                  /\ \A k \in PublicKeys :
                        cc.pk_votes[k] = IF k = key THEN voted ELSE c.pk_votes[k]
               \/ /\ c.phase = "Initializing" /\ n \in c.candidates
                  /\ Cardinality(voted) >= Threshold
                  /\ cc = C!Running(0, c.candidates, Threshold, key)
<1> DEFINE voted == c.pk_votes[key] \cup {n}
           cc == C!VotePkCall(c, n, key)
<1>1. CASE c.phase # "Initializing"
  BY <1>1 DEF C!VotePkCall
<1>2. CASE c.phase = "Initializing"
  <2>1. c \in C!InitializingStates /\ c.threshold = Threshold /\ n \in c.candidates
    BY <1>2, PhaseIsVariant DEF C!VotePkOk
  <2>2. CASE C!Reached(voted, c.threshold)
    <3>1. cc = C!Running(0, c.candidates, Threshold, key)
      BY <1>2, <2>1, <2>2 DEF C!VotePkCall
    <3>2. Cardinality(voted) >= Threshold
      BY <2>1, <2>2, SameCardinality DEF C!Reached
    <3> QED
      BY <1>2, <2>1, <3>1, <3>2
  <2>3. CASE ~ C!Reached(voted, c.threshold)
    <3>1. cc = [c EXCEPT !.pk_votes[key] = voted]
      BY <1>2, <2>3 DEF C!VotePkCall
    <3>2. voted \in C!AccountSets
      BY <2>1 DEF C!InitializingStates, C!PkVotes, C!AccountSets
    <3>3. [c.pk_votes EXCEPT ![key] = voted] \in C!PkVotes
      BY <2>1, <3>2 DEF C!InitializingStates, C!PkVotes
    <3>4. Quiet(c, cc)
      BY <1>2, <2>1, <3>1, <3>3 DEF Quiet, ContractStates, C!InitializingStates
    <3>5. cc.pk_votes = [c.pk_votes EXCEPT ![key] = voted]
      BY <2>1, <3>1 DEF C!InitializingStates
    <3>6. \A k \in PublicKeys : cc.pk_votes[k] = IF k = key THEN voted ELSE c.pk_votes[k]
      BY <2>1, <3>5 DEF C!InitializingStates, C!PkVotes
    <3> QED
      BY <1>2, <2>1, <3>4, <3>6
  <2> QED
    BY <2>2, <2>3
<1> QED
  BY <1>1, <1>2

\* vote_reshared: nothing, a vote, or the next epoch begins.
LEMMA VoteResharedMoves ==
    ASSUME NEW c \in ContractStates, NEW n \in Accounts, NEW e \in Nat,
           C!VoteResharedOk(c, n, e)
    PROVE  LET cc == C!VoteResharedCall(c, n, e)
               voted == c.finished_votes \cup {n}
           IN  \/ c.phase = "Running" /\ cc = c
               \/ /\ c.phase = "Resharing" /\ n \in c.old_participants /\ c.old_epoch + 1 = e
                  /\ \/ Quiet(c, cc) /\ cc.finished_votes = voted
                     \/ /\ Cardinality(voted) >= Threshold
                        /\ cc = C!Running(e, c.new_participants, Threshold, c.public_key)
<1> DEFINE voted == c.finished_votes \cup {n}
           cc == C!VoteResharedCall(c, n, e)
<1>1. CASE c.phase = "Running"
  BY <1>1 DEF C!VoteResharedCall
<1>2. CASE c.phase # "Running"
  <2>1. /\ c.phase = "Resharing" /\ n \in c.old_participants /\ c.old_epoch + 1 = e
        /\ c \in C!ResharingStates /\ c.threshold = Threshold
    BY <1>2, PhaseIsVariant DEF C!VoteResharedOk
  <2>2. CASE C!Reached(voted, c.threshold)
    <3>1. cc = C!Running(e, c.new_participants, Threshold, c.public_key)
      BY <1>2, <2>1, <2>2 DEF C!VoteResharedCall
    <3>2. Cardinality(voted) >= Threshold
      BY <2>1, <2>2, SameCardinality DEF C!Reached
    <3> QED
      BY <2>1, <3>1, <3>2
  <2>3. CASE ~ C!Reached(voted, c.threshold)
    <3>1. cc = [c EXCEPT !.finished_votes = voted]
      BY <1>2, <2>3 DEF C!VoteResharedCall
    <3>2. voted \in C!AccountSets
      BY <2>1 DEF C!ResharingStates, C!AccountSets
    <3>3. Quiet(c, cc) /\ cc.finished_votes = voted
      BY <2>1, <3>1, <3>2 DEF Quiet, ContractStates, C!ResharingStates
    <3> QED
      BY <2>1, <3>3
  <2> QED
    BY <2>2, <2>3
<1> QED
  BY <1>1, <1>2

-----------------------------------------------------------------------------
(* A step of one node, and what it does to the contract.                    *)

\* The step changes nothing of any node but n.
OnlyOf(n) ==
    /\ node' = [node EXCEPT ![n] = node'[n]]
    /\ storage' = [storage EXCEPT ![n] = storage'[n]]
    /\ proto' = [proto EXCEPT ![n] = proto'[n]]
    /\ loop' = [loop EXCEPT ![n] = loop'[n]]

\* If what n holds after the step fits the contract before it, and the
\* contract moves on, everything fits the history G that the contract now has.
LEMMA OneNodeMoves ==
    ASSUME NEW H \in Histories, NEW G \in Histories, Types, Fits(H), NEW n \in Accounts,
           SameSoFar(H, G, contract), ContractFits(G, contract'),
           contract' \in {C!NotInitialized} \cup ContractStates,
           contract' = contract \/ Before(contract, contract'),
           OnlyOf(n), faults' \in 0..MaxFaults,
           NodeFits(H, n, node'[n], loop'[n], proto'[n], storage'[n], contract)
    PROVE  Types' /\ Fits(G)'
<1>1. /\ node'[n] \in NodeStates /\ storage'[n] \in Datas \cup {NoData}
      /\ proto'[n] \in Protos /\ loop'[n] \in LoopStates
  BY DEF NodeFits, StateFits, DataFits, LoopFits, ProtoFits
<1>2. Types'
  BY <1>1 DEF Types, OnlyOf
<1>3. ASSUME NEW m \in Accounts
      PROVE  NodeFits(G, m, node'[m], loop'[m], proto'[m], storage'[m], contract')
  <2>1. NodeFits(H, m, node'[m], loop'[m], proto'[m], storage'[m], contract)
    <3>1. CASE m = n
      BY <3>1
    <3>2. CASE m # n
      <4>1. /\ node'[m] = node[m] /\ storage'[m] = storage[m]
            /\ proto'[m] = proto[m] /\ loop'[m] = loop[m]
        BY <3>2 DEF Types, OnlyOf
      <4> QED
        BY <4>1 DEF Fits, NodesFit
    <3> QED
      BY <3>1, <3>2
  <2>2. contract \in {C!NotInitialized} \cup ContractStates
    BY DEF Types
  <2>3. NodeFits(G, m, node'[m], loop'[m], proto'[m], storage'[m], contract)
    BY <2>1, <2>2, NodeIgnoresLater
  <2> QED
    BY <2>2, <2>3, NodeStillFits
<1> QED
  BY <1>2, <1>3 DEF Fits, NodesFit

\* A history agrees with itself.
LEMMA SameIsSameSoFar ==
    ASSUME NEW H, NEW c
    PROVE  SameSoFar(H, H, c)
  BY DEF SameSoFar

\* The end of an iteration in state t, whether or not the contract moves.
LEMMA ConcludeFits ==
    ASSUME NEW H \in Histories, Types, NEW n \in Accounts, NEW t,
           NodeFits(H, n, node[n], loop[n], proto[n], storage[n], contract),
           Outcome(H, n, Current(n), t, storage[n], contract),
           Conclude(n, t), UNCHANGED storage
    PROVE  /\ OnlyOf(n)
           /\ NodeFits(H, n, node'[n], loop'[n], proto'[n], storage'[n], contract)
<1> USE DEF Types
<1>1. storage' = [storage EXCEPT ![n] = storage'[n]] /\ storage'[n] = storage[n]
  OBVIOUS
<1>2. loop' = [loop EXCEPT ![n] = Top] /\ loop'[n] = Top /\ Top.at = "top" /\ Top \in LoopStates
  BY DEF Conclude, Stop, Top, LoopStates
<1>3. DataFits(H, n, storage[n], contract)
  BY DEF NodeFits
<1>4. ASSUME NEW s
      PROVE  LoopFits(H, n, s, Top, storage[n], contract)
  BY <1>2 DEF LoopFits
<1>5. CASE t = Panic
  <2>1. node' = [node EXCEPT ![n] = Down] /\ proto' = [proto EXCEPT ![n] = Idle]
    BY <1>5 DEF Conclude, Stop, Err, Panic
  <2>2. node'[n] = Down /\ proto'[n] = Idle
    BY <2>1
  <2>3. StateFits(H, n, Down, storage[n], contract)
    BY DEF StateFits, Down, NodeStates
  <2>4. ProtoFits(Down, Top, Idle, storage[n])
    BY <1>2 DEF ProtoFits, Idle, Protos, Down
  <2> QED
    BY <1>1, <1>2, <1>3, <1>4, <2>1, <2>2, <2>3, <2>4 DEF NodeFits, OnlyOf
<1>6. CASE t = Err
  <2>1. node' = node /\ proto' = proto
    BY <1>6 DEF Conclude, Err, Panic
  <2>2. ProtoFits(node[n], Top, proto[n], storage[n])
    BY <1>2 DEF NodeFits, ProtoFits
  <2>3. node' = [node EXCEPT ![n] = node'[n]] /\ proto' = [proto EXCEPT ![n] = proto'[n]]
    BY <2>1
  <2> QED
    BY <1>1, <1>2, <1>3, <1>4, <2>1, <2>2, <2>3 DEF NodeFits, OnlyOf
<1>7. CASE t \notin {Err, Panic}
  <2>1. /\ node' = [node EXCEPT ![n] = t] /\ node'[n] = t
        /\ proto' = [proto EXCEPT ![n] = ProtocolAt(n, t)] /\ proto'[n] = ProtocolAt(n, t)
    BY <1>7 DEF Conclude
  <2>2. /\ StateFits(H, n, t, storage[n], contract)
        /\ t.kind \notin {"Down", "Starting"}
        /\ t.kind = "Generating" => t = Current(n) \/ storage[n] = NoData
        /\ t.kind \in {"Started", "Waiting", "Running"} =>
             Current(n).kind \in {"Starting", "Started", "Waiting", "Running"}
    BY <1>7 DEF Outcome
  <2>3. /\ ProtoFits(node[n], loop[n], proto[n], storage[n])
        /\ loop[n].at = "progressed" => Current(n).kind = "Waiting" /\ proto[n].status = "done"
        /\ loop[n].at # "progressed" => Current(n) = node[n]
    BY AtIsShape DEF NodeFits, Current, ProtoFits
  <2>4. ProtoFits(t, Top, ProtocolAt(n, t), storage[n])
    <3>1. CASE t.kind \in {"Generating", "Resharing"} /\ t # node[n]
      <4>1. t.kind = "Generating" => storage[n] = NoData
        BY <2>2, <2>3, <3>1
      <4> QED
        BY <1>2, <3>1, <4>1 DEF ProtocolAt, ProtoFits, Live, Protos
    <3>2. CASE t.kind \in {"Generating", "Resharing"} /\ t = node[n]
      BY <1>2, <2>3, <3>2 DEF ProtocolAt, ProtoFits
    <3>3. CASE t.kind = "Joining"
      BY <1>2, <3>3 DEF ProtocolAt, ProtoFits, Idle, Protos
    <3>4. CASE t.kind \notin {"Generating", "Resharing", "Joining"}
      <4>1. t.kind \in {"Started", "Waiting", "Running"}
        BY <2>2, <3>4, KindIsShape DEF StateFits
      <4>2. proto[n].status \notin {"live", "meshed", "ready"}
        BY <2>2, <2>3, <4>1 DEF ProtoFits
      <4> QED
        BY <1>2, <2>3, <3>4, <4>1, <4>2 DEF ProtocolAt, ProtoFits
    <3> QED
      BY <3>1, <3>2, <3>3, <3>4
  <2> QED
    BY <1>1, <1>2, <1>3, <1>4, <2>1, <2>2, <2>4 DEF NodeFits, OnlyOf
<1> QED
  BY <1>5, <1>6, <1>7

-----------------------------------------------------------------------------
(* Votes and quorums.                                                       *)

MembersIn(c) == IF c.phase = "Running" THEN c.participants ELSE c.old_participants

\* From c to cc the contract takes no vote on a key and keeps epoch 0's key.
KeyCalm(c, cc) ==
    /\ cc.phase = "Initializing" => \A key \in PublicKeys :
        \/ cc.pk_votes[key] = {}
        \/ /\ c.phase = "Initializing"
           /\ cc.candidates = c.candidates
           /\ cc.pk_votes[key] = c.pk_votes[key]
    /\ AgreedIn(cc) /\ EpochIn(cc) = 0 =>
        /\ AgreedIn(c) /\ EpochIn(c) = 0
        /\ MembersIn(cc) = MembersIn(c)
        /\ cc.public_key = c.public_key

\* From c to cc the contract takes no vote on the end of a resharing.
EpochCalm(c, cc) ==
    /\ cc.phase = "Resharing" =>
        \/ cc.finished_votes = {}
        \/ /\ c.phase = "Resharing"
           /\ cc.old_epoch = c.old_epoch
           /\ cc.old_participants = c.old_participants
           /\ cc.finished_votes = c.finished_votes
    /\ cc.phase = "Running" /\ cc.epoch > 0 =>
        /\ c.phase = "Running"
        /\ cc.epoch = c.epoch
        /\ cc.participants = c.participants

Calm(c, cc) == KeyCalm(c, cc) /\ EpochCalm(c, cc)

\* A contract that does not change is calm.
LEMMA SameIsCalm ==
    ASSUME NEW c
    PROVE  Calm(c, c)
  BY DEF Calm, KeyCalm, EpochCalm

\* So is a Running contract that only collects votes.
LEMMA QuietIsCalm ==
    ASSUME NEW c \in ContractStates, NEW cc, Quiet(c, cc), c.phase = "Running"
    PROVE  Calm(c, cc)
  BY DEF Calm, KeyCalm, EpochCalm, Quiet, AgreedIn, EpochIn, MembersIn

\* No stored key is replaced.
StorageGrows ==
    \A m \in Accounts :
        storage[m].public_key \in PublicKeys => storage'[m].public_key = storage[m].public_key

\* Unless it crashes, nobody loses a share of the epoch the contract is at or
\* is resharing towards.
NobodyForgets ==
    faults' = 0 =>
        /\ faults = 0
        /\ \A m \in Accounts, e \in Nat : e > 0 /\ At(contract, e) /\ Keeps(node[m], loop[m], e)
                => Keeps(node'[m], loop'[m], e)

\* A subset of the accounts that only grows keeps its quorum.
LEMMA QuorumGrows ==
    ASSUME NEW S, NEW T \in SUBSET Accounts, S \subseteq T, Cardinality(S) >= Threshold
    PROVE  Cardinality(T) >= Threshold
<1>1. IsFiniteSet(T)
  BY NetworkAssumption, FS_Subset
<1>2. IsFiniteSet(S) /\ Cardinality(S) <= Cardinality(T)
  BY <1>1, FS_Subset
<1>3. Cardinality(S) \in Nat /\ Cardinality(T) \in Nat
  BY <1>1, <1>2, FS_CardinalityType
<1> QED
  BY <1>2, <1>3, NetworkAssumption

\* What votes and quorums rest on in storage stays, as storage is only added to.
LEMMA StoredStays ==
    ASSUME Types, Types', PkVotesStored, StoredQuorum, KeyCalm(contract, contract'), StorageGrows
    PROVE  PkVotesStored' /\ StoredQuorum'
<1>1. PkVotesStored'
  <2> SUFFICES ASSUME contract'.phase = "Initializing", NEW key \in PublicKeys,
                      NEW n \in contract'.pk_votes[key]
               PROVE  n \in contract'.candidates /\ storage'[n].public_key = key
    BY DEF PkVotesStored
  <2>1. /\ contract.phase = "Initializing" /\ contract'.candidates = contract.candidates
        /\ n \in contract.pk_votes[key]
    BY DEF KeyCalm
  <2>2. n \in contract.candidates /\ storage[n].public_key = key
    BY <2>1 DEF PkVotesStored
  <2>3. n \in Accounts
    BY <2>1, <2>2, PhaseIsVariant DEF Types, C!InitializingStates, C!AccountSets
  <2> QED
    BY <2>1, <2>2, <2>3 DEF StorageGrows
<1>2. StoredQuorum'
  <2> SUFFICES ASSUME AgreedIn(contract'), EpochIn(contract') = 0
               PROVE  Cardinality({n \in MembersIn(contract') :
                          storage'[n].public_key = contract'.public_key}) >= Threshold
    BY DEF StoredQuorum, Agreed, Epoch, Members, AgreedIn, EpochIn, MembersIn
  <2>1. /\ AgreedIn(contract) /\ EpochIn(contract) = 0
        /\ MembersIn(contract') = MembersIn(contract)
        /\ contract'.public_key = contract.public_key
    BY DEF KeyCalm
  <2> DEFINE S == {n \in MembersIn(contract) : storage[n].public_key = contract.public_key}
             T == {n \in MembersIn(contract') : storage'[n].public_key = contract'.public_key}
  <2>2. Cardinality(S) >= Threshold
    BY <2>1 DEF StoredQuorum, Agreed, Epoch, Members, AgreedIn, EpochIn, MembersIn
  <2>3. MembersIn(contract) \in SUBSET Accounts /\ contract.public_key \in PublicKeys
    BY <2>1, PhaseIsVariant DEF Types, AgreedIn, MembersIn, C!RunningStates, C!ResharingStates,
                                C!AccountSets
  <2>4. S \subseteq T /\ T \in SUBSET Accounts
    BY <2>1, <2>3 DEF StorageGrows
  <2> QED
    BY <2>2, <2>4, QuorumGrows
<1> QED
  BY <1>1, <1>2

\* Voters keep their shares when no node forgets one.
LEMMA VotersStay ==
    ASSUME Types, Types', VotersKeep, EpochCalm(contract, contract'), NobodyForgets
    PROVE  VotersKeep'
<1> SUFFICES ASSUME faults' = 0
             PROVE  /\ contract'.phase = "Resharing" =>
                        \A n \in contract'.finished_votes :
                            n \in contract'.old_participants /\ Keeps(node'[n], loop'[n], contract'.old_epoch + 1)
                    /\ contract'.phase = "Running" /\ contract'.epoch > 0 =>
                        Cardinality({n \in contract'.participants : Keeps(node'[n], loop'[n], contract'.epoch)})
                            >= Threshold
  BY DEF VotersKeep
<1>1. faults = 0
  BY DEF NobodyForgets
<1>2. ASSUME contract'.phase = "Resharing", NEW n \in contract'.finished_votes
      PROVE  n \in contract'.old_participants /\ Keeps(node'[n], loop'[n], contract'.old_epoch + 1)
  <2>1. /\ contract.phase = "Resharing" /\ contract'.old_epoch = contract.old_epoch
        /\ contract'.old_participants = contract.old_participants
        /\ n \in contract.finished_votes
    BY <1>2 DEF EpochCalm
  <2>2. n \in contract.old_participants /\ Keeps(node[n], loop[n], contract.old_epoch + 1)
    BY <1>1, <2>1 DEF VotersKeep
  <2>3. n \in Accounts /\ contract.old_epoch \in Nat
    BY <2>1, <2>2, PhaseIsVariant, NetworkAssumption DEF Types, C!ResharingStates, C!AccountSets
  <2>4. At(contract, contract.old_epoch + 1) /\ contract.old_epoch + 1 \in Nat
        /\ contract.old_epoch + 1 > 0
    BY <2>1, <2>3 DEF At
  <2> QED
    BY <2>1, <2>2, <2>3, <2>4 DEF NobodyForgets
<1>3. ASSUME contract'.phase = "Running", contract'.epoch > 0
      PROVE  Cardinality({n \in contract'.participants : Keeps(node'[n], loop'[n], contract'.epoch)}) >= Threshold
  <2>1. /\ contract.phase = "Running" /\ contract'.epoch = contract.epoch
        /\ contract'.participants = contract.participants
    BY <1>3 DEF EpochCalm
  <2> DEFINE S == {n \in contract.participants : Keeps(node[n], loop[n], contract.epoch)}
             T == {n \in contract'.participants : Keeps(node'[n], loop'[n], contract'.epoch)}
  <2>2. Cardinality(S) >= Threshold
    BY <1>1, <1>3, <2>1 DEF VotersKeep
  <2>3. contract.participants \in SUBSET Accounts /\ contract.epoch \in Nat
    BY <2>1, PhaseIsVariant, NetworkAssumption DEF Types, C!RunningStates, C!AccountSets
  <2>4. At(contract, contract.epoch)
    BY <2>1 DEF At
  <2>5. S \subseteq T /\ T \in SUBSET Accounts
    BY <1>3, <2>1, <2>3, <2>4 DEF NobodyForgets
  <2> QED
    BY <2>2, <2>5, QuorumGrows
<1> QED
  BY <1>2, <1>3

\* n loses no share in this step unless it crashes.
Remembers(n) ==
    faults' = 0 =>
        /\ faults = 0
        /\ \A e \in Nat : e > 0 /\ At(contract, e) /\ Keeps(node[n], loop[n], e)
                            => Keeps(node'[n], loop'[n], e)

\* A step of one node during which no vote is decided.
LEMMA CalmNodeStep ==
    ASSUME IInv, NEW H \in Histories, NEW G \in Histories, Fits(H), NEW n \in Accounts,
           SameSoFar(H, G, contract), ContractFits(G, contract'),
           contract' \in {C!NotInitialized} \cup ContractStates,
           contract' = contract \/ Before(contract, contract'), Calm(contract, contract'),
           OnlyOf(n), faults' \in 0..MaxFaults,
           NodeFits(H, n, node'[n], loop'[n], proto'[n], storage'[n], contract),
           storage[n].public_key \in PublicKeys => storage'[n].public_key = storage[n].public_key,
           Remembers(n)
    PROVE  IInv'
<1>1. Types' /\ Fits(G)'
  BY OneNodeMoves DEF IInv
<1>2. \A m \in Accounts : m # n => /\ node'[m] = node[m] /\ loop'[m] = loop[m]
                                   /\ storage'[m] = storage[m]
  BY DEF OnlyOf, IInv, Types
<1>3. StorageGrows
  BY <1>2 DEF StorageGrows
<1>4. NobodyForgets
  BY <1>2 DEF NobodyForgets, Remembers
<1>5. PkVotesStored' /\ StoredQuorum'
  BY <1>1, <1>3, StoredStays DEF IInv, Calm
<1>6. VotersKeep'
  BY <1>1, <1>4, VotersStay DEF IInv, Calm
<1> QED
  BY <1>1, <1>5, <1>6 DEF IInv

\* The same when the contract stays as it is.
LEMMA LocalStep ==
    ASSUME IInv, NEW H \in Histories, Fits(H), NEW n \in Accounts, UNCHANGED contract,
           OnlyOf(n), faults' \in 0..MaxFaults,
           NodeFits(H, n, node'[n], loop'[n], proto'[n], storage'[n], contract),
           storage[n].public_key \in PublicKeys => storage'[n].public_key = storage[n].public_key,
           Remembers(n)
    PROVE  IInv'
<1>1. SameSoFar(H, H, contract) /\ Calm(contract, contract')
  BY SameIsSameSoFar, SameIsCalm
<1>2. ContractFits(H, contract') /\ contract' \in {C!NotInitialized} \cup ContractStates
  BY DEF Fits, IInv, Types
<1> QED
  BY <1>1, <1>2, CalmNodeStep

-----------------------------------------------------------------------------
(* Each action keeps the invariant.                                         *)

\* A snapshot taken now fits the history of now.
LEMMA FetchStep ==
    ASSUME IInv, NEW n \in Accounts, Fetch(n)
    PROVE  IInv'
<1> USE DEF Types
<1>1. PICK H \in Histories : Fits(H)
  BY DEF IInv
<1> DEFINE lo == [at |-> "fetched", snap |-> contract]
<1>2. /\ loop' = [loop EXCEPT ![n] = lo] /\ loop'[n] = lo
      /\ UNCHANGED <<contract, node, storage, proto, faults>>
      /\ loop[n].at = "top" /\ node[n].kind # "Down"
  BY DEF Fetch, IInv
<1>3. OnlyOf(n)
  BY <1>2 DEF OnlyOf, IInv
<1>4. contract \in ContractStates /\ LastEpoch(contract) \in Nat
  BY PhaseIsVariant DEF Fetch, IInv
<1>5. NodeFits(H, n, node[n], loop[n], proto[n], storage[n], contract)
  BY <1>1 DEF Fits, NodesFit
<1>6. StateEpoch(node[n]) <= LastEpoch(contract)
  BY <1>4, <1>5, KindIsShape DEF NodeFits, StateFits, StateEpoch
<1>7. lo \in LoopStates /\ lo.at = "fetched" /\ lo.snap = contract
  BY <1>4 DEF LoopStates, FetchedStates
<1>8. LoopFits(H, n, node[n], lo, storage[n], contract)
  BY <1>1, <1>2, <1>4, <1>6, <1>7, BeforeReflexive DEF LoopFits, Snapshot, Fits
<1>9. ProtoFits(node[n], lo, proto[n], storage[n])
  BY <1>5, <1>7 DEF NodeFits, ProtoFits
<1>10. NodeFits(H, n, node'[n], loop'[n], proto'[n], storage'[n], contract)
  BY <1>2, <1>5, <1>8, <1>9 DEF NodeFits
<1>11. Remembers(n)
  BY <1>2, <1>7 DEF Remembers, Keeps
<1> QED
  BY <1>1, <1>2, <1>3, <1>10, <1>11, LocalStep DEF IInv

\* The share that key generation returns fits, and is stored where nothing was
\* stored before.
LEMMA GeneratingReturnsStep ==
    ASSUME IInv, NEW n \in Accounts, GeneratingReturns(n)
    PROVE  IInv'
<1> USE DEF Types
<1>1. PICK H \in Histories : Fits(H)
  BY DEF IInv
<1> DEFINE s == node[n]
           key == proto[n].key
           share == Share(key, 0, Id(s.participants, n))
           work == Holding("Waiting", 0, s.participants, s.threshold, share, key)
           lo == [at |-> "progressed", snap |-> loop[n].snap, work |-> work]
           data == Data(0, share, key)
           pr == [proto[n] EXCEPT !.status = "done"]
<1>2. /\ loop[n].at = "fetched" /\ s.kind = "Generating" /\ proto[n].status = "ready"
      /\ UNCHANGED <<contract, node>>
  BY DEF GeneratingReturns
<1>3. proto' = [proto EXCEPT ![n] = pr] /\ proto'[n] = pr
  BY DEF GeneratingReturns, IInv
<1>4. NodeFits(H, n, s, loop[n], proto[n], storage[n], contract)
  BY <1>1 DEF Fits, NodesFit
<1>5. /\ s \in GeneratingStates /\ s.participants = H[0] /\ n \in H[0]
      /\ contract.phase # "NotInitialized" /\ s.threshold = Threshold
  BY <1>2, <1>4, KindIsShape DEF NodeFits, StateFits, GeneratingStates
<1>6. key \in PublicKeys /\ storage[n] = NoData /\ proto[n] \in Protos
  BY <1>2, <1>4 DEF NodeFits, ProtoFits
<1>7. /\ loop[n].snap \in ContractStates /\ ContractFits(H, loop[n].snap)
      /\ Before(loop[n].snap, contract)
  BY <1>2, <1>4, AtIsShape DEF NodeFits, LoopFits, Snapshot
<1>8. /\ H[0] \in SUBSET Accounts /\ 0 \in 0..MaxEpoch /\ LastEpoch(contract) \in Nat
      /\ LastEpoch(loop[n].snap) \in Nat
  BY <1>7, NetworkAssumption, PhaseIsVariant DEF Histories, IInv
<1>9. share \in AnyShare /\ data \in Datas /\ data.public_key = key
  BY <1>5, <1>6, <1>8, ShareShape
<1>10. pr \in Protos /\ pr.status = "done"
  BY <1>6 DEF Protos
<1>11. storage[n].public_key \notin PublicKeys
  BY <1>6, NetworkAssumption DEF NoData
<1>12. Current(n) = s /\ ~ Keeps(node[n], loop[n], 0)
       /\ \A e \in Nat : ~ Keeps(node[n], loop[n], e)
  BY <1>2 DEF Current, Keeps
<1>13. CASE /\ Store(n, data) /\ UNCHANGED faults
            /\ loop' = [loop EXCEPT ![n] = lo]
  <2>1. /\ storage' = [storage EXCEPT ![n] = data] /\ storage'[n] = data
        /\ loop'[n] = lo
    BY <1>13 DEF Store, IInv
  <2>2. OnlyOf(n)
    BY <1>2, <1>3, <1>13, <2>1 DEF OnlyOf, IInv
  <2>3. work \in HoldingStates({"Waiting"}) /\ work \in HoldingStates({"Waiting", "Running"})
    BY <1>5, <1>6, <1>8, <1>9 DEF Holding, HoldingStates
  <2>4. /\ work.kind = "Waiting" /\ work.epoch = 0 /\ work.participants = H[0]
        /\ work.public_key = key /\ work.private_share = share
    BY <1>5 DEF Holding
  <2>5. StateFits(H, n, work, data, contract)
    <3>1. HolderFits(H, n, work)
      BY <1>5, <2>4 DEF HolderFits
    <3>2. StateEpoch(work) = 0
      BY <2>4 DEF StateEpoch
    <3> QED
      BY <1>5, <1>8, <1>9, <2>3, <2>4, <3>1, <3>2 DEF StateFits, NodeStates
  <2>6. lo \in LoopStates /\ lo.at = "progressed" /\ lo.snap = loop[n].snap /\ lo.work = work
    BY <1>7, <2>3 DEF LoopStates, ProgressedStates
  <2>7. LoopFits(H, n, s, lo, data, contract)
    BY <1>2, <1>7, <1>8, <2>4, <2>5, <2>6 DEF LoopFits, Snapshot, StateEpoch
  <2>8. DataFits(H, n, data, contract)
    <3>1. data = Data(0, Share(data.public_key, 0, Id(H[0], n)), data.public_key)
      BY <1>5, <1>9
    <3> QED
      BY <1>5, <1>6, <1>9, <3>1 DEF DataFits
  <2>9. ProtoFits(s, lo, pr, data)
    BY <1>10, <2>6 DEF ProtoFits
  <2>10. StateFits(H, n, s, data, contract)
    BY <1>2, <1>4 DEF NodeFits, StateFits
  <2>11. NodeFits(H, n, node'[n], loop'[n], proto'[n], storage'[n], contract)
    BY <1>2, <1>3, <2>1, <2>7, <2>8, <2>9, <2>10 DEF NodeFits
  <2>12. Remembers(n)
    BY <1>12, <1>13 DEF Remembers
  <2> QED
    BY <1>1, <1>2, <1>11, <1>13, <2>2, <2>11, <2>12, LocalStep DEF IInv
<1>14. CASE /\ faults < MaxFaults /\ faults' = faults + 1
            /\ loop' = [loop EXCEPT ![n] = Top]
            /\ UNCHANGED storage
  <2>1. loop'[n] = Top /\ Top \in LoopStates /\ Top.at = "top"
    BY <1>14 DEF IInv, Top, LoopStates
  <2>2. OnlyOf(n)
    BY <1>2, <1>3, <1>14, <2>1 DEF OnlyOf, IInv
  <2>3. LoopFits(H, n, s, Top, storage[n], contract)
    BY <2>1 DEF LoopFits
  <2>4. ProtoFits(s, Top, pr, storage[n])
    BY <1>10, <2>1 DEF ProtoFits
  <2>5. NodeFits(H, n, node'[n], loop'[n], proto'[n], storage'[n], contract)
    BY <1>2, <1>3, <1>4, <1>14, <2>1, <2>3, <2>4 DEF NodeFits
  <2>6. faults' \in 0..MaxFaults /\ Remembers(n)
    BY <1>14, NetworkAssumption DEF IInv, Remembers
  <2> QED
    BY <1>1, <1>2, <1>14, <2>2, <2>5, <2>6, LocalStep
<1> QED
  BY <1>13, <1>14 DEF GeneratingReturns

\* The share that resharing returns fits the next epoch.
LEMMA ResharingReturnsStep ==
    ASSUME IInv, NEW n \in Accounts, ResharingReturns(n)
    PROVE  IInv'
<1> USE DEF Types
<1>1. PICK H \in Histories : Fits(H)
  BY DEF IInv
<1> DEFINE s == node[n]
           work == Holding("Waiting", s.old_epoch + 1, s.new_participants, s.threshold,
                           NewShare(n, s), s.public_key)
           lo == [at |-> "progressed", snap |-> loop[n].snap, work |-> work]
           pr == [proto[n] EXCEPT !.status = "done"]
<1>2. /\ loop[n].at = "fetched" /\ s.kind = "Resharing" /\ proto[n].status = "ready"
      /\ UNCHANGED <<contract, node, storage, faults>>
      /\ loop' = [loop EXCEPT ![n] = lo] /\ loop'[n] = lo
      /\ proto' = [proto EXCEPT ![n] = pr] /\ proto'[n] = pr
  BY DEF ResharingReturns, IInv
<1>3. NodeFits(H, n, s, loop[n], proto[n], storage[n], contract)
  BY <1>1 DEF Fits, NodesFit
<1>4. /\ s \in ResharingStates /\ s.old_epoch < MaxEpoch /\ s.old_epoch \in Nat
      /\ s.new_participants = H[s.old_epoch + 1] /\ n \in H[s.old_epoch + 1]
      /\ contract.phase # "NotInitialized" /\ s.threshold = Threshold
      /\ s.public_key \in PublicKeys /\ AgreedIn(contract) /\ s.public_key = contract.public_key
      /\ s.old_epoch + 1 <= LastEpoch(contract)
  BY <1>2, <1>3, KindIsShape, NetworkAssumption DEF NodeFits, StateFits, ResharingStates, StateEpoch
<1>5. s.old_epoch + 1 \in 0..MaxEpoch /\ H[s.old_epoch + 1] \in SUBSET Accounts
  BY <1>4, NetworkAssumption DEF Histories
<1>6. NewShare(n, s) = Share(s.public_key, s.old_epoch + 1, Id(H[s.old_epoch + 1], n))
  BY <1>4 DEF NewShare
<1>7. NewShare(n, s) \in AnyShare
  BY <1>4, <1>5, <1>6, ShareShape
<1>8. work \in HoldingStates({"Waiting"}) /\ work \in HoldingStates({"Waiting", "Running"})
  BY <1>4, <1>5, <1>7 DEF Holding, HoldingStates
<1>9. /\ work.kind = "Waiting" /\ work.epoch = s.old_epoch + 1 /\ work.epoch # 0
      /\ work.participants = H[s.old_epoch + 1] /\ work.public_key = s.public_key
      /\ work.private_share = NewShare(n, s)
  BY <1>4 DEF Holding
<1>10. StateEpoch(work) = s.old_epoch + 1 /\ StateEpoch(s) = s.old_epoch + 1
  BY <1>2, <1>9 DEF StateEpoch
<1>11. StateFits(H, n, work, storage[n], contract)
  <2>1. HolderFits(H, n, work)
    BY <1>4, <1>6, <1>9 DEF HolderFits
  <2> QED
    BY <1>4, <1>8, <1>9, <1>10, <2>1 DEF StateFits, NodeStates
<1>12. /\ loop[n].snap \in ContractStates /\ Snapshot(H, s, loop[n].snap, contract)
  BY <1>2, <1>3, AtIsShape DEF NodeFits, LoopFits
<1>13. lo \in LoopStates /\ lo.at = "progressed" /\ lo.snap = loop[n].snap /\ lo.work = work
  BY <1>8, <1>12 DEF LoopStates, ProgressedStates
<1>14. LoopFits(H, n, s, lo, storage[n], contract)
  BY <1>2, <1>10, <1>11, <1>12, <1>13 DEF LoopFits, Snapshot
<1>15. pr \in Protos /\ pr.status = "done"
  BY <1>3 DEF NodeFits, ProtoFits, Protos
<1>16. ProtoFits(s, lo, pr, storage[n])
  BY <1>2, <1>15 DEF ProtoFits
<1>17. NodeFits(H, n, node'[n], loop'[n], proto'[n], storage'[n], contract)
  BY <1>2, <1>3, <1>14, <1>16 DEF NodeFits
<1>18. OnlyOf(n)
  BY <1>2 DEF OnlyOf, IInv
<1>19. Remembers(n)
  BY <1>2 DEF Remembers, Keeps
<1> QED
  BY <1>1, <1>2, <1>17, <1>18, <1>19, LocalStep DEF IInv

\* What advance works on when progress is over.
LEMMA PolledFits ==
    ASSUME IInv, NEW H \in Histories, Fits(H), NEW n \in Accounts, Polled(n)
    PROVE  /\ contract \in ContractStates /\ loop[n].snap \in ContractStates
           /\ NodeFits(H, n, node[n], loop[n], proto[n], storage[n], contract)
           /\ StateFits(H, n, Current(n), storage[n], contract)
           /\ Snapshot(H, Current(n), loop[n].snap, contract)
           /\ Current(n) \in NodeStates /\ Current(n).kind # "Down"
           /\ loop[n].at = "progressed" => Current(n).kind = "Waiting"
           /\ loop[n].at # "progressed" => Current(n) = node[n]
           /\ \A e : Keeps(node[n], loop[n], e) <=>
                        Current(n).kind \in {"Waiting", "Running"} /\ Current(n).epoch = e
<1>1. NodeFits(H, n, node[n], loop[n], proto[n], storage[n], contract)
  BY DEF Fits, NodesFit
<1>2. loop[n].at \in {"fetched", "progressed"} /\ loop[n] \in LoopStates
  BY <1>1 DEF Polled, NodeFits, LoopFits
<1>3. loop[n].snap \in ContractStates
  BY <1>2, AtIsShape
<1>4. loop[n].at = "progressed" => Current(n) = loop[n].work /\ Current(n).kind = "Waiting"
  BY <1>2, AtIsShape DEF Current
<1>5. loop[n].at # "progressed" => Current(n) = node[n] /\ node[n].kind # "Down"
  BY <1>1, <1>2 DEF Current, NodeFits, LoopFits
<1>6. /\ StateFits(H, n, Current(n), storage[n], contract)
      /\ Snapshot(H, Current(n), loop[n].snap, contract)
  BY <1>1, <1>2, <1>4, <1>5 DEF NodeFits, LoopFits
<1>7. contract \in ContractStates
  BY <1>6, PhaseIsVariant DEF Snapshot, Before, IInv, Types
<1>8. Current(n) \in NodeStates
  BY <1>6 DEF StateFits
<1>9. \A e : Keeps(node[n], loop[n], e) <=>
               Current(n).kind \in {"Waiting", "Running"} /\ Current(n).epoch = e
  BY DEF Keeps, Current
<1> QED
  BY <1>1, <1>3, <1>4, <1>5, <1>6, <1>7, <1>8, <1>9

\* What a node keeps when its iteration ends in state t.
LEMMA ConcludeKeeps ==
    ASSUME Types, NEW n \in Accounts, NEW t, Conclude(n, t), t # Panic, NEW e,
           t = Err => loop[n].at # "progressed" /\ Keeps(node[n], loop[n], e),
           t # Err => t.kind \in {"Waiting", "Running"} /\ t.epoch = e
    PROVE  Keeps(node'[n], loop'[n], e)
<1>1. loop'[n] = Top /\ Top.at = "top"
  BY DEF Conclude, Stop, Top, Types
<1>2. node'[n] = IF t = Err THEN node[n] ELSE t
  BY DEF Conclude, Types
<1> QED
  BY <1>1, <1>2 DEF Keeps

\* advance concludes with a state that fits, and a voter keeps its share.
LEMMA AdvanceStep ==
    ASSUME IInv, NEW n \in Accounts, Advance(n)
    PROVE  IInv'
<1>1. PICK H \in Histories : Fits(H)
  BY DEF IInv
<1> DEFINE b == loop[n].snap
           t == AdvanceTo(n, Current(n), b)
<1>2. Polled(n) /\ Conclude(n, t) /\ UNCHANGED <<contract, storage, faults>>
  BY DEF Advance
<1>3. /\ contract \in ContractStates /\ b \in ContractStates
      /\ NodeFits(H, n, node[n], loop[n], proto[n], storage[n], contract)
      /\ StateFits(H, n, Current(n), storage[n], contract)
      /\ Snapshot(H, Current(n), b, contract) /\ Current(n).kind # "Down"
      /\ loop[n].at = "progressed" => Current(n).kind = "Waiting"
      /\ \A e : Keeps(node[n], loop[n], e) <=>
                   Current(n).kind \in {"Waiting", "Running"} /\ Current(n).epoch = e
  BY <1>1, <1>2, PolledFits
<1>4. Outcome(H, n, Current(n), t, storage[n], contract)
  BY <1>3, AdvanceFits DEF NodeFits, Snapshot
<1>5. /\ OnlyOf(n)
      /\ NodeFits(H, n, node'[n], loop'[n], proto'[n], storage'[n], contract)
  BY <1>2, <1>3, <1>4, ConcludeFits DEF IInv
<1>6. Remembers(n)
  <2> SUFFICES ASSUME NEW e \in Nat, e > 0, At(contract, e), Keeps(node[n], loop[n], e)
               PROVE  Keeps(node'[n], loop'[n], e)
    BY <1>2 DEF Remembers
  <2>1. Current(n).kind \in {"Waiting", "Running"} /\ Current(n).epoch = e
    BY <1>3
  <2>2. \/ Current(n).kind = "Running" /\ t = Err
        \/ t.kind \in {"Waiting", "Running"} /\ t.epoch = e
    BY <1>3, <2>1, HolderKeeps
  <2>3. t # Panic /\ (t = Err => loop[n].at # "progressed")
    BY <1>3, <2>2 DEF Err, Panic
  <2> QED
    BY <1>2, <2>2, <2>3, ConcludeKeeps DEF IInv
<1> QED
  BY <1>1, <1>2, <1>5, <1>6, LocalStep DEF IInv, Types

\* A vote for the key: only with the share in storage, and accepted only from
\* a candidate, or when it changes nothing.
LEMMA AdvanceVotePkStep ==
    ASSUME IInv, NEW n \in Accounts, AdvanceVotePk(n)
    PROVE  IInv'
<1>1. PICK H \in Histories : Fits(H)
  BY DEF IInv
<1> DEFINE s == Current(n)
           key == s.public_key
<1>2. Polled(n) /\ VotesPk(n) /\ UNCHANGED <<storage, faults>>
  BY DEF AdvanceVotePk
<1>3. s.kind = "Waiting" /\ loop[n].snap.phase = "Initializing"
  BY <1>2 DEF VotesPk
<1>4. /\ contract \in ContractStates /\ loop[n].snap \in ContractStates
      /\ NodeFits(H, n, node[n], loop[n], proto[n], storage[n], contract)
      /\ StateFits(H, n, s, storage[n], contract)
      /\ Snapshot(H, s, loop[n].snap, contract) /\ s \in NodeStates
      /\ \A e : Keeps(node[n], loop[n], e) <=> s.kind \in {"Waiting", "Running"} /\ s.epoch = e
  BY <1>1, <1>2, PolledFits
<1>5. key \in PublicKeys /\ s.epoch \in Nat
  BY <1>3, <1>4, KindIsShape, NetworkAssumption DEF HoldingStates
<1>6. Outcome(H, n, s, s, storage[n], contract) /\ Outcome(H, n, s, Panic, storage[n], contract)
  BY <1>3, <1>4, SameFits, FailureFits
<1>7. Conclude(n, s) \/ Conclude(n, Panic)
  BY DEF AdvanceVotePk
<1>8. /\ OnlyOf(n)
      /\ NodeFits(H, n, node'[n], loop'[n], proto'[n], storage'[n], contract)
  BY <1>2, <1>4, <1>6, <1>7, ConcludeFits DEF IInv
<1>9. \A e \in Nat : e > 0 /\ At(contract, e) => ~ Keeps(node[n], loop[n], e)
  BY <1>3, <1>4, HolderKeeps
<1>10. Remembers(n)
  BY <1>2, <1>9 DEF Remembers
<1>11. CASE contract' = contract
  BY <1>1, <1>2, <1>8, <1>10, <1>11, LocalStep DEF IInv, Types
<1>12. CASE contract' # contract
  <2> DEFINE voted == contract.pk_votes[key] \cup {n}
  <2>1. C!VotePkOk(contract, n, key) /\ contract' = C!VotePkCall(contract, n, key)
    BY <1>12 DEF AdvanceVotePk
  <2>2. /\ contract.phase = "Initializing" /\ n \in contract.candidates
        /\ \/ /\ Quiet(contract, contract')
              /\ \A k \in PublicKeys :
                    contract'.pk_votes[k] = IF k = key THEN voted ELSE contract.pk_votes[k]
           \/ /\ Cardinality(voted) >= Threshold
              /\ contract' = C!Running(0, contract.candidates, Threshold, key)
    BY <1>4, <1>5, <1>12, <2>1, VotePkMoves
  <2>3. s.epoch = 0
    BY <1>3, <1>4, <1>5, <2>2 DEF StateFits, StateEpoch, LastEpoch
  <2>4. storage[n].public_key = key
    BY <1>3, <1>4, <2>3 DEF StateFits
  <2>5. \A k \in PublicKeys : \A m \in contract.pk_votes[k] :
            m \in contract.candidates /\ storage[m].public_key = k
    BY <2>2 DEF IInv, PkVotesStored
  <2>6. contract.candidates \in SUBSET Accounts /\ contract.candidates = H[0]
    BY <1>1, <2>2, PhaseIsVariant DEF IInv, Types, C!InitializingStates, C!AccountSets,
                                      Fits, ContractFits
  <2>7. CASE /\ Quiet(contract, contract')
             /\ \A k \in PublicKeys :
                    contract'.pk_votes[k] = IF k = key THEN voted ELSE contract.pk_votes[k]
    <3>1. contract' \in ContractStates /\ ContractFits(H, contract') /\ Before(contract, contract')
      BY <1>1, <1>4, <2>7, QuietFits DEF Fits
    <3>2. Types' /\ Fits(H)'
      BY <1>1, <1>2, <1>8, <3>1, OneNodeMoves, SameIsSameSoFar DEF IInv, Types
    <3>3. contract'.phase = "Initializing" /\ contract'.candidates = contract.candidates
      BY <2>2, <2>7 DEF Quiet
    <3>4. PkVotesStored'
      <4> SUFFICES ASSUME NEW k \in PublicKeys, NEW m \in contract'.pk_votes[k]
                   PROVE  m \in contract.candidates /\ storage[m].public_key = k
        BY <1>2, <3>3 DEF PkVotesStored
      <4>1. contract'.pk_votes[k] = IF k = key THEN voted ELSE contract.pk_votes[k]
        BY <2>7
      <4> QED
        BY <2>2, <2>4, <2>5, <4>1
    <3>5. StoredQuorum' /\ VotersKeep'
      BY <3>3 DEF StoredQuorum, VotersKeep, Agreed
    <3> QED
      BY <3>2, <3>4, <3>5 DEF IInv
  <2>8. CASE /\ Cardinality(voted) >= Threshold
             /\ contract' = C!Running(0, contract.candidates, Threshold, key)
    <3>1. /\ contract'.phase = "Running" /\ contract'.epoch = 0 /\ contract'.public_key = key
          /\ contract'.participants = contract.candidates
      BY <2>8 DEF C!Running
    <3>2. contract' \in ContractStates
      <4>1. contract' \in C!RunningStates
        BY <1>5, <2>6, <2>8, NetworkAssumption DEF C!Running, C!RunningStates, C!AccountSets,
                                                   C!NoVotes, C!Votes
      <4> QED
        BY <4>1 DEF ContractStates
    <3>3. ContractFits(H, contract') /\ Before(contract, contract')
      BY <2>2, <2>6, <3>1 DEF ContractFits, Before, LastEpoch, AgreedIn
    <3>4. Types' /\ Fits(H)'
      BY <1>1, <1>2, <1>8, <3>2, <3>3, OneNodeMoves, SameIsSameSoFar DEF IInv, Types
    <3>5. voted \subseteq {m \in contract.candidates : storage[m].public_key = key}
      BY <1>5, <2>2, <2>4, <2>5
    <3>6. Cardinality({m \in contract.candidates : storage[m].public_key = key}) >= Threshold
      BY <2>6, <2>8, <3>5, QuorumGrows
    <3>7. StoredQuorum'
      BY <1>2, <3>1, <3>6 DEF StoredQuorum, Members
    <3>8. PkVotesStored' /\ VotersKeep'
      BY <3>1 DEF PkVotesStored, VotersKeep
    <3> QED
      BY <3>4, <3>7, <3>8 DEF IInv
  <2> QED
    BY <2>2, <2>7, <2>8
<1> QED
  BY <1>11, <1>12

\* A vote that the resharing is finished: whoever casts it holds its new share
\* and keeps it.
LEMMA AdvanceVoteResharedStep ==
    ASSUME IInv, NEW n \in Accounts, AdvanceVoteReshared(n)
    PROVE  IInv'
<1>1. PICK H \in Histories : Fits(H)
  BY DEF IInv
<1> DEFINE s == Current(n)
           e == s.epoch
           b == loop[n].snap
<1>2. Polled(n) /\ VotesReshared(n) /\ UNCHANGED <<storage, faults>>
  BY DEF AdvanceVoteReshared
<1>3. /\ s.kind = "Waiting" /\ b.phase = "Resharing" /\ b.old_epoch + 1 = e
      /\ n \in b.old_participants
  BY <1>2 DEF VotesReshared
<1>4. /\ contract \in ContractStates /\ b \in ContractStates
      /\ NodeFits(H, n, node[n], loop[n], proto[n], storage[n], contract)
      /\ StateFits(H, n, s, storage[n], contract)
      /\ Snapshot(H, s, b, contract) /\ s \in NodeStates
      /\ \A x : Keeps(node[n], loop[n], x) <=> s.kind \in {"Waiting", "Running"} /\ s.epoch = x
  BY <1>1, <1>2, PolledFits
<1>5. e \in Nat /\ b.old_epoch \in Nat /\ e > 0
  BY <1>3, <1>4, KindIsShape, PhaseIsVariant, NetworkAssumption
     DEF HoldingStates, C!ResharingStates
<1>6. Outcome(H, n, s, s, storage[n], contract) /\ Outcome(H, n, s, Panic, storage[n], contract)
  BY <1>3, <1>4, SameFits, FailureFits
<1>7. Conclude(n, s) \/ Conclude(n, Panic)
  BY DEF AdvanceVoteReshared
<1>8. /\ OnlyOf(n)
      /\ NodeFits(H, n, node'[n], loop'[n], proto'[n], storage'[n], contract)
  BY <1>2, <1>4, <1>6, <1>7, ConcludeFits DEF IInv
<1>9. ASSUME At(contract, e) PROVE C!VoteResharedOk(contract, n, e)
  <2>1. CASE contract.phase = "Running"
    BY <1>9, <2>1 DEF At, C!VoteResharedOk
  <2>2. CASE contract.phase # "Running"
    <3>1. contract.phase = "Resharing" /\ contract.old_epoch + 1 = e /\ contract.old_epoch \in Nat
      BY <1>4, <1>9, <2>2, PhaseIsVariant, NetworkAssumption DEF At, C!ResharingStates
    <3>2. contract.old_epoch = b.old_epoch
      BY <1>3, <1>5, <3>1
    <3>3. contract.old_participants = H[contract.old_epoch] /\ b.old_participants = H[b.old_epoch]
      BY <1>1, <1>3, <1>4, <3>1 DEF Fits, ContractFits, Snapshot
    <3> QED
      BY <1>3, <3>1, <3>2, <3>3 DEF C!VoteResharedOk
  <2> QED
    BY <2>1, <2>2
<1>10. C!VoteResharedOk(contract, n, e) => Conclude(n, s) /\ Keeps(node'[n], loop'[n], e)
  <2> SUFFICES ASSUME C!VoteResharedOk(contract, n, e)
               PROVE  Conclude(n, s) /\ Keeps(node'[n], loop'[n], e)
    OBVIOUS
  <2>1. Conclude(n, s)
    BY DEF AdvanceVoteReshared
  <2>2. s # Err /\ s # Panic
    BY <1>3 DEF Err, Panic
  <2>3. Keeps(node'[n], loop'[n], e)
    BY <1>3, <2>1, <2>2, ConcludeKeeps DEF IInv
  <2> QED
    BY <2>1, <2>3
<1>11. Remembers(n)
  <2> SUFFICES ASSUME NEW x \in Nat, At(contract, x), Keeps(node[n], loop[n], x)
               PROVE  Keeps(node'[n], loop'[n], x)
    BY <1>2 DEF Remembers
  <2>1. x = e
    BY <1>4
  <2> QED
    BY <1>9, <1>10, <2>1
<1>12. CASE contract' = contract
  BY <1>1, <1>2, <1>8, <1>11, <1>12, LocalStep DEF IInv, Types
<1>13. CASE contract' # contract
  <2> DEFINE voted == contract.finished_votes \cup {n}
  <2>1. C!VoteResharedOk(contract, n, e) /\ contract' = C!VoteResharedCall(contract, n, e)
    BY <1>13 DEF AdvanceVoteReshared
  <2>2. /\ contract.phase = "Resharing" /\ n \in contract.old_participants
        /\ contract.old_epoch + 1 = e
        /\ \/ Quiet(contract, contract') /\ contract'.finished_votes = voted
           \/ /\ Cardinality(voted) >= Threshold
              /\ contract' = C!Running(e, contract.new_participants, Threshold,
                                       contract.public_key)
    BY <1>4, <1>5, <1>13, <2>1, VoteResharedMoves
  <2>3. /\ contract \in C!ResharingStates /\ contract.old_epoch \in Nat
        /\ contract.old_epoch < MaxEpoch /\ contract.new_participants = H[e]
        /\ contract.old_participants \in SUBSET Accounts
        /\ contract.new_participants \in SUBSET Accounts
    BY <1>1, <1>4, <2>2, PhaseIsVariant, NetworkAssumption
       DEF C!ResharingStates, C!AccountSets, Fits, ContractFits
  <2>4. \A m \in Accounts : m # n => node'[m] = node[m] /\ loop'[m] = loop[m]
    BY <1>8 DEF OnlyOf, IInv, Types
  <2>5. faults' = 0 => \A m \in voted : /\ m \in contract.old_participants
                                        /\ Keeps(node'[m], loop'[m], e)
    <3> SUFFICES ASSUME faults' = 0, NEW m \in voted
                 PROVE  m \in contract.old_participants /\ Keeps(node'[m], loop'[m], e)
      OBVIOUS
    <3>1. CASE m = n
      BY <1>10, <2>1, <2>2, <3>1
    <3>2. CASE m # n
      <4>1. m \in contract.old_participants /\ Keeps(node[m], loop[m], e)
        BY <1>2, <2>2, <3>2 DEF IInv, VotersKeep
      <4> QED
        BY <2>3, <2>4, <3>2, <4>1
    <3> QED
      BY <3>1, <3>2
  <2>6. StorageGrows
    BY <1>2 DEF StorageGrows
  <2>7. CASE Quiet(contract, contract') /\ contract'.finished_votes = voted
    <3>1. contract' \in ContractStates /\ ContractFits(H, contract') /\ Before(contract, contract')
      BY <1>1, <1>4, <2>7, QuietFits DEF Fits
    <3>2. Types' /\ Fits(H)'
      BY <1>1, <1>2, <1>8, <3>1, OneNodeMoves, SameIsSameSoFar DEF IInv, Types
    <3>3. /\ contract'.phase = "Resharing" /\ contract'.old_epoch = contract.old_epoch
          /\ contract'.old_participants = contract.old_participants
          /\ contract'.public_key = contract.public_key
      BY <2>2, <2>7 DEF Quiet
    <3>4. KeyCalm(contract, contract')
      BY <2>2, <3>3 DEF KeyCalm, AgreedIn, EpochIn, MembersIn
    <3>5. PkVotesStored' /\ StoredQuorum'
      BY <2>6, <3>2, <3>4, StoredStays DEF IInv
    <3>6. VotersKeep'
      BY <2>2, <2>5, <2>7, <3>3 DEF VotersKeep
    <3> QED
      BY <3>2, <3>5, <3>6 DEF IInv
  <2>8. CASE /\ Cardinality(voted) >= Threshold
             /\ contract' = C!Running(e, contract.new_participants, Threshold,
                                      contract.public_key)
    <3>1. /\ contract'.phase = "Running" /\ contract'.epoch = e
          /\ contract'.public_key = contract.public_key
          /\ contract'.participants = contract.new_participants
      BY <2>8 DEF C!Running
    <3>2. contract' \in ContractStates
      <4>1. e \in 0..MaxEpoch
        BY <2>2, <2>3, NetworkAssumption
      <4>2. contract' \in C!RunningStates
        BY <2>3, <2>8, <4>1 DEF C!Running, C!RunningStates, C!ResharingStates, C!AccountSets,
                                C!NoVotes, C!Votes
      <4> QED
        BY <4>2 DEF ContractStates
    <3>3. ContractFits(H, contract') /\ Before(contract, contract')
      BY <1>5, <2>2, <2>3, <3>1 DEF ContractFits, Before, LastEpoch, AgreedIn, EpochIn
    <3>4. Types' /\ Fits(H)'
      BY <1>1, <1>2, <1>8, <3>2, <3>3, OneNodeMoves, SameIsSameSoFar DEF IInv, Types
    <3>5. KeyCalm(contract, contract')
      BY <1>5, <3>1 DEF KeyCalm, AgreedIn, EpochIn
    <3>6. PkVotesStored' /\ StoredQuorum'
      BY <2>6, <3>4, <3>5, StoredStays DEF IInv
    <3>7. VotersKeep'
      <4> SUFFICES ASSUME faults' = 0
                   PROVE  Cardinality({m \in contract.new_participants :
                              Keeps(node'[m], loop'[m], e)}) >= Threshold
        BY <3>1 DEF VotersKeep
      <4>1. ASSUME NEW m \in voted
            PROVE  m \in contract.new_participants /\ Keeps(node'[m], loop'[m], e)
        <5>1. m \in Accounts /\ Keeps(node'[m], loop'[m], e)
          BY <2>3, <2>5, <4>1
        <5>2. NodeFits(H, m, node'[m], loop'[m], proto'[m], storage'[m], contract')
          BY <3>4, <5>1 DEF Fits, NodesFit
        <5>3. m \in H[e]
          BY <5>1, <5>2 DEF Keeps, NodeFits, StateFits, LoopFits, HolderFits
        <5> QED
          BY <2>3, <5>1, <5>3
      <4>2. voted \subseteq {m \in contract.new_participants : Keeps(node'[m], loop'[m], e)}
        BY <4>1
      <4> QED
        BY <2>3, <2>8, <4>2, QuorumGrows
    <3> QED
      BY <3>4, <3>6, <3>7 DEF IInv
  <2> QED
    BY <2>2, <2>7, <2>8
<1> QED
  BY <1>12, <1>13

\* join, vote_join and vote_leave: the only calls that may start a resharing.
LEMMA MembershipStep ==
    ASSUME IInv, NEW H \in Histories, Fits(H), NEW n \in Accounts,
           contract \in ContractStates, contract.phase = "Running",
           \/ Quiet(contract, contract')
           \/ StartsResharing(contract, contract') /\ contract.epoch < MaxEpoch,
           OnlyOf(n), UNCHANGED <<storage, faults>>, Remembers(n),
           NodeFits(H, n, node'[n], loop'[n], proto'[n], storage'[n], contract)
    PROVE  IInv'
<1>1. ContractFits(H, contract) /\ faults' \in 0..MaxFaults
  BY DEF Fits, IInv, Types
<1>2. CASE Quiet(contract, contract')
  <2>1. contract' \in ContractStates /\ ContractFits(H, contract') /\ Before(contract, contract')
    BY <1>1, <1>2, QuietFits
  <2>2. Calm(contract, contract')
    BY <1>2, QuietIsCalm
  <2>3. SameSoFar(H, H, contract)
    BY SameIsSameSoFar
  <2> QED
    BY <1>1, <2>1, <2>2, <2>3, CalmNodeStep
<1>3. CASE StartsResharing(contract, contract') /\ contract.epoch < MaxEpoch
  <2>1. /\ contract' \in ContractStates /\ Before(contract, contract')
        /\ contract'.phase = "Resharing" /\ contract'.old_epoch = contract.epoch
        /\ contract'.old_participants = contract.participants
        /\ contract'.public_key = contract.public_key /\ contract'.finished_votes = {}
        /\ \E G \in Histories : SameSoFar(H, G, contract) /\ ContractFits(G, contract')
    BY <1>1, <1>3, StartsResharingFits
  <2>2. PICK G \in Histories : SameSoFar(H, G, contract) /\ ContractFits(G, contract')
    BY <2>1
  <2>3. Calm(contract, contract')
    BY <2>1 DEF Calm, KeyCalm, EpochCalm, AgreedIn, EpochIn, MembersIn
  <2> QED
    BY <1>1, <2>1, <2>2, <2>3, CalmNodeStep
<1> QED
  BY <1>2, <1>3

\* A join at the contract moves no epoch.
LEMMA AdvanceJoinStep ==
    ASSUME IInv, NEW n \in Accounts, AdvanceJoin(n)
    PROVE  IInv'
<1>1. PICK H \in Histories : Fits(H)
  BY DEF IInv
<1>2. /\ Polled(n) /\ Current(n).kind = "Joining" /\ Conclude(n, Joining)
      /\ UNCHANGED <<storage, faults>>
  BY DEF AdvanceJoin, JoinsContract
<1>3. /\ contract \in ContractStates
      /\ NodeFits(H, n, node[n], loop[n], proto[n], storage[n], contract)
      /\ \A e : Keeps(node[n], loop[n], e) <=>
                   Current(n).kind \in {"Waiting", "Running"} /\ Current(n).epoch = e
  BY <1>1, <1>2, PolledFits
<1>4. /\ OnlyOf(n)
      /\ NodeFits(H, n, node'[n], loop'[n], proto'[n], storage'[n], contract)
  BY <1>2, <1>3, JoiningFits, ConcludeFits DEF IInv
<1>5. Remembers(n)
  BY <1>2, <1>3 DEF Remembers
<1>6. CASE C!JoinOk(contract, n)
  <2>1. contract' = C!JoinCall(contract, n)
    BY <1>6 DEF AdvanceJoin
  <2>2. Quiet(contract, contract') /\ contract.phase = "Running"
    BY <1>3, <1>6, <2>1, JoinIsQuiet
  <2> QED
    BY <1>1, <1>2, <1>3, <1>4, <1>5, <2>2, MembershipStep
<1>7. CASE ~ C!JoinOk(contract, n)
  <2>1. contract' = contract
    BY <1>7 DEF AdvanceJoin
  <2> QED
    BY <1>1, <1>2, <1>4, <1>5, <2>1, LocalStep DEF IInv, Types
<1> QED
  BY <1>6, <1>7

\* A joining node that asks for votes stays as it is.
LEMMA AdvanceAskStep ==
    ASSUME IInv, NEW n \in Accounts, AdvanceAsk(n)
    PROVE  IInv'
<1> USE DEF Types
<1>1. PICK H \in Histories : Fits(H)
  BY DEF IInv
<1> DEFINE b == loop[n].snap
           lo == [at |-> "asking", ask |-> b.participants \ b.join_votes[n]]
<1>2. /\ Polled(n) /\ Current(n).kind = "Joining" /\ b.phase = "Running"
      /\ loop' = [loop EXCEPT ![n] = lo] /\ loop'[n] = lo
      /\ UNCHANGED <<contract, node, storage, proto, faults>>
  BY DEF AdvanceAsk, JoinsContract, IInv
<1>3. /\ b \in ContractStates
      /\ NodeFits(H, n, node[n], loop[n], proto[n], storage[n], contract)
      /\ loop[n].at = "progressed" => Current(n).kind = "Waiting"
      /\ loop[n].at # "progressed" => Current(n) = node[n]
      /\ \A e : Keeps(node[n], loop[n], e) <=>
                   Current(n).kind \in {"Waiting", "Running"} /\ Current(n).epoch = e
  BY <1>1, <1>2, PolledFits
<1>4. node[n].kind = "Joining"
  BY <1>2, <1>3
<1>5. lo \in LoopStates /\ lo.at = "asking"
  BY <1>2, <1>3, PhaseIsVariant DEF LoopStates, AskingStates, C!RunningStates, C!AccountSets
<1>6. LoopFits(H, n, node[n], lo, storage[n], contract) /\ ProtoFits(node[n], lo, proto[n], storage[n])
  BY <1>3, <1>4, <1>5 DEF LoopFits, ProtoFits, NodeFits
<1>7. NodeFits(H, n, node'[n], loop'[n], proto'[n], storage'[n], contract)
  BY <1>2, <1>3, <1>6 DEF NodeFits
<1>8. OnlyOf(n)
  BY <1>2 DEF OnlyOf, IInv
<1>9. Remembers(n)
  BY <1>2, <1>3 DEF Remembers
<1> QED
  BY <1>1, <1>2, <1>7, <1>8, <1>9, LocalStep DEF IInv

\* A vote_join asked for over http may start a resharing: the history grows by an epoch.
LEMMA AskVoteStep ==
    ASSUME IInv, NEW n \in Accounts, AskVote(n)
    PROVE  IInv'
<1> USE DEF Types
<1>1. PICK H \in Histories : Fits(H)
  BY DEF IInv
<1>2. loop[n].at = "asking" /\ MembershipMayChange /\ UNCHANGED <<storage, faults>>
  BY DEF AskVote
<1>3. NodeFits(H, n, node[n], loop[n], proto[n], storage[n], contract)
  BY <1>1 DEF Fits, NodesFit
<1>4. node[n].kind = "Joining" /\ loop[n] \in AskingStates
  BY <1>2, <1>3, AtIsShape DEF NodeFits, LoopFits
<1>5. Remembers(n)
  BY <1>2, <1>4 DEF Remembers, Keeps
<1>6. \/ Conclude(n, Joining) /\ UNCHANGED contract
      \/ Conclude(n, Panic) /\ UNCHANGED contract
      \/ \E p : /\ contract' = IF C!VoteJoinOk(contract, p, n)
                               THEN C!VoteJoinCall(contract, p, n) ELSE contract
                /\ loop' = [loop EXCEPT ![n].ask = @ \ {p}]
                /\ UNCHANGED <<node, proto>>
  BY DEF AskVote
<1>7. CASE Conclude(n, Joining) /\ UNCHANGED contract
  <2>1. /\ OnlyOf(n)
        /\ NodeFits(H, n, node'[n], loop'[n], proto'[n], storage'[n], contract)
    BY <1>2, <1>3, <1>7, JoiningFits, ConcludeFits DEF IInv
  <2> QED
    BY <1>1, <1>2, <1>5, <1>7, <2>1, LocalStep DEF IInv
<1>8. CASE Conclude(n, Panic) /\ UNCHANGED contract
  <2>1. /\ OnlyOf(n)
        /\ NodeFits(H, n, node'[n], loop'[n], proto'[n], storage'[n], contract)
    BY <1>2, <1>3, <1>8, FailureFits, ConcludeFits DEF IInv
  <2> QED
    BY <1>1, <1>2, <1>5, <1>8, <2>1, LocalStep DEF IInv
<1>9. ASSUME NEW p, contract' = IF C!VoteJoinOk(contract, p, n)
                                THEN C!VoteJoinCall(contract, p, n) ELSE contract,
             loop' = [loop EXCEPT ![n].ask = @ \ {p}], UNCHANGED <<node, proto>>
      PROVE  IInv'
  <2> DEFINE lo == [loop[n] EXCEPT !.ask = @ \ {p}]
  <2>1. loop' = [loop EXCEPT ![n] = lo] /\ loop'[n] = lo
    BY <1>9 DEF IInv
  <2>2. lo \in LoopStates /\ lo.at = "asking"
    BY <1>4 DEF AskingStates, LoopStates
  <2>3. /\ LoopFits(H, n, node[n], lo, storage[n], contract)
        /\ ProtoFits(node[n], lo, proto[n], storage[n])
    BY <1>3, <1>4, <2>2 DEF LoopFits, ProtoFits, NodeFits
  <2>4. NodeFits(H, n, node'[n], loop'[n], proto'[n], storage'[n], contract)
    BY <1>2, <1>3, <1>9, <2>1, <2>3 DEF NodeFits
  <2>5. OnlyOf(n)
    BY <1>2, <1>9, <2>1 DEF OnlyOf, IInv
  <2>6. CASE C!VoteJoinOk(contract, p, n)
    <3>1. contract' = C!VoteJoinCall(contract, p, n) /\ contract.phase = "Running"
      BY <1>9, <2>6 DEF C!VoteJoinOk
    <3>2. contract \in ContractStates /\ contract.epoch < MaxEpoch
      BY <1>2, <3>1, PhaseIsVariant DEF IInv, MembershipMayChange
    <3>3. Quiet(contract, contract') \/ StartsResharing(contract, contract')
      BY <2>6, <3>1, <3>2, VoteJoinMoves
    <3> QED
      BY <1>1, <1>2, <1>5, <2>4, <2>5, <3>1, <3>2, <3>3, MembershipStep
  <2>7. CASE ~ C!VoteJoinOk(contract, p, n)
    <3>1. contract' = contract
      BY <1>9, <2>7
    <3> QED
      BY <1>1, <1>2, <1>5, <2>4, <2>5, <3>1, LocalStep DEF IInv
  <2> QED
    BY <2>6, <2>7
<1> QED
  BY <1>6, <1>7, <1>8, <1>9

\* So may an operator's vote_leave.
LEMMA OperatorVoteLeaveStep ==
    ASSUME IInv, NEW p \in Accounts, NEW leaver \in Accounts, OperatorVoteLeave(p, leaver)
    PROVE  IInv'
<1>1. PICK H \in Histories : Fits(H)
  BY DEF IInv
<1>2. /\ C!VoteLeaveOk(contract, p, leaver) /\ contract' = C!VoteLeaveCall(contract, p, leaver)
      /\ MembershipMayChange /\ UNCHANGED <<node, storage, proto, loop, faults>>
      /\ contract.phase = "Running"
  BY DEF OperatorVoteLeave, C!VoteLeave, C!VoteLeaveOk
<1>3. contract \in ContractStates /\ contract.epoch < MaxEpoch
  BY <1>2, PhaseIsVariant DEF IInv, Types, MembershipMayChange
<1>4. Quiet(contract, contract') \/ StartsResharing(contract, contract')
  BY <1>2, <1>3, VoteLeaveMoves
<1>5. OnlyOf(p) /\ Remembers(p)
  BY <1>2 DEF OnlyOf, Remembers, IInv, Types
<1>6. NodeFits(H, p, node'[p], loop'[p], proto'[p], storage'[p], contract)
  BY <1>1, <1>2 DEF Fits, NodesFit
<1> QED
  BY <1>1, <1>2, <1>3, <1>4, <1>5, <1>6, MembershipStep

\* The steps of cait-sith touch the protocols only.
LEMMA ProtoStep ==
    ASSUME IInv, UNCHANGED <<contract, node, storage, loop, faults>>,
           proto' \in [Accounts -> Protos],
           \A m \in Accounts : ProtoFits(node[m], loop[m], proto'[m], storage[m])
    PROVE  IInv'
<1>1. PICK H \in Histories : Fits(H)
  BY DEF IInv
<1>2. Types'
  BY DEF IInv, Types
<1>3. Fits(H)'
  <2>1. ContractFits(H, contract')
    BY <1>1 DEF Fits
  <2>2. \A m \in Accounts :
            NodeFits(H, m, node'[m], loop'[m], proto'[m], storage'[m], contract')
    BY <1>1 DEF Fits, NodesFit, NodeFits
  <2> QED
    BY <2>1, <2>2 DEF Fits, NodesFit
<1>4. PkVotesStored' /\ StoredQuorum' /\ VotersKeep'
  BY DEF IInv, PkVotesStored, StoredQuorum, VotersKeep, Agreed, Epoch, Members
<1> QED
  BY <1>2, <1>3, <1>4 DEF IInv

\* What the invariant says of one node and its protocol.
LEMMA EachProtoFits ==
    ASSUME IInv, NEW m \in Accounts
    PROVE  /\ ProtoFits(node[m], loop[m], proto[m], storage[m])
           /\ node[m] \in NodeStates
  BY DEF IInv, Types, Fits, NodesFit, NodeFits

\* The rendezvous of key generation.
LEMMA KeygenExchangeStep ==
    ASSUME IInv, NEW key \in PublicKeys, KeygenExchange(key)
    PROVE  IInv'
<1>1. PICK P \in SUBSET Accounts :
        /\ \A p \in P : node[p].kind = "Generating" /\ proto[p] = Live
        /\ proto' = [p \in Accounts |-> IF p \in P THEN InSession("meshed", key) ELSE proto[p]]
  BY DEF KeygenExchange
<1>2. InSession("meshed", key) \in Protos
  BY DEF InSession, Protos
<1>3. proto' \in [Accounts -> Protos]
  BY <1>1, <1>2 DEF IInv, Types
<1>4. ASSUME NEW m \in Accounts
      PROVE  ProtoFits(node[m], loop[m], proto'[m], storage[m])
  <2>1. ProtoFits(node[m], loop[m], proto[m], storage[m])
    BY EachProtoFits
  <2>2. CASE m \in P
    <3>1. proto'[m] = InSession("meshed", key) /\ node[m].kind = "Generating" /\ proto[m] = Live
      BY <1>1, <2>2
    <3>2. Live.status = "live" /\ InSession("meshed", key).status = "meshed"
          /\ InSession("meshed", key).key = key
      BY DEF Live, InSession
    <3> QED
      BY <1>2, <2>1, <3>1, <3>2 DEF ProtoFits
  <2>3. CASE m \notin P
    BY <1>1, <2>1, <2>3
  <2> QED
    BY <2>2, <2>3
<1> QED
  BY <1>3, <1>4, ProtoStep DEF KeygenExchange

\* The rendezvous of a resharing.
LEMMA ReshareExchangeStep ==
    ASSUME IInv, NEW n \in Accounts, ReshareExchange(n)
    PROVE  IInv'
<1> DEFINE P == node[n].new_participants
           key == node[n].public_key
<1>1. /\ node[n].kind = "Resharing"
      /\ \A p \in P : node[p].kind = "Resharing" /\ proto[p] = Live
      /\ proto' = [p \in Accounts |-> IF p \in P THEN InSession("meshed", key) ELSE proto[p]]
  BY DEF ReshareExchange
<1>2. key \in PublicKeys
  BY <1>1, EachProtoFits, KindIsShape DEF ResharingStates
<1>3. InSession("meshed", key) \in Protos
  BY <1>2 DEF InSession, Protos
<1>4. proto' \in [Accounts -> Protos]
  BY <1>1, <1>3 DEF IInv, Types
<1>5. ASSUME NEW m \in Accounts
      PROVE  ProtoFits(node[m], loop[m], proto'[m], storage[m])
  <2>1. ProtoFits(node[m], loop[m], proto[m], storage[m])
    BY EachProtoFits
  <2>2. CASE m \in P
    <3>1. proto'[m] = InSession("meshed", key) /\ node[m].kind = "Resharing" /\ proto[m] = Live
      BY <1>1, <2>2
    <3>2. Live.status = "live" /\ InSession("meshed", key).status = "meshed"
          /\ InSession("meshed", key).key = key
      BY DEF Live, InSession
    <3> QED
      BY <1>2, <1>3, <2>1, <3>1, <3>2 DEF ProtoFits
  <2>3. CASE m \notin P
    BY <1>1, <2>1, <2>3
  <2> QED
    BY <2>2, <2>3
<1> QED
  BY <1>4, <1>5, ProtoStep DEF ReshareExchange

\* The last messages of a protocol arrive.
LEMMA DeliverStep ==
    ASSUME IInv, NEW n \in Accounts, Deliver(n)
    PROVE  IInv'
<1> DEFINE pr == [proto[n] EXCEPT !.status = "ready"]
<1>1. /\ proto' = [proto EXCEPT ![n] = pr] /\ loop[n].at = "top" /\ proto[n].status = "meshed"
  BY DEF Deliver, IInv, Types
<1>2. ProtoFits(node[n], loop[n], proto[n], storage[n]) /\ proto[n] \in Protos
  BY EachProtoFits DEF ProtoFits
<1>3. pr \in Protos /\ pr.status = "ready" /\ pr.key = proto[n].key
  BY <1>2 DEF Protos
<1>4. ProtoFits(node[n], loop[n], pr, storage[n])
  BY <1>1, <1>2, <1>3 DEF ProtoFits
<1>5. proto' \in [Accounts -> Protos]
  BY <1>1, <1>3 DEF IInv, Types
<1>6. \A m \in Accounts : ProtoFits(node[m], loop[m], proto'[m], storage[m])
  BY <1>1, <1>4, EachProtoFits DEF IInv, Types
<1> QED
  BY <1>5, <1>6, ProtoStep DEF Deliver

\* A protocol is started again with the same arguments.
LEMMA RefreshStep ==
    ASSUME IInv, NEW n \in Accounts, Refresh(n)
    PROVE  IInv'
<1>1. proto' = [proto EXCEPT ![n] = Live] /\ proto[n].status = "meshed"
  BY DEF Refresh
<1>2. ProtoFits(node[n], loop[n], proto[n], storage[n])
  BY EachProtoFits
<1>3. Live \in Protos /\ Live.status = "live"
  BY DEF Live, Protos
<1>4. ProtoFits(node[n], loop[n], Live, storage[n])
  BY <1>1, <1>2, <1>3 DEF ProtoFits
<1>5. proto' \in [Accounts -> Protos]
  BY <1>1, <1>3 DEF IInv, Types
<1>6. \A m \in Accounts : ProtoFits(node[m], loop[m], proto'[m], storage[m])
  BY <1>1, <1>4, EachProtoFits DEF IInv, Types
<1> QED
  BY <1>5, <1>6, ProtoStep DEF Refresh

\* init: the history begins with the candidates.
LEMMA DeployContractStep ==
    ASSUME IInv, DeployContract
    PROVE  IInv'
<1>1. PICK H \in Histories : Fits(H)
  BY DEF IInv
<1>2. PICK candidates \in CandidateSets : contract' = C!InitCall(Threshold, candidates)
  BY DEF DeployContract
<1>3. contract.phase = "NotInitialized" /\ UNCHANGED <<node, storage, proto, loop, faults>>
  BY DEF DeployContract
<1>4. candidates \in SUBSET Accounts /\ 0 \in 0..MaxEpoch
  BY NetworkAssumption
<1>5. /\ contract'.phase = "Initializing" /\ contract'.candidates = candidates
      /\ \A key \in PublicKeys : contract'.pk_votes[key] = {}
  BY <1>2 DEF C!InitCall, C!Initializing, C!NoPkVotes
<1>6. contract' \in ContractStates
  <2>1. contract' \in C!InitializingStates
    BY <1>2, <1>4, NetworkAssumption
       DEF C!InitCall, C!Initializing, C!InitializingStates, C!NoPkVotes, C!PkVotes, C!AccountSets
  <2> QED
    BY <2>1 DEF ContractStates
<1> DEFINE G == [H EXCEPT ![0] = candidates]
<1>7. G \in Histories /\ G[0] = candidates
  BY <1>4 DEF Histories
<1>8. ContractFits(G, contract')
  BY <1>5, <1>7 DEF ContractFits
<1>9. Before(contract, contract')
  BY <1>3, <1>5 DEF Before, LastEpoch, AgreedIn
<1>10. \A m \in Accounts : NodeFits(G, m, node[m], loop[m], proto[m], storage[m], contract')
  <2> SUFFICES ASSUME NEW m \in Accounts
               PROVE  NodeFits(G, m, node[m], loop[m], proto[m], storage[m], contract')
    OBVIOUS
  <2>1. NodeFits(H, m, node[m], loop[m], proto[m], storage[m], contract)
    BY <1>1 DEF Fits, NodesFit
  <2>2. NodeFits(G, m, node[m], loop[m], proto[m], storage[m], contract)
    BY <1>3, <1>7, <2>1, NodeBeforeInit
  <2> QED
    BY <1>6, <1>7, <1>9, <2>2, NodeStillFits DEF IInv, Types
<1>11. Types' /\ Fits(G)'
  BY <1>3, <1>6, <1>8, <1>10 DEF IInv, Types, Fits, NodesFit
<1>12. PkVotesStored' /\ StoredQuorum' /\ VotersKeep'
  BY <1>5 DEF PkVotesStored, StoredQuorum, VotersKeep, Agreed
<1> QED
  BY <1>7, <1>11, <1>12 DEF IInv

\* A crash counts as a fault and leaves storage as it is.
LEMMA CrashStep ==
    ASSUME IInv, NEW n \in Accounts, Crash(n)
    PROVE  IInv'
<1> USE DEF Types
<1>1. PICK H \in Histories : Fits(H)
  BY DEF IInv
<1>2. /\ faults < MaxFaults /\ faults' = faults + 1 /\ UNCHANGED <<contract, storage>>
      /\ Conclude(n, Panic)
  BY DEF Crash, Conclude
<1>3. NodeFits(H, n, node[n], loop[n], proto[n], storage[n], contract)
  BY <1>1 DEF Fits, NodesFit
<1>4. /\ OnlyOf(n)
      /\ NodeFits(H, n, node'[n], loop'[n], proto'[n], storage'[n], contract)
  BY <1>2, <1>3, FailureFits, ConcludeFits DEF IInv
<1>5. faults' \in 0..MaxFaults /\ Remembers(n)
  BY <1>2, NetworkAssumption DEF IInv, Remembers
<1> QED
  BY <1>1, <1>2, <1>4, <1>5, LocalStep

\* A restarted node has what its storage has.
LEMMA RestartStep ==
    ASSUME IInv, NEW n \in Accounts, Restart(n)
    PROVE  IInv'
<1> USE DEF Types
<1>1. PICK H \in Histories : Fits(H)
  BY DEF IInv
<1>2. /\ node[n].kind = "Down" /\ node' = [node EXCEPT ![n] = Starting] /\ node'[n] = Starting
      /\ UNCHANGED <<contract, storage, proto, loop, faults>>
  BY DEF Restart, IInv
<1>3. NodeFits(H, n, node[n], loop[n], proto[n], storage[n], contract)
  BY <1>1 DEF Fits, NodesFit
<1>4. loop[n].at = "top" /\ Starting.kind = "Starting"
  BY <1>2, <1>3, AtIsShape DEF NodeFits, LoopFits, Starting
<1>5. StateFits(H, n, Starting, storage[n], contract)
  BY <1>4 DEF StateFits, NodeStates
<1>6. LoopFits(H, n, Starting, loop[n], storage[n], contract)
  BY <1>3, <1>4 DEF NodeFits, LoopFits
<1>7. ProtoFits(Starting, loop[n], proto[n], storage[n])
  BY <1>2, <1>3, <1>4 DEF NodeFits, ProtoFits
<1>8. NodeFits(H, n, node'[n], loop'[n], proto'[n], storage'[n], contract)
  BY <1>2, <1>3, <1>5, <1>6, <1>7 DEF NodeFits
<1>9. OnlyOf(n)
  BY <1>2 DEF OnlyOf, IInv
<1>10. Remembers(n)
  BY <1>2, <1>4 DEF Remembers, Keeps
<1> QED
  BY <1>1, <1>2, <1>8, <1>9, <1>10, LocalStep DEF IInv

-----------------------------------------------------------------------------
(* The theorems.                                                            *)

\* The first state: no contract, nothing stored.
LEMMA InitIInv == Init => IInv
<1> SUFFICES ASSUME Init PROVE IInv
  OBVIOUS
<1> USE DEF Init
<1>1. /\ contract = C!NotInitialized /\ contract.phase = "NotInitialized"
  BY DEF C!NotInitialized
<1>2. /\ Starting \in NodeStates /\ Idle \in Protos /\ Top \in LoopStates
      /\ Starting.kind = "Starting" /\ Idle.status = "idle" /\ Top.at = "top"
  BY DEF Starting, Idle, Top, NodeStates, Protos, LoopStates
<1>3. Types
  BY <1>1, <1>2, NetworkAssumption DEF Types
<1> DEFINE H == [e \in 0..MaxEpoch |-> {}]
<1>4. H \in Histories
  BY DEF Histories
<1>5. ASSUME NEW n \in Accounts
      PROVE  NodeFits(H, n, node[n], loop[n], proto[n], storage[n], contract)
  <2>1. node[n] = Starting /\ loop[n] = Top /\ proto[n] = Idle /\ storage[n] = NoData
    OBVIOUS
  <2>2. StateFits(H, n, Starting, NoData, contract)
    BY <1>2 DEF StateFits
  <2>3. DataFits(H, n, NoData, contract)
    BY DEF DataFits
  <2>4. LoopFits(H, n, Starting, Top, NoData, contract)
    BY <1>2 DEF LoopFits
  <2>5. ProtoFits(Starting, Top, Idle, NoData)
    BY <1>2 DEF ProtoFits
  <2> QED
    BY <2>1, <2>2, <2>3, <2>4, <2>5 DEF NodeFits
<1>6. ContractFits(H, contract)
  BY <1>1 DEF ContractFits
<1>7. Fits(H)
  BY <1>5, <1>6 DEF Fits, NodesFit
<1>8. PkVotesStored /\ StoredQuorum /\ VotersKeep
  BY <1>1 DEF PkVotesStored, StoredQuorum, VotersKeep, Agreed
<1> QED
  BY <1>3, <1>4, <1>7, <1>8 DEF IInv

\* One case for each action.
LEMMA NextIInv == IInv /\ [Next]_vars => IInv'
<1> SUFFICES ASSUME IInv, [Next]_vars PROVE IInv'
  OBVIOUS
<1>1. CASE UNCHANGED vars
  <2>1. UNCHANGED <<contract, node, storage, loop, faults>> /\ proto' = proto
    BY <1>1 DEF vars
  <2>2. proto' \in [Accounts -> Protos]
    BY <2>1 DEF IInv, Types
  <2>3. \A m \in Accounts : ProtoFits(node[m], loop[m], proto'[m], storage[m])
    BY <2>1, EachProtoFits
  <2> QED
    BY <2>1, <2>2, <2>3, ProtoStep
<1>2. CASE DeployContract
  BY <1>2, DeployContractStep
<1>3. ASSUME NEW n \in Accounts, NodeStep(n) PROVE IInv'
  BY <1>3, FetchStep, GeneratingReturnsStep, ResharingReturnsStep, AdvanceStep,
     AdvanceVotePkStep, AdvanceVoteResharedStep, AdvanceJoinStep, AdvanceAskStep, AskVoteStep
     DEF NodeStep
<1>4. ASSUME NEW n \in Accounts,
             Deliver(n) \/ Refresh(n) \/ ReshareExchange(n) \/ Crash(n) \/ Restart(n)
      PROVE  IInv'
  BY <1>4, DeliverStep, RefreshStep, ReshareExchangeStep, CrashStep, RestartStep
<1>5. ASSUME NEW key \in PublicKeys, KeygenExchange(key) PROVE IInv'
  BY <1>5, KeygenExchangeStep
<1>6. ASSUME NEW p \in Accounts, NEW leaver \in Accounts, OperatorVoteLeave(p, leaver)
      PROVE  IInv'
  BY <1>6, OperatorVoteLeaveStep
<1> QED
  BY <1>1, <1>2, <1>3, <1>4, <1>5, <1>6 DEF Next

\* The invariant holds always.
LEMMA Inductive == Spec => []IInv
  BY InitIInv, NextIInv, PTL DEF Spec

\* Whatever crashes, fails or is late, the contract, every node, its storage,
\* its loop and its protocol are well formed, and a protocol runs only in a
\* state that has peers for it (TypeOK).
THEOREM NetworkTypes == Spec => []TypeOK
<1>1. IInv => TypeOK
  <2> SUFFICES ASSUME IInv PROVE TypeOK
    OBVIOUS
  <2>1. PICK H \in Histories : Fits(H)
    BY DEF IInv
  <2>2. C!TypeOK
    BY DEF IInv, Types, C!TypeOK, ContractStates
  <2>3. ASSUME NEW n \in Accounts
        PROVE  /\ node[n].kind \in {"Down", "Starting", "Started", "Generating", "Waiting",
                                    "Running", "Resharing", "Joining"}
               /\ proto[n].status \in {"idle", "live", "meshed", "ready", "done"}
               /\ loop[n].at \in {"top", "fetched", "progressed", "asking"}
               /\ proto[n].status \in {"live", "meshed", "ready"} => Peers(n) # {}
    <3>1. NodeFits(H, n, node[n], loop[n], proto[n], storage[n], contract)
      BY <2>1 DEF Fits, NodesFit
    <3>2. node[n] \in NodeStates /\ proto[n] \in Protos /\ loop[n] \in LoopStates
      BY DEF IInv, Types
    <3>3. proto[n].status \in {"live", "meshed", "ready"} => Peers(n) # {}
      BY <3>1 DEF NodeFits, ProtoFits, StateFits, Peers
    <3> QED
      BY <3>2, <3>3, KindIsShape, AtIsShape DEF Protos
  <2> QED
    BY <2>2, <2>3 DEF TypeOK, IInv, Types
<1> QED
  BY <1>1, Inductive, PTL

\* For any number of nodes, epochs and faults, and however old the snapshots
\* are that nodes act on: a Running node is never ahead of the contract, has its
\* key, and nodes Running at one epoch have the same participants, those of the
\* contract if it is at that epoch (RunningNodesAgree).
THEOREM SignersAgree == Spec => []RunningNodesAgree
<1>1. IInv => RunningNodesAgree
  <2> SUFFICES ASSUME IInv, NEW n \in Accounts, node[n].kind = "Running"
               PROVE  /\ Agreed
                      /\ node[n].epoch <= Epoch
                      /\ node[n].public_key = contract.public_key
                      /\ node[n].epoch = Epoch => node[n].participants = Members
                      /\ \A m \in Accounts :
                            node[m].kind = "Running" /\ node[m].epoch = node[n].epoch =>
                                node[m].participants = node[n].participants
    BY DEF RunningNodesAgree
  <2>1. PICK H \in Histories : Fits(H)
    BY DEF IInv
  <2>2. ASSUME NEW m \in Accounts, node[m].kind = "Running"
        PROVE  node[m].participants = H[node[m].epoch]
    BY <2>1, <2>2 DEF Fits, NodesFit, NodeFits, StateFits, HolderFits
  <2>3. /\ AgreedIn(contract) /\ node[n].epoch <= EpochIn(contract)
        /\ node[n].public_key = contract.public_key
    BY <2>1 DEF Fits, NodesFit, NodeFits, StateFits
  <2>4. Agreed /\ Epoch = EpochIn(contract)
    BY <2>3 DEF Agreed, AgreedIn, Epoch, EpochIn
  <2>5. Members = H[Epoch]
    BY <2>1, <2>4 DEF Agreed, Members, Epoch, Fits, ContractFits
  <2> QED
    BY <2>2, <2>3, <2>4, <2>5
<1> QED
  BY <1>1, Inductive, PTL

\* The share a node signs or votes with belongs to its own id among the
\* participants it believes in, to its epoch and to its key
\* (ShareFitsParticipants).
THEOREM SharesFitNodes == Spec => []ShareFitsParticipants
<1>1. IInv => ShareFitsParticipants
  BY DEF IInv, ShareFitsParticipants, Fits, NodesFit, NodeFits, StateFits, HolderFits
<1> QED
  BY <1>1, Inductive, PTL

\* A key is voted for only by nodes that have stored their share of it, and a
\* key adopted at epoch 0 is in the storage of a quorum, crashes and failed
\* writes included (PkVoteIsDurable).
THEOREM KeyIsDurable == Spec => []PkVoteIsDurable
<1>1. IInv => PkVoteIsDurable
  BY DEF IInv, PkVoteIsDurable, PkVotesStored, StoredQuorum
<1> QED
  BY <1>1, Inductive, PTL

\* Without crashes and failed writes a quorum of the members of the current
\* epoch holds shares of it, whenever the contract is Running and also during
\* the first resharing (QuorumHoldsKey).
THEOREM KeyIsNotLost == Spec => []QuorumHoldsKey
<1>1. IInv => QuorumHoldsKey
  <2> SUFFICES ASSUME IInv, faults = 0,
                      contract.phase = "Running" \/ (contract.phase = "Resharing" /\ Epoch = 0)
               PROVE  Cardinality({n \in Members : Holds(n, Epoch)}) >= Threshold
    BY DEF QuorumHoldsKey
  <2> DEFINE T == {n \in Members : Holds(n, Epoch)}
  <2>1. PICK H \in Histories : Fits(H)
    BY DEF IInv
  <2>2. /\ contract \in ContractStates /\ Agreed /\ Members \in SUBSET Accounts
        /\ contract.public_key \in PublicKeys /\ Epoch \in Nat
    BY PhaseIsVariant, NetworkAssumption DEF IInv, Types, Agreed, Members, Epoch, C!RunningStates,
                                             C!ResharingStates, C!AccountSets
  <2>3. CASE Epoch = 0
    <3> DEFINE S == {n \in Members : storage[n].public_key = contract.public_key}
    <3>1. Cardinality(S) >= Threshold
      BY <2>2, <2>3 DEF IInv, StoredQuorum
    <3>2. ASSUME NEW n \in S PROVE n \in T
      <4>1. n \in Accounts /\ storage[n].public_key \in PublicKeys
        BY <2>2
      <4>2. storage[n] # NoData
        BY <4>1, NetworkAssumption DEF NoData
      <4>3. storage[n].epoch = 0
        <5>1. DataFits(H, n, storage[n], contract)
          BY <2>1, <4>1 DEF Fits, NodesFit, NodeFits
        <5>2. \E share, key : storage[n] = Data(0, share, key)
          BY <4>2, <5>1 DEF DataFits
        <5> QED
          BY <5>2 DEF Data
      <4> QED
        BY <2>3, <4>2, <4>3 DEF Holds
    <3> QED
      BY <2>2, <3>1, <3>2, QuorumGrows
  <2>4. CASE Epoch # 0
    <3>1. contract.phase = "Running" /\ Epoch = contract.epoch /\ Members = contract.participants
      BY <2>4 DEF Epoch, Members
    <3> DEFINE S == {n \in contract.participants : Keeps(node[n], loop[n], contract.epoch)}
    <3>2. Cardinality(S) >= Threshold
      BY <2>2, <2>4, <3>1 DEF IInv, VotersKeep
    <3>3. ASSUME NEW n \in S PROVE n \in T
      BY <3>1 DEF Keeps, Holds, Has
    <3> QED
      BY <2>2, <3>2, <3>3, QuorumGrows
  <2> QED
    BY <2>3, <2>4
<1> QED
  BY <1>1, Inductive, PTL

=============================================================================
