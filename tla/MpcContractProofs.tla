------------------------- MODULE MpcContractProofs -------------------------
(***************************************************************************)
(* Proofs about MpcContract, for every finite set of accounts, every set of *)
(* keys and thresholds and every bound on the epoch.  The inductive         *)
(* invariant is the conjunction of the run's invariants: AlmostQuorum needs *)
(* VotesAreEntitled (a quorum of votes is a quorum of participants) and     *)
(* ReshareByOne (the next participants are at most one fewer).              *)
(***************************************************************************)
EXTENDS MpcContract, FiniteSetTheorems, TLAPS

IInv == TypeOK /\ NoQuorumPending /\ VotesAreEntitled /\ ReshareByOne /\ AlmostQuorum

-----------------------------------------------------------------------------
(* Facts about the contract's states.                                       *)

\* The phase tells which variant the contract is in.
LEMMA PhaseIsVariant ==
    ASSUME TypeOK
    PROVE  /\ contract.phase = "Initializing" => contract \in InitializingStates
           /\ contract.phase = "Running" => contract \in RunningStates
           /\ contract.phase = "Resharing" => contract \in ResharingStates
           /\ contract.phase \in {"NotInitialized", "Initializing", "Running", "Resharing"}
  BY DEF TypeOK, NotInitialized, InitializingStates, RunningStates, ResharingStates

\* A set of accounts is finite, and so is its number of elements.
LEMMA AccountSetIsFinite ==
    ASSUME NEW S \in AccountSets
    PROVE  IsFiniteSet(S) /\ Cardinality(S) \in Nat
  BY ContractAssumption, FS_Subset, FS_CardinalityType DEF AccountSets

\* The voters of a quorum are no more than the accounts entitled to vote.
LEMMA QuorumFits ==
    ASSUME NEW S \in AccountSets, NEW voted \in SUBSET S,
           NEW threshold \in Nat, Reached(voted, threshold)
    PROVE  Cardinality(S) >= threshold
<1>1. Cardinality(voted) <= Cardinality(S) /\ Cardinality(voted) \in Nat
  BY AccountSetIsFinite, FS_Subset, FS_CardinalityType
<1> QED
  BY <1>1, AccountSetIsFinite DEF Reached

\* Adding or removing one account leaves at most one account fewer.
LEMMA OneFewer ==
    ASSUME NEW S \in AccountSets, NEW a \in Accounts
    PROVE  /\ Cardinality(S \cup {a}) + 1 >= Cardinality(S)
           /\ Cardinality(S \ {a}) + 1 >= Cardinality(S)
<1>1. IsFiniteSet(S) /\ Cardinality(S) \in Nat
  BY AccountSetIsFinite
<1>2. Cardinality(S \cup {a}) \in {Cardinality(S), Cardinality(S) + 1}
  BY <1>1, FS_AddElement, Zenon
<1>3. Cardinality(S \ {a}) \in {Cardinality(S), Cardinality(S) - 1}
  BY <1>1, FS_RemoveElement, Zenon
<1> QED
  BY <1>1, <1>2, <1>3

-----------------------------------------------------------------------------
(* Each method keeps the invariant.                                         *)

\* init builds a state with no votes and no participants.
LEMMA ContractInitStep == IInv /\ ContractInit => IInv'
<1> SUFFICES ASSUME IInv, ContractInit PROVE IInv'
  OBVIOUS
<1>1. PICK threshold \in Thresholds, candidates \in AccountSets :
          contract' = Initializing(candidates, threshold)
  BY DEF ContractInit, InitCall
<1>2. contract' \in InitializingStates /\ contract'.phase = "Initializing"
      /\ contract'.pk_votes = NoPkVotes
  BY <1>1 DEF Initializing, InitializingStates, PkVotes, NoPkVotes, AccountSets
<1> QED
  BY <1>2 DEF IInv, TypeOK, NoQuorumPending, VotesAreEntitled, ReshareByOne,
              AlmostQuorum, Open, NoPkVotes

\* clean leaves the uninitialised contract, of which the invariant says nothing.
LEMMA CleanStep == IInv /\ Clean => IInv'
  BY DEF Clean, IInv, TypeOK, NoQuorumPending, VotesAreEntitled, ReshareByOne,
         AlmostQuorum, NotInitialized

\* join adds a candidate that is no participant and touches no vote.
LEMMA JoinStep ==
    ASSUME IInv, NEW signer \in Accounts, Join(signer)
    PROVE  IInv'
<1>1. contract \in RunningStates /\ contract.phase = "Running"
      /\ signer \notin contract.participants
  BY PhaseIsVariant DEF IInv, Join, JoinOk
<1>2. contract' = [contract EXCEPT !.candidates = contract.candidates \cup {signer}]
  BY DEF Join, JoinCall
<1>3. /\ contract' \in RunningStates
      /\ contract'.phase = "Running"
      /\ contract'.candidates = contract.candidates \cup {signer}
      /\ contract'.participants = contract.participants
      /\ contract'.threshold = contract.threshold
      /\ contract'.join_votes = contract.join_votes
      /\ contract'.leave_votes = contract.leave_votes
  BY <1>1, <1>2 DEF RunningStates, AccountSets
<1> QED
  BY <1>1, <1>3 DEF IInv, TypeOK, NoQuorumPending, VotesAreEntitled, ReshareByOne,
                    AlmostQuorum, Open

\* A quorum of votes in the Running phase starts a resharing by one account.
LEMMA StartResharing ==
    ASSUME IInv, contract \in RunningStates, NEW voted \in SUBSET contract.participants,
           Reached(voted, contract.threshold), NEW a \in Accounts, NEW new \in AccountSets,
           contract' = Resharing(contract, new),
           \/ a \notin contract.participants /\ new = contract.participants \cup {a}
           \/ a \in contract.participants /\ new = contract.participants \ {a}
    PROVE  IInv'
<1>1. /\ contract.participants \in AccountSets
      /\ contract.threshold \in Thresholds
      /\ contract.threshold \in Nat
  BY ContractAssumption DEF RunningStates
<1>2. Cardinality(contract.participants) >= contract.threshold
  BY <1>1, QuorumFits
<1>3. /\ contract' \in ResharingStates
      /\ contract'.phase = "Resharing"
      /\ contract'.old_participants = contract.participants
      /\ contract'.new_participants = new
      /\ contract'.threshold = contract.threshold
      /\ contract'.finished_votes = {}
  BY DEF Resharing, ResharingStates, RunningStates, AccountSets
<1> QED
  BY <1>2, <1>3 DEF IInv, TypeOK, NoQuorumPending, VotesAreEntitled, ReshareByOne,
                    AlmostQuorum, Open

\* vote_join records a vote short of the threshold, or starts a resharing that
\* adds the candidate.
LEMMA VoteJoinStep ==
    ASSUME IInv, NEW signer \in Accounts, NEW a \in Accounts, VoteJoin(signer, a)
    PROVE  IInv'
<1> DEFINE voted == contract.join_votes[a] \cup {signer}
<1>1. /\ contract \in RunningStates /\ contract.phase = "Running"
      /\ signer \in contract.participants /\ a \in contract.candidates
  BY PhaseIsVariant DEF IInv, VoteJoin, VoteJoinOk
<1>2. voted \in SUBSET contract.participants /\ a \notin contract.participants
  BY <1>1 DEF IInv, VotesAreEntitled
<1>3. CASE Reached(voted, contract.threshold)
  <2>1. contract' = Resharing(contract, contract.participants \cup {a})
    BY <1>3 DEF VoteJoin, VoteJoinCall
  <2>2. contract.participants \cup {a} \in AccountSets
    BY <1>1 DEF RunningStates, AccountSets
  <2> HIDE DEF voted
  <2> QED
    BY <1>1, <1>2, <1>3, <2>1, <2>2, StartResharing
<1>4. CASE ~ Reached(voted, contract.threshold)
  <2>1. contract' = [contract EXCEPT !.join_votes = [contract.join_votes EXCEPT ![a] = voted]]
    BY <1>4 DEF VoteJoin, VoteJoinCall
  <2>2. voted \in AccountSets /\ contract.threshold \in Nat /\ Cardinality(voted) \in Nat
    BY <1>1, <1>2, AccountSetIsFinite, ContractAssumption DEF RunningStates, AccountSets
  <2>3. Cardinality(voted) < contract.threshold
    BY <1>4, <2>2 DEF Reached
  <2> HIDE DEF voted
  <2>4. /\ contract' \in RunningStates
        /\ contract'.phase = "Running"
        /\ contract'.candidates = contract.candidates
        /\ contract'.participants = contract.participants
        /\ contract'.threshold = contract.threshold
        /\ contract'.join_votes = [contract.join_votes EXCEPT ![a] = voted]
        /\ contract'.leave_votes = contract.leave_votes
        /\ contract.join_votes \in [Accounts -> AccountSets]
    BY <1>1, <2>1, <2>2 DEF RunningStates, Votes
  <2> QED
    BY <1>1, <1>2, <2>3, <2>4 DEF IInv, TypeOK, NoQuorumPending, VotesAreEntitled,
                                  ReshareByOne, AlmostQuorum, Open
<1> QED
  BY <1>3, <1>4

\* vote_leave records a vote short of the threshold, or starts a resharing
\* that removes the leaver.
LEMMA VoteLeaveStep ==
    ASSUME IInv, NEW signer \in Accounts, NEW a \in Accounts, VoteLeave(signer, a)
    PROVE  IInv'
<1> DEFINE voted == contract.leave_votes[a] \cup {signer}
<1>1. /\ contract \in RunningStates /\ contract.phase = "Running"
      /\ signer \in contract.participants /\ a \in contract.participants
  BY PhaseIsVariant DEF IInv, VoteLeave, VoteLeaveOk
<1>2. voted \in SUBSET contract.participants
  BY <1>1 DEF IInv, VotesAreEntitled
<1>3. CASE Reached(voted, contract.threshold)
  <2>1. contract' = Resharing(contract, contract.participants \ {a})
    BY <1>3 DEF VoteLeave, VoteLeaveCall
  <2>2. contract.participants \ {a} \in AccountSets
    BY <1>1 DEF RunningStates, AccountSets
  <2> HIDE DEF voted
  <2> QED
    BY <1>1, <1>2, <1>3, <2>1, <2>2, StartResharing
<1>4. CASE ~ Reached(voted, contract.threshold)
  <2>1. contract' = [contract EXCEPT !.leave_votes = [contract.leave_votes EXCEPT ![a] = voted]]
    BY <1>4 DEF VoteLeave, VoteLeaveCall
  <2>2. voted \in AccountSets /\ contract.threshold \in Nat /\ Cardinality(voted) \in Nat
    BY <1>1, <1>2, AccountSetIsFinite, ContractAssumption DEF RunningStates, AccountSets
  <2>3. Cardinality(voted) < contract.threshold
    BY <1>4, <2>2 DEF Reached
  <2> HIDE DEF voted
  <2>4. /\ contract' \in RunningStates
        /\ contract'.phase = "Running"
        /\ contract'.candidates = contract.candidates
        /\ contract'.participants = contract.participants
        /\ contract'.threshold = contract.threshold
        /\ contract'.leave_votes = [contract.leave_votes EXCEPT ![a] = voted]
        /\ contract'.join_votes = contract.join_votes
        /\ contract.leave_votes \in [Accounts -> AccountSets]
    BY <1>1, <2>1, <2>2 DEF RunningStates, Votes
  <2> QED
    BY <1>1, <1>2, <2>3, <2>4 DEF IInv, TypeOK, NoQuorumPending, VotesAreEntitled,
                                  ReshareByOne, AlmostQuorum, Open
<1> QED
  BY <1>3, <1>4

\* A freshly built Running state satisfies the invariant when its participants
\* are at most one short of the threshold.
LEMMA EnterRunning ==
    ASSUME IInv, NEW epoch \in 0..MaxEpoch, NEW participants \in AccountSets,
           NEW threshold \in Thresholds, NEW key \in PublicKeys,
           Cardinality(participants) + 1 >= threshold,
           contract' = Running(epoch, participants, threshold, key)
    PROVE  IInv'
<1>1. /\ contract' \in RunningStates
      /\ contract'.phase = "Running"
      /\ contract'.candidates = {}
      /\ contract'.participants = participants
      /\ contract'.threshold = threshold
      /\ contract'.join_votes = NoVotes
      /\ contract'.leave_votes = NoVotes
  BY DEF Running, RunningStates, Votes, NoVotes, AccountSets
<1> QED
  BY <1>1 DEF IInv, TypeOK, NoQuorumPending, VotesAreEntitled, ReshareByOne,
              AlmostQuorum, Open, NoVotes

\* vote_pk records a vote, or makes the candidates, a quorum of whom voted, the
\* first participants.
LEMMA VotePkStep ==
    ASSUME IInv, NEW signer \in Accounts, NEW key \in PublicKeys, VotePk(signer, key)
    PROVE  IInv'
<1>1. CASE contract.phase # "Initializing"
  <2>1. contract' = contract
    BY <1>1 DEF VotePk, VotePkCall
  <2> QED
    BY <2>1 DEF IInv, TypeOK, NoQuorumPending, VotesAreEntitled, ReshareByOne, AlmostQuorum
<1>2. CASE contract.phase = "Initializing"
  <2> DEFINE voted == contract.pk_votes[key] \cup {signer}
  <2>1. contract \in InitializingStates /\ signer \in contract.candidates
    BY <1>2, PhaseIsVariant DEF IInv, VotePk, VotePkOk
  <2>2. voted \in SUBSET contract.candidates
    BY <1>2, <2>1 DEF IInv, VotesAreEntitled
  <2>3. /\ contract.candidates \in AccountSets /\ voted \in AccountSets
        /\ contract.threshold \in Thresholds /\ contract.threshold \in Nat
    BY <2>1, <2>2, ContractAssumption DEF InitializingStates, AccountSets
  <2>4. CASE Reached(voted, contract.threshold)
    <3>1. contract' = Running(0, contract.candidates, contract.threshold, key)
      BY <1>2, <2>4 DEF VotePk, VotePkCall
    <3> HIDE DEF voted
    <3>2. Cardinality(contract.candidates) >= contract.threshold
      BY <2>2, <2>3, <2>4, QuorumFits
    <3>3. Cardinality(contract.candidates) + 1 >= contract.threshold /\ 0 \in 0..MaxEpoch
      BY <2>3, <3>2, AccountSetIsFinite, ContractAssumption
    <3> QED
      BY <2>3, <3>1, <3>3, EnterRunning
  <2>5. CASE ~ Reached(voted, contract.threshold)
    <3>1. contract' = [contract EXCEPT !.pk_votes = [contract.pk_votes EXCEPT ![key] = voted]]
      BY <1>2, <2>5 DEF VotePk, VotePkCall
    <3> HIDE DEF voted
    <3>2. Cardinality(voted) < contract.threshold
      BY <2>3, <2>5, AccountSetIsFinite DEF Reached
    <3>3. /\ contract' \in InitializingStates
          /\ contract'.phase = "Initializing"
          /\ contract'.candidates = contract.candidates
          /\ contract'.threshold = contract.threshold
          /\ contract'.pk_votes = [contract.pk_votes EXCEPT ![key] = voted]
          /\ contract.pk_votes \in [PublicKeys -> AccountSets]
      BY <2>1, <2>3, <3>1 DEF InitializingStates, PkVotes
    <3> QED
      BY <1>2, <2>2, <3>2, <3>3 DEF IInv, TypeOK, NoQuorumPending, VotesAreEntitled,
                                    ReshareByOne, AlmostQuorum, Open
  <2> QED
    BY <2>4, <2>5
<1> QED
  BY <1>1, <1>2

\* vote_reshared records a vote, or makes the new participants, at most one
\* fewer than the old, the participants of the next epoch.
LEMMA VoteResharedStep ==
    ASSUME IInv, NEW signer \in Accounts, NEW epoch \in 0..MaxEpoch,
           VoteReshared(signer, epoch)
    PROVE  IInv'
<1>1. CASE contract.phase = "Running"
  <2>1. contract' = contract
    BY <1>1 DEF VoteReshared, VoteResharedCall
  <2> QED
    BY <2>1 DEF IInv, TypeOK, NoQuorumPending, VotesAreEntitled, ReshareByOne, AlmostQuorum
<1>2. CASE contract.phase # "Running"
  <2> DEFINE voted == contract.finished_votes \cup {signer}
  <2>1. /\ contract.phase = "Resharing" /\ contract \in ResharingStates
        /\ contract.old_epoch + 1 = epoch /\ signer \in contract.old_participants
    BY <1>2, PhaseIsVariant DEF IInv, VoteReshared, VoteResharedOk
  <2>2. voted \in SUBSET contract.old_participants
    BY <2>1 DEF IInv, VotesAreEntitled
  <2>3. /\ contract.old_participants \in AccountSets /\ voted \in AccountSets
        /\ contract.new_participants \in AccountSets
        /\ contract.public_key \in PublicKeys
        /\ contract.threshold \in Thresholds /\ contract.threshold \in Nat
    BY <2>1, <2>2, ContractAssumption DEF ResharingStates, AccountSets
  <2>4. CASE Reached(voted, contract.threshold)
    <3>1. contract' = Running(epoch, contract.new_participants, contract.threshold,
                              contract.public_key)
      BY <1>2, <2>1, <2>4 DEF VoteReshared, VoteResharedCall
    <3> HIDE DEF voted
    <3>2. Cardinality(contract.old_participants) >= contract.threshold
      BY <2>1 DEF IInv, AlmostQuorum
    <3>3. Cardinality(contract.new_participants) + 1 >= Cardinality(contract.old_participants)
      BY <2>1, <2>3, OneFewer DEF IInv, ReshareByOne
    <3>4. Cardinality(contract.new_participants) + 1 >= contract.threshold
      BY <2>3, <3>2, <3>3, AccountSetIsFinite
    <3> QED
      BY <2>3, <3>1, <3>4, EnterRunning
  <2>5. CASE ~ Reached(voted, contract.threshold)
    <3>1. contract' = [contract EXCEPT !.finished_votes = voted]
      BY <1>2, <2>5 DEF VoteReshared, VoteResharedCall
    <3> HIDE DEF voted
    <3>2. Cardinality(voted) < contract.threshold
      BY <2>3, <2>5, AccountSetIsFinite DEF Reached
    <3>3. /\ contract' \in ResharingStates
          /\ contract'.phase = "Resharing"
          /\ contract'.old_participants = contract.old_participants
          /\ contract'.new_participants = contract.new_participants
          /\ contract'.threshold = contract.threshold
          /\ contract'.finished_votes = voted
      BY <2>1, <2>3, <3>1 DEF ResharingStates
    <3> QED
      BY <2>1, <2>2, <3>2, <3>3 DEF IInv, TypeOK, NoQuorumPending, VotesAreEntitled,
                                    ReshareByOne, AlmostQuorum, Open
  <2> QED
    BY <2>4, <2>5
<1> QED
  BY <1>1, <1>2

\* The invariant is inductive.
LEMMA Inductive == IInv /\ [Next]_contract => IInv'
<1> SUFFICES ASSUME IInv, [Next]_contract PROVE IInv'
  OBVIOUS
<1>1. CASE UNCHANGED contract
  BY <1>1 DEF IInv, TypeOK, NoQuorumPending, VotesAreEntitled, ReshareByOne, AlmostQuorum
<1>2. CASE Next
  BY <1>2, ContractInitStep, CleanStep, JoinStep, VoteJoinStep, VoteLeaveStep,
     VotePkStep, VoteResharedStep DEF Next
<1> QED
  BY <1>1, <1>2

\* The contract's safety invariants hold in every reachable state.
THEOREM ContractSafety ==
    Spec => [](TypeOK /\ NoQuorumPending /\ VotesAreEntitled /\ ReshareByOne /\ AlmostQuorum)
<1>1. Init => IInv
  BY DEF Init, IInv, TypeOK, NoQuorumPending, VotesAreEntitled, ReshareByOne,
         AlmostQuorum, NotInitialized
<1> QED
  BY <1>1, Inductive, PTL DEF Spec, IInv

\* Whatever is called by whom and in whatever order, the contract's state is
\* one of its four variants and well formed (TypeOK).
THEOREM ContractTypes == Spec => []TypeOK
  BY ContractSafety, PTL

\* No quorum of votes is ever left lying in the state: the vote that completes
\* it changes the phase (NoQuorumPending).
THEOREM VotesStayOpen == Spec => []NoQuorumPending
  BY ContractSafety, PTL

\* Every recorded vote was cast by an account that may vote, about an account
\* it may be about, and both are still so (VotesAreEntitled).
THEOREM VotersAreMembers == Spec => []VotesAreEntitled
  BY ContractSafety, PTL

-----------------------------------------------------------------------------
(* Action properties.                                                       *)

\* Below the threshold no vote can complete: a step either keeps phase, epoch
\* and participants or leaves for Initializing or NotInitialized.
LEMMA FrozenStep ==
    ASSUME IInv, Next, BelowThreshold(contract)
    PROVE  \/ contract'.phase \in {"Initializing", "NotInitialized"}
           \/ /\ BelowThreshold(contract')
              /\ contract'.participants = contract.participants
              /\ contract'.epoch = contract.epoch
<1> DEFINE Goal == \/ contract'.phase \in {"Initializing", "NotInitialized"}
                   \/ /\ BelowThreshold(contract')
                      /\ contract'.participants = contract.participants
                      /\ contract'.epoch = contract.epoch
<1>1. /\ contract \in RunningStates /\ contract.phase = "Running"
      /\ contract.participants \in AccountSets
      /\ contract.threshold \in Nat
      /\ Cardinality(contract.participants) \in Nat
      /\ Cardinality(contract.participants) < contract.threshold
  BY PhaseIsVariant, AccountSetIsFinite, ContractAssumption
     DEF IInv, BelowThreshold, RunningStates
<1>2. ASSUME NEW voted \in SUBSET contract.participants
      PROVE  ~ Reached(voted, contract.threshold)
  BY <1>1, QuorumFits
<1>3. CASE ContractInit \/ Clean
  BY <1>3 DEF ContractInit, InitCall, Initializing, Clean, NotInitialized
<1>4. ASSUME NEW signer \in Accounts, Join(signer) PROVE Goal
  BY <1>1, <1>4 DEF Join, JoinCall, BelowThreshold, RunningStates
<1>5. ASSUME NEW signer \in Accounts, NEW a \in Accounts, VoteJoin(signer, a)
      PROVE  Goal
  <2> DEFINE voted == contract.join_votes[a] \cup {signer}
  <2>1. voted \in SUBSET contract.participants
    BY <1>1, <1>5 DEF IInv, VotesAreEntitled, VoteJoin, VoteJoinOk
  <2>2. contract' = [contract EXCEPT !.join_votes = [contract.join_votes EXCEPT ![a] = voted]]
    BY <1>2, <1>5, <2>1 DEF VoteJoin, VoteJoinCall
  <2> QED
    BY <1>1, <2>2 DEF BelowThreshold, RunningStates
<1>6. ASSUME NEW signer \in Accounts, NEW a \in Accounts, VoteLeave(signer, a)
      PROVE  Goal
  <2> DEFINE voted == contract.leave_votes[a] \cup {signer}
  <2>1. voted \in SUBSET contract.participants
    BY <1>1, <1>6 DEF IInv, VotesAreEntitled, VoteLeave, VoteLeaveOk
  <2>2. contract' = [contract EXCEPT !.leave_votes = [contract.leave_votes EXCEPT ![a] = voted]]
    BY <1>2, <1>6, <2>1 DEF VoteLeave, VoteLeaveCall
  <2> QED
    BY <1>1, <2>2 DEF BelowThreshold, RunningStates
<1>7. ASSUME NEW signer \in Accounts, NEW key \in PublicKeys, VotePk(signer, key)
      PROVE  Goal
  BY <1>1, <1>7 DEF VotePk, VotePkCall, BelowThreshold
<1>8. ASSUME NEW signer \in Accounts, NEW epoch \in 0..MaxEpoch,
             VoteReshared(signer, epoch)
      PROVE  Goal
  BY <1>1, <1>8 DEF VoteReshared, VoteResharedCall, BelowThreshold
<1> QED
  BY <1>3, <1>4, <1>5, <1>6, <1>7, <1>8 DEF Next

\* Once the participants are fewer than the threshold the membership never
\* changes again without init or clean.
THEOREM MembershipFreezes == Spec => FrozenBelowThreshold
<1>1. Init => IInv
  BY DEF Init, IInv, TypeOK, NoQuorumPending, VotesAreEntitled, ReshareByOne,
         AlmostQuorum, NotInitialized
<1> DEFINE Frozen == BelowThreshold(contract) =>
        \/ contract'.phase \in {"Initializing", "NotInitialized"}
        \/ /\ BelowThreshold(contract')
           /\ contract'.participants = contract.participants
           /\ contract'.epoch = contract.epoch
<1>2. IInv /\ [Next]_contract => [Frozen]_contract
  BY FrozenStep
<1> QED
  BY <1>1, <1>2, Inductive, PTL DEF Spec, FrozenBelowThreshold

-----------------------------------------------------------------------------
(* Refinement.                                                              *)

\* A quorum of votes in the Running phase is invisible to Membership.
LEMMA EnterResharingStutters ==
    ASSUME contract.phase = "Running", NEW new, contract' = Resharing(contract, new)
    PROVE  UNCHANGED <<absKey, absEpoch, absMembers>>
  BY DEF Resharing, absKey, absEpoch, absMembers, Agreed

\* Every step of the contract is a step of Membership or invisible to it.
LEMMA StepRefines ==
    ASSUME IInv, [Next]_contract
    PROVE  [Abstract!Next]_(Abstract!absVars)
<1> DEFINE Goal == [Abstract!Next]_(Abstract!absVars)
<1> USE DEF Abstract!absVars
<1>0. IInv'
  BY Inductive
<1>1. CASE UNCHANGED contract
  BY <1>1 DEF absKey, absEpoch, absMembers, Agreed
<1>2. CASE ContractInit \/ Clean
  <2>1. contract'.phase \in {"Initializing", "NotInitialized"}
    BY <1>2 DEF ContractInit, InitCall, Initializing, Clean, NotInitialized
  <2>2. absKey' = NoKey /\ absEpoch' = 0 /\ absMembers' = {}
    BY <2>1 DEF absKey, absEpoch, absMembers, Agreed
  <2>3. CASE absKey = NoKey
    <3>1. ~ Agreed
      BY <2>3, PhaseIsVariant, ContractAssumption
         DEF IInv, absKey, Agreed, RunningStates, ResharingStates
    <3>2. absEpoch = 0 /\ absMembers = {}
      BY <3>1 DEF absEpoch, absMembers, Agreed
    <3> QED
      BY <2>2, <2>3, <3>2
  <2>4. CASE absKey # NoKey
    BY <2>2, <2>4 DEF Abstract!Next, Abstract!Forget
  <2> QED
    BY <2>3, <2>4
<1>3. ASSUME NEW signer \in Accounts, Join(signer) PROVE Goal
  <2>1. contract \in RunningStates /\ contract.phase = "Running"
    BY <1>3, PhaseIsVariant DEF IInv, Join, JoinOk
  <2>2. /\ contract'.phase = "Running" /\ contract'.public_key = contract.public_key
        /\ contract'.epoch = contract.epoch
        /\ contract'.participants = contract.participants
    BY <1>3, <2>1 DEF Join, JoinCall, RunningStates
  <2> QED
    BY <2>1, <2>2 DEF absKey, absEpoch, absMembers, Agreed
<1>4. ASSUME NEW signer \in Accounts, NEW a \in Accounts,
             VoteJoin(signer, a) \/ VoteLeave(signer, a)
      PROVE  Goal
  <2>1. contract \in RunningStates /\ contract.phase = "Running"
    BY <1>4, PhaseIsVariant DEF IInv, VoteJoin, VoteJoinOk, VoteLeave, VoteLeaveOk
  <2>2. CASE \E new : contract' = Resharing(contract, new)
    BY <2>1, <2>2, EnterResharingStutters
  <2>3. CASE ~ \E new : contract' = Resharing(contract, new)
    <3>1. \/ \E voted : contract' = [contract EXCEPT !.join_votes =
                                        [contract.join_votes EXCEPT ![a] = voted]]
          \/ \E voted : contract' = [contract EXCEPT !.leave_votes =
                                        [contract.leave_votes EXCEPT ![a] = voted]]
      BY <1>4, <2>3 DEF VoteJoin, VoteJoinCall, VoteLeave, VoteLeaveCall
    <3>2. /\ contract'.phase = "Running" /\ contract'.public_key = contract.public_key
          /\ contract'.epoch = contract.epoch
          /\ contract'.participants = contract.participants
      BY <2>1, <3>1 DEF RunningStates
    <3> QED
      BY <2>1, <3>2 DEF absKey, absEpoch, absMembers, Agreed
  <2> QED
    BY <2>2, <2>3
<1>5. ASSUME NEW signer \in Accounts, NEW key \in PublicKeys, VotePk(signer, key)
      PROVE  Goal
  <2>1. CASE contract.phase # "Initializing"
    BY <1>1, <1>5, <2>1 DEF VotePk, VotePkCall
  <2>2. CASE contract.phase = "Initializing"
    <3>1. contract \in InitializingStates /\ signer \in contract.candidates
      BY <1>5, <2>2, PhaseIsVariant DEF IInv, VotePk, VotePkOk
    <3>2. absKey = NoKey /\ absEpoch = 0 /\ absMembers = {}
      BY <2>2 DEF absKey, absEpoch, absMembers, Agreed
    <3>3. CASE contract' = Running(0, contract.candidates, contract.threshold, key)
      <4>1. absKey' = key /\ absEpoch' = 0 /\ absMembers' = contract.candidates
        BY <3>3 DEF Running, absKey, absEpoch, absMembers, Agreed
      <4>2. contract.candidates \in (SUBSET Accounts) \ {{}}
        BY <3>1 DEF InitializingStates, AccountSets
      <4> QED
        BY <3>2, <4>1, <4>2 DEF Abstract!Next, Abstract!Establish
    <3>4. CASE contract' # Running(0, contract.candidates, contract.threshold, key)
      <4>1. \E voted : contract' = [contract EXCEPT !.pk_votes =
                                      [contract.pk_votes EXCEPT ![key] = voted]]
        BY <1>5, <2>2, <3>4 DEF VotePk, VotePkCall
      <4>2. contract'.phase = "Initializing"
        BY <3>1, <4>1 DEF InitializingStates
      <4> QED
        BY <3>2, <4>2 DEF absKey, absEpoch, absMembers, Agreed
    <3> QED
      BY <3>3, <3>4
  <2> QED
    BY <2>1, <2>2
<1>6. ASSUME NEW signer \in Accounts, NEW epoch \in 0..MaxEpoch,
             VoteReshared(signer, epoch)
      PROVE  Goal
  <2>1. CASE contract.phase = "Running"
    BY <1>1, <1>6, <2>1 DEF VoteReshared, VoteResharedCall
  <2>2. CASE contract.phase # "Running"
    <3>1. contract.phase = "Resharing" /\ contract \in ResharingStates
      BY <1>6, <2>2, PhaseIsVariant DEF IInv, VoteReshared, VoteResharedOk
    <3>2. /\ absKey = contract.public_key /\ absEpoch = contract.old_epoch
          /\ absMembers = contract.old_participants
      BY <3>1 DEF absKey, absEpoch, absMembers, Agreed
    <3>3. CASE contract' = Running(contract.old_epoch + 1, contract.new_participants,
                                   contract.threshold, contract.public_key)
      <4>1. /\ absKey' = contract.public_key /\ absEpoch' = contract.old_epoch + 1
            /\ absMembers' = contract.new_participants
        BY <3>3 DEF Running, absKey, absEpoch, absMembers, Agreed
      <4>2. contract.public_key # NoKey
        BY <3>1, ContractAssumption DEF ResharingStates
      <4> QED
        BY <3>1, <3>2, <4>1, <4>2 DEF Abstract!Next, Abstract!Change, IInv, ReshareByOne
    <3>4. CASE contract' # Running(contract.old_epoch + 1, contract.new_participants,
                                   contract.threshold, contract.public_key)
      <4>1. \E voted : contract' = [contract EXCEPT !.finished_votes = voted]
        BY <1>6, <2>2, <3>4 DEF VoteReshared, VoteResharedCall
      <4>2. /\ contract'.phase = "Resharing" /\ contract'.public_key = contract.public_key
            /\ contract'.old_epoch = contract.old_epoch
            /\ contract'.old_participants = contract.old_participants
        BY <3>1, <4>1 DEF ResharingStates
      <4> QED
        BY <3>2, <4>2 DEF absKey, absEpoch, absMembers, Agreed
    <3> QED
      BY <3>3, <3>4
  <2> QED
    BY <2>1, <2>2
<1> QED
  BY <1>1, <1>2, <1>3, <1>4, <1>5, <1>6 DEF Next

\* The contract implements Membership: one key, one set of members per epoch,
\* changed by one account at a time.
THEOREM ContractRefinesMembership == Spec => ImplementsMembership
<1>1. Init => IInv /\ Abstract!Init
  BY DEF Init, IInv, TypeOK, NoQuorumPending, VotesAreEntitled, ReshareByOne,
         AlmostQuorum, NotInitialized, Abstract!Init, absKey, absEpoch, absMembers, Agreed
<1>2. IInv /\ [Next]_contract => [Abstract!Next]_(Abstract!absVars)
  BY StepRefines
<1> QED
  BY <1>1, <1>2, Inductive, PTL DEF Spec, ImplementsMembership, Abstract!Spec

=============================================================================
