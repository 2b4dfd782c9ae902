----------------------------- MODULE MpcContract -----------------------------
(***************************************************************************)
(* The protocol state of the NEAR contract mpc_contract                     *)
(* (contract/src/lib.rs, contract/src/primitives.rs): who holds the root    *)
(* key, at which epoch, and the votes that move it from one phase to the    *)
(* next.                                                                    *)
(*                                                                          *)
(* A method is two operators on a contract state c: XxxOk(c, ...) is true   *)
(* when the call does not panic, XxxCall(c, ...) is the state it leaves.  A *)
(* call that panics is reverted by the runtime, so it is no step here; the  *)
(* node model (MpcNetwork) uses XxxOk to know that its caller sees a        *)
(* failure.                                                                 *)
(*                                                                          *)
(* Abstracted: CandidateInfo and ParticipantInfo are the account alone (the *)
(* url and the two keys they carry decide nothing in the contract), so      *)
(* Participants and Candidates are sets of accounts; Votes and PkVotes are  *)
(* total functions in which an absent entry is the empty set.               *)
(* pending_requests is in ContractSign.                                     *)
(***************************************************************************)
EXTENDS Naturals, FiniteSets

CONSTANTS Accounts,    \* accounts that may sign a transaction
          PublicKeys,  \* keys that may be voted for
          Thresholds,  \* thresholds init may be called with
          NoKey,       \* not a key
          MaxEpoch     \* bound on the epoch (a u64 in the code)

ASSUME ContractAssumption ==
    /\ IsFiniteSet(Accounts)
    /\ Thresholds \subseteq Nat
    /\ NoKey \notin PublicKeys
    /\ MaxEpoch \in Nat

VARIABLE contract      \* protocol_state of MpcContract

-----------------------------------------------------------------------------
(* The four variants of ProtocolContractState.                              *)

AccountSets == SUBSET Accounts
Votes   == [Accounts -> AccountSets]
PkVotes == [PublicKeys -> AccountSets]

NoVotes   == [a \in Accounts |-> {}]
NoPkVotes == [k \in PublicKeys |-> {}]

InitializingStates ==
    [phase: {"Initializing"}, candidates: AccountSets, threshold: Thresholds,
     pk_votes: PkVotes]

RunningStates ==
    [phase: {"Running"}, epoch: 0..MaxEpoch, participants: AccountSets,
     threshold: Thresholds, public_key: PublicKeys, candidates: AccountSets,
     join_votes: Votes, leave_votes: Votes]

ResharingStates ==
    [phase: {"Resharing"}, old_epoch: 0..MaxEpoch, old_participants: AccountSets,
     new_participants: AccountSets, threshold: Thresholds,
     public_key: PublicKeys, finished_votes: AccountSets]

NotInitialized == [phase |-> "NotInitialized"]

Initializing(candidates, threshold) ==
    [phase |-> "Initializing", candidates |-> candidates,
     threshold |-> threshold, pk_votes |-> NoPkVotes]

\* The Running state both vote_pk and vote_reshared build: every candidate
\* and every vote of the previous epoch is dropped.
Running(epoch, participants, threshold, public_key) ==
    [phase |-> "Running", epoch |-> epoch, participants |-> participants,
     threshold |-> threshold, public_key |-> public_key, candidates |-> {},
     join_votes |-> NoVotes, leave_votes |-> NoVotes]

\* The Resharing state both vote_join and vote_leave build from Running c.
Resharing(c, new_participants) ==
    [phase |-> "Resharing", old_epoch |-> c.epoch,
     old_participants |-> c.participants, new_participants |-> new_participants,
     threshold |-> c.threshold, public_key |-> c.public_key,
     finished_votes |-> {}]

\* Mutants of Reached: the vote after, or the vote before, the last one needed
\* decides.
ReachedStrictly(voted, threshold) == Cardinality(voted) > threshold
ReachedOneShort(voted, threshold) == Cardinality(voted) + 1 >= threshold

Reached(voted, threshold) == Cardinality(voted) >= threshold

-----------------------------------------------------------------------------
(* The methods.                                                             *)

InitCall(threshold, candidates) == Initializing(candidates, threshold)

JoinOk(c, signer) == c.phase = "Running" /\ signer \notin c.participants
JoinCall(c, signer) == [c EXCEPT !.candidates = @ \cup {signer}]

\* A mutant of VoteJoinOk: anyone may vote.
VoteJoinOkAnyone(c, signer, candidate) ==
    c.phase = "Running" /\ candidate \in c.candidates

VoteJoinOk(c, signer, candidate) ==
    /\ c.phase = "Running"
    /\ signer \in c.participants
    /\ candidate \in c.candidates
VoteJoinCall(c, signer, candidate) ==
    LET voted == c.join_votes[candidate] \cup {signer}
    IN  IF Reached(voted, c.threshold)
        THEN Resharing(c, c.participants \cup {candidate})
        ELSE [c EXCEPT !.join_votes[candidate] = voted]

\* A mutant of VoteLeaveOk: anyone may vote.
VoteLeaveOkAnyone(c, signer, leaver) ==
    c.phase = "Running" /\ leaver \in c.participants

VoteLeaveOk(c, signer, leaver) ==
    /\ c.phase = "Running"
    /\ signer \in c.participants
    /\ leaver \in c.participants
VoteLeaveCall(c, signer, leaver) ==
    LET voted == c.leave_votes[leaver] \cup {signer}
    IN  IF Reached(voted, c.threshold)
        THEN Resharing(c, c.participants \ {leaver})
        ELSE [c EXCEPT !.leave_votes[leaver] = voted]

\* A vote for the key already agreed on is accepted and changes nothing.
VotePkOk(c, signer, key) ==
    \/ c.phase = "Initializing" /\ signer \in c.candidates
    \/ c.phase \in {"Running", "Resharing"} /\ c.public_key = key
VotePkCall(c, signer, key) ==
    IF c.phase # "Initializing" THEN c
    ELSE LET voted == c.pk_votes[key] \cup {signer}
         IN  IF Reached(voted, c.threshold)
             THEN Running(0, c.candidates, c.threshold, key)
             ELSE [c EXCEPT !.pk_votes[key] = voted]

\* A mutant of VoteResharedOk: the epoch voted for is not compared.
VoteResharedOkAnyEpoch(c, signer, epoch) ==
    \/ c.phase = "Resharing" /\ signer \in c.old_participants
    \/ c.phase = "Running" /\ c.epoch = epoch

\* A vote for the epoch already reached is accepted and changes nothing.
VoteResharedOk(c, signer, epoch) ==
    \/ /\ c.phase = "Resharing"
       /\ c.old_epoch + 1 = epoch
       /\ signer \in c.old_participants
    \/ c.phase = "Running" /\ c.epoch = epoch

\* A mutant of VoteResharedCall: the epoch is not advanced.
VoteResharedCallSameEpoch(c, signer, epoch) ==
    IF c.phase = "Running" THEN c
    ELSE LET voted == c.finished_votes \cup {signer}
         IN  IF Reached(voted, c.threshold)
             THEN Running(c.old_epoch, c.new_participants, c.threshold, c.public_key)
             ELSE [c EXCEPT !.finished_votes = voted]

VoteResharedCall(c, signer, epoch) ==
    IF c.phase = "Running" THEN c
    ELSE LET voted == c.finished_votes \cup {signer}
         IN  IF Reached(voted, c.threshold)
             THEN Running(c.old_epoch + 1, c.new_participants, c.threshold,
                          c.public_key)
             ELSE [c EXCEPT !.finished_votes = voted]

-----------------------------------------------------------------------------
(* The contract alone, called by anyone in any order.                       *)

\* init is #[init(ignore_state)] and checks nothing: it may be called at any
\* time, with any threshold.
ContractInit ==
    \E threshold \in Thresholds, candidates \in AccountSets :
        contract' = InitCall(threshold, candidates)

\* clean is private to the contract's own account.
Clean == contract' = NotInitialized

Join(signer) ==
    /\ JoinOk(contract, signer)
    /\ contract' = JoinCall(contract, signer)

VoteJoin(signer, candidate) ==
    /\ VoteJoinOk(contract, signer, candidate)
    /\ contract' = VoteJoinCall(contract, signer, candidate)

VoteLeave(signer, leaver) ==
    /\ VoteLeaveOk(contract, signer, leaver)
    /\ contract' = VoteLeaveCall(contract, signer, leaver)

VotePk(signer, key) ==
    /\ VotePkOk(contract, signer, key)
    /\ contract' = VotePkCall(contract, signer, key)

\* The only place the epoch grows: MaxEpoch bounds it.
VoteReshared(signer, epoch) ==
    /\ VoteResharedOk(contract, signer, epoch)
    /\ contract' = VoteResharedCall(contract, signer, epoch)

Init == contract = NotInitialized

Next ==
    \/ ContractInit
    \/ Clean
    \/ \E signer \in Accounts :
        \/ Join(signer)
        \/ \E a \in Accounts : VoteJoin(signer, a) \/ VoteLeave(signer, a)
        \/ \E key \in PublicKeys : VotePk(signer, key)
        \/ \E epoch \in 0..MaxEpoch : VoteReshared(signer, epoch)

Spec == Init /\ [][Next]_contract

-----------------------------------------------------------------------------
(* Properties.                                                              *)

\* The contract is always in one of its four variants, well formed.
TypeOK ==
    contract \in {NotInitialized} \cup InitializingStates
                 \cup RunningStates \cup ResharingStates

\* A set of votes is either empty or still short of the threshold: the vote
\* that reaches it is the one that changes the phase (lib.rs lines 122, 163,
\* 197, 236), so no quorum is ever left lying in the state.
Open(votes, threshold) == votes = {} \/ Cardinality(votes) < threshold

NoQuorumPending ==
    /\ contract.phase = "Initializing" =>
        \A k \in PublicKeys : Open(contract.pk_votes[k], contract.threshold)
    /\ contract.phase = "Running" =>
        \A a \in Accounts : /\ Open(contract.join_votes[a], contract.threshold)
                            /\ Open(contract.leave_votes[a], contract.threshold)
    /\ contract.phase = "Resharing" =>
        Open(contract.finished_votes, contract.threshold)

\* Every recorded vote was cast by an account entitled to it, about an
\* account it may be about, and is still valid now: candidates are never
\* participants, join votes are for registered candidates, leave votes for
\* participants.
VotesAreEntitled ==
    /\ contract.phase = "Initializing" =>
        \A k \in PublicKeys : contract.pk_votes[k] \subseteq contract.candidates
    /\ contract.phase = "Running" =>
        /\ contract.candidates \cap contract.participants = {}
        /\ \A a \in Accounts :
            /\ contract.join_votes[a] \cup contract.leave_votes[a]
                    \subseteq contract.participants
            /\ contract.join_votes[a] # {} => a \in contract.candidates
            /\ contract.leave_votes[a] # {} => a \in contract.participants
    /\ contract.phase = "Resharing" =>
        contract.finished_votes \subseteq contract.old_participants

\* A resharing adds exactly one account or removes exactly one (a part of the
\* inductive invariant; what it means for a client is ImplementsMembership).
ReshareByOne ==
    contract.phase = "Resharing" =>
        \E a \in Accounts :
            \/ /\ a \notin contract.old_participants
               /\ contract.new_participants = contract.old_participants \cup {a}
            \/ /\ a \in contract.old_participants
               /\ contract.new_participants = contract.old_participants \ {a}

\* The participants of the current epoch are never more than one short of
\* the threshold, and a resharing only ever starts from a quorum: vote_leave
\* does not compare what it leaves with the threshold, but a set already
\* below it cannot gather the votes to lose another member.
AlmostQuorum ==
    /\ contract.phase = "Running" =>
        Cardinality(contract.participants) + 1 >= contract.threshold
    /\ contract.phase = "Resharing" =>
        Cardinality(contract.old_participants) >= contract.threshold

\* Once vote_leave has left fewer participants than the threshold, no call
\* but init and clean ever changes the membership again: the phase stays
\* Running at the same epoch with the same participants.
BelowThreshold(c) ==
    c.phase = "Running" /\ Cardinality(c.participants) < c.threshold

FrozenBelowThreshold ==
    [][BelowThreshold(contract) =>
        \/ contract'.phase \in {"Initializing", "NotInitialized"}
        \/ /\ BelowThreshold(contract')
           /\ contract'.participants = contract.participants
           /\ contract'.epoch = contract.epoch]_contract

-----------------------------------------------------------------------------
(* The contract implements Membership.  During a resharing the members are  *)
(* still the old participants at the old epoch.                             *)

Agreed == contract.phase \in {"Running", "Resharing"}

absKey == IF Agreed THEN contract.public_key ELSE NoKey

absEpoch == CASE contract.phase = "Running"   -> contract.epoch
              [] contract.phase = "Resharing" -> contract.old_epoch
              [] OTHER                        -> 0

absMembers == CASE contract.phase = "Running"   -> contract.participants
                [] contract.phase = "Resharing" -> contract.old_participants
                [] OTHER                        -> {}

Abstract == INSTANCE Membership
    WITH key <- absKey, epoch <- absEpoch, members <- absMembers

\* Votes, candidates and thresholds are invisible from outside: a call
\* either leaves key, epoch and members alone or is one step of Membership.
ImplementsMembership == Abstract!Spec

=============================================================================
