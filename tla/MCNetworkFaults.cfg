SPECIFICATION FairSpec
CONSTANTS
    k1 = k1
    k2 = k2
    Accounts = {1, 2, 3}
    PublicKeys = {k1, k2}
    NoKey = NoKey
    MaxEpoch = 1
    CandidateSets = {{1, 2}, {2, 3}, {1, 2, 3}}
    Threshold = 2
    MaxLeavers = 1
    MaxFaults = 1
INVARIANTS TypeOK RunningNodesAgree ShareFitsParticipants PkVoteIsDurable QuorumHoldsKey
PROPERTY NetworkConverges
