SPECIFICATION Spec
CONSTANTS
    a1 = a1
    a2 = a2
    a3 = a3
    a4 = a4
    k1 = k1
    k2 = k2
    Accounts = {a1, a2, a3, a4}
    PublicKeys = {k1, k2}
    Thresholds = {0, 2, 3}
    NoKey = NoKey
    MaxEpoch = 2
SYMMETRY Symmetry
INVARIANTS TypeOK NoQuorumPending VotesAreEntitled AlmostQuorum
PROPERTIES FrozenBelowThreshold ImplementsMembership
