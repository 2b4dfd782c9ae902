SPECIFICATION Spec
CONSTANTS
    N = 2
    Keys = {k1, k2}
    Messages = {m1}
    MaxCommits = 2
    MaxIssued = 3
    MaxLength = 3
INVARIANTS TypeOK NonceUsedOnce SharesAgreeOnKeys KeysOfTheirNodes
PROPERTY ImplementsOneTimeNonce
SYMMETRY KeySymmetry
CHECK_DEADLOCK FALSE
