SPECIFICATION FairSpec
CONSTANTS
    Accounts = {1, 2, 3}
    Requests = {r1}
    Threshold = 2
    MaxEpoch = 2
    InitialSets = {{2, 3}, {1, 2, 3}}
    NotYet = NotYet
INVARIANT OneProposer
PROPERTY QuietRequestAnswered
CHECK_DEADLOCK FALSE
