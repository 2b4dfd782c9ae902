SPECIFICATION Spec
CONSTANTS
    n1 = n1
    n2 = n2
    t1 = t1
    k1 = k1
    k2 = k2
    u1 = u1
    SignNodes = {n1, n2}
    Users = {u1}
    Tokens = {t1}
    Keys = {k1, k2}
    Calls <- RaceCalls
    Scenarios <- RaceScenarios
    MaxRetries = 1
    MaxFaults = 1
    None = None
    Waiting = Waiting
    Failed = Failed
    NodeKey = NodeKey
INVARIANT AcceptedIsSaved
CHECK_DEADLOCK FALSE
