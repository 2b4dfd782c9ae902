SPECIFICATION FairSpec
CONSTANTS
    Nodes = {n1, n2}
    LowWater = 2
    PoolLimit = 10
    MaxTriples = 2
    MaxPresigs = 2
    MaxRuns = 2
    MaxRequests = 2
    MaxRepeats = 0
INVARIANTS
    TypeOK
    OneRun
    ShareSpentOnce
    MinePresent
PROPERTIES
    EveryoneFinishes
    ProposedIsPublished
