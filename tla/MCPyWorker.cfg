SPECIFICATION FairSpec
CONSTANTS
    c1 = c1
    c2 = c2
    None = None
    Callers = {c1, c2}
    QueueSize = 1
    MaxPackets = 2
    MaxRuns = 2
    MaxCalls = 3
INVARIANTS
    TypeOK
    NothingIsLost
PROPERTIES
    NobodyWaitsForEver
CHECK_DEADLOCK FALSE
