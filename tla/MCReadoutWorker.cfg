SPECIFICATION FairSpec
CONSTANTS
    Packets <- MCPackets
    NumConsumers = 2
    MaxPackets = 3
    MaxTimeouts = 1
INVARIANTS
    TypeOK
    WriteAhead
    RunIsComplete
    FinishedBeforeNotRunning
    ResourcesHeldByLoop
    ErrorIsReported
PROPERTIES
    NoPacketAfterFinished
    ImplementsFanout
    StopReturns
    ReplayEnds
