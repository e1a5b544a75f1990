SPECIFICATION DaqSpec
CONSTANTS
    Packets <- MCPackets
    NumConsumers = 3
    MaxPackets = 2
    MaxTimeouts = 0
    FixedPort = TRUE
    Hole <- MCHole
    MaxRuns = 2
INVARIANTS
    DaqTypeOK
    RunsAccumulate
    ReplayReproduces
    PortFollowsReadout
