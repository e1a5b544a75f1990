SPECIFICATION MCSpec
CONSTANTS
    MaxId = 2
    Addresses = {1}
    Values = {0, 1}
    MaxAttempts = 2
    MaxCalls <- MCMaxCalls
    Unknown = Unknown
INVARIANTS
    TypeOK
    OkMeansExecuted
    IdsAgree
    BeliefsHold
    ProbeFindsDevice
PROPERTIES
    ImplementsRemoteCall
    CallsReturn
CHECK_DEADLOCK FALSE
