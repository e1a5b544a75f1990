SPECIFICATION Spec
CONSTANTS
    MaxId = 2
    Addresses = {1}
    Values = {0, 1}
    MaxAttempts = 2
    MaxCalls <- MCMaxCalls
    Unknown = Unknown
INVARIANT FoundIdResponds
CHECK_DEADLOCK FALSE
