SPECIFICATION Spec
CONSTANTS
    busy = busy
    quiet = quiet
    Sources <- LoneSource
    Modulus = 8
    MaxSent <- LoneMaxSent
    MaxReceived <- LoneMaxSent
    MaxRestarts = 1
INVARIANT RestartIsNotLoss
