SPECIFICATION Spec
CONSTANTS
    busy = busy
    quiet = quiet
    Sources <- MCSources
    Modulus = 6
    MaxSent <- MCMaxSent
    MaxReceived <- MCMaxReceived
    MaxRestarts = 1
INVARIANTS
    TypeOK
    JumpFreeCountIsExact
    LossIsNeverHidden
