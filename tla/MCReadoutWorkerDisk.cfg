SPECIFICATION Spec
CONSTANTS
    Packets <- MCPackets
    NumConsumers = 1
    MaxPackets = 2
    MaxTimeouts = 1
INVARIANT CountedBytesAreOnDisk
