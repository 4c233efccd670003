\* Three messages of Alice and two of Bob, two rotations, a store of one skipped key.
SPECIFICATION Spec
CONSTANTS
    Alice = Alice
    Bob = Bob
    MaxSkipped = 1
    MaxSends <- Sends
    MaxRotations = 2
    MaxRoot = 3
INVARIANTS
    TypeOK
    OpenedOnce
    KeysDistinct
    EpochOpens
CHECK_DEADLOCK FALSE
