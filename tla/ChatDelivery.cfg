\* Two lines of Alice and one of Bob, two pairings, a hole punch or reconnections.
SPECIFICATION Spec
CONSTANTS
    Alice = Alice
    Bob = Bob
    m1 = m1
    m2 = m2
    m3 = m3
    Messages = {m1, m2, m3}
    Author <- BothWrite
    MaxSkipped = 1
    MaxConns = 3
    MaxPairings = 2
    MaxFailures = 1
    MaxWipes = 1
SYMMETRY AliceLines
INVARIANTS
    TrackedUntilAcked
    ShownOnce
    FreshNumbers
    NoFalseReplay
    OnlineIffConnected
PROPERTY
    DeliversReliably
CHECK_DEADLOCK FALSE
