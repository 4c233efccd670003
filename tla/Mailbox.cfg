SPECIFICATION Spec
CONSTANTS
    Envelopes = {e1, e2, e3}
    Capacity = 2
    Ttl = 1
    MaxTime = 1
    MaxFetches = 2
    MaxRepeats = 1
INVARIANTS
    TypeOK
    DeliveredWasAccepted
    OpenedAtMostOnce
    AnswersHold
SYMMETRY Interchangeable
CHECK_DEADLOCK FALSE
