SPECIFICATION Spec
CONSTANTS
    Envelopes = {e1, e2}
    Capacity = 2
    Ttl = 2
    MaxTime = 1
    MaxFetches = 2
    MaxRepeats = 0
INVARIANT
    DeliveredWasRead
CHECK_DEADLOCK FALSE
