SPECIFICATION Spec
CONSTANTS
    Creators = {c1, c2}
    Joiners = {j1, j2}
    Codes = {k1}
    NoPeer = NoPeer
    Ttl = 2
    DiscoveryTime = 1
    JoinTime = 1
    Skew <- OthersAhead
    MaxTime = 2
    MaxInvites = 2
    MaxConns = 2
    MaxLost = 1
    MaxRestarts = 1
INVARIANTS
    TypeOK
    OneJoinerPerRegistration
    PairedBothWays
    PrekeyUsedOnce
PROPERTY
    CodeNotTaken
CONSTRAINT
    Apart
CHECK_DEADLOCK FALSE
SYMMETRY SameJoiners
