SPECIFICATION FairSpec
CONSTANTS
    Creators = {c1}
    Joiners = {j1}
    Codes = {k1}
    NoPeer = NoPeer
    Ttl = 2
    DiscoveryTime = 1
    JoinTime = 1
    Skew <- OthersAhead
    MaxTime = 2
    MaxInvites = 2
    MaxConns = 2
    MaxLost = 1
    MaxRestarts = 0
PROPERTY
    PairingEnds
CHECK_DEADLOCK FALSE
