\* One line more than the skipped keys bridge, two rows for a device, two stops.
SPECIFICATION Spec
CONSTANTS
    Peer = Peer
    Devices = {d1}
    PeerLines = {m1, m2, m3}
    DeviceLines = {n1, n2}
    Lines <- Written
    MaxSkipped = 1
    MaxStops = 2
    MaxDamaged = 1
SYMMETRY Interchangeable
INVARIANTS
    TypeOK
    NumbersFresh
    OpenedOnce
    NewLineOpens
PROPERTIES
    DeliversReliably
    UnreadOnlyByFault
    RevokedStaysOut
CHECK_DEADLOCK FALSE
