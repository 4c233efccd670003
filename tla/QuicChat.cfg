SPECIFICATION CommandSpec
CONSTANTS
    Alice = Alice
    Bob = Bob
    a1 = a1
    a2 = a2
    b1 = b1
    Messages <- Lines
    Author <- Writers
    MaxConnects = 3
    MaxTimeouts = 1
    Senders = {s1, s2}
INVARIANTS
    CommandTypeOK
    TextReadOnce
    SessionIsCallers
PROPERTIES
    DeliversReliably
    FlushTerminates
    SenderEnds
CHECK_DEADLOCK FALSE
