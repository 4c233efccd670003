\* One line, a relayed and a direct connection.
SPECIFICATION FairSpec
CONSTANTS
    Alice = Alice
    Bob = Bob
    m1 = m1
    m2 = m2
    m3 = m3
    Messages = {m1}
    Author <- AliceOnly
    MaxSkipped = 8
    MaxConns = 3
    MaxPairings = 1
    MaxFailures = 0
    MaxWipes = 0
PROPERTY PendingIsRetried
CHECK_DEADLOCK FALSE
