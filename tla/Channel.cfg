SPECIFICATION FairSpec
CONSTANTS
    p1 = p1  p2 = p2
    Producers = {p1, p2}
    MaxSends = 2
INVARIANTS InOrder
PROPERTIES EveryItemReceived CloseEndsConsumer
CHECK_DEADLOCK FALSE
