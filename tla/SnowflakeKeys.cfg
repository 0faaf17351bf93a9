SPECIFICATION KeySpec
CONSTANTS
    r1 = r1  r2 = r2  r3 = r3
    Requesters = {r1, r2, r3}
    Keys = 2
    Sequences = 2
    MaxRequests = 5
    MaxTime = 2
SYMMETRY RequesterSymmetry
INVARIANTS EveryKeyOnce UniqueWithinPool
CHECK_DEADLOCK FALSE
