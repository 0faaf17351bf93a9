SPECIFICATION FairSpec
CONSTANTS
    Players = {p1}
    Monsters = {m1}
    Slots = {s1, s2, s3, s4}
    Callers = {remove}
    InitialActors = {}
    MaxConcurrency = 2
    StarvationLimit = 0
    MaxTasks = 5
    None = None
CHECK_DEADLOCK FALSE
INVARIANTS RemovalsFindTheirTarget ControllerOrder NoForgottenTask RemovedControllersRetire
PROPERTIES AccessIsExclusive JoinReturns DespawnAnswered
