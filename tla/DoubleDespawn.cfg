SPECIFICATION Spec
CONSTANTS
    Players = {p1}
    Monsters = {m1}
    Slots = {s1, s2, s3, s4}
    Callers = {release, remove}
    InitialActors = {p1, m1}
    MaxConcurrency = 2
    StarvationLimit = 0
    MaxTasks = 4
    None = None
SYMMETRY SlotSymmetry
CHECK_DEADLOCK FALSE
INVARIANTS RemovalsFindTheirTarget
