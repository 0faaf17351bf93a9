\* Every behaviour ends when MaxTasks tasks have run and the threads are idle.
SPECIFICATION FairSpec
CONSTANTS
    Workers = {w1, w2, w3}
    Posters = {p1, p2}
    MaxTasks = 4
INVARIANTS OneAtATime
PROPERTIES IsSerialExecutor EveryTaskRuns
CHECK_DEADLOCK FALSE
