SPECIFICATION PoolFairSpec
CONSTANTS
    o1 = o1
    t1 = t1  t2 = t2  t3 = t3
    Concurrency = 2
    Outside = {o1}
    Tasks = {t1, t2, t3}
INVARIANTS OnePlace
PROPERTIES EveryTaskRuns StopReturns
CHECK_DEADLOCK FALSE
