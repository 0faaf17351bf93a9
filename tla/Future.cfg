SPECIFICATION Spec
CONSTANTS
    p = p
    a = a
    t = t
    c1 = c1
    c2 = c2
    w1 = w1
    w2 = w2
    Throws = {a}
    All = All
    Promises = {p}
    Asyncs = {a}
    Thens = {t}
    Parent <- parent
    Setters = {c1}
    Cancelers = {c2}
    Workers = {w1, w2}
    Read = {t}
CHECK_DEADLOCK FALSE
INVARIANTS FirstResultStands ResumesOnceWhenDone
PROPERTIES WaitersReturn
