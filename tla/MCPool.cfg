SPECIFICATION Spec
CONSTANTS
    w1 = w1
    w2 = w2
    t1 = t1
    t2 = t2
    Workers = {w1, w2}
    Tasks = {t1, t2}
    NoTask = NoTask
    NoThread = NoThread
    Interval <- MCInterval
    ExeTime <- MCExeTime
    Delays = {0, 1}
    MaxTime = 3
INVARIANTS
    IInv
PROPERTIES
    KeepsRate
CHECK_DEADLOCK FALSE
