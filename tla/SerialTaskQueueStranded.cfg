SPECIFICATION Spec
CONSTANTS
    Threads = {t1, t2, t3}
    Tasks = {x1, x2, x3}
    NoTask = NoTask
    MaxPauses = 0
INVARIANT
    NothingStranded
CHECK_DEADLOCK FALSE
