SPECIFICATION FairSpec
CONSTANTS
    Threads = {t1, t2, t3}
    Tasks = {x1, x2, x3}
    Null = Null
    InitialSize = 1
    MaxResets = 1
ACTION_CONSTRAINT InOrder
INVARIANTS
    NotBeforeDone
    ExceptionReachesAll
    NoDanglingNode
PROPERTIES
    EveryTaskSpawned
CHECK_DEADLOCK FALSE
