SPECIFICATION FairLateSpec
CONSTANTS
    Threads = {t1, t2, t3}
    Tasks = {x1, x2}
    NoTask = NoTask
    MaxPauses = 1
INVARIANTS
    MutualExclusion
    OnePlace
PROPERTIES
    RunsSerially
    ChosenTasksEnd
    PauseOvertakenOnlyByLatePicks
CHECK_DEADLOCK FALSE
