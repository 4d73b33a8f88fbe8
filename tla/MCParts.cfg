\* Three modules on two paths; two criteria; two small files or one with a move; three threads; two children, two failures
SPECIFICATION PartsSpec
CONSTANTS
    NModules = 3
    MaxPaths = 2
    MaxLength = 3
    SelectEvents <- MCSelectEvents
    TrigPaths <- MCPaths
    Menus <- MCMenus
    Jobs <- MCJobs
    MaxMoves = 1
    Threads = {t1, t2, t3}
    Users = {u1, u2, u3}
    MaxExceptions = 1
    MaxMessages = 4
    MaxObjects = 5
    Children = {0, 1}
    ForkJobs <- MCForkJobs
    MaxFailures = 2
INVARIANTS
    RefusedForACycle
    AcceptedByACriterion
    DeliversTheSelection
    InsideRunAndLumi
    NextEventIsRight
    MessagesKept
    ObjectsHaveOneUser
    EventsSharedOut
PROPERTIES
    ForkedJobEnds
CHECK_DEADLOCK FALSE
