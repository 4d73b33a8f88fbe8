SPECIFICATION CheckSpec
CONSTANTS
    NModules = 3
    MaxPaths = 2
    MaxLength = 3
INVARIANT
    AcceptedIsRunnable
CHECK_DEADLOCK FALSE
