SPECIFICATION Spec
CONSTANTS
    Records <- MCRecords
    Sources <- MCSources
    Configurations <- Jobs
    MaxRuns = 2
    MaxLoops = 1
INVARIANTS
    IntervalsAreExact
    DataAreCurrent
    HeldDataLast
PROPERTIES
    TransientsDropped
