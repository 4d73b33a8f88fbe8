\* Three streams over twelve small jobs, two exceptions, one signal
CONSTANTS
  Streams = {0, 1, 2}
  Jobs <- JobsToRun
  MaxFailures = 2
  MaxSignals = 1
SPECIFICATION FairCountSpec
INVARIANTS ReadFindsItem EventsProcessedOnce NothingLost ExceptionsReported SignalStopsReading
PROPERTIES TransitionsAreBarriers JobEnds
CHECK_DEADLOCK FALSE
