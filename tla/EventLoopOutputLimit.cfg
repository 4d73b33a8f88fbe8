\* Two streams and an output module that may write one event
CONSTANTS
  Streams = {0, 1}
  Jobs <- LimitedOutput
  MaxFailures = 0
  MaxSignals = 0
SPECIFICATION CountSpec
INVARIANT LimitIsNotLifted
CHECK_DEADLOCK FALSE
