\* Two runs, two luminosity blocks, in every configuration
CONSTANTS
  RunNumbers = {1, 2}
  LumiNumbers = {1, 2}
SPECIFICATION FairSpecAll
INVARIANTS NothingLeftOpen NeverUnexpected CacheHoldsWhatIsUsed
PROPERTIES CallsInOrder LoopsEnd
CHECK_DEADLOCK FALSE
