CONSTANTS
  Id = {i1, i2}
  MaxSynth = 2
  Completions <- ReadCompletions
SPECIFICATION FairSpec
PROPERTIES HandlerReturns
CHECK_DEADLOCK FALSE
