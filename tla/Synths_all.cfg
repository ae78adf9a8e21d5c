CONSTANTS
  MaxSynth = 2
  MaxValue = 1
  Definitions <- MCDefinitions
  NoDefinition = "none"
SPECIFICATION FairSpec
INVARIANTS TypeOK UnitsRunFirst MisusedByBadDefinition DoneByOwnUnits TriggersArriveOnce ReaderFollowsWriter
PROPERTIES SetReachesOuts
CHECK_DEADLOCK FALSE
