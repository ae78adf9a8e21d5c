CONSTANTS
  Packets <- SomePackets
  MaxPackets = 2
  MaxSignals = 2
  MaxOwed = 1
SPECIFICATION FairSpec
INVARIANTS TypeOK DeletedWhenUnused
PROPERTIES AllIsHandled BreakEndsLoop QuitEndsControl
CHECK_DEADLOCK FALSE
