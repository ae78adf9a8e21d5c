CONSTANTS
  Packets <- SomePackets
  MaxPackets = 1
  MaxSignals = 1
  MaxOwed = 0
SPECIFICATION FairSpec
PROPERTIES BreakEndsReceiver
CHECK_DEADLOCK FALSE
