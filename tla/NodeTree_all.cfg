CONSTANTS
  MaxNode = 5
  MaxId = 2
  AddActions = {0, 1, 2, 3, 4}
SPECIFICATION FairSpec
INVARIANTS TypeOK LinksAgree BelowOlderGroup SynthsAddressable NewestOwnsId WalkKeepsItsPlace LoopClearsGroup IteratorsKeepOrder SetReachesGroup
PROPERTIES ImplementsSynthIds FreeAllEnds
CHECK_DEADLOCK FALSE
