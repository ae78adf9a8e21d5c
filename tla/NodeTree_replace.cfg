CONSTANTS
  MaxNode = 5
  MaxId = 2
  AddActions = {1, 4}
SPECIFICATION Spec
INVARIANTS MapLeadsToLiveNodes
CHECK_DEADLOCK FALSE
