SPECIFICATION Spec
CONSTANTS
  Programs <- MCPrograms
  Value = {0, 1}
  Unset = 4
  Settings <- MCSettings
  MaxCycles = 3
  MaxMade = 3
INVARIANTS TypeOK 
PROPERTIES ImplementsPictureValues
CHECK_DEADLOCK FALSE
