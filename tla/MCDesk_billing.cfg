SPECIFICATION SceneSpec
CONSTANTS
  Node = {n1, n2}
  Limit = {0, 1, 2}
  MaxWire = 2
  MaxBytes = 2
  MaxEdits = 2
  MaxFaults = 1
  None = None
INVARIANTS
  DeskSound
PROPERTIES
  DeskSettles
CHECK_DEADLOCK FALSE
