SPECIFICATION Spec
CONSTANTS
  Width = 3
  Shared = 0
  MaxDevices = 3
  NoCode = NoCode
INVARIANTS FindsBothDevices EndsComplete OnlyConnectedDevices
PROPERTY SearchEnds
CHECK_DEADLOCK FALSE
