SPECIFICATION Spec
CONSTANTS
  Width = 4
  Shared = 1
  MaxDevices = 3
  NoCode = NoCode
INVARIANT FindsEveryDevice
CHECK_DEADLOCK FALSE
