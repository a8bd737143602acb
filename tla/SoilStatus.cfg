SPECIFICATION SoilSpec
CONSTANTS
  Limit = {2, 10}
  Raw = {1, 2, 4, 7, 9, 10}
  Threshold = 49
INVARIANT StatusIsKnown
CHECK_DEADLOCK FALSE
