SPECIFICATION BlockSpec
CONSTANTS
  State = {0, 1, 2}
  Resolution = 2
  MaxTicks = 2
  MaxSaves = 2
INVARIANT TimeSpentInCurrentState
