SPECIFICATION StoreSpec
CONSTANTS
  State = {0, 1, 2, 3}
  Resolution = 2
  MaxTicks = 2
  MaxSaves = 2
  Handled = {0, 1, 2}
  Asked = {0, 1, 2}
INVARIANTS AssertionsHold DurationsNotInflated RestoresRecentState
PROPERTIES LeavesHandledState RebootKeepsBlock
