SPECIFICATION ApSpec
CONSTANTS
  MaxJoins = 1
  Byte = 256
  Forever = FALSE
PROPERTY ServerStops
CHECK_DEADLOCK FALSE
