SPECIFICATION Spec
CONSTANTS
  Sensor = {s1, s2}
  Device = {d1, d2}
  Resolution = {9}
  None = None
  Value = {2, 3, 10}
  Count = {1, 8}
  Builtin <- MCBuiltin
  Limit = {2, 3, 10}
  Raw = {1, 2, 4, 7, 9, 10}
  Threshold = 49
  BitWidth = 2
  SampleCount = {0, 1, 3, 4, 5}
  IntMax = 12
  MaxHeats = 4
  MaxConversions = 4
  ByteBits = 3
  TimeRange = 8
  RawTemperature <- MCRawTemperature
  Word <- MCWord
  SerialByte = {0, 9, 16, 171, 255}
  SerialSize = 2
  Message <- MCMessage
INVARIANT TemperatureInCelsius
CHECK_DEADLOCK FALSE
