SPECIFICATION Spec
CONSTANTS
  Text = {"home", "homestead", "cabin"}
  Prefix <- MCPrefix
  Number = {n1, n2}
  BuiltinText = "cabin"
  BuiltinNumber = n1
  Resolution = 2
  Period = 3
  MaxLived = 8
  Task <- MCTask
  MaxCount = 2
  MaxJoins = 2
  Byte = 256
  Forever = FALSE
  MaxFile = 4
  Buffer = 2
  SensorId = {"inside", "outside"}
  TaskId = {"main", "httpd"}
  Document <- Documents
INVARIANTS NotInflated LossBounded EventsKept NoServerWithoutAp CountNeverWraps
  SuccessIsWhole DocumentSound
PROPERTIES AcknowledgedApplied FiredTaskRuns WaitEnds
CHECK_DEADLOCK FALSE
