CONSTANTS
  httpd = httpd
  other = other
  Caller <- MCCaller
  NoCaller = NoCaller
  MaxEventCount = 2
  MaxCalls = 3
  Result = {"OK", "Error"}
SPECIFICATION Spec
INVARIANTS TypeOK RunsOnceInOrder NoLostWakeup StrayWakeupsExplained
           CapturesAlive
PROPERTIES KeepsPromise EveryCallerAnswered EveryFunctionFinishes
