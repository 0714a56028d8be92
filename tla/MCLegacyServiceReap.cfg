SPECIFICATION Spec
CONSTANTS
  Async = {a1}
  Sync = {s1}
  Slots = 2
  Gate = 1
  MaxDeaths = 1
  Nobody = Nobody
CHECK_DEADLOCK FALSE
PROPERTIES
  WorkerExitsTerminalize
