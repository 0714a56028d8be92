SPECIFICATION LiveSpec
CONSTANTS
  Jobs = {j1, j2}
  NFiles = 1
  Formats = 1
  Slots = 2
  Gate = 1
  JobBudget = 1
  OutSizes = {1}
  NoJob = NoJob
  WorkerCalls = {r1, r2}
  AsyncRequests = {a1}
  SyncRequests = {s1}
  Nothing = Nothing
CHECK_DEADLOCK FALSE
PROPERTIES
  ImplementsLifecycle
  JobsLive
  WorkerLive
  LegacyLive
