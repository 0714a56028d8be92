SPECIFICATION Safety
CONSTANTS
  Async = {a1, a2}
  Sync = {s1}
  Slots = 2
  Gate = 1
  MaxDeaths = 1
  Nobody = Nobody
SYMMETRY RequestSymmetry
CHECK_DEADLOCK FALSE
INVARIANTS
  ResultIntact
  SyncHonest
  ServiceSound
