SPECIFICATION Spec
CONSTANTS
  Publishers = {p1}
  Old = Old
  None = None
  MaxTries = 2
  MaxSerial = 3
  Abandoned = {}
  MaxCrashes = 0
CHECK_DEADLOCK FALSE
PROPERTIES
  ReplacedAtomically
