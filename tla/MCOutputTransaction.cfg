SPECIFICATION Spec
CONSTANTS
  Publishers = {p1, p2, p3}
  Old = Old
  None = None
  MaxTries = 2
  MaxSerial = 3
  Abandoned = {0}
  MaxCrashes = 1
SYMMETRY PublisherSymmetry
CHECK_DEADLOCK FALSE
INVARIANTS
  NeverPartial
  OutputSurvives
  OwnTransaction
  HonestVerdict
  NoSilentLeftover
