SPECIFICATION Spec
CONSTANTS
  Jobs = {j1, j2}
  NFiles = 2
  Formats = 1
  Slots = 2
  Gate = 1
  JobBudget = 2
  OutSizes = {1, 2}
  NoJob = NoJob
SYMMETRY JobSymmetry
INVARIANTS
  NoJobLost
  CancelWins
  VerdictHonest
  ReservationsSuffice
  ClosedJobsRelease
  GateConserved
PROPERTIES
  NoPublishAfterCancel
