SPECIFICATION Spec
CONSTANTS
  Releases <- ThreeReleases
  Leaves <- SilentLeaves
  Runs <- SilentRuns
  Produces <- SilentProduces
  Reads <- SilentReads
  RollbackSafe <- ThreeReleases
  ServiceMigrates = {1}
  None = None
  MaxOps = 2
  MaxBreaks = 1
  MaxAcks = 1
PROPERTIES CompensatedUpdateIsBack RollbackMovesOrPointsBack SucceededIsConverged
CHECK_DEADLOCK FALSE
