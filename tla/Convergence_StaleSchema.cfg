SPECIFICATION Spec
CONSTANTS
  Releases <- ThreeReleases
  Leaves <- DeclaredLeaves
  Runs <- DeclaredRuns
  Produces <- DeclaredLeaves
  Reads <- DeclaredRuns
  RollbackSafe <- ThreeReleases
  ServiceMigrates = {}
  None = None
  MaxOps = 2
  MaxBreaks = 0
  MaxAcks = 0
PROPERTY RolledBackReadsTheDatabase
CHECK_DEADLOCK FALSE
