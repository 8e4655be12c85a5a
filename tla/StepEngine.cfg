CONSTANTS
  N = 6
  StepIDs <- EveryIDs
  Builds = {"v1", "v2", "v3"}
  NoBuild = "none"
  Plan <- EveryPlan
  MaxRuns = 3
  MaxLost = 1
SPECIFICATION Spec
INVARIANTS
  HalfDoneIsOnRecord
  SuccessMeansDone
  CompensatedByOneRun
  PointHolds
PROPERTIES
  NoUnsafeRepeat
  CreditIsKept
  NewestFirst
  InterventionSticks
  RunEnds
  ImplementsLifecycle
CHECK_DEADLOCK FALSE
