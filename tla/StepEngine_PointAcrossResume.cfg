CONSTANTS
  N = 6
  StepIDs <- UpdateIDs
  Builds = {"v1"}
  NoBuild = "none"
  Plan <- UpdatePlan
  MaxRuns = 2
  MaxLost = 0
SPECIFICATION Spec
INVARIANT NeverCompensatedAcross
CHECK_DEADLOCK FALSE
