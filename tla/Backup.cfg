SPECIFICATION Spec
CONSTANTS
  MaxBackups = 3
  NumTargets = 2
  Keep = 1
  KeepPreUpdate = 1
  None = None
  MaxOps = 4
  MaxFaults = 2
INVARIANTS
  ListedIsWhole
  ResumeFindsItsBackup
  GuardStays
  LandedStays
PROPERTY OneMoment
CHECK_DEADLOCK FALSE
