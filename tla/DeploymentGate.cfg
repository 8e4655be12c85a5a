CONSTANTS
  Commands = {c1, c2, c3}
  Kinds = {"update", "rollback", "stop", "start", "backup"}
  Releases = {r1, r2}
  NoRelease = NoRelease
  None = None
SYMMETRY Symmetry
SPECIFICATION Spec
INVARIANTS
  NeverOverAWreck
PROPERTIES
  NeverRunAgain
  NeverResumesHistory
  ImplementsSerial
CHECK_DEADLOCK FALSE
