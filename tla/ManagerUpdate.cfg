CONSTANTS
  Updaters = {"u1", "u2"}
  Commands = {"c1"}
  Products <- MCProducts
  Newest = 3
  DevTargets = {1, 3}
  Lives = 1
  None = "none"
SPECIFICATION Spec
INVARIANTS
  TypeOK
  OwnerIsHolder
  RecordComesFirst
PROPERTIES
  NeverMovesBack
CHECK_DEADLOCK FALSE
