CONSTANTS
  Commands = {"c1"}
  Doctor = "doctor"
  Targets = {"t1", "t2"}
  Flaky = {"t1"}
  Bound = 1
  MaxEvents = 2
  MaxTroubles = 1
  None = "none"
SPECIFICATION Spec
INVARIANTS
  NeverSentTwice
  BoundedAtRest
PROPERTIES
  ForgottenIsNeverSent
  KeptIsSettled
CHECK_DEADLOCK FALSE
