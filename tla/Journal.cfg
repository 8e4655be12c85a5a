CONSTANTS
  Ops = {o1, o2}
  NoOp = NoOp
  MaxAppends = 4
SPECIFICATION JournalSpec
INVARIANTS
  LostOnlyBehindATear
PROPERTIES
  DeadBlocks
CHECK_DEADLOCK FALSE
