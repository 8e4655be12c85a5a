CONSTANTS
  Ops = {o1}
  NoOp = NoOp
  MaxAppends = 4
SPECIFICATION JournalSpec
INVARIANT LastRecordWins
CHECK_DEADLOCK FALSE
