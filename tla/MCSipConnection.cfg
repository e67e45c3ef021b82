SPECIFICATION FairSpec
CONSTANTS
  Calls = {c1, c2}
  Limit = 0
  MaxTime = 1
CHECK_DEADLOCK FALSE
INVARIANTS NeverTooEarly Remembered HungUpOnce CallIsClosed
PROPERTIES HungUpEnds OverdueIsFreed
