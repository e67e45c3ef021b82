SPECIFICATION Spec
CONSTANTS
  c1 = c1
  c2 = c2
  w1 = w1
  w2 = w2
  Calls <- OneCall
  Workers <- OneWorker
  Keys = {35, 49, 50, 65}
  BufSize = 2
  DbMayFail = FALSE
  Tables <- TwoRows
  MaxKeys = 8
  MaxQueue = 1
  NoSession = NoSession
  Idle = Idle
CHECK_DEADLOCK FALSE
INVARIANTS CountIsUserCount
