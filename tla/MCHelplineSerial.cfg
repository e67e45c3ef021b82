SPECIFICATION RFairSpec
CONSTANTS
  c1 = c1
  c2 = c2
  w1 = w1
  w2 = w2
  Calls <- OneCall
  Workers <- TwoWorkers
  Keys = {35, 49, 51}
  BufSize = 2
  DbMayFail = TRUE
  Tables <- NoneOrTwo
  MaxKeys = 6
  MaxQueue = 1
  NoSession = NoSession
  Idle = Idle
CHECK_DEADLOCK FALSE
CONSTRAINT Unraced
INVARIANTS NoLeftover
PROPERTIES ImplementsSessions GoodbyeEndsCall
