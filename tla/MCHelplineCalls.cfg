SPECIFICATION Spec
CONSTANTS
  c1 = c1
  c2 = c2
  w1 = w1
  w2 = w2
  Calls <- TwoCalls
  Workers <- OneWorker
  Keys = {35, 49}
  BufSize = 2
  DbMayFail = FALSE
  Tables <- NoRows
  MaxKeys = 4
  MaxQueue = 1
  NoSession = NoSession
  Idle = Idle
CHECK_DEADLOCK FALSE
SYMMETRY CallSymmetry
INVARIANTS OneAccountPerNumber UidIsOwn
PROPERTIES NeverDropsOthers
