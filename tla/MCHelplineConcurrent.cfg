SPECIFICATION EitherSpec
CONSTANTS
  c1 = c1
  c2 = c2
  w1 = w1
  w2 = w2
  Calls <- OneCall
  Workers <- TwoWorkers
  Keys = {35, 49, 50}
  BufSize = 2
  DbMayFail = FALSE
  Tables <- OneRow
  MaxKeys = 6
  MaxQueue = 1
  NoSession = NoSession
  Idle = Idle
CHECK_DEADLOCK FALSE
SYMMETRY WorkerSymmetry
INVARIANTS TypeOK AccountsAgree SecretIsOwn WritesStayInSession CardIsOfUid
