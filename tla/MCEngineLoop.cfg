SPECIFICATION EngineFairSpec
CONSTANTS
  Nodes = {root, n1, n2}
  Root = root
  Null = null
  m1 = m1
  m2 = m2
  m3 = m3
  Msgs = {m1, m2, m3}
  Main = main
  Workers = {main, w1, w2, w3, w4}
  MinWorkers = 1
  MaxWorkers = 3
  AddWorkers = 3
  MaxStop = 1
  MaxFailures = 1
  Waits <- FirstWaits
INVARIANTS EngineTypeOK FirstInFirstOut NothingLeftBehind
PROPERTIES QueueMovesOn HaltEnds
CHECK_DEADLOCK FALSE
