SPECIFICATION Spec
CONSTANTS
  Endpoints = {e1, e2}
  Threads = {t1, t2}
  Null = null
INVARIANTS PeersAgree
CHECK_DEADLOCK FALSE
