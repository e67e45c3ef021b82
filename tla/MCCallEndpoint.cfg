SPECIFICATION Spec
CONSTANTS
  Endpoints = {e1, e2, e3}
  Threads = {t1, t2, t3}
  Null = null
INVARIANTS  DeadIsAlone 
CONSTRAINT Whole
CHECK_DEADLOCK FALSE
SYMMETRY Alike
