SPECIFICATION FairSpec
CONSTANTS
  ReqCount = 2
  RspCount = 2
  Finals = {200}
  LazyTrying = TRUE
  MaxBirths = 2
  MaxProgress = 1
CHECK_DEADLOCK FALSE
INVARIANTS NeverStuck OneFinalAnswer EndsAsTold AckedAgree QuietAfterAck
PROPERTIES TransactionsEnd
