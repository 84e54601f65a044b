CONSTANTS
  Workers = {w1}
  NoWorker = NoWorker
  MaxRetry = 1
  MaxRequeues = 0
  MaxLines = 0
  RedisFaults = FALSE
  ResultFiles = TRUE
  LongLines = FALSE
  Expiring = {}
SPECIFICATION Spec
INVARIANTS
  ResultDataOwn
CHECK_DEADLOCK FALSE
