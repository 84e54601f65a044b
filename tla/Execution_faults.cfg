CONSTANTS
  Workers = {w1, w2}
  NoWorker = NoWorker
  MaxRetry = 1
  MaxRequeues = 0
  MaxLines = 1
  RedisFaults = TRUE
  ResultFiles = TRUE
  LongLines = TRUE
  Expiring = {"meta"}
SPECIFICATION Spec
SYMMETRY Symmetry
INVARIANTS
  TypeOK
  CompletedExitZero
  LogByAttempt
  EofEndsAttempt
PROPERTIES
  OnlyCurrentWrites
CHECK_DEADLOCK FALSE
