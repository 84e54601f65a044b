CONSTANTS
  Workers = {w1}
  NoWorker = NoWorker
  MaxRetry = 1
  MaxRequeues = 1
  MaxLines = 1
  RedisFaults = FALSE
  ResultFiles = FALSE
  LongLines = FALSE
  Expiring = {"logs"}
SPECIFICATION FairSpec
INVARIANTS
  AttemptsCharged
  OneLiveAttempt
  EofAccountsForOutput
  CompletedLogClosed
  StartedAtOwn
PROPERTIES
  ImplementsFairLifecycle
  Terminates
CHECK_DEADLOCK FALSE
