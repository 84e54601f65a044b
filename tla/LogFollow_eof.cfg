CONSTANTS
  Workers = {w1}
  NoWorker = NoWorker
  MaxRetry = 1
  MaxRequeues = 0
  MaxLines = 1
  RedisFaults = FALSE
  ResultFiles = FALSE
  LongLines = FALSE
  Expiring = {}
  Clients = {c1}
  BatchSize = 2
  MaxOpens = 2
SPECIFICATION FollowSpec
INVARIANTS
  EofOfLastAttempt
CHECK_DEADLOCK FALSE
