CONSTANTS
  Workers = {w1}
  NoWorker = NoWorker
  MaxRetry = 1
  MaxRequeues = 0
  MaxLines = 1
  RedisFaults = FALSE
  ResultFiles = FALSE
  LongLines = FALSE
  Expiring = {"logs"}
  Clients = {c1}
  BatchSize = 2
  MaxOpens = 2
SPECIFICATION FollowSpec
INVARIANTS
  FollowTypeOK
  ResumesWhereItLeftOff
  EofAfterWholeOutput
PROPERTIES
  CompletedReaderReleased
CHECK_DEADLOCK FALSE
