CONSTANTS
  Calls = {c1, c2, c3}
  Tokens = {t1}
  LastVersion = 2
  Rejected = {2}
  CacheTTL = 0
  Capacity = 1
  Slots = 2
  MaxTime = 1
SPECIFICATION FairSpec
INVARIANTS
  SlotsExact
PROPERTIES
  CallsReturn
