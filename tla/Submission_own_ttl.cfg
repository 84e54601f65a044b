CONSTANTS
  Calls = {c1}
  alice = alice
  bob = bob
  x = x
  y = y
  Callers = {alice, bob}
  NoOne = NoOne
  Values = {x, y}
  Absent = Absent
  Other = Other
  NoURL = NoURL
  Inputs <- Twins
  Payloads <- TwinPayloads
  AllowedCallers = {}
  RequireIdentity = FALSE
  LastVersion = 2
  Grants <- TwinGrants
  FetchTimeout = 1
  MaxTime = 4
SPECIFICATION Spec
INVARIANTS
  OwnCacheTime
