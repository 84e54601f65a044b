CONSTANTS
  IntMin <- MCIntMin
  IntMax = 4
  BadDuration = "soon"
  Deployments <- MCDeployments
  MaxSignals = 2
  MaxTasks = 2
SPECIFICATION FairSpec
INVARIANTS
  ServiceTypeOK
  CredentialsApart
  SettingsEffective
  LoadExact
  QueuedForSender
  ScriptTold
  LoggedSender
  ClustersApart
  EnvWithinInputs
  TasksAwaited
PROPERTIES
  Stops
CHECK_DEADLOCK FALSE
