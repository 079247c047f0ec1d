SPECIFICATION DeploymentSpec
CONSTANTS
  server = server
  worker = worker
  Processes = {server, worker}
  Kinds <- MCKinds
  Clusters = {k1, k2}
  RetryAfter = 1
  Interval = 2
  StaleAfter = 3
  PurgeAfter = 4
  Limit = 1
  MaxRows = 2
INVARIANTS RoundInv IInv AppliedOnce RoundsMigrated
PROPERTIES ScansDrain EveryPartRuns
