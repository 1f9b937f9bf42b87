SPECIFICATION FairSpec
CONSTANTS
  a = a
  b = b
  Deployments = {a, b}
  Configured = a
  Watched = a
  Settings <- MCSettings
  TTL = 2
  Latency = 1
INVARIANTS TypeOK StaleIsBounded
PROPERTIES BeginsOnlyWhenDue EveryDueIsTried
