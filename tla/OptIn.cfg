SPECIFICATION Spec
CONSTANTS
  a = a
  b = b
  Deployments = {a, b}
  Configured = a
  Watched = a
  Settings <- MCSettings
  TTL = 2
  Latency = 1
INVARIANT RecoversOnlyOptedIn
