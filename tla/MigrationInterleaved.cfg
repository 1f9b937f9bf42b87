SPECIFICATION FairSpec
CONSTANTS
  Cooldown = 1
  DryRun = FALSE
  RecoveryEnabled = TRUE
  Failures = {"api", "rollout", "health"}
  Notices = TRUE
  Restarts = TRUE
  Strategies = {"zero", "quarter", "count", "recreate"}
INVARIANTS TypeOK IdleStatusSettled MigratesWithStrategy
PROPERTIES UpdateLosesNothing HandlerReturns ComesBackToSpot
