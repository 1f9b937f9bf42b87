SPECIFICATION SerialSpec
CONSTANTS
  Cooldown = 2
  DryRun = FALSE
  RecoveryEnabled = TRUE
  Failures = {"rollout", "health"}
  Notices = TRUE
  Restarts = FALSE
  Strategies = {"zero", "quarter", "count", "recreate"}
INVARIANTS AnnotationAgrees StateAgrees FailedRecoveryIsOnFargate
PROPERTIES Evacuates CooldownRespected
