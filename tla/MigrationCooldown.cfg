SPECIFICATION Spec
CONSTANTS
  Cooldown = 2
  DryRun = FALSE
  RecoveryEnabled = TRUE
  Failures = {}
  Notices = TRUE
  Restarts = FALSE
  Strategies = {"zero"}
PROPERTIES CooldownRespected
