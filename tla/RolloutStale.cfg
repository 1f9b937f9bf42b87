SPECIFICATION Spec
CONSTANTS
  Replicas = 1
  MaxGeneration = 3
  MaxEvents = 2
INVARIANTS FailsForItsRollout
