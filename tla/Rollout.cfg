SPECIFICATION FairSpec
CONSTANTS
  Replicas = 2
  MaxGeneration = 2
  MaxEvents = 2
INVARIANTS TypeOK OkMeansRolledOut QuietMeansUnfinished
PROPERTIES EndsAtDeadline NothingMissed
