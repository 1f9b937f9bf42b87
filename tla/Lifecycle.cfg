SPECIFICATION FairSpec
CONSTANTS
  Managers = {"regular", "optimized", "cached"}
  Recovery = {TRUE, FALSE}
  Capacity = 2
  MaxWatchers = 3
INVARIANTS Inv RunsUntilStopped NoPollAfterClose PanicsOnlyByClosingTwice
PROPERTIES StopEnds
CHECK_DEADLOCK FALSE
