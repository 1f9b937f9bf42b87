SPECIFICATION Spec
CONSTANTS
  Managers = {"regular"}
  Recovery = {TRUE}
  Capacity = 2
  MaxWatchers = 3
INVARIANTS ShutsDownGracefully
CHECK_DEADLOCK FALSE
