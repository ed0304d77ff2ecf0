SPECIFICATION GraphSpec
CONSTANTS
  Size = 4
  MaxEdges = 4
INVARIANT GraphsAreOrdered
CHECK_DEADLOCK FALSE
