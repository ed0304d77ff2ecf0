SPECIFICATION Spec
CONSTANTS
  N = 3
  MaxAttempts = 2
  MaxFaults = 2
  MayCrash = TRUE
INVARIANT CompletedMeansAllStepsStand
INVARIANT AttemptsFollowPolicies
PROPERTY NodesAreRunStepwise
CHECK_DEADLOCK FALSE
