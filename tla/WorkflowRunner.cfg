SPECIFICATION Spec
CONSTANTS
  Workflows <- MCWorkflows
  MaxRetries = 1
  MaxOthers = 3
  MaxFaults = 2
INVARIANT StepsAreToldTruly
INVARIANT OneWordAtTheEnd
 
PROPERTY StepsAreRunStepwise
CHECK_DEADLOCK FALSE
