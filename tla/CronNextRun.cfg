SPECIFICATION CronSpec
CONSTANTS
  Created     <- AllCreated
  Lateness    = {0, 1, 61}
  MonthStarts <- Calendar
  LastDay     = 75
INVARIANT NextRunIsExact
CHECK_DEADLOCK FALSE
