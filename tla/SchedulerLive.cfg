SPECIFICATION FairSpec
CONSTANTS
  Ids = {i1, i2}
  Tickers = {k1}
  Users = {}
  Kinds = {"plain"}
  Periods = {1}
  MaxClock = 2
  MaxFaults = 1
  MaxManual = 0
  MayCrash = FALSE
  Free = Free
PROPERTY DueSlotsRun
CHECK_DEADLOCK FALSE
