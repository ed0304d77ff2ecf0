SPECIFICATION Spec
CONSTANTS
  Ids = {i1, i2}
  Tickers = {k1, k2}
  Users = {u1}
  Kinds = {"both", "engine"}
  Periods = {1}
  MaxClock = 1
  MaxFaults = 1
  MaxManual = 1
  MayCrash = TRUE
  Free = Free
SYMMETRY Symmetry
 
 
INVARIANT BookkeepingAgrees
CHECK_DEADLOCK FALSE
