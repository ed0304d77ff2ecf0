SPECIFICATION Spec
CONSTANTS
  q1 = q1
  q2 = q2
  q3 = q3
  Requests = {q1, q2, q3}
  MaxFiles = 4
  MaxCalls = 5
  MaxFaults = 2
SYMMETRY Symmetry
INVARIANT TheRowsFileIsThere
INVARIANT ProfilesAreOfTheFile
INVARIANT HistoryIsTrue
CHECK_DEADLOCK FALSE
