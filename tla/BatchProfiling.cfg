SPECIFICATION FairSpec
CONSTANTS
  Callers = {c1, c2}
  Client = c1
  BatchSize = 2
  MaxLive = 2
  MaxTables = 5
  MaxDuplicates = 2
  MaxFaults = 1
INVARIANT ProgressIsTrue
INVARIANT AnswersAddUp
INVARIANT NothingOutlivesTheSource
PROPERTY ClientFinishes
CHECK_DEADLOCK FALSE
