SPECIFICATION GSpec
CONSTANTS
  Tools = {t1}
  Workers = {w1}
  CallableOps = {"submit", "approve", "reject", "revoke", "deprecate"}
  MaxRequests = 5
  MayFail = FALSE
  Callers = {c1, c2}
  MaxRuns = 4
INVARIANT TrailExplainsStatus
INVARIANT StaleRunsAreBounded
INVARIANT RunsAreEarned
PROPERTY LifecycleSpec
CHECK_DEADLOCK FALSE
