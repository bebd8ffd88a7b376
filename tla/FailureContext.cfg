SPECIFICATION Spec
CONSTANTS
  t1 = t1
  t2 = t2
  b1 = b1
  b2 = b2
  Tasks = {t1, t2}
  Bodies = {b1, b2}
  Drafts <- MCOnePlan
  None = None
  Unknown = Unknown
  MAX_TEST_RETRIES = 2
  MaxToolCalls = 1
  MaxBatch = 1
  ToolTurnBound = 1
  Obedient = TRUE
  MaxCrashes = 0
  MaxResets = 0
  MaxGitFailures = 0
INVARIANT FailureContextIsTrue
