SPECIFICATION Spec
CONSTANTS
  t1 = t1
  t2 = t2
  b1 = b1
  b2 = b2
  Tasks = {t1, t2}
  Bodies = {b1, b2}
  Drafts <- MCOnePlan
  None = None
  Unknown = Unknown
  MAX_TEST_RETRIES = 2
  MaxToolCalls = 2
  MaxBatch = 1
  ToolTurnBound = 4
  Obedient = TRUE
  MaxCrashes = 1
  MaxResets = 0
  MaxGitFailures = 1
INVARIANTS
  ObedientStaysInBudget
PROPERTIES
  PlanDescends
  ApprovedPlanEnds
