SPECIFICATION Spec
CONSTANTS
  t1 = t1
  t2 = t2
  b1 = b1
  b2 = b2
  Tasks = {t1, t2}
  Bodies = {b1, b2}
  Drafts <- MCDrafts
  None = None
  Unknown = Unknown
  MAX_TEST_RETRIES = 2
  MaxToolCalls = 1
  MaxBatch = 1
  ToolTurnBound = 1
  Obedient = FALSE
  MaxCrashes = 2
  MaxResets = 1
  MaxGitFailures = 1
INVARIANTS
  TypeOK
  QueueOrder
  CurrentStepIsPlanned
  RetryBudget
PROPERTIES
  QueueSpec
