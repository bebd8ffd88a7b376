SPECIFICATION Spec
CONSTANTS
  t1 = t1
  t2 = t2
  b1 = b1
  b2 = b2
  Tasks = {t1, t2}
  Bodies = {b1, b2}
  Drafts <- MCOnePlan
  None = None
  Unknown = Unknown
  MAX_TEST_RETRIES = 3
  MaxToolCalls = 1
  MaxBatch = 2
  ToolTurnBound = 2
  Obedient = FALSE
  MaxCrashes = 2
  MaxResets = 0
  MaxGitFailures = 1
INVARIANTS
  AttemptsAreCounted
  BudgetMatchesHistory
  HistoryIsComplete
  HistoryIsOwnTask
  ApprovalIsDurable
  CommitIsPure
  CompletedIsCommitted
  CommitsFollowPlan
  RepeatedCommitsAreCrashes
