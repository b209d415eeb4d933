\* Two concurrent calls on two deployments.
SPECIFICATION RouterSpec
CONSTANTS
  Calls = {c1, c2}
  d1 = d1
  d2 = d2
  Registered <- MCRegistered
  CircuitOpen = {}
  Tasks <- MCTasks
  Budgets <- MCBudgets
  Tokens = {1, 2}
  MaxAttempts = 3
  Backoff <- MCBackoff
  Window = 1
  TTL = 2
  ProbeTimeout = 1
  None = None
SYMMETRY RouterSymmetry
INVARIANTS
  FailoverFollowsRanking
  EveryAttemptIsBudgeted
  CallsMeetDeadline
PROPERTIES
  AvoidsFailed
\* Calls end for good.
CHECK_DEADLOCK FALSE
