\* Two workers on every dependency graph over two nodes.
SPECIFICATION FairExecutionSpec
CONSTANTS
  Nodes = {n1, n2}
  Workers = {x1, x2}
  Owners = {o1}
  strict = strict
  lenient = lenient
  good = good
  bad = bad
  None = None
  Shapes <- MCShapes
  Policies <- MCPolicies
  Results <- MCResults
  Accepts <- MCAccepts
  LeaseTimes = {1, 2}
  Limits <- MCLimits
  TokenCounts = {0, 1}
  TokenBound = 2
  ScanLimit = 2
INVARIANTS
  NodeRunsOnce
  HandoffStaysAccepted
  AttemptsAreShared
PROPERTIES
  NodeIsResolved
\* A settled graph never moves again.
CHECK_DEADLOCK FALSE
