\* Every dependency graph over three nodes.
SPECIFICATION GraphSpec
CONSTANTS
  Nodes = {n1, n2, n3}
  Owners = {o1}
  strict = strict
  lenient = lenient
  good = good
  bad = bad
  None = None
  Shapes <- MCShapes
  Policies <- MCPolicies
  Results <- MCResults
  Accepts <- MCAccepts
  LeaseTimes = {1, 2}
  Limits <- MCLimits
  TokenCounts = {0, 1}
  TokenBound = 2
  ScanLimit = 1
SYMMETRY GraphSymmetry
INVARIANTS
  ConsistentStates
  AcceptedHandoff
  CancellationIsFinal
PROPERTIES
  NodeLifecycleSpec
\* A settled graph never moves again.
CHECK_DEADLOCK FALSE
