\* Two workflows of one tenant or of two, claimed by either of two owners.
SPECIFICATION Spec
CONSTANTS
  Workflows = {w1, w2}
  Tenants = {t1, t2}
  Keys = {k1, k2}
  Packets = {p1}
  Owners = {o1, o2}
  strict = strict
  lenient = lenient
  good = good
  bad = bad
  None = None
  Policies <- MCPolicies
  Results <- MCResults
  Accepts <- MCAccepts
  LeaseTimes = {1, 2}
  ScanLimit = 2
SYMMETRY StoreSymmetry
INVARIANTS
  PublishedOutcome
  JudgedByBoundPolicy
  AuditTrail
PROPERTIES
  LosersAreFenced
  RecoveryNeedsEvidence
  LifecycleSpec
\* Judged, failed and cancelled tasks never move again.
CHECK_DEADLOCK FALSE
