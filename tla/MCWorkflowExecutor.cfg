\* Two workers, two workflows nobody judges, a scan limit that one of them
\* reaches and both exceed; fair time and restarts.
SPECIFICATION FairExecSpec
CONSTANTS
  Workflows = {w1, w2}
  Workers = {x1, x2}
  Tenants = {t1}
  Keys = {k1, k2}
  Packets = {p1}
  Owners = {o1}
  good = good
  bad = bad
  None = None
  Policies = {}
  Results <- MCResults
  Accepts = {}
  LeaseTimes = {1}
  ScanLimit = 1
INVARIANTS
  AtMostOnceInference
  PublishesTheAnswer
PROPERTIES
  RunningIsResolved
  RecordedIsPublished
\* Judged, failed, cancelled and unresolved tasks never move again.
CHECK_DEADLOCK FALSE
