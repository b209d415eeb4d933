\* Two requests of the endpoints that build their task with the permit taken.
SPECIFICATION AdmissionSpec
CONSTANTS
  Requests = {r1, r2}
  Building = {r1, r2}
  Tenants = {t1, t2}
  t1 = t1
  Estimates = {0, 2}
  Policy <- MCPolicy
INVARIANTS
  PermitsComeBack
\* Requests end for good.
CHECK_DEADLOCK FALSE
