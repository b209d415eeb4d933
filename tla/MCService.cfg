\* Two requests; one of them is of an endpoint that may raise before its try
\* block.
SPECIFICATION ServiceSpec
CONSTANTS
  Requests = {"r1", "r2"}
  Tenants = {"t1", "t2"}
  Building = {"r2"}
  Estimates = {1}
  Policy <- MCPolicy
  ApiKeys <- MCApiKeys
  Operations <- MCOperations
  Eligible = {"d1"}
INVARIANTS
  AcceptedIsRecorded
  PermitsAreReleased
  ProductionIsGuarded
  ConcurrencyIsBounded
\* Requests are answered once.
CHECK_DEADLOCK FALSE
