\* Two competing dispatchers with one slot each, one workflow without a binding.
SPECIFICATION Spec
CONSTANTS
  Workflows = {w1, u}
  Unbound = {u}
  Dispatchers = {d1, d2}
  Concurrency = 1
  CounterCap = 3
  None = None
SYMMETRY DispatcherSymmetry
INVARIANTS
  OneExecution
  EveryDispatchAccounted
\* Dispatchers may be stopped and every row settled.
CHECK_DEADLOCK FALSE
