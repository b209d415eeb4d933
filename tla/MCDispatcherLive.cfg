\* One dispatcher with more slots than there are workflows without a binding.
SPECIFICATION Spec
CONSTANTS
  Workflows = {w1, w2, u}
  Unbound = {u}
  Dispatchers = {d1}
  Concurrency = 2
  CounterCap = 1
  None = None
PROPERTIES
  StopReturns
  ReadyIsServed
  WaitIdleReturns
\* Dispatchers may be stopped and every row settled.
CHECK_DEADLOCK FALSE
