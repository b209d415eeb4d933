\* One dispatcher with as many slots as there are workflows without a binding.
SPECIFICATION Spec
CONSTANTS
  Workflows = {w1, u}
  Unbound = {u}
  Dispatchers = {d1}
  Concurrency = 1
  CounterCap = 1
  None = None
PROPERTIES
  ReadyIsServed
\* Dispatchers may be stopped and every row settled.
CHECK_DEADLOCK FALSE
