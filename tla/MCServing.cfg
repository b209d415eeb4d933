\* Every pair of engines; providers may be given another model, release or
\* profile at any time.
SPECIFICATION ServingSpec
CONSTANTS
  Configs <- MCConfigs
  Loads <- MCLoads
  Tasks <- MCTasks
  Nothing = "nothing"
INVARIANTS
  InspectionFailsClosed
\* A call ends.
CHECK_DEADLOCK FALSE
