\* Every graph over three nodes with every legal transition of every consistent
\* state vector; every context of up to four segments under three profiles; one
\* build beside writers of two tenants; every pair of engines.
SPECIFICATION CallsSpec
CONSTANTS
  Nodes = {1, 2, 3}
  Inputs <- MCInputs
  Profiles <- MCProfiles
  Count <- MCCount
  Principals <- MCPrincipals
  Conversations = {"c1"}
  SourceIds = {"s1", "s2"}
  Revisions = {1, 2}
  Contents = {"x"}
  Damaged = "damaged"
  Trusts = {"user"}
  Policies <- MCPolicies
  Selections <- MCSelections
  RecentLimit = 2
  RecentPriority = 1
  Builds = {"b1"}
  MaxEntries = 3
  MaxSources = 3
  Configs <- MCConfigs
  Loads <- MCLoads
  Tasks <- MCTasks
  Nothing = "nothing"
CONSTRAINT SomeBuildRuns
INVARIANTS
  RefreshIsClosure
  EventsInCausalOrder
  FitsWithRequired
  PriorityIsKept
  EntriesReadable
  BuiltIsAuthorized
  NothingIsSkipped
  ProductionIsVerified
  ProvenanceIsTrue
\* The loops end.
CHECK_DEADLOCK FALSE
