SPECIFICATION FairSpec
CONSTANTS
  None = None
  NsOf <- MCNsOf
  Universe <- MCUniverse
  Start <- Cluster
  Tenants <- MCTenants
  Previous <- MCPrevious
  Groups <- MCGroups
  MaxEdits = 1
  MaxFailures = 1
INVARIANTS TypeOK CaughtUp StartupDeploys
PROPERTIES PoolsKept StartupEnds
CHECK_DEADLOCK FALSE
