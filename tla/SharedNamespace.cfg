SPECIFICATION Spec
CONSTANTS
  None = None
  NsOf <- MCNsOf
  Universe <- SharedUniverse
  Start <- SharedStart
  Tenants <- MCTenants
  MaxEdits = 1
  MaxBusy = 1
INVARIANT PoolsInPlace
CHECK_DEADLOCK FALSE
