SPECIFICATION Spec
CONSTANTS
  None = None
  NsOf <- MCNsOf
  Universe <- CalmUniverse
  Start <- CalmStart
  Tenants <- MCTenants
  MaxEdits = 2
  MaxBusy = 1
INVARIANTS TypeOK Converged PoolsInPlace ForeignOnlyEmptied
CHECK_DEADLOCK FALSE
