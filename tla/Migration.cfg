SPECIFICATION Spec
CONSTANTS
  None = None
  NsOf <- MCNsOf
  Universe <- MigrationUniverse
  Start <- MigrationStart
  Tenants <- MCTenants
  MaxEdits = 1
  MaxBusy = 1
INVARIANT OnlyOwnGateways
CHECK_DEADLOCK FALSE
