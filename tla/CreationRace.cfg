SPECIFICATION Spec
CONSTANTS
  None = None
  NsOf <- MCNsOf
  Universe <- RaceUniverse
  Start <- RaceStart
  Tenants <- MCTenants
  MaxEdits = 2
  MaxBusy = 2
INVARIANT Converged
CHECK_DEADLOCK FALSE
