SPECIFICATION Spec
CONSTANTS
  None = None
  NsOf <- MCNsOf
  Universe <- BusyUniverse
  Start <- BusyStart
  Tenants <- MCTenants
  MaxEdits = 3
  MaxBusy = 2
INVARIANTS NothingForgotten OwnChangeSubmitted
CHECK_DEADLOCK FALSE
