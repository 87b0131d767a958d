SPECIFICATION FairSpec
CONSTANTS
  None = None
  NsOf <- MCNsOf
  Universe <- BusyUniverse
  Start <- BusyStart
  Tenants <- MCTenants
  MaxEdits = 2
  MaxBusy = 2
PROPERTY WorkEnds
CHECK_DEADLOCK FALSE
