SPECIFICATION Spec
CONSTANTS
  None = None
  Specs <- MCSpecs
  Statuses <- MCStatuses
  Hosts <- MCHosts
  Requests <- MCRequests
  MaxRules = 2
  MaxEdits = 5
INVARIANTS TypeOK SplitsAsDeclared MismatchDropped RightBackend
