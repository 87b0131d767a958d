SPECIFICATION Spec
CONSTANTS
  None = None
  Opaque = Opaque
  NsOf <- MCNsOf
  Universe <- ReviewUniverse
  Start <- ReviewStart
  Validates <- AllKeys
  MaxEdits = 3
  MaxAdmitted = 2
INVARIANTS TypeOK ClassesHeld GatewaysHeld DeniedIsUnserved PassedIsServed
CHECK_DEADLOCK FALSE
