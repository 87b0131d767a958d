SPECIFICATION Spec
CONSTANTS
  Keys = {k1, k2}
  Froms = {f1, f2}
  Tos = {t1, t2}
  None = None
  Missing = Missing
  Half = 2
  Grants <- SmallGrants
INVARIANTS FromsPresent ExistsIffGranted
