CONSTANTS
  p1 = p1
  p2 = p2
  p3 = p3
  Pids = {p1, p2, p3}
  Default = "default"
  Configured = "configured"
  MaxInodes = 3
  MaxStarts = 4
  MaxAtOnce = 3
  OpenMayFail = TRUE
SPECIFICATION Spec
SYMMETRY Interchangeable
INVARIANT TypeOK
PROPERTIES
  StaysGuarded
  FreshStartGuarded
CHECK_DEADLOCK FALSE
