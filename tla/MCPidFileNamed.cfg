CONSTANTS
  p1 = p1
  p2 = p2
  Pids = {p1, p2}
  Default = "default"
  Configured = "default"
  MaxInodes = 2
  MaxStarts = 2
  MaxAtOnce = 1
  OpenMayFail = FALSE
SPECIFICATION Spec
INVARIANT RunningDaemonNamed
CHECK_DEADLOCK FALSE
