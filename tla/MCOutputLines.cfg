CONSTANT
  RbufSize = 6
SPECIFICATION LogSpec
INVARIANT LinesLogged
CHECK_DEADLOCK FALSE
