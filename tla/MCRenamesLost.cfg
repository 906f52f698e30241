CONSTANTS
  d1 = d1
  d2 = d2
  k1 = k1
  k2 = k2
  k3 = k3
  Dirs = {d1, d2}
  Cookies = {k1, k2, k3}
  PoolSize = 2
  MaxCells = 3
  NoHalf = NoHalf
SPECIFICATION Spec
SYMMETRY Interchangeable
INVARIANT EveryRenameReported
CHECK_DEADLOCK FALSE
