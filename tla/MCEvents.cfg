CONSTANTS
  d1 = d1
  d2 = d2
  k1 = k1
  i1 = i1
  i2 = i2
  Dirs <- MCDirs
  Actions <- MCActions
  AllEvents = {"create", "moved_from", "moved_to"}
  Cookies = {k1}
  Inodes = {i1, i2}
  Gone = Gone
  PoolSize = 1
  MaxCells = 1
  NoHalf = NoHalf
  MaxSent = 3
  MaxReads = 2
SPECIFICATION EventsSpec
SYMMETRY Interchangeable
INVARIANTS
  EventsTypeOK
  RightDirectory
  DistinctWatches
  PairedInOneReading
CHECK_DEADLOCK FALSE
