CONSTANTS
  i1 = i1
  i2 = i2
  x = x
  y = y
  z = z
  u1 = u1
  u2 = u2
  sh = sh
  file = file
  syslog = syslog
  v1 = v1
  v2 = v2
  Names = {"main", "side", "gone"}
  Main = "main"
  Contents <- MCContents
  MaxOpen = 3
  MaxReadings = 2
  Inodes = {i1, i2}
  Events = {"a", "b"}
  Commands = {x, y, z}
  NoCommand = NoCommand
  Places = 2
  Ids = {u1, u2}
  Shells = {sh}
  Drivers = {file, syslog}
  DrvOpts <- MCDrvOpts
  Values = {v1, v2}
  CommandLines <- MCCommandLines
  Bad = Bad
  Unset = Unset
  Junk = Junk
SPECIFICATION Spec
INVARIANTS
  TypeOK
  ActionsDisjoint
  PlacesEnough
  
PROPERTIES
  PromiseSpec
  ReadingEnds
CHECK_DEADLOCK FALSE
