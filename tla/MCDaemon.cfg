CONSTANTS
  f1 = f1
  f2 = f2
  FileNames = {f1, f2}
  DefaultFile = f1
  High = 6
  Configs <- Quiet
  MaxEdits = 2
  MaxAsks = 2
  MaxQueue = 1
  MaxCommands = 1
SPECIFICATION Spec
INVARIANTS
  TypeOK
  DescriptorsRight
  LogWhereConfigured
  RequestKept
  ChildrenKnown
PROPERTIES
  StopsWhenAsked
  ReloadTakesEffect
  CommandsReaped
CHECK_DEADLOCK FALSE
