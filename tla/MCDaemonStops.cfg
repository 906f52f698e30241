CONSTANTS
  f1 = f1
  f2 = f2
  FileNames = {f1}
  DefaultFile = f1
  High = 7
  Configs <- Chatty
  MaxEdits = 1
  MaxAsks = 3
  MaxQueue = 1
  MaxCommands = 0
SPECIFICATION Spec
PROPERTY StopsWhenAsked
CHECK_DEADLOCK FALSE
