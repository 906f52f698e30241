CONSTANTS
  BufSize = 3
  MaxLength = 8
  MaxLines = 10
  FileContents <- MCContents
SPECIFICATION ReaderSpec
INVARIANTS
  ReaderTypeOK
  RegularLinesRead
PROPERTY ReadToTheEnd
CHECK_DEADLOCK FALSE
