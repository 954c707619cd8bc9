SPECIFICATION Spec
CONSTANTS
  MaxTime = 2
  LogSize = 2
  ArLen = 1
  HwArchive = TRUE
  Sqlite = TRUE
  Garbage = Garbage
INVARIANTS NotifiedReal
