SPECIFICATION Spec
CONSTANTS
  MaxTime = 5
  LogSize = 3
  ArLen = 2
  HwArchive = TRUE
  Sqlite = TRUE
  Garbage = Garbage
INVARIANTS TypeOK NoKeyConflict NoSilentGap 
 
