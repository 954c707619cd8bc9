SPECIFICATION Spec
CONSTANTS
  NSlots = 3
  Layouts <- Either
  MaxHups = 1
  MaxQueue = 1
INVARIANTS HandlerSet
