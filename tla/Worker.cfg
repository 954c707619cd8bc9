SPECIFICATION Spec
CONSTANTS
  NSlots = 3
  Layouts <- WithIC
  MaxHups = 1
  MaxQueue = 1
INVARIANTS TypeOK DriverOpenWhileUsed AllStopped SafeOnceCreated
  
