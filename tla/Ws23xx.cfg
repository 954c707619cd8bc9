SPECIFICATION Spec
CONSTANTS
    MaxResets = 2
    MaxRetries = 2
    HistSlots = 3
    MaxEpoch = 2
    MaxStored = 5
    HistAsks = {0, 2}
    Images <- MCImages
    ToolReads <- MCToolReads
    HexReads <- MCHexReads
    Sets <- MCSets
    ArTimers <- MCArTimers
INVARIANTS
    TypeOK
    
    BatchOwn
    FieldsWhole
    HistoryDated
    WriteDone
    OutdoorReal
PROPERTY
    CallEnds
