SPECIFICATION PublishSpec
CONSTANTS
    Record = {r1, r2}
    Blank = Blank
    Sz = 3
    ListAsks = {0, 2}
    MaxDeaths = 1
    MaxTime = 6
    Interval = 2
    Freqs = {1, 2}
    Silent = {3}
    MaxQueue = 2
INVARIANTS
    TypeOK
    
    
    
    
    
PROPERTY
    ImplementsWindow
