CONSTANTS
    b1 = b1
    b2 = b2
    Base = {b1, b2}
    Coder = {c1, c2, c3}
    MaxCoders = 2
    Cap = 1
    Warm <- Served
SPECIFICATION FairSpec
INVARIANTS
    WorkerTypeOK
    PinsCoverHolders
    SlotsConserved
    PresenceSettles
    
PROPERTIES
    
    WorkDrains
CHECK_DEADLOCK FALSE
