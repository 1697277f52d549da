SPECIFICATION Spec
CONSTANTS
    Writers = {w1, w2, w3}
    Contents = {c1, c2}
    Deaths = TRUE
    MaxStores = 4
    MaxFaults = 1
    MaxRots = 1
    MaxLosses = 1
INVARIANTS
    BlobsSound
    AckedStored
    
PROPERTY
    ImplementsStore
SYMMETRY Symmetry
CHECK_DEADLOCK FALSE
